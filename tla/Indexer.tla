------------------------------- MODULE Indexer -------------------------------
(***************************************************************************)
(* ingest.ts over a Store: the indexer follows the head of the chain in    *)
(* passes, batch after batch, and turns the events of three contracts into *)
(* rows.  One run's receipts and seal, one agent's listing and one agent's *)
(* bond stand for all of them: rows of different keys never meet.          *)
(*                                                                         *)
(* A pass awaits the chain many times, and in between the chain grows and  *)
(* may replace its last blocks.  A failed request or a crash ends the pass *)
(* where it is; the rows written so far stay, as they do in Postgres, and  *)
(* the next pass starts from the cursor.                                   *)
(***************************************************************************)
EXTENDS Integers, Sequences, FiniteSets

CONSTANTS
    StepIndexes,    \* the steps the run may anchor
    Contents,       \* what a block may hold: sequences of events
    DeploymentBlock,
    BatchSize,
    FinalityDepth,  \* how many of the last blocks the chain may still replace
    MaxHeight,      \* bound: blocks
    MaxReorgs,      \* bound: how often blocks are replaced
    MaxFailures     \* bound: passes that fail

ASSUME IndexerBounds ==
    /\ DeploymentBlock \in 1 .. MaxHeight /\ BatchSize \in Nat \ {0} /\ FinalityDepth \in Nat
    /\ MaxHeight \in Nat /\ MaxReorgs \in Nat /\ MaxFailures \in Nat

RunEvents == {"step", "seal"}
AgentEvents == {"list", "unlist", "stake", "unstake", "withdraw", "slash"}
ASSUME ContentsAreEvents ==
    /\ Contents \subseteq Seq([kind : RunEvents \cup AgentEvents, value : Nat])
    /\ \A events \in Contents : \A k \in DOMAIN events :
          events[k].kind = "step" => events[k].value \in StepIndexes

VARIABLES
    chain,      \* height -> block: its events, and the fork it belongs to
    forks,      \* how often blocks were replaced
    store,      \* the tables and the cursor
    pass,       \* where catchUp is and its local variables
    failures,
    settled     \* blocks were replaced above the cursor only, while no pass
                \* ran, and the next one came before they were final

indexVars == <<chain, forks, store, pass, failures, settled>>

Heights == 1 .. MaxHeight
None == [missing |-> TRUE]

-----------------------------------------------------------------------------
\* The contracts, as far as their events go: what they say of an agent.
Genesis == [version |-> 0, active |-> FALSE, amount |-> 0, unlockAt |-> 0, slashed |-> FALSE]

\* Whether the contracts in this state can emit the event.  A stake restates
\* the whole bond.
MayEmit(s, e) ==
    CASE e.kind = "list" -> e.value > s.version
      [] e.kind = "unlist" -> s.version > 0
      [] e.kind = "stake" -> ~s.slashed /\ e.value = s.amount + 1
      [] e.kind = "unstake" -> ~s.slashed /\ s.amount > 0
      [] e.kind = "withdraw" -> ~s.slashed /\ s.amount > 0 /\ s.unlockAt > 0
      [] e.kind = "slash" -> ~s.slashed /\ s.amount > 0
      [] OTHER -> TRUE

Emit(s, e) ==
    CASE e.kind = "list" -> [s EXCEPT !.version = e.value, !.active = TRUE]
      [] e.kind = "unlist" -> [s EXCEPT !.active = FALSE]
      [] e.kind = "stake" -> [s EXCEPT !.amount = e.value, !.unlockAt = 0]
      [] e.kind = "unstake" -> [s EXCEPT !.unlockAt = e.value]
      [] e.kind = "withdraw" -> [s EXCEPT !.amount = 0, !.unlockAt = 0]
      [] e.kind = "slash" -> [s EXCEPT !.amount = 0, !.unlockAt = 0, !.slashed = TRUE]
      [] OTHER -> s

\* The state of the contracts after each event of a block that finds them in
\* state s, and after each block of a chain.
Emitted(s, events) ==
    LET state[k \in 0 .. Len(events)] == IF k = 0 THEN s ELSE Emit(state[k - 1], events[k])
    IN  state

Replay(blocks) ==
    LET state[h \in 0 .. Len(blocks)] ==
            IF h = 0 THEN Genesis
            ELSE Emitted(state[h - 1], blocks[h].events)[Len(blocks[h].events)]
    IN  state

\* What the contracts say after the k-th event of block h.
StateAt(blocks, h, k) == Emitted(Replay(blocks)[h - 1], blocks[h].events)[k]

AgentsAreLegal(blocks) ==
    \A h \in DOMAIN blocks : \A k \in DOMAIN blocks[h].events :
        MayEmit(StateAt(blocks, h, k - 1), blocks[h].events[k])

\* The logs of these heights, as getLogs gives them.
LogsIn(blocks, heights) ==
    UNION {{[height |-> h, pos |-> k, fork |-> blocks[h].fork, event |-> blocks[h].events[k]] :
               k \in DOMAIN blocks[h].events} : h \in DOMAIN blocks \cap heights}
StepsIn(logs) == {log.event.value : log \in {l \in logs : l.event.kind = "step"}}
SealsIn(logs) == {log \in logs : log.event.kind = "seal"}

Earlier(a, b) == a.height < b.height \/ (a.height = b.height /\ a.pos < b.pos)

\* A step is anchored once, and none after the seal, which counts them.
RunIsLegal(blocks) ==
    LET logs == LogsIn(blocks, Heights)
    IN  \A log \in logs :
            LET before == {l \in logs : Earlier(l, log)}
            IN  /\ log.event.kind \in RunEvents => SealsIn(before) = {}
                /\ log.event.kind = "step" => log.event.value \notin StepsIn(before)
                /\ log.event.kind = "seal" =>
                      log.event.value > 0 /\ log.event.value = Cardinality(StepsIn(before))

\* Nothing is emitted before the contracts are deployed.
Legal(blocks) ==
    /\ \A h \in DOMAIN blocks : h < DeploymentBlock => blocks[h].events = <<>>
    /\ RunIsLegal(blocks)
    /\ AgentsAreLegal(blocks)

Block(events, fork) == [events |-> events, fork |-> fork]

\* Blocks the store has recorded that are not the chain's.
Replaced == {h \in DOMAIN chain : store.blocks[h] # None /\ store.blocks[h].fork # chain[h].fork}

Grow ==
    /\ Len(chain) < MaxHeight
    /\ \E events \in Contents : chain' = Append(chain, Block(events, forks))
    /\ Legal(chain')
    /\ settled' = (settled /\ \A h \in Replaced : h > Len(chain) - FinalityDepth)
    /\ UNCHANGED <<forks, store, pass, failures>>

\* A longer branch wins: the blocks from height h up are replaced.
Reorg ==
    /\ forks < MaxReorgs
    /\ \E h \in DOMAIN chain :
          /\ h > Len(chain) - FinalityDepth
          /\ \E contents \in [h .. Len(chain) -> Contents] :
                LET fresh == [k \in DOMAIN chain |->
                        IF k < h THEN chain[k] ELSE Block(contents[k], forks + 1)]
                IN  Legal(fresh) /\ chain' = fresh
          /\ settled' = (settled /\ h > store.cursor /\ pass.pc = "idle")
    /\ forks' = forks + 1
    /\ UNCHANGED <<store, pass, failures>>

-----------------------------------------------------------------------------
\* The store.  A row remembers the height, a receipt or seal also the fork,
\* of the block it was read from.
EmptyStore == [cursor |-> 0, blocks |-> [h \in Heights |-> None],
               steps |-> [i \in StepIndexes |-> None], seal |-> None,
               listing |-> None, bond |-> None]

Idle == [pc |-> "idle", from |-> 0, to |-> 0, head |-> 0, at |-> 0, logs |-> {}]

IndexInit ==
    /\ chain = <<>> /\ forks = 0
    /\ store = EmptyStore
    /\ pass = Idle
    /\ failures = 0
    /\ settled = TRUE

Kept(row, h) == IF row # None /\ row.height >= h THEN None ELSE row

\* Variant for the mutation checks: the receipts stay.
RollbackFrom_KeepSteps(s, h) ==
    [s EXCEPT !.seal = Kept(@, h), !.listing = Kept(@, h), !.bond = Kept(@, h),
              !.blocks = [k \in Heights |-> IF k >= h THEN None ELSE @[k]],
              !.cursor = IF @ >= h THEN h - 1 ELSE @]

\* rollbackFrom, one transaction: every row read at or above h is dropped.
RollbackFrom(s, h) ==
    [s EXCEPT !.steps = [i \in StepIndexes |-> Kept(@[i], h)],
              !.seal = Kept(@, h), !.listing = Kept(@, h), !.bond = Kept(@, h),
              !.blocks = [k \in Heights |-> IF k >= h THEN None ELSE @[k]],
              !.cursor = IF @ >= h THEN h - 1 ELSE @]

\* Variant for the mutation checks: a request to unstake forgets the amount.
HeldBond_Zero(s) == 0

\* upsertAgentListing: versions only move forward.
NewerListing(s, version) == s.listing = None \/ s.listing.version <= version

\* UnstakeRequested does not restate the bond: what the row holds is carried on.
HeldBond(s) == IF s.bond = None THEN 0 ELSE s.bond.amount

\* upsertAgentBond: later blocks win, slashed is sticky.
UpsertBond(s, h, amount, unlockAt, slashed) ==
    IF s.bond # None /\ s.bond.height > h THEN s
    ELSE [s EXCEPT !.bond = [amount |-> amount, unlockAt |-> unlockAt, height |-> h,
                             slashed |-> slashed \/ (@ # None /\ @.slashed)]]

Recorded(s, log) == [s EXCEPT !.blocks[log.height] = [fork |-> log.fork]]

\* What one event does to the tables.
Upsert(s, log) ==
    LET e == log.event
        h == log.height
    IN  CASE e.kind = "step" -> [s EXCEPT !.steps[e.value] = [height |-> h, fork |-> log.fork]]
          [] e.kind = "seal" ->
                 [s EXCEPT !.seal = [height |-> h, fork |-> log.fork, counted |-> e.value]]
          [] e.kind = "list" ->
                 IF NewerListing(s, e.value)
                 THEN [s EXCEPT !.listing = [version |-> e.value, active |-> TRUE, height |-> h]]
                 ELSE s
          [] e.kind = "unlist" ->
                 IF s.listing = None THEN s
                 ELSE [s EXCEPT !.listing.active = FALSE, !.listing.height = h]
          [] e.kind = "stake" -> UpsertBond(s, h, e.value, 0, FALSE)
          [] e.kind = "unstake" -> UpsertBond(s, h, HeldBond(s), e.value, FALSE)
          [] e.kind = "withdraw" -> UpsertBond(s, h, 0, 0, FALSE)
          [] e.kind = "slash" -> UpsertBond(s, h, 0, 0, TRUE)

-----------------------------------------------------------------------------
\* catchUp and ingestRange.
Resume == LET next == store.cursor + 1 IN IF next > DeploymentBlock THEN next ELSE DeploymentBlock

BatchEnd(from, head) ==
    IF from + BatchSize - 1 > head THEN head ELSE from + BatchSize - 1

\* From here to the end of the batch, or of the pass when the head it started
\* with is reached.
NextBatch(from, head) ==
    IF from > head THEN Idle
    ELSE [Idle EXCEPT !.pc = "check", !.from = from, !.to = BatchEnd(from, head), !.head = head]

StartPass ==
    /\ pass.pc = "idle"
    /\ pass' = NextBatch(Resume, Len(chain))
    /\ UNCHANGED <<chain, forks, store, failures, settled>>

\* findReorg: only blocks of the batch that the chain may still replace.
FindReorg ==
    LET finalised == Len(chain) - FinalityDepth
    IN  /\ pass.pc = "check"
        /\ pass' = [pass EXCEPT !.pc = "scan",
                                !.at = IF pass.from > finalised THEN pass.from ELSE finalised]
        /\ UNCHANGED <<chain, forks, store, failures, settled>>

\* One block of the scan.  A block the store has not recorded is passed over;
\* the hash of one it has is asked of the chain.
Scan ==
    /\ pass.pc = "scan"
    /\ IF pass.at > pass.to
       THEN pass' = [pass EXCEPT !.pc = "receipts"] /\ UNCHANGED store
       ELSE IF store.blocks[pass.at] = None
               \/ store.blocks[pass.at].fork = chain[pass.at].fork
            THEN pass' = [pass EXCEPT !.at = @ + 1] /\ UNCHANGED store
            ELSE /\ store' = RollbackFrom(store, pass.at)
                 /\ pass' = [pass EXCEPT !.pc = "receipts",
                                         !.from = IF pass.at < @ THEN pass.at ELSE @]
    /\ UNCHANGED <<chain, forks, failures, settled>>

\* One eth_getLogs call per contract, each of the chain as it is then.
Contract(e) ==
    CASE e.kind \in {"step", "seal"} -> "receipts"
      [] e.kind \in {"list", "unlist"} -> "adapters"
      [] OTHER -> "bonds"

LogsOf(contract) ==
    {log \in LogsIn(chain, pass.from .. pass.to) : Contract(log.event) = contract}

Then == [receipts |-> "adapters", adapters |-> "bonds", bonds |-> "apply"]

GetLogs ==
    /\ pass.pc \in DOMAIN Then
    /\ pass' = [pass EXCEPT !.logs = @ \cup LogsOf(pass.pc), !.pc = Then[@]]
    /\ UNCHANGED <<chain, forks, store, failures, settled>>

\* Ascending by block, then by position in it; where a block was replaced
\* between two calls, in the order of the calls.
Turn == [receipts |-> 1, adapters |-> 2, bonds |-> 3]
Precedes(a, b) ==
    \/ Earlier(a, b)
    \/ /\ a.height = b.height /\ a.pos = b.pos
       /\ Turn[Contract(a.event)] < Turn[Contract(b.event)]

NextLog == CHOOSE log \in pass.logs : \A other \in pass.logs : ~Precedes(other, log)

\* recordBlock and the event's upsert.
Apply ==
    /\ pass.pc = "apply"
    /\ pass.logs # {}
    /\ store' = Upsert(Recorded(store, NextLog), NextLog)
    /\ pass' = [pass EXCEPT !.logs = @ \ {NextLog}]
    /\ UNCHANGED <<chain, forks, failures, settled>>

\* setCursor, then the next batch.
FinishBatch ==
    /\ pass.pc = "apply"
    /\ pass.logs = {}
    /\ store' = [store EXCEPT !.cursor = pass.to]
    /\ pass' = NextBatch(IF pass.to + 1 > DeploymentBlock THEN pass.to + 1 ELSE DeploymentBlock,
                         pass.head)
    /\ UNCHANGED <<chain, forks, failures, settled>>

\* Variant for the mutation checks: a pass that throws ends the loop.
AfterFailure_Stop == [Idle EXCEPT !.pc = "stopped"]

\* The follow loop reports what a pass threw and polls again.
AfterFailure == Idle

\* A request of the chain or the database fails, or the process crashes and is
\* started again; between recordBlock and the upsert as well.
Fail ==
    /\ failures < MaxFailures
    /\ pass.pc # "idle"
    /\ failures' = failures + 1
    /\ pass' = AfterFailure
    /\ \/ UNCHANGED store
       \/ pass.pc = "apply" /\ pass.logs # {} /\ store' = Recorded(store, NextLog)
    /\ UNCHANGED <<chain, forks, settled>>

PassStep == StartPass \/ FindReorg \/ Scan \/ GetLogs \/ Apply \/ FinishBatch

IndexNext == Grow \/ Reorg \/ PassStep \/ Fail

IndexSpec == IndexInit /\ [][IndexNext]_indexVars

\* The process polls for ever, and requests that do not fail are answered.
IndexFairSpec == IndexSpec /\ WF_indexVars(PassStep)

-----------------------------------------------------------------------------
Indexed == LogsIn(chain, 1 .. store.cursor)
StepRows == {i \in StepIndexes : store.steps[i] # None}
StepRowsTo(h) == {i \in StepRows : store.steps[i].height <= h}

\* Up to the cursor the receipts and seals served are those on chain, at every
\* moment of a pass, whatever failed half-way and was read again, and also when
\* blocks above the cursor were replaced between two passes, some of whose
\* events had been written already, unless they became final before the second.
ReceiptsAreTheChains ==
    settled =>
        /\ StepRowsTo(store.cursor) = StepsIn(Indexed)
        /\ store.seal # None /\ store.seal.height <= store.cursor <=> SealsIn(Indexed) # {}

\* Between passes the listing and the bond shown are what replaying the events
\* gives, after any failures, unless blocks were replaced.
AtRest == pass.pc = "idle" /\ \A h \in Heights : h > store.cursor => store.blocks[h] = None

DirectoryReplaysTheChain ==
    LET replayed == Replay(chain)[store.cursor]
    IN  forks = 0 /\ AtRest =>
            /\ IF store.listing = None THEN replayed.version = 0
               ELSE store.listing.version = replayed.version /\ store.listing.active = replayed.active
            /\ IF store.bond = None THEN replayed.amount = 0 /\ ~replayed.slashed
               ELSE /\ store.bond.amount = replayed.amount /\ store.bond.unlockAt = replayed.unlockAt
                    /\ store.bond.slashed = replayed.slashed

\* The index does not fall behind: when the chain stops growing, its head is
\* indexed, after any number of failed passes.
HeadIsIndexed == <>[](store.cursor = Len(chain))

\* "An indexer that cannot forget is worse than one that lags": receipts of
\* replaced blocks do not stay in the index for good, at least not at heights
\* the chain may still replace.
ReplacedBlocksAreForgotten ==
    <>[](\A i \in StepRows :
            store.steps[i].height > Len(chain) - FinalityDepth
                => store.steps[i].fork = chain[store.steps[i].height].fork)
=============================================================================
