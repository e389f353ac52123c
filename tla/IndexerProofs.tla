---------------------------- MODULE IndexerProofs ----------------------------
(***************************************************************************)
(* What the indexer holds, for every number of blocks, runs and agents.    *)
(*                                                                         *)
(* Of Indexer: for batches of any size, any finality depth and any number  *)
(* of failed passes and replaced blocks, the receipts and seals served up  *)
(* to the cursor are those on chain, as long as what was replaced lay      *)
(* above the cursor, no pass was reading meanwhile, and the indexer looked *)
(* again before it was final; and as long as nothing was replaced, the     *)
(* listing and the bond shown between passes are what the events of the    *)
(* contracts make of them.                                                 *)
(*                                                                         *)
(* Of Explorer: the two stores answer alike, whatever blocks are ingested, *)
(* rolled back and probed in whatever order; probes leave withdrawn agents *)
(* alone; and the receipts of a run shown as sealed fold to the root its   *)
(* executor anchored.                                                      *)
(***************************************************************************)
EXTENDS Indexer, Explorer, FiniteSetTheorems, FunctionTheorems, SequenceTheorems,
        WellFoundedInduction, TLAPS

-----------------------------------------------------------------------------
\* The inductive invariant.  A row points at a block the store has recorded.
RowOK(row) ==
    row # None => /\ row.height \in DOMAIN chain /\ store.blocks[row.height] # None
                  /\ store.blocks[row.height].fork = row.fork

\* The row of a log's event is that of its block.
Written(entry) ==
    /\ entry.event.kind = "step" =>
          store.steps[entry.event.value] # None /\ store.steps[entry.event.value].height = entry.height
    /\ entry.event.kind = "seal" => store.seal # None /\ store.seal.height = entry.height

ChainOK ==
    /\ chain \in Seq([events : Contents, fork : 0 .. forks]) /\ Len(chain) <= MaxHeight /\ forks \in Nat
    /\ \A h \in DOMAIN chain : h < DeploymentBlock => chain[h].events = <<>>
    /\ RunIsLegal(chain)

\* Blocks that were replaced since they were recorded lie above the cursor and
\* are not final yet.
StoreFields == {"cursor", "blocks", "steps", "seal", "listing", "bond"}
StoreOK ==
    /\ DOMAIN store = StoreFields /\ store.cursor \in 0 .. Len(chain)
    /\ DOMAIN store.blocks = Heights /\ DOMAIN store.steps = StepIndexes
    /\ \A h \in Heights : store.blocks[h] # None =>
          h \in DOMAIN chain /\ h >= DeploymentBlock /\ store.blocks[h].fork \in 0 .. forks
    /\ \A h \in Replaced : h > store.cursor /\ h >= Len(chain) - FinalityDepth

\* What a row from a block of the chain says is in that block, and every
\* receipt and seal up to the cursor has its row.
StepRowOK(i) ==
    /\ RowOK(store.steps[i])
    /\ store.steps[i] # None =>
          LET h == store.steps[i].height
          IN  h \in Replaced \/ i \in StepsIn(LogsIn(chain, {h}))
SealRowOK ==
    /\ RowOK(store.seal)
    /\ store.seal # None =>
          LET h == store.seal.height IN h \in Replaced \/ SealsIn(LogsIn(chain, {h})) # {}
RowsOK ==
    /\ \A i \in StepIndexes : StepRowOK(i)
    /\ SealRowOK
    /\ \A entry \in LogsIn(chain, 1 .. store.cursor) : Written(entry)

\* From the end of the scan on, every recorded block of the batch is the
\* chain's; every receipt and seal in it is either to be written or written.
PassFields == {"pc", "from", "to", "head", "at", "logs"}
Reading == {"receipts", "adapters", "bonds", "apply"}
Batch == pass.from .. pass.to
PassOK ==
    /\ DOMAIN pass = PassFields /\ pass.pc \in {"idle", "check", "scan"} \cup Reading
    /\ pass.pc # "idle" => /\ pass.from = Resume /\ pass.to \in Int /\ pass.head \in Int
                           /\ pass.from <= pass.to /\ pass.to <= pass.head /\ pass.head <= Len(chain)
    /\ pass.pc = "scan" =>
          /\ pass.at \in Int /\ pass.at >= pass.from
          /\ \A h \in Batch : h < pass.at => h \notin Replaced
    /\ pass.pc \in Reading => \A h \in Batch : h \notin Replaced
    /\ pass.pc \notin {"adapters", "bonds", "apply"} => pass.logs = {}
    /\ pass.logs \subseteq LogsIn(chain, Batch)
    /\ pass.pc \in {"adapters", "bonds", "apply"} =>
          \A entry \in LogsIn(chain, Batch) :
              entry.event.kind \in RunEvents => entry \in pass.logs \/ Written(entry)

IndexInv == settled => ChainOK /\ StoreOK /\ RowsOK /\ PassOK

-----------------------------------------------------------------------------
\* Rows and blocks are no None.
LEMMA NoneMissing ==
    /\ \A h, f : [height |-> h, fork |-> f] # None
    /\ \A h, f, n : [height |-> h, fork |-> f, counted |-> n] # None
    /\ \A f : [fork |-> f] # None
<1>1. DOMAIN None = {"missing"}
  BY DEF None
<1>2. \A h, f : DOMAIN [height |-> h, fork |-> f] = {"height", "fork"}
  OBVIOUS
<1>3. \A h, f, n : DOMAIN [height |-> h, fork |-> f, counted |-> n] = {"height", "fork", "counted"}
  OBVIOUS
<1>4. \A f : DOMAIN [fork |-> f] = {"fork"}
  OBVIOUS
<1> QED
  BY <1>1, <1>2, <1>3, <1>4

\* Logs are told by where they are.
LogAt(blocks, h, k) ==
    [height |-> h, pos |-> k, fork |-> blocks[h].fork, event |-> blocks[h].events[k]]

LEMMA LogsAre ==
    ASSUME NEW blocks, NEW heights, NEW entry
    PROVE  entry \in LogsIn(blocks, heights) <=>
               \E h \in DOMAIN blocks \cap heights : \E k \in DOMAIN blocks[h].events : entry = LogAt(blocks, h, k)
BY DEF LogsIn, LogAt

LEMMA LogAtFields ==
    ASSUME NEW blocks, NEW h, NEW k
    PROVE  /\ LogAt(blocks, h, k).height = h /\ LogAt(blocks, h, k).pos = k
           /\ LogAt(blocks, h, k).fork = blocks[h].fork /\ LogAt(blocks, h, k).event = blocks[h].events[k]
BY DEF LogAt

\* The same blocks hold the same logs.
LEMMA LogsStay ==
    ASSUME NEW blocks, NEW others, NEW heights,
           DOMAIN blocks \cap heights = DOMAIN others \cap heights,
           \A h \in DOMAIN blocks \cap heights : others[h] = blocks[h]
    PROVE  LogsIn(others, heights) = LogsIn(blocks, heights)
<1>1. \A entry : entry \in LogsIn(others, heights) <=> entry \in LogsIn(blocks, heights)
  BY LogsAre DEF LogAt
<1> QED
  BY <1>1

LEMMA LogsAmong ==
    ASSUME NEW blocks, NEW heights, NEW entry \in LogsIn(blocks, heights)
    PROVE  /\ entry.height \in DOMAIN blocks \cap heights /\ entry.fork = blocks[entry.height].fork
           /\ entry.pos \in DOMAIN blocks[entry.height].events
           /\ entry.event = blocks[entry.height].events[entry.pos]
           /\ \A others : entry.height \in others => entry \in LogsIn(blocks, others)
<1>a. PICK h \in DOMAIN blocks \cap heights : \E k \in DOMAIN blocks[h].events : entry = LogAt(blocks, h, k)
  BY LogsAre
<1>1. PICK k \in DOMAIN blocks[h].events : entry = LogAt(blocks, h, k)
  BY <1>a
<1>2. entry.height = h /\ entry.pos = k /\ entry.fork = blocks[h].fork /\ entry.event = blocks[h].events[k]
  BY <1>1, LogAtFields
<1>3. \A others : h \in others => entry \in LogsIn(blocks, others)
  BY <1>1, LogsAre
<1> QED
  BY <1>1, <1>2, <1>3

LEMMA ChainBlocks ==
    ASSUME ChainOK
    PROVE  /\ Len(chain) \in Nat /\ DOMAIN chain = 1 .. Len(chain) /\ DOMAIN chain \subseteq Heights
           /\ \A h \in DOMAIN chain :
                 chain[h].events \in Contents /\ chain[h].fork \in 0 .. forks /\ chain[h].fork \in Nat
<1>1. Len(chain) \in Nat /\ DOMAIN chain = 1 .. Len(chain)
  BY DEF ChainOK
<1>2. \A h \in DOMAIN chain : chain[h] \in [events : Contents, fork : 0 .. forks]
  BY <1>1, ElementOfSeq DEF ChainOK
<1>3. DOMAIN chain \subseteq Heights
  BY <1>1, IndexerBounds DEF ChainOK, Heights
<1> QED
  BY <1>1, <1>2, <1>3 DEF ChainOK

\* What a log of the chain is like.
LEMMA LogFacts ==
    ASSUME ChainOK, NEW heights, NEW entry \in LogsIn(chain, heights)
    PROVE  /\ entry.height \in DOMAIN chain \cap heights /\ entry.height >= DeploymentBlock
           /\ entry.fork = chain[entry.height].fork /\ entry.fork \in 0 .. forks
           /\ entry.event.kind \in RunEvents \cup AgentEvents /\ entry.event.value \in Nat
           /\ entry.event.kind = "step" => entry.event.value \in StepIndexes
           /\ \A others : entry.height \in others => entry \in LogsIn(chain, others)
<1>1. /\ entry.height \in DOMAIN chain \cap heights /\ entry.fork = chain[entry.height].fork
      /\ entry.pos \in DOMAIN chain[entry.height].events
      /\ entry.event = chain[entry.height].events[entry.pos]
      /\ \A others : entry.height \in others => entry \in LogsIn(chain, others)
  BY LogsAmong
<1>2. PICK events : events = chain[entry.height].events
  OBVIOUS
<1>3. events \in Contents /\ events \in Seq([kind : RunEvents \cup AgentEvents, value : Nat])
  BY <1>1, <1>2, ChainBlocks, ContentsAreEvents
<1>4. entry.event \in [kind : RunEvents \cup AgentEvents, value : Nat]
  <2>a. PICK E : E = [kind : RunEvents \cup AgentEvents, value : Nat]
    OBVIOUS
  <2>b. events \in Seq(E)
    BY <1>3, <2>a
  <2>1. \A k \in DOMAIN events : events[k] \in [kind : RunEvents \cup AgentEvents, value : Nat]
    <3>1. DOMAIN events = 1 .. Len(events)
      BY <2>b
    <3> QED
      BY <2>a, <2>b, <3>1, ElementOfSeq
  <2> QED
    BY <1>1, <1>2, <2>1
<1>5. entry.event.kind = "step" => entry.event.value \in StepIndexes
  BY <1>1, <1>2, <1>3, ContentsAreEvents
<1>6. entry.height >= DeploymentBlock
  <2>1. events # <<>>
    BY <1>1, <1>2
  <2> QED
    BY <1>1, <1>2, <2>1, ChainBlocks, IndexerBounds DEF ChainOK
<1> QED
  BY <1>1, <1>4, <1>5, <1>6, ChainBlocks

\* Natural numbers have a least one among them.
LEMMA LeastNatural ==
    ASSUME NEW S, S \subseteq Nat, S # {}
    PROVE  \E n \in S : \A m \in S : n <= m
<1>1. PICK n \in S : \A m \in S : <<m, n>> \notin OpToRel(<, Nat)
  BY NatLessThanWellFounded, WFMin
<1>2. \A m \in S : ~(m < n)
  BY <1>1 DEF OpToRel
<1>3. \A m \in S : n <= m
  <2> TAKE m \in S
  <2>1. m \in Nat /\ n \in Nat /\ ~(m < n)
    BY <1>2
  <2> QED
    BY <2>1
<1> QED
  BY <1>3

\* A step is anchored in one block only, and a run is sealed in one only.
LEMMA AnchoredOnce ==
    ASSUME ChainOK, NEW H, NEW K, NEW a \in LogsIn(chain, H), NEW b \in LogsIn(chain, K),
           \/ a.event.kind = "step" /\ b.event.kind = "step" /\ a.event.value = b.event.value
           \/ a.event.kind = "seal" /\ b.event.kind = "seal"
    PROVE  a.height = b.height
<1>1. a \in LogsIn(chain, Heights) /\ b \in LogsIn(chain, Heights)
  BY LogFacts, ChainBlocks
<1>2. a.height \in Int /\ b.height \in Int
  BY LogFacts, ChainBlocks
<1>3. \A x, y \in LogsIn(chain, Heights) :
         x.height < y.height =>
             /\ ~(x.event.kind = "step" /\ y.event.kind = "step" /\ x.event.value = y.event.value)
             /\ ~(x.event.kind = "seal" /\ y.event.kind = "seal")
  <2> SUFFICES ASSUME NEW x \in LogsIn(chain, Heights), NEW y \in LogsIn(chain, Heights),
                      x.height < y.height
               PROVE  /\ ~(x.event.kind = "step" /\ y.event.kind = "step" /\ x.event.value = y.event.value)
                      /\ ~(x.event.kind = "seal" /\ y.event.kind = "seal")
    OBVIOUS
  <2> DEFINE before == {l \in LogsIn(chain, Heights) : Earlier(l, y)}
  <2>1. /\ y.event.kind \in RunEvents => SealsIn(before) = {}
        /\ y.event.kind = "step" => y.event.value \notin StepsIn(before)
    BY DEF ChainOK, RunIsLegal
  <2>2. x \in before
    BY DEF Earlier
  <2>3. x.event.kind = "step" => x.event.value \in StepsIn(before)
    BY <2>2 DEF StepsIn
  <2>4. x.event.kind = "seal" => x \in SealsIn(before)
    BY <2>2 DEF SealsIn
  <2> QED
    BY <2>1, <2>3, <2>4 DEF RunEvents
<1>4. ~(a.height < b.height) /\ ~(b.height < a.height)
  BY <1>1, <1>3
<1> QED
  BY <1>2, <1>4

\* There is a next log: heights, positions and turns are natural numbers.
LEMMA ThereIsANextLog ==
    ASSUME ChainOK, pass.logs \subseteq LogsIn(chain, Batch), pass.logs # {}
    PROVE  NextLog \in pass.logs /\ \A other \in pass.logs : ~Precedes(other, NextLog)
<1> DEFINE turn(entry) == Turn[Contract(entry.event)]
<1>1. \A entry \in pass.logs : entry.height \in Nat /\ entry.pos \in Nat /\ turn(entry) \in Nat
  <2> TAKE entry \in pass.logs
  <2>1. entry.height \in DOMAIN chain /\ entry.pos \in DOMAIN chain[entry.height].events
    BY LogsAmong
  <2>2. PICK events : events = chain[entry.height].events
    OBVIOUS
  <2>3. entry.pos \in Nat
    <3>1. events \in Seq([kind : RunEvents \cup AgentEvents, value : Nat])
      BY <2>1, <2>2, ChainBlocks, ContentsAreEvents
    <3>2. DOMAIN events = 1 .. Len(events) /\ Len(events) \in Nat
      BY <3>1
    <3> QED
      BY <2>1, <2>2, <3>2
  <2>4. Contract(entry.event) \in {"receipts", "adapters", "bonds"}
    BY DEF Contract
  <2>5. turn(entry) \in Nat
    BY <2>4 DEF Turn
  <2> QED
    BY <2>1, <2>3, <2>5, ChainBlocks
<1>2. PICK first \in pass.logs : \A entry \in pass.logs : first.height <= entry.height
  <2> DEFINE S == {entry.height : entry \in pass.logs}
  <2>1. PICK n \in S : \A m \in S : n <= m
    <3>1. S \subseteq Nat /\ S # {}
      BY <1>1
    <3> HIDE DEF S
    <3> QED
      BY <3>1, LeastNatural
  <2> QED
    BY <2>1
<1> DEFINE A == {entry \in pass.logs : entry.height = first.height}
<1>3. PICK second \in A : \A entry \in A : second.pos <= entry.pos
  <2> DEFINE S == {entry.pos : entry \in A}
  <2>1. PICK n \in S : \A m \in S : n <= m
    <3>1. S \subseteq Nat /\ S # {}
      BY <1>1
    <3> HIDE DEF S
    <3> QED
      BY <3>1, LeastNatural
  <2> QED
    BY <2>1
<1> DEFINE B == {entry \in A : entry.pos = second.pos}
<1>4. PICK third \in B : \A entry \in B : turn(third) <= turn(entry)
  <2> DEFINE S == {turn(entry) : entry \in B}
  <2>1. PICK n \in S : \A m \in S : n <= m
    <3>1. S \subseteq Nat /\ S # {}
      BY <1>1
    <3> HIDE DEF S
    <3> QED
      BY <3>1, LeastNatural
  <2> QED
    BY <2>1
<1>5. \A other \in pass.logs : ~Precedes(other, third)
  <2> TAKE other \in pass.logs
  <2>1. third \in pass.logs /\ third.height = first.height /\ third.pos = second.pos
    OBVIOUS
  <2>2. ~(other.height < third.height)
    BY <1>1, <1>2, <2>1
  <2>3. other.height = third.height => ~(other.pos < third.pos)
    BY <1>1, <1>3, <2>1
  <2>4. other.height = third.height /\ other.pos = third.pos => ~(turn(other) < turn(third))
    BY <1>1, <1>4, <2>1
  <2> QED
    BY <2>2, <2>3, <2>4 DEF Precedes, Earlier
<1> QED
  BY <1>5 DEF NextLog

-----------------------------------------------------------------------------
\* What recordBlock and an upsert do to the tables.
LEMMA RecordedFields ==
    ASSUME NEW s, DOMAIN s = StoreFields, DOMAIN s.blocks = Heights, NEW entry, entry.height \in Heights
    PROVE  /\ DOMAIN Recorded(s, entry) = StoreFields
           /\ \A f \in StoreFields : f # "blocks" => Recorded(s, entry)[f] = s[f]
           /\ DOMAIN Recorded(s, entry).blocks = Heights
           /\ \A h \in Heights :
                 Recorded(s, entry).blocks[h] = IF h = entry.height THEN [fork |-> entry.fork] ELSE s.blocks[h]
<1>1. PICK B : B = [s.blocks EXCEPT ![entry.height] = [fork |-> entry.fork]]
  OBVIOUS
<1>2. Recorded(s, entry) = [s EXCEPT !.blocks = B]
  BY <1>1 DEF Recorded
<1>3. PICK r : r = [s EXCEPT !.blocks = B]
  OBVIOUS
<1>4. DOMAIN r = StoreFields /\ r.blocks = B /\ \A f \in StoreFields : f # "blocks" => r[f] = s[f]
  BY <1>3 DEF StoreFields
<1>5. /\ DOMAIN B = Heights
      /\ \A h \in Heights : B[h] = IF h = entry.height THEN [fork |-> entry.fork] ELSE s.blocks[h]
  BY <1>1
<1>6. Recorded(s, entry) = r
  BY <1>2, <1>3
<1> QED
  BY <1>4, <1>5, <1>6

LEMMA BondFields ==
    ASSUME NEW s, DOMAIN s = StoreFields, NEW h, NEW amount, NEW unlockAt, NEW slashed
    PROVE  /\ DOMAIN UpsertBond(s, h, amount, unlockAt, slashed) = StoreFields
           /\ \A f \in StoreFields : f # "bond" => UpsertBond(s, h, amount, unlockAt, slashed)[f] = s[f]
<1>1. PICK row : row = [amount |-> amount, unlockAt |-> unlockAt, height |-> h,
                        slashed |-> slashed \/ (s.bond # None /\ s.bond.slashed)]
  OBVIOUS
<1>2. UpsertBond(s, h, amount, unlockAt, slashed) \in {s, [s EXCEPT !.bond = row]}
  BY <1>1 DEF UpsertBond
<1>3. PICK r : r = [s EXCEPT !.bond = row]
  OBVIOUS
<1>4. DOMAIN r = StoreFields /\ \A f \in StoreFields : f # "bond" => r[f] = s[f]
  BY <1>3 DEF StoreFields
<1>5. UpsertBond(s, h, amount, unlockAt, slashed) \in {s, r}
  BY <1>2, <1>3
<1> QED
  BY <1>4, <1>5

\* An agent's events leave the receipts alone.
LEMMA AgentUpsert ==
    ASSUME NEW s, DOMAIN s = StoreFields, NEW entry, entry.event.kind \in AgentEvents
    PROVE  /\ DOMAIN Upsert(s, entry) = StoreFields
           /\ \A f \in {"cursor", "blocks", "steps", "seal"} : Upsert(s, entry)[f] = s[f]
<1> DEFINE e == entry.event
<1>1. CASE e.kind = "list"
  <2>1. PICK row : row = [version |-> e.value, active |-> TRUE, height |-> entry.height]
    OBVIOUS
  <2>2. PICK r : r = [s EXCEPT !.listing = row]
    OBVIOUS
  <2>3. DOMAIN r = StoreFields /\ \A f \in StoreFields : f # "listing" => r[f] = s[f]
    BY <2>2 DEF StoreFields
  <2>4. Upsert(s, entry) \in {s, r}
    BY <1>1, <2>1, <2>2, Zenon DEF Upsert
  <2> QED
    BY <2>3, <2>4 DEF StoreFields
<1>2. CASE e.kind = "unlist"
  <2>1. PICK row : row = [s.listing EXCEPT !.active = FALSE, !.height = entry.height]
    OBVIOUS
  <2>2. PICK r : r = [s EXCEPT !.listing = row]
    OBVIOUS
  <2>3. DOMAIN r = StoreFields /\ \A f \in StoreFields : f # "listing" => r[f] = s[f]
    BY <2>2 DEF StoreFields
  <2>4. Upsert(s, entry) \in {s, r}
    BY <1>2, <2>1, <2>2 DEF Upsert
  <2> QED
    BY <2>3, <2>4 DEF StoreFields
<1>3. CASE e.kind \in {"stake", "unstake", "withdraw", "slash"}
  <2>1. \/ Upsert(s, entry) = UpsertBond(s, entry.height, e.value, 0, FALSE)
        \/ Upsert(s, entry) = UpsertBond(s, entry.height, HeldBond(s), e.value, FALSE)
        \/ Upsert(s, entry) = UpsertBond(s, entry.height, 0, 0, FALSE)
        \/ Upsert(s, entry) = UpsertBond(s, entry.height, 0, 0, TRUE)
    BY <1>3 DEF Upsert
  <2>2. PICK amount, unlockAt, slashed :
               Upsert(s, entry) = UpsertBond(s, entry.height, amount, unlockAt, slashed)
    BY <2>1, Zenon
  <2> QED
    BY <2>2, BondFields DEF StoreFields
<1> QED
  BY <1>1, <1>2, <1>3 DEF AgentEvents

LEMMA StepUpsert ==
    ASSUME NEW s, DOMAIN s = StoreFields, DOMAIN s.steps = StepIndexes,
           NEW entry, entry.event.kind = "step", entry.event.value \in StepIndexes
    PROVE  /\ DOMAIN Upsert(s, entry) = StoreFields
           /\ \A f \in StoreFields : f # "steps" => Upsert(s, entry)[f] = s[f]
           /\ DOMAIN Upsert(s, entry).steps = StepIndexes
           /\ \A i \in StepIndexes :
                 Upsert(s, entry).steps[i] =
                     IF i = entry.event.value THEN [height |-> entry.height, fork |-> entry.fork] ELSE s.steps[i]
<1>1. PICK T : T = [s.steps EXCEPT ![entry.event.value] = [height |-> entry.height, fork |-> entry.fork]]
  OBVIOUS
<1>2. PICK r : r = [s EXCEPT !.steps = T]
  OBVIOUS
<1>3. Upsert(s, entry) = r
  BY <1>1, <1>2 DEF Upsert
<1>4. DOMAIN r = StoreFields /\ r.steps = T /\ \A f \in StoreFields : f # "steps" => r[f] = s[f]
  BY <1>2 DEF StoreFields
<1>5. /\ DOMAIN T = StepIndexes
      /\ \A i \in StepIndexes :
            T[i] = IF i = entry.event.value THEN [height |-> entry.height, fork |-> entry.fork] ELSE s.steps[i]
  BY <1>1
<1> QED
  BY <1>3, <1>4, <1>5

LEMMA SealUpsert ==
    ASSUME NEW s, DOMAIN s = StoreFields, NEW entry, entry.event.kind = "seal"
    PROVE  /\ DOMAIN Upsert(s, entry) = StoreFields
           /\ \A f \in StoreFields : f # "seal" => Upsert(s, entry)[f] = s[f]
           /\ Upsert(s, entry).seal = [height |-> entry.height, fork |-> entry.fork, counted |-> entry.event.value]
<1>1. PICK row : row = [height |-> entry.height, fork |-> entry.fork, counted |-> entry.event.value]
  OBVIOUS
<1>2. PICK r : r = [s EXCEPT !.seal = row]
  OBVIOUS
<1>3. Upsert(s, entry) = r
  BY <1>1, <1>2 DEF Upsert
<1>4. DOMAIN r = StoreFields /\ r.seal = row /\ \A f \in StoreFields : f # "seal" => r[f] = s[f]
  BY <1>2 DEF StoreFields
<1> QED
  BY <1>1, <1>3, <1>4

-----------------------------------------------------------------------------
\* A step that leaves the chain and the tables alone.
LEMMA Quiet ==
    ASSUME ChainOK, StoreOK, RowsOK, UNCHANGED <<chain, forks, store>>
    PROVE  /\ ChainOK' /\ StoreOK' /\ RowsOK' /\ Replaced' = Replaced /\ Resume' = Resume
           /\ \A entry : Written(entry) <=> Written(entry)'
<1>1. chain' = chain /\ forks' = forks /\ store' = store
  OBVIOUS
<1>2. Replaced' = Replaced /\ Resume' = Resume /\ \A entry : Written(entry) <=> Written(entry)'
  BY <1>1 DEF Replaced, Resume, Written
<1>3. ChainOK'
  BY <1>1 DEF ChainOK
<1>4. StoreOK'
  BY <1>1, <1>2 DEF StoreOK
<1>5. RowsOK'
  BY <1>1, <1>2 DEF RowsOK, StepRowOK, SealRowOK, RowOK
<1> QED
  BY <1>2, <1>3, <1>4, <1>5

\* Recording the block of a log of the chain, with or without its row, loses
\* nothing, where no replaced block was recorded at its height.
LEMMA Writes ==
    ASSUME ChainOK, StoreOK, RowsOK, NEW entry \in LogsIn(chain, Heights), entry.height \notin Replaced,
           UNCHANGED <<chain, forks>>, NEW t, store' = t,
           DOMAIN t = StoreFields, t.cursor = store.cursor,
           DOMAIN t.blocks = Heights, DOMAIN t.steps = StepIndexes,
           \A h \in Heights :
               t.blocks[h] = IF h = entry.height THEN [fork |-> entry.fork] ELSE store.blocks[h],
           \A i \in StepIndexes :
               \/ t.steps[i] = store.steps[i]
               \/ /\ entry.event.kind = "step" /\ i = entry.event.value
                  /\ t.steps[i] = [height |-> entry.height, fork |-> entry.fork],
           \/ t.seal = store.seal
           \/ /\ entry.event.kind = "seal"
              /\ t.seal = [height |-> entry.height, fork |-> entry.fork, counted |-> entry.event.value]
    PROVE  /\ ChainOK' /\ StoreOK' /\ RowsOK' /\ Replaced' = Replaced
           /\ \A l \in LogsIn(chain, Heights) : Written(l) => Written(l)'
<1> DEFINE hl == entry.height
<1>1. /\ hl \in DOMAIN chain /\ hl >= DeploymentBlock /\ entry.fork = chain[hl].fork /\ entry.fork \in 0 .. forks
      /\ \A others : hl \in others => entry \in LogsIn(chain, others)
  BY LogFacts
<1>2. DOMAIN chain \subseteq Heights /\ Len(chain) \in Nat /\ DOMAIN chain = 1 .. Len(chain)
  BY ChainBlocks
<1>3. t.blocks[hl] = [fork |-> entry.fork] /\ t.blocks[hl] # None /\ t.blocks[hl].fork = chain[hl].fork
  BY <1>1, <1>2, NoneMissing
<1>4. \A h \in Heights : h # hl => t.blocks[h] = store.blocks[h]
  OBVIOUS
<1>5. chain' = chain /\ forks' = forks /\ store' = t
  OBVIOUS
<1> HIDE DEF hl
<1>6. Replaced' = Replaced
  <2>1. Replaced' = {h \in DOMAIN chain : t.blocks[h] # None /\ t.blocks[h].fork # chain[h].fork}
    BY <1>5 DEF Replaced
  <2>2. \A h \in DOMAIN chain : h # hl => (h \in Replaced' <=> h \in Replaced)
    BY <2>1, <1>4, <1>2 DEF Replaced
  <2>3. hl \notin Replaced' /\ hl \notin Replaced
    BY <2>1, <1>3 DEF hl
  <2>4. Replaced \subseteq DOMAIN chain /\ Replaced' \subseteq DOMAIN chain
    BY <2>1 DEF Replaced
  <2> QED
    BY <2>2, <2>3, <2>4
<1>7. ChainOK'
  BY <1>5 DEF ChainOK
<1>8. StoreOK'
  <2>1. \A h \in Heights : t.blocks[h] # None =>
            h \in DOMAIN chain /\ h >= DeploymentBlock /\ t.blocks[h].fork \in 0 .. forks
    BY <1>1, <1>3, <1>4 DEF StoreOK, hl
  <2>2. t.cursor \in 0 .. Len(chain)
    BY DEF StoreOK
  <2>3. \A h \in Replaced' : h > t.cursor /\ h >= Len(chain) - FinalityDepth
    BY <1>6 DEF StoreOK
  <2> QED
    BY <1>5, <2>1, <2>2, <2>3 DEF StoreOK
\* A row of that height was read from the same block.
<1>9. \A row : RowOK(row) => RowOK(row)'
  <2> SUFFICES ASSUME NEW row, RowOK(row), row # None
               PROVE  row.height \in DOMAIN chain /\ t.blocks[row.height] # None
                      /\ t.blocks[row.height].fork = row.fork
    BY <1>5 DEF RowOK
  <2>1. /\ row.height \in DOMAIN chain /\ store.blocks[row.height] # None
        /\ store.blocks[row.height].fork = row.fork
    BY DEF RowOK
  <2>2. CASE row.height = hl
    <3>1. store.blocks[hl].fork = chain[hl].fork
      BY <2>1, <2>2 DEF Replaced, hl
    <3> QED
      BY <2>1, <2>2, <3>1, <1>3
  <2>3. CASE row.height # hl
    BY <2>1, <2>3, <1>2, <1>4
  <2> QED
    BY <2>2, <2>3
<1>10. /\ RowOK([height |-> hl, fork |-> entry.fork])'
       /\ \A n : RowOK([height |-> hl, fork |-> entry.fork, counted |-> n])'
  <2>1. \A row : row.height = hl /\ row.fork = entry.fork => RowOK(row)'
    BY <1>1, <1>3, <1>5 DEF RowOK, hl
  <2> QED
    BY <2>1
<1>11. \A i \in StepIndexes : StepRowOK(i)'
  <2> TAKE i \in StepIndexes
  <2>1. StepRowOK(i)
    BY DEF RowsOK
  <2>2. CASE t.steps[i] = store.steps[i]
    BY <1>5, <1>6, <1>9, <2>1, <2>2 DEF StepRowOK
  <2>3. CASE /\ entry.event.kind = "step" /\ i = entry.event.value
             /\ t.steps[i] = [height |-> hl, fork |-> entry.fork]
    <3>1. entry \in LogsIn(chain, {hl})
      BY <1>1 DEF hl
    <3>2. i \in StepsIn(LogsIn(chain, {hl}))
      BY <3>1, <2>3 DEF StepsIn
    <3>3. t.steps[i].height = hl
      BY <2>3
    <3>4. RowOK(t.steps[i])'
      BY <1>10, <2>3
    <3> QED
      BY <1>5, <3>2, <3>3, <3>4 DEF StepRowOK
  <2> QED
    BY <2>2, <2>3 DEF hl
<1>12. SealRowOK'
  <2>1. SealRowOK
    BY DEF RowsOK
  <2>2. CASE t.seal = store.seal
    BY <1>5, <1>6, <1>9, <2>1, <2>2 DEF SealRowOK
  <2>3. CASE /\ entry.event.kind = "seal"
             /\ t.seal = [height |-> hl, fork |-> entry.fork, counted |-> entry.event.value]
    <3>1. entry \in LogsIn(chain, {hl})
      BY <1>1 DEF hl
    <3>2. SealsIn(LogsIn(chain, {hl})) # {}
      BY <3>1, <2>3 DEF SealsIn
    <3>3. t.seal.height = hl
      BY <2>3
    <3>4. RowOK(t.seal)'
      BY <1>10, <2>3
    <3> QED
      BY <1>5, <3>2, <3>3, <3>4 DEF SealRowOK
  <2> QED
    BY <2>2, <2>3 DEF hl
<1>13. \A l \in LogsIn(chain, Heights) : Written(l) => Written(l)'
  <2> SUFFICES ASSUME NEW l \in LogsIn(chain, Heights), Written(l) PROVE Written(l)'
    OBVIOUS
  <2>1. l.event.kind = "step" => l.event.value \in StepIndexes
    BY LogFacts
  <2>2. l.event.kind = "step" => t.steps[l.event.value] # None /\ t.steps[l.event.value].height = l.height
    <3> SUFFICES ASSUME l.event.kind = "step"
                 PROVE  t.steps[l.event.value] # None /\ t.steps[l.event.value].height = l.height
      OBVIOUS
    <3>1. CASE t.steps[l.event.value] = store.steps[l.event.value]
      BY <3>1 DEF Written
    <3>2. CASE /\ entry.event.kind = "step" /\ l.event.value = entry.event.value
               /\ t.steps[l.event.value] = [height |-> entry.height, fork |-> entry.fork]
      <4>1. l.height = entry.height
        BY <3>2, AnchoredOnce
      <4> QED
        BY <3>2, <4>1, NoneMissing
    <3> QED
      BY <2>1, <3>1, <3>2
  <2>3. l.event.kind = "seal" => t.seal # None /\ t.seal.height = l.height
    <3> SUFFICES ASSUME l.event.kind = "seal" PROVE t.seal # None /\ t.seal.height = l.height
      OBVIOUS
    <3>1. CASE t.seal = store.seal
      BY <3>1 DEF Written
    <3>2. CASE /\ entry.event.kind = "seal"
               /\ t.seal = [height |-> entry.height, fork |-> entry.fork, counted |-> entry.event.value]
      <4>1. l.height = entry.height
        BY <3>2, AnchoredOnce
      <4> QED
        BY <3>2, <4>1, NoneMissing
    <3> QED
      BY <3>1, <3>2
  <2> QED
    BY <1>5, <2>2, <2>3 DEF Written
<1>14. \A l \in LogsIn(chain, 1 .. store.cursor) : l \in LogsIn(chain, Heights) /\ Written(l)
  BY <1>2, LogFacts DEF RowsOK
<1>15. RowsOK'
  <2>1. \A l \in LogsIn(chain, 1 .. t.cursor) : Written(l)'
    BY <1>13, <1>14
  <2> QED
    BY <1>5, <1>11, <1>12, <2>1 DEF RowsOK
<1> QED
  BY <1>6, <1>7, <1>8, <1>13, <1>15

\* What a rollback leaves: the rows below its height.
LEMMA RolledBack ==
    ASSUME NEW s, DOMAIN s = StoreFields, DOMAIN s.blocks = Heights, DOMAIN s.steps = StepIndexes,
           s.cursor \in Nat, NEW h \in Nat, s.cursor < h, NEW r, r = RollbackFrom(s, h)
    PROVE  /\ DOMAIN r = StoreFields /\ DOMAIN r.blocks = Heights /\ DOMAIN r.steps = StepIndexes
           /\ r.cursor = s.cursor
           /\ \A k \in Heights : r.blocks[k] = IF k >= h THEN None ELSE s.blocks[k]
           /\ \A i \in StepIndexes : r.steps[i] = Kept(s.steps[i], h)
           /\ r.seal = Kept(s.seal, h)
<1>1. PICK T : T = [i \in StepIndexes |-> Kept(s.steps[i], h)]
  OBVIOUS
<1>2. PICK B : B = [k \in Heights |-> IF k >= h THEN None ELSE s.blocks[k]]
  OBVIOUS
<1>3. PICK S, L, D : S = Kept(s.seal, h) /\ L = Kept(s.listing, h) /\ D = Kept(s.bond, h)
  OBVIOUS
<1>4. PICK C : C = IF s.cursor >= h THEN h - 1 ELSE s.cursor
  OBVIOUS
<1>5. r = [s EXCEPT !.steps = T, !.seal = S, !.listing = L, !.bond = D, !.blocks = B, !.cursor = C]
  BY <1>1, <1>2, <1>3, <1>4, Zenon DEF RollbackFrom
<1>6. DOMAIN r = StoreFields /\ r.steps = T /\ r.seal = S /\ r.blocks = B /\ r.cursor = C
  BY ONLY <1>5, DOMAIN s = StoreFields DEF StoreFields
<1>7. C = s.cursor
  BY <1>4
<1> QED
  BY <1>1, <1>2, <1>3, <1>6, <1>7

\* A pass that starts a batch where the next one starts, or ends.
LEMMA BatchStarts ==
    ASSUME NEW from \in Int, NEW head \in Int, from = Resume', head <= Len(chain)',
           pass' = NextBatch(from, head)
    PROVE  PassOK'
<1>1. CASE from > head
  <2>1. pass' = Idle
    BY <1>1 DEF NextBatch
  <2>2. /\ DOMAIN pass' = PassFields /\ (pass.pc)' = "idle" /\ (pass.logs)' = {}
    BY <2>1 DEF Idle, PassFields
  <2> QED
    BY <2>2 DEF PassOK, Reading
<1>2. CASE ~(from > head)
  <2>1. PICK to : to = BatchEnd(from, head)
    OBVIOUS
  <2>2. to \in Int /\ from <= to /\ to <= head
    <3>1. BatchSize \in Int /\ BatchSize >= 1
      BY IndexerBounds
    <3>2. to = IF from + BatchSize - 1 > head THEN head ELSE from + BatchSize - 1
      BY <2>1 DEF BatchEnd
    <3>3. from <= head
      BY <1>2
    <3>4. CASE from + BatchSize - 1 > head
      BY <3>2, <3>3, <3>4
    <3>5. CASE ~(from + BatchSize - 1 > head)
      <4>1. to = from + BatchSize - 1
        BY <3>2, <3>5
      <4>2. to \in Int
        BY ONLY from \in Int, <3>1, <4>1
      <4>3. from <= to
        BY ONLY from \in Int, <3>1, <4>1
      <4>4. to <= head
        BY ONLY from \in Int, head \in Int, <3>1, <3>5, <4>1
      <4> QED
        BY <4>2, <4>3, <4>4
    <3> QED
      BY <3>4, <3>5
  <2>3. PICK p : p = [Idle EXCEPT !.pc = "check", !.from = from, !.to = to, !.head = head]
    OBVIOUS
  <2>4. /\ DOMAIN p = PassFields /\ p.pc = "check" /\ p.logs = {} /\ p.from = from
        /\ p.to = to /\ p.head = head
    BY <2>3 DEF Idle, PassFields
  <2>5. pass' = p
    BY <1>2, <2>1, <2>3 DEF NextBatch
  <2> QED
    BY <2>2, <2>4, <2>5 DEF PassOK, Reading
<1> QED
  BY <1>1, <1>2

\* Where the next batch starts.
LEMMA ResumeIs ==
    ASSUME ChainOK, StoreOK
    PROVE  /\ Resume \in Nat /\ Resume > store.cursor /\ Resume >= DeploymentBlock /\ store.cursor \in Nat
           /\ Resume = store.cursor + 1 \/ Resume = DeploymentBlock
           /\ \A h \in Replaced : h \in Nat /\ h >= Resume
<1>1. store.cursor \in Nat /\ DeploymentBlock \in Nat
  BY ChainBlocks, IndexerBounds DEF StoreOK
<1>2. /\ Resume \in Nat /\ Resume > store.cursor /\ Resume >= DeploymentBlock
      /\ Resume = store.cursor + 1 \/ Resume = DeploymentBlock
  BY <1>1 DEF Resume
<1>3. \A h \in Replaced : h \in Nat /\ h > store.cursor /\ h >= DeploymentBlock
  BY ChainBlocks DEF StoreOK, Replaced
<1> QED
  BY <1>1, <1>2, <1>3

-----------------------------------------------------------------------------
LEMMA InitIndexInv == IndexInit => IndexInv
<1> SUFFICES ASSUME IndexInit PROVE ChainOK /\ StoreOK /\ RowsOK /\ PassOK
  BY DEF IndexInv
<1>1. /\ chain = <<>> /\ forks = 0 /\ store = EmptyStore /\ pass = Idle
  BY DEF IndexInit
<1>2. DOMAIN chain = {} /\ Len(chain) = 0
  BY <1>1
<1>3. \A heights : LogsIn(chain, heights) = {}
  BY <1>2 DEF LogsIn
<1>4. ChainOK
  <2>1. chain \in Seq([events : Contents, fork : 0 .. forks])
    BY <1>1
  <2> QED
    BY <1>1, <1>2, <1>3, <2>1, IndexerBounds DEF ChainOK, RunIsLegal
<1>5. /\ DOMAIN store = StoreFields /\ store.cursor = 0
      /\ DOMAIN store.blocks = Heights /\ DOMAIN store.steps = StepIndexes /\ store.seal = None
      /\ \A h \in Heights : store.blocks[h] = None
      /\ \A i \in StepIndexes : store.steps[i] = None
  BY <1>1 DEF EmptyStore, StoreFields
<1>6. StoreOK
  BY <1>2, <1>5 DEF StoreOK, Replaced
<1>7. RowsOK
  BY <1>3, <1>5 DEF RowsOK, StepRowOK, SealRowOK, RowOK
<1>8. PassOK
  BY <1>1 DEF PassOK, Idle, PassFields, Reading
<1> QED
  BY <1>4, <1>6, <1>7, <1>8

\* A rollback above the cursor keeps what is up to the cursor.
LEMMA RollbackKeeps ==
    ASSUME ChainOK, StoreOK, RowsOK, UNCHANGED <<chain, forks>>, NEW at \in Nat, store.cursor < at,
           NEW t, store' = t,
           DOMAIN t = StoreFields, DOMAIN t.blocks = Heights, DOMAIN t.steps = StepIndexes,
           t.cursor = store.cursor,
           \A k \in Heights : t.blocks[k] = IF k >= at THEN None ELSE store.blocks[k],
           \A i \in StepIndexes : t.steps[i] = Kept(store.steps[i], at),
           t.seal = Kept(store.seal, at)
    PROVE  /\ ChainOK' /\ StoreOK' /\ RowsOK'
           /\ Replaced' \subseteq Replaced /\ \A h \in Replaced' : h < at
<1>1. chain' = chain /\ forks' = forks /\ store' = t
  OBVIOUS
<1>2. DOMAIN chain \subseteq Heights /\ Len(chain) \in Nat /\ DOMAIN chain = 1 .. Len(chain)
      /\ store.cursor \in Nat
  BY ChainBlocks DEF StoreOK
<1>3. \A k \in DOMAIN chain : k < at => t.blocks[k] = store.blocks[k]
  BY <1>2
<1>4. \A k \in DOMAIN chain : ~(k < at) => t.blocks[k] = None
  BY <1>2
<1>5. \A k : k \in Replaced' <=> k \in Replaced /\ k < at
  BY <1>1, <1>3, <1>4 DEF Replaced
<1>6. ChainOK'
  BY <1>1 DEF ChainOK
<1>7. StoreOK'
  <2>1. \A h \in Heights : t.blocks[h] # None => t.blocks[h] = store.blocks[h]
    OBVIOUS
  <2>2. \A h \in Heights : t.blocks[h] # None =>
            h \in DOMAIN chain /\ h >= DeploymentBlock /\ t.blocks[h].fork \in 0 .. forks
    BY <2>1 DEF StoreOK
  <2>3. \A h \in Replaced' : h > t.cursor /\ h >= Len(chain) - FinalityDepth
    BY <1>5 DEF StoreOK
  <2> QED
    BY <1>1, <2>2, <2>3 DEF StoreOK
<1>8. \A row : RowOK(row) /\ row # None /\ row.height < at => RowOK(row)'
  BY <1>1, <1>3 DEF RowOK
<1>9. \A row : RowOK(row) /\ Kept(row, at) # None => Kept(row, at) = row /\ row.height < at
  BY <1>2 DEF Kept, RowOK
<1>10. \A i \in StepIndexes : StepRowOK(i)'
  <2> TAKE i \in StepIndexes
  <2>1. StepRowOK(i)
    BY DEF RowsOK
  <2>2. CASE t.steps[i] = None
    BY <1>1, <2>2 DEF StepRowOK, RowOK
  <2>3. CASE t.steps[i] # None
    <3>1. t.steps[i] = store.steps[i] /\ store.steps[i].height < at /\ store.steps[i] # None
      BY <1>9, <2>1, <2>3 DEF StepRowOK
    <3>2. RowOK(store.steps[i])'
      BY <1>8, <2>1, <3>1 DEF StepRowOK
    <3>3. store.steps[i].height \in Replaced \/ i \in StepsIn(LogsIn(chain, {store.steps[i].height}))
      BY <2>1, <3>1 DEF StepRowOK
    <3>4. RowOK(t.steps[i])'
      BY <1>8, <2>1, <3>1 DEF StepRowOK
    <3>5. t.steps[i].height \in Replaced' \/ i \in StepsIn(LogsIn(chain, {t.steps[i].height}))
      BY <1>5, <3>1, <3>3
    <3> QED
      BY <1>1, <3>4, <3>5 DEF StepRowOK
  <2> QED
    BY <2>2, <2>3
<1>11. SealRowOK'
  <2>1. SealRowOK
    BY DEF RowsOK
  <2>2. CASE t.seal = None
    BY <1>1, <2>2 DEF SealRowOK, RowOK
  <2>3. CASE t.seal # None
    <3>1. t.seal = store.seal /\ store.seal.height < at /\ store.seal # None
      BY <1>9, <2>1, <2>3 DEF SealRowOK
    <3>2. store.seal.height \in Replaced \/ SealsIn(LogsIn(chain, {store.seal.height})) # {}
      BY <2>1, <3>1 DEF SealRowOK
    <3>3. RowOK(t.seal)'
      BY <1>8, <2>1, <3>1 DEF SealRowOK
    <3>4. t.seal.height \in Replaced' \/ SealsIn(LogsIn(chain, {t.seal.height})) # {}
      BY <1>5, <3>1, <3>2
    <3> QED
      BY <1>1, <3>3, <3>4 DEF SealRowOK
  <2> QED
    BY <2>2, <2>3
<1>12. \A entry \in LogsIn(chain, 1 .. t.cursor) : Written(entry)'
  <2> TAKE entry \in LogsIn(chain, 1 .. t.cursor)
  <2>1. Written(entry)
    BY DEF RowsOK
  <2>2. entry.height < at /\ entry.height \in Nat /\ (entry.event.kind = "step" => entry.event.value \in StepIndexes)
    BY <1>2, LogFacts
  <2>3. \A row : row # None /\ row.height = entry.height => Kept(row, at) = row
    BY <2>2 DEF Kept
  <2>4. entry.event.kind = "step" => t.steps[entry.event.value] = store.steps[entry.event.value]
    BY <2>1, <2>2, <2>3 DEF Written
  <2>5. entry.event.kind = "seal" => t.seal = store.seal
    BY <2>1, <2>3 DEF Written
  <2> QED
    BY <1>1, <2>1, <2>4, <2>5 DEF Written
<1>13. RowsOK'
  BY <1>1, <1>10, <1>11, <1>12 DEF RowsOK
<1> QED
  BY <1>5, <1>6, <1>7, <1>13

-----------------------------------------------------------------------------
\* The steps of a pass.
LEMMA StartPassKeeps ==
    ASSUME ChainOK, StoreOK, RowsOK, PassOK, StartPass
    PROVE  ChainOK' /\ StoreOK' /\ RowsOK' /\ PassOK'
<1>1. UNCHANGED <<chain, forks, store>> /\ pass' = NextBatch(Resume, Len(chain))
  BY DEF StartPass
<1>2. ChainOK' /\ StoreOK' /\ RowsOK' /\ Resume' = Resume
  BY <1>1, Quiet
<1>3. Len(chain) \in Int /\ Resume \in Int /\ Len(chain)' = Len(chain)
  BY <1>1, ChainBlocks, ResumeIs
<1>4. PICK from, head : from = Resume /\ head = Len(chain)
  OBVIOUS
<1>5. from \in Int /\ head \in Int /\ from = Resume' /\ head <= Len(chain)' /\ pass' = NextBatch(from, head)
  BY <1>1, <1>2, <1>3, <1>4
<1>6. PassOK'
  BY <1>5, BatchStarts
<1> QED
  BY <1>2, <1>6

LEMMA FindReorgKeeps ==
    ASSUME ChainOK, StoreOK, RowsOK, PassOK, FindReorg
    PROVE  ChainOK' /\ StoreOK' /\ RowsOK' /\ PassOK'
<1> DEFINE finalised == Len(chain) - FinalityDepth
<1>1. UNCHANGED <<chain, forks, store>> /\ pass.pc = "check"
  BY DEF FindReorg
<1>2. ChainOK' /\ StoreOK' /\ RowsOK' /\ Replaced' = Replaced /\ Resume' = Resume
  BY <1>1, Quiet
<1>3. PICK at : at = IF pass.from > finalised THEN pass.from ELSE finalised
  OBVIOUS
<1>4. finalised \in Int
  BY ChainBlocks, IndexerBounds
<1>5. pass.from \in Nat /\ pass.from = Resume /\ pass.to \in Int
  BY <1>1, ResumeIs DEF PassOK
<1>6. at \in Int /\ at >= pass.from /\ (at = pass.from \/ at = finalised)
  BY <1>3, <1>4, <1>5
<1>7. \A h \in Replaced : h \in Nat /\ h >= pass.from /\ h >= finalised
  BY <1>5, ResumeIs DEF StoreOK
<1>8. \A h \in Batch : h < at => h \notin Replaced
  BY <1>4, <1>5, <1>6, <1>7 DEF Batch
<1>9. pass' = [pass EXCEPT !.pc = "scan", !.at = at]
  BY <1>3, Zenon DEF FindReorg
<1>10. /\ DOMAIN pass' = PassFields /\ (pass.pc)' = "scan" /\ (pass.at)' = at /\ (pass.from)' = pass.from
       /\ (pass.to)' = pass.to /\ (pass.head)' = pass.head /\ (pass.logs)' = {}
  <2>1. DOMAIN pass = PassFields /\ pass.logs = {}
    BY <1>1 DEF PassOK
  <2> QED
    BY <1>9, <2>1 DEF PassFields
<1>11. PassOK'
  BY <1>1, <1>2, <1>5, <1>6, <1>8, <1>10 DEF PassOK, Batch, Reading
<1> QED
  BY <1>2, <1>11

LEMMA GetLogsKeeps ==
    ASSUME ChainOK, StoreOK, RowsOK, PassOK, GetLogs
    PROVE  ChainOK' /\ StoreOK' /\ RowsOK' /\ PassOK'
<1>1. UNCHANGED <<chain, forks, store>> /\ pass.pc \in {"receipts", "adapters", "bonds"}
  BY DEF GetLogs, Then
<1>2. /\ ChainOK' /\ StoreOK' /\ RowsOK' /\ Replaced' = Replaced /\ Resume' = Resume
      /\ \A entry : Written(entry) <=> Written(entry)'
  BY <1>1, Quiet
<1>3. PICK logs, next : logs = pass.logs \cup LogsOf(pass.pc) /\ next = Then[pass.pc]
  OBVIOUS
<1>4. pass' = [pass EXCEPT !.logs = logs, !.pc = next]
  BY <1>3, Zenon DEF GetLogs
<1>5. next \in {"adapters", "bonds", "apply"}
  BY <1>1, <1>3 DEF Then
<1>6. /\ DOMAIN pass' = PassFields /\ (pass.pc)' = next /\ (pass.from)' = pass.from
      /\ (pass.to)' = pass.to /\ (pass.head)' = pass.head /\ (pass.logs)' = logs
  BY <1>4 DEF PassFields, PassOK
<1>7. logs \subseteq LogsIn(chain, Batch)
  BY <1>3 DEF PassOK, LogsOf, Batch
<1>8. \A entry \in LogsIn(chain, Batch) : entry.event.kind \in RunEvents => entry \in logs \/ Written(entry)
  <2>1. CASE pass.pc = "receipts"
    BY <1>3, <2>1 DEF LogsOf, Contract, RunEvents, Batch
  <2>2. CASE pass.pc \in {"adapters", "bonds"}
    BY <1>3, <2>2 DEF PassOK
  <2> QED
    BY <1>1, <2>1, <2>2
<1>9. Batch' = Batch /\ chain' = chain
  BY <1>1, <1>6 DEF Batch
<1>10. PassOK'
  <2>1. \A h \in Batch : h \notin Replaced
    BY <1>1 DEF PassOK, Reading
  <2>2. \A entry \in LogsIn(chain, Batch) : entry.event.kind \in RunEvents => entry \in logs \/ Written(entry)'
    BY <1>2, <1>8
  <2>3. /\ pass.from = Resume /\ pass.to \in Int /\ pass.head \in Int
        /\ pass.from <= pass.to /\ pass.to <= pass.head /\ pass.head <= Len(chain)
    BY <1>1 DEF PassOK
  <2> QED
    BY <1>2, <1>5, <1>6, <1>7, <1>9, <2>1, <2>2, <2>3 DEF PassOK, Reading
<1> QED
  BY <1>2, <1>10

\* The scan passes over a block, ends, or rolls back.
LEMMA ScanKeeps ==
    ASSUME ChainOK, StoreOK, RowsOK, PassOK, Scan
    PROVE  ChainOK' /\ StoreOK' /\ RowsOK' /\ PassOK'
<1>1. pass.pc = "scan" /\ chain' = chain /\ forks' = forks
  BY DEF Scan
<1>2. /\ DOMAIN pass = PassFields /\ pass.logs = {}
      /\ pass.from = Resume /\ pass.to \in Int /\ pass.head \in Int
      /\ pass.from <= pass.to /\ pass.to <= pass.head /\ pass.head <= Len(chain)
      /\ pass.at \in Int /\ pass.at >= pass.from
      /\ \A h \in Batch : h < pass.at => h \notin Replaced
  BY <1>1 DEF PassOK
<1>3. pass.from \in Nat /\ pass.from > store.cursor /\ store.cursor \in Nat /\ pass.at \in Nat
  BY <1>2, ResumeIs
<1>4. CASE pass.at > pass.to
  <2>1. store' = store /\ pass' = [pass EXCEPT !.pc = "receipts"]
    BY <1>4, Zenon DEF Scan
  <2>2. /\ DOMAIN pass' = PassFields /\ (pass.pc)' = "receipts" /\ (pass.from)' = pass.from
        /\ (pass.to)' = pass.to /\ (pass.head)' = pass.head /\ (pass.logs)' = {}
    BY <1>2, <2>1 DEF PassFields
  <2>3. \A h \in Batch : h \notin Replaced
    BY <1>2, <1>3, <1>4 DEF Batch
  <2>4. ChainOK' /\ StoreOK' /\ RowsOK' /\ Replaced' = Replaced /\ Resume' = Resume
    BY <1>1, <2>1, Quiet
  <2>5. PassOK'
    BY <1>1, <1>2, <2>2, <2>3, <2>4 DEF PassOK, Reading, Batch
  <2> QED
    BY <2>4, <2>5
<1>5. CASE /\ ~(pass.at > pass.to)
           /\ store.blocks[pass.at] = None \/ store.blocks[pass.at].fork = chain[pass.at].fork
  <2>1. store' = store /\ pass' = [pass EXCEPT !.at = @ + 1]
    BY <1>5, Zenon DEF Scan
  <2>2. /\ DOMAIN pass' = PassFields /\ (pass.pc)' = "scan" /\ (pass.from)' = pass.from
        /\ (pass.at)' = pass.at + 1
        /\ (pass.to)' = pass.to /\ (pass.head)' = pass.head /\ (pass.logs)' = {}
    BY <1>1, <1>2, <2>1 DEF PassFields
  <2>3. \A h \in Batch : h < pass.at + 1 => h \notin Replaced
    <3>1. pass.at \notin Replaced
      BY <1>5 DEF Replaced
    <3>2. \A h \in Batch : h < pass.at + 1 => h < pass.at \/ h = pass.at
      BY <1>2, <1>3 DEF Batch
    <3> QED
      BY <1>2, <3>1, <3>2
  <2>4. ChainOK' /\ StoreOK' /\ RowsOK' /\ Replaced' = Replaced /\ Resume' = Resume
    BY <1>1, <2>1, Quiet
  <2>5. (pass.at)' \in Int /\ (pass.at)' >= (pass.from)'
    BY <1>2, <1>3, <2>2
  <2>6. \A h \in Batch' : h < (pass.at)' => h \notin Replaced'
    BY <2>2, <2>3, <2>4 DEF Batch
  <2>7. PassOK'
    BY <1>1, <1>2, <2>2, <2>4, <2>5, <2>6 DEF PassOK, Reading
  <2> QED
    BY <2>4, <2>7
<1>6. CASE /\ ~(pass.at > pass.to)
           /\ ~(store.blocks[pass.at] = None \/ store.blocks[pass.at].fork = chain[pass.at].fork)
  <2>1. PICK t : t = RollbackFrom(store, pass.at)
    OBVIOUS
  <2>2. /\ store' = t
        /\ pass' = [pass EXCEPT !.pc = "receipts", !.from = IF pass.at < @ THEN pass.at ELSE @]
    BY <1>6, <2>1, Zenon DEF Scan
  <2>3. PICK at : at = pass.at
    OBVIOUS
  <2>4. /\ DOMAIN t = StoreFields /\ DOMAIN t.blocks = Heights /\ DOMAIN t.steps = StepIndexes
        /\ t.cursor = store.cursor
        /\ \A k \in Heights : t.blocks[k] = IF k >= at THEN None ELSE store.blocks[k]
        /\ \A i \in StepIndexes : t.steps[i] = Kept(store.steps[i], at)
        /\ t.seal = Kept(store.seal, at)
    <3>1. PICK s : s = store
      OBVIOUS
    <3>2. /\ DOMAIN s = StoreFields /\ DOMAIN s.blocks = Heights /\ DOMAIN s.steps = StepIndexes
          /\ s.cursor \in Nat /\ at \in Nat /\ s.cursor < at /\ t = RollbackFrom(s, at)
      BY <1>2, <1>3, <2>1, <2>3, <3>1 DEF StoreOK
    <3>3. /\ DOMAIN t = StoreFields /\ DOMAIN t.blocks = Heights /\ DOMAIN t.steps = StepIndexes
          /\ t.cursor = s.cursor
          /\ \A k \in Heights : t.blocks[k] = IF k >= at THEN None ELSE s.blocks[k]
          /\ \A i \in StepIndexes : t.steps[i] = Kept(s.steps[i], at)
          /\ t.seal = Kept(s.seal, at)
      BY ONLY <3>2, RolledBack
    <3> QED
      BY <3>1, <3>3
  <2>5. at \in Nat /\ store.cursor < at /\ at >= pass.from
    BY <1>2, <1>3, <2>3
  <2>6. ChainOK' /\ StoreOK' /\ RowsOK' /\ Replaced' \subseteq Replaced /\ \A h \in Replaced' : h < at
    BY <1>1, <2>2, <2>4, <2>5, RollbackKeeps
  <2>7. pass' = [pass EXCEPT !.pc = "receipts", !.from = pass.from]
    <3>1. ~(pass.at < pass.from)
      BY <1>2, <1>3
    <3> QED
      BY <2>2, <3>1
  <2>8. /\ DOMAIN pass' = PassFields /\ (pass.pc)' = "receipts" /\ (pass.from)' = pass.from
        /\ (pass.to)' = pass.to /\ (pass.head)' = pass.head /\ (pass.logs)' = {}
    BY <1>2, <2>7 DEF PassFields
  <2>9. Resume' = Resume
    BY <2>2, <2>4 DEF Resume
  <2>10. \A h \in Batch' : h \notin Replaced'
    BY <1>2, <2>3, <2>6, <2>8 DEF Batch
  <2>11. PassOK'
    BY <1>1, <1>2, <2>8, <2>9, <2>10 DEF PassOK, Reading
  <2> QED
    BY <2>6, <2>11
<1> QED
  BY <1>4, <1>5, <1>6

LEMMA ApplyKeeps ==
    ASSUME ChainOK, StoreOK, RowsOK, PassOK, Apply
    PROVE  ChainOK' /\ StoreOK' /\ RowsOK' /\ PassOK'
<1>1. pass.pc = "apply" /\ pass.logs # {} /\ chain' = chain /\ forks' = forks
  BY DEF Apply
<1>2. /\ DOMAIN pass = PassFields /\ pass.logs \subseteq LogsIn(chain, Batch)
      /\ pass.from = Resume /\ pass.to \in Int /\ pass.head \in Int
      /\ pass.from <= pass.to /\ pass.to <= pass.head /\ pass.head <= Len(chain)
      /\ \A h \in Batch : h \notin Replaced
      /\ \A entry \in LogsIn(chain, Batch) :
            entry.event.kind \in RunEvents => entry \in pass.logs \/ Written(entry)
  BY <1>1 DEF PassOK, Reading
<1>3. PICK entry : entry = NextLog
  OBVIOUS
<1>4. entry \in pass.logs /\ entry \in LogsIn(chain, Batch)
  BY <1>1, <1>2, <1>3, ThereIsANextLog
<1>5. /\ entry.height \in DOMAIN chain \cap Batch /\ entry.height \in Heights /\ entry.height \notin Replaced
      /\ entry.event.kind \in RunEvents \cup AgentEvents
      /\ entry.event.kind = "step" => entry.event.value \in StepIndexes
      /\ entry \in LogsIn(chain, Heights)
  BY <1>2, <1>4, LogFacts, ChainBlocks
<1>6. PICK s, r, t : s = store /\ r = Recorded(s, entry) /\ t = Upsert(r, entry)
  OBVIOUS
<1>7. store' = t /\ pass' = [pass EXCEPT !.logs = @ \ {entry}]
  BY <1>3, <1>6, Zenon DEF Apply
<1>8. DOMAIN s = StoreFields /\ DOMAIN s.blocks = Heights /\ DOMAIN s.steps = StepIndexes
  BY <1>6 DEF StoreOK
<1>9. /\ DOMAIN r = StoreFields
      /\ \A f \in StoreFields : f # "blocks" => r[f] = s[f]
      /\ DOMAIN r.blocks = Heights
      /\ \A h \in Heights : r.blocks[h] = IF h = entry.height THEN [fork |-> entry.fork] ELSE s.blocks[h]
  BY ONLY <1>5, <1>6, <1>8, RecordedFields
<1>10. r.cursor = s.cursor /\ r.steps = s.steps /\ r.seal = s.seal
  BY <1>9 DEF StoreFields
<1>11. /\ DOMAIN t = StoreFields /\ t.cursor = r.cursor /\ t.blocks = r.blocks
       /\ DOMAIN t.steps = StepIndexes
       /\ \A i \in StepIndexes :
            \/ t.steps[i] = r.steps[i]
            \/ /\ entry.event.kind = "step" /\ i = entry.event.value
               /\ t.steps[i] = [height |-> entry.height, fork |-> entry.fork]
       /\ \/ t.seal = r.seal
          \/ /\ entry.event.kind = "seal"
             /\ t.seal = [height |-> entry.height, fork |-> entry.fork, counted |-> entry.event.value]
       /\ entry.event.kind = "step" =>
             t.steps[entry.event.value] = [height |-> entry.height, fork |-> entry.fork]
       /\ entry.event.kind = "seal" =>
             t.seal = [height |-> entry.height, fork |-> entry.fork, counted |-> entry.event.value]
  <2>1. CASE entry.event.kind = "step"
    <3>1. /\ DOMAIN t = StoreFields
          /\ \A f \in StoreFields : f # "steps" => t[f] = r[f]
          /\ DOMAIN t.steps = StepIndexes
          /\ \A i \in StepIndexes :
                t.steps[i] = IF i = entry.event.value THEN [height |-> entry.height, fork |-> entry.fork]
                             ELSE r.steps[i]
      BY <1>5, <1>6, <1>8, <1>9, <1>10, <2>1, StepUpsert
    <3>2. t.cursor = r.cursor /\ t.blocks = r.blocks /\ t.seal = r.seal
      BY <3>1 DEF StoreFields
    <3> QED
      BY <1>5, <2>1, <3>1, <3>2
  <2>2. CASE entry.event.kind = "seal"
    <3>1. /\ DOMAIN t = StoreFields
          /\ \A f \in StoreFields : f # "seal" => t[f] = r[f]
          /\ t.seal = [height |-> entry.height, fork |-> entry.fork, counted |-> entry.event.value]
      BY <1>6, <1>9, <2>2, SealUpsert
    <3>2. t.cursor = r.cursor /\ t.blocks = r.blocks /\ t.steps = r.steps
      BY <3>1 DEF StoreFields
    <3> QED
      BY <1>8, <1>10, <2>2, <3>1, <3>2
  <2>3. CASE entry.event.kind \in AgentEvents
    <3>1. /\ DOMAIN t = StoreFields
          /\ \A f \in {"cursor", "blocks", "steps", "seal"} : t[f] = r[f]
      BY <1>6, <1>9, <2>3, AgentUpsert
    <3>2. t.cursor = r.cursor /\ t.blocks = r.blocks /\ t.steps = r.steps /\ t.seal = r.seal
      BY <3>1
    <3> QED
      BY <1>8, <1>10, <2>3, <3>1, <3>2 DEF AgentEvents
  <2> QED
    BY <1>5, <2>1, <2>2, <2>3 DEF RunEvents
<1>12. /\ ChainOK' /\ StoreOK' /\ RowsOK' /\ Replaced' = Replaced
       /\ \A l \in LogsIn(chain, Heights) : Written(l) => Written(l)'
  <2>1. /\ t.cursor = store.cursor /\ DOMAIN t.blocks = Heights
        /\ \A h \in Heights :
              t.blocks[h] = IF h = entry.height THEN [fork |-> entry.fork] ELSE store.blocks[h]
        /\ \A i \in StepIndexes :
              \/ t.steps[i] = store.steps[i]
              \/ /\ entry.event.kind = "step" /\ i = entry.event.value
                 /\ t.steps[i] = [height |-> entry.height, fork |-> entry.fork]
        /\ \/ t.seal = store.seal
           \/ /\ entry.event.kind = "seal"
              /\ t.seal = [height |-> entry.height, fork |-> entry.fork, counted |-> entry.event.value]
    BY <1>6, <1>9, <1>10, <1>11
  <2> QED
    BY <1>1, <1>5, <1>7, <1>11, <2>1, Writes
<1>13. Written(entry)'
  BY <1>7, <1>11, NoneMissing DEF Written
<1>14. PICK logs : logs = pass.logs \ {entry}
  OBVIOUS
<1>15. /\ DOMAIN pass' = PassFields /\ (pass.pc)' = "apply" /\ (pass.from)' = pass.from
       /\ (pass.to)' = pass.to /\ (pass.head)' = pass.head /\ (pass.logs)' = logs
  BY <1>1, <1>2, <1>7, <1>14 DEF PassFields
<1>16. Resume' = Resume
  BY <1>6, <1>7, <1>10, <1>11 DEF Resume
<1>17. Batch' = Batch
  BY <1>15 DEF Batch
<1>18. \A l \in LogsIn(chain, Batch) : l.event.kind \in RunEvents => l \in logs \/ Written(l)'
  <2> TAKE l \in LogsIn(chain, Batch)
  <2>1. l \in LogsIn(chain, Heights)
    BY LogFacts, ChainBlocks
  <2> QED
    BY <1>2, <1>12, <1>13, <1>14, <2>1
<1>19. PassOK'
  BY <1>1, <1>2, <1>12, <1>14, <1>15, <1>16, <1>17, <1>18 DEF PassOK, Reading
<1> QED
  BY <1>12, <1>19

\* At the end of a batch all of its receipts and seals are written.
LEMMA FinishBatchKeeps ==
    ASSUME ChainOK, StoreOK, RowsOK, PassOK, FinishBatch
    PROVE  ChainOK' /\ StoreOK' /\ RowsOK' /\ PassOK'
<1>1. pass.pc = "apply" /\ pass.logs = {} /\ chain' = chain /\ forks' = forks
  BY DEF FinishBatch
<1>2. /\ pass.from = Resume /\ pass.to \in Int /\ pass.head \in Int
      /\ pass.from <= pass.to /\ pass.to <= pass.head /\ pass.head <= Len(chain)
      /\ \A h \in Batch : h \notin Replaced
      /\ \A entry \in LogsIn(chain, Batch) : entry.event.kind \in RunEvents => Written(entry)
  BY <1>1 DEF PassOK, Reading
<1>3. PICK to, s : to = pass.to /\ s = store
  OBVIOUS
<1>4. PICK t : t = [s EXCEPT !.cursor = to]
  OBVIOUS
<1>5. store' = t
  BY <1>3, <1>4, Zenon DEF FinishBatch
<1>6. /\ DOMAIN t = StoreFields /\ t.cursor = to /\ t.blocks = store.blocks
      /\ t.steps = store.steps /\ t.seal = store.seal
  <2>1. DOMAIN s = StoreFields
    BY <1>3 DEF StoreOK
  <2>2. /\ DOMAIN t = StoreFields /\ t.cursor = to /\ t.blocks = s.blocks
        /\ t.steps = s.steps /\ t.seal = s.seal
    BY <1>4, <2>1 DEF StoreFields
  <2> QED
    BY <1>3, <2>2
<1>7. /\ store.cursor \in Nat /\ to \in Nat /\ to > store.cursor /\ to >= Resume /\ to <= Len(chain)
      /\ Len(chain) \in Nat /\ DOMAIN chain = 1 .. Len(chain)
      /\ Resume = store.cursor + 1 \/ Resume = DeploymentBlock
  BY <1>2, <1>3, ResumeIs, ChainBlocks
<1>8. Replaced' = Replaced
  BY <1>1, <1>5, <1>6 DEF Replaced
<1>9. ChainOK'
  BY <1>1 DEF ChainOK
<1>10. StoreOK'
  <2>1. \A h \in Replaced : h > to
    BY <1>2, <1>3, <1>7, ResumeIs DEF Batch
  <2>2. t.cursor \in 0 .. Len(chain)
    BY <1>6, <1>7
  <2>3. \A h \in Replaced : h > t.cursor /\ h >= Len(chain) - FinalityDepth
    BY <1>6, <2>1 DEF StoreOK
  <2>4. /\ DOMAIN t.blocks = Heights /\ DOMAIN t.steps = StepIndexes
        /\ \A h \in Heights : t.blocks[h] # None =>
              h \in DOMAIN chain /\ h >= DeploymentBlock /\ t.blocks[h].fork \in 0 .. forks
    BY <1>6 DEF StoreOK
  <2> QED
    BY <1>1, <1>5, <1>6, <1>8, <2>2, <2>3, <2>4 DEF StoreOK
<1>11. \A entry : Written(entry) <=> Written(entry)'
  BY <1>5, <1>6 DEF Written
<1>12. \A entry \in LogsIn(chain, 1 .. to) : Written(entry)
  <2> TAKE entry \in LogsIn(chain, 1 .. to)
  <2>a. PICK H : H = 1 .. to
    OBVIOUS
  <2>b. entry \in LogsIn(chain, H)
    BY <2>a
  <2>c. /\ entry.height \in H /\ entry.height >= DeploymentBlock
        /\ \A others : entry.height \in others => entry \in LogsIn(chain, others)
    BY <2>b, LogFacts
  <2>1. /\ entry.height \in 1 .. to /\ entry.height >= DeploymentBlock /\ DeploymentBlock \in Nat
        /\ \A others : entry.height \in others => entry \in LogsIn(chain, others)
    BY <2>a, <2>c, IndexerBounds
  <2>2. CASE entry.height <= store.cursor
    <3>1. entry.height \in 1 .. store.cursor
      BY <1>7, <2>1, <2>2
    <3> QED
      BY <2>1, <3>1 DEF RowsOK
  <2>3. CASE ~(entry.height <= store.cursor)
    <3>1. entry.height >= Resume
      BY <1>7, <2>1, <2>3
    <3>2. entry.height \in Batch
      BY <1>2, <1>3, <1>7, <2>1, <3>1, ResumeIs DEF Batch
    <3>3. entry \in LogsIn(chain, Batch)
      BY <2>1, <3>2
    <3>4. entry.event.kind \in RunEvents => Written(entry)
      BY <1>2, <3>3
    <3> QED
      BY <3>4 DEF Written, RunEvents
  <2> QED
    BY <2>2, <2>3
<1>13. RowsOK'
  <2>1. \A row : RowOK(row) <=> RowOK(row)'
    BY <1>1, <1>5, <1>6 DEF RowOK
  <2>2. \A i \in StepIndexes : StepRowOK(i)'
    BY <1>1, <1>5, <1>6, <1>8, <2>1 DEF RowsOK, StepRowOK
  <2>3. SealRowOK'
    BY <1>1, <1>5, <1>6, <1>8, <2>1 DEF RowsOK, SealRowOK
  <2>4. \A entry \in LogsIn(chain, 1 .. t.cursor) : Written(entry)'
    BY <1>6, <1>11, <1>12
  <2> QED
    BY <1>1, <1>5, <2>2, <2>3, <2>4 DEF RowsOK
<1>14. PassOK'
  <2>1. PICK from, head : /\ from = IF to + 1 > DeploymentBlock THEN to + 1 ELSE DeploymentBlock
                          /\ head = pass.head
    OBVIOUS
  <2>2. pass' = NextBatch(from, head)
    BY <1>3, <2>1, Zenon DEF FinishBatch
  <2>3. from = Resume'
    BY <1>5, <1>6, <2>1 DEF Resume
  <2>4. from \in Int /\ head \in Int /\ head <= Len(chain)'
    BY <1>1, <1>2, <1>7, <2>1, IndexerBounds
  <2> QED
    BY <2>2, <2>3, <2>4, BatchStarts
<1> QED
  BY <1>9, <1>10, <1>13, <1>14

\* A pass that fails leaves what it wrote; a block may be recorded whose rows
\* were not written.
LEMMA FailKeeps ==
    ASSUME ChainOK, StoreOK, RowsOK, PassOK, Fail
    PROVE  ChainOK' /\ StoreOK' /\ RowsOK' /\ PassOK'
<1>1. chain' = chain /\ forks' = forks /\ pass' = Idle
  BY DEF Fail, AfterFailure
<1>2. PassOK'
  <2>1. DOMAIN pass' = PassFields /\ (pass.pc)' = "idle" /\ (pass.logs)' = {}
    BY <1>1 DEF Idle, PassFields
  <2> QED
    BY <2>1 DEF PassOK, Reading
<1>3. CASE store' = store
  BY <1>1, <1>2, <1>3, Quiet
<1>4. CASE pass.pc = "apply" /\ pass.logs # {} /\ store' = Recorded(store, NextLog)
  <2>1. /\ pass.logs \subseteq LogsIn(chain, Batch) /\ \A h \in Batch : h \notin Replaced
    BY <1>4 DEF PassOK, Reading
  <2>2. PICK entry : entry = NextLog
    OBVIOUS
  <2>3. entry \in LogsIn(chain, Batch)
    BY <1>4, <2>1, <2>2, ThereIsANextLog
  <2>4. entry.height \in Heights /\ entry.height \notin Replaced /\ entry \in LogsIn(chain, Heights)
    BY <2>1, <2>3, LogFacts, ChainBlocks
  <2>5. PICK s, t : s = store /\ t = Recorded(s, entry)
    OBVIOUS
  <2>6. DOMAIN s = StoreFields /\ DOMAIN s.blocks = Heights /\ DOMAIN s.steps = StepIndexes
    BY <2>5 DEF StoreOK
  <2>7. /\ DOMAIN t = StoreFields
        /\ \A f \in StoreFields : f # "blocks" => t[f] = s[f]
        /\ DOMAIN t.blocks = Heights
        /\ \A h \in Heights : t.blocks[h] = IF h = entry.height THEN [fork |-> entry.fork] ELSE s.blocks[h]
    BY ONLY <2>4, <2>5, <2>6, RecordedFields
  <2>8. t.cursor = s.cursor /\ t.steps = s.steps /\ t.seal = s.seal
    BY <2>7 DEF StoreFields
  <2>9. store' = t /\ DOMAIN t.steps = StepIndexes
    BY <1>4, <2>2, <2>5, <2>6, <2>8
  <2>10. /\ t.cursor = store.cursor
         /\ \A h \in Heights :
               t.blocks[h] = IF h = entry.height THEN [fork |-> entry.fork] ELSE store.blocks[h]
         /\ \A i \in StepIndexes :
               \/ t.steps[i] = store.steps[i]
               \/ /\ entry.event.kind = "step" /\ i = entry.event.value
                  /\ t.steps[i] = [height |-> entry.height, fork |-> entry.fork]
         /\ \/ t.seal = store.seal
            \/ /\ entry.event.kind = "seal"
               /\ t.seal = [height |-> entry.height, fork |-> entry.fork, counted |-> entry.event.value]
    BY <2>5, <2>7, <2>8
  <2>11. ChainOK' /\ StoreOK' /\ RowsOK'
    BY <1>1, <2>4, <2>7, <2>9, <2>10, Writes
  <2> QED
    BY <1>2, <2>11
<1> QED
  BY <1>3, <1>4 DEF Fail

-----------------------------------------------------------------------------
\* The chain's steps.
LEMMA GrowKeeps ==
    ASSUME ChainOK, StoreOK, RowsOK, PassOK, Grow, settled'
    PROVE  ChainOK' /\ StoreOK' /\ RowsOK' /\ PassOK'
<1>1. PICK events \in Contents : chain' = Append(chain, Block(events, forks))
  BY DEF Grow
<1>2. /\ Len(chain) < MaxHeight /\ Legal(chain') /\ \A h \in Replaced : h > Len(chain) - FinalityDepth
      /\ forks' = forks /\ store' = store /\ pass' = pass
  BY DEF Grow
<1>3. PICK next : next = chain'
  OBVIOUS
<1>4. /\ Len(chain) \in Nat /\ DOMAIN chain = 1 .. Len(chain) /\ forks \in Nat
      /\ chain \in Seq([events : Contents, fork : 0 .. forks])
  BY ChainBlocks DEF ChainOK
<1>5. /\ next \in Seq([events : Contents, fork : 0 .. forks])
      /\ Len(next) = Len(chain) + 1 /\ DOMAIN next = 1 .. Len(chain) + 1
      /\ \A h \in DOMAIN chain : next[h] = chain[h]
  <2>1. PICK B, b : B = [events : Contents, fork : 0 .. forks] /\ b = Block(events, forks)
    OBVIOUS
  <2>2. chain \in Seq(B) /\ b \in B /\ next = Append(chain, b)
    BY <1>1, <1>3, <1>4, <2>1 DEF Block
  <2>3. /\ next \in Seq(B) /\ Len(next) = Len(chain) + 1
        /\ \A h \in 1 .. Len(chain) : next[h] = chain[h]
    BY <2>2, AppendProperties
  <2>4. DOMAIN next = 1 .. Len(next)
    BY <2>3
  <2> QED
    BY <1>4, <2>1, <2>3, <2>4
<1>6. \A heights : heights \subseteq DOMAIN chain => LogsIn(next, heights) = LogsIn(chain, heights)
  <2> SUFFICES ASSUME NEW heights, heights \subseteq DOMAIN chain
               PROVE  LogsIn(next, heights) = LogsIn(chain, heights)
    OBVIOUS
  <2>1. DOMAIN chain \cap heights = DOMAIN next \cap heights
    BY <1>4, <1>5
  <2> QED
    BY <1>5, <2>1, LogsStay
<1>7. ChainOK'
  <2>1. Len(next) <= MaxHeight
    BY <1>2, <1>4, <1>5, IndexerBounds
  <2> QED
    BY <1>2, <1>3, <1>4, <1>5, <2>1 DEF ChainOK, Legal
<1>8. \A h : h \in Replaced' <=> h \in Replaced
  <2>1. store.blocks[Len(chain) + 1] = None
    <3>1. Len(chain) + 1 \in Heights /\ Len(chain) + 1 \notin DOMAIN chain
      BY <1>2, <1>4, IndexerBounds DEF Heights
    <3> QED
      BY <3>1 DEF StoreOK
  <2>2. \A h \in DOMAIN next : h \in DOMAIN chain \/ h = Len(chain) + 1
    BY <1>4, <1>5
  <2>3. DOMAIN chain \subseteq DOMAIN next
    BY <1>4, <1>5
  <2> QED
    BY <1>2, <1>3, <1>5, <2>1, <2>2, <2>3 DEF Replaced
<1>9. StoreOK'
  <2>1. \A h \in Replaced' : h > store.cursor /\ h >= Len(next) - FinalityDepth
    <3>1. \A h \in Replaced : h \in Nat /\ h > store.cursor /\ h > Len(chain) - FinalityDepth
      BY <1>2, <1>4 DEF StoreOK, Replaced
    <3> QED
      BY <1>4, <1>5, <1>8, <3>1, IndexerBounds
  <2>2. store.cursor \in 0 .. Len(next)
    BY <1>4, <1>5 DEF StoreOK
  <2>3. \A h \in Heights : store.blocks[h] # None =>
            h \in DOMAIN next /\ h >= DeploymentBlock /\ store.blocks[h].fork \in 0 .. forks
    BY <1>4, <1>5 DEF StoreOK
  <2> QED
    BY <1>2, <1>3, <2>1, <2>2, <2>3 DEF StoreOK
<1>10. RowsOK'
  <2>1. \A row : RowOK(row) => RowOK(row)'
    BY <1>2, <1>3, <1>4, <1>5 DEF RowOK
  <2>2. \A h \in DOMAIN chain : LogsIn(next, {h}) = LogsIn(chain, {h})
    BY <1>6
  <2>3. \A i \in StepIndexes : StepRowOK(i)'
    <3> TAKE i \in StepIndexes
    <3>1. StepRowOK(i)
      BY DEF RowsOK
    <3>2. PICK row : row = store.steps[i]
      OBVIOUS
    <3>3. row # None => row.height \in DOMAIN chain
      BY <3>1, <3>2 DEF StepRowOK, RowOK
    <3>4. RowOK(row)'
      BY <2>1, <3>1, <3>2 DEF StepRowOK
    <3>5. row # None => row.height \in Replaced' \/ i \in StepsIn(LogsIn(next, {row.height}))
      BY <1>8, <2>2, <3>1, <3>2, <3>3 DEF StepRowOK
    <3> QED
      BY <1>2, <1>3, <3>2, <3>4, <3>5 DEF StepRowOK
  <2>4. SealRowOK'
    <3>1. SealRowOK
      BY DEF RowsOK
    <3>2. PICK row : row = store.seal
      OBVIOUS
    <3>3. row # None => row.height \in DOMAIN chain
      BY <3>1, <3>2 DEF SealRowOK, RowOK
    <3>4. RowOK(row)'
      BY <2>1, <3>1, <3>2 DEF SealRowOK
    <3>5. row # None => row.height \in Replaced' \/ SealsIn(LogsIn(next, {row.height})) # {}
      BY <1>8, <2>2, <3>1, <3>2, <3>3 DEF SealRowOK
    <3> QED
      BY <1>2, <1>3, <3>2, <3>4, <3>5 DEF SealRowOK
  <2>5. LogsIn(next, 1 .. store.cursor) = LogsIn(chain, 1 .. store.cursor)
    <3>1. 1 .. store.cursor \subseteq DOMAIN chain
      BY <1>4 DEF StoreOK
    <3> QED
      BY <1>6, <3>1
  <2>6. \A entry : Written(entry) => Written(entry)'
    BY <1>2 DEF Written
  <2>7. \A entry \in LogsIn(next, 1 .. store.cursor) : Written(entry)'
    BY <2>5, <2>6 DEF RowsOK
  <2> QED
    BY <1>2, <1>3, <2>3, <2>4, <2>7 DEF RowsOK
<1>11. PassOK'
  <2>1. Resume' = Resume /\ Batch' = Batch /\ pass' = pass
    BY <1>2 DEF Resume, Batch
  <2>2. \A entry : Written(entry) => Written(entry)'
    BY <1>2 DEF Written
  <2>3. CASE pass.pc = "idle"
    <3>1. DOMAIN pass = PassFields /\ pass.logs = {}
      BY <2>3 DEF PassOK
    <3> QED
      BY <2>1, <2>3, <3>1 DEF PassOK, Reading
  <2>4. CASE pass.pc # "idle"
    <3>1. Batch \subseteq DOMAIN chain
      <4>1. pass.from \in Nat /\ pass.from >= 1 /\ pass.to \in Int /\ pass.to <= Len(chain)
        BY <1>4, <2>4, ResumeIs DEF PassOK
      <4> QED
        BY <1>4, <4>1 DEF Batch
    <3>2. LogsIn(next, Batch) = LogsIn(chain, Batch)
      BY <1>6, <3>1
    <3>3. Len(chain) <= Len(next) /\ Len(next) \in Nat
      BY <1>4, <1>5
    <3>4. pass.head \in Int /\ pass.head <= Len(next)
      BY <1>4, <2>4, <3>3 DEF PassOK
    <3>5. /\ pass.pc \in {"adapters", "bonds", "apply"} =>
                \A entry \in LogsIn(next, Batch) :
                    entry.event.kind \in RunEvents => entry \in pass.logs \/ Written(entry)'
          /\ pass.logs \subseteq LogsIn(next, Batch)
      BY <2>2, <3>2 DEF PassOK
    <3>6. /\ pass.pc = "scan" => \A h \in Batch : h < pass.at => h \notin Replaced'
          /\ pass.pc \in Reading => \A h \in Batch : h \notin Replaced'
      BY <1>8 DEF PassOK
    <3> QED
      BY <1>3, <2>1, <2>4, <3>4, <3>5, <3>6 DEF PassOK
  <2> QED
    BY <2>3, <2>4
<1> QED
  BY <1>7, <1>9, <1>10, <1>11

\* A block that is replaced between two passes was above the cursor; what was
\* read from it is of an older fork.
LEMMA ReorgKeeps ==
    ASSUME ChainOK, StoreOK, RowsOK, PassOK, Reorg, settled'
    PROVE  ChainOK' /\ StoreOK' /\ RowsOK' /\ PassOK'
<1>1. PICK h \in DOMAIN chain :
         /\ h > Len(chain) - FinalityDepth
         /\ \E contents \in [h .. Len(chain) -> Contents] :
               LET fresh == [k \in DOMAIN chain |->
                       IF k < h THEN chain[k] ELSE Block(contents[k], forks + 1)]
               IN  Legal(fresh) /\ chain' = fresh
         /\ settled' = (settled /\ h > store.cursor /\ pass.pc = "idle")
  BY Zenon DEF Reorg
<1>2. PICK contents \in [h .. Len(chain) -> Contents] :
         LET fresh == [k \in DOMAIN chain |->
                 IF k < h THEN chain[k] ELSE Block(contents[k], forks + 1)]
         IN  Legal(fresh) /\ chain' = fresh
  BY <1>1
<1>3. PICK next : next = [k \in DOMAIN chain |->
                             IF k < h THEN chain[k] ELSE Block(contents[k], forks + 1)]
  OBVIOUS
<1>4. chain' = next /\ Legal(next) /\ forks' = forks + 1 /\ store' = store /\ pass' = pass
  BY <1>2, <1>3, Zenon DEF Reorg
<1>5. h > store.cursor /\ pass.pc = "idle" /\ h > Len(chain) - FinalityDepth
  BY <1>1
<1>6. /\ Len(chain) \in Nat /\ DOMAIN chain = 1 .. Len(chain) /\ forks \in Nat /\ h \in Nat
      /\ Len(chain) <= MaxHeight /\ store.cursor \in Nat /\ store.cursor \in 0 .. Len(chain)
      /\ DOMAIN chain \subseteq Heights
      /\ \A k \in DOMAIN chain : chain[k] \in [events : Contents, fork : 0 .. forks]
  <2>1. PICK B : B = [events : Contents, fork : 0 .. forks]
    OBVIOUS
  <2>2. chain \in Seq(B) /\ DOMAIN chain = 1 .. Len(chain)
    BY <2>1, ChainBlocks DEF ChainOK
  <2>3. \A k \in DOMAIN chain : chain[k] \in B
    BY <2>2, ElementOfSeq
  <2> QED
    BY <2>1, <2>3, ChainBlocks DEF ChainOK, StoreOK
<1>7. /\ DOMAIN next = DOMAIN chain
      /\ \A k \in DOMAIN chain : k < h => next[k] = chain[k]
      /\ \A k \in DOMAIN chain : ~(k < h) => next[k] = Block(contents[k], forks + 1)
  BY <1>3
<1>8. \A k \in DOMAIN chain : ~(k < h) =>
          next[k] \in [events : Contents, fork : 0 .. forks + 1] /\ next[k].fork = forks + 1
  <2> TAKE k \in DOMAIN chain
  <2> HAVE ~(k < h)
  <2>1. contents[k] \in Contents
    BY <1>6
  <2> QED
    BY <1>6, <1>7, <2>1 DEF Block
<1>9. Len(next) = Len(chain) /\ next \in Seq([events : Contents, fork : 0 .. forks + 1])
  <2>1. PICK B : B = [events : Contents, fork : 0 .. forks + 1]
    OBVIOUS
  <2>2. [events : Contents, fork : 0 .. forks] \subseteq B
    BY <1>6, <2>1
  <2>3. \A k \in DOMAIN chain : next[k] \in B
    BY <1>6, <1>7, <1>8, <2>1, <2>2
  <2>4. next \in [1 .. Len(chain) -> B]
    BY <1>3, <1>6, <2>3
  <2>5. next \in Seq(B) /\ Len(next) = Len(chain)
    BY <1>6, <2>4, SeqDef
  <2> QED
    BY <2>1, <2>5
<1>10. \A heights : (\A k \in heights : k < h) => LogsIn(next, heights) = LogsIn(chain, heights)
  BY <1>7, LogsStay
<1>11. ChainOK'
  BY <1>4, <1>6, <1>9 DEF ChainOK, Legal
<1>12. \A k \in DOMAIN chain : k < h => (k \in Replaced' <=> k \in Replaced)
  BY <1>4, <1>7 DEF Replaced
<1>13. \A k \in DOMAIN chain : ~(k < h) /\ store.blocks[k] # None => k \in Replaced'
  <2> TAKE k \in DOMAIN chain
  <2> HAVE ~(k < h) /\ store.blocks[k] # None
  <2>1. store.blocks[k].fork \in 0 .. forks
    BY <1>6 DEF StoreOK
  <2>2. store.blocks[k].fork # next[k].fork
    BY <1>6, <1>8, <2>1
  <2> QED
    BY <1>4, <1>7, <2>2 DEF Replaced
<1>14. StoreOK'
  <2>1. \A k \in Replaced' : k > store.cursor /\ k >= Len(next) - FinalityDepth
    <3> TAKE k \in Replaced'
    <3>1. k \in DOMAIN chain
      BY <1>4, <1>7 DEF Replaced
    <3>2. CASE k < h
      BY <1>9, <1>12, <3>1, <3>2 DEF StoreOK
    <3>3. CASE ~(k < h)
      BY <1>5, <1>6, <1>9, <3>1, <3>3, IndexerBounds
    <3> QED
      BY <3>2, <3>3
  <2>2. \A k \in Heights : store.blocks[k] # None =>
            k \in DOMAIN next /\ k >= DeploymentBlock /\ store.blocks[k].fork \in 0 .. forks + 1
    BY <1>6, <1>7 DEF StoreOK
  <2> QED
    BY <1>4, <1>6, <1>9, <2>1, <2>2 DEF StoreOK
<1>15. RowsOK'
  <2>1. \A row : RowOK(row) => RowOK(row)'
    BY <1>4, <1>7 DEF RowOK
  <2>2. \A row : row # None /\ RowOK(row) =>
            /\ row.height \in DOMAIN chain
            /\ ~(row.height < h) => row.height \in Replaced'
            /\ row.height < h => /\ row.height \in Replaced' <=> row.height \in Replaced
                                 /\ LogsIn(next, {row.height}) = LogsIn(chain, {row.height})
    BY <1>10, <1>12, <1>13 DEF RowOK
  <2>3. \A i \in StepIndexes : StepRowOK(i)'
    <3> TAKE i \in StepIndexes
    <3>1. StepRowOK(i)
      BY DEF RowsOK
    <3>2. PICK row : row = store.steps[i]
      OBVIOUS
    <3>3. RowOK(row) /\ (row # None => row.height \in Replaced \/ i \in StepsIn(LogsIn(chain, {row.height})))
      BY <3>1, <3>2 DEF StepRowOK
    <3>4. RowOK(row)'
      BY <2>1, <3>3
    <3>5. row # None => row.height \in Replaced' \/ i \in StepsIn(LogsIn(next, {row.height}))
      BY <2>2, <3>3
    <3> QED
      BY <1>4, <3>2, <3>4, <3>5 DEF StepRowOK
  <2>4. SealRowOK'
    <3>1. SealRowOK
      BY DEF RowsOK
    <3>2. PICK row : row = store.seal
      OBVIOUS
    <3>3. RowOK(row) /\ (row # None => row.height \in Replaced \/ SealsIn(LogsIn(chain, {row.height})) # {})
      BY <3>1, <3>2 DEF SealRowOK
    <3>4. RowOK(row)'
      BY <2>1, <3>3
    <3>5. row # None => row.height \in Replaced' \/ SealsIn(LogsIn(next, {row.height})) # {}
      BY <2>2, <3>3
    <3> QED
      BY <1>4, <3>2, <3>4, <3>5 DEF SealRowOK
  <2>5. LogsIn(next, 1 .. store.cursor) = LogsIn(chain, 1 .. store.cursor)
    <3>1. \A k \in 1 .. store.cursor : k < h
      BY <1>5, <1>6
    <3> QED
      BY <1>10, <3>1
  <2>6. \A entry : Written(entry) => Written(entry)'
    BY <1>4 DEF Written
  <2>7. \A entry \in LogsIn(next, 1 .. store.cursor) : Written(entry)'
    BY <2>5, <2>6 DEF RowsOK
  <2> QED
    BY <1>4, <2>3, <2>4, <2>7 DEF RowsOK
<1>16. PassOK'
  <2>1. DOMAIN pass = PassFields /\ pass.logs = {}
    BY <1>5 DEF PassOK
  <2> QED
    BY <1>4, <1>5, <2>1 DEF PassOK, Reading
<1> QED
  BY <1>11, <1>14, <1>15, <1>16

-----------------------------------------------------------------------------
LEMMA NextIndexInv == IndexInv /\ [IndexNext]_indexVars => IndexInv'
<1> SUFFICES ASSUME IndexInv, [IndexNext]_indexVars, settled'
             PROVE  ChainOK' /\ StoreOK' /\ RowsOK' /\ PassOK'
  BY DEF IndexInv
<1>1. settled
  BY Zenon DEF IndexNext, Grow, Reorg, PassStep, StartPass, FindReorg, Scan, GetLogs, Apply, FinishBatch,
     Fail, indexVars
<1>2. ChainOK /\ StoreOK /\ RowsOK /\ PassOK
  BY <1>1 DEF IndexInv
<1>3. CASE Grow
  BY <1>2, <1>3, GrowKeeps
<1>4. CASE Reorg
  BY <1>2, <1>4, ReorgKeeps
<1>5. CASE StartPass
  BY <1>2, <1>5, StartPassKeeps
<1>6. CASE FindReorg
  BY <1>2, <1>6, FindReorgKeeps
<1>7. CASE Scan
  BY <1>2, <1>7, ScanKeeps
<1>8. CASE GetLogs
  BY <1>2, <1>8, GetLogsKeeps
<1>9. CASE Apply
  BY <1>2, <1>9, ApplyKeeps
<1>10. CASE FinishBatch
  BY <1>2, <1>10, FinishBatchKeeps
<1>11. CASE Fail
  BY <1>2, <1>11, FailKeeps
<1>12. CASE UNCHANGED indexVars
  <2>1. /\ chain' = chain /\ forks' = forks /\ store' = store /\ pass' = pass
    BY <1>12 DEF indexVars
  <2>2. /\ ChainOK' /\ StoreOK' /\ RowsOK' /\ Replaced' = Replaced /\ Resume' = Resume
        /\ \A entry : Written(entry) <=> Written(entry)'
    BY <1>2, <2>1, Quiet
  <2>3. Batch' = Batch
    BY <2>1 DEF Batch
  <2>4. PassOK'
    BY <1>2, <2>1, <2>2, <2>3 DEF PassOK
  <2> QED
    BY <2>2, <2>4
<1> QED
  BY <1>3, <1>4, <1>5, <1>6, <1>7, <1>8, <1>9, <1>10, <1>11, <1>12 DEF IndexNext, PassStep

\* What the invariant says of the rows up to the cursor.
LEMMA RowsAreTheChains == IndexInv => ReceiptsAreTheChains
<1> SUFFICES ASSUME IndexInv, settled
             PROVE  /\ StepRowsTo(store.cursor) = StepsIn(Indexed)
                    /\ store.seal # None /\ store.seal.height <= store.cursor <=> SealsIn(Indexed) # {}
  BY DEF ReceiptsAreTheChains
<1>1. ChainOK /\ StoreOK /\ RowsOK
  BY DEF IndexInv
<1>2. store.cursor \in Nat /\ DOMAIN chain = 1 .. Len(chain) /\ Len(chain) \in Nat
  BY <1>1, ChainBlocks, ResumeIs
<1>3. \A h \in DOMAIN chain : h <= store.cursor => h \notin Replaced /\ LogsIn(chain, {h}) \subseteq Indexed
  <2> TAKE h \in DOMAIN chain
  <2> HAVE h <= store.cursor
  <2>1. h \notin Replaced
    BY <1>1, <1>2 DEF StoreOK
  <2>2. h \in 1 .. store.cursor
    BY <1>2
  <2>3. LogsIn(chain, {h}) \subseteq Indexed
    <3> SUFFICES ASSUME NEW entry \in LogsIn(chain, {h}) PROVE entry \in Indexed
      OBVIOUS
    <3>1. PICK H, K : H = {h} /\ K = 1 .. store.cursor
      OBVIOUS
    <3>2. entry \in LogsIn(chain, H)
      BY <3>1
    <3>3. entry.height \in H /\ \A others : entry.height \in others => entry \in LogsIn(chain, others)
      BY <3>2, LogsAmong
    <3>4. entry \in LogsIn(chain, K)
      BY <2>2, <3>1, <3>3
    <3> QED
      BY <3>1, <3>4 DEF Indexed
  <2> QED
    BY <2>1, <2>3
<1>4. \A entry \in Indexed :
         /\ entry.height \in Nat /\ entry.height <= store.cursor /\ Written(entry)
         /\ entry.event.kind = "step" => entry.event.value \in StepIndexes
  <2>1. PICK H : H = 1 .. store.cursor
    OBVIOUS
  <2>2. \A entry \in LogsIn(chain, H) :
            entry.height \in H /\ (entry.event.kind = "step" => entry.event.value \in StepIndexes)
    BY <1>1, LogFacts
  <2>3. \A entry \in LogsIn(chain, H) : Written(entry)
    BY <1>1, <2>1 DEF RowsOK
  <2> QED
    BY <1>2, <2>1, <2>2, <2>3 DEF Indexed
<1>5. ASSUME NEW i \in StepRowsTo(store.cursor) PROVE i \in StepsIn(Indexed)
  <2>1. i \in StepIndexes /\ store.steps[i] # None /\ store.steps[i].height <= store.cursor
    BY <1>5 DEF StepRowsTo, StepRows
  <2>2. StepRowOK(i)
    BY <1>1, <2>1 DEF RowsOK
  <2>3. PICK h : h = store.steps[i].height
    OBVIOUS
  <2>4. h \in DOMAIN chain /\ (h \in Replaced \/ i \in StepsIn(LogsIn(chain, {h})))
    BY <2>1, <2>2, <2>3 DEF StepRowOK, RowOK
  <2>5. i \in StepsIn(LogsIn(chain, {h})) /\ LogsIn(chain, {h}) \subseteq Indexed
    BY <1>3, <2>1, <2>3, <2>4
  <2> QED
    BY <2>5 DEF StepsIn
<1>6. ASSUME NEW i \in StepsIn(Indexed) PROVE i \in StepRowsTo(store.cursor)
  <2>1. PICK entry \in Indexed : entry.event.kind = "step" /\ i = entry.event.value
    BY <1>6 DEF StepsIn
  <2>2. store.steps[i] # None /\ store.steps[i].height = entry.height /\ i \in StepIndexes
        /\ entry.height <= store.cursor
    BY <1>4, <2>1 DEF Written
  <2> QED
    BY <2>2 DEF StepRowsTo, StepRows
<1>7. ASSUME store.seal # None, store.seal.height <= store.cursor PROVE SealsIn(Indexed) # {}
  <2>1. PICK h : h = store.seal.height
    OBVIOUS
  <2>2. h \in DOMAIN chain /\ (h \in Replaced \/ SealsIn(LogsIn(chain, {h})) # {})
    BY <1>1, <1>7, <2>1 DEF RowsOK, SealRowOK, RowOK
  <2>3. SealsIn(LogsIn(chain, {h})) # {} /\ LogsIn(chain, {h}) \subseteq Indexed
    BY <1>3, <1>7, <2>1, <2>2
  <2> QED
    BY <2>3 DEF SealsIn
<1>8. ASSUME SealsIn(Indexed) # {} PROVE store.seal # None /\ store.seal.height <= store.cursor
  <2>1. PICK entry \in Indexed : entry.event.kind = "seal"
    BY <1>8 DEF SealsIn
  <2> QED
    BY <1>4, <2>1 DEF Written
<1> QED
  BY <1>5, <1>6, <1>7, <1>8

\* Whatever the batches, the finality depth and the chain's blocks are, and
\* however many passes fail or blocks are replaced: as long as blocks were
\* replaced above the cursor only, between two passes, and the second came
\* before they were final, the receipts and seals that the index serves up to
\* its cursor are those on chain, at every moment of a pass (ingestRange,
\* findReorg, rollbackFrom and the upserts).
THEOREM IndexServesTheChain == IndexSpec => []ReceiptsAreTheChains
<1>1. IndexSpec => []IndexInv
  BY InitIndexInv, NextIndexInv, PTL DEF IndexSpec
<1> QED
  BY <1>1, RowsAreTheChains, PTL

-----------------------------------------------------------------------------
\* The directory.  What an event makes of the contracts' state, field by field.
Facts == [kind : RunEvents \cup AgentEvents, value : Nat]
States == [version : Nat, active : BOOLEAN, amount : Nat, unlockAt : Nat, slashed : BOOLEAN]
BondEvents == {"stake", "unstake", "withdraw", "slash"}
AmountEvents == {"stake", "withdraw", "slash"}

LEMMA GenesisIs == Genesis \in States /\ Genesis.version = 0 /\ Genesis.amount = 0 /\ ~Genesis.slashed
BY DEF Genesis, States

\* What an event sets, and that it leaves the rest.
EmitSets(s, e, t) ==
    /\ e.kind = "list" => t.version = e.value /\ t.active = TRUE
    /\ e.kind = "unlist" => t.active = FALSE
    /\ e.kind = "stake" => t.amount = e.value /\ t.unlockAt = 0
    /\ e.kind = "unstake" => t.unlockAt = e.value
    /\ e.kind = "withdraw" => t.amount = 0 /\ t.unlockAt = 0
    /\ e.kind = "slash" => t.amount = 0 /\ t.unlockAt = 0 /\ t.slashed = TRUE
EmitKeeps(s, e, t) ==
    /\ e.kind # "list" => t.version = s.version
    /\ e.kind \notin {"list", "unlist"} => t.active = s.active
    /\ e.kind \notin AmountEvents => t.amount = s.amount
    /\ e.kind \notin BondEvents => t.unlockAt = s.unlockAt
    /\ e.kind # "slash" => t.slashed = s.slashed

LEMMA EmitIs ==
    ASSUME NEW s \in States, NEW e \in Facts
    PROVE  Emit(s, e) \in States /\ EmitSets(s, e, Emit(s, e)) /\ EmitKeeps(s, e, Emit(s, e))
<1>1. e.value \in Nat /\ e.kind \in {"step", "seal", "list", "unlist", "stake", "unstake", "withdraw", "slash"}
  BY DEF Facts, RunEvents, AgentEvents
<1>2. PICK version \in Nat, active \in BOOLEAN, amount \in Nat, unlockAt \in Nat, slashed \in BOOLEAN :
         s = [version |-> version, active |-> active, amount |-> amount, unlockAt |-> unlockAt, slashed |-> slashed]
  BY DEF States
<1>a. s.version = version /\ s.active = active /\ s.amount = amount /\ s.unlockAt = unlockAt /\ s.slashed = slashed
  BY Zenon, <1>2
<1>3. CASE e.kind = "list"
  <2>1. PICK t : t = Emit(s, e)
    OBVIOUS
  <2>2. t = [version |-> e.value, active |-> TRUE, amount |-> amount, unlockAt |-> unlockAt, slashed |-> slashed]
    BY <1>2, <1>3, <2>1 DEF Emit
  <2>3. t.version = e.value /\ t.active = TRUE /\ t.amount = amount /\ t.unlockAt = unlockAt /\ t.slashed = slashed
    BY Zenon, <2>2
  <2>4. t \in States
    BY <1>1, <2>2 DEF States
  <2>5. EmitSets(s, e, t)
    BY Zenon, <1>3, <2>3 DEF EmitSets
  <2>6. EmitKeeps(s, e, t)
    BY Zenon, <1>a, <1>3, <2>3 DEF EmitKeeps, AmountEvents, BondEvents
  <2> QED
    BY <2>1, <2>4, <2>5, <2>6
<1>4. CASE e.kind = "unlist"
  <2>1. PICK t : t = Emit(s, e)
    OBVIOUS
  <2>2. t = [version |-> version, active |-> FALSE, amount |-> amount, unlockAt |-> unlockAt, slashed |-> slashed]
    BY <1>2, <1>4, <2>1 DEF Emit
  <2>3. t.version = version /\ t.active = FALSE /\ t.amount = amount /\ t.unlockAt = unlockAt /\ t.slashed = slashed
    BY Zenon, <2>2
  <2>4. t \in States
    BY <1>1, <2>2 DEF States
  <2>5. EmitSets(s, e, t)
    BY Zenon, <1>4, <2>3 DEF EmitSets
  <2>6. EmitKeeps(s, e, t)
    BY Zenon, <1>a, <1>4, <2>3 DEF EmitKeeps, AmountEvents, BondEvents
  <2> QED
    BY <2>1, <2>4, <2>5, <2>6
<1>5. CASE e.kind = "stake"
  <2>1. PICK t : t = Emit(s, e)
    OBVIOUS
  <2>2. t = [version |-> version, active |-> active, amount |-> e.value, unlockAt |-> 0, slashed |-> slashed]
    BY <1>2, <1>5, <2>1 DEF Emit
  <2>3. t.version = version /\ t.active = active /\ t.amount = e.value /\ t.unlockAt = 0 /\ t.slashed = slashed
    BY Zenon, <2>2
  <2>4. t \in States
    BY <1>1, <2>2 DEF States
  <2>5. EmitSets(s, e, t)
    BY Zenon, <1>5, <2>3 DEF EmitSets
  <2>6. EmitKeeps(s, e, t)
    BY Zenon, <1>a, <1>5, <2>3 DEF EmitKeeps, AmountEvents, BondEvents
  <2> QED
    BY <2>1, <2>4, <2>5, <2>6
<1>6. CASE e.kind = "unstake"
  <2>1. PICK t : t = Emit(s, e)
    OBVIOUS
  <2>2. t = [version |-> version, active |-> active, amount |-> amount, unlockAt |-> e.value, slashed |-> slashed]
    BY <1>2, <1>6, <2>1 DEF Emit
  <2>3. t.version = version /\ t.active = active /\ t.amount = amount /\ t.unlockAt = e.value /\ t.slashed = slashed
    BY Zenon, <2>2
  <2>4. t \in States
    BY <1>1, <2>2 DEF States
  <2>5. EmitSets(s, e, t)
    BY Zenon, <1>6, <2>3 DEF EmitSets
  <2>6. EmitKeeps(s, e, t)
    BY Zenon, <1>a, <1>6, <2>3 DEF EmitKeeps, AmountEvents, BondEvents
  <2> QED
    BY <2>1, <2>4, <2>5, <2>6
<1>7. CASE e.kind = "withdraw"
  <2>1. PICK t : t = Emit(s, e)
    OBVIOUS
  <2>2. t = [version |-> version, active |-> active, amount |-> 0, unlockAt |-> 0, slashed |-> slashed]
    BY <1>2, <1>7, <2>1 DEF Emit
  <2>3. t.version = version /\ t.active = active /\ t.amount = 0 /\ t.unlockAt = 0 /\ t.slashed = slashed
    BY Zenon, <2>2
  <2>4. t \in States
    BY <1>1, <2>2 DEF States
  <2>5. EmitSets(s, e, t)
    BY Zenon, <1>7, <2>3 DEF EmitSets
  <2>6. EmitKeeps(s, e, t)
    BY Zenon, <1>a, <1>7, <2>3 DEF EmitKeeps, AmountEvents, BondEvents
  <2> QED
    BY <2>1, <2>4, <2>5, <2>6
<1>8. CASE e.kind = "slash"
  <2>1. PICK t : t = Emit(s, e)
    OBVIOUS
  <2>2. t = [version |-> version, active |-> active, amount |-> 0, unlockAt |-> 0, slashed |-> TRUE]
    BY <1>2, <1>8, <2>1 DEF Emit
  <2>3. t.version = version /\ t.active = active /\ t.amount = 0 /\ t.unlockAt = 0 /\ t.slashed = TRUE
    BY Zenon, <2>2
  <2>4. t \in States
    BY <1>1, <2>2 DEF States
  <2>5. EmitSets(s, e, t)
    BY Zenon, <1>8, <2>3 DEF EmitSets
  <2>6. EmitKeeps(s, e, t)
    BY Zenon, <1>a, <1>8, <2>3 DEF EmitKeeps, AmountEvents, BondEvents
  <2> QED
    BY <2>1, <2>4, <2>5, <2>6
<1>9. CASE e.kind \in RunEvents
  <2>1. Emit(s, e) = s
    BY <1>9 DEF Emit, RunEvents
  <2>2. e.kind \notin {"list", "unlist", "stake", "unstake", "withdraw", "slash"}
    BY <1>9 DEF RunEvents
  <2>3. EmitSets(s, e, s)
    BY <2>2 DEF EmitSets
  <2>4. EmitKeeps(s, e, s)
    BY DEF EmitKeeps
  <2> QED
    BY <2>1, <2>3, <2>4
<1> QED
  BY <1>1, <1>3, <1>4, <1>5, <1>6, <1>7, <1>8, <1>9 DEF RunEvents

-----------------------------------------------------------------------------
\* The two recursive functions that replay a chain exist.
Emits(s, events, n, f) ==
    /\ f = [k \in 0 .. n |-> f[k]]
    /\ f[0] = s
    /\ \A k \in 1 .. n : f[k] = Emit(f[k - 1], events[k])

LEMMA EmitsExist == ASSUME NEW s, NEW events, NEW n \in Nat PROVE \E f : Emits(s, events, n, f)
<1> DEFINE S == {m \in Nat : ~\E f : Emits(s, events, m, f)}
<1> SUFFICES ASSUME S # {} PROVE FALSE
  OBVIOUS
<1>1. PICK m \in S : \A l \in S : m <= l
  <2>1. S \subseteq Nat
    OBVIOUS
  <2> HIDE DEF S
  <2> QED
    BY <2>1, LeastNatural
<1>2. m # 0
  <2> DEFINE f == [k \in 0 .. 0 |-> s]
  <2>1. Emits(s, events, 0, f)
    BY DEF Emits
  <2> QED
    BY <2>1
<1>3. m \in Nat /\ m - 1 \in Nat /\ m - 1 \notin S
  BY <1>1, <1>2
<1>4. PICK f : Emits(s, events, m - 1, f)
  BY <1>3
<1>5. PICK last : last = Emit(f[m - 1], events[m])
  OBVIOUS
<1> DEFINE more == [k \in 0 .. m |-> IF k = m THEN last ELSE f[k]]
<1>6. /\ \A k \in 0 .. m - 1 : more[k] = f[k]
      /\ more[m] = last /\ more = [k \in 0 .. m |-> more[k]]
  BY <1>3
<1> HIDE DEF more
<1>7. more[0] = s
  <2>1. 0 \in 0 .. m - 1
    BY <1>3
  <2>2. f[0] = s
    BY <1>4 DEF Emits
  <2> QED
    BY ONLY <1>6, <2>1, <2>2
<1>8. ASSUME NEW k \in 1 .. m PROVE more[k] = Emit(more[k - 1], events[k])
  <2>1. CASE k = m
    <3>1. m - 1 \in 0 .. m - 1 /\ k - 1 = m - 1
      BY <1>3, <2>1
    <3>2. more[k - 1] = f[m - 1]
      BY ONLY <1>6, <3>1
    <3> QED
      BY ONLY <1>5, <1>6, <2>1, <3>2
  <2>2. CASE k # m
    <3>1. k \in 1 .. m - 1 /\ k - 1 \in 0 .. m - 1 /\ k \in 0 .. m - 1
      BY <1>3, <2>2
    <3>2. f[k] = Emit(f[k - 1], events[k])
      BY <1>4, <3>1 DEF Emits
    <3> QED
      BY ONLY <1>6, <3>1, <3>2
  <2> QED
    BY <2>1, <2>2
<1>9. Emits(s, events, m, more)
  BY <1>6, <1>7, <1>8 DEF Emits
<1> QED
  BY <1>1, <1>9

LEMMA EmittedIs ==
    ASSUME NEW s, NEW events, NEW n \in Nat, n = Len(events)
    PROVE  Emits(s, events, n, Emitted(s, events))
<1> DEFINE IsIt(f) == f = [k \in 0 .. n |-> IF k = 0 THEN s ELSE Emit(f[k - 1], events[k])]
<1>1. Emitted(s, events) = CHOOSE f : IsIt(f)
  BY Zenon DEF Emitted
<1>2. PICK f : Emits(s, events, n, f)
  BY EmitsExist
<1>3. IsIt(f)
  <2>1. ASSUME NEW k \in 0 .. n PROVE f[k] = IF k = 0 THEN s ELSE Emit(f[k - 1], events[k])
    <3>1. k # 0 => k \in 1 .. n
      OBVIOUS
    <3> QED
      BY <1>2, <3>1 DEF Emits
  <2>2. f = [k \in 0 .. n |-> f[k]]
    BY <1>2 DEF Emits
  <2> QED
    BY ONLY <2>1, <2>2
<1>4. PICK g : g = (CHOOSE x : IsIt(x)) /\ IsIt(g)
  <2> HIDE DEF IsIt
  <2> QED
    BY ONLY <1>3
<1>5. Emits(s, events, n, g)
  <2>1. ASSUME NEW k \in 0 .. n PROVE g[k] = IF k = 0 THEN s ELSE Emit(g[k - 1], events[k])
    BY <1>4
  <2>2. 0 \in 0 .. n /\ \A k \in 1 .. n : k \in 0 .. n /\ k # 0
    OBVIOUS
  <2>3. g = [k \in 0 .. n |-> g[k]]
    BY <1>4
  <2>4. g[0] = s
    BY <2>1, <2>2
  <2>5. \A k \in 1 .. n : g[k] = Emit(g[k - 1], events[k])
    BY <2>1, <2>2
  <2> QED
    BY <2>3, <2>4, <2>5 DEF Emits
<1> QED
  BY <1>1, <1>4, <1>5

\* A block after what the blocks before it say.
After(s, blocks, h) == Emitted(s, blocks[h].events)[Len(blocks[h].events)]
Replays(blocks, n, f) ==
    /\ f = [h \in 0 .. n |-> f[h]]
    /\ f[0] = Genesis
    /\ \A h \in 1 .. n : f[h] = After(f[h - 1], blocks, h)

LEMMA ReplaysExist == ASSUME NEW blocks, NEW n \in Nat PROVE \E f : Replays(blocks, n, f)
<1> DEFINE S == {m \in Nat : ~\E f : Replays(blocks, m, f)}
<1> SUFFICES ASSUME S # {} PROVE FALSE
  OBVIOUS
<1>1. PICK m \in S : \A l \in S : m <= l
  <2>1. S \subseteq Nat
    OBVIOUS
  <2> HIDE DEF S
  <2> QED
    BY <2>1, LeastNatural
<1>2. m # 0
  <2> DEFINE f == [h \in 0 .. 0 |-> Genesis]
  <2>1. Replays(blocks, 0, f)
    BY DEF Replays
  <2> QED
    BY <2>1
<1>3. m \in Nat /\ m - 1 \in Nat /\ m - 1 \notin S
  BY <1>1, <1>2
<1>4. PICK f : Replays(blocks, m - 1, f)
  BY <1>3
<1>5. PICK last : last = After(f[m - 1], blocks, m)
  OBVIOUS
<1> DEFINE more == [h \in 0 .. m |-> IF h = m THEN last ELSE f[h]]
<1>6. /\ \A h \in 0 .. m - 1 : more[h] = f[h]
      /\ more[m] = last /\ more = [h \in 0 .. m |-> more[h]]
  BY <1>3
<1> HIDE DEF more
<1>7. more[0] = Genesis
  <2>1. 0 \in 0 .. m - 1
    BY <1>3
  <2>2. f[0] = Genesis
    BY <1>4 DEF Replays
  <2> QED
    BY ONLY <1>6, <2>1, <2>2
<1>8. ASSUME NEW h \in 1 .. m PROVE more[h] = After(more[h - 1], blocks, h)
  <2>1. CASE h = m
    <3>1. m - 1 \in 0 .. m - 1 /\ h - 1 = m - 1
      BY <1>3, <2>1
    <3>2. more[h - 1] = f[m - 1]
      BY ONLY <1>6, <3>1
    <3> QED
      BY ONLY <1>5, <1>6, <2>1, <3>2
  <2>2. CASE h # m
    <3>1. h \in 1 .. m - 1 /\ h - 1 \in 0 .. m - 1 /\ h \in 0 .. m - 1
      BY <1>3, <2>2
    <3>2. f[h] = After(f[h - 1], blocks, h)
      BY <1>4, <3>1 DEF Replays
    <3> QED
      BY ONLY <1>6, <3>1, <3>2
  <2> QED
    BY <2>1, <2>2
<1>9. Replays(blocks, m, more)
  BY <1>6, <1>7, <1>8 DEF Replays
<1> QED
  BY <1>1, <1>9

LEMMA ReplayIs ==
    ASSUME NEW blocks, NEW n \in Nat, n = Len(blocks)
    PROVE  Replays(blocks, n, Replay(blocks))
<1> DEFINE IsIt(f) == f = [h \in 0 .. n |-> IF h = 0 THEN Genesis ELSE After(f[h - 1], blocks, h)]
<1>1. Replay(blocks) = CHOOSE f : IsIt(f)
  BY Zenon DEF Replay, After
<1>2. PICK f : Replays(blocks, n, f)
  BY ReplaysExist
<1>3. IsIt(f)
  <2>1. ASSUME NEW h \in 0 .. n PROVE f[h] = IF h = 0 THEN Genesis ELSE After(f[h - 1], blocks, h)
    <3>1. h # 0 => h \in 1 .. n
      OBVIOUS
    <3> QED
      BY <1>2, <3>1 DEF Replays
  <2>2. f = [h \in 0 .. n |-> f[h]]
    BY <1>2 DEF Replays
  <2> QED
    BY ONLY <2>1, <2>2
<1>4. PICK g : g = (CHOOSE x : IsIt(x)) /\ IsIt(g)
  <2> HIDE DEF IsIt
  <2> QED
    BY ONLY <1>3
<1>5. Replays(blocks, n, g)
  <2>1. ASSUME NEW h \in 0 .. n PROVE g[h] = IF h = 0 THEN Genesis ELSE After(g[h - 1], blocks, h)
    BY <1>4
  <2>2. 0 \in 0 .. n /\ \A h \in 1 .. n : h \in 0 .. n /\ h # 0
    OBVIOUS
  <2>3. g = [h \in 0 .. n |-> g[h]]
    BY <1>4
  <2>4. g[0] = Genesis
    BY <2>1, <2>2
  <2>5. \A h \in 1 .. n : g[h] = After(g[h - 1], blocks, h)
    BY <2>1, <2>2
  <2> QED
    BY <2>3, <2>4, <2>5 DEF Replays
<1> QED
  BY <1>1, <1>4, <1>5
-----------------------------------------------------------------------------
\* A mark is a place in the chain: after the k-th event of block h.
Size(blocks, h) == IF h = 0 THEN 0 ELSE Len(blocks[h].events)
MarkState(blocks, h, k) == IF h = 0 THEN Genesis ELSE StateAt(blocks, h, k)
Ahead(h1, k1, h2, k2) == h1 < h2 \/ (h1 = h2 /\ k1 <= k2)
ChainOfFacts(blocks) ==
    /\ Len(blocks) \in Nat /\ DOMAIN blocks = 1 .. Len(blocks)
    /\ \A h \in DOMAIN blocks : blocks[h].events \in Seq(Facts)

LEMMA EventsAre ==
    ASSUME NEW blocks, ChainOfFacts(blocks), NEW h \in 0 .. Len(blocks)
    PROVE  /\ Size(blocks, h) \in Nat
           /\ h # 0 => /\ h \in DOMAIN blocks /\ Size(blocks, h) = Len(blocks[h].events)
                       /\ DOMAIN blocks[h].events = 1 .. Size(blocks, h)
                       /\ \A k \in 1 .. Size(blocks, h) : blocks[h].events[k] \in Facts
<1>1. CASE h = 0
  BY <1>1 DEF Size
<1>2. CASE h # 0
  <2>1. h \in DOMAIN blocks
    BY <1>2 DEF ChainOfFacts
  <2>2. PICK events : events = blocks[h].events
    OBVIOUS
  <2>3. events \in Seq(Facts)
    BY <2>1, <2>2 DEF ChainOfFacts
  <2>4. Len(events) \in Nat /\ DOMAIN events = 1 .. Len(events) /\ \A k \in 1 .. Len(events) : events[k] \in Facts
    BY <2>3, ElementOfSeq
  <2> QED
    BY <1>2, <2>1, <2>2, <2>4 DEF Size
<1> QED
  BY <1>1, <1>2

LEMMA MarkNext ==
    ASSUME NEW blocks, ChainOfFacts(blocks)
    PROVE  /\ MarkState(blocks, 0, 0) = Genesis
           /\ \A h \in 1 .. Len(blocks) :
                 /\ MarkState(blocks, h, 0) = MarkState(blocks, h - 1, Size(blocks, h - 1))
                 /\ \A k \in 1 .. Size(blocks, h) :
                       MarkState(blocks, h, k) = Emit(MarkState(blocks, h, k - 1), blocks[h].events[k])
           /\ \A h \in 0 .. Len(blocks) : Replay(blocks)[h] = MarkState(blocks, h, Size(blocks, h))
<1>1. PICK n \in Nat : n = Len(blocks)
  BY DEF ChainOfFacts
<1>2. PICK f : f = Replay(blocks)
  OBVIOUS
<1>3. Replays(blocks, n, f)
  BY <1>1, <1>2, ReplayIs
<1>4. ASSUME NEW h \in 1 .. n
      PROVE  /\ MarkState(blocks, h, 0) = f[h - 1]
             /\ \A k \in 1 .. Size(blocks, h) :
                   MarkState(blocks, h, k) = Emit(MarkState(blocks, h, k - 1), blocks[h].events[k])
             /\ f[h] = MarkState(blocks, h, Size(blocks, h))
  <2>1. PICK events, s, g : events = blocks[h].events /\ s = f[h - 1] /\ g = Emitted(s, events)
    OBVIOUS
  <2>2. Size(blocks, h) = Len(events) /\ Len(events) \in Nat
    BY <1>1, <2>1, EventsAre
  <2>3. Emits(s, events, Len(events), g)
    BY <2>1, <2>2, EmittedIs
  <2>4. \A k : MarkState(blocks, h, k) = g[k]
    BY <1>2, <2>1 DEF MarkState, StateAt
  <2>5. f[h] = g[Len(events)]
    BY <1>3, <2>1 DEF Replays, After
  <2>6. g[0] = s /\ \A k \in 1 .. Len(events) : g[k] = Emit(g[k - 1], events[k])
    BY <2>3 DEF Emits
  <2> QED
    BY <2>1, <2>2, <2>4, <2>5, <2>6
<1>5. f[0] = Genesis
  BY <1>3 DEF Replays
<1>6. \A h \in 0 .. n : f[h] = MarkState(blocks, h, Size(blocks, h))
  <2> TAKE h \in 0 .. n
  <2>1. h = 0 \/ h \in 1 .. n
    BY <1>1
  <2>2. h = 0 => MarkState(blocks, h, Size(blocks, h)) = Genesis
    BY DEF MarkState
  <2> QED
    BY <1>4, <1>5, <2>1, <2>2
<1>7. \A h \in 1 .. n : h - 1 \in 0 .. n
  BY <1>1
<1>8. MarkState(blocks, 0, 0) = Genesis
  BY DEF MarkState
<1>9. \A h \in 1 .. n : MarkState(blocks, h, 0) = MarkState(blocks, h - 1, Size(blocks, h - 1))
  BY <1>4, <1>6, <1>7
<1> QED
  BY <1>1, <1>2, <1>4, <1>6, <1>8, <1>9

LEMMA MarkInduction ==
    ASSUME NEW blocks, ChainOfFacts(blocks), NEW S,
           NEW h1 \in 0 .. Len(blocks), NEW k1 \in 0 .. Size(blocks, h1), <<h1, k1>> \in S,
           \A h \in h1 .. Len(blocks) : \A k \in 1 .. Size(blocks, h) :
               (h > h1 \/ k > k1) /\ <<h, k - 1>> \in S => <<h, k>> \in S,
           \A h \in h1 + 1 .. Len(blocks) : <<h - 1, Size(blocks, h - 1)>> \in S => <<h, 0>> \in S,
           NEW h2 \in 0 .. Len(blocks), NEW k2 \in 0 .. Size(blocks, h2), Ahead(h1, k1, h2, k2)
    PROVE  <<h2, k2>> \in S
<1>1. PICK n \in Nat : n = Len(blocks)
  BY DEF ChainOfFacts
<1>2. \A h \in 0 .. n : Size(blocks, h) \in Nat
  BY <1>1, EventsAre
<1>3. ASSUME NEW h \in h1 .. n, NEW a \in Nat, <<h, a>> \in S, h > h1 \/ a >= k1,
             NEW b \in Nat, a <= b, b <= Size(blocks, h)
      PROVE  <<h, b>> \in S
  <2> DEFINE T == {k \in Nat : a <= k /\ k <= Size(blocks, h) /\ <<h, k>> \notin S}
  <2> SUFFICES ASSUME T # {} PROVE FALSE
    BY <1>3
  <2>1. PICK k \in T : \A l \in T : k <= l
    <3>1. T \subseteq Nat
      OBVIOUS
    <3> HIDE DEF T
    <3> QED
      BY <3>1, LeastNatural
  <2>2. k \in Nat /\ a <= k /\ k <= Size(blocks, h) /\ <<h, k>> \notin S /\ k # a
    BY <1>3, <2>1
  <2>3. PICK size \in Nat : size = Size(blocks, h)
    BY <1>1, <1>2
  <2>4. k - 1 \in Nat /\ a <= k - 1 /\ k - 1 <= size /\ k \in 1 .. size /\ ~(k <= k - 1)
    BY <2>2, <2>3
  <2>5. <<h, k - 1>> \in S
    BY <2>1, <2>3, <2>4
  <2>6. h > h1 \/ k > k1
    BY <1>3, <2>4
  <2> QED
    BY <1>1, <2>2, <2>3, <2>4, <2>5, <2>6
<1>4. ASSUME NEW h \in h1 .. n PROVE <<h, Size(blocks, h)>> \in S
  <2> DEFINE T == {l \in h1 .. n : <<l, Size(blocks, l)>> \notin S}
  <2> SUFFICES ASSUME T # {} PROVE FALSE
    BY <1>4
  <2>1. PICK l \in T : \A m \in T : l <= m
    <3>1. T \subseteq Nat
      BY <1>1
    <3> HIDE DEF T
    <3> QED
      BY <3>1, LeastNatural
  <2>2. l \in h1 .. n /\ l \in 0 .. n /\ <<l, Size(blocks, l)>> \notin S /\ l \in Nat
    BY <1>1, <2>1
  <2>3. PICK size \in Nat : size = Size(blocks, l)
    BY <1>2, <2>2
  <2>4. CASE l = h1
    <3>1. <<l, k1>> \in S /\ k1 \in Nat /\ k1 <= size /\ k1 >= k1
      BY <2>3, <2>4
    <3> QED
      BY <1>3, <2>2, <2>3, <3>1
  <2>5. CASE l # h1
    <3>1. l - 1 \in h1 .. n /\ l \in h1 + 1 .. n /\ ~(l <= l - 1) /\ l > h1
      BY <1>1, <2>2, <2>5
    <3>2. <<l - 1, Size(blocks, l - 1)>> \in S
      BY <2>1, <3>1
    <3>3. <<l, 0>> \in S
      BY <1>1, <3>1, <3>2
    <3>4. 0 \in Nat /\ 0 <= size
      BY <2>3
    <3> QED
      BY <1>3, <2>2, <2>3, <3>1, <3>3, <3>4
  <2> QED
    BY <2>4, <2>5
<1>5. PICK size \in Nat : size = Size(blocks, h2)
  BY <1>1, <1>2
<1>6. CASE h2 = h1
  BY <1>1, <1>3, <1>5, <1>6 DEF Ahead
<1>7. CASE h2 # h1
  <2>1. h2 - 1 \in h1 .. n /\ h2 \in h1 + 1 .. n /\ h2 \in h1 .. n /\ h2 > h1
    BY <1>1, <1>7 DEF Ahead
  <2>2. <<h2 - 1, Size(blocks, h2 - 1)>> \in S
    BY <1>4, <2>1
  <2>3. <<h2, 0>> \in S
    BY <1>1, <2>1, <2>2
  <2>4. 0 \in Nat /\ 0 <= k2 /\ k2 <= size /\ k2 \in Nat
    BY <1>5
  <2> QED
    BY <1>3, <1>5, <2>1, <2>3, <2>4
<1> QED
  BY <1>6, <1>7
-----------------------------------------------------------------------------
LEMMA MarksTyped ==
    ASSUME NEW blocks, ChainOfFacts(blocks), NEW h \in 0 .. Len(blocks), NEW k \in 0 .. Size(blocks, h)
    PROVE  MarkState(blocks, h, k) \in States
<1> DEFINE S == {m \in (0 .. Len(blocks)) \X Nat : MarkState(blocks, m[1], m[2]) \in States}
<1>1. Len(blocks) \in Nat /\ \A i \in 0 .. Len(blocks) : Size(blocks, i) \in Nat
  BY EventsAre DEF ChainOfFacts
<1>2. \A i \in 0 .. Len(blocks) : \A j \in Nat : MarkState(blocks, i, j) \in States <=> <<i, j>> \in S
  OBVIOUS
<1> HIDE DEF S
<1>3. <<0, 0>> \in S
  BY <1>1, <1>2, MarkNext, GenesisIs
<1>4. ASSUME NEW i \in 0 .. Len(blocks), NEW j \in 1 .. Size(blocks, i), <<i, j - 1>> \in S
      PROVE  <<i, j>> \in S
  <2>1. PICK size \in Nat : size = Size(blocks, i)
    BY <1>1
  <2>2. i # 0 /\ i \in 1 .. Len(blocks) /\ j - 1 \in Nat /\ j \in Nat
    BY <1>1, <2>1 DEF Size
  <2>3. MarkState(blocks, i, j) = Emit(MarkState(blocks, i, j - 1), blocks[i].events[j])
    BY <2>2, MarkNext
  <2>4. blocks[i].events[j] \in Facts
    BY <2>2, EventsAre
  <2>5. MarkState(blocks, i, j - 1) \in States
    BY <1>2, <1>4, <2>2
  <2> QED
    BY <1>2, <2>2, <2>3, <2>4, <2>5, EmitIs
<1>5. ASSUME NEW i \in 0 + 1 .. Len(blocks), <<i - 1, Size(blocks, i - 1)>> \in S PROVE <<i, 0>> \in S
  <2>1. i \in 1 .. Len(blocks) /\ i - 1 \in 0 .. Len(blocks)
    BY <1>1
  <2>2. Size(blocks, i - 1) \in Nat
    BY <1>1, <2>1
  <2> QED
    BY <1>2, <1>5, <2>1, <2>2, MarkNext
<1>6. 0 \in 0 .. Len(blocks) /\ 0 \in 0 .. Size(blocks, 0)
  BY <1>1 DEF Size
<1>7. Ahead(0, 0, h, k)
  BY <1>1 DEF Ahead
<1>8. <<h, k>> \in S
  BY <1>3, <1>4, <1>5, <1>6, <1>7, MarkInduction
<1> QED
  BY <1>1, <1>2, <1>8

\* What does not happen between two marks leaves the state as it was.
Alike(kinds, s, t) ==
    /\ "list" \notin kinds => t.version = s.version
    /\ kinds \cap {"list", "unlist"} = {} => t.active = s.active
    /\ kinds \cap AmountEvents = {} => t.amount = s.amount
    /\ kinds \cap BondEvents = {} => t.unlockAt = s.unlockAt
    /\ "slash" \notin kinds => t.slashed = s.slashed
Between(blocks, h1, k1, h2, k2, kinds) ==
    \A i \in 1 .. Len(blocks) : \A j \in 1 .. Size(blocks, i) :
        Ahead(i, j, h1, k1) \/ ~Ahead(i, j, h2, k2) \/ blocks[i].events[j].kind \in kinds
\* What does happen counts versions up, and slashes for good.
Onward(s, t) == t.version >= s.version /\ (s.slashed => t.slashed)

LEMMA Walk ==
    ASSUME NEW blocks, ChainOfFacts(blocks), NEW kinds,
           NEW h1 \in 0 .. Len(blocks), NEW k1 \in 0 .. Size(blocks, h1),
           NEW h2 \in 0 .. Len(blocks), NEW k2 \in 0 .. Size(blocks, h2), Ahead(h1, k1, h2, k2),
           Between(blocks, h1, k1, h2, k2, kinds)
    PROVE  Alike(kinds, MarkState(blocks, h1, k1), MarkState(blocks, h2, k2))
<1>1. Len(blocks) \in Nat /\ \A i \in 0 .. Len(blocks) : Size(blocks, i) \in Nat
  BY EventsAre DEF ChainOfFacts
<1>2. PICK s \in States : s = MarkState(blocks, h1, k1)
  BY MarksTyped
<1> DEFINE S == {m \in (0 .. Len(blocks)) \X Nat :
                    ~Ahead(m[1], m[2], h2, k2) \/ Alike(kinds, s, MarkState(blocks, m[1], m[2]))}
<1>3. \A i \in 0 .. Len(blocks) : \A j \in Nat :
         ~Ahead(i, j, h2, k2) \/ Alike(kinds, s, MarkState(blocks, i, j)) <=> <<i, j>> \in S
  OBVIOUS
<1> HIDE DEF S
<1>4. <<h1, k1>> \in S
  <2>1. Alike(kinds, s, s)
    BY DEF Alike
  <2>2. k1 \in Nat
    BY <1>1
  <2> QED
    BY <1>2, <1>3, <2>1, <2>2
<1>5. ASSUME NEW i \in h1 .. Len(blocks), NEW j \in 1 .. Size(blocks, i), i > h1 \/ j > k1, <<i, j - 1>> \in S
      PROVE  <<i, j>> \in S
  <2>a. i \in 0 .. Len(blocks)
    BY <1>1
  <2>1. PICK size \in Nat : size = Size(blocks, i)
    BY <1>1, <2>a
  <2>2. i # 0 /\ i \in 1 .. Len(blocks) /\ j - 1 \in Nat /\ j \in Nat
    BY <1>1, <2>a, <2>1 DEF Size
  <2>3. CASE ~Ahead(i, j, h2, k2)
    BY <1>3, <2>2, <2>3, <2>a
  <2>4. CASE Ahead(i, j, h2, k2)
    <3>1. Ahead(i, j - 1, h2, k2) /\ ~Ahead(i, j, h1, k1)
      BY <1>1, <1>5, <2>2, <2>4 DEF Ahead
    <3>2. PICK t \in States : t = MarkState(blocks, i, j - 1)
      <4>1. j - 1 \in 0 .. Size(blocks, i)
        BY <2>1, <2>2
      <4> QED
        BY <2>a, <4>1, MarksTyped
    <3>3. PICK e \in Facts : e = blocks[i].events[j]
      BY <2>a, <2>2, EventsAre
    <3>4. e.kind \in kinds
      BY <2>2, <2>4, <3>1, <3>3 DEF Between
    <3>5. Alike(kinds, s, t)
      BY <1>3, <1>5, <2>a, <2>2, <3>1, <3>2
    <3>6. PICK u \in States : u = Emit(t, e) /\ EmitKeeps(t, e, u)
      BY EmitIs
    <3>7. Alike(kinds, s, u)
      <4>1. "list" \notin kinds => u.version = s.version
        BY Zenon, <3>4, <3>5, <3>6 DEF Alike, EmitKeeps
      <4>2. kinds \cap {"list", "unlist"} = {} => u.active = s.active
        BY Zenon, <3>4, <3>5, <3>6 DEF Alike, EmitKeeps
      <4>3. kinds \cap AmountEvents = {} => u.amount = s.amount
        BY Zenon, <3>4, <3>5, <3>6 DEF Alike, EmitKeeps
      <4>4. kinds \cap BondEvents = {} => u.unlockAt = s.unlockAt
        BY Zenon, <3>4, <3>5, <3>6 DEF Alike, EmitKeeps
      <4>5. "slash" \notin kinds => u.slashed = s.slashed
        BY Zenon, <3>4, <3>5, <3>6 DEF Alike, EmitKeeps
      <4> QED
        BY Zenon, <4>1, <4>2, <4>3, <4>4, <4>5 DEF Alike
    <3>8. MarkState(blocks, i, j) = u
      BY <2>2, <3>2, <3>3, <3>6, MarkNext
    <3> QED
      BY <1>3, <2>a, <2>2, <3>7, <3>8
  <2> QED
    BY <2>3, <2>4
<1>6. ASSUME NEW i \in h1 + 1 .. Len(blocks), <<i - 1, Size(blocks, i - 1)>> \in S PROVE <<i, 0>> \in S
  <2>1. i \in 1 .. Len(blocks) /\ i - 1 \in 0 .. Len(blocks) /\ i \in 0 .. Len(blocks)
    BY <1>1
  <2>2. PICK size \in Nat : size = Size(blocks, i - 1)
    BY <1>1, <2>1
  <2>3. Ahead(i, 0, h2, k2) => Ahead(i - 1, size, h2, k2)
    BY <1>1, <2>1, <2>2 DEF Ahead
  <2>4. MarkState(blocks, i, 0) = MarkState(blocks, i - 1, size)
    BY <2>1, <2>2, MarkNext
  <2>5. <<i - 1, size>> \in S
    BY <1>6, <2>2
  <2>6. 0 \in Nat
    OBVIOUS
  <2> QED
    BY ONLY <1>3, <2>1, <2>2, <2>3, <2>4, <2>5, <2>6
<1>7. <<h2, k2>> \in S
  BY <1>4, <1>5, <1>6, MarkInduction
<1>8. k2 \in Nat /\ Ahead(h2, k2, h2, k2)
  BY <1>1 DEF Ahead
<1> QED
  BY <1>2, <1>3, <1>7, <1>8

LEMMA MarksOnward ==
    ASSUME NEW blocks, ChainOfFacts(blocks), AgentsAreLegal(blocks),
           NEW h1 \in 0 .. Len(blocks), NEW k1 \in 0 .. Size(blocks, h1),
           NEW h2 \in 0 .. Len(blocks), NEW k2 \in 0 .. Size(blocks, h2), Ahead(h1, k1, h2, k2)
    PROVE  Onward(MarkState(blocks, h1, k1), MarkState(blocks, h2, k2))
<1>1. Len(blocks) \in Nat /\ \A i \in 0 .. Len(blocks) : Size(blocks, i) \in Nat
  BY EventsAre DEF ChainOfFacts
<1>2. PICK s \in States : s = MarkState(blocks, h1, k1)
  BY MarksTyped
<1> DEFINE S == {m \in (0 .. Len(blocks)) \X Nat : Onward(s, MarkState(blocks, m[1], m[2]))}
<1>3. \A i \in 0 .. Len(blocks) : \A j \in Nat : Onward(s, MarkState(blocks, i, j)) <=> <<i, j>> \in S
  OBVIOUS
<1> HIDE DEF S
<1>4. <<h1, k1>> \in S
  <2>1. Onward(s, s)
    BY DEF Onward, States
  <2>2. k1 \in Nat
    BY <1>1
  <2> QED
    BY <1>2, <1>3, <2>1, <2>2
<1>5. ASSUME NEW i \in h1 .. Len(blocks), NEW j \in 1 .. Size(blocks, i), <<i, j - 1>> \in S
      PROVE  <<i, j>> \in S
  <2>a. i \in 0 .. Len(blocks)
    BY <1>1
  <2>1. PICK size \in Nat : size = Size(blocks, i)
    BY <1>1, <2>a
  <2>2. i # 0 /\ i \in 1 .. Len(blocks) /\ j - 1 \in Nat /\ j \in Nat
    BY <1>1, <2>a, <2>1 DEF Size
  <2>3. PICK t \in States : t = MarkState(blocks, i, j - 1)
    <3>1. j - 1 \in 0 .. Size(blocks, i)
      BY <2>1, <2>2
    <3> QED
      BY <2>a, <3>1, MarksTyped
  <2>4. PICK e \in Facts : e = blocks[i].events[j]
    BY <2>a, <2>2, EventsAre
  <2>5. MayEmit(t, e)
    <3>1. i \in DOMAIN blocks /\ j \in DOMAIN blocks[i].events
      BY <2>a, <2>2, EventsAre
    <3>2. StateAt(blocks, i, j - 1) = t
      BY <2>2, <2>3 DEF MarkState
    <3> QED
      BY <2>4, <3>1, <3>2 DEF AgentsAreLegal
  <2>6. PICK u \in States : u = Emit(t, e) /\ EmitKeeps(t, e, u) /\ EmitSets(t, e, u)
    BY EmitIs
  <2>7. u.version \in Nat /\ t.version \in Nat /\ s.version \in Nat
    BY DEF States
  <2>8. e.kind = "list" => e.value > t.version
    BY <2>5 DEF MayEmit
  <2>9. t.version >= s.version /\ (s.slashed => t.slashed)
    BY <1>3, <1>5, <2>a, <2>2, <2>3 DEF Onward
  <2>10. u.version = t.version \/ (e.kind = "list" /\ u.version = e.value)
    BY <2>6 DEF EmitKeeps, EmitSets
  <2>11. u.slashed = t.slashed \/ u.slashed = TRUE
    BY Zenon, <2>6 DEF EmitKeeps, EmitSets
  <2>12. u.version >= s.version
    BY <2>7, <2>8, <2>9, <2>10
  <2>13. s.slashed => u.slashed
    BY Zenon, <2>9, <2>11
  <2>14. MarkState(blocks, i, j) = u
    BY <2>2, <2>3, <2>4, <2>6, MarkNext
  <2>15. Onward(s, u)
    BY <2>12, <2>13 DEF Onward
  <2> QED
    BY <1>3, <2>a, <2>2, <2>14, <2>15
<1>6. ASSUME NEW i \in h1 + 1 .. Len(blocks), <<i - 1, Size(blocks, i - 1)>> \in S PROVE <<i, 0>> \in S
  <2>1. i \in 1 .. Len(blocks) /\ i - 1 \in 0 .. Len(blocks) /\ i \in 0 .. Len(blocks)
    BY <1>1
  <2>2. PICK size \in Nat : size = Size(blocks, i - 1)
    BY <1>1, <2>1
  <2>4. MarkState(blocks, i, 0) = MarkState(blocks, i - 1, size)
    BY <2>1, <2>2, MarkNext
  <2>5. <<i - 1, size>> \in S
    BY <1>6, <2>2
  <2>6. 0 \in Nat
    OBVIOUS
  <2> QED
    BY ONLY <1>3, <2>1, <2>2, <2>4, <2>5, <2>6
<1>7. <<h2, k2>> \in S
  BY <1>4, <1>5, <1>6, MarkInduction
<1>8. k2 \in Nat
  BY <1>1
<1> QED
  BY <1>2, <1>3, <1>7, <1>8

\* Blocks that come later change no earlier mark.
LEMMA MarksStay ==
    ASSUME NEW blocks, ChainOfFacts(blocks), NEW more, ChainOfFacts(more), Len(blocks) <= Len(more),
           \A i \in 1 .. Len(blocks) : more[i] = blocks[i],
           NEW h \in 0 .. Len(blocks), NEW k \in 0 .. Size(blocks, h)
    PROVE  Size(more, h) = Size(blocks, h) /\ MarkState(more, h, k) = MarkState(blocks, h, k)
<1>1. Len(blocks) \in Nat /\ Len(more) \in Nat /\ \A i \in 0 .. Len(blocks) : Size(blocks, i) \in Nat
  BY EventsAre DEF ChainOfFacts
<1>a. \A i \in 0 .. Len(blocks) : Size(more, i) = Size(blocks, i)
  <2> TAKE i \in 0 .. Len(blocks)
  <2>1. i = 0 \/ i \in 1 .. Len(blocks)
    BY <1>1
  <2> QED
    BY <2>1 DEF Size
<1> DEFINE S == {m \in (0 .. Len(blocks)) \X Nat : MarkState(more, m[1], m[2]) = MarkState(blocks, m[1], m[2])}
<1>2. \A i \in 0 .. Len(blocks) : \A j \in Nat :
         MarkState(more, i, j) = MarkState(blocks, i, j) <=> <<i, j>> \in S
  OBVIOUS
<1> HIDE DEF S
<1>3. <<0, 0>> \in S
  <2>1. 0 \in 0 .. Len(blocks) /\ 0 \in Nat
    BY <1>1
  <2> QED
    BY <1>2, <2>1, MarkNext
<1>4. ASSUME NEW i \in 0 .. Len(blocks), NEW j \in 1 .. Size(blocks, i), <<i, j - 1>> \in S
      PROVE  <<i, j>> \in S
  <2>1. PICK size \in Nat : size = Size(blocks, i) /\ size = Size(more, i)
    BY <1>1, <1>a
  <2>2. i # 0 /\ i \in 1 .. Len(blocks) /\ i \in 1 .. Len(more) /\ j - 1 \in Nat /\ j \in Nat
    BY <1>1, <2>1 DEF Size
  <2>3. MarkState(blocks, i, j) = Emit(MarkState(blocks, i, j - 1), blocks[i].events[j])
    BY <2>2, MarkNext
  <2>4. MarkState(more, i, j) = Emit(MarkState(more, i, j - 1), more[i].events[j])
    BY <2>1, <2>2, MarkNext
  <2>5. MarkState(more, i, j - 1) = MarkState(blocks, i, j - 1)
    BY <1>2, <1>4, <2>2
  <2>6. more[i] = blocks[i]
    BY <2>2
  <2> QED
    BY <1>2, <2>2, <2>3, <2>4, <2>5, <2>6
<1>5. ASSUME NEW i \in 0 + 1 .. Len(blocks), <<i - 1, Size(blocks, i - 1)>> \in S PROVE <<i, 0>> \in S
  <2>1. i \in 1 .. Len(blocks) /\ i \in 1 .. Len(more) /\ i - 1 \in 0 .. Len(blocks) /\ i \in 0 .. Len(blocks)
    BY <1>1
  <2>2. PICK size \in Nat : size = Size(blocks, i - 1) /\ size = Size(more, i - 1)
    BY <1>1, <1>a, <2>1
  <2>3. MarkState(more, i, 0) = MarkState(more, i - 1, size) /\ MarkState(blocks, i, 0) = MarkState(blocks, i - 1, size)
    BY <2>1, <2>2, MarkNext
  <2>4. <<i - 1, size>> \in S
    BY <1>5, <2>2
  <2>5. 0 \in Nat
    OBVIOUS
  <2> QED
    BY ONLY <1>2, <2>1, <2>2, <2>3, <2>4, <2>5
<1>6. 0 \in 0 .. Len(blocks) /\ 0 \in 0 .. Size(blocks, 0)
  BY <1>1 DEF Size
<1>7. Ahead(0, 0, h, k)
  BY <1>1 DEF Ahead
<1>8. <<h, k>> \in S
  BY <1>3, <1>4, <1>5, <1>6, <1>7, MarkInduction
<1> QED
  BY <1>1, <1>2, <1>8, <1>a
-----------------------------------------------------------------------------
\* What the two rows owe to the events up to a mark: U, of which P are still
\* to be applied, again or for the first time; s is the contracts' state there.
Of(logs, kinds) == {l \in logs : l.event.kind \in kinds}
AtHeight(logs, h) == {l \in logs : l.height = h}
KindsOf(logs) == {l.event.kind : l \in logs}
ListingEvents == {"list", "unlist"}

ListingOK(row, U, P, s) ==
    IF row = None THEN Of(U, {"list"}) = {}
    ELSE /\ DOMAIN row = {"version", "active", "height"}
         /\ row.version = s.version
         /\ Of(U \cap P, ListingEvents) = {} => row.active = s.active
BondOK(row, U, P, s) ==
    IF row = None THEN Of(U, BondEvents) = {}
    ELSE /\ \E l \in Of(U, BondEvents) : l.height = row.height
         /\ \A l \in Of(U, BondEvents) : l.height <= row.height
         /\ row.slashed = s.slashed
         /\ Of(AtHeight(U \cap P, row.height), AmountEvents) = {} => row.amount = s.amount
         /\ Of(AtHeight(U \cap P, row.height), BondEvents) = {} => row.unlockAt = s.unlockAt

\* The more is pending, the less is owed.
LEMMA OwedLess ==
    ASSUME NEW U, NEW P, NEW Q, NEW s, U \cap P \subseteq Q, NEW listing, NEW bond,
           ListingOK(listing, U, P, s), BondOK(bond, U, P, s)
    PROVE  ListingOK(listing, U, Q, s) /\ BondOK(bond, U, Q, s)
<1>1. ListingOK(listing, U, Q, s)
  <2>1. Of(U \cap P, ListingEvents) \subseteq Of(U \cap Q, ListingEvents)
    BY DEF Of
  <2> QED
    BY <2>1 DEF ListingOK
<1>2. BondOK(bond, U, Q, s)
  <2>1. \A h, kinds : Of(AtHeight(U \cap P, h), kinds) \subseteq Of(AtHeight(U \cap Q, h), kinds)
    BY DEF Of, AtHeight
  <2>2. \A h, kinds : Of(AtHeight(U \cap Q, h), kinds) = {} => Of(AtHeight(U \cap P, h), kinds) = {}
    BY <2>1
  <2> QED
    BY <2>2 DEF BondOK
<1> QED
  BY <1>1, <1>2

\* What an event of an agent does to its two rows.
Relisted(s, entry, t) ==
    /\ entry.event.kind = "list" =>
          t.listing = IF NewerListing(s, entry.event.value)
                      THEN [version |-> entry.event.value, active |-> TRUE, height |-> entry.height]
                      ELSE s.listing
    /\ entry.event.kind = "unlist" =>
          t.listing = IF s.listing = None THEN s.listing
                      ELSE [s.listing EXCEPT !.active = FALSE, !.height = entry.height]
    /\ entry.event.kind \in (RunEvents \cup AgentEvents) \ ListingEvents => t.listing = s.listing

LEMMA ListingUpserted ==
    ASSUME NEW s, DOMAIN s = StoreFields, NEW entry, NEW t, t = Upsert(s, entry)
    PROVE  Relisted(s, entry, t)
<1> USE DEF Relisted
<1>1. CASE entry.event.kind = "list"
  <2>1. PICK row : row = [version |-> entry.event.value, active |-> TRUE, height |-> entry.height]
    OBVIOUS
  <2>2. t = IF NewerListing(s, entry.event.value) THEN [s EXCEPT !.listing = row] ELSE s
    BY <1>1, <2>1, Zenon DEF Upsert
  <2>3. [s EXCEPT !.listing = row].listing = row
    BY DEF StoreFields
  <2>4. t.listing = IF NewerListing(s, entry.event.value) THEN row ELSE s.listing
    BY <2>2, <2>3
  <2> QED
    BY <1>1, <2>1, <2>4 DEF ListingEvents
<1>2. CASE entry.event.kind = "unlist"
  <2>1. PICK row : row = [s.listing EXCEPT !.active = FALSE, !.height = entry.height]
    OBVIOUS
  <2>2. t = IF s.listing = None THEN s ELSE [s EXCEPT !.listing = row]
    BY <1>2, <2>1 DEF Upsert
  <2>3. [s EXCEPT !.listing = row].listing = row
    BY DEF StoreFields
  <2>4. t.listing = IF s.listing = None THEN s.listing ELSE row
    BY <2>2, <2>3
  <2> QED
    BY <1>2, <2>1, <2>4 DEF ListingEvents
<1>3. CASE entry.event.kind \in BondEvents
  <2>1. \/ t = UpsertBond(s, entry.height, entry.event.value, 0, FALSE)
        \/ t = UpsertBond(s, entry.height, HeldBond(s), entry.event.value, FALSE)
        \/ t = UpsertBond(s, entry.height, 0, 0, FALSE)
        \/ t = UpsertBond(s, entry.height, 0, 0, TRUE)
    BY <1>3 DEF Upsert, BondEvents
  <2>2. PICK amount, unlockAt, slashed : t = UpsertBond(s, entry.height, amount, unlockAt, slashed)
    BY <2>1, Zenon
  <2>3. t.listing = s.listing
    BY <2>2, BondFields DEF StoreFields
  <2> QED
    BY <1>3, <2>3 DEF BondEvents
<1>4. CASE entry.event.kind = "step"
  <2>1. PICK T : T = [s.steps EXCEPT ![entry.event.value] = [height |-> entry.height, fork |-> entry.fork]]
    OBVIOUS
  <2>2. t = [s EXCEPT !.steps = T]
    BY <1>4, <2>1 DEF Upsert
  <2>3. t.listing = s.listing
    BY <2>2 DEF StoreFields
  <2> QED
    BY <1>4, <2>3
<1>5. CASE entry.event.kind = "seal"
  <2>1. t.listing = s.listing
    BY <1>5, SealUpsert DEF StoreFields
  <2> QED
    BY <1>5, <2>1
<1> QED
  BY <1>1, <1>2, <1>3, <1>4, <1>5 DEF RunEvents, AgentEvents, BondEvents

Rebonded(s, entry, t) ==
    /\ entry.event.kind \in BondEvents =>
          IF s.bond # None /\ s.bond.height > entry.height THEN t.bond = s.bond
          ELSE /\ t.bond # None /\ t.bond.height = entry.height
               /\ t.bond.slashed = (entry.event.kind = "slash" \/ (s.bond # None /\ s.bond.slashed))
               /\ t.bond.amount = IF entry.event.kind = "stake" THEN entry.event.value
                                  ELSE IF entry.event.kind = "unstake" THEN HeldBond(s) ELSE 0
               /\ t.bond.unlockAt = IF entry.event.kind = "unstake" THEN entry.event.value ELSE 0
    /\ entry.event.kind \in (RunEvents \cup AgentEvents) \ BondEvents => t.bond = s.bond

LEMMA BondUpserted ==
    ASSUME NEW s, DOMAIN s = StoreFields, NEW entry, NEW t, t = Upsert(s, entry)
    PROVE  Rebonded(s, entry, t)
<1> USE DEF Rebonded
<1> DEFINE e == entry.event
<1>1. CASE e.kind \in BondEvents
  <2>1. PICK amount, unlockAt, slashed :
           /\ t = UpsertBond(s, entry.height, amount, unlockAt, slashed)
           /\ amount = IF e.kind = "stake" THEN e.value ELSE IF e.kind = "unstake" THEN HeldBond(s) ELSE 0
           /\ unlockAt = IF e.kind = "unstake" THEN e.value ELSE 0
           /\ slashed = (e.kind = "slash")
    <3>1. CASE e.kind = "stake"
      <4>1. t = UpsertBond(s, entry.height, e.value, 0, FALSE)
        BY <3>1 DEF Upsert
      <4> QED
        BY <3>1, <4>1
    <3>2. CASE e.kind = "unstake"
      <4>1. t = UpsertBond(s, entry.height, HeldBond(s), e.value, FALSE)
        BY <3>2 DEF Upsert
      <4> QED
        BY <3>2, <4>1
    <3>3. CASE e.kind = "withdraw"
      <4>1. t = UpsertBond(s, entry.height, 0, 0, FALSE)
        BY <3>3 DEF Upsert
      <4> QED
        BY <3>3, <4>1
    <3>4. CASE e.kind = "slash"
      <4>1. t = UpsertBond(s, entry.height, 0, 0, TRUE)
        BY <3>4 DEF Upsert
      <4> QED
        BY <3>4, <4>1
    <3> QED
      BY <1>1, <3>1, <3>2, <3>3, <3>4 DEF BondEvents
  <2>2. PICK row : row = [amount |-> amount, unlockAt |-> unlockAt, height |-> entry.height,
                          slashed |-> slashed \/ (s.bond # None /\ s.bond.slashed)]
    OBVIOUS
  <2>3. t = IF s.bond # None /\ s.bond.height > entry.height THEN s ELSE [s EXCEPT !.bond = row]
    BY <2>1, <2>2 DEF UpsertBond
  <2>4. [s EXCEPT !.bond = row].bond = row
    BY DEF StoreFields
  <2>5. row # None
    <3>1. DOMAIN row = {"amount", "unlockAt", "height", "slashed"}
      BY <2>2
    <3>2. DOMAIN None = {"missing"}
      BY DEF None
    <3> QED
      BY <3>1, <3>2
  <2>6. /\ row.amount = amount /\ row.unlockAt = unlockAt /\ row.height = entry.height
        /\ row.slashed = (slashed \/ (s.bond # None /\ s.bond.slashed))
    BY Zenon, <2>2
  <2>7. CASE s.bond # None /\ s.bond.height > entry.height
    BY <1>1, <2>3, <2>7
  <2>8. CASE ~(s.bond # None /\ s.bond.height > entry.height)
    <3>1. t.bond = row
      BY <2>3, <2>4, <2>8
    <3>2. row.slashed = (e.kind = "slash" \/ (s.bond # None /\ s.bond.slashed))
      BY Zenon, <2>1, <2>6
    <3> QED
      BY <1>1, <2>1, <2>5, <2>6, <2>8, <3>1, <3>2
  <2> QED
    BY <2>7, <2>8
<1>2. CASE e.kind = "list"
  <2>1. PICK row : row = [version |-> e.value, active |-> TRUE, height |-> entry.height]
    OBVIOUS
  <2>2. t \in {s, [s EXCEPT !.listing = row]}
    BY <1>2, <2>1, Zenon DEF Upsert
  <2>3. t.bond = s.bond
    BY <2>2 DEF StoreFields
  <2> QED
    BY <1>2, <2>3 DEF BondEvents
<1>3. CASE e.kind = "unlist"
  <2>1. PICK row : row = [s.listing EXCEPT !.active = FALSE, !.height = entry.height]
    OBVIOUS
  <2>2. t \in {s, [s EXCEPT !.listing = row]}
    BY <1>3, <2>1 DEF Upsert
  <2>3. t.bond = s.bond
    BY <2>2 DEF StoreFields
  <2> QED
    BY <1>3, <2>3 DEF BondEvents
<1>4. CASE e.kind = "step"
  <2>1. PICK T : T = [s.steps EXCEPT ![e.value] = [height |-> entry.height, fork |-> entry.fork]]
    OBVIOUS
  <2>2. t = [s EXCEPT !.steps = T]
    BY <1>4, <2>1 DEF Upsert
  <2>3. t.bond = s.bond
    BY <2>2 DEF StoreFields
  <2> QED
    BY <1>4, <2>3 DEF BondEvents
<1>5. CASE e.kind = "seal"
  <2>1. t.bond = s.bond
    BY <1>5, SealUpsert DEF StoreFields
  <2> QED
    BY <1>5, <2>1 DEF BondEvents
<1> QED
  BY <1>1, <1>2, <1>3, <1>4, <1>5 DEF RunEvents, AgentEvents, BondEvents
-----------------------------------------------------------------------------
\* An event applied again: the rows are what they were, or come nearer to s.
\* What is pending lies not before it; a is the state right after it.
LEMMA ListedAgain ==
    ASSUME NEW o, DOMAIN o = StoreFields, NEW entry, entry.event \in Facts, NEW t, t = Upsert(o, entry),
           NEW U, entry \in U, NEW P, NEW Q, P = Q \cup {entry},
           NEW s \in States, NEW a \in States, NEW b,
           EmitSets(b, entry.event, a), Onward(a, s), Alike(KindsOf(U \cap Q), a, s),
           ListingOK(o.listing, U, P, s)
    PROVE  ListingOK(t.listing, U, Q, s)
<1>0. Relisted(o, entry, t)
  BY ListingUpserted
<1>1. PICK kind \in RunEvents \cup AgentEvents, v \in Nat : kind = entry.event.kind /\ v = entry.event.value
  BY DEF Facts
<1>2. \A kinds : Of(U \cap Q, kinds) = {} => KindsOf(U \cap Q) \cap kinds = {}
  BY DEF Of, KindsOf
<1>3. s.version \in Nat /\ a.version \in Nat
  BY DEF States
<1>4. CASE kind = "list"
  <2>1. o.listing # None
    BY <1>1, <1>4 DEF ListingOK, Of
  <2>2. o.listing.version = s.version /\ a.version = v /\ a.active = TRUE
    BY <1>1, <1>4, <2>1 DEF ListingOK, EmitSets
  <2>3. v <= s.version
    BY <1>3, <2>2 DEF Onward
  <2>4. CASE o.listing.version <= v
    <3>1. PICK row : row = [version |-> v, active |-> TRUE, height |-> entry.height]
      OBVIOUS
    <3>2. t.listing = row
      BY <1>1, <1>4, <2>4, <3>1, <1>0 DEF Relisted, NewerListing
    <3>3. DOMAIN row = {"version", "active", "height"} /\ row.version = v /\ row.active = TRUE
      BY <3>1
    <3>4. v = s.version
      BY <1>3, <2>2, <2>3, <2>4
    <3>5. Of(U \cap Q, ListingEvents) = {} => s.active = a.active
      BY Zenon, <1>2 DEF Alike, ListingEvents
    <3>6. Of(U \cap Q, ListingEvents) = {} => row.active = s.active
      BY Zenon, <2>2, <3>3, <3>5
    <3>7. row # None
      BY <3>3 DEF None
    <3> QED
      BY <3>2, <3>3, <3>4, <3>6, <3>7 DEF ListingOK
  <2>5. CASE ~(o.listing.version <= v)
    <3>1. t.listing = o.listing
      BY <1>1, <1>4, <2>1, <2>5, <1>0 DEF Relisted, NewerListing
    <3>2. s.version # a.version
      BY <1>3, <2>2, <2>5
    <3>3. "list" \in KindsOf(U \cap Q)
      BY <3>2 DEF Alike
    <3>4. Of(U \cap Q, ListingEvents) # {}
      BY <3>3 DEF Of, KindsOf, ListingEvents
    <3> QED
      BY <2>1, <3>1, <3>4 DEF ListingOK
  <2> QED
    BY <2>4, <2>5
<1>5. CASE kind = "unlist"
  <2>1. CASE o.listing = None
    <3>1. t.listing = None
      BY <1>1, <1>5, <2>1, <1>0 DEF Relisted
    <3> QED
      BY <2>1, <3>1 DEF ListingOK
  <2>2. CASE o.listing # None
    <3>1. PICK old : old = o.listing
      OBVIOUS
    <3>2. DOMAIN old = {"version", "active", "height"} /\ old.version = s.version
      BY <2>2, <3>1 DEF ListingOK
    <3>3. PICK row : row = [old EXCEPT !.active = FALSE, !.height = entry.height]
      OBVIOUS
    <3>4. t.listing = row
      BY <1>1, <1>5, <2>2, <3>1, <3>3, <1>0 DEF Relisted
    <3>5. DOMAIN row = {"version", "active", "height"} /\ row.version = s.version /\ row.active = FALSE
      BY <3>2, <3>3
    <3>6. Of(U \cap Q, ListingEvents) = {} => s.active = a.active
      BY Zenon, <1>2 DEF Alike, ListingEvents
    <3>7. a.active = FALSE
      BY <1>1, <1>5 DEF EmitSets
    <3>8. Of(U \cap Q, ListingEvents) = {} => row.active = s.active
      BY Zenon, <3>5, <3>6, <3>7
    <3>9. row # None
      BY <3>5 DEF None
    <3> QED
      BY <3>4, <3>5, <3>8, <3>9 DEF ListingOK
  <2> QED
    BY <2>1, <2>2
<1>6. CASE kind \notin ListingEvents
  <2>1. t.listing = o.listing
    BY <1>1, <1>6, <1>0 DEF Relisted
  <2>2. Of(U \cap Q, ListingEvents) = Of(U \cap P, ListingEvents)
    BY <1>1, <1>6 DEF Of
  <2> QED
    BY <2>1, <2>2 DEF ListingOK
<1> QED
  BY <1>4, <1>5, <1>6 DEF ListingEvents

LEMMA BondedAgain ==
    ASSUME NEW o, DOMAIN o = StoreFields, NEW entry, entry.event \in Facts, NEW t, t = Upsert(o, entry),
           NEW U, entry \in U, NEW P, NEW Q, P = Q \cup {entry}, \A l \in U : l.height \in Nat,
           \A l \in Q : l.height >= entry.height,
           NEW s \in States, NEW a \in States, NEW b,
           EmitSets(b, entry.event, a), Onward(a, s), Alike(KindsOf(U \cap Q), a, s),
           BondOK(o.bond, U, P, s)
    PROVE  BondOK(t.bond, U, Q, s)
<1>0. Rebonded(o, entry, t)
  BY BondUpserted
<1>1. PICK kind \in RunEvents \cup AgentEvents, h \in Nat : kind = entry.event.kind /\ h = entry.height
  BY DEF Facts
<1>2. CASE kind \notin BondEvents
  <2>1. t.bond = o.bond
    BY <1>1, <1>2, <1>0 DEF Rebonded
  <2>2. \A i : Of(AtHeight(U \cap Q, i), BondEvents) = Of(AtHeight(U \cap P, i), BondEvents)
    BY <1>1, <1>2 DEF Of, AtHeight
  <2>3. \A i : Of(AtHeight(U \cap Q, i), AmountEvents) = Of(AtHeight(U \cap P, i), AmountEvents)
    BY <1>1, <1>2 DEF Of, AtHeight, AmountEvents, BondEvents
  <2> QED
    BY <2>1, <2>2, <2>3 DEF BondOK
<1>3. CASE kind \in BondEvents
  <2>1. entry \in Of(U, BondEvents)
    BY <1>1, <1>3 DEF Of
  <2>2. o.bond # None
    BY <2>1 DEF BondOK
  <2>3. PICK top \in Nat : top = o.bond.height /\ (\E l \in Of(U, BondEvents) : l.height = top)
                           /\ \A l \in Of(U, BondEvents) : l.height <= top
    BY <2>2 DEF BondOK, Of
  <2>4. h <= top
    BY <1>1, <2>1, <2>3
  <2>5. CASE top > h
    <3>1. t.bond = o.bond
      BY <1>1, <1>3, <2>2, <2>3, <2>5, <1>0 DEF Rebonded
    <3>2. AtHeight(U \cap Q, top) = AtHeight(U \cap P, top)
      BY <1>1, <2>5 DEF AtHeight
    <3> QED
      BY <2>2, <2>3, <3>1, <3>2 DEF BondOK
  <2>6. CASE top = h
    <3>1. /\ t.bond # None /\ t.bond.height = h
          /\ t.bond.slashed = (kind = "slash" \/ (o.bond # None /\ o.bond.slashed))
          /\ t.bond.amount = IF kind = "stake" THEN entry.event.value
                             ELSE IF kind = "unstake" THEN HeldBond(o) ELSE 0
          /\ t.bond.unlockAt = IF kind = "unstake" THEN entry.event.value ELSE 0
      <4>1. ~(o.bond.height > entry.height)
        BY <1>1, <2>3, <2>6
      <4> QED
        BY <1>1, <1>3, <4>1, <1>0 DEF Rebonded
    <3>2. o.bond.slashed = s.slashed /\ s.slashed \in BOOLEAN
      BY <2>2 DEF BondOK, States
    <3>3. t.bond.slashed = s.slashed
      <4>1. CASE kind = "slash"
        <5>1. a.slashed = TRUE
          BY <1>1, <4>1 DEF EmitSets
        <5>2. s.slashed
          BY Zenon, <5>1 DEF Onward
        <5>3. s.slashed = TRUE
          BY <3>2, <5>2
        <5> QED
          BY Zenon, <3>1, <4>1, <5>3
      <4>2. CASE kind # "slash"
        <5>1. t.bond.slashed = o.bond.slashed
          <6>1. t.bond.slashed = (FALSE \/ (TRUE /\ o.bond.slashed))
            BY Zenon, <2>2, <3>1, <4>2
          <6>2. o.bond.slashed \in BOOLEAN
            BY Zenon, <3>2
          <6> QED
            BY <6>1, <6>2
        <5> QED
          BY Zenon, <3>2, <5>1
      <4> QED
        BY <4>1, <4>2
    <3>4. \A l \in U \cap Q : l.event.kind \in BondEvents => l \in AtHeight(U \cap Q, h)
      <4> TAKE l \in U \cap Q
      <4>1. l.height >= h /\ l.height \in Nat
        BY <1>1
      <4>2. l.event.kind \in BondEvents => l.height <= top
        BY <2>3 DEF Of
      <4> QED
        BY <2>6, <4>1, <4>2 DEF AtHeight
    <3>5. /\ Of(AtHeight(U \cap Q, h), BondEvents) = {} => KindsOf(U \cap Q) \cap BondEvents = {}
          /\ Of(AtHeight(U \cap Q, h), AmountEvents) = {} => KindsOf(U \cap Q) \cap AmountEvents = {}
      <4>1. AmountEvents \subseteq BondEvents
        BY DEF AmountEvents, BondEvents
      <4>2. ASSUME NEW kinds, kinds \subseteq BondEvents, Of(AtHeight(U \cap Q, h), kinds) = {}
            PROVE  KindsOf(U \cap Q) \cap kinds = {}
        BY <3>4, <4>2 DEF Of, KindsOf
      <4> QED
        BY <4>1, <4>2
    <3>6. Of(AtHeight(U \cap Q, h), AmountEvents) = {} => t.bond.amount = s.amount
      <4> HAVE Of(AtHeight(U \cap Q, h), AmountEvents) = {}
      <4>1. s.amount = a.amount
        BY <3>5 DEF Alike
      <4>2. CASE kind = "unstake"
        <5>1. Of(AtHeight(U \cap P, h), AmountEvents) = {}
          BY <1>1, <4>2 DEF Of, AtHeight, AmountEvents
        <5>2. o.bond.amount = s.amount
          BY <2>2, <2>3, <2>6, <5>1 DEF BondOK
        <5> QED
          BY <2>2, <3>1, <4>2, <5>2 DEF HeldBond
      <4>3. CASE kind # "unstake"
        BY <1>1, <1>3, <3>1, <4>1, <4>3 DEF EmitSets, BondEvents
      <4> QED
        BY <4>2, <4>3
    <3>7. Of(AtHeight(U \cap Q, h), BondEvents) = {} => t.bond.unlockAt = s.unlockAt
      <4> HAVE Of(AtHeight(U \cap Q, h), BondEvents) = {}
      <4>1. s.unlockAt = a.unlockAt
        BY <3>5 DEF Alike
      <4> QED
        BY <1>1, <1>3, <3>1, <4>1 DEF EmitSets, BondEvents
    <3> QED
      BY <2>3, <2>6, <3>1, <3>3, <3>6, <3>7 DEF BondOK
  <2> QED
    BY <2>4, <2>3, <2>5, <2>6
<1> QED
  BY <1>2, <1>3

\* An event applied for the first time, when nothing before it is pending.
LEMMA ListedAnew ==
    ASSUME NEW o, DOMAIN o = StoreFields, NEW entry, entry.event \in Facts, NEW t, t = Upsert(o, entry),
           NEW U, NEW P, NEW Q, U \cap P = {},
           NEW s \in States, NEW a \in States, EmitSets(s, entry.event, a), EmitKeeps(s, entry.event, a),
           MayEmit(s, entry.event), Of(U, {"list"}) = {} => s.version = 0,
           ListingOK(o.listing, U, P, s)
    PROVE  ListingOK(t.listing, U \cup {entry}, Q, a)
<1>0. Relisted(o, entry, t)
  BY ListingUpserted
<1>1. PICK kind \in RunEvents \cup AgentEvents, v \in Nat : kind = entry.event.kind /\ v = entry.event.value
  BY DEF Facts
<1>2. s.version \in Nat
  BY DEF States
<1>3. o.listing # None =>
         DOMAIN o.listing = {"version", "active", "height"} /\ o.listing.version = s.version /\ o.listing.active = s.active
  BY DEF ListingOK, Of
<1>4. CASE kind = "list"
  <2>1. v > s.version
    BY <1>1, <1>4 DEF MayEmit
  <2>2. NewerListing(o, v)
    BY <1>2, <1>3, <2>1 DEF NewerListing
  <2>3. PICK row : row = [version |-> v, active |-> TRUE, height |-> entry.height]
    OBVIOUS
  <2>4. t.listing = row
    BY <1>1, <1>4, <2>2, <2>3, <1>0 DEF Relisted
  <2>5. DOMAIN row = {"version", "active", "height"} /\ row.version = v /\ row.active = TRUE
    BY <2>3
  <2>6. a.version = v /\ a.active = TRUE
    BY <1>1, <1>4 DEF EmitSets
  <2>7. row # None
    BY <2>5 DEF None
  <2>8. row.active = a.active
    BY Zenon, <2>5, <2>6
  <2> QED
    BY <2>4, <2>5, <2>6, <2>7, <2>8 DEF ListingOK
<1>5. CASE kind = "unlist"
  <2>1. s.version > 0
    BY <1>1, <1>5 DEF MayEmit
  <2>2. o.listing # None
    BY <1>2, <2>1 DEF ListingOK
  <2>3. PICK old : old = o.listing
    OBVIOUS
  <2>4. DOMAIN old = {"version", "active", "height"} /\ old.version = s.version
    BY <1>3, <2>2, <2>3
  <2>5. PICK row : row = [old EXCEPT !.active = FALSE, !.height = entry.height]
    OBVIOUS
  <2>6. t.listing = row
    BY <1>1, <1>5, <2>2, <2>3, <2>5, <1>0 DEF Relisted
  <2>7. DOMAIN row = {"version", "active", "height"} /\ row.version = s.version /\ row.active = FALSE
    BY <2>4, <2>5
  <2>8. a.version = s.version /\ a.active = FALSE
    BY <1>1, <1>5 DEF EmitSets, EmitKeeps
  <2>9. row # None
    BY <2>7 DEF None
  <2>10. row.active = a.active
    BY Zenon, <2>7, <2>8
  <2> QED
    BY <2>6, <2>7, <2>8, <2>9, <2>10 DEF ListingOK
<1>6. CASE kind \notin ListingEvents
  <2>1. t.listing = o.listing
    BY <1>1, <1>6, <1>0 DEF Relisted
  <2>2. Of(U \cup {entry}, {"list"}) = Of(U, {"list"})
    BY <1>1, <1>6 DEF Of, ListingEvents
  <2>3. a.version = s.version
    BY <1>1, <1>6 DEF EmitKeeps, ListingEvents
  <2>4. a.active = s.active
    BY <1>1, <1>6 DEF EmitKeeps, ListingEvents
  <2>5. CASE o.listing = None
    BY <2>1, <2>2, <2>5 DEF ListingOK
  <2>6. CASE o.listing # None
    <3>1. o.listing.active = a.active
      BY Zenon, <1>3, <2>4, <2>6
    <3> QED
      BY <1>3, <2>1, <2>3, <2>6, <3>1 DEF ListingOK
  <2> QED
    BY <2>5, <2>6
<1> QED
  BY <1>4, <1>5, <1>6 DEF ListingEvents

LEMMA BondedAnew ==
    ASSUME NEW o, DOMAIN o = StoreFields, NEW entry, entry.event \in Facts, NEW t, t = Upsert(o, entry),
           NEW U, NEW P, NEW Q, U \cap P = {},
           entry.height \in Nat, \A l \in U : l.height \in Nat /\ l.height <= entry.height,
           NEW s \in States, NEW a \in States, EmitSets(s, entry.event, a), EmitKeeps(s, entry.event, a),
           MayEmit(s, entry.event), Of(U, BondEvents) = {} => s.amount = 0 /\ s.slashed = FALSE,
           BondOK(o.bond, U, P, s)
    PROVE  BondOK(t.bond, U \cup {entry}, Q, a)
<1>0. Rebonded(o, entry, t)
  BY BondUpserted
<1>1. PICK kind \in RunEvents \cup AgentEvents, h \in Nat : kind = entry.event.kind /\ h = entry.height
  BY DEF Facts
<1>2. s.amount \in Nat /\ s.slashed \in BOOLEAN
  BY DEF States
<1>3. o.bond # None =>
         /\ \E l \in Of(U, BondEvents) : l.height = o.bond.height
         /\ \A l \in Of(U, BondEvents) : l.height <= o.bond.height
         /\ o.bond.slashed = s.slashed /\ o.bond.amount = s.amount /\ o.bond.unlockAt = s.unlockAt
  BY DEF BondOK, Of, AtHeight
<1>4. CASE kind \notin BondEvents
  <2>1. t.bond = o.bond
    BY <1>1, <1>4, <1>0 DEF Rebonded
  <2>2. Of(U \cup {entry}, BondEvents) = Of(U, BondEvents)
    BY <1>1, <1>4 DEF Of
  <2>3. a.amount = s.amount /\ a.unlockAt = s.unlockAt
    BY <1>1, <1>4 DEF EmitKeeps, BondEvents, AmountEvents
  <2>4. a.slashed = s.slashed
    BY <1>1, <1>4 DEF EmitKeeps, BondEvents
  <2>5. CASE o.bond = None
    BY <2>1, <2>2, <2>5 DEF BondOK
  <2>6. CASE o.bond # None
    <3>1. o.bond.slashed = a.slashed
      BY Zenon, <1>3, <2>4, <2>6
    <3> QED
      BY <1>3, <2>1, <2>2, <2>3, <2>6, <3>1 DEF BondOK
  <2> QED
    BY <2>5, <2>6
<1>5. CASE kind \in BondEvents
  <2>1. ~(o.bond # None /\ o.bond.height > entry.height)
    BY <1>3 DEF Of
  <2>2. /\ t.bond # None /\ t.bond.height = h
        /\ t.bond.slashed = (kind = "slash" \/ (o.bond # None /\ o.bond.slashed))
        /\ t.bond.amount = IF kind = "stake" THEN entry.event.value
                           ELSE IF kind = "unstake" THEN HeldBond(o) ELSE 0
        /\ t.bond.unlockAt = IF kind = "unstake" THEN entry.event.value ELSE 0
    BY <1>1, <1>5, <2>1, <1>0 DEF Rebonded
  <2>3. \E l \in Of(U \cup {entry}, BondEvents) : l.height = h
    BY <1>1, <1>5 DEF Of
  <2>4. \A l \in Of(U \cup {entry}, BondEvents) : l.height <= h
    BY <1>1 DEF Of
  <2>5. o.bond = None => s.amount = 0 /\ s.slashed = FALSE
    BY DEF BondOK
  <2>6. t.bond.slashed = a.slashed
    <3>1. CASE kind = "slash"
      <4>1. a.slashed = TRUE
        BY <1>1, <3>1 DEF EmitSets
      <4> QED
        BY Zenon, <2>2, <3>1, <4>1
    <3>2. CASE kind # "slash"
      <4>1. a.slashed = s.slashed
        BY <1>1, <3>2 DEF EmitKeeps
      <4>2. t.bond.slashed = (o.bond # None /\ o.bond.slashed)
        BY Zenon, <2>2, <3>2
      <4>3. CASE o.bond = None
        <5>1. s.slashed = FALSE
          BY Zenon, <2>5, <4>3
        <5>2. (o.bond # None /\ o.bond.slashed) = FALSE
          BY <4>3
        <5> QED
          BY Zenon, <4>1, <4>2, <5>1, <5>2
      <4>4. CASE o.bond # None
        <5>1. (o.bond # None /\ o.bond.slashed) = o.bond.slashed
          <6>1. o.bond.slashed \in BOOLEAN
            BY Zenon, <1>2, <1>3, <4>4
          <6> QED
            BY <4>4, <6>1
        <5>2. o.bond.slashed = s.slashed
          BY Zenon, <1>3, <4>4
        <5> QED
          BY Zenon, <4>1, <4>2, <5>1, <5>2
      <4> QED
        BY <4>3, <4>4
    <3> QED
      BY <3>1, <3>2
  <2>7. t.bond.amount = a.amount
    <3>1. CASE kind = "unstake"
      <4>1. s.amount > 0
        BY <1>1, <3>1 DEF MayEmit
      <4>2. o.bond # None
        BY <1>2, <2>5, <4>1
      <4>3. HeldBond(o) = s.amount
        BY <1>3, <4>2 DEF HeldBond
      <4>4. a.amount = s.amount
        BY <1>1, <3>1 DEF EmitKeeps, AmountEvents
      <4> QED
        BY <2>2, <3>1, <4>3, <4>4
    <3>2. CASE kind # "unstake"
      BY <1>1, <1>5, <2>2, <3>2 DEF EmitSets, BondEvents
    <3> QED
      BY <3>1, <3>2
  <2>8. t.bond.unlockAt = a.unlockAt
    BY <1>1, <1>5, <2>2 DEF EmitSets, BondEvents
  <2> QED
    BY <2>2, <2>3, <2>4, <2>6, <2>7, <2>8 DEF BondOK
<1> QED
  BY <1>4, <1>5
-----------------------------------------------------------------------------
\* The inductive invariant: the rows are what the events up to some mark make
\* of them.  What lies beyond the mark is pending, and so may be some of what
\* lies before it: events read again after a pass that failed.
AllLogs == LogsIn(chain, Heights)
UpTo(h, k) == {l \in AllLogs : Ahead(l.height, l.pos, h, k)}
Pending ==
    IF pass.pc = "apply" THEN pass.logs \cup LogsIn(chain, pass.to + 1 .. MaxHeight)
    ELSE LogsIn(chain, store.cursor + 1 .. MaxHeight)
Covers(U, P, s) ==
    /\ AllLogs \ P \subseteq U
    /\ \A l \in U : store.blocks[l.height] # None
    /\ ListingOK(store.listing, U, P, s) /\ BondOK(store.bond, U, P, s)
Followed ==
    \E h \in 0 .. Len(chain) : \E k \in 0 .. Size(chain, h) :
        Covers(UpTo(h, k), Pending, MarkState(chain, h, k))

\* The contracts are asked in turn, and the logs taken from the first to the last.
ReadInOrder ==
    /\ pass.pc \in {"adapters", "bonds"} =>
          \A l \in LogsIn(chain, Batch) : Contract(l.event) = "receipts" => l \in pass.logs
    /\ pass.pc = "bonds" =>
          \A l \in LogsIn(chain, Batch) : Contract(l.event) = "adapters" => l \in pass.logs
    /\ pass.pc = "apply" =>
          \A l \in LogsIn(chain, Batch), m \in pass.logs : Earlier(m, l) => l \in pass.logs
DirOK == settled /\ AgentsAreLegal(chain) /\ ReadInOrder /\ Followed
DirInv == forks \in Nat /\ (forks = 0 => DirOK)

LEMMA SeqIsFacts == ASSUME NEW F, NEW c \in Seq([events : Contents, fork : F]) PROVE ChainOfFacts(c)
<1>1. Len(c) \in Nat /\ DOMAIN c = 1 .. Len(c)
  OBVIOUS
<1>2. PICK B : B = [events : Contents, fork : F]
  OBVIOUS
<1>3. \A h \in 1 .. Len(c) : c[h] \in B
  BY <1>2, ElementOfSeq
<1>4. \A h \in 1 .. Len(c) : c[h].events \in Contents
  BY <1>2, <1>3
<1> QED
  BY <1>1, <1>4, ContentsAreEvents DEF ChainOfFacts, Facts

LEMMA ChainIsFacts == ASSUME ChainOK PROVE ChainOfFacts(chain)
BY SeqIsFacts DEF ChainOK

LEMMA LogPlaces ==
    ASSUME ChainOK, NEW l \in AllLogs
    PROVE  /\ l.height \in 1 .. Len(chain) /\ l.height \in Nat
           /\ l.pos \in 1 .. Size(chain, l.height) /\ l.pos \in Nat
           /\ l.event \in Facts /\ l.event = chain[l.height].events[l.pos]
           /\ l = LogAt(chain, l.height, l.pos)
           /\ \A heights : l.height \in heights => l \in LogsIn(chain, heights)
<1>1. /\ l.height \in DOMAIN chain \cap Heights /\ l.fork = chain[l.height].fork
      /\ l.pos \in DOMAIN chain[l.height].events
      /\ l.event = chain[l.height].events[l.pos]
      /\ \A others : l.height \in others => l \in LogsIn(chain, others)
  BY LogsAmong DEF AllLogs
<1>2. l.height \in 1 .. Len(chain) /\ l.height \in 0 .. Len(chain) /\ l.height # 0 /\ l.height \in Nat
  BY <1>1, ChainBlocks
<1>3. /\ Size(chain, l.height) \in Nat /\ DOMAIN chain[l.height].events = 1 .. Size(chain, l.height)
      /\ \A k \in 1 .. Size(chain, l.height) : chain[l.height].events[k] \in Facts
  BY <1>2, ChainIsFacts, EventsAre
<1>4. l.pos \in 1 .. Size(chain, l.height) /\ l.pos \in Nat
  BY <1>1, <1>3
<1>5. l = LogAt(chain, l.height, l.pos)
  <2>a. PICK i \in DOMAIN chain \cap Heights : \E j \in DOMAIN chain[i].events : l = LogAt(chain, i, j)
    BY LogsAre DEF AllLogs
  <2>1. PICK j : l = LogAt(chain, i, j)
    BY <2>a
  <2>2. l.height = i /\ l.pos = j
    BY <2>1, LogAtFields
  <2> QED
    BY <2>1, <2>2
<1> QED
  BY <1>1, <1>2, <1>3, <1>4, <1>5

LEMMA LogOfPlace ==
    ASSUME ChainOK, NEW i \in 1 .. Len(chain), NEW j \in 1 .. Size(chain, i)
    PROVE  \E l \in AllLogs : l.height = i /\ l.pos = j /\ l.event = chain[i].events[j]
<1>1. i \in DOMAIN chain \cap Heights /\ i \in 0 .. Len(chain) /\ i # 0
  BY ChainBlocks
<1>2. j \in DOMAIN chain[i].events
  BY <1>1, ChainIsFacts, EventsAre
<1>3. LogAt(chain, i, j) \in AllLogs
  BY <1>1, <1>2, LogsAre DEF AllLogs
<1> QED
  BY <1>3, LogAtFields

\* The chain and the rows stay, and no less is pending.
LEMMA FollowedStays ==
    ASSUME Followed, chain' = chain, Pending \subseteq Pending',
           (store.listing)' = store.listing, (store.bond)' = store.bond,
           \A h \in Heights : store.blocks[h] # None => (store.blocks[h])' # None
    PROVE  Followed'
<1>a. PICK h \in 0 .. Len(chain) : \E k \in 0 .. Size(chain, h) :
         Covers(UpTo(h, k), Pending, MarkState(chain, h, k))
  BY DEF Followed
<1>1. PICK k \in 0 .. Size(chain, h) : Covers(UpTo(h, k), Pending, MarkState(chain, h, k))
  BY <1>a
<1>2. PICK U, s, P, Q : U = UpTo(h, k) /\ s = MarkState(chain, h, k) /\ P = Pending /\ Q = Pending'
  OBVIOUS
<1>3. AllLogs' = AllLogs
  BY DEF AllLogs
<1>4. UpTo(h, k)' = U
  BY <1>2, <1>3 DEF UpTo
<1>5. /\ AllLogs \ P \subseteq U /\ \A l \in U : store.blocks[l.height] # None
      /\ ListingOK(store.listing, U, P, s) /\ BondOK(store.bond, U, P, s)
  BY <1>1, <1>2 DEF Covers
<1>6. ListingOK(store.listing, U, Q, s) /\ BondOK(store.bond, U, Q, s)
  BY <1>2, <1>5, OwedLess
<1>7. \A l \in U : (store.blocks[l.height])' # None
  <2> TAKE l \in U
  <2>1. l.height \in Heights
    BY <1>2, LogsAmong DEF UpTo, AllLogs
  <2> QED
    BY <1>5, <2>1
<1>9. h \in 0 .. Len(chain') /\ k \in 0 .. Size(chain', h)
  OBVIOUS
<1>10. MarkState(chain', h, k) = s
  BY <1>2
<1>11. Covers(UpTo(h, k), Pending, MarkState(chain, h, k))'
  BY <1>2, <1>4, <1>6, <1>7, <1>3, <1>5, <1>10 DEF Covers
<1> QED
  BY <1>9, <1>11 DEF Followed
-----------------------------------------------------------------------------
\* As long as no block was replaced, none recorded is another than the chain's.
LEMMA NoneReplaced ==
    ASSUME ChainOK, StoreOK, forks = 0
    PROVE  Replaced = {} /\ \A h \in DOMAIN chain : store.blocks[h] # None => store.blocks[h].fork = chain[h].fork
<1>1. ASSUME NEW h \in DOMAIN chain, store.blocks[h] # None PROVE store.blocks[h].fork = chain[h].fork
  <2>1. chain[h].fork \in 0 .. 0 /\ store.blocks[h].fork \in 0 .. 0
    BY <1>1, ChainBlocks DEF StoreOK
  <2> QED
    BY <2>1
<1> QED
  BY <1>1 DEF Replaced

LEMMA LogsWithin ==
    ASSUME NEW blocks, NEW heights, NEW others, heights \subseteq others
    PROVE  LogsIn(blocks, heights) \subseteq LogsIn(blocks, others)
BY DEF LogsIn

\* What is read and not applied yet, when the logs of a batch are all read.
LEMMA BatchIsPending ==
    ASSUME ChainOK, StoreOK, PassOK, pass.pc # "idle", NEW logs, LogsIn(chain, Batch) \subseteq logs
    PROVE  LogsIn(chain, store.cursor + 1 .. MaxHeight) \subseteq logs \cup LogsIn(chain, pass.to + 1 .. MaxHeight)
<1> SUFFICES ASSUME NEW l \in LogsIn(chain, store.cursor + 1 .. MaxHeight)
             PROVE  l \in logs \cup LogsIn(chain, pass.to + 1 .. MaxHeight)
  OBVIOUS
<1>1. PICK H : H = store.cursor + 1 .. MaxHeight
  OBVIOUS
<1>2. /\ l.height \in DOMAIN chain \cap H /\ l.height >= DeploymentBlock
      /\ \A others : l.height \in others => l \in LogsIn(chain, others)
  BY <1>1, LogFacts
<1>3. PICK from \in Int, to \in Int, cursor \in Nat : from = pass.from /\ to = pass.to /\ cursor = store.cursor
  BY ResumeIs DEF PassOK
<1>4. from = cursor + 1 \/ from = DeploymentBlock
  BY <1>3, ResumeIs DEF PassOK
<1>5. l.height \in Nat /\ DeploymentBlock \in Nat /\ MaxHeight \in Nat
  BY <1>2, ChainBlocks, IndexerBounds
<1>6. CASE l.height <= to
  <2>1. l.height \in from .. to
    BY <1>1, <1>2, <1>3, <1>4, <1>5, <1>6
  <2> QED
    BY <1>2, <1>3, <2>1 DEF Batch
<1>7. CASE ~(l.height <= to)
  <2>1. l.height \in to + 1 .. MaxHeight
    BY <1>1, <1>2, <1>3, <1>5, <1>7
  <2> QED
    BY <1>2, <1>3, <2>1
<1> QED
  BY <1>6, <1>7

\* The steps of a pass that leave the rows alone.
LEMMA BetweenReads ==
    ASSUME DirOK, UNCHANGED <<chain, forks, store, settled>>,
           pass.pc # "apply", (pass.pc)' \in {"idle", "check", "scan", "receipts"}
    PROVE  DirOK'
<1>1. Pending' = Pending
  BY DEF Pending
<1>2. Followed'
  BY <1>1, FollowedStays DEF DirOK
<1>3. ReadInOrder'
  BY DEF ReadInOrder
<1>4. AgentsAreLegal(chain')
  BY DEF DirOK
<1> QED
  BY <1>2, <1>3, <1>4 DEF DirOK

LEMMA BatchOrIdle ==
    ASSUME NEW from, NEW head PROVE NextBatch(from, head).pc \in {"idle", "check"}
<1>1. CASE from > head
  BY <1>1 DEF NextBatch, Idle
<1>2. CASE ~(from > head)
  <2>1. PICK to : to = BatchEnd(from, head)
    OBVIOUS
  <2>2. PICK p : p = [Idle EXCEPT !.pc = "check", !.from = from, !.to = to, !.head = head]
    OBVIOUS
  <2>3. p.pc = "check"
    BY <2>2 DEF Idle
  <2> QED
    BY <1>2, <2>1, <2>2, <2>3 DEF NextBatch
<1> QED
  BY <1>1, <1>2

LEMMA StartPassFollows == ASSUME DirOK, StartPass PROVE DirOK'
<1>1. PICK from, head : pass' = NextBatch(from, head)
  BY DEF StartPass
<1>2. (pass.pc)' \in {"idle", "check"}
  BY <1>1, BatchOrIdle
<1> QED
  BY <1>2, BetweenReads DEF StartPass

LEMMA FindReorgFollows == ASSUME DirOK, PassOK, FindReorg PROVE DirOK'
<1>1. PICK at : pass' = [pass EXCEPT !.pc = "scan", !.at = at]
  BY Zenon DEF FindReorg
<1>2. (pass.pc)' = "scan"
  BY <1>1 DEF PassOK, PassFields
<1> QED
  BY <1>2, BetweenReads DEF FindReorg

LEMMA ScanFollows == ASSUME DirOK, ChainOK, StoreOK, PassOK, forks = 0, Scan PROVE DirOK'
<1>1. pass.pc = "scan" /\ chain' = chain /\ forks' = forks /\ settled' = settled
  BY DEF Scan
<1>2. store' = store
  <2>1. CASE pass.at > pass.to
    BY <2>1, Zenon DEF Scan
  <2>2. CASE ~(pass.at > pass.to)
    <3>1. pass.at \in DOMAIN chain
      BY <1>1, <2>2, ChainBlocks, ResumeIs DEF PassOK
    <3>2. store.blocks[pass.at] = None \/ store.blocks[pass.at].fork = chain[pass.at].fork
      BY <3>1, NoneReplaced
    <3> QED
      BY <2>2, <3>2, Zenon DEF Scan
  <2> QED
    BY <2>1, <2>2
<1>3. (pass.pc)' \in {"scan", "receipts"}
  <2>1. \/ pass' = [pass EXCEPT !.pc = "receipts"]
        \/ pass' = [pass EXCEPT !.at = @ + 1]
        \/ \E from : pass' = [pass EXCEPT !.pc = "receipts", !.from = from]
    BY Zenon DEF Scan
  <2> QED
    BY <1>1, <2>1 DEF PassOK, PassFields
<1> QED
  BY <1>1, <1>2, <1>3, BetweenReads

LEMMA GetLogsFollows == ASSUME DirOK, ChainOK, StoreOK, PassOK, GetLogs PROVE DirOK'
<1>1. UNCHANGED <<chain, forks, store, settled>> /\ pass.pc \in {"receipts", "adapters", "bonds"}
  BY DEF GetLogs, Then
<1>2. PICK logs, next : logs = pass.logs \cup LogsOf(pass.pc) /\ next = Then[pass.pc]
  OBVIOUS
<1>3. pass' = [pass EXCEPT !.logs = logs, !.pc = next]
  BY <1>2, Zenon DEF GetLogs
<1>4. /\ (pass.pc)' = next /\ (pass.from)' = pass.from
      /\ (pass.to)' = pass.to /\ (pass.logs)' = logs
  BY <1>3 DEF PassFields, PassOK
<1>5. Batch' = Batch
  BY <1>4 DEF Batch
<1>6. \A l \in LogsIn(chain, Batch) : Contract(l.event) = pass.pc => l \in logs
  BY <1>2 DEF LogsOf, Batch
<1>7. CASE pass.pc = "receipts"
  <2>1. next = "adapters"
    BY <1>2, <1>7 DEF Then
  <2>2. ReadInOrder'
    BY <1>1, <1>4, <1>5, <1>6, <1>7, <2>1 DEF ReadInOrder
  <2>3. Pending' = Pending
    BY <1>1, <1>4, <1>7, <2>1 DEF Pending
  <2> QED
    BY <1>1, <2>2, <2>3, FollowedStays DEF DirOK
<1>8. CASE pass.pc = "adapters"
  <2>1. next = "bonds"
    BY <1>2, <1>8 DEF Then
  <2>2. ReadInOrder'
    BY <1>1, <1>2, <1>4, <1>5, <1>6, <1>8, <2>1 DEF ReadInOrder, DirOK
  <2>3. Pending' = Pending
    BY <1>1, <1>4, <1>8, <2>1 DEF Pending
  <2> QED
    BY <1>1, <2>2, <2>3, FollowedStays DEF DirOK
<1>9. CASE pass.pc = "bonds"
  <2>1. next = "apply"
    BY <1>2, <1>9 DEF Then
  <2>2. LogsIn(chain, Batch) \subseteq logs
    <3> SUFFICES ASSUME NEW l \in LogsIn(chain, Batch) PROVE l \in logs
      OBVIOUS
    <3>1. Contract(l.event) \in {"receipts", "adapters", "bonds"}
      BY DEF Contract
    <3> QED
      BY <1>2, <1>6, <1>9, <3>1 DEF ReadInOrder, DirOK
  <2>3. ReadInOrder'
    BY <1>1, <1>4, <1>5, <2>1, <2>2 DEF ReadInOrder
  <2>4. Pending \subseteq Pending'
    <3>1. Pending' = logs \cup LogsIn(chain, pass.to + 1 .. MaxHeight)
      BY <1>1, <1>4, <2>1 DEF Pending
    <3>2. Pending = LogsIn(chain, store.cursor + 1 .. MaxHeight)
      BY <1>9 DEF Pending
    <3>3. pass.pc # "idle"
      BY <1>9
    <3> QED
      BY <2>2, <3>1, <3>2, <3>3, BatchIsPending
  <2> QED
    BY <1>1, <2>3, <2>4, FollowedStays DEF DirOK
<1> QED
  BY <1>1, <1>7, <1>8, <1>9

LEMMA FinishBatchFollows == ASSUME DirOK, StoreOK, FinishBatch PROVE DirOK'
<1>1. pass.pc = "apply" /\ pass.logs = {} /\ chain' = chain /\ forks' = forks /\ settled' = settled
  BY DEF FinishBatch
<1>2. PICK from, head : pass' = NextBatch(from, head)
  BY DEF FinishBatch
<1>3. (pass.pc)' \in {"idle", "check"}
  BY <1>2, BatchOrIdle
<1>4. PICK to, s : to = pass.to /\ s = store
  OBVIOUS
<1>5. PICK t : t = [s EXCEPT !.cursor = to]
  OBVIOUS
<1>6. store' = t
  BY <1>4, <1>5, Zenon DEF FinishBatch
<1>7. t.cursor = to /\ t.blocks = store.blocks /\ t.listing = store.listing /\ t.bond = store.bond
  <2>1. DOMAIN s = StoreFields
    BY <1>4 DEF StoreOK
  <2>2. t.cursor = to /\ t.blocks = s.blocks /\ t.listing = s.listing /\ t.bond = s.bond
    BY <1>5, <2>1 DEF StoreFields
  <2> QED
    BY <1>4, <2>2
<1>8. Pending' = Pending
  BY <1>1, <1>3, <1>4, <1>6, <1>7 DEF Pending
<1>9. Followed'
  BY <1>1, <1>6, <1>7, <1>8, FollowedStays DEF DirOK
<1>10. ReadInOrder'
  BY <1>3 DEF ReadInOrder
<1> QED
  BY <1>1, <1>9, <1>10 DEF DirOK

LEMMA FailFollows == ASSUME DirOK, ChainOK, StoreOK, PassOK, Fail PROVE DirOK'
<1>1. chain' = chain /\ forks' = forks /\ settled' = settled /\ pass' = Idle /\ pass.pc # "idle"
  BY DEF Fail, AfterFailure
<1>2. (pass.pc)' = "idle"
  BY <1>1 DEF Idle
<1>3. ReadInOrder'
  BY <1>2 DEF ReadInOrder
<1>4. PICK cursor \in Nat : cursor = store.cursor
  BY ResumeIs
<1>5. Pending \subseteq LogsIn(chain, cursor + 1 .. MaxHeight)
  <2>1. CASE pass.pc # "apply"
    BY <1>4, <2>1 DEF Pending
  <2>2. CASE pass.pc = "apply"
    <3>1. PICK from \in Int, to \in Int : from = pass.from /\ to = pass.to /\ from > cursor /\ from <= to /\ to <= Len(chain)
      BY <1>1, <1>4, ResumeIs DEF PassOK
    <3>2. Len(chain) <= MaxHeight /\ MaxHeight \in Nat /\ Len(chain) \in Nat
      BY ChainBlocks, IndexerBounds DEF ChainOK
    <3>3. from .. to \subseteq cursor + 1 .. MaxHeight /\ to + 1 .. MaxHeight \subseteq cursor + 1 .. MaxHeight
      BY <3>1, <3>2
    <3>4. /\ LogsIn(chain, from .. to) \subseteq LogsIn(chain, cursor + 1 .. MaxHeight)
          /\ LogsIn(chain, to + 1 .. MaxHeight) \subseteq LogsIn(chain, cursor + 1 .. MaxHeight)
      BY <3>3, LogsWithin
    <3>5. pass.logs \subseteq LogsIn(chain, from .. to)
      BY <3>1 DEF PassOK, Batch
    <3> QED
      BY <2>2, <3>1, <3>4, <3>5 DEF Pending
  <2> QED
    BY <2>1, <2>2
<1>6. CASE store' = store
  <2>1. Pending' = LogsIn(chain, cursor + 1 .. MaxHeight)
    BY <1>1, <1>2, <1>4, <1>6 DEF Pending
  <2> QED
    BY <1>1, <1>3, <1>5, <1>6, <2>1, FollowedStays DEF DirOK
<1>7. CASE pass.pc = "apply" /\ pass.logs # {} /\ store' = Recorded(store, NextLog)
  <2>1. PICK entry : entry = NextLog
    OBVIOUS
  <2>2. entry \in LogsIn(chain, Batch)
    BY <1>7, <2>1, ThereIsANextLog DEF PassOK
  <2>3. entry.height \in Heights
    BY <2>2, LogsAmong, ChainBlocks
  <2>4. PICK s, t : s = store /\ t = Recorded(s, entry)
    OBVIOUS
  <2>5. DOMAIN s = StoreFields /\ DOMAIN s.blocks = Heights
    BY <2>4 DEF StoreOK
  <2>6. /\ \A f \in StoreFields : f # "blocks" => t[f] = s[f]
        /\ \A h \in Heights : t.blocks[h] = IF h = entry.height THEN [fork |-> entry.fork] ELSE s.blocks[h]
    BY ONLY <2>3, <2>4, <2>5, RecordedFields
  <2>7. t.cursor = s.cursor /\ t.listing = s.listing /\ t.bond = s.bond
    BY <2>6 DEF StoreFields
  <2>8. \A h \in Heights : s.blocks[h] # None => t.blocks[h] # None
    BY <2>6, NoneMissing
  <2>9. store' = t
    BY <1>7, <2>1, <2>4
  <2>10. Pending' = LogsIn(chain, cursor + 1 .. MaxHeight)
    BY <1>1, <1>2, <1>4, <2>4, <2>7, <2>9 DEF Pending
  <2>11. /\ (store.listing)' = store.listing /\ (store.bond)' = store.bond
         /\ \A h \in Heights : store.blocks[h] # None => (store.blocks[h])' # None
    BY <2>4, <2>7, <2>8, <2>9
  <2> QED
    BY <1>1, <1>3, <1>5, <2>10, <2>11, FollowedStays DEF DirOK
<1> QED
  BY <1>6, <1>7 DEF Fail
-----------------------------------------------------------------------------
LEMMA GrowFollows == ASSUME DirOK, ChainOK, StoreOK, RowsOK, PassOK, forks = 0, Grow PROVE DirOK'
<1>1. settled'
  BY NoneReplaced DEF Grow, DirOK
<1>2. PICK b : chain' = Append(chain, b)
  BY DEF Grow
<1>3. ChainOK' /\ forks' = forks /\ store' = store /\ pass' = pass /\ AgentsAreLegal(chain')
  BY <1>1, GrowKeeps DEF Grow, Legal
<1>a. PICK n \in Nat : n = Len(chain)
  BY ChainBlocks
<1>b. PICK c : c = chain'
  OBVIOUS
<1>4. /\ Len(c) = n + 1 /\ DOMAIN c = 1 .. n + 1 /\ DOMAIN chain = 1 .. n /\ n + 1 <= MaxHeight /\ MaxHeight \in Nat
      /\ \A i \in 1 .. n : c[i] = chain[i]
  <2>1. chain \in Seq([events : Contents, fork : 0 .. forks])
    BY DEF ChainOK
  <2>2. n < MaxHeight /\ MaxHeight \in Nat
    BY <1>a, IndexerBounds DEF Grow
  <2>3. DOMAIN chain = 1 .. n
    BY <1>a, ChainBlocks
  <2>4. Len(c) = n + 1 /\ \A i \in 1 .. n : c[i] = chain[i]
    BY <1>2, <1>a, <1>b, <2>1
  <2>5. c \in Seq([events : Contents, fork : 0 .. forks'])
    BY <1>3, <1>b DEF ChainOK
  <2>6. DOMAIN c = 1 .. n + 1
    BY <2>4, <2>5
  <2> QED
    BY <2>2, <2>3, <2>4, <2>6
<1>5. ChainOfFacts(chain) /\ ChainOfFacts(c)
  <2>1. PICK F : F = 0 .. forks'
    OBVIOUS
  <2>2. c \in Seq([events : Contents, fork : F])
    BY <1>3, <1>b, <2>1 DEF ChainOK
  <2> QED
    BY <2>2, SeqIsFacts, ChainIsFacts
<1>6. \A heights : LogsIn(chain, heights) \subseteq LogsIn(c, heights)
  <2> SUFFICES ASSUME NEW heights, NEW l \in LogsIn(chain, heights) PROVE l \in LogsIn(c, heights)
    OBVIOUS
  <2>1. PICK i \in DOMAIN chain \cap heights : \E k \in DOMAIN chain[i].events : l = LogAt(chain, i, k)
    BY LogsAre
  <2>2. i \in DOMAIN c \cap heights /\ c[i] = chain[i]
    BY <1>4, <2>1
  <2>3. PICK k \in DOMAIN chain[i].events : l = LogAt(chain, i, k)
    BY <2>1
  <2>4. k \in DOMAIN c[i].events /\ l = LogAt(c, i, k)
    BY <2>2, <2>3 DEF LogAt
  <2> QED
    BY <2>2, <2>4, LogsAre
<1>7. \A heights : n + 1 \notin heights => LogsIn(c, heights) = LogsIn(chain, heights)
  <2> SUFFICES ASSUME NEW heights, n + 1 \notin heights PROVE LogsIn(c, heights) = LogsIn(chain, heights)
    OBVIOUS
  <2>1. DOMAIN c \cap heights = DOMAIN chain \cap heights
    BY <1>4
  <2>2. \A i \in DOMAIN chain \cap heights : c[i] = chain[i]
    BY <1>4
  <2> QED
    BY <2>1, <2>2, LogsStay
<1>8. ASSUME NEW l \in LogsIn(c, Heights), l.height # n + 1 PROVE l \in AllLogs /\ l.height \in 1 .. n
  <2>1. l.height \in 1 .. n + 1 /\ \A others : l.height \in others => l \in LogsIn(c, others)
    BY <1>4, LogsAmong
  <2>2. l.height \in 1 .. n
    BY <1>8, <2>1
  <2>3. l \in LogsIn(c, 1 .. n) /\ n + 1 \notin 1 .. n
    BY <2>1, <2>2
  <2>4. l \in LogsIn(chain, 1 .. n)
    BY <1>7, <2>3
  <2>5. 1 .. n \subseteq Heights
    BY <1>4 DEF Heights
  <2> QED
    BY <2>2, <2>4, <2>5, LogsWithin DEF AllLogs
<1>9. /\ pass.pc # "idle" => pass.to \in Int /\ pass.to <= n
      /\ store.cursor \in Nat /\ store.cursor <= n
  BY <1>a DEF PassOK, StoreOK
<1>10. Pending \subseteq Pending'
  <2>1. Pending' = IF pass.pc = "apply" THEN pass.logs \cup LogsIn(c, pass.to + 1 .. MaxHeight)
                   ELSE LogsIn(c, store.cursor + 1 .. MaxHeight)
    BY <1>3, <1>b DEF Pending
  <2> QED
    BY <1>6, <2>1 DEF Pending
<1>11. ASSUME NEW l \in LogsIn(c, Heights), l \notin Pending' PROVE l \in AllLogs
  <2> SUFFICES ASSUME l.height = n + 1 PROVE FALSE
    BY <1>8
  <2>1. \A others : n + 1 \in others => l \in LogsIn(c, others)
    BY LogsAmong
  <2>2. CASE pass.pc = "apply"
    <3>1. n + 1 \in pass.to + 1 .. MaxHeight
      BY <1>4, <1>9, <2>2
    <3>2. Pending' = pass.logs \cup LogsIn(c, pass.to + 1 .. MaxHeight)
      BY <1>3, <1>b, <2>2 DEF Pending
    <3> QED
      BY <1>11, <2>1, <3>1, <3>2
  <2>3. CASE pass.pc # "apply"
    <3>1. n + 1 \in store.cursor + 1 .. MaxHeight
      BY <1>4, <1>9
    <3>2. Pending' = LogsIn(c, store.cursor + 1 .. MaxHeight)
      BY <1>3, <1>b, <2>3 DEF Pending
    <3> QED
      BY <1>11, <2>1, <3>1, <3>2
  <2> QED
    BY <2>2, <2>3
<1>12. Followed'
  <2>a. PICK h \in 0 .. Len(chain) : \E k \in 0 .. Size(chain, h) :
           Covers(UpTo(h, k), Pending, MarkState(chain, h, k))
    BY DEF Followed, DirOK
  <2>1. PICK k \in 0 .. Size(chain, h) : Covers(UpTo(h, k), Pending, MarkState(chain, h, k))
    BY <2>a
  <2>2. PICK U, s, P, Q : U = UpTo(h, k) /\ s = MarkState(chain, h, k) /\ P = Pending /\ Q = Pending'
    OBVIOUS
  <2>3. /\ AllLogs \ P \subseteq U /\ \A l \in U : store.blocks[l.height] # None
        /\ ListingOK(store.listing, U, P, s) /\ BondOK(store.bond, U, P, s)
    BY <2>1, <2>2 DEF Covers
  <2>4. Size(c, h) = Size(chain, h) /\ MarkState(c, h, k) = s
    BY <1>4, <1>5, <1>a, <2>2, MarksStay
  <2>5. \A l : l \in {m \in LogsIn(c, Heights) : Ahead(m.height, m.pos, h, k)} <=> l \in U
    <3> TAKE l
    <3>1. ASSUME l \in LogsIn(c, Heights), Ahead(l.height, l.pos, h, k) PROVE l \in AllLogs
      <4>1. l.height # n + 1
        BY <1>a, <3>1 DEF Ahead
      <4> QED
        BY <1>8, <3>1, <4>1
    <3>2. l \in AllLogs => l \in LogsIn(c, Heights)
      BY <1>6 DEF AllLogs
    <3> QED
      BY <2>2, <3>1, <3>2 DEF UpTo
  <2>6. UpTo(h, k)' = U /\ AllLogs' = LogsIn(c, Heights)
    <3>1. AllLogs' = LogsIn(c, Heights)
      BY <1>b DEF AllLogs
    <3>2. UpTo(h, k)' = {m \in LogsIn(c, Heights) : Ahead(m.height, m.pos, h, k)}
      BY <3>1 DEF UpTo
    <3> QED
      BY <2>5, <3>1, <3>2
  <2>7. LogsIn(c, Heights) \ Q \subseteq U
    BY <1>10, <1>11, <2>2, <2>3
  <2>8. ListingOK(store.listing, U, Q, s) /\ BondOK(store.bond, U, Q, s)
    BY <1>10, <2>2, <2>3, OwedLess
  <2>9. h \in 0 .. Len(c) /\ k \in 0 .. Size(c, h)
    BY <1>4, <1>a, <2>4
  <2>10. Covers(UpTo(h, k), Pending, MarkState(chain, h, k))'
    BY <1>3, <1>b, <2>2, <2>3, <2>4, <2>6, <2>7, <2>8 DEF Covers
  <2> QED
    BY <1>b, <2>9, <2>10 DEF Followed
<1>13. ReadInOrder'
  <2>1. CASE pass.pc = "idle"
    BY <1>3, <2>1 DEF ReadInOrder
  <2>2. CASE pass.pc # "idle"
    <3>1. n + 1 \notin Batch
      BY <1>9, <2>2, ResumeIs DEF PassOK, Batch
    <3>2. Batch' = Batch /\ LogsIn(c, Batch) = LogsIn(chain, Batch)
      BY <1>3, <1>7, <3>1 DEF Batch
    <3> QED
      BY <1>3, <1>b, <3>2 DEF ReadInOrder, DirOK
  <2> QED
    BY <2>1, <2>2
<1> QED
  BY <1>1, <1>3, <1>12, <1>13 DEF DirOK
-----------------------------------------------------------------------------
LEMMA UpsertBlocks ==
    ASSUME NEW s, DOMAIN s = StoreFields, DOMAIN s.steps = StepIndexes, NEW entry,
           entry.event.kind \in RunEvents \cup AgentEvents,
           entry.event.kind = "step" => entry.event.value \in StepIndexes
    PROVE  Upsert(s, entry).blocks = s.blocks /\ Upsert(s, entry).cursor = s.cursor
<1>1. CASE entry.event.kind \in AgentEvents
  BY <1>1, AgentUpsert
<1>2. CASE entry.event.kind = "step"
  BY <1>2, StepUpsert DEF StoreFields
<1>3. CASE entry.event.kind = "seal"
  BY <1>3, SealUpsert DEF StoreFields
<1> QED
  BY <1>1, <1>2, <1>3 DEF RunEvents

LEMMA AlikeSame == ASSUME NEW s \in States, NEW t \in States, Alike({}, s, t) PROVE s = t
<1>1. PICK version \in Nat, active \in BOOLEAN, amount \in Nat, unlockAt \in Nat, slashed \in BOOLEAN :
         s = [version |-> version, active |-> active, amount |-> amount, unlockAt |-> unlockAt, slashed |-> slashed]
  BY DEF States
<1>2. PICK v \in Nat, a \in BOOLEAN, m \in Nat, u \in Nat, d \in BOOLEAN :
         t = [version |-> v, active |-> a, amount |-> m, unlockAt |-> u, slashed |-> d]
  BY DEF States
<1>3. s.version = version /\ s.active = active /\ s.amount = amount /\ s.unlockAt = unlockAt /\ s.slashed = slashed
  BY Zenon, <1>1
<1>4. t.version = v /\ t.active = a /\ t.amount = m /\ t.unlockAt = u /\ t.slashed = d
  BY Zenon, <1>2
<1>5. t.version = s.version /\ t.active = s.active /\ t.amount = s.amount /\ t.unlockAt = s.unlockAt /\ t.slashed = s.slashed
  BY Zenon DEF Alike
<1>6. version = v /\ active = a /\ amount = m /\ unlockAt = u /\ slashed = d
  BY Zenon, <1>3, <1>4, <1>5
<1> QED
  BY Zenon, <1>1, <1>2, <1>6

\* Where one log of the chain lies as to another.
LEMMA LogOrder ==
    ASSUME ChainOK, NEW l \in AllLogs, NEW m \in AllLogs
    PROVE  l = m \/ Earlier(l, m) \/ Earlier(m, l)
<1>1. /\ l.height \in Nat /\ l.pos \in Nat /\ l = LogAt(chain, l.height, l.pos)
      /\ m.height \in Nat /\ m.pos \in Nat /\ m = LogAt(chain, m.height, m.pos)
  BY LogPlaces
<1>2. CASE l.height = m.height /\ l.pos = m.pos
  BY <1>1, <1>2
<1>3. CASE ~(l.height = m.height /\ l.pos = m.pos)
  BY <1>1, <1>3 DEF Earlier
<1> QED
  BY <1>2, <1>3

\* The log that is applied next: what comes after it is pending, nothing else is.
LEMMA NextIsFirst ==
    ASSUME ChainOK, StoreOK, PassOK, ReadInOrder, pass.pc = "apply", pass.logs # {}, NEW entry, entry = NextLog,
           NEW Q, Q = (pass.logs \ {entry}) \cup LogsIn(chain, pass.to + 1 .. MaxHeight)
    PROVE  /\ entry \in AllLogs /\ entry \in LogsIn(chain, Batch) /\ Pending = Q \cup {entry}
           /\ \A l \in AllLogs : l \in Q <=> Earlier(entry, l)
           /\ Q \subseteq AllLogs /\ entry \notin Q
<1>1. entry \in pass.logs /\ \A other \in pass.logs : ~Precedes(other, entry)
  BY ThereIsANextLog DEF PassOK
<1>2. PICK from \in Nat, to \in Int : from = pass.from /\ to = pass.to /\ from >= 1 /\ to <= Len(chain)
  BY ResumeIs, IndexerBounds, ChainBlocks DEF PassOK
<1>3. Len(chain) \in Nat /\ Len(chain) <= MaxHeight /\ MaxHeight \in Nat /\ Batch = from .. to
  BY <1>2, ChainBlocks, IndexerBounds DEF ChainOK, Batch
<1>4. PICK rest : rest = LogsIn(chain, to + 1 .. MaxHeight)
  OBVIOUS
<1>5. pass.logs \subseteq LogsIn(chain, from .. to)
  BY <1>3 DEF PassOK
<1>6. from .. to \subseteq Heights /\ to + 1 .. MaxHeight \cap DOMAIN chain \subseteq Heights
  BY <1>2, <1>3, ChainBlocks DEF Heights
<1>7. pass.logs \subseteq AllLogs
  BY <1>5, <1>6, LogsWithin DEF AllLogs
<1>8. \A l \in rest : l \in AllLogs /\ l.height > to
  <2> TAKE l \in rest
  <2>1. PICK H : H = to + 1 .. MaxHeight
    OBVIOUS
  <2>2. l.height \in DOMAIN chain \cap H /\ \A others : l.height \in others => l \in LogsIn(chain, others)
    BY <1>4, <2>1, LogsAmong
  <2>3. l.height \in Heights
    BY <2>2, ChainBlocks
  <2> QED
    BY <1>2, <2>1, <2>2, <2>3 DEF AllLogs
<1>9. entry \in AllLogs /\ entry.height \in from .. to /\ entry \in LogsIn(chain, from .. to)
  <2>1. PICK H : H = from .. to
    OBVIOUS
  <2>2. entry \in LogsIn(chain, H)
    BY <1>1, <1>5, <2>1
  <2>3. entry.height \in H
    BY <2>2, LogsAmong
  <2> QED
    BY <1>1, <1>7, <2>1, <2>2, <2>3
<1>10. Q = (pass.logs \ {entry}) \cup rest /\ Pending = pass.logs \cup rest
  BY <1>2, <1>4 DEF Pending
<1>11. entry.height \in Nat /\ entry.pos \in Nat
  BY <1>9, LogPlaces
<1>12. \A l \in Q : l \in AllLogs /\ Earlier(entry, l)
  <2> TAKE l \in Q
  <2>1. CASE l \in rest
    <3>1. l \in AllLogs /\ l.height > to
      BY <1>8, <2>1
    <3>2. l.height \in Nat
      BY <3>1, LogPlaces
    <3>3. entry.height <= to
      BY <1>2, <1>9
    <3>4. entry.height < l.height
      BY <1>2, <1>11, <3>1, <3>2, <3>3
    <3> QED
      BY <3>1, <3>4 DEF Earlier
  <2>2. CASE l \in pass.logs /\ l # entry
    <3>1. l \in AllLogs /\ ~Earlier(l, entry)
      BY <1>1, <1>7, <2>2 DEF Precedes
    <3> QED
      BY <1>9, <2>2, <3>1, LogOrder
  <2> QED
    BY <1>10, <2>1, <2>2
<1>13. ASSUME NEW l \in AllLogs, Earlier(entry, l) PROVE l \in Q
  <2>1. l.height \in Nat /\ l.height \in 1 .. Len(chain) /\ \A heights : l.height \in heights => l \in LogsIn(chain, heights)
    BY LogPlaces
  <2>2. l # entry /\ l.height >= entry.height
    BY <1>11, <1>13, <2>1 DEF Earlier
  <2>3. CASE l.height <= to
    <3>1. l.height \in from .. to
      BY <1>2, <1>9, <1>11, <2>1, <2>2, <2>3
    <3>2. l \in LogsIn(chain, Batch)
      BY <1>3, <2>1, <3>1
    <3>3. l \in pass.logs
      BY <1>1, <1>13, <3>2 DEF ReadInOrder
    <3> QED
      BY <1>10, <2>2, <3>3
  <2>4. CASE ~(l.height <= to)
    <3>1. l.height \in to + 1 .. MaxHeight
      BY <1>2, <1>3, <2>1, <2>4
    <3> QED
      BY <1>4, <1>10, <2>1, <3>1
  <2> QED
    BY <2>3, <2>4
<1>14. ~Earlier(entry, entry)
  BY <1>11 DEF Earlier
<1> QED
  BY <1>1, <1>3, <1>9, <1>10, <1>12, <1>13, <1>14
-----------------------------------------------------------------------------
\* What an event says of the place where it is.
LEMMA EventAt ==
    ASSUME ChainOK, AgentsAreLegal(chain), NEW entry \in AllLogs, NEW i, NEW j, i = entry.height, j = entry.pos
    PROVE  /\ i \in 0 .. Len(chain) /\ j \in 0 .. Size(chain, i) /\ j - 1 \in 0 .. Size(chain, i)
           /\ i \in Nat /\ j \in Nat /\ j >= 1
           /\ MarkState(chain, i, j) = Emit(MarkState(chain, i, j - 1), entry.event)
           /\ MayEmit(MarkState(chain, i, j - 1), entry.event)
           /\ EmitSets(MarkState(chain, i, j - 1), entry.event, MarkState(chain, i, j))
           /\ EmitKeeps(MarkState(chain, i, j - 1), entry.event, MarkState(chain, i, j))
<1>1. /\ i \in 1 .. Len(chain) /\ i \in Nat /\ j \in 1 .. Size(chain, i) /\ j \in Nat
      /\ entry.event \in Facts /\ entry.event = chain[i].events[j]
  BY LogPlaces
<1>2. Len(chain) \in Nat
  BY ChainBlocks
<1>3. i \in 0 .. Len(chain) /\ i # 0
  BY <1>1, <1>2
<1>4. PICK size \in Nat : size = Size(chain, i)
  BY <1>3, ChainIsFacts, EventsAre
<1>5. j \in 0 .. size /\ j - 1 \in 0 .. size /\ j >= 1
  BY <1>1, <1>4
<1>6. MarkState(chain, i, j) = Emit(MarkState(chain, i, j - 1), entry.event)
  BY <1>1, ChainIsFacts, MarkNext
<1>7. MarkState(chain, i, j - 1) \in States
  BY <1>3, <1>4, <1>5, ChainIsFacts, MarksTyped
<1>8. MayEmit(MarkState(chain, i, j - 1), entry.event)
  <2>1. i \in DOMAIN chain /\ j \in DOMAIN chain[i].events
    BY <1>1, <1>3, ChainIsFacts, EventsAre
  <2>2. MarkState(chain, i, j - 1) = StateAt(chain, i, j - 1)
    BY <1>3 DEF MarkState
  <2> QED
    BY <1>1, <2>1, <2>2 DEF AgentsAreLegal
<1> QED
  BY <1>1, <1>3, <1>4, <1>5, <1>6, <1>7, <1>8, EmitIs

\* A walk along the chain, told by its logs.
LEMMA LogWalk ==
    ASSUME ChainOK, NEW kinds,
           NEW h1 \in 0 .. Len(chain), NEW k1 \in 0 .. Size(chain, h1),
           NEW h2 \in 0 .. Len(chain), NEW k2 \in 0 .. Size(chain, h2), Ahead(h1, k1, h2, k2),
           \A l \in UpTo(h2, k2) : l \in UpTo(h1, k1) \/ l.event.kind \in kinds
    PROVE  Alike(kinds, MarkState(chain, h1, k1), MarkState(chain, h2, k2))
<1>1. ASSUME NEW i \in 1 .. Len(chain), NEW j \in 1 .. Size(chain, i),
             ~Ahead(i, j, h1, k1), Ahead(i, j, h2, k2)
      PROVE  chain[i].events[j].kind \in kinds
  <2>1. PICK l \in AllLogs : l.height = i /\ l.pos = j /\ l.event = chain[i].events[j]
    BY LogOfPlace
  <2>2. l \in UpTo(h2, k2) /\ l \notin UpTo(h1, k1)
    BY <1>1, <2>1 DEF UpTo
  <2> QED
    BY <2>1, <2>2
<1>2. Between(chain, h1, k1, h2, k2, kinds)
  BY <1>1 DEF Between
<1> QED
  BY <1>2, ChainIsFacts, Walk

\* Nothing has happened at the start.
LEMMA FromGenesis ==
    ASSUME ChainOK, NEW h \in 0 .. Len(chain), NEW k \in 0 .. Size(chain, h), NEW U, U = UpTo(h, k),
           NEW s, s = MarkState(chain, h, k)
    PROVE  /\ Of(U, {"list"}) = {} => s.version = 0
           /\ Of(U, BondEvents) = {} => s.amount = 0 /\ s.slashed = FALSE
<1>1. 0 \in 0 .. Len(chain) /\ 0 \in 0 .. Size(chain, 0) /\ h \in Nat
  BY ChainBlocks DEF Size
<1>2. Size(chain, h) \in Nat
  BY ChainIsFacts, EventsAre
<1>3. Ahead(0, 0, h, k)
  BY <1>1, <1>2 DEF Ahead
<1>4. PICK kinds : kinds = KindsOf(U)
  OBVIOUS
<1>5. \A l \in U : l.event.kind \in kinds
  BY <1>4 DEF KindsOf
<1>6. Alike(kinds, MarkState(chain, 0, 0), s)
  BY <1>1, <1>3, <1>5, LogWalk
<1>7. Alike(kinds, Genesis, s)
  BY <1>6 DEF MarkState
<1>8. Of(U, {"list"}) = {} => "list" \notin kinds
  BY <1>4 DEF Of, KindsOf
<1>9. Of(U, BondEvents) = {} => kinds \cap BondEvents = {}
  BY <1>4 DEF Of, KindsOf
<1>10. kinds \cap BondEvents = {} => kinds \cap AmountEvents = {} /\ "slash" \notin kinds
  BY DEF BondEvents, AmountEvents
<1>11. Of(U, {"list"}) = {} => s.version = 0
  BY <1>7, <1>8 DEF Alike, Genesis
<1>12. Of(U, BondEvents) = {} => s.amount = 0
  BY <1>7, <1>9, <1>10 DEF Alike, Genesis
<1>13. Of(U, BondEvents) = {} => s.slashed = FALSE
  <2>1. Genesis.slashed = FALSE
    BY DEF Genesis
  <2>2. Of(U, BondEvents) = {} => s.slashed = Genesis.slashed
    BY Zenon, <1>7, <1>9, <1>10 DEF Alike
  <2> QED
    BY Zenon, <2>1, <2>2
<1> QED
  BY <1>11, <1>12, <1>13

\* What recordBlock and the upsert write.
LEMMA AppliedRows ==
    ASSUME ChainOK, StoreOK, NEW entry \in AllLogs, NEW o, NEW t,
           o = Recorded(store, entry), t = Upsert(o, entry)
    PROVE  /\ DOMAIN o = StoreFields /\ o.listing = store.listing /\ o.bond = store.bond
           /\ \A h \in Heights : t.blocks[h] = IF h = entry.height THEN [fork |-> entry.fork] ELSE store.blocks[h]
           /\ t.cursor = store.cursor
<1>1. PICK s : s = store
  OBVIOUS
<1>2. DOMAIN s = StoreFields /\ DOMAIN s.blocks = Heights /\ DOMAIN s.steps = StepIndexes
  BY <1>1 DEF StoreOK
<1>3. entry.height \in Heights
  BY LogsAmong DEF AllLogs
<1>4. o = Recorded(s, entry)
  BY <1>1
<1>5. /\ DOMAIN o = StoreFields
      /\ \A f \in StoreFields : f # "blocks" => o[f] = s[f]
      /\ \A h \in Heights : o.blocks[h] = IF h = entry.height THEN [fork |-> entry.fork] ELSE s.blocks[h]
  BY ONLY <1>2, <1>3, <1>4, RecordedFields
<1>6. o.listing = s.listing /\ o.bond = s.bond /\ o.steps = s.steps /\ o.cursor = s.cursor
  BY <1>5 DEF StoreFields
<1>7. /\ entry.event.kind \in RunEvents \cup AgentEvents
      /\ entry.event.kind = "step" => entry.event.value \in StepIndexes
  BY LogFacts DEF AllLogs
<1>8. t.blocks = o.blocks /\ t.cursor = o.cursor
  BY <1>2, <1>5, <1>6, <1>7, UpsertBlocks
<1> QED
  BY <1>1, <1>5, <1>6, <1>8

LEMMA ApplyFollows == ASSUME DirOK, ChainOK, StoreOK, PassOK, Apply PROVE DirOK'
<1>1. pass.pc = "apply" /\ pass.logs # {} /\ chain' = chain /\ forks' = forks /\ settled' = settled
  BY DEF Apply
<1>2. PICK entry, o, t : entry = NextLog /\ o = Recorded(store, entry) /\ t = Upsert(o, entry)
  OBVIOUS
<1>3. PICK Q : Q = (pass.logs \ {entry}) \cup LogsIn(chain, pass.to + 1 .. MaxHeight)
  OBVIOUS
<1>4. /\ entry \in AllLogs /\ Pending = Q \cup {entry}
      /\ \A l \in AllLogs : l \in Q <=> Earlier(entry, l)
      /\ Q \subseteq AllLogs /\ entry \notin Q
  BY <1>1, <1>2, <1>3, NextIsFirst DEF DirOK
<1>5. /\ (pass.pc)' = "apply" /\ (pass.from)' = pass.from /\ (pass.to)' = pass.to
      /\ (pass.logs)' = pass.logs \ {entry}
  <2>1. PICK logs : logs = pass.logs \ {entry}
    OBVIOUS
  <2>2. pass' = [pass EXCEPT !.logs = logs]
    BY <1>2, <2>1 DEF Apply
  <2> QED
    BY <1>1, <2>1, <2>2 DEF PassOK, PassFields
<1>6. Pending' = Q
  BY <1>1, <1>3, <1>5 DEF Pending
<1>7. ReadInOrder'
  <2>1. Batch' = Batch
    BY <1>5 DEF Batch
  <2>2. ASSUME NEW l \in LogsIn(chain, Batch), NEW m \in pass.logs \ {entry}, Earlier(m, l)
        PROVE  l \in pass.logs \ {entry}
    <3>1. l \in pass.logs
      BY <1>1, <2>2 DEF ReadInOrder, DirOK
    <3>2. m \in Q /\ m \in AllLogs /\ Earlier(entry, m)
      BY <1>3, <1>4
    <3>3. /\ entry.height \in Nat /\ entry.pos \in Nat /\ m.height \in Nat /\ m.pos \in Nat
      BY <1>4, <3>2, LogPlaces
    <3>4. l # entry
      BY <2>2, <3>2, <3>3 DEF Earlier
    <3> QED
      BY <3>1, <3>4
  <2> QED
    BY <1>1, <1>5, <2>1, <2>2 DEF ReadInOrder
<1>8. store' = t
  BY <1>2, Zenon DEF Apply
<1>9. /\ DOMAIN o = StoreFields /\ o.listing = store.listing /\ o.bond = store.bond
      /\ \A h \in Heights : t.blocks[h] = IF h = entry.height THEN [fork |-> entry.fork] ELSE store.blocks[h]
  BY <1>2, <1>4, AppliedRows
<1>10. AllLogs' = AllLogs
  BY <1>1 DEF AllLogs
<1>11. ASSUME NEW U, U \subseteq AllLogs, \A l \in U : l = entry \/ store.blocks[l.height] # None
       PROVE  \A l \in U : t.blocks[l.height] # None
  <2> TAKE l \in U
  <2>1. l.height \in Heights
    BY <1>11, LogsAmong DEF AllLogs
  <2> QED
    BY <1>9, <1>11, <2>1, NoneMissing
<1>12. PICK i, j : i = entry.height /\ j = entry.pos
  OBVIOUS
<1>13. AgentsAreLegal(chain)
  BY DEF DirOK
<1>14. PICK b, a : b = MarkState(chain, i, j - 1) /\ a = MarkState(chain, i, j)
  OBVIOUS
<1>15. /\ i \in 0 .. Len(chain) /\ j \in 0 .. Size(chain, i) /\ j - 1 \in 0 .. Size(chain, i)
       /\ i \in Nat /\ j \in Nat /\ j >= 1
       /\ MayEmit(b, entry.event) /\ EmitSets(b, entry.event, a) /\ EmitKeeps(b, entry.event, a)
  BY <1>4, <1>12, <1>13, <1>14, EventAt
<1>16. a \in States /\ b \in States /\ entry.event \in Facts
  BY <1>4, <1>14, <1>15, ChainIsFacts, MarksTyped, LogPlaces
<1>a. PICK h \in 0 .. Len(chain) : \E k \in 0 .. Size(chain, h) :
         Covers(UpTo(h, k), Pending, MarkState(chain, h, k))
  BY DEF Followed, DirOK
<1>17. PICK k \in 0 .. Size(chain, h) : Covers(UpTo(h, k), Pending, MarkState(chain, h, k))
  BY <1>a
<1>18. PICK U, P, s : U = UpTo(h, k) /\ P = Pending /\ s = MarkState(chain, h, k)
  OBVIOUS
<1>19. /\ AllLogs \ P \subseteq U /\ \A l \in U : store.blocks[l.height] # None
       /\ ListingOK(o.listing, U, P, s) /\ BondOK(o.bond, U, P, s)
  BY <1>9, <1>17, <1>18 DEF Covers
<1>20. U \subseteq AllLogs /\ s \in States /\ P = Q \cup {entry} /\ h \in Nat /\ k \in Nat
  <2>1. Len(chain) \in Nat /\ Size(chain, h) \in Nat
    BY ChainBlocks, ChainIsFacts, EventsAre
  <2> QED
    BY <1>4, <1>18, <2>1, ChainIsFacts, MarksTyped DEF UpTo
<1>21. \A l \in AllLogs : l.height \in Nat /\ l.pos \in Nat
  BY LogPlaces
<1>22. ASSUME NEW h2 \in 0 .. Len(chain), NEW k2 \in 0 .. Size(chain, h2), NEW V, NEW s2,
              V = UpTo(h2, k2), s2 = MarkState(chain, h2, k2),
              AllLogs \ Q \subseteq V, \A l \in V : l = entry \/ store.blocks[l.height] # None,
              ListingOK(t.listing, V, Q, s2), BondOK(t.bond, V, Q, s2)
       PROVE  DirOK'
  <2>1. V \subseteq AllLogs
    BY <1>22 DEF UpTo
  <2>2. \A l \in V : t.blocks[l.height] # None
    BY <1>11, <1>22, <2>1
  <2>3. UpTo(h2, k2)' = V
    BY <1>10, <1>22 DEF UpTo
  <2>4. MarkState(chain', h2, k2) = s2
    BY <1>1, <1>22
  <2>5. Covers(UpTo(h2, k2), Pending, MarkState(chain, h2, k2))'
    BY <1>6, <1>8, <1>10, <1>22, <2>2, <2>3, <2>4 DEF Covers
  <2>6. h2 \in 0 .. Len(chain') /\ k2 \in 0 .. Size(chain', h2)
    BY <1>1
  <2>7. Followed'
    BY <2>5, <2>6 DEF Followed
  <2> QED
    BY <1>1, <1>7, <1>13, <2>7 DEF DirOK
<1>23. CASE entry \in U
  <2>1. Ahead(i, j, h, k)
    BY <1>12, <1>18, <1>23 DEF UpTo
  <2>2. Onward(a, s)
    BY <1>13, <1>14, <1>15, <1>18, <2>1, ChainIsFacts, MarksOnward
  <2>3. PICK kinds : kinds = KindsOf(U \cap Q)
    OBVIOUS
  <2>4. \A l \in UpTo(h, k) : l \in UpTo(i, j) \/ l.event.kind \in kinds
    <3> TAKE l \in UpTo(h, k)
    <3>1. l \in U /\ l \in AllLogs
      BY <1>18, <1>20
    <3>2. CASE l \in Q
      BY <2>3, <3>1, <3>2 DEF KindsOf
    <3>3. CASE l \notin Q
      <4>1. ~Earlier(entry, l)
        BY <1>4, <3>1, <3>3
      <4>2. l.height \in Nat /\ l.pos \in Nat
        BY <1>21, <3>1
      <4>3. Ahead(l.height, l.pos, i, j)
        BY <1>12, <1>15, <4>1, <4>2 DEF Ahead, Earlier
      <4> QED
        BY <3>1, <4>3 DEF UpTo
    <3> QED
      BY <3>2, <3>3
  <2>5. Alike(kinds, a, s)
    BY <1>14, <1>15, <1>18, <2>1, <2>4, LogWalk
  <2>6. ListingOK(t.listing, U, Q, s)
    BY <1>2, <1>9, <1>15, <1>16, <1>19, <1>20, <1>23, <2>2, <2>3, <2>5, ListedAgain
  <2>7. \A l \in U : l.height \in Nat
    BY <1>20, <1>21
  <2>8. \A l \in Q : l.height >= entry.height
    <3> TAKE l \in Q
    <3>1. l \in AllLogs /\ Earlier(entry, l)
      BY <1>4
    <3>2. l.height \in Nat /\ entry.height \in Nat
      BY <1>4, <1>21, <3>1
    <3> QED
      BY <3>1, <3>2 DEF Earlier
  <2>9. BondOK(t.bond, U, Q, s)
    BY <1>2, <1>9, <1>15, <1>16, <1>19, <1>20, <1>23, <2>2, <2>3, <2>5, <2>7, <2>8, BondedAgain
  <2>10. AllLogs \ Q \subseteq U
    BY <1>19, <1>20, <1>23
  <2> QED
    BY <1>18, <1>19, <1>22, <2>6, <2>9, <2>10
<1>24. CASE entry \notin U
  <2>1. ~Ahead(i, j, h, k)
    BY <1>4, <1>12, <1>18, <1>24 DEF UpTo
  <2>2. Ahead(h, k, i, j - 1)
    BY <1>15, <1>20, <2>1 DEF Ahead
  <2>3. \A l \in AllLogs : l \in U <=> ~(l = entry \/ Earlier(entry, l))
    <3> TAKE l \in AllLogs
    <3>1. l.height \in Nat /\ l.pos \in Nat
      BY <1>21
    <3>2. l = entry \/ Earlier(entry, l) => l \notin U
      <4>1. Earlier(entry, l) => ~Ahead(l.height, l.pos, h, k)
        BY <1>12, <1>15, <1>20, <2>1, <3>1 DEF Ahead, Earlier
      <4> QED
        BY <1>18, <1>24, <4>1 DEF UpTo
    <3>3. ~(l = entry \/ Earlier(entry, l)) => l \in U
      BY <1>4, <1>19, <1>20
    <3> QED
      BY <3>2, <3>3
  <2>4. U \cap P = {}
    BY <1>4, <1>20, <2>3
  <2>5. \A l \in UpTo(i, j - 1) : l \in UpTo(h, k) \/ l.event.kind \in {}
    <3> TAKE l \in UpTo(i, j - 1)
    <3>1. l \in AllLogs /\ Ahead(l.height, l.pos, i, j - 1)
      BY DEF UpTo
    <3>2. l.height \in Nat /\ l.pos \in Nat
      BY <1>21, <3>1
    <3>3. l # entry /\ ~Earlier(entry, l)
      BY <1>12, <1>15, <3>1, <3>2 DEF Ahead, Earlier
    <3> QED
      BY <1>18, <2>3, <3>1, <3>3
  <2>6. Alike({}, s, b)
    BY <1>14, <1>15, <1>18, <2>2, <2>5, LogWalk
  <2>7. s = b
    BY <1>16, <1>20, <2>6, AlikeSame
  <2>8. /\ Of(U, {"list"}) = {} => s.version = 0
        /\ Of(U, BondEvents) = {} => s.amount = 0 /\ s.slashed = FALSE
    BY <1>18, FromGenesis
  <2>9. PICK V : V = U \cup {entry}
    OBVIOUS
  <2>10. V = UpTo(i, j)
    <3>1. \A l \in AllLogs : l \in V <=> Ahead(l.height, l.pos, i, j)
      <4> TAKE l \in AllLogs
      <4>1. l.height \in Nat /\ l.pos \in Nat
        BY <1>21
      <4>2. CASE l = entry
        BY <1>12, <1>15, <2>9, <4>2 DEF Ahead
      <4>3. CASE l # entry
        <5>1. l \in V <=> ~Earlier(entry, l)
          BY <2>3, <2>9, <4>3
        <5>2. ~(l.height = i /\ l.pos = j)
          <6>1. Earlier(l, entry) \/ Earlier(entry, l)
            BY <1>4, <4>3, LogOrder
          <6> QED
            BY <1>12, <1>15, <4>1, <6>1 DEF Earlier
        <5> QED
          BY <1>12, <1>15, <4>1, <5>1, <5>2 DEF Ahead, Earlier
      <4> QED
        BY <4>2, <4>3
    <3>2. V \subseteq AllLogs
      BY <1>4, <1>20, <2>9
    <3> QED
      BY <3>1, <3>2 DEF UpTo
  <2>11. ListingOK(t.listing, V, Q, a)
    BY <1>2, <1>9, <1>15, <1>16, <1>19, <1>20, <2>4, <2>7, <2>8, <2>9, ListedAnew
  <2>12. \A l \in U : l.height \in Nat /\ l.height <= entry.height
    <3> TAKE l \in U
    <3>1. l \in AllLogs /\ l.height \in Nat /\ ~(l = entry \/ Earlier(entry, l))
      BY <1>20, <1>21, <2>3
    <3> QED
      BY <1>12, <1>15, <3>1 DEF Earlier
  <2>13. entry.height \in Nat
    BY <1>12, <1>15
  <2>14. BondOK(t.bond, V, Q, a)
    BY <1>2, <1>9, <1>15, <1>16, <1>19, <1>20, <2>4, <2>7, <2>8, <2>9, <2>12, <2>13, BondedAnew
  <2>15. AllLogs \ Q \subseteq V
    BY <1>19, <1>20, <2>9
  <2>16. \A l \in V : l = entry \/ store.blocks[l.height] # None
    BY <1>19, <2>9
  <2> QED
    BY <1>14, <1>15, <1>22, <2>10, <2>11, <2>14, <2>15, <2>16
<1> QED
  BY <1>23, <1>24
-----------------------------------------------------------------------------
LEMMA DirInit == IndexInit => DirInv
<1> SUFFICES ASSUME IndexInit PROVE DirInv
  OBVIOUS
<1>1. /\ chain = <<>> /\ forks = 0 /\ settled = TRUE /\ Len(chain) = 0 /\ DOMAIN chain = {}
      /\ store.listing = None /\ store.bond = None /\ pass.pc = "idle"
  BY DEF IndexInit, EmptyStore, Idle
<1>2. AllLogs = {}
  BY <1>1 DEF AllLogs, LogsIn
<1>3. UpTo(0, 0) = {}
  BY <1>2 DEF UpTo
<1>4. Covers(UpTo(0, 0), Pending, MarkState(chain, 0, 0))
  BY <1>1, <1>2, <1>3 DEF Covers, ListingOK, BondOK, Of
<1>5. 0 \in 0 .. Len(chain) /\ 0 \in 0 .. Size(chain, 0)
  BY <1>1 DEF Size
<1>6. Followed
  BY <1>4, <1>5 DEF Followed
<1>7. AgentsAreLegal(chain)
  BY <1>1 DEF AgentsAreLegal
<1>8. ReadInOrder
  BY <1>1 DEF ReadInOrder
<1> QED
  BY <1>1, <1>6, <1>7, <1>8 DEF DirInv, DirOK

LEMMA DirNext == IndexInv /\ DirInv /\ [IndexNext]_indexVars => DirInv'
<1> SUFFICES ASSUME IndexInv, DirInv, [IndexNext]_indexVars PROVE DirInv'
  OBVIOUS
<1>1. CASE Reorg
  <2>1. forks' = forks + 1 /\ forks \in Nat
    BY <1>1 DEF Reorg, DirInv
  <2>2. forks' \in Nat /\ forks' # 0
    BY <2>1
  <2> QED
    BY <2>2 DEF DirInv
<1>2. CASE ~Reorg
  <2>1. forks' = forks
    BY <1>2, Zenon DEF IndexNext, Grow, PassStep, StartPass, FindReorg, Scan, GetLogs, Apply, FinishBatch,
       Fail, indexVars
  <2> SUFFICES ASSUME forks = 0 PROVE DirOK'
    BY <2>1 DEF DirInv
  <2>2. DirOK /\ ChainOK /\ StoreOK /\ RowsOK /\ PassOK
    BY DEF DirInv, DirOK, IndexInv
  <2>3. CASE Grow
    BY <2>2, <2>3, GrowFollows
  <2>4. CASE StartPass
    BY <2>2, <2>4, StartPassFollows
  <2>5. CASE FindReorg
    BY <2>2, <2>5, FindReorgFollows
  <2>6. CASE Scan
    BY <2>2, <2>6, ScanFollows
  <2>7. CASE GetLogs
    BY <2>2, <2>7, GetLogsFollows
  <2>8. CASE Apply
    BY <2>2, <2>8, ApplyFollows
  <2>9. CASE FinishBatch
    BY <2>2, <2>9, FinishBatchFollows
  <2>10. CASE Fail
    BY <2>2, <2>10, FailFollows
  <2>11. CASE UNCHANGED indexVars
    <3>1. /\ chain' = chain /\ forks' = forks /\ store' = store /\ pass' = pass /\ settled' = settled
      BY <2>11 DEF indexVars
    <3>2. Pending' = Pending /\ Batch' = Batch
      BY <3>1 DEF Pending, Batch
    <3>3. Followed'
      BY <2>2, <3>1, <3>2, FollowedStays DEF DirOK
    <3>4. ReadInOrder'
      BY <2>2, <3>1, <3>2 DEF ReadInOrder, DirOK
    <3> QED
      BY <2>2, <3>1, <3>3, <3>4 DEF DirOK
  <2> QED
    BY <1>2, <2>3, <2>4, <2>5, <2>6, <2>7, <2>8, <2>9, <2>10, <2>11 DEF IndexNext, PassStep
<1> QED
  BY <1>1, <1>2

\* At rest the mark is where the cursor is, as far as logs go.
LEMMA RestingRows == IndexInv /\ DirInv => DirectoryReplaysTheChain
<1> SUFFICES ASSUME IndexInv, DirInv, forks = 0, AtRest, NEW r, r = Replay(chain)[store.cursor]
             PROVE  /\ IF store.listing = None THEN r.version = 0
                       ELSE store.listing.version = r.version /\ store.listing.active = r.active
                    /\ IF store.bond = None THEN r.amount = 0 /\ ~r.slashed
                       ELSE /\ store.bond.amount = r.amount /\ store.bond.unlockAt = r.unlockAt
                            /\ store.bond.slashed = r.slashed
  BY DEF DirectoryReplaysTheChain
<1>1. DirOK /\ ChainOK /\ StoreOK
  BY DEF DirInv, DirOK, IndexInv
<1>2. PICK c \in 0 .. Len(chain) : c = store.cursor
  BY <1>1 DEF StoreOK
<1>3. Len(chain) \in Nat /\ c \in Nat /\ DOMAIN chain = 1 .. Len(chain) /\ Len(chain) <= MaxHeight /\ MaxHeight \in Nat
  BY <1>1, <1>2, ChainBlocks, IndexerBounds DEF ChainOK
<1>4. PICK z \in Nat : z = Size(chain, c)
  BY <1>1, ChainIsFacts, EventsAre
<1>5. r = MarkState(chain, c, z)
  BY <1>1, <1>2, <1>4, ChainIsFacts, MarkNext
<1>a. PICK h \in 0 .. Len(chain) : \E k \in 0 .. Size(chain, h) :
         Covers(UpTo(h, k), Pending, MarkState(chain, h, k))
  BY <1>1 DEF Followed, DirOK
<1>6. PICK k \in 0 .. Size(chain, h) : Covers(UpTo(h, k), Pending, MarkState(chain, h, k))
  BY <1>a
<1>7. PICK U, P, s : U = UpTo(h, k) /\ P = Pending /\ s = MarkState(chain, h, k)
  OBVIOUS
<1>8. /\ AllLogs \ P \subseteq U /\ \A l \in U : store.blocks[l.height] # None
      /\ ListingOK(store.listing, U, P, s) /\ BondOK(store.bond, U, P, s)
  BY <1>6, <1>7 DEF Covers
<1>9. \A l \in AllLogs : l \in P <=> l.height > c
  <2> TAKE l \in AllLogs
  <2>1. P = LogsIn(chain, c + 1 .. MaxHeight)
    BY <1>2, <1>7 DEF Pending, AtRest
  <2>2. l.height \in 1 .. Len(chain) /\ \A heights : l.height \in heights => l \in LogsIn(chain, heights)
    BY <1>1, LogPlaces
  <2>3. l.height > c => l \in P
    BY <1>3, <2>1, <2>2
  <2>4. l \in P => l.height > c
    <3>1. PICK H : H = c + 1 .. MaxHeight
      OBVIOUS
    <3>2. l \in P => l.height \in H
      BY <2>1, <3>1, LogsAmong
    <3> QED
      BY <1>3, <2>2, <3>1, <3>2
  <2> QED
    BY <2>3, <2>4
<1>10. U \subseteq AllLogs
  BY <1>7 DEF UpTo
<1>11. \A l \in U : ~(l.height > c)
  <2> TAKE l \in U
  <2>1. l.height \in Heights
    BY <1>10, LogsAmong DEF AllLogs
  <2> QED
    BY <1>2, <1>8, <2>1 DEF AtRest
<1>12. U \cap P = {}
  BY <1>9, <1>10, <1>11
<1>13. \A l \in AllLogs : l.height \in Nat /\ l.pos \in Nat /\ l.pos <= Size(chain, l.height)
  <2> TAKE l \in AllLogs
  <2>1. l.height \in 0 .. Len(chain) /\ l.height \in Nat /\ l.pos \in Nat /\ l.pos \in 1 .. Size(chain, l.height)
    BY <1>1, <1>3, LogPlaces
  <2>2. PICK size \in Nat : size = Size(chain, l.height)
    BY <1>1, <2>1, ChainIsFacts, EventsAre
  <2> QED
    BY <2>1, <2>2
<1>14. \A l \in AllLogs : Ahead(l.height, l.pos, c, z) <=> ~(l.height > c)
  <2> TAKE l \in AllLogs
  <2>1. l.height = c => l.pos <= z
    BY <1>4, <1>13
  <2> QED
    BY <1>3, <1>4, <1>13, <2>1 DEF Ahead
<1>15. UpTo(c, z) = U
  <2>1. \A l \in AllLogs : l \in U <=> ~(l.height > c)
    BY <1>8, <1>9, <1>11
  <2>2. \A l : l \in UpTo(c, z) <=> l \in AllLogs /\ ~(l.height > c)
    BY <1>14 DEF UpTo
  <2> QED
    BY <1>10, <2>1, <2>2
<1>16. z \in 0 .. Size(chain, c)
  BY <1>4
<1>17. s \in States /\ r \in States
  BY <1>1, <1>5, <1>7, <1>16, ChainIsFacts, MarksTyped
<1>18. s = r
  <2>1. h \in Nat /\ k \in Nat
    BY <1>1, <1>3, ChainIsFacts, EventsAre
  <2>2. CASE Ahead(h, k, c, z)
    <3>1. \A l \in UpTo(c, z) : l \in UpTo(h, k) \/ l.event.kind \in {}
      BY <1>7, <1>15
    <3>2. Alike({}, s, r)
      BY <1>1, <1>5, <1>7, <1>16, <2>2, <3>1, LogWalk
    <3> QED
      BY <1>17, <3>2, AlikeSame
  <2>3. CASE Ahead(c, z, h, k)
    <3>1. \A l \in UpTo(h, k) : l \in UpTo(c, z) \/ l.event.kind \in {}
      BY <1>7, <1>15
    <3>2. Alike({}, r, s)
      BY <1>1, <1>5, <1>7, <1>16, <2>3, <3>1, LogWalk
    <3> QED
      BY <1>17, <3>2, AlikeSame
  <2> QED
    BY <1>3, <1>4, <2>1, <2>2, <2>3 DEF Ahead
<1>19. /\ Of(U, {"list"}) = {} => s.version = 0
       /\ Of(U, BondEvents) = {} => s.amount = 0 /\ s.slashed = FALSE
  BY <1>1, <1>7, FromGenesis
<1>20. Of(U \cap P, ListingEvents) = {} /\ \A i, kinds : Of(AtHeight(U \cap P, i), kinds) = {}
  BY <1>12 DEF Of, AtHeight
<1>21. IF store.listing = None THEN s.version = 0
       ELSE store.listing.version = s.version /\ store.listing.active = s.active
  BY <1>8, <1>19, <1>20 DEF ListingOK
<1>22. IF store.bond = None THEN s.amount = 0 /\ ~s.slashed
       ELSE /\ store.bond.amount = s.amount /\ store.bond.unlockAt = s.unlockAt
            /\ store.bond.slashed = s.slashed
  BY <1>8, <1>19, <1>20 DEF BondOK
<1> QED
  BY <1>18, <1>21, <1>22

\* As long as no block was replaced, the listing and the bond that the index
\* shows between passes are what replaying the contracts' events up to the
\* cursor gives, after any number of failed passes (the upserts of
\* ingestRange): events read again undo nothing, and what a pass that failed
\* half-way left behind is made good by the next.
THEOREM DirectoryFollowsTheChain == IndexSpec => []DirectoryReplaysTheChain
<1>1. IndexSpec => []IndexInv
  BY InitIndexInv, NextIndexInv, PTL DEF IndexSpec
<1>2. IndexSpec => []DirInv
  BY <1>1, DirInit, DirNext, PTL DEF IndexSpec
<1> QED
  BY <1>1, <1>2, RestingRows, PTL

-----------------------------------------------------------------------------
\* The two stores: what each table of the one holds, the Map of the other holds
\* under its key.
Mirrors(table, map, rows) ==
    /\ table = RowsOf(map)
    /\ \A k \in DOMAIN map : map[k] \in rows

TableFields == {"cursor", "steps", "seals", "listings", "bonds", "health"}
MemoryFields == TableFields \cup {"stepTurns", "sealTurns"}
StepsMirror ==
    /\ Mirrors(tables.steps, memory.steps, ReceiptRows) /\ IsFiniteSet(DOMAIN memory.steps)
    /\ \A k \in DOMAIN memory.steps : k = <<memory.steps[k].run, memory.steps[k].index>>
SealsMirror ==
    /\ Mirrors(tables.seals, memory.seals, SealRows) /\ IsFiniteSet(DOMAIN memory.seals)
    /\ \A k \in DOMAIN memory.seals : k = memory.seals[k].run
ListingsMirror ==
    /\ Mirrors(tables.listings, memory.listings, ListingRows) /\ IsFiniteSet(DOMAIN memory.listings)
    /\ \A k \in DOMAIN memory.listings : k = memory.listings[k].agent
BondsMirror ==
    /\ Mirrors(tables.bonds, memory.bonds, BondRows)
    /\ \A k \in DOMAIN memory.bonds : k = memory.bonds[k].agent
HealthMirror ==
    /\ Mirrors(tables.health, memory.health, HealthRows)
    /\ \A k \in DOMAIN memory.health : k = memory.health[k].agent

StoresMirror ==
    /\ DOMAIN memory = MemoryFields /\ DOMAIN tables = TableFields
    /\ tables.cursor = memory.cursor /\ memory.cursor \in Nat
    /\ StepsMirror /\ SealsMirror /\ ListingsMirror /\ BondsMirror /\ HealthMirror

LogIsTyped == log \in Seq(ContractEvents) /\ applied \in 0 .. Len(log) /\ height \in 0 .. MaxBlocks

\* Only agents listed as active are probed.
ProbesAreListed == probing \subseteq {a.agent : a \in {r \in tables.listings : r.active}}

\* Every key of a Map has a turn of its own, from the first one on.
HasTurns(turns, map) ==
    /\ turns \in [DOMAIN map -> Nat \ {0}]
    /\ \A j, k \in DOMAIN map : turns[j] = turns[k] => j = k
TurnsAreKept == HasTurns(memory.stepTurns, memory.steps) /\ HasTurns(memory.sealTurns, memory.seals)

MirrorInv == LogIsTyped /\ StoresMirror /\ TurnsAreKept /\ ProbesAreListed

-----------------------------------------------------------------------------
\* What Put and a rolled-back Map hold.
LEMMA PutRows ==
    ASSUME NEW map, NEW key, NEW row
    PROVE  RowsOf(Put(map, key, row)) = {map[k] : k \in DOMAIN map \ {key}} \cup {row}
  BY DEF RowsOf, Put

LEMMA PutFinite ==
    ASSUME NEW map, NEW key, NEW row, IsFiniteSet(DOMAIN map)
    PROVE  IsFiniteSet(DOMAIN Put(map, key, row))
  BY FS_AddElement, Zenon DEF Put

LEMMA WithoutIs ==
    ASSUME NEW map, NEW block \in Int, \A k \in DOMAIN map : map[k].block \in Int
    PROVE  /\ DOMAIN Without(map, Stale(map, block)) \subseteq DOMAIN map
           /\ \A k \in DOMAIN Without(map, Stale(map, block)) : Without(map, Stale(map, block))[k] = map[k]
           /\ RowsOf(Without(map, Stale(map, block))) = {r \in RowsOf(map) : r.block < block}
  <1>1. DOMAIN Without(map, Stale(map, block)) = {k \in DOMAIN map : map[k].block < block}
    BY DEF Without, Stale
  <1>2. \A k \in DOMAIN Without(map, Stale(map, block)) : Without(map, Stale(map, block))[k] = map[k]
    BY DEF Without
  <1>. QED  BY <1>1, <1>2 DEF RowsOf

\* The rows of an agent-keyed table.
LEMMA RowOfAgent ==
    ASSUME NEW map, \A k \in DOMAIN map : k = map[k].agent, NEW agent
    PROVE  {r \in RowsOf(map) : r.agent = agent} = IF agent \in DOMAIN map THEN {map[agent]} ELSE {}
  BY DEF RowsOf

LEMMA AgentPut ==
    ASSUME NEW map, \A k \in DOMAIN map : k = map[k].agent, NEW agent, NEW row, row.agent = agent
    PROVE  /\ RowsOf(Put(map, agent, row)) = (RowsOf(map) \ {r \in RowsOf(map) : r.agent = agent}) \cup {row}
           /\ \A k \in DOMAIN Put(map, agent, row) : k = Put(map, agent, row)[k].agent
  <1>1. \A k \in DOMAIN Put(map, agent, row) : k = Put(map, agent, row)[k].agent
    BY DEF Put
  <1>2. {map[k] : k \in DOMAIN map \ {agent}} = RowsOf(map) \ {r \in RowsOf(map) : r.agent = agent}
    BY DEF RowsOf
  <1>3. RowsOf(Put(map, agent, row)) = {map[k] : k \in DOMAIN map \ {agent}} \cup {row}
    BY PutRows
  <1>. QED  BY <1>1, <1>2, <1>3, Zenon

LEMMA GetIs ==
    ASSUME NEW map, \A k \in DOMAIN map : k = map[k].agent, NEW agent
    PROVE  SqlGet(RowsOf(map), agent) = Get(map, agent)
  <1>. DEFINE rows == {r \in RowsOf(map) : r.agent = agent}
  <1>1. rows = IF agent \in DOMAIN map THEN {map[agent]} ELSE {}
    BY RowOfAgent
  <1>. HIDE DEF rows
  <1>2. SqlGet(RowsOf(map), agent) = IF rows = {} THEN Null ELSE CHOOSE r \in rows : TRUE
    BY DEF SqlGet, rows
  <1>3. CASE agent \in DOMAIN map
    BY <1>1, <1>2, <1>3 DEF Get
  <1>4. CASE agent \notin DOMAIN map
    BY <1>1, <1>2, <1>4 DEF Get
  <1>. QED  BY <1>3, <1>4

-----------------------------------------------------------------------------
\* Rows of events.
LEMMA StepRow ==
    ASSUME NEW e \in ContractEvents, e.kind = "step"
    PROVE  Row(e) \in ReceiptRows
  <1>1. e \in [kind : {"step"}, run : Runs, index : Nat, agent : Agents, status : Statuses, attested : BOOLEAN,
               block : 0 .. MaxBlocks]
    BY DEF ContractEvents
  <1>2. DOMAIN e \ {"kind"} = {"run", "index", "agent", "status", "attested", "block"}
    BY <1>1
  <1>3. Row(e) = [run |-> e.run, index |-> e.index, agent |-> e.agent, status |-> e.status,
                  attested |-> e.attested, block |-> e.block]
    BY <1>2 DEF Row
  <1>. QED  BY <1>1, <1>3 DEF ReceiptRows

LEMMA SealRow ==
    ASSUME NEW e \in ContractEvents, e.kind = "seal"
    PROVE  Row(e) \in SealRows
  <1>1. e \in [kind : {"seal"}, run : Runs, root : Roots, outcome : Statuses, block : 0 .. MaxBlocks]
    BY DEF ContractEvents
  <1>2. DOMAIN e \ {"kind"} = {"run", "root", "outcome", "block"}
    BY <1>1
  <1>3. Row(e) = [run |-> e.run, root |-> e.root, outcome |-> e.outcome, block |-> e.block]
    BY <1>2 DEF Row
  <1>. QED  BY <1>1, <1>3 DEF SealRows

LEMMA ListingRow ==
    ASSUME NEW e \in ContractEvents, e.kind = "list"
    PROVE  Row(e) \in ListingRows
  <1>1. e \in [kind : {"list"}, agent : Agents, version : Nat, active : BOOLEAN, block : 0 .. MaxBlocks]
    BY DEF ContractEvents
  <1>2. DOMAIN e \ {"kind"} = {"agent", "version", "active", "block"}
    BY <1>1
  <1>3. Row(e) = [agent |-> e.agent, version |-> e.version, active |-> e.active, block |-> e.block]
    BY <1>2 DEF Row
  <1>. QED  BY <1>1, <1>3 DEF ListingRows

LEMMA BondRow ==
    ASSUME NEW e \in ContractEvents, e.kind = "bond"
    PROVE  Row(e) \in BondRows
  <1>1. e \in [kind : {"bond"}, agent : Agents, amount : Nat, slashed : BOOLEAN, block : 0 .. MaxBlocks]
    BY DEF ContractEvents
  <1>2. DOMAIN e \ {"kind"} = {"agent", "amount", "slashed", "block"}
    BY <1>1
  <1>3. Row(e) = [agent |-> e.agent, amount |-> e.amount, slashed |-> e.slashed, block |-> e.block]
    BY <1>2 DEF Row
  <1>. QED  BY <1>1, <1>3 DEF BondRows

LEMMA EventKinds ==
    ASSUME NEW e \in ContractEvents
    PROVE  /\ e.kind \in {"step", "seal", "list", "unlist", "bond"} /\ e.block \in 0 .. MaxBlocks
           /\ e.kind = "unlist" => e.agent \in Agents
  BY DEF ContractEvents

-----------------------------------------------------------------------------
\* Every write keeps the two stores alike.
LEMMA StepWritten ==
    ASSUME StoresMirror, NEW s \in ReceiptRows, memory' = MemStep(memory, s), tables' = SqlStep(tables, s)
    PROVE  StoresMirror'
  <1>. DEFINE key == <<s.run, s.index>>
  <1>1. /\ DOMAIN memory' = MemoryFields /\ DOMAIN tables' = TableFields
        /\ memory'.steps = Put(memory.steps, key, s)
        /\ tables'.steps = {r \in tables.steps : r.run # s.run \/ r.index # s.index} \cup {s}
        /\ \A f \in TableFields \ {"steps"} : memory'[f] = memory[f] /\ tables'[f] = tables[f]
    BY DEF StoresMirror, TableFields, MemoryFields, MemStep, SqlStep
  <1>2. {memory.steps[k] : k \in DOMAIN memory.steps \ {key}}
            = {r \in RowsOf(memory.steps) : r.run # s.run \/ r.index # s.index}
    BY DEF StoresMirror, StepsMirror, RowsOf
  <1>3. tables'.steps = RowsOf(memory'.steps)
    <2>1. RowsOf(Put(memory.steps, key, s)) = {memory.steps[k] : k \in DOMAIN memory.steps \ {key}} \cup {s}
      BY PutRows
    <2>. QED  BY <1>1, <1>2, <2>1, Zenon DEF StoresMirror, StepsMirror, Mirrors
  <1>4. \A k \in DOMAIN memory'.steps : memory'.steps[k] \in ReceiptRows
    BY <1>1 DEF StoresMirror, StepsMirror, Mirrors, Put
  <1>5. IsFiniteSet(DOMAIN memory'.steps)
    <2>1. IsFiniteSet(DOMAIN memory.steps)
      BY DEF StoresMirror, StepsMirror
    <2>2. IsFiniteSet(DOMAIN Put(memory.steps, key, s))
      BY <2>1, PutFinite
    <2>. QED  BY <1>1, <2>2
  <1>6. \A k \in DOMAIN memory'.steps : k = <<memory'.steps[k].run, memory'.steps[k].index>>
    BY <1>1 DEF StoresMirror, StepsMirror, Put
  <1>7. StepsMirror'
    BY <1>3, <1>4, <1>5, <1>6, Zenon DEF StepsMirror, Mirrors
  <1>8. /\ memory'.cursor = memory.cursor /\ tables'.cursor = tables.cursor
        /\ memory'.seals = memory.seals /\ tables'.seals = tables.seals
        /\ memory'.listings = memory.listings /\ tables'.listings = tables.listings
        /\ memory'.bonds = memory.bonds /\ tables'.bonds = tables.bonds
        /\ memory'.health = memory.health /\ tables'.health = tables.health
    BY <1>1 DEF TableFields, MemoryFields
  <1>9. SealsMirror' /\ ListingsMirror' /\ BondsMirror' /\ HealthMirror'
    BY <1>8, Zenon DEF StoresMirror, SealsMirror, ListingsMirror, BondsMirror, HealthMirror, Mirrors
  <1>. QED  BY <1>1, <1>7, <1>8, <1>9, Zenon DEF StoresMirror


LEMMA SealWritten ==
    ASSUME StoresMirror, NEW s \in SealRows, memory' = MemSeal(memory, s), tables' = SqlSeal(tables, s)
    PROVE  StoresMirror'
  <1>1. /\ DOMAIN memory' = MemoryFields /\ DOMAIN tables' = TableFields
        /\ memory'.seals = Put(memory.seals, s.run, s)
        /\ tables'.seals = {r \in tables.seals : r.run # s.run} \cup {s}
        /\ \A f \in TableFields \ {"seals"} : memory'[f] = memory[f] /\ tables'[f] = tables[f]
    BY DEF StoresMirror, TableFields, MemoryFields, MemSeal, SqlSeal
  <1>2. {memory.seals[k] : k \in DOMAIN memory.seals \ {s.run}} = {r \in RowsOf(memory.seals) : r.run # s.run}
    BY DEF StoresMirror, SealsMirror, RowsOf
  <1>3. tables'.seals = RowsOf(memory'.seals)
    <2>1. RowsOf(Put(memory.seals, s.run, s)) = {memory.seals[k] : k \in DOMAIN memory.seals \ {s.run}} \cup {s}
      BY PutRows
    <2>. QED  BY <1>1, <1>2, <2>1, Zenon DEF StoresMirror, SealsMirror, Mirrors
  <1>4. \A k \in DOMAIN memory'.seals : memory'.seals[k] \in SealRows
    BY <1>1 DEF StoresMirror, SealsMirror, Mirrors, Put
  <1>5. IsFiniteSet(DOMAIN memory'.seals)
    <2>1. IsFiniteSet(DOMAIN memory.seals)
      BY DEF StoresMirror, SealsMirror
    <2>2. IsFiniteSet(DOMAIN Put(memory.seals, s.run, s))
      BY <2>1, PutFinite
    <2>. QED  BY <1>1, <2>2
  <1>6. \A k \in DOMAIN memory'.seals : k = memory'.seals[k].run
    BY <1>1 DEF StoresMirror, SealsMirror, Put
  <1>7. SealsMirror'
    BY <1>3, <1>4, <1>5, <1>6, Zenon DEF SealsMirror, Mirrors
  <1>8. /\ memory'.cursor = memory.cursor /\ tables'.cursor = tables.cursor
        /\ memory'.steps = memory.steps /\ tables'.steps = tables.steps
        /\ memory'.listings = memory.listings /\ tables'.listings = tables.listings
        /\ memory'.bonds = memory.bonds /\ tables'.bonds = tables.bonds
        /\ memory'.health = memory.health /\ tables'.health = tables.health
    BY <1>1 DEF TableFields, MemoryFields
  <1>9. StepsMirror' /\ ListingsMirror' /\ BondsMirror' /\ HealthMirror'
    BY <1>8, Zenon DEF StoresMirror, StepsMirror, ListingsMirror, BondsMirror, HealthMirror, Mirrors
  <1>. QED  BY <1>1, <1>7, <1>8, <1>9, Zenon DEF StoresMirror

LEMMA ListingPut ==
    ASSUME StoresMirror, NEW row \in ListingRows,
           memory' = [memory EXCEPT !.listings = Put(@, row.agent, row)],
           tables' = [tables EXCEPT !.listings = (@ \ {r \in tables.listings : r.agent = row.agent}) \cup {row}]
    PROVE  StoresMirror'
  <1>1. /\ DOMAIN memory' = MemoryFields /\ DOMAIN tables' = TableFields
        /\ memory'.listings = Put(memory.listings, row.agent, row)
        /\ tables'.listings = (tables.listings \ {r \in tables.listings : r.agent = row.agent}) \cup {row}
        /\ \A f \in TableFields \ {"listings"} : memory'[f] = memory[f] /\ tables'[f] = tables[f]
    BY DEF StoresMirror, TableFields, MemoryFields
  <1>2. /\ \A k \in DOMAIN memory.listings : k = memory.listings[k].agent
        /\ tables.listings = RowsOf(memory.listings)
        /\ \A k \in DOMAIN memory.listings : memory.listings[k] \in ListingRows
    BY DEF StoresMirror, ListingsMirror, Mirrors
  <1>3. /\ tables'.listings = RowsOf(memory'.listings)
        /\ \A k \in DOMAIN memory'.listings : k = memory'.listings[k].agent
    <2>1. /\ RowsOf(Put(memory.listings, row.agent, row))
               = (RowsOf(memory.listings) \ {r \in RowsOf(memory.listings) : r.agent = row.agent}) \cup {row}
          /\ \A k \in DOMAIN Put(memory.listings, row.agent, row) : k = Put(memory.listings, row.agent, row)[k].agent
      BY <1>2, AgentPut
    <2>. QED  BY <1>1, <1>2, <2>1, Zenon
  <1>4. \A k \in DOMAIN memory'.listings : memory'.listings[k] \in ListingRows
    BY <1>1, <1>2 DEF Put
  <1>5. IsFiniteSet(DOMAIN memory'.listings)
    <2>1. IsFiniteSet(DOMAIN memory.listings)
      BY DEF StoresMirror, ListingsMirror
    <2>2. IsFiniteSet(DOMAIN Put(memory.listings, row.agent, row))
      BY <2>1, PutFinite
    <2>. QED  BY <1>1, <2>2
  <1>6. ListingsMirror'
    BY <1>3, <1>4, <1>5, Zenon DEF ListingsMirror, Mirrors
  <1>7. /\ memory'.cursor = memory.cursor /\ tables'.cursor = tables.cursor
        /\ memory'.steps = memory.steps /\ tables'.steps = tables.steps
        /\ memory'.seals = memory.seals /\ tables'.seals = tables.seals
        /\ memory'.bonds = memory.bonds /\ tables'.bonds = tables.bonds
        /\ memory'.health = memory.health /\ tables'.health = tables.health
    BY <1>1 DEF TableFields, MemoryFields
  <1>8. StepsMirror' /\ SealsMirror' /\ BondsMirror' /\ HealthMirror'
    BY <1>7, Zenon DEF StoresMirror, StepsMirror, SealsMirror, BondsMirror, HealthMirror, Mirrors
  <1>. QED  BY <1>1, <1>6, <1>7, <1>8, Zenon DEF StoresMirror

LEMMA BondPut ==
    ASSUME StoresMirror, NEW row \in BondRows,
           memory' = [memory EXCEPT !.bonds = Put(@, row.agent, row)],
           tables' = [tables EXCEPT !.bonds = (@ \ {r \in tables.bonds : r.agent = row.agent}) \cup {row}]
    PROVE  StoresMirror'
  <1>1. /\ DOMAIN memory' = MemoryFields /\ DOMAIN tables' = TableFields
        /\ memory'.bonds = Put(memory.bonds, row.agent, row)
        /\ tables'.bonds = (tables.bonds \ {r \in tables.bonds : r.agent = row.agent}) \cup {row}
        /\ \A f \in TableFields \ {"bonds"} : memory'[f] = memory[f] /\ tables'[f] = tables[f]
    BY DEF StoresMirror, TableFields, MemoryFields
  <1>2. /\ \A k \in DOMAIN memory.bonds : k = memory.bonds[k].agent
        /\ tables.bonds = RowsOf(memory.bonds)
        /\ \A k \in DOMAIN memory.bonds : memory.bonds[k] \in BondRows
    BY DEF StoresMirror, BondsMirror, Mirrors
  <1>3. /\ tables'.bonds = RowsOf(memory'.bonds)
        /\ \A k \in DOMAIN memory'.bonds : k = memory'.bonds[k].agent
    <2>1. /\ RowsOf(Put(memory.bonds, row.agent, row))
               = (RowsOf(memory.bonds) \ {r \in RowsOf(memory.bonds) : r.agent = row.agent}) \cup {row}
          /\ \A k \in DOMAIN Put(memory.bonds, row.agent, row) : k = Put(memory.bonds, row.agent, row)[k].agent
      BY <1>2, AgentPut
    <2>. QED  BY <1>1, <1>2, <2>1, Zenon
  <1>4. \A k \in DOMAIN memory'.bonds : memory'.bonds[k] \in BondRows
    BY <1>1, <1>2 DEF Put
  <1>5. BondsMirror'
    BY <1>3, <1>4, Zenon DEF BondsMirror, Mirrors
  <1>6. /\ memory'.cursor = memory.cursor /\ tables'.cursor = tables.cursor
        /\ memory'.steps = memory.steps /\ tables'.steps = tables.steps
        /\ memory'.seals = memory.seals /\ tables'.seals = tables.seals
        /\ memory'.listings = memory.listings /\ tables'.listings = tables.listings
        /\ memory'.health = memory.health /\ tables'.health = tables.health
    BY <1>1 DEF TableFields, MemoryFields
  <1>7. StepsMirror' /\ SealsMirror' /\ ListingsMirror' /\ HealthMirror'
    BY <1>6, Zenon DEF StoresMirror, StepsMirror, SealsMirror, ListingsMirror, HealthMirror, Mirrors
  <1>. QED  BY <1>1, <1>5, <1>6, <1>7, Zenon DEF StoresMirror

LEMMA HealthPut ==
    ASSUME StoresMirror, NEW row \in HealthRows,
           memory' = [memory EXCEPT !.health = Put(@, row.agent, row)],
           tables' = [tables EXCEPT !.health = (@ \ {r \in tables.health : r.agent = row.agent}) \cup {row}]
    PROVE  StoresMirror'
  <1>1. /\ DOMAIN memory' = MemoryFields /\ DOMAIN tables' = TableFields
        /\ memory'.health = Put(memory.health, row.agent, row)
        /\ tables'.health = (tables.health \ {r \in tables.health : r.agent = row.agent}) \cup {row}
        /\ \A f \in TableFields \ {"health"} : memory'[f] = memory[f] /\ tables'[f] = tables[f]
    BY DEF StoresMirror, TableFields, MemoryFields
  <1>2. /\ \A k \in DOMAIN memory.health : k = memory.health[k].agent
        /\ tables.health = RowsOf(memory.health)
        /\ \A k \in DOMAIN memory.health : memory.health[k] \in HealthRows
    BY DEF StoresMirror, HealthMirror, Mirrors
  <1>3. /\ tables'.health = RowsOf(memory'.health)
        /\ \A k \in DOMAIN memory'.health : k = memory'.health[k].agent
    <2>1. /\ RowsOf(Put(memory.health, row.agent, row))
               = (RowsOf(memory.health) \ {r \in RowsOf(memory.health) : r.agent = row.agent}) \cup {row}
          /\ \A k \in DOMAIN Put(memory.health, row.agent, row) : k = Put(memory.health, row.agent, row)[k].agent
      BY <1>2, AgentPut
    <2>. QED  BY <1>1, <1>2, <2>1, Zenon
  <1>4. \A k \in DOMAIN memory'.health : memory'.health[k] \in HealthRows
    BY <1>1, <1>2 DEF Put
  <1>5. HealthMirror'
    BY <1>3, <1>4, Zenon DEF HealthMirror, Mirrors
  <1>6. /\ memory'.cursor = memory.cursor /\ tables'.cursor = tables.cursor
        /\ memory'.steps = memory.steps /\ tables'.steps = tables.steps
        /\ memory'.seals = memory.seals /\ tables'.seals = tables.seals
        /\ memory'.listings = memory.listings /\ tables'.listings = tables.listings
        /\ memory'.bonds = memory.bonds /\ tables'.bonds = tables.bonds
    BY <1>1 DEF TableFields, MemoryFields
  <1>7. StepsMirror' /\ SealsMirror' /\ ListingsMirror' /\ BondsMirror'
    BY <1>6, Zenon DEF StoresMirror, StepsMirror, SealsMirror, ListingsMirror, BondsMirror, Mirrors
  <1>. QED  BY <1>1, <1>5, <1>6, <1>7, Zenon DEF StoresMirror

LEMMA ListingWritten ==
    ASSUME StoresMirror, NEW a \in ListingRows,
           memory' = MemListing(memory, a), tables' = SqlListing(tables, a)
    PROVE  StoresMirror'
  <1>. DEFINE conflict == {r \in tables.listings : r.agent = a.agent}
  <1>a. /\ \A k \in DOMAIN memory.listings : k = memory.listings[k].agent
        /\ tables.listings = RowsOf(memory.listings)
        /\ \A k \in DOMAIN memory.listings : memory.listings[k] \in ListingRows
    BY DEF StoresMirror, ListingsMirror, Mirrors
  <1>b. conflict = IF a.agent \in DOMAIN memory.listings THEN {memory.listings[a.agent]} ELSE {}
    BY <1>a, RowOfAgent
  <1>c. a.version \in Nat /\ \A k \in DOMAIN memory.listings : memory.listings[k].version \in Nat
    BY <1>a DEF ListingRows
  <1>d. CASE a.agent \in DOMAIN memory.listings /\ memory.listings[a.agent].version > a.version
    <2>1. ~\A r \in conflict : r.version <= a.version
      BY <1>b, <1>c, <1>d
    <2>2. tables' = tables
      BY <2>1 DEF SqlListing
    <2>3. memory' = memory
      BY <1>d DEF MemListing
    <2>. QED  BY <2>2, <2>3, Zenon DEF StoresMirror, StepsMirror, SealsMirror, ListingsMirror, BondsMirror,
                                       HealthMirror, Mirrors
  <1>e. CASE ~(a.agent \in DOMAIN memory.listings /\ memory.listings[a.agent].version > a.version)
    <2>1. \A r \in conflict : r.version <= a.version
      BY <1>b, <1>c, <1>e
    <2>2. tables' = [tables EXCEPT !.listings = (@ \ conflict) \cup {a}]
      BY <2>1 DEF SqlListing
    <2>3. memory' = [memory EXCEPT !.listings = Put(@, a.agent, a)]
      BY <1>e DEF MemListing
    <2>. QED  BY <1>a, <2>2, <2>3, ListingPut
  <1>. QED  BY <1>d, <1>e

LEMMA BondWritten ==
    ASSUME StoresMirror, NEW b \in BondRows, memory' = MemBond(memory, b), tables' = SqlBond(tables, b)
    PROVE  StoresMirror'
  <1>. DEFINE conflict == {r \in tables.bonds : r.agent = b.agent}
              previous == Get(memory.bonds, b.agent)
  <1>1. /\ \A k \in DOMAIN memory.bonds : k = memory.bonds[k].agent
        /\ tables.bonds = RowsOf(memory.bonds)
        /\ \A k \in DOMAIN memory.bonds : memory.bonds[k] \in BondRows
    BY DEF StoresMirror, BondsMirror, Mirrors
  <1>2. conflict = IF b.agent \in DOMAIN memory.bonds THEN {memory.bonds[b.agent]} ELSE {}
    BY <1>1, RowOfAgent
  <1>3. Null \notin BondRows
    BY NullIsNoRow
  <1>4. CASE previous = Null
    <2>1. conflict = {}
      BY <1>1, <1>2, <1>3, <1>4 DEF Get
    <2>2. [b EXCEPT !.slashed = b.slashed \/ (previous # Null /\ previous.slashed)] = b
      BY <1>4 DEF BondRows
    <2>3. [b EXCEPT !.slashed = b.slashed \/ \E r \in conflict : r.slashed] = b
      BY <2>1 DEF BondRows
    <2>4. memory' = [memory EXCEPT !.bonds = Put(@, b.agent, b)]
      BY <1>4, <2>2, Zenon DEF MemBond
    <2>5. tables' = [tables EXCEPT !.bonds = (@ \ conflict) \cup {b}]
      <3>1. \A r \in conflict : r.block <= b.block
        BY <2>1
      <3>. QED  BY <2>3, <3>1, Zenon DEF SqlBond
    <2>. QED  BY <2>4, <2>5, BondPut
  <1>5. CASE previous # Null
    <2>1. previous \in BondRows /\ conflict = {previous}
      BY <1>1, <1>2, <1>5 DEF Get
    <2>2. previous.block \in Int /\ b.block \in Int /\ previous.slashed \in BOOLEAN /\ b.slashed \in BOOLEAN
      BY <2>1 DEF BondRows
    <2>3. CASE previous.block > b.block
      <3>1. ~\A r \in conflict : r.block <= b.block
        BY <2>1, <2>2, <2>3
      <3>2. tables' = tables
        BY <3>1 DEF SqlBond
      <3>3. memory' = memory
        BY <1>5, <2>3 DEF MemBond
      <3>. QED  BY <3>2, <3>3, Zenon DEF StoresMirror, StepsMirror, SealsMirror, ListingsMirror, BondsMirror,
                                         HealthMirror, Mirrors
    <2>4. CASE ~(previous.block > b.block)
      <3>. DEFINE row == [b EXCEPT !.slashed = b.slashed \/ previous.slashed]
      <3>1. \A r \in conflict : r.block <= b.block
        BY <2>1, <2>2, <2>4
      <3>2. (\E r \in conflict : r.slashed) <=> previous.slashed
        BY <2>1, Zenon
      <3>3. tables' = [tables EXCEPT !.bonds = (@ \ conflict) \cup {row}]
        BY <3>1, <3>2 DEF SqlBond
      <3>4. memory' = [memory EXCEPT !.bonds = Put(@, b.agent, row)]
        BY <1>5, <2>4 DEF MemBond
      <3>5. row \in BondRows /\ row.agent = b.agent
        BY <2>2 DEF BondRows
      <3>. HIDE DEF row
      <3>. QED  BY <3>3, <3>4, <3>5, BondPut
    <2>. QED  BY <2>3, <2>4
  <1>. QED  BY <1>4, <1>5

LEMMA HealthWritten ==
    ASSUME StoresMirror, NEW agent \in Agents, NEW ok \in BOOLEAN,
           memory' = MemHealth(memory, agent, ok), tables' = SqlHealth(tables, agent, ok)
    PROVE  StoresMirror'
  <1>. DEFINE conflict == {r \in tables.health : r.agent = agent}
              previous == Get(memory.health, agent)
              failed == IF ok THEN 0 ELSE (IF previous = Null THEN 0 ELSE previous.failures) + 1
              row == [agent |-> agent, ok |-> ok, failures |-> failed]
  <1>1. /\ \A k \in DOMAIN memory.health : k = memory.health[k].agent
        /\ tables.health = RowsOf(memory.health)
        /\ \A k \in DOMAIN memory.health : memory.health[k] \in HealthRows
    BY DEF StoresMirror, HealthMirror, Mirrors
  <1>2. conflict = IF agent \in DOMAIN memory.health THEN {memory.health[agent]} ELSE {}
    BY <1>1, RowOfAgent
  <1>3. Null \notin HealthRows
    BY NullIsNoRow
  <1>4. memory' = [memory EXCEPT !.health = Put(@, agent, row)]
    BY DEF MemHealth
  <1>5. failed = IF ok THEN 0 ELSE IF conflict = {} THEN 1 ELSE (CHOOSE r \in conflict : TRUE).failures + 1
    <2>1. CASE previous = Null
      <3>1. conflict = {}
        BY <1>1, <1>2, <1>3, <2>1 DEF Get
      <3>. QED  BY <2>1, <3>1
    <2>2. CASE previous # Null
      <3>1. conflict = {previous}
        BY <1>2, <2>2 DEF Get
      <3>2. (CHOOSE r \in conflict : TRUE) = previous
        BY <3>1
      <3>. QED  BY <2>2, <3>1, <3>2
    <2>. QED  BY <2>1, <2>2
  <1>6. tables' = [tables EXCEPT !.health = (@ \ conflict) \cup {row}]
    BY <1>5 DEF SqlHealth
  <1>7. row \in HealthRows
    <2>1. previous # Null => previous.failures \in Nat
      BY <1>1 DEF Get, HealthRows
    <2>. QED  BY <2>1 DEF HealthRows
  <1>8. row.agent = agent
    OBVIOUS
  <1>. HIDE DEF row
  <1>. QED  BY <1>4, <1>6, <1>7, <1>8, HealthPut

LEMMA ListingWithdrawn ==
    ASSUME StoresMirror, NEW agent \in Agents, NEW block \in 0 .. MaxBlocks,
           memory' = MemDeactivate(memory, agent, block), tables' = SqlDeactivate(tables, agent, block)
    PROVE  StoresMirror'
  <1>. DEFINE Off(r) == [r EXCEPT !.active = FALSE, !.block = block]
  <1>1. /\ \A k \in DOMAIN memory.listings : k = memory.listings[k].agent
        /\ tables.listings = RowsOf(memory.listings)
        /\ \A k \in DOMAIN memory.listings : memory.listings[k] \in ListingRows
    BY DEF StoresMirror, ListingsMirror, Mirrors
  <1>2. tables' = [tables EXCEPT !.listings = {IF r.agent = agent THEN Off(r) ELSE r : r \in @}]
    BY DEF SqlDeactivate
  <1>3. CASE agent \notin DOMAIN memory.listings
    <2>1. memory' = memory
      BY <1>3 DEF MemDeactivate
    <2>2. \A r \in tables.listings : r.agent # agent
      BY <1>1, <1>3 DEF RowsOf
    <2>3. {IF r.agent = agent THEN Off(r) ELSE r : r \in tables.listings} = tables.listings
      BY <2>2
    <2>4. tables' = [tables EXCEPT !.listings = tables.listings]
      BY <1>2, <2>3
    <2>5. /\ DOMAIN tables' = TableFields /\ tables'.cursor = tables.cursor
          /\ tables'.steps = tables.steps /\ tables'.seals = tables.seals
          /\ tables'.listings = tables.listings /\ tables'.bonds = tables.bonds
          /\ tables'.health = tables.health
      BY <2>4 DEF StoresMirror, TableFields
    <2>. QED  BY <2>1, <2>5, Zenon DEF StoresMirror, StepsMirror, SealsMirror, ListingsMirror, BondsMirror,
                                       HealthMirror, Mirrors
  <1>4. CASE agent \in DOMAIN memory.listings
    <2>. DEFINE row == Off(memory.listings[agent])
    <2>1. row \in ListingRows /\ row.agent = agent
      BY <1>1, <1>4 DEF ListingRows
    <2>2. memory' = [memory EXCEPT !.listings = Put(@, agent, row)]
      <3>1. memory' = [memory EXCEPT !.listings[agent] = row]
        BY <1>4, Zenon DEF MemDeactivate
      <3>2. memory' = [memory EXCEPT !.listings = [@ EXCEPT ![agent] = row]]
        BY <3>1
      <3>3. [memory.listings EXCEPT ![agent] = row] = Put(memory.listings, agent, row)
        BY <1>4 DEF Put
      <3>. QED  BY <3>2, <3>3
    <2>3. {IF r.agent = agent THEN Off(r) ELSE r : r \in tables.listings}
             = (tables.listings \ {r \in tables.listings : r.agent = agent}) \cup {row}
      <3>1. /\ memory.listings[agent] \in tables.listings /\ memory.listings[agent].agent = agent
            /\ \A r \in tables.listings : r.agent = agent => r = memory.listings[agent]
        BY <1>1, <1>4 DEF RowsOf
      <3>2. PICK listed : listed = memory.listings[agent]
        OBVIOUS
      <3>. HIDE DEF Off
      <3>. QED  BY <3>1, <3>2
    <2>4. tables' = [tables EXCEPT !.listings = (@ \ {r \in tables.listings : r.agent = agent}) \cup {row}]
      BY <1>2, <2>3
    <2>. HIDE DEF row
    <2>. QED  BY <2>1, <2>2, <2>4, ListingPut
  <1>. QED  BY <1>3, <1>4

\* The greatest and the least of some numbers.
LEMMA MaxIs ==
    ASSUME NEW S \in SUBSET Int, NEW x \in S, \A y \in S : y <= x
    PROVE  Max(S) = x
  <1>1. \E z \in S : \A y \in S : z >= y
    OBVIOUS
  <1>2. Max(S) \in S /\ \A y \in S : Max(S) >= y
    BY <1>1, Zenon DEF Max
  <1>3. PICK z : z = Max(S)
    OBVIOUS
  <1>4. z \in S /\ \A y \in S : z >= y
    BY <1>2, <1>3
  <1>5. z = x
    BY <1>4
  <1>. QED  BY <1>3, <1>5

LEMMA MinIs ==
    ASSUME NEW S \in SUBSET Int, NEW x \in S, \A y \in S : x <= y
    PROVE  Min(S) = x
  <1>1. \E z \in S : \A y \in S : z <= y
    OBVIOUS
  <1>2. Min(S) \in S /\ \A y \in S : Min(S) <= y
    BY <1>1, Zenon DEF Min
  <1>3. PICK z : z = Min(S)
    OBVIOUS
  <1>4. z \in S /\ \A y \in S : z <= y
    BY <1>2, <1>3
  <1>5. z = x
    BY <1>4
  <1>. QED  BY <1>3, <1>5

LEMMA MaxOfTwo ==
    ASSUME NEW a \in Int, NEW b \in Int
    PROVE  Max({a, b}) = IF a >= b THEN a ELSE b
  <1>1. CASE a >= b
    BY <1>1, MaxIs
  <1>2. CASE ~(a >= b)
    BY <1>2, MaxIs
  <1>. QED  BY <1>1, <1>2

LEMMA EventWritten ==
    ASSUME StoresMirror, NEW e \in ContractEvents,
           memory' = WriteMemory(memory, e), tables' = WriteTables(tables, e)
    PROVE  StoresMirror'
  <1>1. CASE e.kind = "step"
    <2>1. memory' = MemStep(memory, Row(e)) /\ tables' = SqlStep(tables, Row(e))
      BY <1>1 DEF WriteMemory, WriteTables
    <2>. QED  BY <1>1, <2>1, StepRow, StepWritten
  <1>2. CASE e.kind = "seal"
    <2>1. memory' = MemSeal(memory, Row(e)) /\ tables' = SqlSeal(tables, Row(e))
      BY <1>2 DEF WriteMemory, WriteTables
    <2>. QED  BY <1>2, <2>1, SealRow, SealWritten
  <1>3. CASE e.kind = "list"
    <2>1. memory' = MemListing(memory, Row(e)) /\ tables' = SqlListing(tables, Row(e))
      BY <1>3 DEF WriteMemory, WriteTables
    <2>. QED  BY <1>3, <2>1, ListingRow, ListingWritten
  <1>4. CASE e.kind = "unlist"
    <2>1. /\ memory' = MemDeactivate(memory, e.agent, e.block)
          /\ tables' = SqlDeactivate(tables, e.agent, e.block)
      BY <1>4 DEF WriteMemory, WriteTables
    <2>. QED  BY <1>4, <2>1, EventKinds, ListingWithdrawn
  <1>5. CASE e.kind = "bond"
    <2>1. memory' = MemBond(memory, Row(e)) /\ tables' = SqlBond(tables, Row(e))
      BY <1>5 DEF WriteMemory, WriteTables
    <2>. QED  BY <1>5, <2>1, BondRow, BondWritten
  <1>. QED  BY <1>1, <1>2, <1>3, <1>4, <1>5, EventKinds

LEMMA RolledBackAlike ==
    ASSUME StoresMirror, NEW block \in Nat,
           memory' = MemRollback(memory, block), tables' = SqlRollback(tables, block)
    PROVE  StoresMirror'
  <1>1. /\ DOMAIN memory' = MemoryFields /\ DOMAIN tables' = TableFields
        /\ memory'.steps = Without(memory.steps, Stale(memory.steps, block))
        /\ tables'.steps = {r \in tables.steps : r.block < block}
        /\ memory'.seals = Without(memory.seals, Stale(memory.seals, block))
        /\ tables'.seals = {r \in tables.seals : r.block < block}
        /\ memory'.listings = Without(memory.listings, Stale(memory.listings, block))
        /\ tables'.listings = {r \in tables.listings : r.block < block}
        /\ memory'.bonds = Without(memory.bonds, Stale(memory.bonds, block))
        /\ tables'.bonds = {r \in tables.bonds : r.block < block}
        /\ memory'.health = memory.health /\ tables'.health = tables.health
        /\ memory'.cursor = (IF memory.cursor >= block THEN (IF block > 0 THEN block - 1 ELSE 0)
                             ELSE memory.cursor)
        /\ tables'.cursor = (IF tables.cursor >= block THEN Max({block - 1, 0}) ELSE tables.cursor)
    BY DEF StoresMirror, TableFields, MemoryFields, MemRollback, SqlRollback
  <1>2. Max({block - 1, 0}) = IF block > 0 THEN block - 1 ELSE 0
    BY MaxOfTwo
  <1>3. memory.cursor \in Nat /\ tables.cursor = memory.cursor
    BY DEF StoresMirror
  <1>4. memory'.cursor \in Nat /\ tables'.cursor = memory'.cursor
    BY <1>1, <1>2, <1>3
  <1>5. StepsMirror'
    <2>. DEFINE map == memory.steps
                kept == Without(map, Stale(map, block))
    <2>1. /\ tables.steps = RowsOf(map) /\ IsFiniteSet(DOMAIN map)
          /\ \A k \in DOMAIN map : map[k] \in ReceiptRows /\ k = <<map[k].run, map[k].index>>
      BY DEF StoresMirror, StepsMirror, Mirrors
    <2>2. \A k \in DOMAIN map : map[k].block \in Int
      BY <2>1 DEF ReceiptRows
    <2>. HIDE DEF map
    <2>3. /\ DOMAIN kept \subseteq DOMAIN map /\ \A k \in DOMAIN kept : kept[k] = map[k]
          /\ RowsOf(kept) = {r \in RowsOf(map) : r.block < block}
      BY <2>2, WithoutIs
    <2>. HIDE DEF kept
    <2>4. IsFiniteSet(DOMAIN kept)
      BY <2>1, <2>3, FS_Subset
    <2>5. \A k \in DOMAIN kept : kept[k] \in ReceiptRows /\ k = <<kept[k].run, kept[k].index>>
      BY <2>1, <2>3
    <2>6. memory'.steps = kept /\ tables'.steps = RowsOf(kept)
      BY <1>1, <2>1, <2>3, Zenon DEF map, kept
    <2>. QED  BY <2>4, <2>5, <2>6, Zenon DEF StepsMirror, Mirrors
  <1>6. SealsMirror'
    <2>. DEFINE map == memory.seals
                kept == Without(map, Stale(map, block))
    <2>1. /\ tables.seals = RowsOf(map) /\ IsFiniteSet(DOMAIN map)
          /\ \A k \in DOMAIN map : map[k] \in SealRows /\ k = map[k].run
      BY DEF StoresMirror, SealsMirror, Mirrors
    <2>2. \A k \in DOMAIN map : map[k].block \in Int
      BY <2>1 DEF SealRows
    <2>. HIDE DEF map
    <2>3. /\ DOMAIN kept \subseteq DOMAIN map /\ \A k \in DOMAIN kept : kept[k] = map[k]
          /\ RowsOf(kept) = {r \in RowsOf(map) : r.block < block}
      BY <2>2, WithoutIs
    <2>. HIDE DEF kept
    <2>4. IsFiniteSet(DOMAIN kept)
      BY <2>1, <2>3, FS_Subset
    <2>5. \A k \in DOMAIN kept : kept[k] \in SealRows /\ k = kept[k].run
      BY <2>1, <2>3
    <2>6. memory'.seals = kept /\ tables'.seals = RowsOf(kept)
      BY <1>1, <2>1, <2>3, Zenon DEF map, kept
    <2>. QED  BY <2>4, <2>5, <2>6, Zenon DEF SealsMirror, Mirrors
  <1>7. ListingsMirror'
    <2>. DEFINE map == memory.listings
                kept == Without(map, Stale(map, block))
    <2>1. /\ tables.listings = RowsOf(map) /\ IsFiniteSet(DOMAIN map)
          /\ \A k \in DOMAIN map : map[k] \in ListingRows /\ k = map[k].agent
      BY DEF StoresMirror, ListingsMirror, Mirrors
    <2>2. \A k \in DOMAIN map : map[k].block \in Int
      BY <2>1 DEF ListingRows
    <2>. HIDE DEF map
    <2>3. /\ DOMAIN kept \subseteq DOMAIN map /\ \A k \in DOMAIN kept : kept[k] = map[k]
          /\ RowsOf(kept) = {r \in RowsOf(map) : r.block < block}
      BY <2>2, WithoutIs
    <2>. HIDE DEF kept
    <2>4. IsFiniteSet(DOMAIN kept)
      BY <2>1, <2>3, FS_Subset
    <2>5. \A k \in DOMAIN kept : kept[k] \in ListingRows /\ k = kept[k].agent
      BY <2>1, <2>3
    <2>6. memory'.listings = kept /\ tables'.listings = RowsOf(kept)
      BY <1>1, <2>1, <2>3, Zenon DEF map, kept
    <2>. QED  BY <2>4, <2>5, <2>6, Zenon DEF ListingsMirror, Mirrors
  <1>8. BondsMirror'
    <2>. DEFINE map == memory.bonds
                kept == Without(map, Stale(map, block))
    <2>1. /\ tables.bonds = RowsOf(map)
          /\ \A k \in DOMAIN map : map[k] \in BondRows /\ k = map[k].agent
      BY DEF StoresMirror, BondsMirror, Mirrors
    <2>2. \A k \in DOMAIN map : map[k].block \in Int
      BY <2>1 DEF BondRows
    <2>. HIDE DEF map
    <2>3. /\ DOMAIN kept \subseteq DOMAIN map /\ \A k \in DOMAIN kept : kept[k] = map[k]
          /\ RowsOf(kept) = {r \in RowsOf(map) : r.block < block}
      BY <2>2, WithoutIs
    <2>. HIDE DEF kept
    <2>5. \A k \in DOMAIN kept : kept[k] \in BondRows /\ k = kept[k].agent
      BY <2>1, <2>3
    <2>6. memory'.bonds = kept /\ tables'.bonds = RowsOf(kept)
      BY <1>1, <2>1, <2>3, Zenon DEF map, kept
    <2>. QED  BY <2>5, <2>6, Zenon DEF BondsMirror, Mirrors
  <1>9. HealthMirror'
    BY <1>1, Zenon DEF StoresMirror, HealthMirror, Mirrors
  <1>. QED  BY <1>1, <1>4, <1>5, <1>6, <1>7, <1>8, <1>9, Zenon DEF StoresMirror

-----------------------------------------------------------------------------
\* The log.
LEMMA FiniteImage ==
    ASSUME NEW S, IsFiniteSet(S), NEW f
    PROVE  IsFiniteSet({f[x] : x \in S})
  <1>. DEFINE g == [x \in S |-> f[x]]
              T == {f[x] : x \in S}
  <1>1. g \in Surjection(S, T)
    BY DEF Surjection
  <1>. HIDE DEF g, T
  <1>. QED  BY <1>1, FS_Surjection DEF T

LEMMA ReceiptsFinite ==
    ASSUME NEW events \in Seq(ContractEvents), NEW run
    PROVE  /\ IsFiniteSet({events[k] : k \in Receipts(events, run)})
           /\ \A s \in {events[k] : k \in Receipts(events, run)} :
                 s \in ContractEvents /\ s.kind = "step" /\ s.run = run
  <1>1. DOMAIN events = 1 .. Len(events) /\ Len(events) \in Nat
    OBVIOUS
  <1>2. IsFiniteSet(DOMAIN events)
    BY <1>1, FS_Interval
  <1>3. IsFiniteSet(Receipts(events, run))
    BY <1>2, FS_Subset DEF Receipts
  <1>4. IsFiniteSet({events[k] : k \in Receipts(events, run)})
    BY <1>3, FiniteImage
  <1>5. \A k \in Receipts(events, run) : events[k] \in ContractEvents /\ events[k].kind = "step" /\ events[k].run = run
    BY DEF Receipts
  <1>. QED  BY <1>4, <1>5

LEMMA StepFields ==
    ASSUME NEW e \in ContractEvents, e.kind = "step"
    PROVE  /\ e.run \in Runs /\ e.index \in Nat /\ e.agent \in Agents /\ e.status \in Statuses
           /\ e.attested \in BOOLEAN /\ e.block \in 0 .. MaxBlocks
  BY DEF ContractEvents

LEMMA FoldTyped ==
    ASSUME NEW events \in Seq(ContractEvents), NEW run
    PROVE  FoldOf(events, run) \in Roots
  <1>. DEFINE steps == {events[k] : k \in Receipts(events, run)}
              n == Cardinality(steps)
              At(i) == CHOOSE s \in steps : s.index = i - 1
              Leaves == [agent : Agents, status : Statuses, attested : BOOLEAN]
  <1>1. IsFiniteSet(steps) /\ \A s \in steps : s \in ContractEvents /\ s.kind = "step"
    BY ReceiptsFinite
  <1>2. n \in Nat
    BY <1>1, FS_CardinalityType
  <1>. HIDE DEF steps, n
  <1>3. CASE steps = {} \/ {s.index : s \in steps} # 0 .. n - 1
    BY <1>3 DEF FoldOf, Fold, Roots, steps, n
  <1>4. CASE ~(steps = {} \/ {s.index : s \in steps} # 0 .. n - 1)
    <2>1. ASSUME NEW i \in 1 .. n PROVE Receipt(At(i)) \in Leaves
      <3>1. i - 1 \in 0 .. n - 1 /\ {s.index : s \in steps} = 0 .. n - 1
        BY <1>2, <1>4
      <3>2. \E s \in steps : s.index = i - 1
        BY <3>1, Zenon
      <3>3. At(i) \in steps
        BY <3>2
      <3>4. PICK s : s = At(i)
        OBVIOUS
      <3>5. s \in ContractEvents /\ s.kind = "step"
        BY <1>1, <3>3, <3>4
      <3>6. s.agent \in Agents /\ s.status \in Statuses /\ s.attested \in BOOLEAN
        BY <3>5, StepFields
      <3>. QED  BY <3>4, <3>6 DEF Receipt
    <2>. HIDE DEF At
    <2>2. [i \in 1 .. n |-> Receipt(At(i))] \in [1 .. n -> Leaves]
      BY <2>1
    <2>3. [i \in 1 .. n |-> Receipt(At(i))] \in Seq(Leaves)
      BY <1>2, <2>2
    <2>4. FoldOf(events, run) = [i \in 1 .. n |-> Receipt(At(i))]
      BY <1>4, Zenon DEF FoldOf, Fold, At, n, steps
    <2>. QED  BY <2>3, <2>4 DEF Roots
  <1>. QED  BY <1>3, <1>4

LEMMA PlacedTyped ==
    ASSUME NEW before \in Seq(ContractEvents), NEW e \in ContractEvents, NEW block \in 0 .. MaxBlocks
    PROVE  /\ Placed(before, e, block) \in ContractEvents /\ Placed(before, e, block).block = block
           /\ Placed(before, e, block).kind = e.kind
  <1>1. PICK root : root = FoldOf(before, e.run)
    OBVIOUS
  <1>2. root \in Roots
    BY <1>1, FoldTyped
  <1>3. CASE e.kind = "seal"
    <2>1. e \in [kind : {"seal"}, run : Runs, root : Roots, outcome : Statuses, block : 0 .. MaxBlocks]
      BY <1>3 DEF ContractEvents
    <2>2. Placed(before, e, block) = [e EXCEPT !.block = block, !.root = root]
      BY <1>1, <1>3 DEF Placed
    <2>3. [e EXCEPT !.block = block, !.root = root]
             \in [kind : {"seal"}, run : Runs, root : Roots, outcome : Statuses, block : 0 .. MaxBlocks]
      BY <1>2, <2>1
    <2>. QED  BY <2>1, <2>2, <2>3 DEF ContractEvents
  <1>4. CASE e.kind # "seal"
    <2>1. Placed(before, e, block) = [e EXCEPT !.block = block]
      BY <1>4 DEF Placed
    <2>. QED  BY <2>1 DEF ContractEvents
  <1>. QED  BY <1>3, <1>4

LEMMA PlaceIs ==
    ASSUME NEW before \in Seq(ContractEvents), NEW events \in Seq(ContractEvents), NEW block \in 0 .. MaxBlocks
    PROVE  /\ Place(before, events, block) \in Seq(ContractEvents)
           /\ Len(Place(before, events, block)) = Len(before) + Len(events)
           /\ \A k \in DOMAIN before : Place(before, events, block)[k] = before[k]
           /\ \A k \in DOMAIN events :
                 Place(before, events, block)[Len(before) + k]
                    = Placed(before \o SubSeq(events, 1, k - 1), events[k], block)
  <1>. DEFINE New(k) == Placed(before \o SubSeq(events, 1, k - 1), events[k], block)
              news == [k \in DOMAIN events |-> New(k)]
  <1>1. ASSUME NEW k \in DOMAIN events PROVE New(k) \in ContractEvents
    <2>1. SubSeq(events, 1, k - 1) \in Seq(ContractEvents)
      OBVIOUS
    <2>2. before \o SubSeq(events, 1, k - 1) \in Seq(ContractEvents)
      BY <2>1
    <2>3. events[k] \in ContractEvents
      OBVIOUS
    <2>. QED  BY <2>2, <2>3, PlacedTyped
  <1>. HIDE DEF New
  <1>2. DOMAIN events = 1 .. Len(events) /\ Len(events) \in Nat
    OBVIOUS
  <1>3. news \in Seq(ContractEvents) /\ Len(news) = Len(events)
    BY <1>1, <1>2
  <1>4. \A k \in DOMAIN events : news[k] = New(k)
    OBVIOUS
  <1>. HIDE DEF news
  <1>5. Place(before, events, block) = before \o news
    BY Zenon DEF Place, news, New
  <1>6. \A k \in DOMAIN events : (before \o news)[Len(before) + k] = news[k]
    BY <1>2, <1>3
  <1>7. \A k \in DOMAIN before : (before \o news)[k] = before[k]
    BY <1>3
  <1>8. (before \o news) \in Seq(ContractEvents) /\ Len(before \o news) = Len(before) + Len(events)
    BY <1>3
  <1>. QED  BY <1>4, <1>5, <1>6, <1>7, <1>8, Zenon DEF New

LEMMA BelowIs ==
    ASSUME log \in Seq(ContractEvents), NEW block
    PROVE  Below(block) \in 0 .. Len(log)
  <1>1. DOMAIN log = 1 .. Len(log) /\ Len(log) \in Nat
    OBVIOUS
  <1>2. IsFiniteSet(1 .. Len(log)) /\ Cardinality(1 .. Len(log)) = Len(log)
    BY <1>1, FS_Interval
  <1>3. {k \in DOMAIN log : log[k].block < block} \in SUBSET (1 .. Len(log))
    BY <1>1
  <1>4. PICK below : below = {k \in DOMAIN log : log[k].block < block}
    OBVIOUS
  <1>5. IsFiniteSet(below) /\ Cardinality(below) <= Len(log)
    BY <1>2, <1>3, <1>4, FS_Subset
  <1>6. Cardinality(below) \in Nat
    BY <1>5, FS_CardinalityType
  <1>. QED  BY <1>1, <1>4, <1>5, <1>6 DEF Below

-----------------------------------------------------------------------------
\* A finite set that R orders can be laid out in a row.
LEMMA Rank ==
    ASSUME NEW S, IsFiniteSet(S), NEW R,
           \A a \in S : <<a, a>> \notin R,
           \A a, b, c \in S : <<a, b>> \in R /\ <<b, c>> \in R => <<a, c>> \in R,
           \A a, b \in S : a # b => <<a, b>> \in R \/ <<b, a>> \in R
    PROVE  \E rank \in Bijection(S, 1 .. Cardinality(S)) :
               \A a, b \in S : rank[a] < rank[b] => <<a, b>> \in R
  <1>. DEFINE Under(s) == {t \in S : <<t, s>> \in R}
              n == Cardinality(S)
              rank == [s \in S |-> Cardinality(Under(s)) + 1]
  <1>1. n \in Nat
    BY FS_CardinalityType
  <1>2. ASSUME NEW s \in S
        PROVE  IsFiniteSet(Under(s)) /\ Cardinality(Under(s)) \in Nat /\ Cardinality(Under(s)) + 1 <= n
    <2>1. Under(s) \in SUBSET S /\ s \notin Under(s)
      OBVIOUS
    <2>2. IsFiniteSet(Under(s)) /\ Cardinality(Under(s)) <= n /\ (n = Cardinality(Under(s)) => S = Under(s))
      BY <2>1, FS_Subset
    <2>3. Cardinality(Under(s)) \in Nat
      BY <2>2, FS_CardinalityType
    <2>. QED  BY <1>1, <2>1, <2>2, <2>3
  <1>3. ASSUME NEW a \in S, NEW b \in S, <<a, b>> \in R
        PROVE  Cardinality(Under(a)) < Cardinality(Under(b))
    <2>1. Under(a) \in SUBSET Under(b) /\ a \in Under(b) /\ a \notin Under(a)
      BY <1>3
    <2>2. PICK A, B : A = Under(a) /\ B = Under(b)
      OBVIOUS
    <2>3. IsFiniteSet(A) /\ IsFiniteSet(B) /\ Cardinality(A) \in Nat /\ Cardinality(B) \in Nat
      BY <1>2, <2>2
    <2>4. A \in SUBSET B /\ A # B
      BY <2>1, <2>2
    <2>5. Cardinality(A) <= Cardinality(B) /\ (Cardinality(B) = Cardinality(A) => B = A)
      BY <2>3, <2>4, FS_Subset
    <2>. QED  BY <2>2, <2>3, <2>4, <2>5
  <1>. HIDE DEF Under, n
  <1>4. rank \in [S -> 1 .. n]
    BY <1>1, <1>2
  <1>5. ASSUME NEW a \in S, NEW b \in S, a # b PROVE rank[a] # rank[b]
    <2>1. Cardinality(Under(a)) \in Nat /\ Cardinality(Under(b)) \in Nat
      BY <1>2
    <2>2. Cardinality(Under(a)) < Cardinality(Under(b)) \/ Cardinality(Under(b)) < Cardinality(Under(a))
      BY <1>3, <1>5
    <2>. QED  BY <2>1, <2>2
  <1>6. rank \in Injection(S, 1 .. n)
    BY <1>4, <1>5, Zenon DEF Injection, IsInjective
  <1>7. IsFiniteSet(1 .. n) /\ Cardinality(1 .. n) = n
    BY <1>1, FS_Interval
  <1>8. rank \in Surjection(S, 1 .. n)
    BY <1>6, <1>7, FS_Injection DEF n
  <1>9. \A a, b \in S : rank[a] < rank[b] => <<a, b>> \in R
    <2>. SUFFICES ASSUME NEW a \in S, NEW b \in S, rank[a] < rank[b] PROVE <<a, b>> \in R
      OBVIOUS
    <2>1. Cardinality(Under(a)) \in Nat /\ Cardinality(Under(b)) \in Nat
      BY <1>2
    <2>2. Cardinality(Under(a)) < Cardinality(Under(b))
      BY <2>1
    <2>3. a # b
      BY <2>1, <2>2
    <2>4. <<b, a>> \notin R
      BY <1>3, <2>1, <2>2
    <2>. QED  BY <2>3, <2>4
  <1>. HIDE DEF rank
  <1>. QED  BY <1>6, <1>8, <1>9, Zenon DEF Bijection, n

LEMMA CanBeSorted ==
    ASSUME NEW S, IsFiniteSet(S), NEW R,
           \A a \in S : <<a, a>> \notin R,
           \A a, b, c \in S : <<a, b>> \in R /\ <<b, c>> \in R => <<a, c>> \in R,
           \A a, b \in S : a # b => <<a, b>> \in R \/ <<b, a>> \in R
    PROVE  \E seq \in SetToSeqs(S) : \A i, j \in DOMAIN seq : i < j => <<seq[i], seq[j]>> \in R
  <1>. DEFINE n == Cardinality(S)
  <1>1. n \in Nat
    BY FS_CardinalityType
  <1>2. PICK rank \in Bijection(S, 1 .. n) : \A a, b \in S : rank[a] < rank[b] => <<a, b>> \in R
    BY Rank
  <1>3. rank \in [S -> 1 .. n] /\ \A i \in 1 .. n : \E s \in S : rank[s] = i
    BY <1>2 DEF Bijection, Injection, Surjection
  <1>. DEFINE At(i) == CHOOSE s \in S : rank[s] = i
              seq == [i \in 1 .. n |-> At(i)]
  <1>4. ASSUME NEW i \in 1 .. n PROVE At(i) \in S /\ rank[At(i)] = i
    BY <1>3
  <1>. HIDE DEF At, n
  <1>5. seq \in [1 .. n -> S] /\ \A i \in 1 .. n : rank[seq[i]] = i
    BY <1>4
  <1>6. \A i, j \in 1 .. n : i # j => seq[i] # seq[j]
    BY <1>5
  <1>7. \A i, j \in 1 .. n : i < j => <<seq[i], seq[j]>> \in R
    BY <1>2, <1>5
  <1>8. DOMAIN seq = 1 .. n
    BY <1>5
  <1>. HIDE DEF seq
  <1>9. seq \in SetToSeqs(S)
    BY <1>5, <1>6 DEF SetToSeqs, n
  <1>. QED  BY <1>7, <1>8, <1>9

\* What is laid out is the set.
LEMMA SeqOfSet ==
    ASSUME NEW S, IsFiniteSet(S), NEW seq \in SetToSeqs(S)
    PROVE  /\ seq \in Seq(S) /\ Len(seq) = Cardinality(S)
           /\ {seq[i] : i \in DOMAIN seq} = S
  <1>. DEFINE n == Cardinality(S)
  <1>1. n \in Nat
    BY FS_CardinalityType
  <1>2. seq \in [1 .. n -> S] /\ \A i, j \in 1 .. n : i # j => seq[i] # seq[j]
    BY DEF SetToSeqs
  <1>3. IsFiniteSet(1 .. n) /\ Cardinality(1 .. n) = n
    BY <1>1, FS_Interval
  <1>4. seq \in Injection(1 .. n, S)
    BY <1>2, Zenon DEF Injection, IsInjective
  <1>5. seq \in Surjection(1 .. n, S)
    BY <1>3, <1>4, FS_Injection
  <1>6. \A s \in S : \E i \in 1 .. n : seq[i] = s
    BY <1>5 DEF Surjection
  <1>. HIDE DEF n
  <1>7. seq \in Seq(S) /\ Len(seq) = n /\ DOMAIN seq = 1 .. n
    BY <1>1, <1>2
  <1>. QED  BY <1>2, <1>6, <1>7 DEF n

LEMMA SortedByIndex ==
    ASSUME NEW S \in SUBSET ReceiptRows, IsFiniteSet(S), \A a, b \in S : a.index = b.index => a = b
    PROVE  LET seq == Sorted(S, LAMBDA a, b : a.index < b.index)
           IN  seq \in Seq(S) /\ Len(seq) = Cardinality(S) /\ {seq[i] : i \in DOMAIN seq} = S
  <1>. DEFINE R == {p \in S \X S : p[1].index < p[2].index}
              seq == Sorted(S, LAMBDA a, b : a.index < b.index)
  <1>1. \A s \in S : s.index \in Nat
    BY DEF ReceiptRows
  <1>2. \A a, b \in S : <<a, b>> \in R <=> a.index < b.index
    OBVIOUS
  <1>. HIDE DEF R
  <1>3. /\ \A a \in S : <<a, a>> \notin R
        /\ \A a, b, c \in S : <<a, b>> \in R /\ <<b, c>> \in R => <<a, c>> \in R
        /\ \A a, b \in S : a # b => <<a, b>> \in R \/ <<b, a>> \in R
    BY <1>1, <1>2
  <1>4. PICK s \in SetToSeqs(S) : \A i, j \in DOMAIN s : i < j => <<s[i], s[j]>> \in R
    BY <1>3, CanBeSorted
  <1>5. \A i \in DOMAIN s : s[i] \in S
    BY SeqOfSet
  <1>6. \A i, j \in DOMAIN s : i < j => s[i].index < s[j].index
    BY <1>2, <1>4, <1>5
  <1>7. \E t \in SetToSeqs(S) : \A i, j \in DOMAIN t : i < j => t[i].index < t[j].index
    BY <1>6
  <1>8. seq \in SetToSeqs(S)
    BY <1>7, Zenon DEF Sorted
  <1>. HIDE DEF seq
  <1>9. seq \in Seq(S) /\ Len(seq) = Cardinality(S) /\ {seq[i] : i \in DOMAIN seq} = S
    BY <1>8, SeqOfSet
  <1>. QED  BY <1>9 DEF seq

LEMMA SortedListings ==
    ASSUME NEW S \in SUBSET ListingRows, IsFiniteSet(S), \A a, b \in S : a.agent = b.agent => a = b
    PROVE  Sorted(S, Before) \in Seq(S) /\ {Sorted(S, Before)[i] : i \in DOMAIN Sorted(S, Before)} = S
  <1>1. ASSUME NEW s \in S PROVE s.agent \in Nat /\ s.block \in Nat
    <2>1. s.agent \in Agents /\ s.block \in 0 .. MaxBlocks
      BY DEF ListingRows
    <2>2. s.agent \in Nat
      BY <2>1, AgentsAreNumbers
    <2>3. s.block \in Nat
      BY <2>1
    <2>. QED  BY <2>2, <2>3
  <1>. DEFINE R == {p \in S \X S : Before(p[1], p[2])}
              seq == Sorted(S, Before)
  <1>2. \A a, b \in S : <<a, b>> \in R <=> a.block > b.block \/ (a.block = b.block /\ a.agent > b.agent)
    BY DEF Before
  <1>. HIDE DEF R
  <1>3. /\ \A a \in S : <<a, a>> \notin R
        /\ \A a, b, c \in S : <<a, b>> \in R /\ <<b, c>> \in R => <<a, c>> \in R
        /\ \A a, b \in S : a # b => <<a, b>> \in R \/ <<b, a>> \in R
    BY <1>1, <1>2
  <1>4. PICK s \in SetToSeqs(S) : \A i, j \in DOMAIN s : i < j => <<s[i], s[j]>> \in R
    BY <1>3, CanBeSorted
  <1>5. \A i \in DOMAIN s : s[i] \in S
    BY SeqOfSet
  <1>6. \A i, j \in DOMAIN s : i < j => Before(s[i], s[j])
    BY <1>2, <1>4, <1>5 DEF Before
  <1>7. \E t \in SetToSeqs(S) : \A i, j \in DOMAIN t : i < j => Before(t[i], t[j])
    BY <1>6, Zenon
  <1>8. seq \in SetToSeqs(S)
    BY <1>7, Zenon DEF Sorted
  <1>. HIDE DEF seq
  <1>9. seq \in Seq(S) /\ {seq[i] : i \in DOMAIN seq} = S
    BY <1>8, SeqOfSet
  <1>. QED  BY <1>9 DEF seq

-----------------------------------------------------------------------------
\* The turns of the keys of a Map.
LEMMA GreatestOfFinite ==
    ASSUME NEW S, IsFiniteSet(S), S # {}, \A s \in S : s \in Nat
    PROVE  Max(S) \in S /\ \A y \in S : y <= Max(S)
  <1>. DEFINE R == {p \in S \X S : p[1] < p[2]}
  <1>1. \A a, b \in S : <<a, b>> \in R <=> a < b
    OBVIOUS
  <1>. HIDE DEF R
  <1>2. \A a \in S : <<a, a>> \notin R
    BY <1>1
  <1>3. /\ \A a, b, c \in S : <<a, b>> \in R /\ <<b, c>> \in R => <<a, c>> \in R
        /\ \A a, b \in S : a # b => <<a, b>> \in R \/ <<b, a>> \in R
    BY <1>1
  <1>4. PICK seq \in SetToSeqs(S) : \A i, j \in DOMAIN seq : i < j => <<seq[i], seq[j]>> \in R
    BY <1>2, <1>3, CanBeSorted
  <1>5. seq \in Seq(S) /\ {seq[i] : i \in DOMAIN seq} = S
    BY SeqOfSet
  <1>6. PICK n : n = Len(seq)
    OBVIOUS
  <1>7. n \in Nat /\ DOMAIN seq = 1 .. n /\ n # 0
    BY <1>5, <1>6
  <1>8. n \in 1 .. n /\ seq[n] \in S
    BY <1>5, <1>7
  <1>9. ASSUME NEW i \in 1 .. n PROVE seq[i] <= seq[n]
    <2>1. PICK x, y : x = seq[i] /\ y = seq[n]
      OBVIOUS
    <2>2. x \in S /\ y \in S /\ x \in Nat /\ y \in Nat
      BY <1>5, <1>7, <1>8, <2>1
    <2>3. CASE i < n
      <3>1. <<x, y>> \in R
        BY <1>4, <1>7, <1>8, <2>1, <2>3
      <3>. QED  BY <1>1, <2>1, <2>2, <3>1
    <2>4. CASE i = n
      BY <2>1, <2>2, <2>4
    <2>. QED  BY <1>7, <2>3, <2>4
  <1>10. PICK most : most = seq[n]
    OBVIOUS
  <1>11. most \in S /\ \A y \in S : y <= most
    BY <1>5, <1>7, <1>8, <1>9, <1>10
  <1>12. S \in SUBSET Int
    OBVIOUS
  <1>13. Max(S) = most
    BY <1>11, <1>12, MaxIs
  <1>. QED  BY <1>11, <1>13

LEMMA LastTurn ==
    ASSUME NEW map, IsFiniteSet(DOMAIN map), NEW turns, HasTurns(turns, map)
    PROVE  /\ Max({0} \cup RowsOf(turns)) \in Nat
           /\ \A k \in DOMAIN map : turns[k] <= Max({0} \cup RowsOf(turns))
  <1>1. turns \in [DOMAIN map -> Nat \ {0}]
    BY DEF HasTurns
  <1>2. RowsOf(turns) = {turns[k] : k \in DOMAIN map}
    BY <1>1 DEF RowsOf
  <1>. DEFINE S == {0} \cup RowsOf(turns)
  <1>3. IsFiniteSet(RowsOf(turns))
    BY <1>2, FiniteImage
  <1>4. IsFiniteSet(S)
    BY <1>3, FS_Singleton, FS_Union
  <1>5. S \in SUBSET Nat /\ S # {} /\ \A k \in DOMAIN map : turns[k] \in S
    BY <1>1, <1>2
  <1>. HIDE DEF S
  <1>6. Max(S) \in S /\ \A y \in S : y <= Max(S)
    BY <1>4, <1>5, GreatestOfFinite
  <1>. QED  BY <1>5, <1>6 DEF S

LEMMA TurnEntered ==
    ASSUME NEW map, IsFiniteSet(DOMAIN map), NEW turns, HasTurns(turns, map), NEW key, NEW row
    PROVE  HasTurns(Enter(turns, key), Put(map, key, row))
  <1>1. turns \in [DOMAIN map -> Nat \ {0}] /\ \A j, k \in DOMAIN map : turns[j] = turns[k] => j = k
    BY DEF HasTurns
  <1>2. DOMAIN Put(map, key, row) = DOMAIN map \cup {key}
    BY DEF Put
  <1>3. CASE key \in DOMAIN map
    <2>1. Enter(turns, key) = turns
      BY <1>1, <1>3 DEF Enter
    <2>2. DOMAIN Put(map, key, row) = DOMAIN map
      BY <1>2, <1>3
    <2>. QED  BY <1>1, <2>1, <2>2, Zenon DEF HasTurns
  <1>4. CASE key \notin DOMAIN map
    <2>1. PICK last : last = Max({0} \cup RowsOf(turns))
      OBVIOUS
    <2>2. last \in Nat /\ \A k \in DOMAIN map : turns[k] <= last
      BY <2>1, LastTurn
    <2>3. Enter(turns, key) = [k \in DOMAIN map \cup {key} |-> IF k = key THEN last + 1 ELSE turns[k]]
      BY <1>1, <1>4, <2>1 DEF Enter, Put
    <2>4. PICK entered : entered = Enter(turns, key)
      OBVIOUS
    <2>5. /\ DOMAIN entered = DOMAIN map \cup {key} /\ entered[key] = last + 1
          /\ \A k \in DOMAIN map : entered[k] = turns[k] /\ turns[k] \in Nat \ {0}
          /\ entered = [k \in DOMAIN map \cup {key} |-> entered[k]]
      BY <1>1, <1>4, <2>3, <2>4
    <2>6. entered \in [DOMAIN map \cup {key} -> Nat \ {0}]
      <3>1. \A k \in DOMAIN map \cup {key} : entered[k] \in Nat \ {0}
        BY <2>2, <2>5
      <3>. QED  BY <2>5, <3>1
    <2>7. \A j, k \in DOMAIN map \cup {key} : entered[j] = entered[k] => j = k
      <3>1. \A k \in DOMAIN map : entered[k] # entered[key]
        BY <2>2, <2>5
      <3>2. \A j, k \in DOMAIN map : entered[j] = entered[k] => j = k
        BY <1>1, <2>5
      <3>. QED  BY <3>1, <3>2, Zenon
    <2>. QED  BY <1>2, <2>4, <2>6, <2>7, Zenon DEF HasTurns
  <1>. QED  BY <1>3, <1>4

LEMMA TurnsLeft ==
    ASSUME NEW map, NEW turns, HasTurns(turns, map), NEW keys
    PROVE  HasTurns(Without(turns, keys), Without(map, keys))
  <1>1. turns \in [DOMAIN map -> Nat \ {0}] /\ \A j, k \in DOMAIN map : turns[j] = turns[k] => j = k
    BY DEF HasTurns
  <1>2. DOMAIN Without(map, keys) = DOMAIN map \ keys
    BY DEF Without
  <1>3. Without(turns, keys) = [k \in DOMAIN map \ keys |-> turns[k]]
    BY <1>1 DEF Without
  <1>. QED  BY <1>1, <1>2, <1>3 DEF HasTurns

LEMMA TurnsStay ==
    ASSUME TurnsAreKept, memory'.steps = memory.steps, memory'.seals = memory.seals,
           memory'.stepTurns = memory.stepTurns, memory'.sealTurns = memory.sealTurns
    PROVE  TurnsAreKept'
  BY Zenon DEF TurnsAreKept, HasTurns

LEMMA TurnsWritten ==
    ASSUME StoresMirror, TurnsAreKept, NEW e \in ContractEvents, memory' = WriteMemory(memory, e)
    PROVE  TurnsAreKept'
  <1>1. DOMAIN memory = MemoryFields /\ IsFiniteSet(DOMAIN memory.steps) /\ IsFiniteSet(DOMAIN memory.seals)
    BY DEF StoresMirror, StepsMirror, SealsMirror
  <1>2. CASE e.kind = "step"
    <2>. DEFINE s == Row(e)
                key == <<s.run, s.index>>
    <2>1. memory' = MemStep(memory, s)
      BY <1>2 DEF WriteMemory
    <2>. HIDE DEF s
    <2>2. /\ memory'.steps = Put(memory.steps, key, s) /\ memory'.stepTurns = Enter(memory.stepTurns, key)
          /\ memory'.seals = memory.seals /\ memory'.sealTurns = memory.sealTurns
      BY <1>1, <2>1 DEF MemStep, MemoryFields, TableFields
    <2>3. HasTurns(memory'.stepTurns, memory'.steps)
      BY <1>1, <2>2, TurnEntered DEF TurnsAreKept
    <2>. QED  BY <2>2, <2>3, Zenon DEF TurnsAreKept
  <1>3. CASE e.kind = "seal"
    <2>. DEFINE s == Row(e)
    <2>1. memory' = MemSeal(memory, s)
      BY <1>3 DEF WriteMemory
    <2>. HIDE DEF s
    <2>2. /\ memory'.seals = Put(memory.seals, s.run, s) /\ memory'.sealTurns = Enter(memory.sealTurns, s.run)
          /\ memory'.steps = memory.steps /\ memory'.stepTurns = memory.stepTurns
      BY <1>1, <2>1 DEF MemSeal, MemoryFields, TableFields
    <2>3. HasTurns(memory'.sealTurns, memory'.seals)
      BY <1>1, <2>2, TurnEntered DEF TurnsAreKept
    <2>. QED  BY <2>2, <2>3, Zenon DEF TurnsAreKept
  <1>4. CASE e.kind \in {"list", "unlist", "bond"}
    <2>1. CASE e.kind = "list"
      <3>1. memory' = MemListing(memory, Row(e))
        BY <2>1 DEF WriteMemory
      <3>. QED  BY <1>1, <3>1, TurnsStay DEF MemListing, MemoryFields, TableFields
    <2>2. CASE e.kind = "unlist"
      <3>1. memory' = MemDeactivate(memory, e.agent, e.block)
        BY <2>2 DEF WriteMemory
      <3>. QED  BY <1>1, <3>1, TurnsStay DEF MemDeactivate, MemoryFields, TableFields
    <2>3. CASE e.kind = "bond"
      <3>1. memory' = MemBond(memory, Row(e))
        BY <2>3 DEF WriteMemory
      <3>. QED  BY <1>1, <3>1, TurnsStay DEF MemBond, MemoryFields, TableFields
    <2>. QED  BY <1>4, <2>1, <2>2, <2>3
  <1>. QED  BY <1>2, <1>3, <1>4, EventKinds

LEMMA TurnsRolledBack ==
    ASSUME StoresMirror, TurnsAreKept, NEW block, memory' = MemRollback(memory, block)
    PROVE  TurnsAreKept'
  <1>1. DOMAIN memory = MemoryFields
    BY DEF StoresMirror
  <1>2. /\ memory'.steps = Without(memory.steps, Stale(memory.steps, block))
        /\ memory'.stepTurns = Without(memory.stepTurns, Stale(memory.steps, block))
        /\ memory'.seals = Without(memory.seals, Stale(memory.seals, block))
        /\ memory'.sealTurns = Without(memory.sealTurns, Stale(memory.seals, block))
    BY <1>1 DEF MemRollback, MemoryFields, TableFields
  <1>3. HasTurns(memory'.stepTurns, memory'.steps) /\ HasTurns(memory'.sealTurns, memory'.seals)
    BY <1>2, TurnsLeft DEF TurnsAreKept
  <1>. QED  BY <1>3, Zenon DEF TurnsAreKept

-----------------------------------------------------------------------------
\* The inductive invariant of the two stores.
LEMMA MirrorInit == ExplorerInit => MirrorInv
  <1>. SUFFICES ASSUME ExplorerInit PROVE MirrorInv
    OBVIOUS
  <1>1. LogIsTyped /\ ProbesAreListed
    BY ExplorerBounds DEF ExplorerInit, LogIsTyped, ProbesAreListed
  <1>2. DOMAIN Empty = {}
    BY DEF Empty
  <1>3. IsFiniteSet(DOMAIN Empty)
    BY <1>2, FS_EmptySet
  <1>4. /\ memory.steps = Empty /\ memory.seals = Empty /\ memory.listings = Empty /\ memory.bonds = Empty
        /\ memory.health = Empty /\ memory.cursor = 0 /\ tables.cursor = 0
        /\ memory.stepTurns = Empty /\ memory.sealTurns = Empty
        /\ tables.steps = {} /\ tables.seals = {} /\ tables.listings = {} /\ tables.bonds = {}
        /\ tables.health = {} /\ DOMAIN memory = MemoryFields /\ DOMAIN tables = TableFields
    BY DEF ExplorerInit, NewMemory, NewTables, TableFields, MemoryFields
  <1>5. RowsOf(Empty) = {}
    BY <1>2 DEF RowsOf
  <1>6. StepsMirror /\ SealsMirror /\ ListingsMirror
    BY <1>2, <1>3, <1>4, <1>5 DEF StepsMirror, SealsMirror, ListingsMirror, Mirrors
  <1>7. BondsMirror /\ HealthMirror
    BY <1>2, <1>4, <1>5 DEF BondsMirror, HealthMirror, Mirrors
  <1>8. TurnsAreKept
    BY <1>2, <1>4 DEF TurnsAreKept, HasTurns, Empty
  <1>. QED  BY <1>1, <1>4, <1>6, <1>7, <1>8 DEF MirrorInv, StoresMirror

LEMMA MirrorStutter ==
    ASSUME StoresMirror, TurnsAreKept, UNCHANGED <<memory, tables>>
    PROVE  StoresMirror' /\ TurnsAreKept'
  <1>1. StoresMirror'
    BY Zenon DEF StoresMirror, StepsMirror, SealsMirror, ListingsMirror, BondsMirror, HealthMirror, Mirrors
  <1>2. TurnsAreKept'
    BY TurnsStay
  <1>. QED  BY <1>1, <1>2

LEMMA MaxBlocksNat == MaxBlocks \in Nat \ {0}
  BY ExplorerBounds

LEMMA ListingsFinite ==
    ASSUME StoresMirror
    PROVE  /\ IsFiniteSet(tables.listings) /\ tables.listings \in SUBSET ListingRows
           /\ \A a, b \in tables.listings : a.agent = b.agent => a = b
  <1>1. /\ IsFiniteSet(DOMAIN memory.listings) /\ tables.listings = RowsOf(memory.listings)
        /\ \A k \in DOMAIN memory.listings : memory.listings[k] \in ListingRows /\ k = memory.listings[k].agent
    BY DEF StoresMirror, ListingsMirror, Mirrors
  <1>2. IsFiniteSet(RowsOf(memory.listings))
    BY <1>1, FiniteImage DEF RowsOf
  <1>. QED  BY <1>1, <1>2 DEF RowsOf

LEMMA AddBlockMirror == ASSUME MirrorInv, AddBlock PROVE MirrorInv'
  <1>1. PICK events \in Blocks : log' = Place(log, events, height + 1)
    BY DEF AddBlock
  <1>2. height + 1 \in 0 .. MaxBlocks /\ height' = height + 1
    BY MaxBlocksNat DEF AddBlock, MirrorInv, LogIsTyped
  <1>3. events \in Seq(ContractEvents) /\ log \in Seq(ContractEvents)
    BY <1>1, BlocksHoldEvents DEF MirrorInv, LogIsTyped
  <1>4. log' \in Seq(ContractEvents) /\ Len(log') = Len(log) + Len(events)
    BY <1>1, <1>2, <1>3, PlaceIs
  <1>5. LogIsTyped'
    <2>1. applied' = applied /\ applied \in 0 .. Len(log)
      BY DEF AddBlock, MirrorInv, LogIsTyped
    <2>2. Len(log) \in Nat /\ Len(events) \in Nat
      BY <1>3
    <2>3. applied' \in 0 .. Len(log')
      BY <1>4, <2>1, <2>2
    <2>. QED  BY <1>2, <1>4, <2>3 DEF LogIsTyped
  <1>6. StoresMirror' /\ TurnsAreKept'
    BY MirrorStutter DEF AddBlock, MirrorInv
  <1>7. ProbesAreListed'
    BY DEF AddBlock, MirrorInv, ProbesAreListed
  <1>. QED  BY <1>5, <1>6, <1>7 DEF MirrorInv

LEMMA IngestMirror == ASSUME MirrorInv, Ingest PROVE MirrorInv'
  <1>1. log \in Seq(ContractEvents) /\ applied \in 0 .. Len(log) /\ applied < Len(log)
    BY DEF Ingest, MirrorInv, LogIsTyped
  <1>2. NextEvent \in ContractEvents
    BY <1>1 DEF NextEvent
  <1>3. StoresMirror' /\ TurnsAreKept'
    BY <1>2, EventWritten, TurnsWritten DEF Ingest, MirrorInv
  <1>4. LogIsTyped'
    <2>1. Len(log) \in Nat
      BY <1>1
    <2>. QED  BY <1>1, <2>1 DEF Ingest, MirrorInv, LogIsTyped
  <1>5. ProbesAreListed'
    BY DEF Ingest, MayFollow, ProbesAreListed
  <1>. QED  BY <1>3, <1>4, <1>5 DEF MirrorInv

LEMMA EndBatchMirror == ASSUME MirrorInv, EndBatch PROVE MirrorInv'
  <1>1. LogIsTyped' /\ ProbesAreListed'
    BY DEF EndBatch, MirrorInv, LogIsTyped, ProbesAreListed, MayFollow
  <1>2. DOMAIN memory = MemoryFields /\ DOMAIN tables = TableFields /\ height \in Nat
    BY MaxBlocksNat DEF MirrorInv, StoresMirror, LogIsTyped
  <1>3. /\ DOMAIN memory' = MemoryFields /\ DOMAIN tables' = TableFields
        /\ memory'.cursor = height /\ tables'.cursor = height
        /\ memory'.steps = memory.steps /\ tables'.steps = tables.steps
        /\ memory'.seals = memory.seals /\ tables'.seals = tables.seals
        /\ memory'.listings = memory.listings /\ tables'.listings = tables.listings
        /\ memory'.bonds = memory.bonds /\ tables'.bonds = tables.bonds
        /\ memory'.health = memory.health /\ tables'.health = tables.health
    BY <1>2 DEF EndBatch, TableFields, MemoryFields
  <1>4. StepsMirror' /\ SealsMirror' /\ ListingsMirror' /\ BondsMirror' /\ HealthMirror'
    BY <1>3, Zenon DEF MirrorInv, StoresMirror, StepsMirror, SealsMirror, ListingsMirror, BondsMirror,
                       HealthMirror, Mirrors
  <1>5. TurnsAreKept'
    <2>1. memory'.stepTurns = memory.stepTurns /\ memory'.sealTurns = memory.sealTurns
      BY <1>2 DEF EndBatch, TableFields, MemoryFields
    <2>. QED  BY <1>3, <2>1, TurnsStay DEF MirrorInv
  <1>. QED  BY <1>1, <1>2, <1>3, <1>4, <1>5 DEF MirrorInv, StoresMirror

LEMMA FailPassMirror == ASSUME MirrorInv, FailPass PROVE MirrorInv'
  <1>1. Below(tables.cursor + 1) \in 0 .. Len(log)
    BY BelowIs DEF MirrorInv, LogIsTyped
  <1>2. LogIsTyped'
    BY <1>1 DEF FailPass, MirrorInv, LogIsTyped
  <1>3. StoresMirror' /\ TurnsAreKept'
    BY MirrorStutter DEF FailPass, MirrorInv
  <1>4. ProbesAreListed'
    BY DEF FailPass, MirrorInv, ProbesAreListed
  <1>. QED  BY <1>2, <1>3, <1>4 DEF MirrorInv

LEMMA RollbackMirror == ASSUME MirrorInv, Rollback PROVE MirrorInv'
  <1>1. PICK below : below = Below(height)
    OBVIOUS
  <1>2. /\ log \in Seq(ContractEvents) /\ applied \in 0 .. Len(log) /\ height \in 0 .. MaxBlocks
        /\ tables.cursor \in Nat /\ height > tables.cursor
    BY DEF Rollback, MirrorInv, LogIsTyped, StoresMirror
  <1>3. below \in 0 .. Len(log)
    BY <1>1, <1>2, BelowIs
  <1>4. log' = SubSeq(log, 1, below) /\ applied' = below /\ height' = height - 1
    BY <1>1 DEF Rollback
  <1>5. log' \in Seq(ContractEvents) /\ Len(log') = below
    BY <1>2, <1>3, <1>4
  <1>6. LogIsTyped'
    BY <1>2, <1>3, <1>4, <1>5, MaxBlocksNat DEF LogIsTyped
  <1>7. height \in Nat
    BY <1>2
  <1>8. StoresMirror' /\ TurnsAreKept'
    BY <1>7, RolledBackAlike, TurnsRolledBack DEF Rollback, MirrorInv
  <1>9. ProbesAreListed'
    BY DEF Rollback, MayFollow, ProbesAreListed
  <1>. QED  BY <1>6, <1>8, <1>9 DEF MirrorInv

LEMMA StartProbesMirror == ASSUME MirrorInv, StartProbes PROVE MirrorInv'
  <1>1. LogIsTyped'
    BY DEF StartProbes, MirrorInv, LogIsTyped
  <1>2. StoresMirror' /\ TurnsAreKept'
    BY MirrorStutter DEF StartProbes, MirrorInv
  <1>3. ProbesAreListed'
    <2>. DEFINE active == {r \in tables.listings : r.active}
                seq == Sorted({r \in tables.listings : TRUE => r.active}, Before)
                page == SqlListings(tables, 100, 0, TRUE)
    <2>1. active \in SUBSET ListingRows /\ IsFiniteSet(active) /\ \A a, b \in active : a.agent = b.agent => a = b
      <3>1. active \in SUBSET tables.listings
        OBVIOUS
      <3>. QED  BY <3>1, ListingsFinite, FS_Subset DEF MirrorInv
    <2>2. {r \in tables.listings : TRUE => r.active} = active
      OBVIOUS
    <2>. HIDE DEF active
    <2>3. seq \in Seq(active) /\ {seq[i] : i \in DOMAIN seq} = active
      BY <2>1, <2>2, SortedListings
    <2>4. page = SubSeq(seq, 1, Min({100, Len(seq)}))
      BY DEF SqlListings, Slice
    <2>. HIDE DEF seq, page
    <2>5. Min({100, Len(seq)}) \in 0 .. Len(seq)
      <3>1. Len(seq) \in Nat
        BY <2>3
      <3>2. Min({100, Len(seq)}) = IF 100 <= Len(seq) THEN 100 ELSE Len(seq)
        <4>1. CASE 100 <= Len(seq)
          BY <3>1, <4>1, MinIs
        <4>2. CASE ~(100 <= Len(seq))
          BY <3>1, <4>2, MinIs
        <4>. QED  BY <4>1, <4>2
      <3>. QED  BY <3>1, <3>2
    <2>6. page \in Seq(active)
      <3>1. PICK m, row : m = Min({100, Len(seq)}) /\ row = seq
        OBVIOUS
      <3>2. row \in Seq(active) /\ m \in 0 .. Len(row) /\ page = SubSeq(row, 1, m)
        BY <2>3, <2>4, <2>5, <3>1
      <3>3. SubSeq(row, 1, m) \in Seq(active)
        BY <3>2
      <3>. QED  BY <3>2, <3>3
    <2>7. ToSet(page) \subseteq active
      BY <2>6 DEF ToSet
    <2>8. probing' = {a.agent : a \in ToSet(page)} /\ tables' = tables
      BY DEF StartProbes, page
    <2>. QED  BY <2>7, <2>8 DEF ProbesAreListed, active
  <1>. QED  BY <1>1, <1>2, <1>3 DEF MirrorInv

LEMMA ProbeAnsweredMirror == ASSUME MirrorInv, ProbeAnswered PROVE MirrorInv'
  <1>1. PICK agent \in probing, response \in Responses :
            /\ memory' = MemHealth(memory, agent, Healthy(response))
            /\ tables' = SqlHealth(tables, agent, Healthy(response))
            /\ probing' = probing \ {agent}
    BY DEF ProbeAnswered
  <1>2. Healthy(response) \in BOOLEAN
    BY DEF Healthy
  <1>3. agent \in Agents
    BY ListingsFinite DEF MirrorInv, ProbesAreListed, ListingRows
  <1>4. StoresMirror'
    <2>1. PICK ok \in BOOLEAN : ok = Healthy(response)
      BY <1>2
    <2>. QED  BY <1>1, <1>3, <2>1, HealthWritten DEF MirrorInv
  <1>5. LogIsTyped'
    BY DEF ProbeAnswered, MirrorInv, LogIsTyped
  <1>6. tables'.listings = tables.listings
    BY <1>1 DEF SqlHealth, MirrorInv, StoresMirror, TableFields
  <1>7. ProbesAreListed'
    BY <1>1, <1>6 DEF MirrorInv, ProbesAreListed
  <1>8. TurnsAreKept'
    <2>1. DOMAIN memory = MemoryFields
      BY DEF MirrorInv, StoresMirror
    <2>. QED  BY <1>1, <2>1, TurnsStay DEF MirrorInv, MemHealth, MemoryFields, TableFields
  <1>. QED  BY <1>4, <1>5, <1>7, <1>8 DEF MirrorInv

LEMMA MirrorNext == MirrorInv /\ [ExplorerNext]_explorerVars => MirrorInv'
  <1>. SUFFICES ASSUME MirrorInv, [ExplorerNext]_explorerVars PROVE MirrorInv'
    OBVIOUS
  <1>1. CASE AskRun \/ AskAgent \/ Query \/ UNCHANGED explorerVars
    <2>1. UNCHANGED <<log, height, applied, memory, tables, probing>>
      BY <1>1 DEF AskRun, AskAgent, Query, explorerVars
    <2>2. StoresMirror' /\ TurnsAreKept'
      BY <2>1, MirrorStutter DEF MirrorInv
    <2>. QED  BY <2>1, <2>2 DEF MirrorInv, LogIsTyped, ProbesAreListed
  <1>. QED  BY <1>1, AddBlockMirror, IngestMirror, EndBatchMirror, FailPassMirror, RollbackMirror,
               StartProbesMirror, ProbeAnsweredMirror DEF ExplorerNext


\* A set of numbers has a least, a bounded one a greatest.
LEMMA LeastOf ==
    ASSUME NEW S \in SUBSET Nat, S # {}
    PROVE  Min(S) \in S /\ \A y \in S : Min(S) <= y
  <1>1. PICK x \in S : \A y \in S : x <= y
    BY LeastNatural
  <1>2. Min(S) = x
    BY <1>1, MinIs
  <1>. QED  BY <1>1, <1>2

LEMMA GreatestOf ==
    ASSUME NEW S \in SUBSET (0 .. MaxBlocks), S # {}
    PROVE  Max(S) \in S /\ \A y \in S : y <= Max(S)
  <1>. DEFINE T == {MaxBlocks - y : y \in S}
  <1>0. MaxBlocks \in Nat
    BY MaxBlocksNat
  <1>a. S \in SUBSET Int
    BY <1>0
  <1>b. \A y \in S : MaxBlocks - y \in Nat
    BY <1>0
  <1>1. T \in SUBSET Nat /\ T # {}
    BY <1>b
  <1>2. PICK t \in T : \A u \in T : t <= u
    BY <1>1, LeastNatural
  <1>3. PICK x \in S : t = MaxBlocks - x
    BY <1>2
  <1>4. \A y \in S : MaxBlocks - y \in T
    OBVIOUS
  <1>5. \A y \in S : y <= x
    BY <1>0, <1>2, <1>3, <1>4
  <1>6. Max(S) = x
    BY <1>a, <1>5, MaxIs
  <1>. QED  BY <1>5, <1>6

\* The blocks of joined rows: the first and the last of the blocks joined.
LEMMA JoinedFirst ==
    ASSUME NEW A \in SUBSET (ReceiptRows \cup {Null}), NEW x \in SealRows \cup {Null}, A # {},
           NEW B, B = {s.block : s \in A \ {Null}} \cup (IF x = Null THEN {} ELSE {x.block}), B # {},
           \A s \in A : s = Null => A = {Null}
    PROVE  FirstBlock(A \X {x}) = Min(B)
  <1>. DEFINE Both(p) == {row.block : row \in {p[1], p[2]} \ {Null}}
              firsts == {Min(Both(p)) : p \in A \X {x}}
  <1>1. B \in SUBSET Nat
    <2>1. \A s \in A \ {Null} : s.block \in 0 .. MaxBlocks
      BY DEF ReceiptRows
    <2>2. x # Null => x.block \in 0 .. MaxBlocks
      BY DEF SealRows
    <2>. QED  BY <2>1, <2>2
  <1>2. Min(B) \in B /\ \A y \in B : Min(B) <= y
    BY <1>1, LeastOf
  <1>3. ASSUME NEW p \in A \X {x} PROVE Both(p) \in SUBSET B /\ Both(p) # {}
    <2>1. PICK s : s \in A /\ p = <<s, x>>
      OBVIOUS
    <2>2. Both(p) = {row.block : row \in {s, x} \ {Null}}
      BY <2>1
    <2>3. \A row \in {s, x} \ {Null} : row.block \in B
      BY <2>1
    <2>4. {s, x} \ {Null} # {}
      <3>1. CASE s = Null
        BY <2>1, <3>1
      <3>2. CASE s # Null
        BY <3>2
      <3>. QED  BY <3>1, <3>2
    <2>. QED  BY <2>2, <2>3, <2>4
  <1>4. \E p \in A \X {x} : Min(B) \in Both(p)
    <2>1. CASE \E s \in A \ {Null} : Min(B) = s.block
      <3>1. PICK s \in A \ {Null} : Min(B) = s.block
        BY <2>1
      <3>2. <<s, x>> \in A \X {x} /\ s \in {s, x} \ {Null}
        OBVIOUS
      <3>3. Both(<<s, x>>) = {row.block : row \in {s, x} \ {Null}}
        OBVIOUS
      <3>4. Min(B) \in Both(<<s, x>>)
        BY <3>1, <3>2, <3>3
      <3>. QED  BY <3>2, <3>4
    <2>2. CASE x # Null /\ Min(B) = x.block
      <3>1. PICK s : s \in A
        OBVIOUS
      <3>2. <<s, x>> \in A \X {x} /\ x \in {s, x} \ {Null}
        BY <2>2, <3>1
      <3>3. Both(<<s, x>>) = {row.block : row \in {s, x} \ {Null}}
        OBVIOUS
      <3>4. Min(B) \in Both(<<s, x>>)
        BY <2>2, <3>2, <3>3
      <3>. QED  BY <3>2, <3>4
    <2>. QED  BY <1>2, <2>1, <2>2
  <1>. HIDE DEF Both
  <1>5. \A p \in A \X {x} : Min(Both(p)) \in Both(p) /\ \A y \in Both(p) : Min(Both(p)) <= y
    BY <1>1, <1>3, LeastOf
  <1>6. \A p \in A \X {x} : Min(Both(p)) \in B
    BY <1>3, <1>5
  <1>7. PICK p \in A \X {x} : Min(B) \in Both(p)
    BY <1>4
  <1>8. Min(Both(p)) = Min(B)
    <2>1. PICK u, v : u = Min(Both(p)) /\ v = Min(B)
      OBVIOUS
    <2>2. u \in Nat /\ v \in Nat /\ u <= v /\ v <= u
      BY <1>1, <1>2, <1>5, <1>6, <1>7, <2>1
    <2>. QED  BY <2>1, <2>2
  <1>9. firsts \in SUBSET Nat /\ Min(B) \in firsts /\ \A y \in firsts : Min(B) <= y
    <2>1. firsts \in SUBSET B
      BY <1>6
    <2>2. Min(B) \in firsts
      BY <1>8
    <2>. HIDE DEF firsts
    <2>. QED  BY <1>1, <1>2, <2>1, <2>2
  <1>10. Min(firsts) = Min(B)
    <2>1. PICK T, lo : T = firsts /\ lo = Min(B)
      OBVIOUS
    <2>. HIDE DEF firsts
    <2>2. T \in SUBSET Int /\ lo \in T /\ \A y \in T : lo <= y
      BY <1>9, <2>1
    <2>3. Min(T) = lo
      BY <2>2, MinIs
    <2>. QED  BY <2>1, <2>3
  <1>. QED  BY <1>10, Zenon DEF Both, FirstBlock

LEMMA JoinedLast ==
    ASSUME NEW A \in SUBSET (ReceiptRows \cup {Null}), NEW x \in SealRows \cup {Null}, A # {},
           {s.block : s \in A \ {Null}} \cup (IF x = Null THEN {} ELSE {x.block}) # {}
    PROVE  LastBlock(A \X {x}) = Max({s.block : s \in A \ {Null}} \cup (IF x = Null THEN {} ELSE {x.block}))
  <1>. DEFINE B == {s.block : s \in A \ {Null}} \cup (IF x = Null THEN {} ELSE {x.block})
              Later(p) == Max({Coalesce(p[1], 0), Coalesce(p[2], 0)})
              lasts == {Later(p) : p \in A \X {x}}
  <1>0. MaxBlocks \in Nat
    BY MaxBlocksNat
  <1>a. \A s \in A : Coalesce(s, 0) \in 0 .. MaxBlocks /\ (s # Null => Coalesce(s, 0) = s.block /\ s.block \in B)
    <2>1. \A s \in A \ {Null} : s.block \in 0 .. MaxBlocks
      BY DEF ReceiptRows
    <2>. QED  BY <1>0, <2>1 DEF Coalesce
  <1>b. Coalesce(x, 0) \in 0 .. MaxBlocks /\ (x # Null => Coalesce(x, 0) = x.block /\ x.block \in B)
    <2>1. x # Null => x.block \in 0 .. MaxBlocks
      BY DEF SealRows
    <2>. QED  BY <1>0, <2>1 DEF Coalesce
  <1>c. Coalesce(Null, 0) = 0
    BY DEF Coalesce
  <1>1. B \in SUBSET (0 .. MaxBlocks)
    BY <1>a, <1>b
  <1>2. Max(B) \in B /\ \A y \in B : y <= Max(B)
    BY <1>1, GreatestOf
  <1>3. PICK hi : hi = Max(B)
    OBVIOUS
  <1>4. hi \in B /\ hi \in 0 .. MaxBlocks /\ \A y \in B : y <= hi
    BY <1>1, <1>2, <1>3
  <1>5. ASSUME NEW s \in A
        PROVE  /\ Later(<<s, x>>) = IF Coalesce(s, 0) >= Coalesce(x, 0) THEN Coalesce(s, 0) ELSE Coalesce(x, 0)
               /\ Later(<<s, x>>) \in 0 .. MaxBlocks /\ Later(<<s, x>>) <= hi
    <2>1. PICK a, b : a = Coalesce(s, 0) /\ b = Coalesce(x, 0)
      OBVIOUS
    <2>2. a \in 0 .. MaxBlocks /\ b \in 0 .. MaxBlocks
      BY <1>a, <1>b, <2>1
    <2>3. a <= hi
      BY <1>0, <1>a, <1>c, <1>4, <2>1
    <2>4. b <= hi
      BY <1>0, <1>b, <1>c, <1>4, <2>1
    <2>5. Max({a, b}) = IF a >= b THEN a ELSE b
      BY <1>0, <2>2, MaxOfTwo
    <2>6. Later(<<s, x>>) = Max({a, b})
      BY <2>1
    <2>. QED  BY <2>1, <2>2, <2>3, <2>4, <2>5, <2>6
  <1>6. \E s \in A : Later(<<s, x>>) = hi
    <2>1. CASE \E s \in A \ {Null} : hi = s.block
      <3>1. PICK s \in A \ {Null} : hi = s.block
        BY <2>1
      <3>2. Coalesce(s, 0) = hi
        BY <1>a, <3>1
      <3>. QED  BY <1>0, <1>4, <1>5, <1>b, <3>2
    <2>2. CASE x # Null /\ hi = x.block
      <3>1. PICK s : s \in A
        OBVIOUS
      <3>2. PICK a : a = Coalesce(s, 0)
        OBVIOUS
      <3>3. Coalesce(x, 0) = hi
        BY <1>b, <2>2
      <3>4. /\ Later(<<s, x>>) = IF a >= hi THEN a ELSE hi
            /\ Later(<<s, x>>) <= hi /\ a \in 0 .. MaxBlocks
        BY <1>5, <1>a, <3>1, <3>2, <3>3
      <3>5. a >= hi => a = hi
        BY <1>0, <1>4, <3>4
      <3>. QED  BY <3>1, <3>4, <3>5
    <2>. QED  BY <1>4, <2>1, <2>2
  <1>. HIDE DEF Later, B
  <1>7. \A p \in A \X {x} : \E s \in A : p = <<s, x>>
    OBVIOUS
  <1>8. \A p \in A \X {x} : Later(p) \in 0 .. MaxBlocks /\ Later(p) <= hi
    BY <1>5, <1>7
  <1>9. \E p \in A \X {x} : Later(p) = hi
    BY <1>6
  <1>10. lasts \in SUBSET Int /\ hi \in lasts /\ \A y \in lasts : y <= hi
    BY <1>0, <1>8, <1>9
  <1>11. Max(lasts) = hi
    BY <1>10, MaxIs
  <1>. QED  BY <1>3, <1>11, Zenon DEF Later, LastBlock, B

\* A run is folded alike from the Map and from the joined rows.
LEMMA RunsAlike ==
    ASSUME StoresMirror, NEW run \in MemRunIds(memory)
    PROVE  /\ SqlRun(tables, run) = MemRun(memory, run)
           /\ MemRun(memory, run).run = run /\ MemRun(memory, run).lastBlock \in Nat
  <1>. DEFINE S == {s \in RowsOf(memory.steps) : s.run = run}
              seal == Get(memory.seals, run)
              A == IF S = {} THEN {Null} ELSE S
              B == {s.block : s \in S} \cup (IF seal = Null THEN {} ELSE {seal.block})
  <1>1. /\ tables.steps = RowsOf(memory.steps) /\ IsFiniteSet(DOMAIN memory.steps)
        /\ \A k \in DOMAIN memory.steps :
              memory.steps[k] \in ReceiptRows /\ k = <<memory.steps[k].run, memory.steps[k].index>>
        /\ tables.seals = RowsOf(memory.seals)
        /\ \A k \in DOMAIN memory.seals : memory.seals[k] \in SealRows /\ k = memory.seals[k].run
    BY DEF StoresMirror, StepsMirror, SealsMirror, Mirrors
  <1>2. Null \notin ReceiptRows /\ Null \notin SealRows
    BY NullIsNoRow
  <1>3. S \in SUBSET ReceiptRows /\ IsFiniteSet(S) /\ \A a, b \in S : a.index = b.index => a = b
    <2>1. IsFiniteSet(RowsOf(memory.steps))
      BY <1>1, FiniteImage DEF RowsOf
    <2>2. IsFiniteSet(S)
      BY <2>1, FS_Subset
    <2>3. \A s \in RowsOf(memory.steps) : s \in ReceiptRows /\ s = memory.steps[<<s.run, s.index>>]
      BY <1>1 DEF RowsOf
    <2>. QED  BY <2>2, <2>3
  <1>4. {s \in tables.seals : s.run = run} = IF run \in DOMAIN memory.seals THEN {memory.seals[run]} ELSE {}
    BY <1>1 DEF RowsOf
  <1>5. Partners(tables, run) = {seal} /\ seal \in SealRows \cup {Null}
    <2>1. CASE run \in DOMAIN memory.seals
      BY <1>1, <1>4, <2>1 DEF Partners, Get
    <2>2. CASE run \notin DOMAIN memory.seals
      BY <1>4, <2>2 DEF Partners, Get
    <2>. QED  BY <2>1, <2>2
  <1>6. S # {} \/ seal # Null
    <2>1. CASE \E s \in RowsOf(memory.steps) : s.run = run
      BY <2>1
    <2>2. CASE \E s \in RowsOf(memory.seals) : s.run = run
      BY <1>1, <1>2, <2>2 DEF RowsOf, Get
    <2>. QED  BY <2>1, <2>2 DEF MemRunIds
  <1>7. MemSteps(memory, run) \in Seq(S) /\ Len(MemSteps(memory, run)) = Cardinality(S)
        /\ {MemSteps(memory, run)[i] : i \in DOMAIN MemSteps(memory, run)} = S
    BY <1>3, SortedByIndex, Zenon DEF MemSteps
  <1>8. PICK steps : steps = MemSteps(memory, run)
    OBVIOUS
  <1>. HIDE DEF S, seal
  <1>9. steps \in Seq(S) /\ Len(steps) = Cardinality(S) /\ {steps[i] : i \in DOMAIN steps} = S
    BY <1>7, <1>8
  <1>10. {steps[k].block : k \in DOMAIN steps} \cup (IF seal = Null THEN {} ELSE {seal.block}) = B
    BY <1>9
  <1>11. steps = <<>> <=> S = {}
    BY <1>9
  <1>12. MemRun(memory, run) =
           [run |-> run, stepCount |-> Cardinality(S), sealed |-> seal # Null,
            chainRoot |-> IF seal = Null THEN Null ELSE seal.root,
            outcome |-> IF seal = Null THEN Null ELSE seal.outcome,
            firstBlock |-> Min(B), lastBlock |-> Max(B)]
    <2>1. ~(steps = <<>> /\ seal = Null)
      BY <1>6, <1>11
    <2>2. MemRun(memory, run) =
            [run |-> run, stepCount |-> Len(steps), sealed |-> seal # Null,
             chainRoot |-> IF seal = Null THEN Null ELSE seal.root,
             outcome |-> IF seal = Null THEN Null ELSE seal.outcome,
             firstBlock |-> Min({steps[k].block : k \in DOMAIN steps}
                                \cup (IF seal = Null THEN {} ELSE {seal.block})),
             lastBlock |-> Max({steps[k].block : k \in DOMAIN steps}
                               \cup (IF seal = Null THEN {} ELSE {seal.block}))]
      BY <1>8, <2>1, Zenon DEF MemRun, seal
    <2>. QED  BY <1>9, <1>10, <2>2, Zenon
  <1>13. Joined(tables, run) = A \X {seal}
    BY <1>1, <1>5, Zenon DEF Joined, S
  <1>14. A \in SUBSET (ReceiptRows \cup {Null}) /\ A # {} /\ A \ {Null} = S
         /\ \A s \in A : s = Null => A = {Null}
    BY <1>2, <1>3
  <1>15. B # {} /\ B = {s.block : s \in A \ {Null}} \cup (IF seal = Null THEN {} ELSE {seal.block})
    BY <1>6, <1>14
  <1>16. CountSteps(A \X {seal}) = Cardinality(S)
    <2>1. {p \in A \X {seal} : p[1] # Null} = S \X {seal}
      BY <1>14
    <2>2. IsFiniteSet({seal}) /\ Cardinality({seal}) = 1
      BY FS_Singleton
    <2>3. Cardinality(S \X {seal}) = Cardinality(S) * 1
      BY <1>3, <2>2, FS_Product
    <2>4. Cardinality(S) \in Nat
      BY <1>3, FS_CardinalityType
    <2>5. Cardinality(S) * 1 = Cardinality(S)
      BY <2>4
    <2>. QED  BY <2>1, <2>3, <2>5, Zenon DEF CountSteps
  <1>. HIDE DEF A, B
  <1>17. FirstBlock(A \X {seal}) = Min(B)
    BY <1>5, <1>14, <1>15, JoinedFirst
  <1>18. LastBlock(A \X {seal}) = Max(B)
    BY <1>5, <1>14, <1>15, JoinedLast
  <1>19. (CHOOSE s \in Partners(tables, run) : TRUE) = seal
    BY <1>5
  <1>20. SqlRun(tables, run) =
           [run |-> run, stepCount |-> Cardinality(S), sealed |-> seal # Null,
            chainRoot |-> IF seal = Null THEN Null ELSE seal.root,
            outcome |-> IF seal = Null THEN Null ELSE seal.outcome,
            firstBlock |-> Min(B), lastBlock |-> Max(B)]
    <2>1. PICK rows, x : rows = Joined(tables, run) /\ x = CHOOSE s \in Partners(tables, run) : TRUE
      OBVIOUS
    <2>2. SqlRun(tables, run) =
            [run |-> run, stepCount |-> CountSteps(rows), sealed |-> x # Null,
             chainRoot |-> IF x = Null THEN Null ELSE x.root,
             outcome |-> IF x = Null THEN Null ELSE x.outcome,
             firstBlock |-> FirstBlock(rows), lastBlock |-> LastBlock(rows)]
      BY <2>1 DEF SqlRun
    <2>3. rows = A \X {seal} /\ x = seal
      BY <1>13, <1>19, <2>1, Zenon
    <2>. QED  BY <1>16, <1>17, <1>18, <2>2, <2>3, Zenon
  <1>21. MemRun(memory, run).run = run /\ MemRun(memory, run).lastBlock = Max(B)
    BY <1>12
  <1>22. Max(B) \in Nat
    <2>1. B \in SUBSET (0 .. MaxBlocks)
      BY <1>3, <1>5 DEF B, ReceiptRows, SealRows
    <2>2. Max(B) \in 0 .. MaxBlocks
      BY <1>15, <2>1, GreatestOf
    <2>. QED  BY <2>2, MaxBlocksNat
  <1>. QED  BY <1>12, <1>20, <1>21, <1>22

LEMMA SameRunIds ==
    ASSUME StoresMirror
    PROVE  {s.run : s \in tables.steps} \cup {s.run : s \in tables.seals} = MemRunIds(memory)
  BY Zenon DEF StoresMirror, StepsMirror, SealsMirror, Mirrors, MemRunIds

RunRows == {MemRun(memory, run) : run \in MemRunIds(memory)}

LEMMA SameRuns ==
    ASSUME StoresMirror
    PROVE  SqlRunRows(tables) = RunRows
  <1>1. {s.run : s \in tables.steps} \cup {s.run : s \in tables.seals} = MemRunIds(memory)
    BY SameRunIds
  <1>2. \A run \in MemRunIds(memory) : SqlRun(tables, run) = MemRun(memory, run)
    BY RunsAlike
  <1>. QED  BY <1>1, <1>2 DEF SqlRunRows, RunRows

\* As many runs are counted as are known.
LEMMA RunsCounted ==
    ASSUME StoresMirror
    PROVE  /\ IsFiniteSet(SqlRunRows(tables))
           /\ Cardinality(SqlRunRows(tables)) = Cardinality(MemRunIds(memory))
  <1>. DEFINE ids == MemRunIds(memory)
  <1>1. IsFiniteSet(DOMAIN memory.steps) /\ IsFiniteSet(DOMAIN memory.seals)
    BY DEF StoresMirror, StepsMirror, SealsMirror
  <1>2. IsFiniteSet(ids)
    <2>. DEFINE runsOfSteps == [k \in DOMAIN memory.steps |-> memory.steps[k].run]
                runsOfSeals == [k \in DOMAIN memory.seals |-> memory.seals[k].run]
    <2>1. ids = {runsOfSteps[k] : k \in DOMAIN memory.steps} \cup {runsOfSeals[k] : k \in DOMAIN memory.seals}
      BY DEF MemRunIds, RowsOf
    <2>. HIDE DEF runsOfSteps, runsOfSeals
    <2>2. /\ IsFiniteSet({runsOfSteps[k] : k \in DOMAIN memory.steps})
          /\ IsFiniteSet({runsOfSeals[k] : k \in DOMAIN memory.seals})
      BY <1>1, FiniteImage
    <2>. QED  BY <2>1, <2>2, FS_Union
  <1>3. /\ IsFiniteSet(SqlRunRows(tables))
        /\ Cardinality(SqlRunRows(tables)) = Cardinality(ids)
    <2>. DEFINE f == [run \in ids |-> SqlRun(tables, run)]
    <2>1. SqlRunRows(tables) = {SqlRun(tables, run) : run \in ids}
      BY SameRunIds, Zenon DEF SqlRunRows
    <2>2. \A run \in ids : SqlRun(tables, run).run = run
      BY DEF SqlRun
    <2>. HIDE DEF ids
    <2>3. \A p, q \in ids : f[p] = f[q] => p = q
      BY <2>2
    <2>4. f \in [ids -> SqlRunRows(tables)] /\ \A r \in SqlRunRows(tables) : \E run \in ids : f[run] = r
      BY <2>1
    <2>. HIDE DEF f
    <2>5. f \in Bijection(ids, SqlRunRows(tables))
      BY <2>3, <2>4, Zenon DEF Bijection, Injection, Surjection, IsInjective
    <2>. QED  BY <1>2, <2>5, FS_Bijection, Zenon DEF ExistsBijection, ids
  <1>. QED  BY <1>3

LEMMA SameStats ==
    ASSUME StoresMirror
    PROVE  SqlStats(tables) = MemStats(memory)
  <1>1. /\ tables.steps = RowsOf(memory.steps) /\ IsFiniteSet(DOMAIN memory.steps)
        /\ \A k \in DOMAIN memory.steps : k = <<memory.steps[k].run, memory.steps[k].index>>
        /\ tables.seals = RowsOf(memory.seals)
        /\ tables.cursor = memory.cursor
    BY DEF StoresMirror, StepsMirror, SealsMirror, Mirrors
  <1>2. Cardinality(DOMAIN memory.steps) = Cardinality(tables.steps)
    <2>. DEFINE f == [k \in DOMAIN memory.steps |-> memory.steps[k]]
    <2>1. \A j, k \in DOMAIN memory.steps : f[j] = f[k] => j = k
      BY <1>1
    <2>2. f \in [DOMAIN memory.steps -> tables.steps] /\ \A r \in tables.steps : \E k \in DOMAIN memory.steps : f[k] = r
      BY <1>1 DEF RowsOf
    <2>. HIDE DEF f
    <2>3. f \in Bijection(DOMAIN memory.steps, tables.steps)
      BY <2>1, <2>2, Zenon DEF Bijection, Injection, Surjection, IsInjective
    <2>. QED  BY <1>1, <2>3, FS_Bijection, Zenon DEF ExistsBijection
  <1>3. Cardinality(SqlRunRows(tables)) = Cardinality(MemRunIds(memory))
    BY RunsCounted
  <1>. QED  BY <1>1, <1>2, <1>3, Zenon DEF SqlStats, MemStats

\* No two runs are met at the same turn.
LEMMA TurnsApart ==
    ASSUME StoresMirror, TurnsAreKept
    PROVE  /\ \A run \in MemRunIds(memory) : MetAt(memory, run) \in Nat
           /\ \A p, q \in MemRunIds(memory) : MetAt(memory, p) = MetAt(memory, q) => p = q
  <1>. DEFINE steps == memory.steps
              seals == memory.seals
              turns == memory.stepTurns
              behind == memory.sealTurns
              TurnsOf(run) == {turns[k] : k \in {k \in DOMAIN turns : k[1] = run}}
  <1>1. /\ turns \in [DOMAIN steps -> Nat \ {0}] /\ \A j, k \in DOMAIN steps : turns[j] = turns[k] => j = k
        /\ behind \in [DOMAIN seals -> Nat \ {0}] /\ \A j, k \in DOMAIN seals : behind[j] = behind[k] => j = k
    BY DEF TurnsAreKept, HasTurns
  <1>2. /\ IsFiniteSet(DOMAIN steps) /\ \A k \in DOMAIN steps : k = <<steps[k].run, steps[k].index>>
        /\ \A k \in DOMAIN seals : k = seals[k].run
    BY DEF StoresMirror, StepsMirror, SealsMirror
  <1>3. PICK last : last = Max({0} \cup RowsOf(turns))
    OBVIOUS
  <1>4. last \in Nat /\ \A k \in DOMAIN steps : turns[k] <= last
    BY <1>2, <1>3, LastTurn DEF TurnsAreKept
  <1>5. \A run : MetAt(memory, run) = IF TurnsOf(run) # {} THEN Min(TurnsOf(run)) ELSE last + behind[run]
    BY <1>3 DEF MetAt
  <1>6. \A run \in MemRunIds(memory) : TurnsOf(run) # {} \/ run \in DOMAIN seals
    BY <1>1, <1>2 DEF MemRunIds, RowsOf
  <1>. HIDE DEF steps, seals, turns, behind
  <1>7. ASSUME NEW run, TurnsOf(run) # {}
        PROVE  \E k \in DOMAIN steps : k[1] = run /\ MetAt(memory, run) = turns[k]
    <2>1. TurnsOf(run) \in SUBSET Nat
      BY <1>1
    <2>. HIDE DEF TurnsOf
    <2>2. Min(TurnsOf(run)) \in TurnsOf(run)
      BY <1>7, <2>1, LeastOf
    <2>3. MetAt(memory, run) \in TurnsOf(run)
      BY <1>5, <1>7, <2>2
    <2>. QED  BY <1>1, <2>3 DEF TurnsOf
  <1>. HIDE DEF TurnsOf
  <1>8. ASSUME NEW run \in MemRunIds(memory)
        PROVE  \/ \E k \in DOMAIN steps : k[1] = run /\ MetAt(memory, run) = turns[k]
               \/ run \in DOMAIN seals /\ MetAt(memory, run) = last + behind[run]
    BY <1>5, <1>6, <1>7
  <1>9. /\ \A k \in DOMAIN steps : turns[k] \in Nat /\ turns[k] <= last
        /\ \A k \in DOMAIN seals : behind[k] \in Nat /\ behind[k] > 0
    BY <1>1, <1>4
  <1>10. \A run \in MemRunIds(memory) : MetAt(memory, run) \in Nat
    BY <1>4, <1>8, <1>9
  <1>11. ASSUME NEW p \in MemRunIds(memory), NEW q \in MemRunIds(memory), MetAt(memory, p) = MetAt(memory, q)
         PROVE  p = q
    <2>1. CASE \E k \in DOMAIN steps : k[1] = p /\ MetAt(memory, p) = turns[k]
      <3>1. PICK j \in DOMAIN steps : j[1] = p /\ MetAt(memory, p) = turns[j]
        BY <2>1
      <3>2. ~(q \in DOMAIN seals /\ MetAt(memory, q) = last + behind[q])
        BY <1>4, <1>9, <1>11, <3>1
      <3>3. PICK k \in DOMAIN steps : k[1] = q /\ MetAt(memory, q) = turns[k]
        BY <1>8, <3>2
      <3>. QED  BY <1>1, <1>11, <3>1, <3>3
    <2>2. CASE p \in DOMAIN seals /\ MetAt(memory, p) = last + behind[p]
      <3>1. ~\E k \in DOMAIN steps : k[1] = q /\ MetAt(memory, q) = turns[k]
        BY <1>4, <1>9, <1>11, <2>2
      <3>2. q \in DOMAIN seals /\ MetAt(memory, q) = last + behind[q]
        BY <1>8, <3>1
      <3>3. behind[p] = behind[q]
        <4>1. PICK m, n : m = behind[p] /\ n = behind[q]
          OBVIOUS
        <4>2. m \in Nat /\ n \in Nat /\ last + m = last + n
          BY <1>9, <1>11, <2>2, <3>2, <4>1
        <4>. QED  BY <1>4, <4>1, <4>2
      <3>. QED  BY <1>1, <2>2, <3>2, <3>3
    <2>. QED  BY <1>8, <2>1, <2>2
  <1>. QED  BY <1>10, <1>11

\* So runs have one order, and it is one that ORDER BY allows.
LEMMA RunsInOrder ==
    ASSUME StoresMirror, TurnsAreKept, NEW rows \in SUBSET RunRows
    PROVE  /\ InOrder(memory, rows) \in NewestFirst(rows)
           /\ InOrder(memory, rows) \in Seq(rows) /\ Len(InOrder(memory, rows)) = Cardinality(rows)
           /\ ToSet(InOrder(memory, rows)) = rows
  <1>1. ASSUME NEW r \in rows
        PROVE  /\ r.lastBlock \in Nat /\ r.run \in MemRunIds(memory) /\ r = MemRun(memory, r.run)
               /\ MetAt(memory, r.run) \in Nat
    <2>1. PICK run \in MemRunIds(memory) : r = MemRun(memory, run)
      BY DEF RunRows
    <2>2. r.run = run /\ r.lastBlock \in Nat
      BY <2>1, RunsAlike
    <2>. QED  BY <2>1, <2>2, TurnsApart
  <1>2. \A a, b \in rows : MetAt(memory, a.run) = MetAt(memory, b.run) => a = b
    <2>. SUFFICES ASSUME NEW a \in rows, NEW b \in rows, MetAt(memory, a.run) = MetAt(memory, b.run)
                  PROVE  a = b
      OBVIOUS
    <2>1. a.run = b.run
      BY <1>1, TurnsApart
    <2>. QED  BY <1>1, <2>1
  <1>. DEFINE R == {p \in rows \X rows : RunBefore(memory, p[1], p[2])}
              seq == InOrder(memory, rows)
  <1>3. \A a, b \in rows : <<a, b>> \in R <=> RunBefore(memory, a, b)
    OBVIOUS
  <1>4. \A a, b : RunBefore(memory, a, b) <=>
           a.lastBlock > b.lastBlock
           \/ (a.lastBlock = b.lastBlock /\ MetAt(memory, a.run) < MetAt(memory, b.run))
    BY DEF RunBefore
  <1>. HIDE DEF R
  <1>5. \A a \in rows : <<a, a>> \notin R
    BY <1>1, <1>3, <1>4
  <1>6. \A a, b, c \in rows : <<a, b>> \in R /\ <<b, c>> \in R => <<a, c>> \in R
    BY <1>1, <1>3, <1>4
  <1>7. \A a, b \in rows : a # b => <<a, b>> \in R \/ <<b, a>> \in R
    BY <1>1, <1>2, <1>3, <1>4
  <1>8. IsFiniteSet(rows)
    BY RunsCounted, SameRuns, FS_Subset
  <1>9. PICK s \in SetToSeqs(rows) : \A i, j \in DOMAIN s : i < j => <<s[i], s[j]>> \in R
    BY <1>5, <1>6, <1>7, <1>8, CanBeSorted
  <1>10. \A i \in DOMAIN s : s[i] \in rows
    BY <1>8, SeqOfSet
  <1>11. \E u \in SetToSeqs(rows) : \A i, j \in DOMAIN u : i < j => RunBefore(memory, u[i], u[j])
    BY <1>3, <1>9, <1>10, Zenon
  <1>12. seq \in SetToSeqs(rows) /\ \A i, j \in DOMAIN seq : i < j => RunBefore(memory, seq[i], seq[j])
    BY <1>11, Zenon DEF InOrder, Sorted
  <1>. HIDE DEF seq
  <1>13. seq \in Seq(rows) /\ Len(seq) = Cardinality(rows) /\ {seq[i] : i \in DOMAIN seq} = rows
    BY <1>8, <1>12, SeqOfSet
  <1>14. \A i, j \in DOMAIN seq : i < j => seq[i].lastBlock >= seq[j].lastBlock
    <2>1. \A i \in DOMAIN seq : seq[i] \in rows
      BY <1>13
    <2>. QED  BY <1>1, <1>4, <1>12, <2>1
  <1>. QED  BY <1>12, <1>13, <1>14 DEF NewestFirst, ToSet, seq

LEMMA RunListsAreAlike == ASSUME StoresMirror, TurnsAreKept PROVE RunListsAgree
  <1>1. InOrder(memory, RunRows) \in NewestFirst(SqlRunRows(tables))
    BY RunsInOrder, SameRuns
  <1>2. \A limit, offset : MemRuns(memory, limit, offset) = Slice(InOrder(memory, RunRows), limit, offset)
    BY Zenon DEF MemRuns, RunRows
  <1>. QED  BY <1>1, <1>2 DEF RunListsAgree, SqlRuns

\* All runs are looked through for those of an agent when they are few enough.
LEMMA AgentRunsAreAlike ==
    ASSUME StoresMirror, TurnsAreKept, Cardinality(MemRunIds(memory)) <= RecentRuns
    PROVE  AgentRunsAgree
  <1>1. PICK seq : seq = InOrder(memory, RunRows)
    OBVIOUS
  <1>2. seq \in Seq(RunRows) /\ Len(seq) = Cardinality(MemRunIds(memory)) /\ ToSet(seq) = RunRows
    BY <1>1, RunsInOrder, RunsCounted, SameRuns
  <1>3. MemRuns(memory, RecentRuns, 0) = Slice(seq, RecentRuns, 0)
    BY <1>1, Zenon DEF MemRuns, RunRows
  <1>4. Slice(seq, RecentRuns, 0) = SubSeq(seq, 1, Min({RecentRuns, Len(seq)}))
    <2>1. 0 + RecentRuns = RecentRuns /\ 0 + 1 = 1
      BY RunsAreCut
    <2>. QED  BY <2>1, Zenon DEF Slice
  <1>5. Min({RecentRuns, Len(seq)}) = Len(seq)
    <2>1. PICK n : n = Len(seq)
      OBVIOUS
    <2>2. n \in Nat /\ n <= RecentRuns /\ RecentRuns \in Nat
      BY <1>2, <2>1, RunsAreCut
    <2>3. {RecentRuns, n} \in SUBSET Int /\ \A y \in {RecentRuns, n} : n <= y
      BY <2>2
    <2>4. Min({RecentRuns, n}) = n
      BY <2>3, MinIs
    <2>. QED  BY <2>1, <2>4
  <1>6. ToSet(MemRuns(memory, RecentRuns, 0)) = RunRows
    <2>1. SubSeq(seq, 1, Len(seq)) = seq
      BY <1>2
    <2>. QED  BY <1>2, <1>3, <1>4, <1>5, <2>1
  <1>7. ASSUME NEW agent \in Agents, NEW limit \in 1 .. MaxPage
        PROVE  MemRunsForAgent(memory, agent, limit) \in SqlRunsForAgent(tables, agent, limit)
    <2>. DEFINE runs == {s.run : s \in {x \in RowsOf(memory.steps) : x.agent = agent}}
                rows == {r \in RunRows : r.run \in runs}
    <2>1. tables.steps = RowsOf(memory.steps)
      BY DEF StoresMirror, StepsMirror, Mirrors
    <2>2. MemRunsForAgent(memory, agent, limit) = Slice(InOrder(memory, rows), limit, 0)
      BY <1>6, Zenon DEF MemRunsForAgent
    <2>3. SqlRunsForAgent(tables, agent, limit) = {Slice(s, limit, 0) : s \in NewestFirst(rows)}
      BY <2>1, SameRuns, Zenon DEF SqlRunsForAgent
    <2>4. rows \in SUBSET RunRows
      OBVIOUS
    <2>. HIDE DEF rows
    <2>5. InOrder(memory, rows) \in NewestFirst(rows)
      BY <2>4, RunsInOrder
    <2>. QED  BY <2>2, <2>3, <2>5
  <1>. QED  BY <1>7 DEF AgentRunsAgree

\* A run nothing is known of.
LEMMA UnknownRun ==
    ASSUME StoresMirror, NEW run, run \notin MemRunIds(memory)
    PROVE  SqlGetRun(tables, run) = Null /\ MemRun(memory, run) = Null
  <1>. DEFINE S == {s \in RowsOf(memory.steps) : s.run = run}
  <1>1. S = {}
    BY DEF MemRunIds
  <1>2. MemSteps(memory, run) \in Seq(S) /\ Len(MemSteps(memory, run)) = Cardinality(S)
    <2>1. S \in SUBSET ReceiptRows /\ IsFiniteSet(S) /\ \A a, b \in S : a.index = b.index => a = b
      BY <1>1, FS_EmptySet
    <2>. QED  BY <2>1, SortedByIndex, Zenon DEF MemSteps
  <1>3. MemSteps(memory, run) = <<>>
    BY <1>1, <1>2, FS_EmptySet
  <1>4. run \notin DOMAIN memory.seals
    BY DEF StoresMirror, SealsMirror, MemRunIds, RowsOf
  <1>5. MemRun(memory, run) = Null
    BY <1>3, <1>4 DEF MemRun, Get
  <1>6. {r \in SqlRunRows(tables) : r.run = run} = {}
    <2>1. \A q \in MemRunIds(memory) : SqlRun(tables, q).run = q
      BY DEF SqlRun
    <2>. QED  BY <2>1, SameRunIds DEF SqlRunRows
  <1>7. SqlGetRun(tables, run) = Null
    BY <1>6 DEF SqlGetRun
  <1>. QED  BY <1>5, <1>7

LEMMA RunIsFound ==
    ASSUME NEW run \in Known
    PROVE  SqlGetRun(tables, run) = SqlRun(tables, run)
  <1>. DEFINE rows == {r \in SqlRunRows(tables) : r.run = run}
  <1>1. \A q : SqlRun(tables, q).run = q
    BY DEF SqlRun
  <1>2. SqlRun(tables, run) \in SqlRunRows(tables)
    BY DEF SqlRunRows, Known
  <1>3. \A r \in SqlRunRows(tables) : r.run = run => r = SqlRun(tables, run)
    BY <1>1 DEF SqlRunRows
  <1>4. rows = {SqlRun(tables, run)}
    BY <1>1, <1>2, <1>3
  <1>. HIDE DEF rows
  <1>5. SqlGetRun(tables, run) = IF rows = {} THEN Null ELSE CHOOSE r \in rows : TRUE
    BY DEF SqlGetRun, rows
  <1>6. (CHOOSE r \in rows : TRUE) = SqlRun(tables, run)
    BY <1>4
  <1>. QED  BY <1>4, <1>5, <1>6

LEMMA AgreeFromMirror == StoresMirror /\ TurnsAreKept => StoresAgree
  <1>. SUFFICES ASSUME StoresMirror, TurnsAreKept PROVE StoresAgree
    OBVIOUS
  <1>1. tables.steps = RowsOf(memory.steps) /\ tables.listings = RowsOf(memory.listings)
    BY DEF StoresMirror, StepsMirror, ListingsMirror, Mirrors
  <1>2. ASSUME NEW run \in Runs
        PROVE  SqlGetRun(tables, run) = MemRun(memory, run) /\ SqlSteps(tables, run) = MemSteps(memory, run)
    <2>1. SqlSteps(tables, run) = MemSteps(memory, run)
      BY <1>1, Zenon DEF SqlSteps, MemSteps
    <2>2. CASE run \in MemRunIds(memory)
      <3>1. run \in Known
        BY <2>2, SameRunIds DEF Known
      <3>. QED  BY <2>1, <2>2, <3>1, RunIsFound, RunsAlike
    <2>3. CASE run \notin MemRunIds(memory)
      BY <2>1, <2>3, UnknownRun
    <2>. QED  BY <2>2, <2>3
  <1>3. ASSUME NEW agent \in Agents
        PROVE  /\ SqlAgent(tables, agent) = MemAgent(memory, agent)
               /\ SqlListingOf(tables, agent) = Get(memory.listings, agent)
               /\ SqlBondOf(tables, agent) = Get(memory.bonds, agent)
               /\ SqlHealthOf(tables, agent) = Get(memory.health, agent)
    <2>1. SqlAgent(tables, agent) = MemAgent(memory, agent)
      BY <1>1, Zenon DEF SqlAgent, MemAgent, Succeeded
    <2>2. /\ \A k \in DOMAIN memory.listings : k = memory.listings[k].agent
          /\ \A k \in DOMAIN memory.bonds : k = memory.bonds[k].agent
          /\ \A k \in DOMAIN memory.health : k = memory.health[k].agent
          /\ tables.bonds = RowsOf(memory.bonds) /\ tables.health = RowsOf(memory.health)
      BY DEF StoresMirror, ListingsMirror, BondsMirror, HealthMirror, Mirrors
    <2>3. SqlGet(RowsOf(memory.listings), agent) = Get(memory.listings, agent)
      BY <2>2, GetIs
    <2>4. SqlGet(RowsOf(memory.bonds), agent) = Get(memory.bonds, agent)
      BY <2>2, GetIs
    <2>5. SqlGet(RowsOf(memory.health), agent) = Get(memory.health, agent)
      BY <2>2, GetIs
    <2>. QED  BY <1>1, <2>1, <2>2, <2>3, <2>4, <2>5, Zenon DEF SqlListingOf, SqlBondOf, SqlHealthOf
  <1>4. \A limit, offset, activeOnly :
           SqlListings(tables, limit, offset, activeOnly) = MemListings(memory, limit, offset, activeOnly)
    BY <1>1, Zenon DEF SqlListings, MemListings
  <1>5. RunListsAgree /\ (Cardinality(MemRunIds(memory)) <= RecentRuns => AgentRunsAgree)
    BY RunListsAreAlike, AgentRunsAreAlike
  <1>. QED  BY <1>2, <1>3, <1>4, <1>5, SameStats, Zenon DEF StoresAgree

\* Whatever is written, written again by a repeated pass, or rolled back, and
\* however requests and probes fall in between: what memory-store.ts answers,
\* postgres-store.ts may answer, page by page, where ORDER BY leaves it a choice
\* as where it does not; of the runs of an agent, as long as no more runs are
\* known than memory-store.ts looks through.
THEOREM TheStoresAgree == ExplorerSpec => []StoresAgree
  <1>1. MirrorInv => StoresAgree
    BY AgreeFromMirror DEF MirrorInv
  <1>. QED  BY <1>1, MirrorInit, MirrorNext, PTL DEF ExplorerSpec

-----------------------------------------------------------------------------
\* Nothing but the answer of a probe changes what is known of an agent's health.
LEMMA HealthIsKept ==
    ASSUME MirrorInv, [ExplorerNext]_explorerVars, ~ProbeAnswered
    PROVE  tables'.health = tables.health
  <1>1. DOMAIN tables = TableFields
    BY DEF MirrorInv, StoresMirror
  <1>2. CASE Ingest
    <2>1. NextEvent \in ContractEvents
      BY <1>2 DEF MirrorInv, LogIsTyped, Ingest, NextEvent
    <2>2. tables' = WriteTables(tables, NextEvent)
      BY <1>2 DEF Ingest
    <2>3. CASE NextEvent.kind = "step"
      BY <1>1, <2>2, <2>3 DEF WriteTables, SqlStep, TableFields
    <2>4. CASE NextEvent.kind = "seal"
      BY <1>1, <2>2, <2>4 DEF WriteTables, SqlSeal, TableFields
    <2>5. CASE NextEvent.kind = "list"
      BY <1>1, <2>2, <2>5 DEF WriteTables, SqlListing, TableFields
    <2>6. CASE NextEvent.kind = "unlist"
      BY <1>1, <2>2, <2>6 DEF WriteTables, SqlDeactivate, TableFields
    <2>7. CASE NextEvent.kind = "bond"
      BY <1>1, <2>2, <2>7 DEF WriteTables, SqlBond, TableFields
    <2>. QED  BY <2>1, <2>3, <2>4, <2>5, <2>6, <2>7, EventKinds
  <1>3. CASE EndBatch
    BY <1>1, <1>3 DEF EndBatch, TableFields
  <1>4. CASE Rollback
    BY <1>1, <1>4 DEF Rollback, SqlRollback, TableFields
  <1>5. CASE AddBlock \/ FailPass \/ StartProbes \/ AskRun \/ AskAgent \/ Query \/ UNCHANGED explorerVars
    BY <1>5 DEF AddBlock, FailPass, StartProbes, AskRun, AskAgent, Query, explorerVars
  <1>. QED  BY <1>2, <1>3, <1>4, <1>5, Zenon DEF ExplorerNext

\* The action of the property, as a formula of its own.
SparesTheWithdrawn ==
    \A agent \in Agents :
        LET before == SqlHealthOf(tables, agent)
            after == SqlHealthOf(tables', agent)
        IN  after # before /\ ~after.ok => \E a \in tables.listings : a.agent = agent /\ a.active

LEMMA ProbesSpare ==
    ASSUME MirrorInv, [ExplorerNext]_explorerVars
    PROVE  SparesTheWithdrawn
  <1>1. CASE ~ProbeAnswered
    <2>1. tables'.health = tables.health
      BY <1>1, HealthIsKept
    <2>. QED  BY <2>1, Zenon DEF SparesTheWithdrawn, SqlHealthOf
  <1>2. CASE ProbeAnswered
    <2>1. PICK a \in probing, response \in Responses : tables' = SqlHealth(tables, a, Healthy(response))
      BY <1>2 DEF ProbeAnswered
    <2>2. \E r \in tables.listings : r.agent = a /\ r.active
      BY <2>1 DEF MirrorInv, ProbesAreListed
    <2>3. PICK new : new.agent = a
                     /\ tables' = [tables EXCEPT !.health = (@ \ {r \in tables.health : r.agent = a}) \cup {new}]
      <3>1. PICK count :
              tables' = [tables EXCEPT !.health = (@ \ {r \in tables.health : r.agent = a})
                            \cup {[agent |-> a, ok |-> Healthy(response), failures |-> count]}]
        BY <2>1, Zenon DEF SqlHealth
      <3>. QED  BY <3>1
    <2>4. tables'.health = (tables.health \ {r \in tables.health : r.agent = a}) \cup {new}
      BY <2>3 DEF MirrorInv, StoresMirror, TableFields
    <2>5. \A agent \in Agents : agent # a => SqlHealthOf(tables', agent) = SqlHealthOf(tables, agent)
      <3>1. ASSUME NEW agent \in Agents, agent # a
            PROVE  {r \in tables'.health : r.agent = agent} = {r \in tables.health : r.agent = agent}
        BY <2>3, <2>4, <3>1
      <3>2. ASSUME NEW agent \in Agents, agent # a
            PROVE  SqlHealthOf(tables', agent) = SqlHealthOf(tables, agent)
        <4>1. PICK rows : rows = {r \in tables.health : r.agent = agent}
          OBVIOUS
        <4>2. rows = {r \in tables'.health : r.agent = agent}
          BY <3>1, <3>2, <4>1
        <4>3. SqlGet(tables.health, agent) = IF rows = {} THEN Null ELSE CHOOSE r \in rows : TRUE
          BY <4>1 DEF SqlGet
        <4>4. SqlGet(tables'.health, agent) = IF rows = {} THEN Null ELSE CHOOSE r \in rows : TRUE
          BY <4>2 DEF SqlGet
        <4>. QED  BY <4>3, <4>4 DEF SqlHealthOf
      <3>. QED  BY <3>2
    <2>. QED  BY <2>2, <2>5, Zenon DEF SparesTheWithdrawn
  <1>. QED  BY <1>1, <1>2

\* Whatever falls between the moment a round of probes is sent out and the
\* answers to it: health.ts records a failure only for an agent that is listed
\* as active when the answer arrives.
THEOREM WithdrawnAgentsAreSpared == ExplorerSpec => ProbesSpareTheWithdrawn
  <1>1. MirrorInv /\ [ExplorerNext]_explorerVars => [SparesTheWithdrawn]_explorerVars
    BY ProbesSpare
  <1>2. ExplorerSpec => [][SparesTheWithdrawn]_explorerVars
    BY <1>1, MirrorInit, MirrorNext, PTL DEF ExplorerSpec
  <1>. QED  BY <1>2, Zenon DEF ProbesSpareTheWithdrawn, SparesTheWithdrawn

-----------------------------------------------------------------------------
\* What the given allowed: an event's block is no later than the next one's, a
\* receipt or a seal does not follow the seal of its run, and a seal holds the
\* root of the receipts before it.
StepsBefore(i, run) == {j \in 1 .. i - 1 : log[j].kind = "step" /\ log[j].run = run}

LawfulAt(i) ==
    /\ log[i].block <= height /\ \A j \in 1 .. i - 1 : log[j].block <= log[i].block
    /\ log[i].kind \in {"step", "seal"} =>
          \A j \in 1 .. i - 1 : log[j].kind = "seal" => log[j].run # log[i].run
    /\ log[i].kind = "step" =>
          \A j \in StepsBefore(i, log[i].run) : log[j].index # log[i].index
    /\ log[i].kind = "seal" =>
          log[i].root # Null /\ log[i].root = Fold({log[j] : j \in StepsBefore(i, log[i].run)})
LogIsLawful == \A i \in DOMAIN log : LawfulAt(i)

\* However often passes fail and begin again, the tables hold what some prefix
\* of the log, no shorter than what the current pass has applied, left there.
WrittenTo(w) ==
    /\ tables.steps = {Row(log[k]) : k \in {j \in 1 .. w : log[j].kind = "step"}}
    /\ tables.seals = {Row(log[k]) : k \in {j \in 1 .. w : log[j].kind = "seal"}}
APrefixIsWritten == \E w \in applied .. Len(log) : WrittenTo(w)

\* Between its two queries a request holds a run whose seal is still there.
RequestStands ==
    /\ DOMAIN request = DOMAIN NoRequest
    /\ request.pc \in {"none", "steps", "stats", "runs"}
    /\ request.run # Null =>
          /\ request.pc = "steps"
          /\ request.run.sealed =>
                \E s \in tables.seals : s.run = request.key /\ s.root = request.run.chainRoot

AddUpInv == MirrorInv /\ LogIsLawful /\ APrefixIsWritten /\ RequestStands

-----------------------------------------------------------------------------
\* Folding receipts that are numbered apart, whatever else is known of them.
LEMMA FoldIs ==
    ASSUME NEW R, IsFiniteSet(R), NEW f, \A j, k \in R : f[j].index = f[k].index => j = k
    PROVE  Fold({f[k] : k \in R}) =
              IF R = {} \/ {f[k].index : k \in R} # 0 .. Cardinality(R) - 1 THEN Null
              ELSE [i \in 1 .. Cardinality(R) |-> Receipt(f[CHOOSE k \in R : f[k].index = i - 1])]
  <1>. DEFINE S == {f[k] : k \in R}
              n == Cardinality(R)
              h == [k \in R |-> f[k]]
  <1>1. Cardinality(S) = n
    <2>1. \A j, k \in R : h[j] = h[k] => j = k
      OBVIOUS
    <2>2. h \in [R -> S] /\ \A s \in S : \E k \in R : h[k] = s
      OBVIOUS
    <2>. HIDE DEF h
    <2>3. h \in Bijection(R, S)
      BY <2>1, <2>2, Zenon DEF Bijection, Injection, Surjection, IsInjective
    <2>. QED  BY <2>3, FS_Bijection, Zenon DEF ExistsBijection
  <1>2. (S = {} <=> R = {}) /\ {s.index : s \in S} = {f[k].index : k \in R}
    OBVIOUS
  <1>3. n \in Nat
    BY FS_CardinalityType
  <1>4. PICK m, T : m = n /\ T = S
    OBVIOUS
  <1>5. Fold(T) = IF T = {} \/ {s.index : s \in T} # 0 .. m - 1 THEN Null
                  ELSE [i \in 1 .. m |-> Receipt(CHOOSE s \in T : s.index = i - 1)]
    BY <1>1, <1>4, Zenon DEF Fold
  <1>6. CASE R = {} \/ {f[k].index : k \in R} # 0 .. n - 1
    BY <1>2, <1>4, <1>5, <1>6, Zenon
  <1>7. CASE ~(R = {} \/ {f[k].index : k \in R} # 0 .. n - 1)
    <2>1. ASSUME NEW i \in 1 .. m
          PROVE  (CHOOSE s \in T : s.index = i - 1) = f[CHOOSE k \in R : f[k].index = i - 1]
      <3>1. i - 1 \in {f[k].index : k \in R}
        <4>1. i - 1 \in 0 .. m - 1
          BY <1>3, <1>4
        <4>. QED  BY <1>4, <1>7, <4>1, Zenon
      <3>2. PICK k \in R : f[k].index = i - 1
        BY <3>1
      <3>3. (CHOOSE j \in R : f[j].index = i - 1) = k
        BY <3>2
      <3>4. f[k] \in T /\ \A s \in T : s.index = i - 1 => s = f[k]
        BY <1>4, <3>2
      <3>5. (CHOOSE s \in T : s.index = i - 1) = f[k]
        BY <3>2, <3>4
      <3>. QED  BY <3>3, <3>5
    <2>. DEFINE Left(i) == CHOOSE s \in T : s.index = i - 1
                Right(i) == f[CHOOSE k \in R : f[k].index = i - 1]
    <2>a. \A i \in 1 .. m : Left(i) = Right(i)
      BY <2>1
    <2>. HIDE DEF Left, Right
    <2>b. [i \in 1 .. m |-> Receipt(Left(i))] = [i \in 1 .. m |-> Receipt(Right(i))]
      BY <2>a
    <2>2. [i \in 1 .. m |-> Receipt(CHOOSE s \in T : s.index = i - 1)]
          = [i \in 1 .. m |-> Receipt(f[CHOOSE k \in R : f[k].index = i - 1])]
      BY <2>b DEF Left, Right
    <2>3. Fold(T) = [i \in 1 .. m |-> Receipt(CHOOSE s \in T : s.index = i - 1)]
      BY <1>2, <1>4, <1>5, <1>7, Zenon
    <2>. QED  BY <1>4, <1>7, <2>2, <2>3, Zenon
  <1>. QED  BY <1>6, <1>7

\* Two logs that agree on some receipts fold them alike.
FoldOver(events, R) == Fold({events[k] : k \in R})

LEMMA FoldAlike ==
    ASSUME NEW R, IsFiniteSet(R), NEW f, NEW g,
           \A j, k \in R : f[j].index = f[k].index => j = k,
           \A k \in R : /\ g[k].index = f[k].index /\ g[k].agent = f[k].agent
                        /\ g[k].status = f[k].status /\ g[k].attested = f[k].attested
    PROVE  FoldOver(g, R) = FoldOver(f, R)
  <1>. DEFINE n == Cardinality(R)
              Nth(i) == CHOOSE k \in R : f[k].index = i - 1
  <1>1. \A j, k \in R : g[j].index = g[k].index => j = k
    OBVIOUS
  <1>2. {g[k].index : k \in R} = {f[k].index : k \in R}
    OBVIOUS
  <1>3. \A i : (CHOOSE k \in R : g[k].index = i - 1) = Nth(i)
    <2>1. ASSUME NEW i PROVE \A k \in R : g[k].index = i - 1 <=> f[k].index = i - 1
      OBVIOUS
    <2>. QED  BY <2>1, Zenon
  <1>4. n \in Nat
    BY FS_CardinalityType
  <1>a. Fold({f[k] : k \in R}) =
          IF R = {} \/ {f[k].index : k \in R} # 0 .. n - 1 THEN Null
          ELSE [i \in 1 .. n |-> Receipt(f[CHOOSE k \in R : f[k].index = i - 1])]
    BY FoldIs
  <1>b. Fold({g[k] : k \in R}) =
          IF R = {} \/ {g[k].index : k \in R} # 0 .. n - 1 THEN Null
          ELSE [i \in 1 .. n |-> Receipt(g[CHOOSE k \in R : g[k].index = i - 1])]
    BY <1>1, FoldIs
  <1>5. CASE R = {} \/ {f[k].index : k \in R} # 0 .. n - 1
    BY <1>2, <1>5, <1>a, <1>b, Zenon DEF FoldOver
  <1>6. CASE ~(R = {} \/ {f[k].index : k \in R} # 0 .. n - 1)
    <2>1. ASSUME NEW i \in 1 .. n PROVE Receipt(g[Nth(i)]) = Receipt(f[Nth(i)])
      <3>1. i - 1 \in 0 .. n - 1
        BY <1>4
      <3>a. i - 1 \in {f[k].index : k \in R}
        BY <1>6, <3>1, Zenon
      <3>2. \E k \in R : f[k].index = i - 1
        BY <3>a
      <3>3. Nth(i) \in R
        BY <3>2
      <3>4. PICK k \in R : k = Nth(i)
        BY <3>3
      <3>. QED  BY <3>4 DEF Receipt
    <2>. HIDE DEF Nth
    <2>2. Fold({g[k] : k \in R}) = [i \in 1 .. n |-> Receipt(g[Nth(i)])]
      <3>1. Fold({g[k] : k \in R}) = [i \in 1 .. n |-> Receipt(g[CHOOSE k \in R : g[k].index = i - 1])]
        BY <1>2, <1>6, <1>b, Zenon
      <3>. DEFINE Gth(i) == CHOOSE k \in R : g[k].index = i - 1
      <3>2. \A i : Gth(i) = Nth(i)
        BY <1>3
      <3>. HIDE DEF Gth
      <3>3. [i \in 1 .. n |-> Receipt(g[Gth(i)])] = [i \in 1 .. n |-> Receipt(g[Nth(i)])]
        BY <3>2
      <3>. QED  BY <3>1, <3>3, Zenon DEF Gth
    <2>3. Fold({f[k] : k \in R}) = [i \in 1 .. n |-> Receipt(f[Nth(i)])]
      BY <1>6, <1>a, Zenon DEF Nth
    <2>. QED  BY <2>1, <2>2, <2>3, Zenon DEF FoldOver
  <1>. QED  BY <1>5, <1>6

-----------------------------------------------------------------------------
\* What the log's lawfulness says of any two events.
LEMMA LawfulIs ==
    ASSUME LogIsLawful, LogIsTyped, NEW i \in DOMAIN log
    PROVE  /\ log[i] \in ContractEvents /\ log[i].block \in Nat /\ log[i].block <= height
           /\ \A j \in 1 .. i - 1 : log[j].block <= log[i].block
           /\ \A j \in 1 .. i - 1 :
                 log[i].kind \in {"step", "seal"} /\ log[j].kind = "seal" => log[j].run # log[i].run
           /\ \A j \in 1 .. i - 1 :
                 log[i].kind = "step" /\ log[j].kind = "step" /\ log[j].run = log[i].run
                 => log[j].index # log[i].index
           /\ log[i].kind = "seal" =>
                 log[i].root # Null /\ log[i].root = Fold({log[j] : j \in StepsBefore(i, log[i].run)})
  <1>1. LawfulAt(i)
    BY DEF LogIsLawful
  <1>2. log[i] \in ContractEvents
    BY DEF LogIsTyped
  <1>3. log[i].block \in 0 .. MaxBlocks
    BY <1>2, EventKinds
  <1>4. \A j \in 1 .. i - 1 : log[j].kind = "step" /\ log[j].run = log[i].run => j \in StepsBefore(i, log[i].run)
    BY DEF StepsBefore
  <1>. QED  BY <1>1, <1>2, <1>3, <1>4, MaxBlocksNat DEF LawfulAt

LEMMA ReceiptsApart ==
    ASSUME LogIsLawful, LogIsTyped, NEW i \in DOMAIN log, NEW j \in DOMAIN log,
           log[i].run = log[j].run,
           \/ log[i].kind = "step" /\ log[j].kind = "step" /\ log[i].index = log[j].index
           \/ log[i].kind = "seal" /\ log[j].kind = "seal"
    PROVE  i = j
  <1>1. i \in Nat \ {0} /\ j \in Nat \ {0}
    BY DEF LogIsTyped
  <1>2. ~(i < j)
    <2>. SUFFICES ASSUME i < j PROVE FALSE
      OBVIOUS
    <2>1. i \in 1 .. j - 1
      BY <1>1
    <2>. QED  BY <2>1, LawfulIs
  <1>3. ~(j < i)
    <2>. SUFFICES ASSUME j < i PROVE FALSE
      OBVIOUS
    <2>1. j \in 1 .. i - 1
      BY <1>1
    <2>. QED  BY <2>1, LawfulIs
  <1>. QED  BY <1>1, <1>2, <1>3

\* Events below a block are the first ones.
LEMMA BelowIsAPrefix ==
    ASSUME LogIsLawful, LogIsTyped, NEW block \in Nat
    PROVE  {k \in DOMAIN log : log[k].block < block} = 1 .. Below(block)
  <1>. DEFINE D == {k \in DOMAIN log : log[k].block < block}
  <1>1. DOMAIN log = 1 .. Len(log) /\ Len(log) \in Nat
    BY DEF LogIsTyped
  <1>2. \A i \in D : \A j \in 1 .. i - 1 : j \in D
    <2>. SUFFICES ASSUME NEW i \in D, NEW j \in 1 .. i - 1 PROVE j \in D
      OBVIOUS
    <2>1. i \in DOMAIN log /\ log[i].block < block /\ i \in Nat
      BY <1>1
    <2>2. j \in DOMAIN log
      BY <1>1, <2>1
    <2>3. log[j].block <= log[i].block /\ log[i].block \in Nat /\ log[j].block \in Nat
      BY <2>1, <2>2, LawfulIs
    <2>. QED  BY <2>1, <2>2, <2>3
  <1>3. D \in SUBSET (1 .. Len(log))
    BY <1>1
  <1>4. Below(block) = Cardinality(D)
    BY DEF Below
  <1>a. PICK n \in Nat : n = Len(log)
    BY <1>1
  <1>. HIDE DEF D
  <1>b. \A k \in D : k \in Nat \ {0} /\ k <= n
    BY <1>3, <1>a
  <1>5. CASE D = {}
    <2>1. Cardinality(D) = 0
      BY <1>5, FS_EmptySet
    <2>2. 1 .. Below(block) = {}
      BY <1>4, <2>1
    <2>. QED  BY <1>5, <2>2, Zenon DEF D
  <1>6. CASE D # {}
    <2>. DEFINE T == {n - k : k \in D}
    <2>1. T \in SUBSET Nat /\ T # {}
      BY <1>6, <1>a, <1>b
    <2>2. PICK t \in T : \A u \in T : t <= u
      BY <2>1, LeastNatural
    <2>3. PICK m \in D : t = n - m
      BY <2>2
    <2>4. \A k \in D : n - k \in T
      OBVIOUS
    <2>5. \A k \in D : k <= m
      <3>. SUFFICES ASSUME NEW k \in D PROVE k <= m
        OBVIOUS
      <3>1. n - m <= n - k
        BY <2>2, <2>3, <2>4
      <3>2. k \in Nat /\ m \in Nat
        BY <1>b
      <3>. QED  BY <3>1, <3>2
    <2>6. D = 1 .. m /\ m \in Nat
      <3>1. m \in Nat \ {0}
        BY <1>b
      <3>2. \A k \in 1 .. m : k = m \/ k \in 1 .. m - 1
        BY <3>1
      <3>3. \A k \in 1 .. m : k \in D
        BY <1>2, <3>2
      <3>4. \A k \in D : k \in 1 .. m
        BY <1>b, <2>5, <3>1
      <3>. QED  BY <3>1, <3>3, <3>4
    <2>7. Cardinality(1 .. m) = m
      BY <2>6, FS_Interval
    <2>. QED  BY <1>4, <2>6, <2>7, Zenon DEF D
  <1>. QED  BY <1>5, <1>6

\* An event is as lawful in a log that begins alike.
LEMMA LawfulStays ==
    ASSUME LogIsLawful, NEW i \in DOMAIN log, log \in Seq(ContractEvents),
           \A j \in 1 .. i : log'[j] = log[j], log[i].block <= height'
    PROVE  LawfulAt(i)'
  <1>1. LawfulAt(i) /\ i \in Nat \ {0}
    BY DEF LogIsLawful
  <1>2. log'[i] = log[i] /\ \A j \in 1 .. i - 1 : log'[j] = log[j]
    BY <1>1
  <1>3. PICK run, R : run = log[i].run /\ R = StepsBefore(i, run)
    OBVIOUS
  <1>4. R \in SUBSET (1 .. i - 1)
    BY <1>3 DEF StepsBefore
  <1>5. StepsBefore(i, log[i].run)' = R
    <2>1. log'[i].run = run
      BY <1>2, <1>3
    <2>. QED  BY <1>2, <1>3, <2>1 DEF StepsBefore
  <1>6. {log'[j] : j \in R} = {log[j] : j \in R}
    BY <1>2, <1>4
  <1>7. /\ log'[i].block <= height' /\ \A j \in 1 .. i - 1 : log'[j].block <= log'[i].block
        /\ log'[i].kind \in {"step", "seal"} =>
              \A j \in 1 .. i - 1 : log'[j].kind = "seal" => log'[j].run # log'[i].run
    BY <1>1, <1>2 DEF LawfulAt
  <1>8. log'[i].kind = "step" => \A j \in R : log'[j].index # log'[i].index
    BY <1>1, <1>2, <1>3, <1>4 DEF LawfulAt
  <1>9. log'[i].kind = "seal" => log'[i].root # Null /\ log'[i].root = Fold({log'[j] : j \in R})
    <2>1. log[i].kind = "seal" => log[i].root # Null /\ log[i].root = Fold({log[j] : j \in R})
      BY <1>1, <1>3, Zenon DEF LawfulAt
    <2>. QED  BY <1>2, <1>6, <2>1, Zenon
  <1>. QED  BY <1>5, <1>7, <1>8, <1>9, Zenon DEF LawfulAt

-----------------------------------------------------------------------------
\* What the tables hold of the log.
LEMMA RowFields ==
    ASSUME NEW e \in ContractEvents
    PROVE  /\ e.kind = "step" =>
                 /\ Row(e).run = e.run /\ Row(e).index = e.index /\ Row(e).agent = e.agent
                 /\ Row(e).status = e.status /\ Row(e).attested = e.attested /\ Row(e).block = e.block
           /\ e.kind = "seal" => Row(e).run = e.run /\ Row(e).root = e.root /\ Row(e).block = e.block
  <1>1. CASE e.kind = "step"
    <2>1. e \in [kind : {"step"}, run : Runs, index : Nat, agent : Agents, status : Statuses, attested : BOOLEAN,
                 block : 0 .. MaxBlocks]
      BY <1>1 DEF ContractEvents
    <2>. QED  BY <1>1, <2>1 DEF Row
  <1>2. CASE e.kind = "seal"
    <2>1. e \in [kind : {"seal"}, run : Runs, root : Roots, outcome : Statuses, block : 0 .. MaxBlocks]
      BY <1>2 DEF ContractEvents
    <2>. QED  BY <1>2, <2>1 DEF Row
  <1>. QED  BY <1>1, <1>2

\* Steps and seals are written for themselves only; other events to other tables.
LEMMA WrittenRows ==
    ASSUME StoresMirror, NEW e \in ContractEvents, tables' = WriteTables(tables, e)
    PROVE  /\ e.kind = "step" =>
                 /\ tables'.steps = {r \in tables.steps : r.run # Row(e).run \/ r.index # Row(e).index} \cup {Row(e)}
                 /\ tables'.seals = tables.seals
           /\ e.kind = "seal" =>
                 /\ tables'.seals = {r \in tables.seals : r.run # Row(e).run} \cup {Row(e)}
                 /\ tables'.steps = tables.steps
           /\ e.kind \notin {"step", "seal"} => tables'.steps = tables.steps /\ tables'.seals = tables.seals
  <1>1. DOMAIN tables = TableFields
    BY DEF StoresMirror
  <1>2. CASE e.kind = "step"
    BY <1>1, <1>2 DEF WriteTables, SqlStep, TableFields
  <1>3. CASE e.kind = "seal"
    BY <1>1, <1>3 DEF WriteTables, SqlSeal, TableFields
  <1>4. CASE e.kind = "list"
    BY <1>1, <1>4 DEF WriteTables, SqlListing, TableFields
  <1>5. CASE e.kind = "unlist"
    BY <1>1, <1>5 DEF WriteTables, SqlDeactivate, TableFields
  <1>6. CASE e.kind = "bond"
    BY <1>1, <1>6 DEF WriteTables, SqlBond, TableFields
  <1>. QED  BY <1>2, <1>3, <1>4, <1>5, <1>6, EventKinds

\* An event that a pass writes again changes nothing; a new one lengthens the prefix.
LEMMA PrefixGrows ==
    ASSUME MirrorInv, LogIsLawful, NEW w \in applied .. Len(log), WrittenTo(w),
           tables' = WriteTables(tables, log[applied + 1]), applied < Len(log), UNCHANGED log
    PROVE  /\ \E v \in w .. Len(log) : v > applied /\ WrittenTo(v)'
           /\ tables.seals \subseteq tables'.seals
  <1>. DEFINE i == applied + 1
  <1>1. LogIsTyped /\ log \in Seq(ContractEvents) /\ applied \in Nat /\ Len(log) \in Nat
    BY DEF MirrorInv, LogIsTyped
  <1>2. PICK v \in w .. Len(log) : v > applied /\ \A k \in Nat \ {0} : k <= v <=> k <= w \/ k = i
    <2>1. CASE i <= w
      BY <1>1, <2>1
    <2>2. CASE ~(i <= w)
      <3>1. w = applied
        BY <1>1, <2>2
      <3>. QED  BY <1>1, <3>1
    <2>. QED  BY <2>1, <2>2
  <1>3. i \in DOMAIN log /\ log[i] \in ContractEvents /\ i \in Nat \ {0}
    BY <1>1
  <1>4. \A k \in 1 .. v : k \in DOMAIN log /\ log[k] \in ContractEvents
    BY <1>1, <1>2
  <1>. DEFINE Steps(n) == {j \in 1 .. n : log[j].kind = "step"}
              Seals(n) == {j \in 1 .. n : log[j].kind = "seal"}
  <1>5. 1 .. v = (1 .. w) \cup {i}
    BY <1>1, <1>2, <1>3
  <1>6. /\ tables.steps = {Row(log[k]) : k \in Steps(w)}
        /\ tables.seals = {Row(log[k]) : k \in Seals(w)}
    BY Zenon DEF WrittenTo
  <1>7. StoresMirror
    BY DEF MirrorInv
  <1>. HIDE DEF i
  <1>8. tables' = WriteTables(tables, log[i])
    BY DEF i
  <1>9. \A k \in 1 .. v : /\ log[k].kind = "step" => Row(log[k]).run = log[k].run /\ Row(log[k]).index = log[k].index
                          /\ log[k].kind = "seal" => Row(log[k]).run = log[k].run
    BY <1>4, RowFields
  <1>10. i \in 1 .. v
    BY <1>5
  <1>11. tables'.steps = {Row(log[k]) : k \in Steps(v)} /\ tables'.seals = {Row(log[k]) : k \in Seals(v)}
    <2>1. CASE log[i].kind = "step"
      <3>1. /\ tables'.steps = {r \in tables.steps : r.run # Row(log[i]).run \/ r.index # Row(log[i]).index}
                                  \cup {Row(log[i])}
            /\ tables'.seals = tables.seals
        BY <1>3, <1>7, <1>8, <2>1, WrittenRows
      <3>2. Steps(v) = Steps(w) \cup {i} /\ Seals(v) = Seals(w)
        BY <1>5, <2>1
      <3>3. ASSUME NEW k \in Steps(w), Row(log[k]).run = Row(log[i]).run, Row(log[k]).index = Row(log[i]).index
            PROVE  k = i
        <4>1. k \in 1 .. v /\ log[k].kind = "step"
          BY <3>2, <3>3
        <4>2. log[k].run = log[i].run /\ log[k].index = log[i].index
          BY <1>9, <1>10, <2>1, <3>3, <4>1
        <4>. QED  BY <1>1, <1>3, <1>4, <2>1, <4>1, <4>2, ReceiptsApart
      <3>. HIDE DEF Steps, Seals
      <3>4. tables'.steps = {Row(log[k]) : k \in Steps(w) \cup {i}}
        BY <1>6, <3>1, <3>3
      <3>. QED  BY <1>6, <3>1, <3>2, <3>4, Zenon
    <2>2. CASE log[i].kind = "seal"
      <3>1. /\ tables'.seals = {r \in tables.seals : r.run # Row(log[i]).run} \cup {Row(log[i])}
            /\ tables'.steps = tables.steps
        BY <1>3, <1>7, <1>8, <2>2, WrittenRows
      <3>2. Seals(v) = Seals(w) \cup {i} /\ Steps(v) = Steps(w)
        BY <1>5, <2>2
      <3>3. ASSUME NEW k \in Seals(w), Row(log[k]).run = Row(log[i]).run
            PROVE  k = i
        <4>1. k \in 1 .. v /\ log[k].kind = "seal"
          BY <3>2, <3>3
        <4>2. log[k].run = log[i].run
          BY <1>9, <1>10, <2>2, <3>3, <4>1
        <4>. QED  BY <1>1, <1>3, <1>4, <2>2, <4>1, <4>2, ReceiptsApart
      <3>. HIDE DEF Steps, Seals
      <3>4. tables'.seals = {Row(log[k]) : k \in Seals(w) \cup {i}}
        BY <1>6, <3>1, <3>3
      <3>. QED  BY <1>6, <3>1, <3>2, <3>4, Zenon
    <2>3. CASE log[i].kind \notin {"step", "seal"}
      <3>1. tables'.steps = tables.steps /\ tables'.seals = tables.seals
        BY <1>3, <1>7, <1>8, <2>3, WrittenRows
      <3>2. Steps(v) = Steps(w) /\ Seals(v) = Seals(w)
        BY <1>5, <2>3
      <3>. QED  BY <1>6, <3>1, <3>2, Zenon
    <2>. QED  BY <2>1, <2>2, <2>3
  <1>12. WrittenTo(v)'
    BY <1>11, Zenon DEF WrittenTo
  <1>13. tables.seals \subseteq tables'.seals
    <2>1. Seals(w) \subseteq Seals(v)
      BY <1>5
    <2>. HIDE DEF Seals, Steps
    <2>. QED  BY <1>6, <1>11, <2>1
  <1>. QED  BY <1>2, <1>12, <1>13

\* What survives a replaced block is what the shorter log left there.
LEMMA PrefixShrinks ==
    ASSUME MirrorInv, LogIsLawful, NEW w \in applied .. Len(log), WrittenTo(w), NEW block \in Nat,
           tables' = SqlRollback(tables, block), NEW b, b = Below(block), applied > b,
           log' = SubSeq(log, 1, b)
    PROVE  WrittenTo(b)'
  <1>1. LogIsTyped /\ log \in Seq(ContractEvents) /\ applied \in Nat /\ Len(log) \in Nat /\ DOMAIN log = 1 .. Len(log)
    BY DEF MirrorInv, LogIsTyped
  <1>2. {k \in DOMAIN log : log[k].block < block} = 1 .. Below(block) /\ Below(block) \in 0 .. Len(log)
    BY <1>1, BelowIsAPrefix, BelowIs
  <1>3. b \in 0 .. Len(log)
    BY <1>2
  <1>4. 1 .. b \subseteq 1 .. w /\ 1 .. w \subseteq DOMAIN log /\ b <= w
    BY <1>1, <1>3
  <1>5. \A k \in 1 .. w : log[k].block < block <=> k \in 1 .. b
    BY <1>2, <1>3, <1>4
  <1>6. \A k \in 1 .. w : log[k].kind \in {"step", "seal"} => Row(log[k]).block = log[k].block
    BY <1>1, <1>4, RowFields
  <1>7. \A k \in 1 .. b : log'[k] = log[k]
    BY <1>1, <1>3
  <1>8. DOMAIN tables = TableFields
    BY DEF MirrorInv, StoresMirror
  <1>9. /\ tables'.steps = {r \in tables.steps : r.block < block}
        /\ tables'.seals = {r \in tables.seals : r.block < block}
    BY <1>8 DEF SqlRollback, TableFields
  <1>. DEFINE Steps(n) == {j \in 1 .. n : log[j].kind = "step"}
              Seals(n) == {j \in 1 .. n : log[j].kind = "seal"}
  <1>10. /\ tables.steps = {Row(log[k]) : k \in Steps(w)}
         /\ tables.seals = {Row(log[k]) : k \in Seals(w)}
    BY Zenon DEF WrittenTo
  <1>11. /\ Steps(b) = {k \in Steps(w) : Row(log[k]).block < block}
         /\ Seals(b) = {k \in Seals(w) : Row(log[k]).block < block}
    BY <1>4, <1>5, <1>6
  <1>12. /\ {k \in 1 .. b : log'[k].kind = "step"} = Steps(b)
         /\ {k \in 1 .. b : log'[k].kind = "seal"} = Seals(b)
         /\ \A k \in Steps(b) \cup Seals(b) : log'[k] = log[k]
    BY <1>7
  <1>. HIDE DEF Steps, Seals
  <1>13. /\ tables'.steps = {Row(log[k]) : k \in Steps(b)}
         /\ tables'.seals = {Row(log[k]) : k \in Seals(b)}
    BY <1>9, <1>10, <1>11
  <1>14. /\ {Row(log'[k]) : k \in Steps(b)} = {Row(log[k]) : k \in Steps(b)}
         /\ {Row(log'[k]) : k \in Seals(b)} = {Row(log[k]) : k \in Seals(b)}
    <2>1. \A k \in Steps(b) \cup Seals(b) : Row(log'[k]) = Row(log[k])
      BY <1>12, Zenon
    <2>. QED  BY <2>1
  <1>15. /\ tables'.steps = {Row(log'[k]) : k \in {j \in 1 .. b : log'[j].kind = "step"}}
         /\ tables'.seals = {Row(log'[k]) : k \in {j \in 1 .. b : log'[j].kind = "seal"}}
    BY <1>12, <1>13, <1>14, Zenon
  <1>. QED  BY <1>15, Zenon DEF WrittenTo

-----------------------------------------------------------------------------
\* A block put on the given keeps the log lawful.
LEMMA PlacedFields ==
    ASSUME NEW before, NEW e \in ContractEvents, NEW block \in 0 .. MaxBlocks
    PROVE  /\ Placed(before, e, block).kind = e.kind /\ Placed(before, e, block).block = block
           /\ e.kind \in {"step", "seal"} => Placed(before, e, block).run = e.run
           /\ e.kind = "step" =>
                 /\ Placed(before, e, block).index = e.index /\ Placed(before, e, block).agent = e.agent
                 /\ Placed(before, e, block).status = e.status /\ Placed(before, e, block).attested = e.attested
           /\ e.kind = "seal" => Placed(before, e, block).root = FoldOf(before, e.run)
  <1>1. PICK root : root = FoldOf(before, e.run)
    OBVIOUS
  <1>2. CASE e.kind = "step"
    <2>1. e \in [kind : {"step"}, run : Runs, index : Nat, agent : Agents, status : Statuses, attested : BOOLEAN,
                 block : 0 .. MaxBlocks]
      BY <1>2 DEF ContractEvents
    <2>. QED  BY <1>2, <2>1 DEF Placed
  <1>3. CASE e.kind = "seal"
    <2>1. e \in [kind : {"seal"}, run : Runs, root : Roots, outcome : Statuses, block : 0 .. MaxBlocks]
      BY <1>3 DEF ContractEvents
    <2>2. Placed(before, e, block) = [e EXCEPT !.block = block, !.root = root]
      BY <1>1, <1>3 DEF Placed
    <2>. QED  BY <1>1, <1>3, <2>1, <2>2
  <1>4. CASE e.kind \notin {"step", "seal"}
    <2>1. Placed(before, e, block) = [e EXCEPT !.block = block]
      BY <1>4 DEF Placed
    <2>2. e \in [kind : {"list"}, agent : Agents, version : Nat, active : BOOLEAN, block : 0 .. MaxBlocks]
          \/ e \in [kind : {"unlist"}, agent : Agents, block : 0 .. MaxBlocks]
          \/ e \in [kind : {"bond"}, agent : Agents, amount : Nat, slashed : BOOLEAN, block : 0 .. MaxBlocks]
      BY <1>4 DEF ContractEvents
    <2>. QED  BY <1>4, <2>1, <2>2
  <1>. QED  BY <1>2, <1>3, <1>4

\* What MayLog asks of an event.
LEMMA MayLogIs ==
    ASSUME NEW before, NEW e, MayLog(before, e), e.kind \in {"step", "seal"}
    PROVE  /\ \A j \in DOMAIN before : before[j].kind = "seal" => before[j].run # e.run
           /\ e.kind = "step" => \A j \in Receipts(before, e.run) : before[j].index # e.index
           /\ e.kind = "seal" => FoldOf(before, e.run) # Null
  <1>1. CASE e.kind = "step"
    <2>1. /\ ~\E j \in DOMAIN before : before[j].kind = "seal" /\ before[j].run = e.run
          /\ \A j \in Receipts(before, e.run) : before[j].index # e.index
      BY <1>1 DEF MayLog
    <2>. QED  BY <1>1, <2>1
  <1>2. CASE e.kind = "seal"
    <2>1. /\ ~\E j \in DOMAIN before : before[j].kind = "seal" /\ before[j].run = e.run
          /\ FoldOf(before, e.run) # Null
      BY <1>2 DEF MayLog
    <2>. QED  BY <1>2, <2>1
  <1>. QED  BY <1>1, <1>2

\* The log before the k-th event of a block, as MayHold sees it and as it is placed.
SameButForBlocks(placed, before) ==
    \A j \in DOMAIN before :
       /\ before[j] \in ContractEvents /\ placed[j].kind = before[j].kind
       /\ before[j].kind \in {"step", "seal"} => placed[j].run = before[j].run
       /\ before[j].kind = "step" =>
             /\ placed[j].index = before[j].index /\ placed[j].agent = before[j].agent
             /\ placed[j].status = before[j].status /\ placed[j].attested = before[j].attested

\* An event placed at a position of the log, after the events before it.
IsPlaced(placed, before, at, event, block) ==
    /\ DOMAIN before = 1 .. at - 1
    /\ placed[at] = Placed(before, event, block)
    /\ SameButForBlocks(placed, before)

LEMMA PlacedAlike ==
    ASSUME NEW events \in Seq(ContractEvents), log \in Seq(ContractEvents),
           NEW block \in 0 .. MaxBlocks, log' = Place(log, events, block), NEW k \in DOMAIN events,
           NEW before, before = log \o SubSeq(events, 1, k - 1)
    PROVE  IsPlaced(log', before, Len(log) + k, events[k], block)
  <1>. DEFINE Pre(i) == log \o SubSeq(events, 1, i - 1)
  <1>1. PICK n \in Nat, m \in Nat : n = Len(log) /\ m = Len(events)
    OBVIOUS
  <1>2. DOMAIN log = 1 .. n /\ DOMAIN events = 1 .. m /\ k \in 1 .. m
    BY <1>1
  <1>a. /\ \A j \in DOMAIN log : Place(log, events, block)[j] = log[j]
        /\ \A i \in DOMAIN events : Place(log, events, block)[Len(log) + i]
                                     = Placed(log \o SubSeq(events, 1, i - 1), events[i], block)
    BY PlaceIs
  <1>3. \A i \in 1 .. m : log'[n + i] = Placed(Pre(i), events[i], block)
    BY <1>1, <1>2, <1>a, Zenon
  <1>4. \A j \in 1 .. n : log'[j] = log[j]
    BY <1>2, <1>a, Zenon
  <1>5. PICK head : head = SubSeq(events, 1, k - 1)
    OBVIOUS
  <1>6. head \in Seq(ContractEvents) /\ Len(head) = k - 1 /\ \A i \in 1 .. k - 1 : head[i] = events[i]
    BY <1>1, <1>2, <1>5
  <1>7. before = log \o head
    BY <1>5
  <1>8. before \in Seq(ContractEvents) /\ Len(before) = n + k - 1
    <2>1. before \in Seq(ContractEvents) /\ Len(before) = Len(log) + Len(head)
      BY <1>6, <1>7, ConcatProperties
    <2>. QED  BY <1>1, <1>2, <1>6, <2>1
  <1>9. DOMAIN before = 1 .. n + k - 1
    BY <1>1, <1>2, <1>8
  <1>10. \A j \in 1 .. n : before[j] = log[j]
    BY <1>1, <1>6, <1>7
  <1>11. \A i \in 1 .. k - 1 : before[n + i] = events[i]
    BY <1>1, <1>2, <1>6, <1>7
  <1>. HIDE DEF Pre
  <1>12. ASSUME NEW j \in 1 .. n + k - 1
         PROVE  /\ before[j] \in ContractEvents /\ log'[j].kind = before[j].kind
                /\ before[j].kind \in {"step", "seal"} => log'[j].run = before[j].run
                /\ before[j].kind = "step" =>
                      /\ log'[j].index = before[j].index /\ log'[j].agent = before[j].agent
                      /\ log'[j].status = before[j].status /\ log'[j].attested = before[j].attested
    <2>1. before[j] \in ContractEvents
      BY <1>8, <1>9
    <2>2. CASE j \in 1 .. n
      BY <1>4, <1>10, <2>1, <2>2
    <2>3. CASE j \notin 1 .. n
      <3>1. PICK i \in 1 .. k - 1 : j = n + i
        <4>1. j - n \in 1 .. k - 1 /\ j = n + (j - n)
          BY <1>1, <1>2, <2>3
        <4>. QED  BY <4>1
      <3>2. i \in 1 .. m
        BY <1>1, <1>2, <3>1
      <3>3. events[i] \in ContractEvents
        BY <1>2, <3>2
      <3>4. PICK pre : pre = Pre(i)
        OBVIOUS
      <3>5. log'[j] = Placed(pre, events[i], block) /\ before[j] = events[i]
        BY <1>3, <1>11, <3>1, <3>2, <3>4
      <3>6. PICK e \in ContractEvents : e = events[i]
        BY <3>3
      <3>7. /\ Placed(pre, e, block).kind = e.kind
            /\ e.kind \in {"step", "seal"} => Placed(pre, e, block).run = e.run
            /\ e.kind = "step" =>
                  /\ Placed(pre, e, block).index = e.index /\ Placed(pre, e, block).agent = e.agent
                  /\ Placed(pre, e, block).status = e.status /\ Placed(pre, e, block).attested = e.attested
        BY PlacedFields
      <3>. QED  BY <3>5, <3>6, <3>7
    <2>. QED  BY <2>2, <2>3
  <1>13. log'[n + k] = Placed(before, events[k], block)
    BY <1>2, <1>3, <1>5, <1>7 DEF Pre
  <1>14. SameButForBlocks(log', before)
    BY <1>9, <1>12, Zenon DEF SameButForBlocks
  <1>15. Len(log) + k = n + k /\ n + k - 1 = (n + k) - 1
    BY <1>1, <1>2
  <1>. QED  BY <1>9, <1>13, <1>14, <1>15 DEF IsPlaced

LEMMA AddBlockLawful == ASSUME MirrorInv, LogIsLawful, AddBlock PROVE LogIsLawful'
  <1>1. PICK events \in Blocks : MayHold(log, events) /\ log' = Place(log, events, height + 1)
    BY DEF AddBlock
  <1>2. /\ log \in Seq(ContractEvents) /\ events \in Seq(ContractEvents) /\ height' = height + 1
        /\ height \in Nat /\ height + 1 \in 0 .. MaxBlocks /\ LogIsTyped
    BY <1>1, BlocksHoldEvents, MaxBlocksNat DEF AddBlock, MirrorInv, LogIsTyped
  <1>3. PICK n \in Nat, m \in Nat, top \in 0 .. MaxBlocks : n = Len(log) /\ m = Len(events) /\ top = height + 1
    BY <1>2
  <1>4. log' \in Seq(ContractEvents) /\ Len(log') = n + m /\ \A j \in 1 .. n : log'[j] = log[j]
    <2>1. DOMAIN log = 1 .. n
      BY <1>2, <1>3
    <2>2. log' = Place(log, events, top)
      BY <1>1, <1>3
    <2>. QED  BY <1>2, <1>3, <2>1, <2>2, PlaceIs
  <1>5. DOMAIN log = 1 .. n /\ DOMAIN events = 1 .. m /\ DOMAIN log' = 1 .. n + m
    BY <1>2, <1>3, <1>4
  <1>6. ASSUME NEW i \in 1 .. n PROVE LawfulAt(i)'
    <2>1. \A j \in 1 .. i : log'[j] = log[j]
      BY <1>3, <1>4
    <2>2. log[i].block <= height /\ log[i].block \in Nat
      BY <1>2, <1>5, LawfulIs
    <2>3. log[i].block <= height'
      BY <1>2, <2>2
    <2>4. i \in DOMAIN log
      BY <1>5
    <2>. QED  BY <1>2, <2>1, <2>3, <2>4, LawfulStays
  <1>. DEFINE Pre(k) == log \o SubSeq(events, 1, k - 1)
  <1>7. \A k \in 1 .. m : MayLog(Pre(k), events[k]) /\ events[k] \in ContractEvents
    BY <1>1, <1>2, <1>5 DEF MayHold
  <1>8. ASSUME NEW k \in 1 .. m
        PROVE  /\ DOMAIN Pre(k) = 1 .. n + k - 1
               /\ log'[n + k] = Placed(Pre(k), events[k], top)
               /\ \A j \in 1 .. n + k - 1 :
                     /\ log'[j].kind = Pre(k)[j].kind
                     /\ Pre(k)[j].kind \in {"step", "seal"} => log'[j].run = Pre(k)[j].run
                     /\ Pre(k)[j].kind = "step" =>
                           /\ log'[j].index = Pre(k)[j].index /\ log'[j].agent = Pre(k)[j].agent
                           /\ log'[j].status = Pre(k)[j].status /\ log'[j].attested = Pre(k)[j].attested
    <2>1. k \in DOMAIN events /\ log' = Place(log, events, top)
      BY <1>1, <1>3, <1>5
    <2>2. PICK before : before = log \o SubSeq(events, 1, k - 1)
      OBVIOUS
    <2>3. /\ DOMAIN before = 1 .. n + k - 1
          /\ log'[n + k] = Placed(before, events[k], top)
          /\ SameButForBlocks(log', before)
      <3>1. events \in Seq(ContractEvents) /\ log \in Seq(ContractEvents)
        BY <1>2
      <3>2. IsPlaced(log', before, Len(log) + k, events[k], top)
        BY <2>1, <2>2, <3>1, PlacedAlike
      <3>3. Len(log) + k = n + k /\ n + k - 1 = (n + k) - 1
        BY <1>3
      <3>. QED  BY <3>2, <3>3 DEF IsPlaced
    <2>4. Pre(k) = before
      BY <2>2
    <2>. HIDE DEF Pre
    <2>. QED  BY <1>3, <2>3, <2>4 DEF SameButForBlocks
  <1>. HIDE DEF Pre
  <1>9. \A k \in 1 .. m : log'[n + k].block = top
    <2>. SUFFICES ASSUME NEW k \in 1 .. m PROVE log'[n + k].block = top
      OBVIOUS
    <2>1. PICK before, e : before = Pre(k) /\ e = events[k]
      OBVIOUS
    <2>2. e \in ContractEvents /\ log'[n + k] = Placed(before, e, top)
      BY <1>7, <1>8, <2>1
    <2>. QED  BY <2>2, PlacedFields
  <1>10. \A j \in 1 .. n + m : log'[j].block \in Nat /\ log'[j].block <= top
    <2>. SUFFICES ASSUME NEW j \in 1 .. n + m PROVE log'[j].block \in Nat /\ log'[j].block <= top
      OBVIOUS
    <2>1. CASE j \in 1 .. n
      <3>1. log[j].block \in Nat /\ log[j].block <= height
        BY <1>2, <1>5, <2>1, LawfulIs
      <3>. QED  BY <1>2, <1>3, <1>4, <2>1, <3>1
    <2>2. CASE j \notin 1 .. n
      <3>1. j - n \in 1 .. m /\ j = n + (j - n)
        BY <2>2
      <3>2. log'[j].block = top
        BY <1>9, <3>1
      <3>. QED  BY <1>2, <1>3, <3>2
    <2>. QED  BY <2>1, <2>2
  <1>11. ASSUME NEW k \in 1 .. m
         PROVE  /\ log'[n + k].kind \in {"step", "seal"} =>
                      \A j \in 1 .. n + k - 1 : log'[j].kind = "seal" => log'[j].run # log'[n + k].run
                /\ log'[n + k].kind = "step" =>
                      \A j \in 1 .. n + k - 1 :
                         log'[j].kind = "step" /\ log'[j].run = log'[n + k].run => log'[j].index # log'[n + k].index
                /\ log'[n + k].kind = "seal" =>
                      /\ FoldOf(Pre(k), log'[n + k].run) # Null
                      /\ log'[n + k].root = FoldOf(Pre(k), log'[n + k].run)
    <2>1. PICK before, e, new : before = Pre(k) /\ e = events[k] /\ new = log'[n + k]
      OBVIOUS
    <2>2. MayLog(before, e) /\ e \in ContractEvents /\ new = Placed(before, e, top)
      BY <1>7, <1>8, <2>1
    <2>3. /\ new.kind = e.kind
          /\ e.kind \in {"step", "seal"} => new.run = e.run
          /\ e.kind = "step" => new.index = e.index
          /\ e.kind = "seal" => new.root = FoldOf(before, e.run)
      BY <2>2, PlacedFields
    <2>4. e.kind \in {"step", "seal"} =>
             /\ \A j \in DOMAIN before : before[j].kind = "seal" => before[j].run # e.run
             /\ e.kind = "step" => \A j \in Receipts(before, e.run) : before[j].index # e.index
             /\ e.kind = "seal" => FoldOf(before, e.run) # Null
      BY <2>2, MayLogIs
    <2>5. /\ DOMAIN before = 1 .. n + k - 1
          /\ \A j \in 1 .. n + k - 1 :
                /\ log'[j].kind = before[j].kind
                /\ before[j].kind \in {"step", "seal"} => log'[j].run = before[j].run
                /\ before[j].kind = "step" => log'[j].index = before[j].index
      BY <1>8, <2>1
    <2>6. new.kind \in {"step", "seal"} =>
             \A j \in 1 .. n + k - 1 : log'[j].kind = "seal" => log'[j].run # new.run
      BY <2>3, <2>4, <2>5
    <2>7. new.kind = "step" =>
             \A j \in 1 .. n + k - 1 : log'[j].kind = "step" /\ log'[j].run = new.run => log'[j].index # new.index
      BY <2>3, <2>4, <2>5 DEF Receipts
    <2>8. new.kind = "seal" => FoldOf(before, new.run) # Null /\ new.root = FoldOf(before, new.run)
      BY <2>3, <2>4
    <2>. QED  BY <2>1, <2>6, <2>7, <2>8
  <1>12. \A i \in 1 .. n + m : \A j \in 1 .. i - 1 :
            log'[i].kind = "step" /\ log'[j].kind = "step" /\ log'[j].run = log'[i].run
            => log'[j].index # log'[i].index
    <2>. SUFFICES ASSUME NEW i \in 1 .. n + m, NEW j \in 1 .. i - 1,
                         log'[i].kind = "step", log'[j].kind = "step", log'[j].run = log'[i].run
                  PROVE  log'[j].index # log'[i].index
      OBVIOUS
    <2>1. CASE i \in 1 .. n
      <3>1. log'[i] = log[i] /\ log'[j] = log[j] /\ i \in DOMAIN log
        BY <1>4, <1>5, <2>1
      <3>. QED  BY <1>2, <3>1, LawfulIs
    <2>2. CASE i \notin 1 .. n
      <3>1. PICK k \in 1 .. m : i = n + k
        <4>1. i - n \in 1 .. m /\ i = n + (i - n)
          BY <2>2
        <4>. QED  BY <4>1
      <3>2. j \in 1 .. n + k - 1 /\ log'[n + k].kind = "step" /\ log'[j].run = log'[n + k].run
        BY <3>1
      <3>3. log'[j].index # log'[n + k].index
        BY <1>11, <3>2
      <3>. QED  BY <3>1, <3>3
    <2>. QED  BY <2>1, <2>2
  <1>13. ASSUME NEW k \in 1 .. m PROVE LawfulAt(n + k)'
    <2>1. PICK i, run : i = n + k /\ run = log'[i].run
      OBVIOUS
    <2>2. i \in 1 .. n + m /\ i \in Nat /\ 1 .. i - 1 = 1 .. n + k - 1
      BY <2>1
    <2>3. PICK R : R = {j \in 1 .. i - 1 : log'[j].kind = "step" /\ log'[j].run = run}
      OBVIOUS
    <2>4. StepsBefore(i, log[i].run)' = R
      BY <2>1, <2>3 DEF StepsBefore
    <2>5. log'[i].block = top /\ top = height' /\ \A j \in 1 .. i - 1 : log'[j].block <= top
      BY <1>2, <1>3, <1>9, <1>10, <2>1, <2>2
    <2>6. top <= top
      BY <1>3
    <2>7. log'[i].kind = "step" => \A j \in R : log'[j].index # log'[i].index
      BY <1>12, <2>1, <2>2, <2>3
    <2>8. log'[i].kind \in {"step", "seal"} =>
             \A j \in 1 .. i - 1 : log'[j].kind = "seal" => log'[j].run # log'[i].run
      BY <1>11, <2>1, <2>2
    <2>9. log'[i].kind = "seal" => log'[i].root # Null /\ log'[i].root = Fold({log'[j] : j \in R})
      <3>. SUFFICES ASSUME log'[i].kind = "seal"
                    PROVE  log'[i].root # Null /\ log'[i].root = Fold({log'[j] : j \in R})
        OBVIOUS
      <3>1. PICK before, given : before = Pre(k) /\ given = log'
        OBVIOUS
      <3>2. FoldOf(before, run) # Null /\ log'[i].root = FoldOf(before, run)
        BY <1>11, <2>1, <3>1
      <3>3. Receipts(before, run) = R
        BY <1>8, <2>1, <2>2, <2>3, <3>1 DEF Receipts
      <3>4. FoldOf(before, run) = Fold({before[j] : j \in R})
        BY <3>3, Zenon DEF FoldOf
      <3>5. IsFiniteSet(R)
        <4>1. IsFiniteSet(1 .. i - 1)
          BY <2>2, FS_Interval
        <4>2. R \in SUBSET (1 .. i - 1)
          BY <2>3
        <4>. QED  BY <4>1, <4>2, FS_Subset
      <3>6. \A j, l \in R : given[j].index = given[l].index => j = l
        <4>. SUFFICES ASSUME NEW j \in R, NEW l \in R, given[j].index = given[l].index PROVE j = l
          OBVIOUS
        <4>1. /\ j \in 1 .. n + m /\ l \in 1 .. n + m
              /\ log'[j].kind = "step" /\ log'[l].kind = "step" /\ log'[j].run = log'[l].run
          BY <2>2, <2>3
        <4>2. ~(j < l)
          <5>. SUFFICES ASSUME j < l PROVE FALSE
            OBVIOUS
          <5>1. j \in 1 .. l - 1
            BY <4>1
          <5>. QED  BY <1>12, <3>1, <4>1, <5>1
        <4>3. ~(l < j)
          <5>. SUFFICES ASSUME l < j PROVE FALSE
            OBVIOUS
          <5>1. l \in 1 .. j - 1
            BY <4>1
          <5>. QED  BY <1>12, <3>1, <4>1, <5>1
        <4>. QED  BY <4>1, <4>2, <4>3
      <3>7. \A j \in R : /\ before[j].index = given[j].index /\ before[j].agent = given[j].agent
                         /\ before[j].status = given[j].status /\ before[j].attested = given[j].attested
        <4>1. \A j \in 1 .. n + k - 1 :
                 /\ log'[j].kind = before[j].kind
                 /\ before[j].kind = "step" =>
                       /\ log'[j].index = before[j].index /\ log'[j].agent = before[j].agent
                       /\ log'[j].status = before[j].status /\ log'[j].attested = before[j].attested
          BY <1>8, <3>1
        <4>. QED  BY <2>2, <2>3, <3>1, <4>1
      <3>8. FoldOver(before, R) = FoldOver(given, R)
        BY <3>5, <3>6, <3>7, FoldAlike
      <3>9. Fold({before[j] : j \in R}) = Fold({given[j] : j \in R})
        BY <3>8, Zenon DEF FoldOver
      <3>. QED  BY <3>1, <3>2, <3>4, <3>9
    <2>10. LawfulAt(i)'
      BY <2>4, <2>5, <2>6, <2>7, <2>8, <2>9, Zenon DEF LawfulAt
    <2>. QED  BY <2>1, <2>10
  <1>14. ASSUME NEW i \in 1 .. n + m PROVE LawfulAt(i)'
    <2>1. CASE i \in 1 .. n
      BY <1>6, <2>1
    <2>2. CASE i \notin 1 .. n
      <3>1. PICK k \in 1 .. m : i = n + k
        <4>1. i - n \in 1 .. m /\ i = n + (i - n)
          BY <2>2
        <4>. QED  BY <4>1
      <3>. QED  BY <1>13, <3>1
    <2>. QED  BY <2>1, <2>2
  <1>. QED  BY <1>5, <1>14, Zenon DEF LogIsLawful

LEMMA RollbackLawful == ASSUME MirrorInv, LogIsLawful, Rollback PROVE LogIsLawful'
  <1>1. PICK b : b = Below(height)
    OBVIOUS
  <1>2. /\ log \in Seq(ContractEvents) /\ LogIsTyped /\ height \in Nat \ {0} /\ height' = height - 1
        /\ log' = SubSeq(log, 1, b)
    BY <1>1, MaxBlocksNat DEF Rollback, MirrorInv, LogIsTyped, StoresMirror
  <1>3. {k \in DOMAIN log : log[k].block < height} = 1 .. b /\ b \in 0 .. Len(log)
    BY <1>1, <1>2, BelowIsAPrefix, BelowIs
  <1>4. DOMAIN log' = 1 .. b /\ \A j \in 1 .. b : log'[j] = log[j]
    BY <1>2, <1>3
  <1>5. ASSUME NEW i \in 1 .. b PROVE LawfulAt(i)'
    <2>1. i \in DOMAIN log /\ log[i].block < height
      BY <1>3
    <2>2. log[i].block \in Nat
      BY <1>2, <2>1, LawfulIs
    <2>3. log[i].block <= height'
      BY <1>2, <2>1, <2>2
    <2>4. \A j \in 1 .. i : log'[j] = log[j]
      BY <1>3, <1>4
    <2>. QED  BY <1>2, <2>1, <2>3, <2>4, LawfulStays
  <1>. QED  BY <1>4, <1>5, Zenon DEF LogIsLawful

LEMMA LawfulNext ==
    ASSUME MirrorInv, LogIsLawful, [ExplorerNext]_explorerVars
    PROVE  LogIsLawful'
  <1>1. CASE AddBlock
    BY <1>1, AddBlockLawful
  <1>2. CASE Rollback
    BY <1>2, RollbackLawful
  <1>3. CASE ~AddBlock /\ ~Rollback
    <2>1. UNCHANGED <<log, height>>
      BY <1>3 DEF ExplorerNext, Ingest, EndBatch, FailPass, StartProbes, ProbeAnswered, AskRun, AskAgent, Query,
                  explorerVars
    <2>2. \A i : LawfulAt(i)' = LawfulAt(i)
      BY <2>1, Zenon DEF LawfulAt, StepsBefore
    <2>. QED  BY <2>1, <2>2, Zenon DEF LogIsLawful
  <1>. QED  BY <1>1, <1>2, <1>3

-----------------------------------------------------------------------------
\* The prefix of the log that is written.
LEMMA WrittenStays ==
    ASSUME NEW w \in Nat, WrittenTo(w), tables'.steps = tables.steps, tables'.seals = tables.seals,
           \A k \in 1 .. w : log'[k] = log[k]
    PROVE  WrittenTo(w)'
  <1>. DEFINE Steps == {j \in 1 .. w : log[j].kind = "step"}
              Seals == {j \in 1 .. w : log[j].kind = "seal"}
  <1>1. /\ {j \in 1 .. w : log'[j].kind = "step"} = Steps /\ {j \in 1 .. w : log'[j].kind = "seal"} = Seals
        /\ \A k \in Steps \cup Seals : Row(log'[k]) = Row(log[k])
    <2>1. \A k \in 1 .. w : Row(log'[k]) = Row(log[k])
      BY Zenon
    <2>. QED  BY <2>1
  <1>2. tables.steps = {Row(log[k]) : k \in Steps} /\ tables.seals = {Row(log[k]) : k \in Seals}
    BY Zenon DEF WrittenTo
  <1>. HIDE DEF Steps, Seals
  <1>3. /\ {Row(log'[k]) : k \in Steps} = {Row(log[k]) : k \in Steps}
        /\ {Row(log'[k]) : k \in Seals} = {Row(log[k]) : k \in Seals}
    BY <1>1
  <1>4. /\ tables'.steps = {Row(log'[k]) : k \in {j \in 1 .. w : log'[j].kind = "step"}}
        /\ tables'.seals = {Row(log'[k]) : k \in {j \in 1 .. w : log'[j].kind = "seal"}}
    BY <1>1, <1>2, <1>3, Zenon
  <1>. QED  BY <1>4, Zenon DEF WrittenTo

LEMMA WrittenNext ==
    ASSUME MirrorInv, MirrorInv', LogIsLawful, APrefixIsWritten, [ExplorerNext]_explorerVars
    PROVE  APrefixIsWritten' /\ (Rollback \/ tables.seals \subseteq tables'.seals)
  <1>1. PICK w \in applied .. Len(log) : WrittenTo(w)
    BY DEF APrefixIsWritten
  <1>2. /\ log \in Seq(ContractEvents) /\ Len(log) \in Nat /\ applied \in Nat /\ applied <= Len(log)
        /\ w \in Nat /\ applied <= w /\ w <= Len(log) /\ DOMAIN tables = TableFields
    BY <1>1 DEF MirrorInv, LogIsTyped, StoresMirror
  <1>3. CASE Ingest
    <2>1. /\ tables' = WriteTables(tables, log[applied + 1]) /\ applied < Len(log)
          /\ UNCHANGED log /\ applied' = applied + 1
      BY <1>3 DEF Ingest, NextEvent
    <2>2. (\E v \in w .. Len(log) : v > applied /\ WrittenTo(v)') /\ tables.seals \subseteq tables'.seals
      BY <1>1, <2>1, PrefixGrows
    <2>3. PICK v \in w .. Len(log) : v > applied /\ WrittenTo(v)'
      BY <2>2
    <2>4. v \in applied' .. Len(log)'
      BY <1>2, <2>1, <2>3
    <2>. QED  BY <2>2, <2>3, <2>4, Zenon DEF APrefixIsWritten
  <1>4. CASE Rollback
    <2>1. PICK b : b = Below(height)
      OBVIOUS
    <2>2. /\ tables' = SqlRollback(tables, height) /\ applied > b /\ log' = SubSeq(log, 1, b) /\ applied' = b
          /\ height \in Nat
      BY <1>4, <2>1, MaxBlocksNat DEF Rollback, MirrorInv, LogIsTyped
    <2>3. WrittenTo(b)'
      BY <1>1, <2>1, <2>2, PrefixShrinks
    <2>4. b \in 0 .. Len(log)
      BY <1>2, <2>1, BelowIs
    <2>5. b \in applied' .. Len(log)'
      BY <1>2, <2>2, <2>4
    <2>. QED  BY <1>4, <2>3, <2>5, Zenon DEF APrefixIsWritten
  <1>5. CASE ~Ingest /\ ~Rollback
    <2>1. tables'.steps = tables.steps /\ tables'.seals = tables.seals
      <3>1. CASE EndBatch
        BY <1>2, <3>1 DEF EndBatch, TableFields
      <3>2. CASE ProbeAnswered
        <4>1. PICK a \in probing, response \in Responses : tables' = SqlHealth(tables, a, Healthy(response))
          BY <3>2 DEF ProbeAnswered
        <4>. QED  BY <1>2, <4>1 DEF SqlHealth, TableFields
      <3>3. CASE ~EndBatch /\ ~ProbeAnswered
        BY <1>5, <3>3 DEF ExplorerNext, AddBlock, FailPass, StartProbes, AskRun, AskAgent, Query, explorerVars
      <3>. QED  BY <3>1, <3>2, <3>3
    <2>2. (\A k \in 1 .. w : log'[k] = log[k]) /\ w <= Len(log')
      <3>1. CASE AddBlock
        <4>1. PICK events \in Blocks : log' = Place(log, events, height + 1)
          BY <3>1 DEF AddBlock
        <4>2. events \in Seq(ContractEvents) /\ height + 1 \in 0 .. MaxBlocks
          BY <3>1, BlocksHoldEvents, MaxBlocksNat DEF AddBlock, MirrorInv, LogIsTyped
        <4>3. Len(log') = Len(log) + Len(events) /\ \A k \in DOMAIN log : log'[k] = log[k]
          BY <1>2, <4>1, <4>2, PlaceIs
        <4>. QED  BY <1>2, <4>2, <4>3
      <3>2. CASE ~AddBlock
        <4>1. UNCHANGED log
          BY <1>5, <3>2 DEF ExplorerNext, EndBatch, FailPass, StartProbes, ProbeAnswered, AskRun, AskAgent, Query,
                            explorerVars
        <4>. QED  BY <1>2, <4>1
      <3>. QED  BY <3>1, <3>2
    <2>3. applied' <= w /\ applied' \in Nat
      <3>1. CASE FailPass
        <4>1. PICK b : b = Below(tables.cursor + 1)
          OBVIOUS
        <4>2. b \in 0 .. Len(log) /\ applied > b /\ applied' = b
          BY <1>2, <3>1, <4>1, BelowIs DEF FailPass
        <4>. QED  BY <1>2, <4>2
      <3>2. CASE ~FailPass
        <4>1. UNCHANGED applied
          BY <1>5, <3>2 DEF ExplorerNext, AddBlock, EndBatch, StartProbes, ProbeAnswered, AskRun, AskAgent, Query,
                            explorerVars
        <4>. QED  BY <1>2, <4>1
      <3>. QED  BY <3>1, <3>2
    <2>4. WrittenTo(w)'
      BY <1>1, <1>2, <2>1, <2>2, WrittenStays
    <2>5. w \in applied' .. Len(log)'
      <3>1. Len(log') \in Nat
        BY DEF MirrorInv, LogIsTyped
      <3>. QED  BY <1>2, <2>2, <2>3, <3>1
    <2>. QED  BY <2>1, <2>4, <2>5, Zenon DEF APrefixIsWritten
  <1>. QED  BY <1>3, <1>4, <1>5

-----------------------------------------------------------------------------
\* A request between its queries.
RequestFields == {"pc", "key", "run", "steps", "listed", "stats", "runs"}

\* A run that is shown as sealed has its seal in the table.
LEMMA RunHasSeal ==
    ASSUME NEW run, StoresMirror, SqlRun(tables, run).sealed
    PROVE  \E s \in tables.seals : s.run = run /\ s.root = SqlRun(tables, run).chainRoot
  <1>1. PICK rows, x : rows = Joined(tables, run) /\ x = CHOOSE s \in Partners(tables, run) : TRUE
    OBVIOUS
  <1>2. SqlRun(tables, run) =
          [run |-> run, stepCount |-> CountSteps(rows), sealed |-> x # Null,
           chainRoot |-> IF x = Null THEN Null ELSE x.root,
           outcome |-> IF x = Null THEN Null ELSE x.outcome,
           firstBlock |-> FirstBlock(rows), lastBlock |-> LastBlock(rows)]
    BY <1>1 DEF SqlRun
  <1>a. SqlRun(tables, run).sealed => x # Null
    <2>1. PICK sealed : sealed = (x # Null)
      OBVIOUS
    <2>2. SqlRun(tables, run) =
            [run |-> run, stepCount |-> CountSteps(rows), sealed |-> sealed,
             chainRoot |-> IF x = Null THEN Null ELSE x.root,
             outcome |-> IF x = Null THEN Null ELSE x.outcome,
             firstBlock |-> FirstBlock(rows), lastBlock |-> LastBlock(rows)]
      BY <1>2, <2>1, Zenon
    <2>3. SqlRun(tables, run).sealed = sealed
      BY <2>2
    <2>. QED  BY <2>1, <2>3, Zenon
  <1>b. SqlRun(tables, run).chainRoot = IF x = Null THEN Null ELSE x.root
    BY <1>2
  <1>3. x # Null /\ SqlRun(tables, run).chainRoot = x.root
    BY <1>a, <1>b, Zenon
  <1>4. x \in Partners(tables, run)
    <2>1. Partners(tables, run) # {}
      BY DEF Partners
    <2>. QED  BY <1>1, <2>1
  <1>5. x \in tables.seals /\ x.run = run
    BY <1>3, <1>4 DEF Partners
  <1>. QED  BY <1>3, <1>5

\* What each query makes of a request.
LEMMA ReadRun ==
    ASSUME NEW r, DOMAIN r = RequestFields, r.pc = "run"
    PROVE  Read(r) = [r EXCEPT !.pc = "steps", !.run = SqlGetRun(tables, r.key)]
  <1>1. PICK run : run = SqlGetRun(tables, r.key)
    OBVIOUS
  <1>2. Read(r) = [[r EXCEPT !.pc = "steps"] EXCEPT !.run = run]
    BY <1>1 DEF Read, Order
  <1>. QED  BY <1>1, <1>2 DEF RequestFields

LEMMA ReadSteps ==
    ASSUME NEW r, DOMAIN r = RequestFields, r.pc = "steps"
    PROVE  Read(r) = [r EXCEPT !.pc = "answered", !.steps = SqlSteps(tables, r.key)]
  <1>1. PICK steps : steps = SqlSteps(tables, r.key)
    OBVIOUS
  <1>2. Read(r) = [[r EXCEPT !.pc = "answered"] EXCEPT !.steps = steps]
    BY <1>1 DEF Read, Order
  <1>. QED  BY <1>1, <1>2 DEF RequestFields

LEMMA ReadListing ==
    ASSUME NEW r, DOMAIN r = RequestFields, r.pc = "listing"
    PROVE  \E listed : Read(r) = [r EXCEPT !.pc = "stats", !.listed = listed]
  <1>1. PICK listed : listed = (SqlListingOf(tables, r.key) # Null)
    OBVIOUS
  <1>2. Read(r) = [[r EXCEPT !.pc = "stats"] EXCEPT !.listed = listed]
    BY <1>1 DEF Read, Order
  <1>. QED  BY <1>1, <1>2 DEF RequestFields

LEMMA ReadStats ==
    ASSUME NEW r, DOMAIN r = RequestFields, r.pc = "stats"
    PROVE  Read(r) = NoRequest \/ \E stats : Read(r) = [r EXCEPT !.pc = "runs", !.stats = stats]
  <1>1. PICK stats : stats = SqlAgent(tables, r.key)
    OBVIOUS
  <1>2. Read(r) = NoRequest \/ Read(r) = [[r EXCEPT !.pc = "runs"] EXCEPT !.stats = stats]
    BY <1>1 DEF Read, Order
  <1>3. [[r EXCEPT !.pc = "runs"] EXCEPT !.stats = stats] = [r EXCEPT !.pc = "runs", !.stats = stats]
    BY DEF RequestFields
  <1>. QED  BY <1>2, <1>3

LEMMA ReadRuns ==
    ASSUME NEW r, DOMAIN r = RequestFields, r.pc = "runs"
    PROVE  \E runs : Read(r) = [r EXCEPT !.pc = "answered", !.runs = runs]
  <1>1. PICK runs : runs = SqlRunsForAgent(tables, r.key, 50)
    OBVIOUS
  <1>2. Read(r) = [[r EXCEPT !.pc = "answered"] EXCEPT !.runs = runs]
    BY <1>1 DEF Read, Order
  <1>. QED  BY <1>1, <1>2 DEF RequestFields

LEMMA NoRequestIs ==
    /\ DOMAIN NoRequest = RequestFields /\ NoRequest.pc = "none" /\ NoRequest.run = Null
  BY DEF NoRequest, RequestFields

LEMMA RequestInit == ExplorerInit => RequestStands
  BY NoRequestIs DEF ExplorerInit, RequestStands

LEMMA RequestNext ==
    ASSUME MirrorInv, RequestStands, [ExplorerNext]_explorerVars,
           Rollback \/ tables.seals \subseteq tables'.seals
    PROVE  RequestStands'
  <1>1. DOMAIN request = RequestFields /\ DOMAIN NoRequest = RequestFields
    BY NoRequestIs DEF RequestStands
  <1>2. CASE Rollback
    BY <1>2, NoRequestIs DEF Rollback, RequestStands
  <1>3. CASE AskRun
    <2>1. PICK run \in Known : request' = Read([NoRequest EXCEPT !.key = run, !.pc = "run"])
      BY <1>3 DEF AskRun
    <2>2. PICK r : r = [NoRequest EXCEPT !.key = run, !.pc = "run"]
      OBVIOUS
    <2>3. DOMAIN r = RequestFields /\ r.pc = "run" /\ r.key = run
      BY <1>1, <2>2 DEF RequestFields
    <2>4. request' = [r EXCEPT !.pc = "steps", !.run = SqlGetRun(tables, run)]
      BY <2>1, <2>2, <2>3, ReadRun
    <2>5. PICK found : found = SqlRun(tables, run)
      OBVIOUS
    <2>6. DOMAIN request' = RequestFields /\ request'.pc = "steps" /\ request'.run = found /\ request'.key = run
      BY <2>3, <2>4, <2>5, RunIsFound DEF RequestFields
    <2>7. found.sealed => \E s \in tables.seals : s.run = run /\ s.root = found.chainRoot
      BY <2>5, RunHasSeal DEF MirrorInv
    <2>8. tables' = tables
      BY <1>3 DEF AskRun
    <2>. QED  BY <1>1, <2>6, <2>7, <2>8 DEF RequestStands
  <1>4. CASE AskAgent
    <2>1. PICK agent \in Agents : request' = Read([NoRequest EXCEPT !.key = agent, !.pc = "listing"])
      BY <1>4 DEF AskAgent
    <2>2. PICK r : r = [NoRequest EXCEPT !.key = agent, !.pc = "listing"]
      OBVIOUS
    <2>3. DOMAIN r = RequestFields /\ r.pc = "listing" /\ r.run = Null
      BY <2>2, NoRequestIs DEF RequestFields
    <2>4. PICK listed : request' = [r EXCEPT !.pc = "stats", !.listed = listed]
      BY <2>1, <2>2, <2>3, ReadListing
    <2>5. DOMAIN request' = RequestFields /\ request'.pc = "stats" /\ request'.run = Null
      BY <2>3, <2>4 DEF RequestFields
    <2>. QED  BY <1>1, <2>5 DEF RequestStands
  <1>5. CASE Query
    <2>1. request.pc \in {"steps", "stats", "runs"} /\ Answer = Read(request)
          /\ request' = IF Answer.pc = "answered" THEN NoRequest ELSE Answer
      BY <1>5 DEF Query, Answer, RequestStands
    <2>2. CASE request.pc \in {"steps", "runs"}
      <3>1. Answer.pc = "answered"
        <4>1. CASE request.pc = "steps"
          <5>1. PICK steps : Answer = [request EXCEPT !.pc = "answered", !.steps = steps]
            BY <1>1, <2>1, <4>1, ReadSteps
          <5>. QED  BY <1>1, <5>1 DEF RequestFields
        <4>2. CASE request.pc = "runs"
          <5>1. PICK runs : Answer = [request EXCEPT !.pc = "answered", !.runs = runs]
            BY <1>1, <2>1, <4>2, ReadRuns
          <5>. QED  BY <1>1, <5>1 DEF RequestFields
        <4>. QED  BY <2>2, <4>1, <4>2
      <3>. QED  BY <2>1, <3>1, NoRequestIs DEF RequestStands
    <2>3. CASE request.pc = "stats"
      <3>1. request.run = Null
        BY <2>3 DEF RequestStands
      <3>2. Answer = NoRequest \/ \E stats : Answer = [request EXCEPT !.pc = "runs", !.stats = stats]
        BY <1>1, <2>1, <2>3, ReadStats
      <3>3. DOMAIN Answer = RequestFields /\ Answer.pc \in {"none", "runs"} /\ Answer.run = Null
        BY <1>1, <3>1, <3>2, NoRequestIs DEF RequestFields
      <3>4. request' = Answer
        BY <2>1, <3>3
      <3>5. DOMAIN request' = RequestFields /\ request'.pc \in {"none", "runs"} /\ request'.run = Null
        BY <3>3, <3>4
      <3>. QED  BY <1>1, <3>5 DEF RequestStands
    <2>. QED  BY <2>1, <2>2, <2>3
  <1>6. CASE ~Rollback /\ ~AskRun /\ ~AskAgent /\ ~Query
    <2>1. UNCHANGED request
      BY <1>6 DEF ExplorerNext, AddBlock, Ingest, EndBatch, FailPass, StartProbes, ProbeAnswered, explorerVars
    <2>. QED  BY <1>6, <2>1 DEF RequestStands
  <1>. QED  BY <1>2, <1>3, <1>4, <1>5, <1>6

-----------------------------------------------------------------------------
\* The receipts of a sealed run, once its seal is written, are those before it.
LEMMA ReceiptsOfASealedRun ==
    ASSUME MirrorInv, LogIsLawful, NEW w \in applied .. Len(log), WrittenTo(w),
           NEW k \in 1 .. w, log[k].kind = "seal", NEW R, R = StepsBefore(k, log[k].run)
    PROVE  {r \in tables.steps : r.run = log[k].run} = {Row(log[j]) : j \in R}
  <1>1. LogIsTyped /\ log \in Seq(ContractEvents) /\ DOMAIN log = 1 .. Len(log) /\ w \in Nat /\ w <= Len(log)
        /\ Len(log) \in Nat
    BY DEF MirrorInv, LogIsTyped
  <1>2. \A j \in 1 .. w : j \in DOMAIN log /\ log[j] \in ContractEvents
    BY <1>1
  <1>. DEFINE Steps == {j \in 1 .. w : log[j].kind = "step"}
  <1>3. tables.steps = {Row(log[j]) : j \in Steps}
    BY Zenon DEF WrittenTo
  <1>4. \A j \in Steps : Row(log[j]).run = log[j].run
    BY <1>2, RowFields
  <1>5. \A j \in Steps : log[j].run = log[k].run <=> j \in R
    <2>. SUFFICES ASSUME NEW j \in Steps PROVE log[j].run = log[k].run <=> j \in R
      OBVIOUS
    <2>1. j \in Nat /\ k \in Nat /\ j # k
      BY <1>1
    <2>2. CASE j < k
      BY <2>1, <2>2 DEF StepsBefore
    <2>3. CASE j > k
      <3>1. k \in 1 .. j - 1
        BY <2>1, <2>3
      <3>2. log[k].run # log[j].run
        BY <1>1, <1>2, <3>1, LawfulIs
      <3>. QED  BY <3>2 DEF StepsBefore
    <2>. QED  BY <2>1, <2>2, <2>3
  <1>6. R \in SUBSET Steps
    <2>1. \A j \in R : j \in 1 .. k - 1 /\ log[j].kind = "step"
      BY DEF StepsBefore
    <2>. QED  BY <1>1, <2>1
  <1>. HIDE DEF Steps
  <1>. QED  BY <1>3, <1>4, <1>5, <1>6

\* A page of receipts holds every receipt of its run.
LEMMA StepsAreListed ==
    ASSUME StoresMirror, NEW run
    PROVE  ToSet(SqlSteps(tables, run)) = {s \in tables.steps : s.run = run}
  <1>. DEFINE S == {s \in tables.steps : s.run = run}
  <1>1. /\ tables.steps = RowsOf(memory.steps) /\ IsFiniteSet(DOMAIN memory.steps)
        /\ \A k \in DOMAIN memory.steps :
              memory.steps[k] \in ReceiptRows /\ k = <<memory.steps[k].run, memory.steps[k].index>>
    BY DEF StoresMirror, StepsMirror, Mirrors
  <1>2. S \in SUBSET ReceiptRows /\ IsFiniteSet(S) /\ \A a, b \in S : a.index = b.index => a = b
    <2>1. IsFiniteSet(tables.steps)
      BY <1>1, FiniteImage DEF RowsOf
    <2>2. IsFiniteSet(S)
      BY <2>1, FS_Subset
    <2>3. \A s \in tables.steps : s \in ReceiptRows /\ s = memory.steps[<<s.run, s.index>>]
      BY <1>1 DEF RowsOf
    <2>. QED  BY <2>2, <2>3
  <1>3. LET seq == Sorted(S, LAMBDA a, b : a.index < b.index)
        IN  seq \in Seq(S) /\ Len(seq) = Cardinality(S) /\ {seq[i] : i \in DOMAIN seq} = S
    BY <1>2, SortedByIndex
  <1>4. {SqlSteps(tables, run)[i] : i \in DOMAIN SqlSteps(tables, run)} = S
    BY <1>3, Zenon DEF SqlSteps
  <1>. QED  BY <1>4, Zenon DEF ToSet

LEMMA AnswerAddsUp ==
    ASSUME MirrorInv, LogIsLawful, APrefixIsWritten, RequestStands
    PROVE  HonestRunsAddUp
  <1>. SUFFICES ASSUME Answer.pc = "answered", Answer.run # Null, Answer.run.sealed
                PROVE  ChainRootMatches(Answer) = "yes"
    BY DEF HonestRunsAddUp
  <1>1. DOMAIN request = RequestFields
    BY NoRequestIs DEF RequestStands
  <1>2. request.pc # "none" /\ Answer = Read(request)
    <2>1. request.pc # "none"
      BY NoRequestIs DEF Answer
    <2>. QED  BY <2>1 DEF Answer
  <1>3. request.pc = "steps"
    <2>1. CASE request.pc = "stats"
      <3>1. Answer = NoRequest \/ \E stats : Answer = [request EXCEPT !.pc = "runs", !.stats = stats]
        BY <1>1, <1>2, <2>1, ReadStats
      <3>2. Answer.pc \in {"none", "runs"}
        BY <1>1, <3>1, NoRequestIs DEF RequestFields
      <3>. QED  BY <3>2
    <2>2. CASE request.pc = "runs"
      <3>1. PICK runs : Answer = [request EXCEPT !.pc = "answered", !.runs = runs]
        BY <1>1, <1>2, <2>2, ReadRuns
      <3>2. Answer.run = request.run
        BY <1>1, <3>1 DEF RequestFields
      <3>. QED  BY <2>2, <3>2 DEF RequestStands
    <2>. QED  BY <1>2, <2>1, <2>2 DEF RequestStands
  <1>4. PICK run, steps : run = request.key /\ steps = SqlSteps(tables, run)
    OBVIOUS
  <1>5. Answer = [request EXCEPT !.pc = "answered", !.steps = steps]
    BY <1>1, <1>2, <1>3, <1>4, ReadSteps
  <1>6. Answer.run = request.run /\ Answer.steps = steps
    BY <1>1, <1>5 DEF RequestFields
  <1>7. PICK s \in tables.seals : s.run = run /\ s.root = request.run.chainRoot
    BY <1>4, <1>6, Zenon DEF RequestStands
  <1>8. PICK w \in applied .. Len(log) : WrittenTo(w)
    BY DEF APrefixIsWritten
  <1>9. PICK k \in 1 .. w : log[k].kind = "seal" /\ s = Row(log[k])
    <2>1. tables.seals = {Row(log[k]) : k \in {j \in 1 .. w : log[j].kind = "seal"}}
      BY <1>8, Zenon DEF WrittenTo
    <2>. QED  BY <1>7, <2>1
  <1>10. LogIsTyped /\ k \in DOMAIN log /\ log[k] \in ContractEvents /\ k \in Nat
         /\ \A j \in 1 .. k - 1 : j \in DOMAIN log /\ log[j] \in ContractEvents
    BY <1>8, <1>9 DEF MirrorInv, LogIsTyped
  <1>11. log[k].run = run /\ log[k].root = request.run.chainRoot
    BY <1>7, <1>9, <1>10, RowFields
  <1>12. PICK R : R = StepsBefore(k, log[k].run)
    OBVIOUS
  <1>13. log[k].root # Null /\ log[k].root = Fold({log[j] : j \in R})
    BY <1>9, <1>10, <1>12, LawfulIs
  <1>14. ToSet(steps) = {Row(log[j]) : j \in R}
    <2>1. {r \in tables.steps : r.run = log[k].run} = {Row(log[j]) : j \in R}
      BY <1>8, <1>9, <1>12, ReceiptsOfASealedRun
    <2>2. ToSet(steps) = {r \in tables.steps : r.run = run}
      BY <1>4, StepsAreListed DEF MirrorInv
    <2>. QED  BY <1>11, <2>1, <2>2
  <1>15. Fold(ToSet(steps)) = log[k].root
    <2>1. PICK given, rows : given = log /\ rows = [j \in R |-> Row(log[j])]
      OBVIOUS
    <2>2. \A j \in R : j \in 1 .. k - 1 /\ log[j].kind = "step" /\ log[j].run = log[k].run
      BY <1>12 DEF StepsBefore
    <2>3. IsFiniteSet(R)
      <3>1. IsFiniteSet(1 .. k - 1)
        BY <1>10, FS_Interval
      <3>. QED  BY <2>2, <3>1, FS_Subset
    <2>4. \A i, j \in R : given[i].index = given[j].index => i = j
      BY <1>10, <2>1, <2>2, ReceiptsApart
    <2>5. \A j \in R : /\ rows[j].index = given[j].index /\ rows[j].agent = given[j].agent
                       /\ rows[j].status = given[j].status /\ rows[j].attested = given[j].attested
      BY <1>10, <2>1, <2>2, RowFields
    <2>6. FoldOver(rows, R) = FoldOver(given, R)
      BY <2>3, <2>4, <2>5, FoldAlike
    <2>7. ToSet(steps) = {rows[j] : j \in R}
      BY <1>14, <2>1
    <2>. QED  BY <1>13, <2>1, <2>6, <2>7, Zenon DEF FoldOver
  <1>16. ComputedChainRoot(Answer) = log[k].root
    BY <1>6, <1>15, Zenon DEF ComputedChainRoot
  <1>17. Answer.run.chainRoot = log[k].root
    BY <1>6, <1>11
  <1>. QED  BY <1>13, <1>16, <1>17, Zenon DEF ChainRootMatches

LEMMA AddUpInit == ExplorerInit => AddUpInv
  <1>. SUFFICES ASSUME ExplorerInit PROVE AddUpInv
    OBVIOUS
  <1>1. LogIsLawful
    BY DEF ExplorerInit, LogIsLawful
  <1>2. WrittenTo(0)
    BY DEF ExplorerInit, WrittenTo, NewTables
  <1>3. APrefixIsWritten
    BY <1>2 DEF ExplorerInit, APrefixIsWritten
  <1>. QED  BY <1>1, <1>3, MirrorInit, RequestInit DEF AddUpInv

LEMMA AddUpNext == AddUpInv /\ [ExplorerNext]_explorerVars => AddUpInv'
  <1>. SUFFICES ASSUME AddUpInv, [ExplorerNext]_explorerVars PROVE AddUpInv'
    OBVIOUS
  <1>1. MirrorInv /\ LogIsLawful /\ APrefixIsWritten /\ RequestStands
    BY DEF AddUpInv
  <1>2. MirrorInv'
    BY <1>1, MirrorNext
  <1>3. LogIsLawful'
    BY <1>1, LawfulNext
  <1>4. APrefixIsWritten' /\ (Rollback \/ tables.seals \subseteq tables'.seals)
    BY <1>1, <1>2, WrittenNext
  <1>5. RequestStands'
    BY <1>1, <1>4, RequestNext
  <1>. QED  BY <1>2, <1>3, <1>4, <1>5 DEF AddUpInv

\* Receipts and seals are written, and written again by passes that failed, while
\* the page of a run is being read: what server.ts shows as sealed, verify.ts
\* finds to add up to the root its executor anchored.
THEOREM SealedRunsAddUp == ExplorerSpec => []HonestRunsAddUp
  <1>1. AddUpInv => HonestRunsAddUp
    BY AnswerAddsUp DEF AddUpInv
  <1>. QED  BY <1>1, AddUpInit, AddUpNext, PTL DEF ExplorerSpec

===============================================================================
