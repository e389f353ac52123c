------------------------------- MODULE Explorer -------------------------------
(***************************************************************************)
(* explorer-api's server.ts over the index while it is being written: a    *)
(* request is several queries, each awaited, and between two of them       *)
(* ingest.ts applies events, rolls back a replaced block or starts a pass  *)
(* again, and health.ts probes the agents.  Every write is made to both    *)
(* implementations of the store; the server reads the Postgres one.  What  *)
(* happens in the browser (verify.ts) to the answer is part of the answer. *)
(***************************************************************************)
EXTENDS Stores

CONSTANTS
    Blocks,         \* what a block may hold: sequences of events
    MaxReplaced,    \* bound: how often the last block is replaced
    MaxLostPasses,  \* bound: passes that fail
    MaxProbes,      \* bound: rounds of probes
    MaxPage         \* bound: limits and offsets the stores are compared for

ASSUME ExplorerBounds ==
    /\ MaxBlocks \in Nat \ {0} /\ MaxReplaced \in Nat /\ MaxLostPasses \in Nat
    /\ MaxProbes \in Nat /\ MaxPage \in Nat

VARIABLES
    log,        \* the events of the contracts on chain, each with its block
    height,     \* the blocks of the chain
    applied,    \* how many events of the log the current pass has written
    memory, tables,
    probing,    \* the agents whose answer a round of probes awaits
    request,    \* the request being served, its local variables and answer
    spent       \* how often each bounded thing happened

explorerVars == <<log, height, applied, memory, tables, probing, request, spent>>

NoRequest == [pc |-> "none", key |-> Null, run |-> Null, steps |-> <<>>,
              listed |-> FALSE, stats |-> Null, runs |-> {}]

ExplorerInit ==
    /\ log = <<>> /\ height = 0 /\ applied = 0
    /\ memory = NewMemory /\ tables = NewTables
    /\ probing = {} /\ request = NoRequest
    /\ spent = [reorgs |-> 0, failures |-> 0, probes |-> 0]

-----------------------------------------------------------------------------
\* The chain: what the contracts emit.
ContractEvents ==
    [kind : {"step"}, run : Runs, index : Nat, agent : Agents, status : Statuses, attested : BOOLEAN,
     block : 0 .. MaxBlocks]
    \cup [kind : {"seal"}, run : Runs, root : Roots, outcome : Statuses, block : 0 .. MaxBlocks]
    \cup [kind : {"list"}, agent : Agents, version : Nat, active : BOOLEAN, block : 0 .. MaxBlocks]
    \cup [kind : {"unlist"}, agent : Agents, block : 0 .. MaxBlocks]
    \cup [kind : {"bond"}, agent : Agents, amount : Nat, slashed : BOOLEAN, block : 0 .. MaxBlocks]

ASSUME BlocksHoldEvents == Blocks \subseteq Seq(ContractEvents)

\* An honest executor anchors every step, then seals the run with the root its
\* receipts fold to.
Receipts(events, run) == {k \in DOMAIN events : events[k].kind = "step" /\ events[k].run = run}
Receipt(s) == [agent |-> s.agent, status |-> s.status, attested |-> s.attested]

\* foldChainRoot: of a contiguous set of receipts, else it throws.
Fold(steps) ==
    IF steps = {} \/ {s.index : s \in steps} # 0 .. Cardinality(steps) - 1 THEN Null
    ELSE [i \in 1 .. Cardinality(steps) |-> Receipt(CHOOSE s \in steps : s.index = i - 1)]

FoldOf(events, run) == Fold({events[k] : k \in Receipts(events, run)})

MayLog(events, e) ==
    LET sealed == \E k \in DOMAIN events : events[k].kind = "seal" /\ events[k].run = e.run
    IN  CASE e.kind = "step" -> ~sealed /\ \A k \in Receipts(events, e.run) : events[k].index # e.index
          [] e.kind = "seal" -> ~sealed /\ FoldOf(events, e.run) # Null
          [] e.kind = "list" -> \A k \in DOMAIN events :
                events[k].kind = "list" /\ events[k].agent = e.agent => events[k].version < e.version
          [] e.kind = "unlist" -> \E k \in DOMAIN events : events[k].kind = "list" /\ events[k].agent = e.agent
          [] e.kind = "bond" -> \A k \in DOMAIN events :
                events[k].kind = "bond" /\ events[k].agent = e.agent => ~events[k].slashed

MayHold(before, events) == \A k \in DOMAIN events : MayLog(before \o SubSeq(events, 1, k - 1), events[k])

Placed(before, e, block) ==
    IF e.kind = "seal" THEN [e EXCEPT !.block = block, !.root = FoldOf(before, e.run)]
    ELSE [e EXCEPT !.block = block]

Place(before, events, block) ==
    before \o [k \in DOMAIN events |-> Placed(before \o SubSeq(events, 1, k - 1), events[k], block)]

AddBlock ==
    /\ height < MaxBlocks /\ height' = height + 1
    /\ \E events \in Blocks : MayHold(log, events) /\ log' = Place(log, events, height + 1)
    /\ UNCHANGED <<applied, memory, tables, probing, request, spent>>

-----------------------------------------------------------------------------
\* The indexer: one pass after the other, and a round of probes in between.
Row(e) == [f \in DOMAIN e \ {"kind"} |-> e[f]]

WriteMemory(m, e) ==
    CASE e.kind = "step" -> MemStep(m, Row(e))
      [] e.kind = "seal" -> MemSeal(m, Row(e))
      [] e.kind = "list" -> MemListing(m, Row(e))
      [] e.kind = "unlist" -> MemDeactivate(m, e.agent, e.block)
      [] e.kind = "bond" -> MemBond(m, Row(e))

WriteTables(t, e) ==
    CASE e.kind = "step" -> SqlStep(t, Row(e))
      [] e.kind = "seal" -> SqlSeal(t, Row(e))
      [] e.kind = "list" -> SqlListing(t, Row(e))
      [] e.kind = "unlist" -> SqlDeactivate(t, e.agent, e.block)
      [] e.kind = "bond" -> SqlBond(t, Row(e))

\* Variant for the mutation checks: passes go on beside the probes.
MayFollow_Beside == TRUE

\* The follow loop awaits the probes before it goes on.
MayFollow == probing = {}

\* Variant for the mutation checks: a block's events from the last to the first.
NextEvent_LastOfBlock ==
    LET block == log[applied + 1].block
        first == CHOOSE k \in DOMAIN log : log[k].block = block /\ \A j \in DOMAIN log : j < k => log[j].block < block
        last == CHOOSE k \in DOMAIN log : log[k].block = block /\ \A j \in DOMAIN log : j > k => log[j].block > block
    IN  log[first + last - applied - 1]

NextEvent == log[applied + 1]

Ingest ==
    /\ MayFollow /\ applied < Len(log)
    /\ memory' = WriteMemory(memory, NextEvent) /\ tables' = WriteTables(tables, NextEvent)
    /\ applied' = applied + 1
    /\ UNCHANGED <<log, height, probing, request, spent>>

EndBatch ==
    /\ MayFollow /\ applied = Len(log) /\ tables.cursor < height
    /\ memory' = [memory EXCEPT !.cursor = height] /\ tables' = [tables EXCEPT !.cursor = height]
    /\ UNCHANGED <<log, height, applied, probing, request, spent>>

Below(block) == Cardinality({k \in DOMAIN log : log[k].block < block})

\* A request to the chain fails, or the process is started again.
FailPass ==
    /\ MayFollow /\ spent.failures < MaxLostPasses
    /\ applied > Below(tables.cursor + 1)
    /\ applied' = Below(tables.cursor + 1)
    /\ spent' = [spent EXCEPT !.failures = @ + 1]
    /\ UNCHANGED <<log, height, memory, tables, probing, request>>

\* The last block is replaced while a pass over it fails, and the next pass
\* finds it out: findReorg reaches only blocks above the cursor.  A request it
\* falls into is not followed further: it may answer from both chains.
Rollback ==
    /\ MayFollow /\ spent.reorgs < MaxReplaced
    /\ height > tables.cursor /\ applied > Below(height)
    /\ log' = SubSeq(log, 1, Below(height)) /\ height' = height - 1
    /\ memory' = MemRollback(memory, height) /\ tables' = SqlRollback(tables, height)
    /\ applied' = Below(height)
    /\ request' = NoRequest
    /\ spent' = [spent EXCEPT !.reorgs = @ + 1]
    /\ UNCHANGED probing

\* probeAgents, between two passes, whether or not the last one failed: only
\* active listings, all at once.
StartProbes ==
    /\ MayFollow /\ applied = Below(tables.cursor + 1) /\ spent.probes < MaxProbes
    /\ probing' = {a.agent : a \in ToSet(SqlListings(tables, 100, 0, TRUE))}
    /\ spent' = [spent EXCEPT !.probes = @ + 1]
    /\ UNCHANGED <<log, height, applied, memory, tables, request>>

\* httpHealthProbe: an answer alone is not enough, it must say that all is well.
Healthy(response) == response.status = "2xx" /\ response.says = "ok"

Responses ==
    {[status |-> "2xx", says |-> "ok"], [status |-> "2xx", says |-> "other"],
     [status |-> "error", says |-> "ok"], [status |-> "none", says |-> "nothing"]}

ProbeAnswered ==
    /\ \E agent \in probing, response \in Responses :
           /\ memory' = MemHealth(memory, agent, Healthy(response))
           /\ tables' = SqlHealth(tables, agent, Healthy(response))
           /\ probing' = probing \ {agent}
    /\ UNCHANGED <<log, height, applied, request, spent>>

-----------------------------------------------------------------------------
\* The server: GET /api/runs/:runId and GET /api/agents/:agentId.
Known == {s.run : s \in tables.steps} \cup {s.run : s \in tables.seals}

\* The queries, each after the one before has been answered.
Order == [run |-> "steps", steps |-> "answered", listing |-> "stats", stats |-> "runs", runs |-> "answered"]

\* The request after its next query: a run or an agent that is not found ends it.
\* Of the runs of an agent, `runs` keeps every listing the query may return.
Read(r) ==
    LET next == [r EXCEPT !.pc = Order[r.pc]]
    IN  CASE r.pc = "run" -> [next EXCEPT !.run = SqlGetRun(tables, r.key)]
          [] r.pc = "steps" -> [next EXCEPT !.steps = SqlSteps(tables, r.key)]
          [] r.pc = "listing" -> [next EXCEPT !.listed = SqlListingOf(tables, r.key) # Null]
          [] r.pc = "stats" ->
                LET stats == SqlAgent(tables, r.key)
                IN  IF stats = Null /\ ~r.listed THEN NoRequest ELSE [next EXCEPT !.stats = stats]
          [] r.pc = "runs" -> [next EXCEPT !.runs = SqlRunsForAgent(tables, r.key, 50)]

AskRun ==
    /\ request.pc = "none"
    /\ \E run \in Known : request' = Read([NoRequest EXCEPT !.key = run, !.pc = "run"])
    /\ UNCHANGED <<log, height, applied, memory, tables, probing, spent>>

AskAgent ==
    /\ request.pc = "none"
    /\ \E agent \in Agents : request' = Read([NoRequest EXCEPT !.key = agent, !.pc = "listing"])
    /\ UNCHANGED <<log, height, applied, memory, tables, probing, spent>>

\* What the query under way would make of the request, were it answered now.
Answer == IF request.pc = "none" THEN NoRequest ELSE Read(request)

\* An answered request is forgotten: the properties look at the answer.
Query ==
    /\ request.pc # "none"
    /\ request' = IF Answer.pc = "answered" THEN NoRequest ELSE Answer
    /\ UNCHANGED <<log, height, applied, memory, tables, probing, spent>>

\* What the server computes from them, and the browser again.
ComputedChainRoot(answer) == Fold(ToSet(answer.steps))
ChainRootMatches(answer) ==
    LET computed == ComputedChainRoot(answer)
    IN  IF answer.run.chainRoot = Null \/ computed = Null THEN "unknown"
        ELSE IF answer.run.chainRoot = computed THEN "yes" ELSE "no"

-----------------------------------------------------------------------------
ExplorerNext ==
    \/ AddBlock
    \/ Ingest \/ EndBatch \/ FailPass \/ Rollback
    \/ StartProbes \/ ProbeAnswered
    \/ AskRun \/ AskAgent \/ Query

ExplorerSpec == ExplorerInit /\ [][ExplorerNext]_explorerVars

-----------------------------------------------------------------------------
\* "Held to the same suite": what MemoryStore lists, PostgresStore may list, for
\* every page; which of the runs of one last block comes first is left to it.
RunListsAgree ==
    \A limit \in 1 .. MaxPage, offset \in 0 .. MaxPage :
        MemRuns(memory, limit, offset) \in SqlRuns(tables, limit, offset)

\* The same of the runs of an agent.  MemoryStore looks for them among the most
\* recent runs of all agents only, so it does not hold of an index of more runs.
AgentRunsAgree ==
    \A agent \in Agents, limit \in 1 .. MaxPage :
        MemRunsForAgent(memory, agent, limit) \in SqlRunsForAgent(tables, agent, limit)

\* The two stores answer alike, whatever was written, written again by a
\* repeated pass, or rolled back: runs and their pages, an agent's runs as long
\* as no more are known than MemoryStore looks at, steps, agents, listings and
\* their pages, bonds, health and totals.
StoresAgree ==
    /\ RunListsAgree
    /\ Cardinality(MemRunIds(memory)) <= RecentRuns => AgentRunsAgree
    /\ \A run \in Runs :
           /\ SqlGetRun(tables, run) = MemRun(memory, run)
           /\ SqlSteps(tables, run) = MemSteps(memory, run)
    /\ \A agent \in Agents :
           /\ SqlAgent(tables, agent) = MemAgent(memory, agent)
           /\ SqlListingOf(tables, agent) = Get(memory.listings, agent)
           /\ SqlBondOf(tables, agent) = Get(memory.bonds, agent)
           /\ SqlHealthOf(tables, agent) = Get(memory.health, agent)
    /\ \A limit \in 1 .. MaxPage, offset \in 0 .. MaxPage, activeOnly \in BOOLEAN :
           SqlListings(tables, limit, offset, activeOnly) = MemListings(memory, limit, offset, activeOnly)
    /\ SqlStats(tables) = MemStats(memory)

\* The run page reads the run and then its steps, and events are written in
\* between.  A run of an honest executor that is shown as sealed is shown to
\* add up, never as one whose receipts do not, or are missing: only a block
\* replaced during the request can spoil that.
HonestRunsAddUp ==
    Answer.pc = "answered" /\ Answer.run # Null /\ Answer.run.sealed => ChainRootMatches(Answer) = "yes"

\* A listing its operator withdrew is not reported as failing: no failure is
\* recorded for an agent that is not listed as active at that moment.
ProbesSpareTheWithdrawn ==
    [][\A agent \in Agents :
          LET before == SqlHealthOf(tables, agent)
              after == SqlHealthOf(tables', agent)
          IN  after # before /\ ~after.ok => \E a \in tables.listings : a.agent = agent /\ a.active]_explorerVars
=============================================================================
