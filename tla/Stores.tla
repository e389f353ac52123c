-------------------------------- MODULE Stores --------------------------------
(***************************************************************************)
(* store.ts: the interface of the index, and its two implementations.  In  *)
(* memory-store.ts every table is a Map, here a function whose domain is   *)
(* the keys present; of the two that listRuns iterates over, the order in  *)
(* which their keys were inserted is kept as well.  In postgres-store.ts a *)
(* table is a set of rows, written with INSERT ... ON CONFLICT and read    *)
(* with joins and aggregates; what ORDER BY leaves open makes a query a    *)
(* set of answers.  Columns that are only carried along are left out.      *)
(***************************************************************************)
EXTENDS Integers, Sequences, FiniteSets, FiniteSetsExt, SequencesExt

CONSTANTS
    Null,
    Runs, Agents,
    RecentRuns,     \* memory-store.ts filters the 1000 most recent runs
    MaxBlocks       \* bound: blocks of the chain a row comes from

\* The rows.  A chain root stands for the receipts it was folded from.
Statuses == {"ok", "failed", "skipped", "unattested"}
Roots == {Null} \cup Seq([agent : Agents, status : Statuses, attested : BOOLEAN])
ReceiptRows == [run : Runs, index : Nat, agent : Agents, status : Statuses, attested : BOOLEAN,
                block : 0 .. MaxBlocks]
SealRows == [run : Runs, root : Roots, outcome : Statuses, block : 0 .. MaxBlocks]
ListingRows == [agent : Agents, version : Nat, active : BOOLEAN, block : 0 .. MaxBlocks]
BondRows == [agent : Agents, amount : Nat, slashed : BOOLEAN, block : 0 .. MaxBlocks]
HealthRows == [agent : Agents, ok : BOOLEAN, failures : Nat]

ASSUME AgentsAreNumbers == Agents \subseteq Nat
ASSUME RunsAreCut == RecentRuns \in Nat
ASSUME NullIsNoRow == Null \notin ReceiptRows \cup SealRows \cup ListingRows \cup BondRows \cup HealthRows

\* The elements of S in the order of a strict comparison.
Sorted(S, Less(_, _)) == CHOOSE seq \in SetToSeqs(S) : \A i, j \in DOMAIN seq : i < j => Less(seq[i], seq[j])

Put(map, key, row) == [k \in DOMAIN map \cup {key} |-> IF k = key THEN row ELSE map[k]]
Get(map, key) == IF key \in DOMAIN map THEN map[key] ELSE Null
Without(map, keys) == [k \in DOMAIN map \ keys |-> map[k]]
Empty == [k \in {} |-> Null]
RowsOf(map) == {map[k] : k \in DOMAIN map}

\* slice; LIMIT and OFFSET.
Slice(seq, limit, offset) == SubSeq(seq, offset + 1, Min({offset + limit, Len(seq)}))

\* statusSucceeded.
Succeeded(status) == status = "ok"

-----------------------------------------------------------------------------
\* MemoryStore.
NewMemory == [cursor |-> 0, steps |-> Empty, seals |-> Empty, listings |-> Empty,
              bonds |-> Empty, health |-> Empty, stepTurns |-> Empty, sealTurns |-> Empty]

\* Map.set: a new key goes behind all others, one that is there keeps its turn.
Enter(turns, key) ==
    IF key \in DOMAIN turns THEN turns ELSE Put(turns, key, Max({0} \cup RowsOf(turns)) + 1)

MemStep(m, s) ==
    LET key == <<s.run, s.index>>
    IN  [m EXCEPT !.steps = Put(@, key, s), !.stepTurns = Enter(@, key)]
MemSeal(m, s) == [m EXCEPT !.seals = Put(@, s.run, s), !.sealTurns = Enter(@, s.run)]

MemListing(m, a) ==
    IF a.agent \in DOMAIN m.listings /\ m.listings[a.agent].version > a.version THEN m
    ELSE [m EXCEPT !.listings = Put(@, a.agent, a)]

MemDeactivate(m, agent, block) ==
    IF agent \notin DOMAIN m.listings THEN m
    ELSE [m EXCEPT !.listings[agent] = [@ EXCEPT !.active = FALSE, !.block = block]]

MemBond(m, b) ==
    LET previous == Get(m.bonds, b.agent)
    IN  IF previous # Null /\ previous.block > b.block THEN m
        ELSE [m EXCEPT !.bonds = Put(@, b.agent, [b EXCEPT !.slashed = @ \/ (previous # Null /\ previous.slashed)])]

MemHealth(m, agent, ok) ==
    LET previous == Get(m.health, agent)
    IN  [m EXCEPT !.health = Put(@, agent,
            [agent |-> agent, ok |-> ok,
             failures |-> IF ok THEN 0 ELSE (IF previous = Null THEN 0 ELSE previous.failures) + 1])]

Stale(map, block) == {k \in DOMAIN map : map[k].block >= block}

MemRollback(m, block) ==
    [m EXCEPT !.steps = Without(@, Stale(@, block)), !.seals = Without(@, Stale(@, block)),
              !.stepTurns = Without(@, Stale(m.steps, block)), !.sealTurns = Without(@, Stale(m.seals, block)),
              !.listings = Without(@, Stale(@, block)), !.bonds = Without(@, Stale(@, block)),
              !.cursor = IF @ >= block THEN (IF block > 0 THEN block - 1 ELSE 0) ELSE @]

MemSteps(m, run) ==
    Sorted({s \in RowsOf(m.steps) : s.run = run}, LAMBDA a, b : a.index < b.index)

\* runFrom: the run is folded from its steps and its seal at every query.
MemRun(m, run) ==
    LET steps == MemSteps(m, run)
        seal == Get(m.seals, run)
        blocks == {steps[k].block : k \in DOMAIN steps} \cup (IF seal = Null THEN {} ELSE {seal.block})
    IN  IF steps = <<>> /\ seal = Null THEN Null
        ELSE [run |-> run, stepCount |-> Len(steps), sealed |-> seal # Null,
              chainRoot |-> IF seal = Null THEN Null ELSE seal.root,
              outcome |-> IF seal = Null THEN Null ELSE seal.outcome,
              firstBlock |-> Min(blocks), lastBlock |-> Max(blocks)]

MemRunIds(m) == {s.run : s \in RowsOf(m.steps)} \cup {s.run : s \in RowsOf(m.seals)}

\* allRunIds meets a run at the first of its steps, or behind all steps at its seal.
MetAt(m, run) ==
    LET steps == {m.stepTurns[k] : k \in {k \in DOMAIN m.stepTurns : k[1] = run}}
    IN  IF steps # {} THEN Min(steps) ELSE Max({0} \cup RowsOf(m.stepTurns)) + m.sealTurns[run]

\* The last active run first; the sort is stable.
RunBefore(m, a, b) ==
    a.lastBlock > b.lastBlock \/ (a.lastBlock = b.lastBlock /\ MetAt(m, a.run) < MetAt(m, b.run))

InOrder(m, rows) == Sorted(rows, LAMBDA a, b : RunBefore(m, a, b))

MemRuns(m, limit, offset) == Slice(InOrder(m, {MemRun(m, run) : run \in MemRunIds(m)}), limit, offset)

MemAgent(m, agent) ==
    LET steps == {s \in RowsOf(m.steps) : s.agent = agent}
    IN  IF steps = {} THEN Null
        ELSE [stepCount |-> Cardinality(steps),
              okCount |-> Cardinality({s \in steps : Succeeded(s.status)}),
              attestedCount |-> Cardinality({s \in steps : s.attested}),
              runCount |-> Cardinality({s.run : s \in steps})]

\* The runs of an agent among the most recent ones; a filter keeps their order.
MemRunsForAgent(m, agent, limit) ==
    LET runs == {s.run : s \in {x \in RowsOf(m.steps) : x.agent = agent}}
        recent == ToSet(MemRuns(m, RecentRuns, 0))
    IN  Slice(InOrder(m, {r \in recent : r.run \in runs}), limit, 0)

\* Newest listing first, ties broken by the agent.
Before(a, b) == a.block > b.block \/ (a.block = b.block /\ a.agent > b.agent)

MemListings(m, limit, offset, activeOnly) ==
    Slice(Sorted({a \in RowsOf(m.listings) : activeOnly => a.active}, Before), limit, offset)

MemStats(m) == [runs |-> Cardinality(MemRunIds(m)), steps |-> Cardinality(DOMAIN m.steps),
                agents |-> Cardinality({s.agent : s \in RowsOf(m.steps)}), cursor |-> m.cursor]

-----------------------------------------------------------------------------
\* PostgresStore.
NewTables == [cursor |-> 0, steps |-> {}, seals |-> {}, listings |-> {}, bonds |-> {}, health |-> {}]

SqlStep(t, s) == [t EXCEPT !.steps = {r \in @ : r.run # s.run \/ r.index # s.index} \cup {s}]
SqlSeal(t, s) == [t EXCEPT !.seals = {r \in @ : r.run # s.run} \cup {s}]

\* Variant for the mutation checks: no WHERE on the update.
SqlListing_AnyVersion(t, a) == [t EXCEPT !.listings = {r \in @ : r.agent # a.agent} \cup {a}]

SqlListing(t, a) ==
    LET conflict == {r \in t.listings : r.agent = a.agent}
    IN  IF \A r \in conflict : r.version <= a.version
        THEN [t EXCEPT !.listings = (@ \ conflict) \cup {a}] ELSE t

SqlDeactivate(t, agent, block) ==
    [t EXCEPT !.listings = {IF r.agent = agent THEN [r EXCEPT !.active = FALSE, !.block = block] ELSE r : r \in @}]

SqlBond(t, b) ==
    LET conflict == {r \in t.bonds : r.agent = b.agent}
    IN  IF \A r \in conflict : r.block <= b.block
        THEN [t EXCEPT !.bonds = (@ \ conflict)
                        \cup {[b EXCEPT !.slashed = @ \/ \E r \in conflict : r.slashed]}]
        ELSE t

SqlHealth(t, agent, ok) ==
    LET conflict == {r \in t.health : r.agent = agent}
        failures == IF ok THEN 0 ELSE IF conflict = {} THEN 1 ELSE (CHOOSE r \in conflict : TRUE).failures + 1
    IN  [t EXCEPT !.health = (@ \ conflict) \cup {[agent |-> agent, ok |-> ok, failures |-> failures]}]

SqlRollback(t, block) ==
    [t EXCEPT !.steps = {r \in @ : r.block < block}, !.seals = {r \in @ : r.block < block},
              !.listings = {r \in @ : r.block < block}, !.bonds = {r \in @ : r.block < block},
              !.cursor = IF @ >= block THEN Max({block - 1, 0}) ELSE @]

\* LEFT JOIN: every left row with its partners, or with NULL.
Partners(t, run) == LET seals == {s \in t.seals : s.run = run} IN IF seals = {} THEN {Null} ELSE seals
Joined(t, run) ==
    LET steps == {s \in t.steps : s.run = run}
    IN  (IF steps = {} THEN {Null} ELSE steps) \X Partners(t, run)

Coalesce(row, other) == IF row = Null THEN other ELSE row.block

\* RUN_SELECT: one group of joined rows per run.  LEAST passes over NULL.
CountSteps(rows) == Cardinality({p \in rows : p[1] # Null})
FirstBlock(rows) == Min({Min({row.block : row \in {p[1], p[2]} \ {Null}}) : p \in rows})
LastBlock(rows) == Max({Max({Coalesce(p[1], 0), Coalesce(p[2], 0)}) : p \in rows})

SqlRun(t, run) ==
    LET rows == Joined(t, run)
        seal == CHOOSE s \in Partners(t, run) : TRUE
    IN  [run |-> run, stepCount |-> CountSteps(rows), sealed |-> seal # Null,
         chainRoot |-> IF seal = Null THEN Null ELSE seal.root,
         outcome |-> IF seal = Null THEN Null ELSE seal.outcome,
         firstBlock |-> FirstBlock(rows), lastBlock |-> LastBlock(rows)]

SqlRunRows(t) == {SqlRun(t, run) : run \in {s.run : s \in t.steps} \cup {s.run : s \in t.seals}}

\* ORDER BY last_block DESC: rows of one last block come in any order.
NewestFirst(rows) ==
    {seq \in SetToSeqs(rows) : \A i, j \in DOMAIN seq : i < j => seq[i].lastBlock >= seq[j].lastBlock}

SqlRuns(t, limit, offset) == {Slice(seq, limit, offset) : seq \in NewestFirst(SqlRunRows(t))}

SqlGetRun(t, run) ==
    LET rows == {r \in SqlRunRows(t) : r.run = run}
    IN  IF rows = {} THEN Null ELSE CHOOSE r \in rows : TRUE

SqlSteps(t, run) == Sorted({s \in t.steps : s.run = run}, LAMBDA a, b : a.index < b.index)

SqlAgent(t, agent) ==
    LET rows == {s \in t.steps : s.agent = agent}
    IN  IF rows = {} THEN Null
        ELSE [stepCount |-> Cardinality(rows), okCount |-> Cardinality({s \in rows : s.status = "ok"}),
              attestedCount |-> Cardinality({s \in rows : s.attested}),
              runCount |-> Cardinality({s.run : s \in rows})]

SqlRunsForAgent(t, agent, limit) ==
    LET rows == {r \in SqlRunRows(t) : r.run \in {s.run : s \in {x \in t.steps : x.agent = agent}}}
    IN  {Slice(seq, limit, 0) : seq \in NewestFirst(rows)}

SqlGet(table, agent) ==
    LET rows == {r \in table : r.agent = agent}
    IN  IF rows = {} THEN Null ELSE CHOOSE r \in rows : TRUE

SqlListingOf(t, agent) == SqlGet(t.listings, agent)
SqlBondOf(t, agent) == SqlGet(t.bonds, agent)
SqlHealthOf(t, agent) == SqlGet(t.health, agent)

SqlListings(t, limit, offset, activeOnly) ==
    Slice(Sorted({r \in t.listings : activeOnly => r.active}, Before), limit, offset)

SqlStats(t) == [runs |-> Cardinality(SqlRunRows(t)), steps |-> Cardinality(t.steps),
                agents |-> Cardinality({s.agent : s \in t.steps}), cursor |-> t.cursor]
=============================================================================
