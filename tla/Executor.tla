------------------------------ MODULE Executor ------------------------------
(***************************************************************************)
(* execute.ts and chain.ts: a worker executes a run of a flow, wave after  *)
(* wave.  Each step of a wave calls an agent, or executes another run when *)
(* its kind is "flow"; their traces are stored; the receipts are anchored  *)
(* one by one; in the end the run is sealed.  The chain is the composition *)
(* of FlowRegistry and ExecutionReceiptsV2, which refuse calls on their    *)
(* own terms.                                                              *)
(*                                                                         *)
(* The worker is asynchronous: between any two awaits of one run, other    *)
(* steps and other runs move, and so does the chain.  A transaction waits  *)
(* in the mempool; the worker waits for it until a deadline, and one given *)
(* up may still land.  A run that throws does not stop the steps of its    *)
(* wave that are under way.  The process may crash and be started again.   *)
(***************************************************************************)
EXTENDS ExecutionReceipts, Sequences, FiniteSetsExt, FlowPlan

CONSTANTS
    Worker,         \* the account whose key the worker signs with
    Requests,       \* [root, failFast]: the runs a caller may ask for; others are hired
    FlowOf,         \* run -> the flow it executes
    Width,          \* flow -> how many steps it declares
    Upstream,       \* flow -> step -> dependsOn of its plan
    ChildOf,        \* run -> step -> the run a step of kind "flow" hires, or Zero
    MaxLineage,     \* options.maxDepth: how deep runs may nest
    Attempts,       \* flow -> how often an agent of its steps is called at most
    Contested,      \* bound: the flows somebody else may publish meanwhile
    MaxStarts       \* bound, by the run asked for: how often the process is started

ASSUME WorkerIsAnAccount == Worker \in Accounts
ASSUME RequestsNameRuns == Requests \subseteq [root : Runs, failFast : BOOLEAN]
\* executeRun plans every flow first; the templates read what `needs` declares.
ASSUME FlowsAreAccepted ==
    \A f \in Flows :
        LET declared == [i \in 0 .. Width[f] - 1 |-> Upstream[f][i]]
        IN  Accepted(Width[f], declared, declared)
\* The id of a hired run is the hash of its parent's id and the step's index,
\* under a prefix of its own (execute.ts, `0gflow-subflow:`); a caller hashes
\* something fresh, random bytes or the time (run-flow/src/run.ts).
ASSUME HiredRunsAreDerived ==
    /\ ChildOf \in [Runs -> [Steps -> Runs \cup {Zero}]]
    /\ \A p, q \in Runs, i, j \in Steps :
          ChildOf[p][i] = ChildOf[q][j] /\ ChildOf[p][i] # Zero => p = q /\ i = j
    /\ \A request \in Requests, p \in Runs, i \in Steps : ChildOf[p][i] # request.root
ASSUME ExecutorBounds ==
    /\ FlowOf \in [Runs -> Flows]
    /\ Width \in [Flows -> 1 .. NumSteps]
    /\ MaxLineage \in Nat
    /\ Attempts \in [Flows -> Nat \ {0}]
    /\ MaxStarts \in [Runs -> Nat \ {0}]
    /\ Contested \subseteq Flows

StatusFailed == 1
StatusSkipped == 2
StatusUnattested == 3
Unknown == -1       \* no entry in statusById

VARIABLES
    options,        \* the root run asked for and its failFast
    proc,           \* run -> the local state of its executeRun call
    task,           \* run -> step -> how far its runStep call is
    mempool,        \* transactions not yet mined, in nonce order
    crashed,        \* the process is down
    starts,         \* how often the process was started
    hired           \* run -> step -> starts of the process that called its agent

workVars == <<options, proc, task, mempool, crashed, starts, hired>>
execVars == <<flowOwner, runs, steps, anchoredCount, seals,
              options, proc, task, mempool, crashed, starts, hired>>

StepsOf(r) == 0 .. Width[FlowOf[r]] - 1
DependsOf(r) == [i \in StepsOf(r) |-> Upstream[FlowOf[r]][i]]

\* plan.waves of every run, and the wave a run is at: none after the last.
PlannedWaves ==
    [r \in Runs |-> [k \in 1 .. NumSteps + 1 |-> Wave(Width[FlowOf[r]], DependsOf(r), k)]]
WaveOf(r) == PlannedWaves[r][proc[r].wave]

\* What executeRun keeps in local variables, and where it is.
NotCalled == [pc |-> "idle", awaiting |-> FALSE, wave |-> 1, halted |-> FALSE,
              lineage |-> {}, statusById |-> [i \in Steps |-> Unknown]]
Called(lineage) == [NotCalled EXCEPT !.pc = "check", !.lineage = lineage]
NoTask == [at |-> "idle", status |-> Unknown, attempt |-> 0]

ExecInit ==
    /\ ReceiptsInit
    /\ options \in Requests
    /\ proc = [[r \in Runs |-> NotCalled] EXCEPT ![options.root] = Called({})]
    /\ task = [r \in Runs |-> [i \in Steps |-> NoTask]]
    /\ mempool = <<>>
    /\ crashed = FALSE
    /\ starts = 1
    /\ hired = [r \in Runs |-> [i \in Steps |-> {}]]

Goto(r, pc) == proc' = [proc EXCEPT ![r].pc = pc, ![r].awaiting = FALSE]
Throw(r) == Goto(r, "threw")
Succeeded(r) == \A i \in StepsOf(r) : proc[r].statusById[i] = StatusOk

-----------------------------------------------------------------------------
\* Transactions.  `index` and `value` are the step index and status of an
\* anchor, the step count and outcome of a seal.
Tx(r, op, index, value) == [run |-> r, op |-> op, index |-> index, value |-> value, awaited |-> TRUE]

\* Whether the contract accepts it now.
Passes(tx) ==
    LET r == tx.run
        f == FlowOf[r]
    IN  CASE tx.op = "publish" -> ~IsPublished(f)
          [] tx.op = "start" -> CanStartRun(f, r)
          [] tx.op = "anchor" -> CanAnchor(Worker, r, tx.index, f, tx.value, TRUE)
          [] tx.op = "seal" -> CanSeal(Worker, r, tx.index, tx.value)

Executes(tx) ==
    LET r == tx.run
        f == FlowOf[r]
    IN  \/ tx.op = "publish" /\ PublishFlow(Worker, f) /\ UNCHANGED <<steps, anchoredCount, seals>>
        \/ tx.op = "start" /\ StartRun(f, r, Worker) /\ UNCHANGED <<steps, anchoredCount, seals>>
        \/ /\ tx.op = "anchor"
           /\ \E agent \in AgentIds, work \in Works :
                  AnchorStep(Worker, r, tx.index, f, tx.value, agent, work, TRUE)
        \/ tx.op = "seal" /\ SealRun(Worker, r, tx.index, tx.value)

\* writeContract: gas estimation runs the call first, so one that would revert
\* now is never sent; the worker then polls for the receipt.
Submit(r, tx) ==
    /\ ~proc[r].awaiting
    /\ Passes(tx)
    /\ mempool' = Append(mempool, tx)
    /\ proc' = [proc EXCEPT ![r].awaiting = TRUE]

\* A chain call throws before anything is sent: the estimate reverted, the
\* node was unreachable, or the clock ran backwards between the timestamps of
\* a receipt.
ChainCallFails(r) ==
    /\ proc[r].pc \in {"check", "publish", "start", "anchor", "seal"}
    /\ ~proc[r].awaiting
    /\ Throw(r)
    /\ UNCHANGED mempool

\* What follows a mined transaction; settling a payment comes before the
\* status of an anchored step is recorded.
After(op) ==
    CASE op = "publish" -> "start" [] op = "start" -> "wave"
      [] op = "anchor" -> "settle" [] op = "seal" -> "done"

\* The next transaction is mined, or reverts in its block, and the worker
\* that still polls for it moves on or throws.
Mine ==
    /\ mempool # <<>>
    /\ LET tx == Head(mempool)
       IN  /\ mempool' = Tail(mempool)
           /\ IF Passes(tx) THEN Executes(tx) ELSE UNCHANGED receiptVars
           /\ IF tx.awaited
              THEN IF Passes(tx) THEN Goto(tx.run, After(tx.op)) ELSE Throw(tx.run)
              ELSE UNCHANGED proc
    /\ UNCHANGED <<options, task, crashed, starts, hired>>

Forget(tx, r) == [tx EXCEPT !.awaited = @ /\ tx.run # r]

\* The receipt deadline passes: the run throws, the transaction may still land.
GiveUp(r) ==
    /\ proc[r].awaiting
    /\ mempool' = [k \in DOMAIN mempool |-> Forget(mempool[k], r)]
    /\ Throw(r)

-----------------------------------------------------------------------------
\* executeRun, from call to the first wave.

\* A run deeper than the limit, or of a flow that is already being executed
\* further out, is refused before anything is written.
MayNest(r) ==
    /\ Cardinality(proc[r].lineage) < MaxLineage
    /\ \A ancestor \in proc[r].lineage : FlowOf[ancestor] # FlowOf[r]

CheckRun(r) ==
    /\ proc[r].pc = "check"
    /\ IF ~MayNest(r) THEN Throw(r)
       ELSE Goto(r, IF IsPublished(FlowOf[r]) THEN "start" ELSE "publish")
    /\ UNCHANGED mempool

Publish(r) == proc[r].pc = "publish" /\ Submit(r, Tx(r, "publish", 0, 0))
Start(r) == proc[r].pc = "start" /\ Submit(r, Tx(r, "start", 0, 0))

-----------------------------------------------------------------------------
\* Waves.

\* Variant for the mutation checks: only failed upstreams block a step.
Blocked_ByFailure(r, i) ==
    \E upstream \in DependsOf(r)[i] : proc[r].statusById[upstream] = StatusFailed

\* A step has no data to run on when an upstream did not succeed.
Blocked(r, i) ==
    \E upstream \in DependsOf(r)[i] : proc[r].statusById[upstream] \notin {Unknown, StatusOk}

\* All steps of the wave start together; whether one is skipped is decided
\* before its first await.
BeginWave(r) ==
    /\ proc[r].pc = "wave"
    /\ IF WaveOf(r) = {}
       THEN Goto(r, "seal") /\ UNCHANGED task
       ELSE /\ Goto(r, "running")
            /\ task' = [task EXCEPT ![r] = [i \in Steps |->
                   IF i \notin WaveOf(r) THEN task[r][i]
                   ELSE IF Blocked(r, i) \/ proc[r].halted
                        THEN [NoTask EXCEPT !.at = "tracing", !.status = StatusSkipped]
                        ELSE [NoTask EXCEPT !.at = "begun"]]]
    /\ UNCHANGED mempool

\* Promise.all: the receipts are anchored once every step of the wave is done.
WaveSettles(r) ==
    /\ proc[r].pc = "running"
    /\ \A i \in WaveOf(r) : task[r][i].at = "ready"
    /\ Goto(r, "anchor")
    /\ UNCHANGED mempool

Unrecorded(r) == {i \in WaveOf(r) : proc[r].statusById[i] = Unknown}

AnchorNext(r) ==
    LET i == Min(Unrecorded(r))
    IN  /\ proc[r].pc = "anchor"
        /\ Submit(r, Tx(r, "anchor", i, task[r][i].status))

Halts(r, status) == options.failFast /\ \E i \in WaveOf(r) : status[i] # StatusOk

\* settleStep: whatever becomes of the payment, the run goes on.  After the
\* last receipt of the wave the next wave begins.
Settle(r) ==
    LET i == Min(Unrecorded(r))
        status == [proc[r].statusById EXCEPT ![i] = task[r][i].status]
        last == Unrecorded(r) = {i}
    IN  /\ proc[r].pc = "settle"
        /\ proc' = [proc EXCEPT ![r].pc = IF last THEN "wave" ELSE "anchor",
                                ![r].statusById = status,
                                ![r].wave = IF last THEN @ + 1 ELSE @,
                                ![r].halted = @ \/ (last /\ Halts(r, status))]
        /\ UNCHANGED mempool

\* Variant for the mutation checks: the last step that did not succeed.
RunOutcome_Last(r) ==
    IF Succeeded(r) THEN StatusOk
    ELSE proc[r].statusById[Max({i \in StepsOf(r) : proc[r].statusById[i] # StatusOk})]

\* The run's outcome is the first status that is not ok.
RunOutcome(r) ==
    IF Succeeded(r) THEN StatusOk
    ELSE proc[r].statusById[Min({i \in StepsOf(r) : proc[r].statusById[i] # StatusOk})]

Seal(r) ==
    /\ proc[r].pc = "seal"
    /\ Submit(r, Tx(r, "seal", Cardinality(StepsOf(r)), RunOutcome(r)))

RunStep(r) ==
    /\ ~crashed
    /\ \/ BeginWave(r)
       \/ /\ \/ CheckRun(r) \/ Publish(r) \/ Start(r) \/ WaveSettles(r) \/ AnchorNext(r)
             \/ Settle(r) \/ Seal(r) \/ ChainCallFails(r) \/ GiveUp(r)
          /\ UNCHANGED task
    /\ UNCHANGED <<receiptVars, options, crashed, starts, hired>>

-----------------------------------------------------------------------------
\* runStep of one step.
IsSubFlow(r, i) == ChildOf[r][i] # Zero
Becomes(r, i, at, status) == task' = [task EXCEPT ![r][i].at = at, ![r][i].status = status]

\* The reputation bar is not met, or could not be read: skipped.  No
\* endpoint, no input, or an input the published schema rejects: failed.
TurnDown(r, i) ==
    /\ task[r][i].at = "begun"
    /\ \E status \in {StatusSkipped, StatusFailed} : Becomes(r, i, "tracing", status)
    /\ UNCHANGED <<proc, hired>>

Invoke(r, i) ==
    /\ task[r][i].at = "begun"
    /\ ~IsSubFlow(r, i)
    /\ task' = [task EXCEPT ![r][i].at = "invoked", ![r][i].attempt = 1]
    /\ hired' = [hired EXCEPT ![r][i] = @ \cup {starts}]
    /\ UNCHANGED proc

MayRetry(r, i) == task[r][i].attempt < Attempts[FlowOf[r]]

\* A timeout, a lost connection or an error the agent calls retryable.
Retry(r, i) ==
    /\ task[r][i].at = "invoked"
    /\ MayRetry(r, i)
    /\ task' = [task EXCEPT ![r][i].attempt = @ + 1]
    /\ UNCHANGED <<proc, hired>>

\* The answer, or the last error; decideStepStatus makes a status of it.
Answer(r, i) ==
    /\ task[r][i].at = "invoked"
    /\ \E status \in {StatusOk, StatusFailed, StatusUnattested} : Becomes(r, i, "tracing", status)
    /\ UNCHANGED <<proc, hired>>

\* runSubFlowStep: execute the hired run, with this one in its lineage.
Hire(r, i) ==
    /\ task[r][i].at = "begun"
    /\ IsSubFlow(r, i)
    /\ task' = [task EXCEPT ![r][i].at = "hiring"]
    /\ proc' = [proc EXCEPT ![ChildOf[r][i]] = Called(proc[r].lineage \cup {r})]
    /\ hired' = [hired EXCEPT ![r][i] = @ \cup {starts}]

\* Variants for the mutation checks: a sub-flow that returned is good enough;
\* one that throws is never noticed.
ChildStatus_Returned(child) == IF proc[child].pc = "done" THEN StatusOk ELSE StatusFailed
Ended_Returned(child) == proc[child].pc = "done"

Ended(child) == proc[child].pc \in {"done", "threw"}
ChildStatus(child) ==
    IF proc[child].pc = "done" /\ Succeeded(child) THEN StatusOk ELSE StatusFailed

ChildEnds(r, i) ==
    /\ task[r][i].at = "hiring"
    /\ Ended(ChildOf[r][i])
    /\ Becomes(r, i, "tracing", ChildStatus(ChildOf[r][i]))
    /\ UNCHANGED <<proc, hired>>

\* traces.put, for every outcome of a step.  When it rejects, so does runStep,
\* and executeRun with it.
StoreTrace(r, i) ==
    /\ task[r][i].at = "tracing"
    /\ task' = [task EXCEPT ![r][i].at = "ready"]
    /\ UNCHANGED <<proc, hired>>

StoreFails(r, i) ==
    /\ task[r][i].at = "tracing"
    /\ task' = [task EXCEPT ![r][i].at = "lost"]
    /\ IF proc[r].pc = "running" THEN Throw(r) ELSE UNCHANGED proc
    /\ UNCHANGED hired

TaskStep(r, i) ==
    /\ ~crashed
    /\ \/ TurnDown(r, i) \/ Invoke(r, i) \/ Retry(r, i) \/ Answer(r, i)
       \/ Hire(r, i) \/ ChildEnds(r, i) \/ StoreTrace(r, i) \/ StoreFails(r, i)
    /\ UNCHANGED <<receiptVars, options, mempool, crashed, starts>>

-----------------------------------------------------------------------------
\* The process dies; what it sent stays in the mempool.  Started again it is
\* asked for the same run.
Crash ==
    /\ ~crashed
    /\ crashed' = TRUE
    /\ proc' = [r \in Runs |-> NotCalled]
    /\ task' = [r \in Runs |-> [i \in Steps |-> NoTask]]
    /\ mempool' = [k \in DOMAIN mempool |-> [mempool[k] EXCEPT !.awaited = FALSE]]
    /\ UNCHANGED <<receiptVars, options, starts, hired>>

Restart ==
    /\ crashed
    /\ starts < MaxStarts[options.root]
    /\ crashed' = FALSE
    /\ starts' = starts + 1
    /\ proc' = [proc EXCEPT ![options.root] = Called({})]
    /\ UNCHANGED <<receiptVars, options, task, mempool, hired>>

\* Publishing is permissionless: somebody else may record a flow the worker is
\* about to publish.  (Other flows make no difference to the worker.)
OthersPublish ==
    /\ \E caller \in Accounts \ {Worker}, r \in Runs :
          /\ proc[r].pc \in {"check", "publish"} /\ FlowOf[r] \in Contested
          /\ PublishFlow(caller, FlowOf[r])
    /\ UNCHANGED <<steps, anchoredCount, seals>>
    /\ UNCHANGED workVars

ExecNext ==
    \/ \E r \in Runs : RunStep(r)
    \/ \E r \in Runs, i \in Steps : TaskStep(r, i)
    \/ Mine
    \/ Crash \/ Restart
    \/ OthersPublish

ExecSpec == ExecInit /\ [][ExecNext]_execVars

\* The event loop runs whatever can run: every call the worker waits for ends
\* by an answer or a timeout.  Which of several ready continuations it takes
\* first is open, and nothing is assumed of the chain: a transaction need
\* never be mined.
WorkerStep ==
    \/ \E r \in Runs : RunStep(r)
    \/ \E r \in Runs, i \in Steps : TaskStep(r, i)

ExecFairness == WF_execVars(WorkerStep)

ExecFairSpec == ExecSpec /\ ExecFairness

-----------------------------------------------------------------------------
StatusOnChain(r, i) == steps[r][i].statusPlusOne - 1

\* A sealed run is complete and its outcome is what its receipts say: every
\* step the flow declares has a receipt, and the outcome is the first status
\* that is not ok.  So it stays whatever was given up, mined late, or done by
\* an earlier start of the process.
SealTellsTheTruth ==
    \A r \in Runs : IsSealed(r) =>
        /\ AnchoredSteps(r) = StepsOf(r)
        /\ LET bad == {i \in StepsOf(r) : StatusOnChain(r, i) # StatusOk}
           IN  seals[r].outcome = IF bad = {} THEN StatusOk ELSE StatusOnChain(r, Min(bad))

\* An agent works, and a receipt says ok, only on inputs that are on chain:
\* when a step is under way or ok, the receipts of all its upstreams are
\* anchored and ok, not merely computed.  And what the worker has recorded of a
\* step is what the chain says.
WorkRestsOnReceipts ==
    \A r \in Runs, i \in Steps :
        /\ \/ task[r][i].at \in {"invoked", "hiring"}
           \/ AnchoredWith(r, i, StatusOk)
           => \A upstream \in DependsOf(r)[i] : AnchoredWith(r, upstream, StatusOk)
        /\ proc[r].statusById[i] # Unknown => AnchoredWith(r, i, proc[r].statusById[i])

\* However often the process crashes and is asked for the run again, at most
\* one of its lives calls a step's agent: the run can only be started once, and
\* the id of a hired run is derived from its parent's.
OneLifeHires ==
    \A r \in Runs, i \in Steps : Cardinality(hired[r][i]) <= 1

\* A receipt that says ok for a sub-flow step means that the hired run is
\* sealed, with outcome ok: the parent claims no work its child did not do.
ParentsVouchForSealedChildren ==
    \A r \in Runs : \A i \in StepsOf(r) :
        IsSubFlow(r, i) /\ AnchoredWith(r, i, StatusOk) =>
            IsSealed(ChildOf[r][i]) /\ seals[ChildOf[r][i]].outcome = StatusOk

\* Every call of executeRun returns or throws, unless the process crashes: time
\* and again no run is under way.  No step waits for a hired run that never
\* reports, no transaction is waited for without end.
RunsEnd == []<>(\A r \in Runs : proc[r].pc \in {"done", "threw", "idle"})

\* "A step whose trace failed to upload is recorded with the failure": a
\* step whose trace could not be stored gets a receipt, unless the process
\* crashes.
LostTracesAreRecorded ==
    \A r \in Runs, i \in Steps :
        task[r][i].at = "lost" ~> IsAnchored(r, i) \/ crashed
=============================================================================
