----------------------------- MODULE MCExecutor -----------------------------
(* Five jobs, one per behaviour: runDiamond executes a diamond of three       *)
(* agents; runFork a fork, whose last step needs only one of the first two;   *)
(* runPair hires two runs of one flow in the same wave; runOuter hires one;   *)
(* runLoop hires a run of its own flow, which the planner cannot see.         *)
EXTENDS Executor, TLC

CONSTANTS runDiamond, runFork, runPair, runOuter, runLoop,
          childB, childC, childD, childE, childNone,
          diamond, fork, pair, outer, single, loop,
          worker, other, work1

MCFlowOf ==
    runDiamond :> diamond @@ runFork :> fork @@ runPair :> pair @@ runOuter :> outer @@ runLoop :> loop
        @@ childE :> loop @@ childNone :> loop @@ [run \in {childB, childC, childD} |-> single]
MCWidth == diamond :> 3 @@ fork :> 3 @@ pair :> 2 @@ [flow \in {outer, single, loop} |-> 1]
MCUpstream ==
    diamond :> (0 :> {} @@ 1 :> {} @@ 2 :> {0, 1}) @@ fork :> (0 :> {} @@ 1 :> {} @@ 2 :> {0})
        @@ [flow \in Flows |-> [i \in 0 .. 2 |-> {}]]
NoChild == [i \in 0 .. 2 |-> Zero]
MCChildOf ==
    runPair :> [NoChild EXCEPT ![0] = childC, ![1] = childD]
        @@ runOuter :> [NoChild EXCEPT ![0] = childB]
        @@ runLoop :> [NoChild EXCEPT ![0] = childE]
        @@ childE :> [NoChild EXCEPT ![0] = childNone]
        @@ [run \in Runs |-> NoChild]

\* Only the diamond's agents are called again, and only the pair and the fork
\* are not asked for again after a crash: they are large enough as they are.
MCAttempts == diamond :> 2 @@ [flow \in Flows |-> 1]
\* The race for a flow is run elsewhere than among the pair's hired runs, which
\* race each other for theirs.
MCContested == Flows \ {pair, single}
MCMaxStarts == [run \in {runPair, runFork} |-> 1] @@ [run \in Runs |-> 2]

Asked(roots, failFast) == [root : roots, failFast : failFast]
MCRequests == Asked({runDiamond}, BOOLEAN) \cup Asked({runFork, runPair, runLoop, runOuter}, {TRUE})
MCLoop == Asked({runLoop}, {TRUE})
MCStatuses == 0 .. 3
MCModulus == 4
=============================================================================
