---------------------------- MODULE FlowRegistry ----------------------------
(***************************************************************************)
(* FlowRegistry.sol: which flows are published, and which run belongs to   *)
(* which flow and names which executor.  Anyone may publish a flow or open *)
(* a run; both are recorded once and never change.                         *)
(*                                                                         *)
(* Zero stands for bytes32(0) and address(0), the value an unset mapping   *)
(* entry reads as.  The contract tells "published" and "started" by a      *)
(* non-zero timestamp; block.timestamp is never 0, so the model tells them *)
(* by a non-zero owner and executor.                                       *)
(***************************************************************************)
EXTENDS Integers, Chain

CONSTANTS
    Flows,      \* flow ids (hashes of flow specifications), none of them Zero
    Runs        \* run ids, none of them Zero

ASSUME ZeroIsNoId == Zero \notin Flows \cup Runs \cup Accounts

VARIABLES
    flowOwner,  \* flow id -> who published it, Zero when unpublished
    runs        \* run id -> the flow it runs and the executor it names

registryVars == <<flowOwner, runs>>

NoRun == [flow |-> Zero, executor |-> Zero]

RegistryTypeOK ==
    /\ flowOwner \in [Flows -> Accounts \cup {Zero}]
    /\ runs \in [Runs -> [flow : Flows, executor : Accounts] \cup {NoRun}]

RegistryInit ==
    /\ flowOwner = [f \in Flows |-> Zero]
    /\ runs = [r \in Runs |-> NoRun]

IsPublished(f) == flowOwner[f] # Zero
IsStarted(r) == runs[r] # NoRun

\* executorOf reverts for a run that was never started, so that "no such run"
\* is never read as "no restriction": a caller is the executor only of a
\* started run.
IsExecutor(caller, r) == IsStarted(r) /\ runs[r].executor = caller

PublishFlow(caller, f) ==
    /\ ~IsPublished(f)
    /\ flowOwner' = [flowOwner EXCEPT ![f] = caller]
    /\ UNCHANGED runs

\* Variant for the mutation checks: a run may be started again.
CanStartRun_Again(f, r) == IsPublished(f)

CanStartRun(f, r) == IsPublished(f) /\ ~IsStarted(r)

\* Anyone may start a run and name any executor for it; a zero executor is
\* refused, which is why executor ranges over Accounts.
StartRun(f, r, executor) ==
    /\ CanStartRun(f, r)
    /\ runs' = [runs EXCEPT ![r] = [flow |-> f, executor |-> executor]]
    /\ UNCHANGED flowOwner

=============================================================================
