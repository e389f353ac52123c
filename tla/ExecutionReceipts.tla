------------------------- MODULE ExecutionReceipts -------------------------
(***************************************************************************)
(* ExecutionReceiptsV2.sol over the FlowRegistry it reads: the executor of *)
(* a run anchors one receipt per step, each once, and then seals the run.  *)
(*                                                                         *)
(* A receipt is reduced to what other contracts read back from storage:    *)
(* its status, the agent it names and the work it commits to (the input    *)
(* and output hashes, one value here).  Trace root, attestation reference  *)
(* and the two timestamps are only emitted; of the timestamps the model    *)
(* keeps whether they are in order, which the contract checks.             *)
(***************************************************************************)
EXTENDS FlowRegistry, FiniteSets

CONSTANTS
    NumSteps,       \* step indices are 0 .. NumSteps - 1
    AgentIds,       \* agent ids a receipt may name
    ReportedStatuses, \* status and outcome values an executor may submit
    Works,          \* (input hash, output hash) pairs a receipt may commit to
    CountModulus    \* anchoredCount is a uint32 incremented unchecked: 2^32

Steps == 0 .. NumSteps - 1
StatusOk == 0
StatusMax == 3
Statuses == 0 .. StatusMax

ASSUME NumStepsAssumption == NumSteps \in Nat \ {0}

\* A uint8 can hold more than the four statuses: the contract must refuse them.
ASSUME StatusesAreNumbers == ReportedStatuses \subseteq Nat

\* The counter cannot wrap: a run would have to anchor every one of the 2^32
\* step indices, which no block gas limit allows in the life of a chain.
ASSUME CountFits == CountModulus \in Nat /\ NumSteps < CountModulus

VARIABLES
    steps,          \* run -> step -> StepState (statusPlusOne = 0: unanchored)
    anchoredCount,  \* run -> how many receipts were anchored, uint32
    seals           \* run -> Seal, NoSeal while the run is open

receiptVars == <<flowOwner, runs, steps, anchoredCount, seals>>

Unanchored == [statusPlusOne |-> 0, agent |-> Zero, work |-> Zero]
NoSeal == [stepCount |-> 0, outcome |-> 0, sealed |-> FALSE]

StepStates ==
    [statusPlusOne : 1 .. StatusMax + 1, agent : AgentIds, work : Works]
        \cup {Unanchored}

ReceiptsTypeOK ==
    /\ RegistryTypeOK
    /\ steps \in [Runs -> [Steps -> StepStates]]
    /\ anchoredCount \in [Runs -> 0 .. CountModulus - 1]
    /\ seals \in [Runs -> [stepCount : 0 .. CountModulus - 1,
                           outcome : Statuses, sealed : BOOLEAN]]

ReceiptsInit ==
    /\ RegistryInit
    /\ steps = [r \in Runs |-> [i \in Steps |-> Unanchored]]
    /\ anchoredCount = [r \in Runs |-> 0]
    /\ seals = [r \in Runs |-> NoSeal]

IsAnchored(r, i) == steps[r][i].statusPlusOne # 0
IsSealed(r) == seals[r].sealed
AnchoredSteps(r) == {i \in Steps : IsAnchored(r, i)}

\* stepOf reverts for an unanchored step, so a missing receipt is never read
\* as status 0.
AnchoredWith(r, i, status) ==
    IsAnchored(r, i) /\ steps[r][i].statusPlusOne - 1 = status

-----------------------------------------------------------------------------
\* Variant for the mutation checks: a sealed run still takes receipts.
CanAnchor_AfterSeal(caller, r, i, f, status, inOrder) ==
    IsExecutor(caller, r) /\ ~IsAnchored(r, i) /\ status <= StatusMax /\ inOrder /\ f = runs[r].flow
\* The checks of anchorStep.
CanAnchor(caller, r, i, f, status, inOrder) ==
    /\ IsExecutor(caller, r)
    /\ ~IsSealed(r)
    /\ ~IsAnchored(r, i)
    /\ status <= StatusMax
    /\ inOrder                      \* endedAt >= startedAt
    /\ f = runs[r].flow

AnchorStep(caller, r, i, f, status, agent, work, inOrder) ==
    /\ CanAnchor(caller, r, i, f, status, inOrder)
    /\ steps' = [steps EXCEPT ![r][i] =
           [statusPlusOne |-> status + 1, agent |-> agent, work |-> work]]
    /\ anchoredCount' = [anchoredCount EXCEPT ![r] = (@ + 1) % CountModulus]
    /\ UNCHANGED <<flowOwner, runs, seals>>

\* The checks of sealRun: a seal may not claim receipts nobody can find.
CanSeal(caller, r, stepCount, outcome) ==
    /\ IsExecutor(caller, r)
    /\ ~IsSealed(r)
    /\ outcome <= StatusMax
    /\ stepCount = anchoredCount[r]

SealRun(caller, r, stepCount, outcome) ==
    /\ CanSeal(caller, r, stepCount, outcome)
    /\ seals' = [seals EXCEPT ![r] =
           [stepCount |-> stepCount, outcome |-> outcome, sealed |-> TRUE]]
    /\ UNCHANGED <<flowOwner, runs, steps, anchoredCount>>

\* A transaction to either contract by caller, one disjunct per function.
\* The inputs include what the checks refuse: the wrong flow, a status beyond
\* the enum, timestamps out of order, a count that does not match.
ReceiptsCall(caller) ==
    \/ \E f \in Flows : PublishFlow(caller, f) /\ UNCHANGED <<steps, anchoredCount, seals>>
    \/ \E f \in Flows, r \in Runs, executor \in Accounts :
           StartRun(f, r, executor) /\ UNCHANGED <<steps, anchoredCount, seals>>
    \/ \E r \in Runs, i \in Steps, f \in Flows, status \in ReportedStatuses,
          agent \in AgentIds, work \in Works, inOrder \in BOOLEAN :
           AnchorStep(caller, r, i, f, status, agent, work, inOrder)
    \/ \E r \in Runs, stepCount \in 0 .. NumSteps, outcome \in ReportedStatuses :
           SealRun(caller, r, stepCount, outcome)

ReceiptsNext == \E caller \in Accounts : ReceiptsCall(caller)

ReceiptsSpec == ReceiptsInit /\ [][ReceiptsNext]_receiptVars

-----------------------------------------------------------------------------
\* A sealed run's step count is the number of receipts anyone can find for
\* it, for ever: the seal was checked against the counter, the counter kept
\* pace with the receipts, and none was added or lost since.
SealCountsTheReceipts ==
    \A r \in Runs : IsSealed(r) => seals[r].stepCount = Cardinality(AnchoredSteps(r))

\* Every receipt belongs to a started run of a published flow: the two
\* contracts' checks compose although neither refers to the other's state.
ReceiptsBelongToAPublishedFlow ==
    \A r \in Runs : AnchoredSteps(r) # {} \/ IsSealed(r)
                        => IsStarted(r) /\ IsPublished(runs[r].flow)

\* What was written is never rewritten, and a sealed run gains no receipt: a
\* worker resuming after a crash cannot replace what a verifier already read.
ReceiptsAreFinal ==
    [][\A r \in Runs :
          /\ IsStarted(r) => runs'[r] = runs[r]
          /\ IsSealed(r) => seals'[r] = seals[r] /\ steps'[r] = steps[r]
          /\ \A i \in Steps : IsAnchored(r, i) => steps'[r][i] = steps[r][i]]_receiptVars

-----------------------------------------------------------------------------
\* What other contracts see of a step through stepOf.
ReceiptView(r, i) ==
    [status |-> IF IsAnchored(r, i) THEN steps[r][i].statusPlusOne - 1 ELSE 0,
     agent |-> steps[r][i].agent, work |-> steps[r][i].work, anchored |-> IsAnchored(r, i)]

Ledger == INSTANCE ReceiptLedger WITH
    executorOf <- [r \in Runs |-> runs[r].executor],
    receiptOf <- [r \in Runs |-> [i \in Steps |-> ReceiptView(r, i)]],
    sealed <- [r \in Runs |-> IsSealed(r)]

\* The two contracts implement the ledger the escrow is composed with: no
\* sequence of their calls, well formed or not, shows a reader more than one
\* executor, a second receipt for a step, or a receipt after the seal.
ImplementsReceiptLedger == Ledger!LedgerSpec

=============================================================================
