--------------------------- MODULE ExecutorProofs ---------------------------
(***************************************************************************)
(* For every set of flows, runs, accounts, agents and works, and for every *)
(* number of steps the 32-bit counter can hold: the receipts contracts'    *)
(* invariants, that what they record is final, and that they implement     *)
(* ReceiptLedger, the ledger FlowEscrow is composed with.                  *)
(*                                                                         *)
(* Then, for flows of any width, any nesting and any number of restarts:   *)
(* the safety invariants of the executor that writes to those contracts.   *)
(* They rest on an inductive invariant that relates, run by run, what the  *)
(* chain holds, what the mempool may still bring, what the steps under way *)
(* are doing and what executeRun has recorded.                             *)
(***************************************************************************)
EXTENDS Executor, FlowPlanProofs, SequenceTheorems

-----------------------------------------------------------------------------
\* The receipts contracts.
\* The counter keeps pace with the receipts, and a seal was made when it
\* showed what it shows now.
ReceiptsInv ==
    /\ ReceiptsTypeOK
    /\ \A r \in Runs :
          /\ anchoredCount[r] = Cardinality(AnchoredSteps(r))
          /\ IsSealed(r) => seals[r].stepCount = anchoredCount[r]
          /\ AnchoredSteps(r) # {} \/ IsSealed(r) => IsStarted(r)
          /\ IsStarted(r) => IsPublished(runs[r].flow)

LEMMA StepsFinite == IsFiniteSet(Steps) /\ Cardinality(Steps) = NumSteps
BY FS_Interval, NumStepsAssumption DEF Steps

LEMMA StepStateTyped ==
    ASSUME NEW status \in 0 .. StatusMax, NEW agent \in AgentIds, NEW work \in Works
    PROVE  [statusPlusOne |-> status + 1, agent |-> agent, work |-> work] \in StepStates
BY DEF StepStates, StatusMax

LEMMA InitReceiptsInv == ReceiptsInit => ReceiptsInv
<1> SUFFICES ASSUME ReceiptsInit PROVE ReceiptsInv
  OBVIOUS
<1>1. ReceiptsTypeOK
  BY CountFits, NumStepsAssumption
     DEF ReceiptsInit, RegistryInit, ReceiptsTypeOK, RegistryTypeOK, StepStates, Unanchored,
         NoSeal, Statuses, StatusMax
<1>2. \A r \in Runs : AnchoredSteps(r) = {} /\ ~IsSealed(r) /\ ~IsStarted(r)
  BY DEF ReceiptsInit, RegistryInit, AnchoredSteps, IsAnchored, Unanchored, IsSealed, NoSeal,
         IsStarted
<1>3. \A r \in Runs : anchoredCount[r] = 0
  BY DEF ReceiptsInit
<1> QED
  BY <1>1, <1>2, <1>3, FS_EmptySet DEF ReceiptsInv

-----------------------------------------------------------------------------
\* Anchoring adds the step to the anchored ones, counts it, and does not wrap.
LEMMA AnchorCounts ==
    ASSUME ReceiptsInv, NEW caller, NEW r \in Runs, NEW i \in Steps, NEW f,
           NEW status \in ReportedStatuses, NEW agent \in AgentIds, NEW work \in Works,
           NEW inOrder, AnchorStep(caller, r, i, f, status, agent, work, inOrder)
    PROVE  /\ ReceiptsTypeOK'
           /\ \A q \in Runs : anchoredCount'[q] = Cardinality(AnchoredSteps(q)')
           /\ \A q \in Runs : q # r => AnchoredSteps(q)' = AnchoredSteps(q)
           /\ \A q \in Runs : q # r => anchoredCount'[q] = anchoredCount[q]
<1> DEFINE state == [statusPlusOne |-> status + 1, agent |-> agent, work |-> work]
<1>1. /\ steps \in [Runs -> [Steps -> StepStates]]
      /\ anchoredCount \in [Runs -> 0 .. CountModulus - 1]
      /\ anchoredCount[r] = Cardinality(AnchoredSteps(r))
  BY DEF ReceiptsInv, ReceiptsTypeOK
<1>2. /\ ~IsAnchored(r, i) /\ status \in 0 .. StatusMax
      /\ steps' = [steps EXCEPT ![r][i] = state]
      /\ anchoredCount' = [anchoredCount EXCEPT ![r] = (@ + 1) % CountModulus]
      /\ UNCHANGED <<flowOwner, runs, seals>>
  BY StatusesAreNumbers DEF AnchorStep, CanAnchor, StatusMax
<1>3. state \in StepStates /\ state.statusPlusOne # 0
  BY <1>2, StepStateTyped
<1>4. AnchoredSteps(r)' = AnchoredSteps(r) \cup {i}
  BY <1>1, <1>2, <1>3 DEF AnchoredSteps, IsAnchored
<1>5. \A q \in Runs : q # r => AnchoredSteps(q)' = AnchoredSteps(q)
  BY <1>1, <1>2 DEF AnchoredSteps, IsAnchored
<1>6. i \notin AnchoredSteps(r) /\ AnchoredSteps(r) \subseteq Steps
  BY <1>2 DEF AnchoredSteps
<1>7. IsFiniteSet(AnchoredSteps(r))
  BY <1>6, StepsFinite, FS_Subset
<1>8. Cardinality(AnchoredSteps(r)') = Cardinality(AnchoredSteps(r)) + 1
  BY <1>4, <1>6, <1>7, FS_AddElement
<1>9. AnchoredSteps(r)' \in SUBSET Steps
  BY <1>4, <1>6
<1>10. Cardinality(AnchoredSteps(r)') <= NumSteps
  BY <1>9, StepsFinite, FS_Subset
<1>11. (anchoredCount[r] + 1) % CountModulus = anchoredCount[r] + 1
  <2>1. anchoredCount[r] + 1 \in Nat /\ anchoredCount[r] + 1 < CountModulus
    BY <1>1, <1>8, <1>10, CountFits, NumStepsAssumption
  <2> QED
    BY <2>1, CountFits
<1>12. anchoredCount'[r] = anchoredCount[r] + 1 /\ anchoredCount'[r] \in 0 .. CountModulus - 1
  BY <1>1, <1>2, <1>8, <1>10, <1>11, CountFits, NumStepsAssumption
<1>13. \A q \in Runs : q # r => anchoredCount'[q] = anchoredCount[q]
  BY <1>1, <1>2
<1>14. \A q \in Runs : anchoredCount'[q] = Cardinality(AnchoredSteps(q)')
  <2> SUFFICES ASSUME NEW q \in Runs PROVE anchoredCount'[q] = Cardinality(AnchoredSteps(q)')
    OBVIOUS
  <2>1. CASE q = r
    BY <2>1, <1>1, <1>8, <1>12
  <2>2. CASE q # r
    BY <2>2, <1>5, <1>13 DEF ReceiptsInv
  <2> QED
    BY <2>1, <2>2
<1>15. ReceiptsTypeOK'
  <2>1. steps' \in [Runs -> [Steps -> StepStates]]
    BY <1>1, <1>2, <1>3
  <2>2. anchoredCount' \in [Runs -> 0 .. CountModulus - 1]
    BY <1>1, <1>2, <1>12
  <2> QED
    BY <2>1, <2>2, <1>2 DEF ReceiptsInv, ReceiptsTypeOK, RegistryTypeOK
<1> QED
  BY <1>5, <1>13, <1>14, <1>15

LEMMA NextReceiptsInv == ReceiptsInv /\ [ReceiptsNext]_receiptVars => ReceiptsInv'
<1> SUFFICES ASSUME ReceiptsInv, [ReceiptsNext]_receiptVars PROVE ReceiptsInv'
  OBVIOUS
<1> USE DEF AnchoredSteps, IsAnchored, IsSealed, IsStarted, IsPublished
<1>1. ASSUME NEW caller \in Accounts, NEW f \in Flows, PublishFlow(caller, f),
             UNCHANGED <<steps, anchoredCount, seals>>
      PROVE  ReceiptsInv'
  <2>1. ReceiptsTypeOK'
    BY <1>1 DEF ReceiptsInv, ReceiptsTypeOK, RegistryTypeOK, PublishFlow
  <2>2. \A g : IsPublished(g) /\ g \in Flows => IsPublished(g)'
    BY <1>1, ZeroIsNoId DEF ReceiptsInv, ReceiptsTypeOK, RegistryTypeOK, PublishFlow
  <2>3. \A r \in Runs : IsStarted(r) => runs[r].flow \in Flows
    BY DEF ReceiptsInv, ReceiptsTypeOK, RegistryTypeOK
  <2>4. runs' = runs /\ steps' = steps /\ anchoredCount' = anchoredCount /\ seals' = seals
    BY <1>1 DEF PublishFlow
  <2>5. \A r \in Runs : IsStarted(r)' => IsPublished(runs[r].flow)'
    BY <2>2, <2>3, <2>4 DEF ReceiptsInv
  <2> QED
    BY <2>1, <2>4, <2>5 DEF ReceiptsInv
<1>2. ASSUME NEW f \in Flows, NEW r \in Runs, NEW executor \in Accounts,
             StartRun(f, r, executor), UNCHANGED <<steps, anchoredCount, seals>>
      PROVE  ReceiptsInv'
  <2>1. ReceiptsTypeOK'
    BY <1>2 DEF ReceiptsInv, ReceiptsTypeOK, RegistryTypeOK, StartRun, CanStartRun
  <2>2. /\ runs'[r].flow = f
        /\ \A q \in Runs : q # r => runs'[q] = runs[q]
        /\ runs'[r] # NoRun
    BY <1>2, ZeroIsNoId DEF ReceiptsInv, ReceiptsTypeOK, RegistryTypeOK, StartRun, CanStartRun, NoRun
  <2>3. IsPublished(f) /\ UNCHANGED <<flowOwner, steps, anchoredCount, seals>>
    BY <1>2 DEF StartRun, CanStartRun
  <2>4. ASSUME NEW q \in Runs PROVE IsStarted(q)' => IsPublished(runs[q].flow)'
    <3>1. CASE q = r
      BY <3>1, <2>2, <2>3
    <3>2. CASE q # r
      BY <3>2, <2>2, <2>3 DEF ReceiptsInv
    <3> QED
      BY <3>1, <3>2
  <2>5. \A q \in Runs : IsStarted(q) => IsStarted(q)'
    BY <1>2, <2>2 DEF StartRun, CanStartRun
  <2>6. \A q \in Runs : /\ AnchoredSteps(q)' = AnchoredSteps(q)
                        /\ IsSealed(q)' = IsSealed(q)
    BY <2>3
  <2> HIDE DEF AnchoredSteps, IsAnchored, IsSealed, IsStarted, IsPublished
  <2>7. \A q \in Runs : anchoredCount'[q] = Cardinality(AnchoredSteps(q)')
    BY <2>3, <2>6 DEF ReceiptsInv
  <2> QED
    BY <2>1, <2>3, <2>4, <2>5, <2>6, <2>7 DEF ReceiptsInv
<1>3. ASSUME NEW caller \in Accounts, NEW r \in Runs, NEW i \in Steps, NEW f \in Flows,
             NEW status \in ReportedStatuses, NEW agent \in AgentIds, NEW work \in Works,
             NEW inOrder \in BOOLEAN,
             AnchorStep(caller, r, i, f, status, agent, work, inOrder)
      PROVE  ReceiptsInv'
  <2>1. /\ ReceiptsTypeOK'
        /\ \A q \in Runs : anchoredCount'[q] = Cardinality(AnchoredSteps(q)')
        /\ \A q \in Runs : q # r => AnchoredSteps(q)' = AnchoredSteps(q)
        /\ \A q \in Runs : q # r => anchoredCount'[q] = anchoredCount[q]
    BY <1>3, AnchorCounts
  <2>2. IsStarted(r) /\ ~IsSealed(r) /\ UNCHANGED <<flowOwner, runs, seals>>
    BY <1>3 DEF AnchorStep, CanAnchor, IsExecutor
  <2> QED
    BY <2>1, <2>2 DEF ReceiptsInv
<1>4. ASSUME NEW caller \in Accounts, NEW r \in Runs, NEW stepCount \in 0 .. NumSteps,
             NEW outcome \in ReportedStatuses, SealRun(caller, r, stepCount, outcome)
      PROVE  ReceiptsInv'
  <2>1. stepCount = anchoredCount[r] /\ outcome \in Statuses /\ IsStarted(r)
    BY <1>4, StatusesAreNumbers DEF SealRun, CanSeal, IsExecutor, Statuses, StatusMax
  <2>2. ReceiptsTypeOK'
    BY <1>4, <2>1 DEF ReceiptsInv, ReceiptsTypeOK, RegistryTypeOK, SealRun, CanSeal
  <2>3. /\ seals'[r].stepCount = anchoredCount[r]
        /\ \A q \in Runs : q # r => seals'[q] = seals[q]
    BY <1>4, <2>1 DEF ReceiptsInv, ReceiptsTypeOK, SealRun, CanSeal
  <2> QED
    BY <2>1, <2>2, <2>3, <1>4 DEF ReceiptsInv, SealRun, CanSeal
<1>5. CASE UNCHANGED receiptVars
  BY <1>5 DEF ReceiptsInv, ReceiptsTypeOK, RegistryTypeOK, receiptVars
<1> QED
  BY <1>1, <1>2, <1>3, <1>4, <1>5 DEF ReceiptsNext, ReceiptsCall

LEMMA ReceiptsInvariance == ReceiptsSpec => []ReceiptsInv
BY InitReceiptsInv, NextReceiptsInv, PTL DEF ReceiptsSpec

\* The receipts contracts' storage is always well typed; in particular no
\* status beyond the enum is ever stored.
THEOREM ReceiptsTyped == ReceiptsSpec => []ReceiptsTypeOK
BY ReceiptsInvariance, PTL DEF ReceiptsInv

\* A sealed run's step count is the number of its receipts.
THEOREM SealCounts == ReceiptsSpec => []SealCountsTheReceipts
<1>1. ReceiptsInv => SealCountsTheReceipts
  BY DEF ReceiptsInv, SealCountsTheReceipts
<1> QED
  BY <1>1, ReceiptsInvariance, PTL

\* A receipt or a seal exists only for a started run of a published flow.
THEOREM ReceiptsBelong == ReceiptsSpec => []ReceiptsBelongToAPublishedFlow
<1>1. ReceiptsInv => ReceiptsBelongToAPublishedFlow
  BY DEF ReceiptsInv, ReceiptsBelongToAPublishedFlow
<1> QED
  BY <1>1, ReceiptsInvariance, PTL

-----------------------------------------------------------------------------
\* What a step may do to a run: only add, and only before the seal.
Final ==
    \A r \in Runs :
        /\ IsStarted(r) => runs'[r] = runs[r]
        /\ IsSealed(r) => seals'[r] = seals[r] /\ steps'[r] = steps[r]
        /\ \A i \in Steps : IsAnchored(r, i) => steps'[r][i] = steps[r][i]

LEMMA StepIsFinal == ReceiptsTypeOK /\ [ReceiptsNext]_receiptVars => Final
<1> SUFFICES ASSUME ReceiptsTypeOK, [ReceiptsNext]_receiptVars PROVE Final
  OBVIOUS
<1> USE DEF ReceiptsTypeOK, RegistryTypeOK, IsAnchored, IsSealed, IsStarted, Final
<1>1. ASSUME NEW caller \in Accounts, NEW f \in Flows, PublishFlow(caller, f),
             UNCHANGED <<steps, anchoredCount, seals>>
      PROVE  Final
  BY <1>1 DEF PublishFlow
<1>2. ASSUME NEW f \in Flows, NEW r \in Runs, NEW executor \in Accounts,
             StartRun(f, r, executor), UNCHANGED <<steps, anchoredCount, seals>>
      PROVE  Final
  BY <1>2 DEF StartRun, CanStartRun
<1>3. ASSUME NEW caller \in Accounts, NEW r \in Runs, NEW i \in Steps, NEW f \in Flows,
             NEW status \in ReportedStatuses, NEW agent \in AgentIds, NEW work \in Works,
             NEW inOrder \in BOOLEAN,
             AnchorStep(caller, r, i, f, status, agent, work, inOrder)
      PROVE  Final
  BY <1>3 DEF AnchorStep, CanAnchor
<1>4. ASSUME NEW caller \in Accounts, NEW r \in Runs, NEW stepCount \in 0 .. NumSteps,
             NEW outcome \in ReportedStatuses, SealRun(caller, r, stepCount, outcome)
      PROVE  Final
  BY <1>4 DEF SealRun, CanSeal
<1>5. CASE UNCHANGED receiptVars
  BY <1>5 DEF receiptVars
<1> QED
  BY <1>1, <1>2, <1>3, <1>4, <1>5 DEF ReceiptsNext, ReceiptsCall

\* No transaction rewrites a receipt, a seal or a started run, or adds a
\* receipt to a sealed one.
THEOREM ReceiptsFinal == ReceiptsSpec => ReceiptsAreFinal
<1>1. ReceiptsInv /\ [ReceiptsNext]_receiptVars
        => [\A r \in Runs :
              /\ IsStarted(r) => runs'[r] = runs[r]
              /\ IsSealed(r) => seals'[r] = seals[r] /\ steps'[r] = steps[r]
              /\ \A i \in Steps : IsAnchored(r, i) => steps'[r][i] = steps[r][i]]_receiptVars
  BY StepIsFinal DEF ReceiptsInv, Final
<1> QED
  BY <1>1, ReceiptsInvariance, PTL DEF ReceiptsSpec, ReceiptsAreFinal

-----------------------------------------------------------------------------
\* Refinement: what readers see starts as an empty ledger, and each call is a
\* ledger call or changes nothing they see.
LEMMA InitRefines == ReceiptsInit => Ledger!LedgerInit
<1> SUFFICES ASSUME ReceiptsInit PROVE Ledger!LedgerInit
  OBVIOUS
<1>1. \A r \in Runs, i \in Steps : steps[r][i] = Unanchored /\ ~IsAnchored(r, i)
  BY DEF ReceiptsInit, IsAnchored, Unanchored
<1>2. \A r \in Runs, i \in Steps : ReceiptView(r, i) = Ledger!NoReceipt
  <2> SUFFICES ASSUME NEW r \in Runs, NEW i \in Steps
               PROVE  ReceiptView(r, i) = Ledger!NoReceipt
    OBVIOUS
  <2>1. steps[r][i].agent = Zero /\ steps[r][i].work = Zero
    BY <1>1 DEF Unanchored
  <2>2. IsAnchored(r, i) = FALSE
    BY <1>1 DEF IsAnchored
  <2>3. (IF IsAnchored(r, i) THEN steps[r][i].statusPlusOne - 1 ELSE 0) = 0
    BY <2>2
  <2> QED
    BY <2>1, <2>2, <2>3, Zenon DEF ReceiptView, Ledger!NoReceipt
<1>3. \A r \in Runs : runs[r].executor = Zero /\ IsSealed(r) = FALSE
  BY DEF ReceiptsInit, RegistryInit, NoRun, NoSeal, IsSealed
<1> QED
  BY <1>2, <1>3 DEF Ledger!LedgerInit, Ledger!Steps, Steps

LEMMA StepRefines ==
    ReceiptsInv /\ [ReceiptsNext]_receiptVars => [Ledger!LedgerNext]_(Ledger!ledgerVars)
<1> SUFFICES ASSUME ReceiptsInv, [ReceiptsNext]_receiptVars
             PROVE  [Ledger!LedgerNext]_(Ledger!ledgerVars)
  OBVIOUS
<1> USE DEF Ledger!ledgerVars
<1>0. ReceiptsTypeOK
  BY DEF ReceiptsInv
<1>1. ASSUME NEW caller \in Accounts, NEW f \in Flows, PublishFlow(caller, f),
             UNCHANGED <<steps, anchoredCount, seals>>
      PROVE  UNCHANGED Ledger!ledgerVars
  BY <1>1 DEF PublishFlow, ReceiptView, IsAnchored, IsSealed
<1>2. ASSUME NEW f \in Flows, NEW r \in Runs, NEW executor \in Accounts,
             StartRun(f, r, executor), UNCHANGED <<steps, anchoredCount, seals>>
      PROVE  Ledger!Start(r, executor)
  <2> DEFINE view == [q \in Runs |-> runs[q].executor]
  <2>1. /\ runs' = [runs EXCEPT ![r] = [flow |-> f, executor |-> executor]]
        /\ runs[r].executor = Zero /\ DOMAIN runs = Runs
    BY <1>0, <1>2 DEF StartRun, CanStartRun, IsStarted, NoRun, ReceiptsTypeOK, RegistryTypeOK
  <2>2. view' = [view EXCEPT ![r] = executor] /\ view[r] = Zero
    BY <2>1
  <2>3. /\ \A q \in Runs, i \in Steps : ReceiptView(q, i)' = ReceiptView(q, i)
        /\ \A q \in Runs : IsSealed(q)' = IsSealed(q)
    BY <1>2 DEF ReceiptView, IsAnchored, IsSealed
  <2> QED
    BY <2>2, <2>3 DEF Ledger!Start
<1>3. ASSUME NEW caller \in Accounts, NEW r \in Runs, NEW i \in Steps, NEW f \in Flows,
             NEW status \in ReportedStatuses, NEW agent \in AgentIds, NEW work \in Works,
             NEW inOrder \in BOOLEAN,
             AnchorStep(caller, r, i, f, status, agent, work, inOrder)
      PROVE  Ledger!Anchor(caller, r, i, status, agent, work) /\ status \in Statuses
  <2> DEFINE view == [q \in Runs |-> [j \in Steps |-> ReceiptView(q, j)]]
             receipt == [status |-> status, agent |-> agent, work |-> work, anchored |-> TRUE]
  <2>1. /\ runs[r].executor = caller /\ ~IsSealed(r) /\ ~IsAnchored(r, i)
        /\ status \in 0 .. StatusMax
        /\ UNCHANGED <<runs, seals>>
        /\ steps' = [steps EXCEPT ![r][i] =
                       [statusPlusOne |-> status + 1, agent |-> agent, work |-> work]]
    BY <1>3, StatusesAreNumbers DEF AnchorStep, CanAnchor, IsExecutor, StatusMax
  <2>2. steps \in [Runs -> [Steps -> StepStates]]
    BY <1>0 DEF ReceiptsTypeOK
  <2>3. ReceiptView(r, i)' = receipt
    <3>1. steps'[r][i] = [statusPlusOne |-> status + 1, agent |-> agent, work |-> work]
      BY <2>1, <2>2
    <3>2. /\ IsAnchored(r, i)' = TRUE
          /\ steps'[r][i].agent = agent /\ steps'[r][i].work = work
          /\ steps'[r][i].statusPlusOne - 1 = status
      BY <3>1, <2>1 DEF IsAnchored, StatusMax
    <3>3. (IF IsAnchored(r, i)' THEN steps'[r][i].statusPlusOne - 1 ELSE 0) = status
      BY <3>2
    <3> QED
      BY <3>2, <3>3, Zenon DEF ReceiptView
  <2>4. \A q \in Runs, j \in Steps : ~(q = r /\ j = i) => ReceiptView(q, j)' = ReceiptView(q, j)
    BY <2>1, <2>2 DEF ReceiptView, IsAnchored
  <2>5. view' = [view EXCEPT ![r][i] = receipt]
    BY <2>3, <2>4
  <2>6. view[r][i].anchored = FALSE
    BY <2>1 DEF ReceiptView
  <2> QED
    BY <2>1, <2>5, <2>6 DEF Ledger!Anchor, Ledger!Receipt, IsSealed, Statuses
<1>4. ASSUME NEW caller \in Accounts, NEW r \in Runs, NEW stepCount \in 0 .. NumSteps,
             NEW outcome \in ReportedStatuses, SealRun(caller, r, stepCount, outcome)
      PROVE  Ledger!Seal(caller, r)
  BY <1>0, <1>4 DEF SealRun, CanSeal, IsExecutor, IsSealed, IsAnchored, ReceiptView, Ledger!Seal, ReceiptsTypeOK
<1>5. CASE UNCHANGED receiptVars
  BY <1>5 DEF receiptVars, ReceiptView, IsAnchored, IsSealed
<1> QED
  <2>1. CASE ReceiptsNext
    BY <2>1, <1>1, <1>2, <1>3, <1>4
       DEF ReceiptsNext, ReceiptsCall, Ledger!LedgerNext, Ledger!LedgerCall, Ledger!Steps, Steps
  <2> QED
    BY <2>1, <1>5

\* FlowRegistry and ExecutionReceiptsV2 implement the abstract ledger, for any
\* number of runs, steps and executors.
THEOREM ReceiptsRefineLedger == ReceiptsSpec => ImplementsReceiptLedger
BY InitRefines, StepRefines, ReceiptsInvariance, PTL
   DEF ReceiptsSpec, ImplementsReceiptLedger, Ledger!LedgerSpec

-----------------------------------------------------------------------------
\* The executor: the plan of a run.
LEMMA RunPlanned ==
    ASSUME NEW r \in Runs
    PROVE  /\ Width[FlowOf[r]] \in 1 .. NumSteps
           /\ StepsOf(r) \subseteq Steps
           /\ \A i \in StepsOf(r) : DependsOf(r)[i] \subseteq StepsOf(r)
           /\ ~HasCycle(Width[FlowOf[r]], DependsOf(r))
<1> DEFINE f == FlowOf[r]
           declared == [i \in 0 .. Width[f] - 1 |-> Upstream[f][i]]
<1>1. f \in Flows /\ Width[f] \in 1 .. NumSteps
  BY ExecutorBounds
<1>2. Accepted(Width[f], declared, declared)
  BY <1>1, FlowsAreAccepted
<1>3. DependsOf(r) = declared
  BY DEF DependsOf, StepsOf
<1>4. DependsOn(Width[f], declared, declared) = declared
  BY DEF DependsOn
<1>5. StepsOf(r) \subseteq Steps
  BY <1>1, NumStepsAssumption DEF StepsOf, Steps
<1>6. \A i \in StepsOf(r) : DependsOf(r)[i] \subseteq StepsOf(r)
  BY <1>2, <1>3 DEF Accepted, StepsOf
<1>7. ~HasCycle(Width[f], DependsOf(r))
  BY <1>2, <1>3, <1>4 DEF Accepted
<1> QED
  BY <1>1, <1>5, <1>6, <1>7

LEMMA PlannedWave ==
    ASSUME NEW r \in Runs, NEW k \in 1 .. NumSteps + 1
    PROVE  PlannedWaves[r][k] = Wave(Width[FlowOf[r]], DependsOf(r), k)
BY DEF PlannedWaves

\* Waves hold steps of the flow, no step twice, and none after the last.
LEMMA WaveFacts ==
    ASSUME NEW r \in Runs
    PROVE  /\ \A k \in 1 .. NumSteps + 1 : PlannedWaves[r][k] \subseteq StepsOf(r)
           /\ \A k \in 1 .. NumSteps + 1 : k > Width[FlowOf[r]] => PlannedWaves[r][k] = {}
           /\ \A j, k \in 1 .. NumSteps + 1 :
                  j # k => PlannedWaves[r][j] \cap PlannedWaves[r][k] = {}
<1> DEFINE n == Width[FlowOf[r]]
<1>1. n \in 1 .. NumSteps
  BY RunPlanned
<1>2. \A k \in 1 .. NumSteps + 1 : PlannedWaves[r][k] = Wave(n, DependsOf(r), k)
  BY PlannedWave
<1>3. \A k \in 1 .. NumSteps + 1 : PlannedWaves[r][k] \subseteq StepsOf(r)
  BY <1>2 DEF Wave, StepsOf
<1>4. \A k \in 1 .. NumSteps + 1 : k > n => PlannedWaves[r][k] = {}
  BY <1>1, <1>2 DEF Wave
<1>5. ASSUME NEW j \in 1 .. NumSteps + 1, NEW k \in 1 .. NumSteps + 1, j # k
      PROVE  PlannedWaves[r][j] \cap PlannedWaves[r][k] = {}
  <2>1. CASE j < k
    BY <2>1, <1>1, <1>2, WavesDisjoint
  <2>2. CASE k < j
    BY <2>2, <1>1, <1>2, WavesDisjoint
  <2> QED
    BY <2>1, <2>2, <1>5
<1> QED
  BY <1>3, <1>4, <1>5

\* What a step needs was planned in an earlier wave.
LEMMA UpstreamsPlannedEarlier ==
    ASSUME NEW r \in Runs, NEW k \in 1 .. NumSteps + 1, NEW i \in PlannedWaves[r][k],
           NEW upstream \in DependsOf(r)[i]
    PROVE  \E j \in 1 .. k - 1 : upstream \in PlannedWaves[r][j]
<1> DEFINE n == Width[FlowOf[r]]
<1>1. n \in 1 .. NumSteps /\ i \in Wave(n, DependsOf(r), k)
  BY RunPlanned, PlannedWave
<1>2. k \in 1 .. n
  BY <1>1 DEF Wave
<1>3. PICK j \in 1 .. k - 1 : upstream \in Wave(n, DependsOf(r), j)
  BY <1>1, <1>2, UpstreamsInEarlierWaves
<1>4. j \in 1 .. NumSteps + 1
  BY NumStepsAssumption
<1> QED
  BY <1>3, <1>4, PlannedWave

\* When the executor meets an empty wave, every step was in an earlier one.
LEMMA EmptyWaveEndsTheRun ==
    ASSUME NEW r \in Runs, NEW k \in 1 .. Width[FlowOf[r]] + 1, PlannedWaves[r][k] = {},
           NEW i \in StepsOf(r)
    PROVE  \E j \in 1 .. k - 1 : i \in PlannedWaves[r][j]
<1> DEFINE n == Width[FlowOf[r]]
<1>1. n \in 1 .. NumSteps /\ ~HasCycle(n, DependsOf(r)) /\ k \in 1 .. NumSteps + 1
  BY RunPlanned, NumStepsAssumption
<1>2. Wave(n, DependsOf(r), k) = {} /\ i \in 0 .. n - 1
  BY <1>1, PlannedWave DEF StepsOf
<1>3. PICK j \in 1 .. k - 1 : i \in Wave(n, DependsOf(r), j)
  BY <1>1, <1>2, EmptyWaveMeansDone
<1>4. j \in 1 .. NumSteps + 1
  BY <1>1, NumStepsAssumption
<1> QED
  BY <1>3, <1>4, PlannedWave

LEMMA MinIsLeast ==
    ASSUME NEW S \in SUBSET Nat, S # {}
    PROVE  Min(S) \in S /\ \A x \in S : Min(S) =< x
BY LeastElement DEF Min

-----------------------------------------------------------------------------
\* The inductive invariant, from the chain upwards.
Places == {"idle", "check", "publish", "start", "wave", "running", "anchor", "settle", "seal",
           "done", "threw"}
ChainCalls == {"publish", "start", "anchor", "seal"}
Before == {"idle", "check", "publish", "start"}         \* the run is not started by this call
InWave == {"running", "anchor", "settle"}
Finished == {"seal", "done"}                            \* no wave is left
Going == {"wave"} \cup InWave \cup Finished
Decided == {"tracing", "ready", "lost"}                 \* a step has its status

ProcStates == [pc : Places, awaiting : BOOLEAN, wave : 1 .. NumSteps + 1, halted : BOOLEAN,
               lineage : SUBSET Runs, statusById : [Steps -> Statuses \cup {Unknown}]]
TaskStates == [at : {"idle", "begun", "invoked", "hiring"} \cup Decided,
               status : Statuses \cup {Unknown}, attempt : Nat]
TxStates == [run : Runs, op : ChainCalls, index : Nat, value : Statuses, awaited : BOOLEAN]

WorkTypeOK ==
    /\ options \in Requests
    /\ proc \in [Runs -> ProcStates]
    /\ task \in [Runs -> [Steps -> TaskStates]]
    /\ mempool \in Seq(TxStates)
    /\ crashed \in BOOLEAN
    /\ starts \in Nat
    /\ hired \in [Runs -> [Steps -> SUBSET Nat]]

\* What a complete run's receipts make of its outcome.
Outcome(r) ==
    LET bad == {i \in StepsOf(r) : StatusOnChain(r, i) # StatusOk}
    IN  IF bad = {} THEN StatusOk ELSE StatusOnChain(r, Min(bad))

Complete(r) == \A i \in StepsOf(r) : IsAnchored(r, i)
UpstreamsOk(r, i) == \A upstream \in DependsOf(r)[i] : AnchoredWith(r, upstream, StatusOk)

\* What a receipt that says ok stands on.
Grounded(r, i) ==
    /\ UpstreamsOk(r, i)
    /\ IsSubFlow(r, i) => IsSealed(ChildOf[r][i]) /\ seals[ChildOf[r][i]].outcome = StatusOk

\* The chain tells the truth; nobody worked for a run that was never started,
\* and at most one life of the process worked for any.
ChainOK(r) ==
    /\ AnchoredSteps(r) \subseteq StepsOf(r)
    /\ \A i \in StepsOf(r) : AnchoredWith(r, i, StatusOk) => Grounded(r, i)
    /\ IsSealed(r) => Complete(r) /\ seals[r].outcome = Outcome(r)
    /\ ~IsStarted(r) => \A i \in Steps : ~IsAnchored(r, i) /\ hired[r][i] = {}
    /\ \A i \in Steps : hired[r][i] = {} \/ \E n \in Nat : hired[r][i] = {n}

\* A transaction that was sent may be mined much later: what it says was true
\* when it was sent, and stays so.
SaysTheTruth(tx) ==
    /\ tx.op = "anchor" =>
        tx.index \in StepsOf(tx.run) /\ (tx.value = StatusOk => Grounded(tx.run, tx.index))
    /\ tx.op = "seal" => Complete(tx.run) /\ tx.value = Outcome(tx.run)

\* This start of the process is the only one that called agents for the run.
WorksNow(r) == IsStarted(r) /\ \A j \in Steps : hired[r][j] \subseteq {starts}

TaskOK(r, i) ==
    /\ task[r][i].at # "idle" => i \in StepsOf(r) /\ WorksNow(r)
    /\ task[r][i].at \in {"begun", "invoked", "hiring"} => UpstreamsOk(r, i)
    /\ task[r][i].at = "invoked" => ~IsSubFlow(r, i)
    /\ task[r][i].at = "hiring" => IsSubFlow(r, i)
    /\ task[r][i].at \in Decided =>
        task[r][i].status \in Statuses /\ (task[r][i].status = StatusOk => Grounded(r, i))

Recorded(r, i) == proc[r].statusById[i] # Unknown
Untouched(r, i) == ~Recorded(r, i) /\ task[r][i].at = "idle"

\* What holds where executeRun is, against the waves of its plan.
Stage(r, pc) ==
    LET wave == proc[r].wave
    IN  /\ wave <= Width[FlowOf[r]] + 1
        /\ \A i \in Steps : Recorded(r, i) => AnchoredWith(r, i, proc[r].statusById[i])
        /\ pc \in Before => wave = 1 /\ \A i \in Steps : Untouched(r, i)
        /\ pc \in Going => WorksNow(r)
        /\ pc \in Going => \A k \in 1 .. wave - 1 : \A i \in PlannedWaves[r][k] : Recorded(r, i)
        /\ pc \in {"wave"} \cup InWave =>
            \A k \in wave + 1 .. NumSteps + 1 : \A i \in PlannedWaves[r][k] : Untouched(r, i)
        /\ pc = "wave" => \A i \in WaveOf(r) : Untouched(r, i)
        /\ pc = "running" => WaveOf(r) # {} /\ \A i \in WaveOf(r) : ~Recorded(r, i)
        /\ pc \in {"anchor", "settle"} =>
            Unrecorded(r) # {} /\ \A i \in WaveOf(r) : task[r][i].at = "ready"
        /\ pc = "settle" =>
            AnchoredWith(r, Min(Unrecorded(r)), task[r][Min(Unrecorded(r))].status)
        /\ pc \in Finished => \A i \in StepsOf(r) : Recorded(r, i)
        /\ pc = "done" => IsSealed(r)

ProcOK(r) == (proc[r].awaiting => proc[r].pc \in ChainCalls) /\ Stage(r, proc[r].pc)

\* The transaction a run waits for is the one it sent.
AwaitedFits(r) ==
    \A k \in DOMAIN mempool : mempool[k].awaited /\ mempool[k].run = r =>
        /\ proc[r].awaiting /\ proc[r].pc = mempool[k].op
        /\ mempool[k].op = "anchor" =>
            /\ mempool[k].index = Min(Unrecorded(r))
            /\ mempool[k].value = task[r][mempool[k].index].status

AwaitedOnce ==
    \A j, k \in DOMAIN mempool :
        mempool[j].awaited /\ mempool[k].awaited /\ mempool[j].run = mempool[k].run => j = k

RunOK(r) == ChainOK(r) /\ (\A i \in Steps : TaskOK(r, i)) /\ ProcOK(r) /\ AwaitedFits(r)

\* A run is called once in a life of the process: it was asked for, or a step
\* that hired it keeps that it did.
WasAskedFor(r) ==
    \/ r = options.root
    \/ \E p \in Runs, i \in Steps :
           ChildOf[p][i] = r /\ task[p][i].at \in {"hiring"} \cup Decided

ExecInv ==
    /\ ReceiptsTypeOK
    /\ WorkTypeOK
    /\ \A r \in Runs : RunOK(r)
    /\ \A k \in DOMAIN mempool : SaysTheTruth(mempool[k])
    /\ AwaitedOnce
    /\ \A r \in Runs : proc[r].pc # "idle" => WasAskedFor(r)
    /\ crashed => \A r \in Runs : proc[r] = NotCalled /\ \A i \in Steps : task[r][i] = NoTask

-----------------------------------------------------------------------------
\* The chain only grows, and what stands on it keeps standing.
Grows ==
    \A r \in Runs :
        /\ IsStarted(r) => IsStarted(r)'
        /\ \A i \in Steps : IsAnchored(r, i) => steps'[r][i] = steps[r][i]
        /\ IsSealed(r) => seals'[r] = seals[r]

LEMMA UnchangedGrows == UNCHANGED receiptVars => Grows
BY DEF receiptVars, Grows, IsStarted

LEMMA GrowsAnchored ==
    ASSUME Grows, NEW r \in Runs, NEW i \in Steps, NEW status, AnchoredWith(r, i, status)
    PROVE  AnchoredWith(r, i, status)'
BY DEF Grows, AnchoredWith, IsAnchored

LEMMA GrowsUpstreams ==
    ASSUME Grows, NEW r \in Runs, NEW i \in StepsOf(r), UpstreamsOk(r, i)
    PROVE  UpstreamsOk(r, i)'
<1> SUFFICES ASSUME NEW upstream \in DependsOf(r)[i] PROVE AnchoredWith(r, upstream, StatusOk)'
  BY DEF UpstreamsOk
<1>1. upstream \in Steps
  BY RunPlanned
<1> QED
  BY <1>1, GrowsAnchored DEF UpstreamsOk

LEMMA GrowsGrounded ==
    ASSUME Grows, NEW r \in Runs, NEW i \in StepsOf(r), Grounded(r, i)
    PROVE  Grounded(r, i)'
<1>1. UpstreamsOk(r, i)'
  BY GrowsUpstreams DEF Grounded
<1>2. i \in Steps
  BY RunPlanned
<1>3. IsSubFlow(r, i) => ChildOf[r][i] \in Runs
  BY <1>2, HiredRunsAreDerived DEF IsSubFlow
<1> QED
  BY <1>1, <1>3 DEF Grounded, Grows, IsSealed

LEMMA GrowsOutcome ==
    ASSUME Grows, NEW r \in Runs, Complete(r)
    PROVE  Complete(r)' /\ Outcome(r)' = Outcome(r)
<1>1. \A i \in StepsOf(r) : IsAnchored(r, i) /\ steps'[r][i] = steps[r][i]
  BY RunPlanned DEF Complete, Grows
<1>2. Complete(r)'
  BY <1>1 DEF Complete, IsAnchored
<1>3. \A i \in StepsOf(r) : StatusOnChain(r, i)' = StatusOnChain(r, i)
  BY <1>1 DEF StatusOnChain
<1> DEFINE bad == {i \in StepsOf(r) : StatusOnChain(r, i) # StatusOk}
<1>4. bad' = bad
  BY <1>3
<1>5. bad # {} => Min(bad) \in bad
  <2>1. bad \in SUBSET Nat
    BY RunPlanned DEF Steps
  <2> QED
    BY <2>1, MinIsLeast
<1>6. bad # {} => StatusOnChain(r, Min(bad))' = StatusOnChain(r, Min(bad))
  BY <1>3, <1>5
<1> QED
  BY <1>2, <1>4, <1>6 DEF Outcome

-----------------------------------------------------------------------------
\* What a step leaves alone stays in order.
LEMMA ChainKept ==
    ASSUME Grows, NEW r \in Runs, ChainOK(r), UNCHANGED <<runs[r], steps[r], seals[r]>>,
           hired'[r] = hired[r] \/ IsStarted(r),
           \A i \in Steps : hired'[r][i] = {} \/ \E n \in Nat : hired'[r][i] = {n}
    PROVE  ChainOK(r)'
<1>1. /\ IsStarted(r)' = IsStarted(r) /\ IsSealed(r)' = IsSealed(r)
      /\ \A i \in Steps : IsAnchored(r, i)' = IsAnchored(r, i)
  BY DEF IsStarted, IsSealed, IsAnchored
<1>2. AnchoredSteps(r)' = AnchoredSteps(r)
  BY <1>1 DEF AnchoredSteps
<1>3. ASSUME NEW i \in StepsOf(r), AnchoredWith(r, i, StatusOk)' PROVE Grounded(r, i)'
  <2>1. AnchoredWith(r, i, StatusOk)
    BY <1>3 DEF AnchoredWith, IsAnchored
  <2> QED
    BY <2>1, GrowsGrounded DEF ChainOK
<1>4. IsSealed(r) => Complete(r)' /\ seals'[r].outcome = Outcome(r)'
  BY GrowsOutcome DEF ChainOK
<1> QED
  BY <1>1, <1>2, <1>3, <1>4 DEF ChainOK

LEMMA WorksKept ==
    ASSUME Grows, NEW r \in Runs, WorksNow(r), UNCHANGED <<hired[r], starts>>
    PROVE  WorksNow(r)'
BY DEF WorksNow, Grows

LEMMA TaskKept ==
    ASSUME Grows, NEW r \in Runs, NEW i \in Steps, TaskOK(r, i), UNCHANGED task[r][i],
           WorksNow(r) => WorksNow(r)'
    PROVE  TaskOK(r, i)'
<1>1. task[r][i].at # "idle" => i \in StepsOf(r)
  BY DEF TaskOK
<1>2. task[r][i].at \in {"begun", "invoked", "hiring"} => UpstreamsOk(r, i)'
  BY <1>1, GrowsUpstreams DEF TaskOK
<1>3. task[r][i].at \in Decided /\ task[r][i].status = StatusOk => Grounded(r, i)'
  BY <1>1, GrowsGrounded DEF TaskOK, Decided
<1> QED
  BY <1>2, <1>3 DEF TaskOK

\* An idle step stays idle, one that is ready as it is.
TasksKeep(r) ==
    \A i \in Steps : /\ task[r][i].at = "idle" => task'[r][i].at = "idle"
                     /\ task[r][i].at = "ready" => task'[r][i] = task[r][i]

LEMMA WaveSteps ==
    ASSUME NEW r \in Runs, proc[r].wave \in 1 .. NumSteps + 1
    PROVE  /\ WaveOf(r) \subseteq Steps /\ WaveOf(r) \subseteq StepsOf(r)
           /\ Unrecorded(r) \subseteq WaveOf(r)
           /\ Unrecorded(r) # {} => Min(Unrecorded(r)) \in Unrecorded(r)
<1>1. WaveOf(r) \subseteq StepsOf(r) /\ StepsOf(r) \subseteq Steps
  BY WaveFacts, RunPlanned DEF WaveOf
<1>2. Unrecorded(r) \subseteq WaveOf(r)
  BY DEF Unrecorded
<1>3. Unrecorded(r) \in SUBSET Nat
  BY <1>1, <1>2 DEF Steps
<1> QED
  BY <1>1, <1>2, <1>3, MinIsLeast

LEMMA StageKept ==
    ASSUME Grows, NEW r \in Runs, NEW pc, Stage(r, pc), proc[r] \in ProcStates,
           UNCHANGED <<proc[r].wave, proc[r].statusById>>,
           TasksKeep(r), WorksNow(r) => WorksNow(r)'
    PROVE  Stage(r, pc)'
<1>1. /\ WaveOf(r)' = WaveOf(r) /\ Unrecorded(r)' = Unrecorded(r)
      /\ \A i \in Steps : Recorded(r, i)' = Recorded(r, i)
      /\ proc[r].wave \in 1 .. NumSteps + 1
  BY DEF WaveOf, Unrecorded, Recorded, ProcStates
<1>2. WaveOf(r) \subseteq Steps /\ Unrecorded(r) \subseteq WaveOf(r)
  BY <1>1, WaveSteps
<1>3. \A k \in 1 .. NumSteps + 1 : PlannedWaves[r][k] \subseteq Steps
  BY WaveFacts, RunPlanned
<1>4. \A i \in Steps : Untouched(r, i) => Untouched(r, i)'
  BY <1>1 DEF Untouched, TasksKeep
<1>5. \A i \in Steps : Recorded(r, i) => AnchoredWith(r, i, proc[r].statusById[i])'
  BY GrowsAnchored DEF Stage
<1>6. pc \in {"anchor", "settle"} => \A i \in WaveOf(r) : task'[r][i].at = "ready"
  BY <1>2 DEF Stage, TasksKeep
<1>7. pc = "settle" =>
        AnchoredWith(r, Min(Unrecorded(r)), task[r][Min(Unrecorded(r))].status)'
  <2> SUFFICES ASSUME pc = "settle"
               PROVE  AnchoredWith(r, Min(Unrecorded(r)), task[r][Min(Unrecorded(r))].status)'
    OBVIOUS
  <2> DEFINE i == Min(Unrecorded(r))
  <2>1. i \in WaveOf(r)
    BY <1>1, WaveSteps DEF Stage
  <2>2. i \in Steps /\ task[r][i].at = "ready" /\ AnchoredWith(r, i, task[r][i].status)
    BY <1>2, <2>1 DEF Stage
  <2>3. task'[r][i] = task[r][i]
    BY <2>2 DEF TasksKeep
  <2>4. steps'[r][i] = steps[r][i]
    BY <2>2 DEF Grows, AnchoredWith
  <2> QED
    BY <1>1, <2>2, <2>3, <2>4 DEF AnchoredWith, IsAnchored
<1>8. pc = "done" => IsSealed(r)'
  BY DEF Stage, Grows, IsSealed
<1>9. pc \in Going => WorksNow(r)'
  BY DEF Stage
<1>10. pc \in Going =>
         \A k \in 1 .. proc[r].wave - 1 : \A i \in PlannedWaves[r][k] : Recorded(r, i)'
  <2>1. \A k \in 1 .. proc[r].wave - 1 : k \in 1 .. NumSteps + 1
    BY <1>1, NumStepsAssumption
  <2> QED
    BY <1>1, <1>3, <2>1 DEF Stage
<1>11. pc \in {"wave"} \cup InWave =>
         \A k \in proc[r].wave + 1 .. NumSteps + 1 : \A i \in PlannedWaves[r][k] : Untouched(r, i)'
  BY <1>1, <1>3, <1>4 DEF Stage
<1>12. pc \in Finished => \A i \in StepsOf(r) : Recorded(r, i)'
  BY <1>1, RunPlanned DEF Stage
<1>13. /\ pc = "wave" => \A i \in WaveOf(r) : Untouched(r, i)'
       /\ pc = "running" => \A i \in WaveOf(r) : ~Recorded(r, i)'
  BY <1>1, <1>2, <1>4 DEF Stage
<1> QED
  BY <1>1, <1>4, <1>5, <1>6, <1>7, <1>8, <1>9, <1>10, <1>11, <1>12, <1>13 DEF Stage

LEMMA ProcKept ==
    ASSUME Grows, NEW r \in Runs, ProcOK(r), proc[r] \in ProcStates, UNCHANGED proc[r],
           TasksKeep(r), WorksNow(r) => WorksNow(r)'
    PROVE  ProcOK(r)'
BY StageKept DEF ProcOK

\* The awaited transactions of a run afterwards were so before.
AwaitsNoMore(r) ==
    \A k \in DOMAIN mempool' : mempool'[k].awaited /\ mempool'[k].run = r =>
        \E j \in DOMAIN mempool : mempool[j] = mempool'[k]

LEMMA AwaitedKept ==
    ASSUME NEW r \in Runs, ProcOK(r), proc[r] \in ProcStates, AwaitedFits(r), UNCHANGED proc[r],
           TasksKeep(r), AwaitsNoMore(r)
    PROVE  AwaitedFits(r)'
<1>1. Unrecorded(r)' = Unrecorded(r) /\ proc[r].wave \in 1 .. NumSteps + 1
  BY DEF WaveOf, Unrecorded, ProcStates
<1>2. proc[r].pc = "anchor" =>
        LET i == Min(Unrecorded(r)) IN task'[r][i] = task[r][i]
  <2> SUFFICES ASSUME proc[r].pc = "anchor"
               PROVE  task'[r][Min(Unrecorded(r))] = task[r][Min(Unrecorded(r))]
    OBVIOUS
  <2>1. Min(Unrecorded(r)) \in WaveOf(r) /\ WaveOf(r) \subseteq Steps
    BY <1>1, WaveSteps DEF ProcOK, Stage
  <2> QED
    BY <2>1 DEF ProcOK, Stage, TasksKeep
<1> SUFFICES ASSUME NEW k \in DOMAIN mempool', mempool'[k].awaited, mempool'[k].run = r
             PROVE  /\ proc[r].awaiting /\ proc[r].pc = mempool'[k].op
                    /\ mempool'[k].op = "anchor" =>
                        /\ mempool'[k].index = Min(Unrecorded(r))
                        /\ mempool'[k].value = task'[r][mempool'[k].index].status
  BY <1>1 DEF AwaitedFits
<1>3. PICK j \in DOMAIN mempool : mempool[j] = mempool'[k]
  BY DEF AwaitsNoMore
<1> QED
  BY <1>2, <1>3 DEF AwaitedFits

\* A run none of whose own state changes.
LEMMA RunKept ==
    ASSUME Grows, NEW r \in Runs, RunOK(r), proc[r] \in ProcStates,
           UNCHANGED <<runs[r], steps[r], seals[r], proc[r], task[r], hired[r], starts>>,
           AwaitsNoMore(r)
    PROVE  RunOK(r)'
<1>1. TasksKeep(r)
  BY DEF TasksKeep
<1>2. WorksNow(r) => WorksNow(r)'
  BY WorksKept
<1>3. ChainOK(r)'
  BY ChainKept DEF RunOK, ChainOK
<1>4. \A i \in Steps : TaskOK(r, i)'
  BY <1>2, TaskKept DEF RunOK
<1>5. ProcOK(r)' /\ AwaitedFits(r)'
  BY <1>1, <1>2, ProcKept, AwaitedKept DEF RunOK
<1> QED
  BY <1>3, <1>4, <1>5 DEF RunOK

\* Two transactions that differ at most in whether somebody waits for them.
SameCall(tx, old) ==
    tx.run = old.run /\ tx.op = old.op /\ tx.index = old.index /\ tx.value = old.value

LEMMA TruthKept ==
    ASSUME Grows, NEW tx \in TxStates, NEW old \in TxStates, SaysTheTruth(old), SameCall(tx, old)
    PROVE  SaysTheTruth(tx)'
<1>1. old.run \in Runs
  BY DEF TxStates
<1>2. old.op = "anchor" /\ old.value = StatusOk => Grounded(old.run, old.index)'
  BY <1>1, GrowsGrounded DEF SaysTheTruth
<1>3. old.op = "seal" => Complete(old.run)' /\ Outcome(old.run)' = old.value
  BY <1>1, GrowsOutcome DEF SaysTheTruth
<1> QED
  BY <1>2, <1>3 DEF SaysTheTruth, SameCall

\* What is not touched by a step.
Aside(r) ==
    /\ UNCHANGED <<runs[r], steps[r], seals[r], proc[r], task[r], hired[r]>>
    /\ AwaitsNoMore(r)

\* Steps that hired, or are done, do not forget that they did.
HiresKept ==
    \A p \in Runs, i \in Steps :
        task[p][i].at \in {"hiring"} \cup Decided => task'[p][i].at \in {"hiring"} \cup Decided

MempoolKept ==
    \A k \in DOMAIN mempool' :
        \/ \E j \in DOMAIN mempool : SameCall(mempool'[k], mempool[j])
        \/ SaysTheTruth(mempool[k])'

\* A step in the life of a process keeps the invariant when it does so for the
\* runs it touches.
LEMMA Assemble ==
    ASSUME ExecInv, Grows, ReceiptsTypeOK', WorkTypeOK', UNCHANGED <<options, starts>>,
           crashed' => crashed /\ UNCHANGED <<proc, task>>,
           NEW Q \in SUBSET Runs,
           \A q \in Q : RunOK(q)',
           \A q \in Q : proc'[q].pc = "idle" \/ proc[q].pc # "idle" \/ WasAskedFor(q)',
           \A q \in Runs \ Q : Aside(q),
           HiresKept, MempoolKept, AwaitedOnce'
    PROVE  ExecInv'
<1>1. \A q \in Runs : RunOK(q)'
  <2> SUFFICES ASSUME NEW q \in Runs, q \notin Q PROVE RunOK(q)'
    OBVIOUS
  <2>1. RunOK(q) /\ proc[q] \in ProcStates
    BY DEF ExecInv, WorkTypeOK
  <2>2. Aside(q)
    OBVIOUS
  <2> QED
    BY <2>1, <2>2, RunKept DEF Aside
<1>2. ASSUME NEW k \in DOMAIN mempool' PROVE SaysTheTruth(mempool[k])'
  <2> SUFFICES ASSUME NEW j \in DOMAIN mempool, SameCall(mempool'[k], mempool[j])
               PROVE  SaysTheTruth(mempool[k])'
    BY DEF MempoolKept
  <2> DEFINE tx == mempool'[k]
             old == mempool[j]
  <2>1. tx \in TxStates /\ old \in TxStates
    BY DEF ExecInv, WorkTypeOK
  <2>2. SaysTheTruth(old)
    BY DEF ExecInv
  <2> QED
    BY <2>1, <2>2, TruthKept
<1>3. ASSUME NEW q \in Runs, proc'[q].pc # "idle" PROVE WasAskedFor(q)'
  <2>1. WasAskedFor(q) => WasAskedFor(q)'
    BY DEF WasAskedFor, HiresKept
  <2>2. CASE q \in Q
    BY <2>1, <2>2, <1>3 DEF ExecInv
  <2>3. CASE q \notin Q
    BY <2>1, <2>3, <1>3 DEF ExecInv, Aside
  <2> QED
    BY <2>2, <2>3
<1>4. crashed' => \A q \in Runs : proc'[q] = NotCalled /\ \A i \in Steps : task'[q][i] = NoTask
  BY DEF ExecInv
<1> QED
  BY <1>1, <1>2, <1>3, <1>4 DEF ExecInv

-----------------------------------------------------------------------------
\* A call of executeRun that has recorded nothing.
Fresh(state) ==
    state.wave = 1 /\ ~state.awaiting /\ \A i \in Steps : state.statusById[i] = Unknown

LEMMA FreshStates ==
    /\ NotCalled \in ProcStates /\ Fresh(NotCalled) /\ NotCalled.pc = "idle"
    /\ \A lineage \in SUBSET Runs :
          LET called == Called(lineage)
          IN  called \in ProcStates /\ Fresh(called) /\ called.pc = "check"
    /\ NoTask \in TaskStates /\ NoTask.at = "idle"
<1>1. [i \in Steps |-> Unknown] \in [Steps -> Statuses \cup {Unknown}]
  OBVIOUS
<1>2. 1 \in 1 .. NumSteps + 1
  BY NumStepsAssumption
<1>3. NotCalled \in ProcStates /\ Fresh(NotCalled) /\ NotCalled.pc = "idle"
  BY <1>1, <1>2 DEF NotCalled, ProcStates, Places, Fresh
<1>4. ASSUME NEW lineage \in SUBSET Runs
      PROVE  LET called == Called(lineage)
             IN  called \in ProcStates /\ Fresh(called) /\ called.pc = "check"
  BY <1>1, <1>2, <1>4 DEF Called, NotCalled, ProcStates, Places, Fresh
<1>5. NoTask \in TaskStates /\ NoTask.at = "idle"
  BY DEF NoTask, TaskStates
<1> QED
  BY <1>3, <1>4, <1>5

\* A run that is not called, or only just, and whose steps are all idle.
FreshRunsOK ==
    \A r \in Runs :
        Fresh(proc[r]) /\ proc[r].pc \in {"idle", "check"} /\ (\A i \in Steps : task[r][i].at = "idle")
        => ProcOK(r) /\ \A i \in Steps : TaskOK(r, i)

LEMMA FreshRunOK == FreshRunsOK
<1> SUFFICES ASSUME NEW r \in Runs, Fresh(proc[r]), proc[r].pc \in {"idle", "check"},
                    \A i \in Steps : task[r][i].at = "idle"
             PROVE  ProcOK(r) /\ \A i \in Steps : TaskOK(r, i)
  BY DEF FreshRunsOK
<1>1. Width[FlowOf[r]] \in Nat /\ 1 <= Width[FlowOf[r]]
  BY RunPlanned, NumStepsAssumption
<1>2. \A i \in Steps : Untouched(r, i) /\ ~Recorded(r, i)
  BY DEF Untouched, Recorded, Fresh
<1>3. ProcOK(r)
  BY <1>1, <1>2 DEF ProcOK, Stage, Before, InWave, Finished, Going, ChainCalls, Fresh
<1>4. \A i \in Steps : TaskOK(r, i)
  BY DEF TaskOK, Decided
<1> QED
  BY <1>3, <1>4

LEMMA InitExecInv == ExecInit => ExecInv
<1> SUFFICES ASSUME ExecInit PROVE ExecInv
  OBVIOUS
<1>1. /\ \A r \in Runs : proc[r] = NotCalled \/ proc[r] = Called({})
      /\ \A r \in Runs : proc[r].pc # "idle" => r = options.root
      /\ options.root \in Runs /\ options \in Requests
  BY RequestsNameRuns DEF ExecInit, NotCalled
<1>2. ReceiptsTypeOK
  BY CountFits, NumStepsAssumption
     DEF ExecInit, ReceiptsInit, RegistryInit, ReceiptsTypeOK, RegistryTypeOK, StepStates,
         Unanchored, NoSeal, Statuses, StatusMax
<1>3. WorkTypeOK
  <2>1. proc \in [Runs -> ProcStates]
    BY <1>1, FreshStates DEF ExecInit
  <2>2. task \in [Runs -> [Steps -> TaskStates]]
    BY FreshStates DEF ExecInit
  <2>3. mempool \in Seq(TxStates)
    BY DEF ExecInit
  <2>4. hired \in [Runs -> [Steps -> SUBSET Nat]]
    BY DEF ExecInit
  <2> QED
    BY <1>1, <2>1, <2>2, <2>3, <2>4 DEF ExecInit, WorkTypeOK
<1>4. ASSUME NEW r \in Runs PROVE RunOK(r)
  <2>1. /\ \A i \in Steps : ~IsAnchored(r, i) /\ hired[r][i] = {}
        /\ ~IsSealed(r)
        /\ \A i \in Steps : task[r][i].at = "idle"
    BY FreshStates
       DEF ExecInit, ReceiptsInit, IsAnchored, Unanchored, NoSeal, IsSealed
  <2>2. ChainOK(r)
    BY <2>1, RunPlanned DEF ChainOK, AnchoredSteps, AnchoredWith
  <2>3. ProcOK(r) /\ \A i \in Steps : TaskOK(r, i)
    BY <1>1, <2>1, FreshStates, FreshRunOK DEF FreshRunsOK
  <2>4. AwaitedFits(r)
    BY DEF AwaitedFits, ExecInit
  <2> QED
    BY <2>2, <2>3, <2>4 DEF RunOK
<1>5. DOMAIN mempool = {} /\ ~crashed
  BY DEF ExecInit
<1> QED
  BY <1>1, <1>2, <1>3, <1>4, <1>5 DEF ExecInv, AwaitedOnce, WasAskedFor

-----------------------------------------------------------------------------
\* Steps of executeRun.  They leave the chain as it is and touch one run.
LEMMA RunStepKeeps ==
    ASSUME ExecInv, NEW r \in Runs, ~crashed, proc[r].pc # "idle",
           UNCHANGED <<receiptVars, options, crashed, starts, hired>>,
           proc' \in [Runs -> ProcStates], task' \in [Runs -> [Steps -> TaskStates]],
           mempool' \in Seq(TxStates),
           \A q \in Runs : q # r => proc'[q] = proc[q] /\ task'[q] = task[q] /\ AwaitsNoMore(q),
           ProcOK(r)', AwaitedFits(r)', \A i \in Steps : TaskOK(r, i)',
           HiresKept, MempoolKept, AwaitedOnce'
    PROVE  ExecInv'
<1>1. Grows
  BY UnchangedGrows
<1>2. ReceiptsTypeOK' /\ WorkTypeOK'
  BY DEF ExecInv, ReceiptsTypeOK, RegistryTypeOK, receiptVars, WorkTypeOK
<1>3. RunOK(r)'
  <2>1. ChainOK(r) /\ UNCHANGED <<runs[r], steps[r], seals[r]>> /\ hired'[r] = hired[r]
    BY DEF ExecInv, RunOK, receiptVars
  <2>2. ChainOK(r)'
    BY <1>1, <2>1, ChainKept DEF ChainOK
  <2> QED
    BY <2>2 DEF RunOK
<1>4. \A q \in Runs \ {r} : Aside(q)
  BY DEF Aside, receiptVars
<1> DEFINE Q == {r}
<1>5. /\ Q \in SUBSET Runs /\ \A q \in Q : RunOK(q)'
      /\ \A q \in Q : proc[q].pc # "idle" \/ WasAskedFor(q)'
      /\ \A q \in Runs \ Q : Aside(q)
  BY <1>3, <1>4
<1>6. ~crashed'
  OBVIOUS
<1> HIDE DEF Q
<1> QED
  BY <1>1, <1>2, <1>5, <1>6, Assemble

LEMMA MempoolUnchanged ==
    ASSUME ExecInv, UNCHANGED mempool
    PROVE  MempoolKept /\ AwaitedOnce' /\ \A q \in Runs : AwaitsNoMore(q)
<1>1. MempoolKept
  BY DEF MempoolKept, SameCall
<1>2. AwaitedOnce'
  BY DEF ExecInv, AwaitedOnce
<1> QED
  BY <1>1, <1>2 DEF AwaitsNoMore

LEMMA TasksUnchanged ==
    ASSUME ExecInv, UNCHANGED <<receiptVars, starts, hired>>, NEW r \in Runs, UNCHANGED task[r]
    PROVE  /\ \A i \in Steps : TaskOK(r, i)'
           /\ TasksKeep(r)
           /\ WorksNow(r) => WorksNow(r)'
<1>1. Grows
  BY UnchangedGrows
<1>2. WorksNow(r) => WorksNow(r)'
  BY <1>1, WorksKept
<1>3. \A i \in Steps : TaskOK(r, i)
  BY DEF ExecInv, RunOK
<1> QED
  BY <1>1, <1>2, <1>3, TaskKept DEF TasksKeep

\* Only the local state of one run changes, and it was waiting for nothing.
LEMMA MoveKeeps ==
    ASSUME ExecInv, NEW r \in Runs, ~crashed, proc[r].pc # "idle", ~proc[r].awaiting,
           UNCHANGED <<receiptVars, options, crashed, starts, hired, task, mempool>>,
           proc' \in [Runs -> ProcStates], \A q \in Runs : q # r => proc'[q] = proc[q],
           ProcOK(r)'
    PROVE  ExecInv'
<1>1. MempoolKept /\ AwaitedOnce' /\ \A q \in Runs : AwaitsNoMore(q)
  BY MempoolUnchanged
<1>2. \A i \in Steps : TaskOK(r, i)'
  BY TasksUnchanged
<1>3. AwaitedFits(r)'
  BY DEF ExecInv, RunOK, AwaitedFits
<1>4. HiresKept
  BY DEF HiresKept
<1>5. mempool' \in Seq(TxStates) /\ task' \in [Runs -> [Steps -> TaskStates]]
  BY DEF ExecInv, WorkTypeOK
<1> QED
  BY <1>1, <1>2, <1>3, <1>4, <1>5, RunStepKeeps

LEMMA GotoMoves ==
    ASSUME proc \in [Runs -> ProcStates], NEW r \in Runs, NEW pc \in Places, Goto(r, pc)
    PROVE  /\ proc' \in [Runs -> ProcStates]
           /\ \A q \in Runs : q # r => proc'[q] = proc[q]
           /\ proc'[r].pc = pc /\ ~proc'[r].awaiting
           /\ UNCHANGED <<proc[r].wave, proc[r].statusById>>
<1>1. /\ proc'[r] = [proc[r] EXCEPT !.pc = pc, !.awaiting = FALSE]
      /\ \A q \in Runs : q # r => proc'[q] = proc[q]
      /\ proc' = [q \in Runs |-> proc'[q]]
  BY DEF Goto
<1>2. proc[r] \in ProcStates
  OBVIOUS
<1>3. /\ proc'[r] \in ProcStates /\ proc'[r].pc = pc /\ ~proc'[r].awaiting
      /\ proc'[r].wave = proc[r].wave /\ proc'[r].statusById = proc[r].statusById
  BY <1>1, <1>2 DEF ProcStates
<1> QED
  BY <1>1, <1>3

\* From one place to another whose conditions hold.
LEMMA GotoKeeps ==
    ASSUME ExecInv, NEW r \in Runs, ~crashed, proc[r].pc # "idle", ~proc[r].awaiting,
           UNCHANGED <<receiptVars, options, crashed, starts, hired, task, mempool>>,
           NEW pc \in Places, Stage(r, pc), Goto(r, pc)
    PROVE  ExecInv'
<1>1. /\ proc' \in [Runs -> ProcStates]
      /\ \A q \in Runs : q # r => proc'[q] = proc[q]
      /\ proc'[r].pc = pc /\ ~proc'[r].awaiting
      /\ UNCHANGED <<proc[r].wave, proc[r].statusById>>
      /\ proc[r] \in ProcStates
  BY GotoMoves DEF ExecInv, WorkTypeOK
<1>2. Stage(r, pc)'
  BY <1>1, UnchangedGrows, TasksUnchanged, StageKept
<1>3. ProcOK(r)'
  BY <1>1, <1>2 DEF ProcOK
<1> QED
  BY <1>1, <1>3, MoveKeeps

\* The acting run of a step, in order before it.
LEMMA ActingRun ==
    ASSUME ExecInv, NEW r \in Runs
    PROVE  /\ proc \in [Runs -> ProcStates] /\ proc[r] \in ProcStates
           /\ ChainOK(r) /\ ProcOK(r) /\ Stage(r, proc[r].pc) /\ AwaitedFits(r)
           /\ \A i \in Steps : TaskOK(r, i)
           /\ proc[r].awaiting => proc[r].pc \in ChainCalls
BY DEF ExecInv, WorkTypeOK, RunOK, ProcOK

LEMMA Throwing ==
    ASSUME NEW r \in Runs, NEW pc, Stage(r, pc)
    PROVE  Stage(r, "threw")
BY DEF Stage, Before, InWave, Finished, Going

LEMMA CheckRunKeeps ==
    ASSUME ExecInv, NEW r \in Runs, ~crashed, CheckRun(r), UNCHANGED task,
           UNCHANGED <<receiptVars, options, crashed, starts, hired>>
    PROVE  ExecInv'
<1>1. /\ proc[r].pc = "check" /\ UNCHANGED mempool
      /\ \E pc \in {"threw", "start", "publish"} : Goto(r, pc)
  BY DEF CheckRun, Throw
<1>2. Stage(r, "check") /\ ~proc[r].awaiting
  BY <1>1, ActingRun DEF ChainCalls
<1>3. Stage(r, "threw")
  BY <1>2, Throwing
<1>4. Stage(r, "start") /\ Stage(r, "publish")
  BY <1>2 DEF Stage, Before, InWave, Finished, Going
<1>5. PICK pc \in {"threw", "start", "publish"} : Goto(r, pc)
  BY <1>1
<1>6. Stage(r, pc) /\ pc \in Places
  BY <1>3, <1>4 DEF Places
<1> QED
  BY <1>1, <1>2, <1>5, <1>6, GotoKeeps

LEMMA ChainCallFailsKeeps ==
    ASSUME ExecInv, NEW r \in Runs, ~crashed, ChainCallFails(r), UNCHANGED task,
           UNCHANGED <<receiptVars, options, crashed, starts, hired>>
    PROVE  ExecInv'
<1>1. /\ proc[r].pc # "idle" /\ ~proc[r].awaiting /\ UNCHANGED mempool
      /\ Goto(r, "threw")
  BY DEF ChainCallFails, Throw
<1>2. Stage(r, "threw") /\ "threw" \in Places
  BY ActingRun, Throwing DEF Places
<1> QED
  BY <1>1, <1>2, GotoKeeps

LEMMA WaveSettlesKeeps ==
    ASSUME ExecInv, NEW r \in Runs, ~crashed, WaveSettles(r), UNCHANGED task,
           UNCHANGED <<receiptVars, options, crashed, starts, hired>>
    PROVE  ExecInv'
<1>1. /\ proc[r].pc = "running" /\ UNCHANGED mempool /\ Goto(r, "anchor")
      /\ \A i \in WaveOf(r) : task[r][i].at = "ready"
  BY DEF WaveSettles
<1>2. Stage(r, "running") /\ ~proc[r].awaiting
  BY <1>1, ActingRun DEF ChainCalls
<1>3. Unrecorded(r) = WaveOf(r) /\ WaveOf(r) # {}
  BY <1>2 DEF Stage, Unrecorded, Recorded
<1>4. Stage(r, "anchor") /\ "anchor" \in Places
  BY <1>1, <1>2, <1>3 DEF Stage, Before, InWave, Finished, Going, Places
<1> QED
  BY <1>1, <1>2, <1>4, GotoKeeps

-----------------------------------------------------------------------------
\* Sending a transaction.
LEMMA SubmitKeeps ==
    ASSUME ExecInv, NEW r \in Runs, ~crashed, NEW tx \in TxStates, Submit(r, tx),
           tx.run = r, tx.awaited, tx.op = proc[r].pc, SaysTheTruth(tx),
           tx.op = "anchor" => /\ tx.index = Min(Unrecorded(r))
                               /\ tx.value = task[r][tx.index].status,
           UNCHANGED task, UNCHANGED <<receiptVars, options, crashed, starts, hired>>
    PROVE  ExecInv'
<1>1. /\ mempool \in Seq(TxStates) /\ proc \in [Runs -> ProcStates] /\ proc[r] \in ProcStates
      /\ task \in [Runs -> [Steps -> TaskStates]]
  BY DEF ExecInv, WorkTypeOK
<1>2. /\ ~proc[r].awaiting /\ mempool' = Append(mempool, tx)
      /\ proc' = [proc EXCEPT ![r].awaiting = TRUE]
  BY DEF Submit
<1>3. /\ mempool' \in Seq(TxStates) /\ DOMAIN mempool' = 1 .. Len(mempool) + 1
      /\ DOMAIN mempool = 1 .. Len(mempool) /\ Len(mempool) \in Nat
      /\ mempool'[Len(mempool) + 1] = tx
      /\ \A k \in DOMAIN mempool : mempool'[k] = mempool[k]
  BY <1>1, <1>2
<1>4. /\ proc' \in [Runs -> ProcStates] /\ proc'[r].awaiting /\ proc'[r].pc = proc[r].pc
      /\ UNCHANGED <<proc[r].wave, proc[r].statusById>>
      /\ \A q \in Runs : q # r => proc'[q] = proc[q]
  BY <1>1, <1>2 DEF ProcStates
<1>5. \A k \in DOMAIN mempool' : k \in DOMAIN mempool \/ mempool'[k] = tx
  BY <1>3
<1>6. \A k \in DOMAIN mempool : ~(mempool[k].awaited /\ mempool[k].run = r)
  BY <1>2, ActingRun DEF AwaitedFits
<1>7. AwaitedOnce'
  <2> SUFFICES ASSUME NEW j \in DOMAIN mempool', NEW k \in DOMAIN mempool',
                      mempool'[j].awaited, mempool'[k].awaited, mempool'[j].run = mempool'[k].run
               PROVE  j = k
    BY DEF AwaitedOnce
  <2>1. CASE j \in DOMAIN mempool /\ k \in DOMAIN mempool
    BY <2>1, <1>3 DEF ExecInv, AwaitedOnce
  <2>2. CASE j \notin DOMAIN mempool /\ k \in DOMAIN mempool
    BY <2>2, <1>3, <1>5, <1>6
  <2>3. CASE j \in DOMAIN mempool /\ k \notin DOMAIN mempool
    BY <2>3, <1>3, <1>5, <1>6
  <2>4. CASE j \notin DOMAIN mempool /\ k \notin DOMAIN mempool
    BY <2>4, <1>3
  <2> QED
    BY <2>1, <2>2, <2>3, <2>4
<1>8. MempoolKept
  <2> SUFFICES ASSUME NEW k \in DOMAIN mempool'
               PROVE  \/ \E j \in DOMAIN mempool : SameCall(mempool'[k], mempool[j])
                      \/ SaysTheTruth(mempool[k])'
    BY DEF MempoolKept
  <2>1. CASE k \in DOMAIN mempool
    BY <2>1, <1>3 DEF SameCall
  <2>2. CASE mempool'[k] = tx
    BY <2>2, UnchangedGrows, TruthKept DEF SameCall
  <2> QED
    BY <2>1, <2>2, <1>5
<1>9. \A q \in Runs : q # r => AwaitsNoMore(q)
  BY <1>3, <1>5 DEF AwaitsNoMore
<1>10. Unrecorded(r)' = Unrecorded(r)
  BY <1>4 DEF Unrecorded, WaveOf
<1>11. AwaitedFits(r)'
  <2> SUFFICES ASSUME NEW k \in DOMAIN mempool', mempool'[k].awaited, mempool'[k].run = r
               PROVE  mempool'[k] = tx
    BY <1>4, <1>10 DEF AwaitedFits
  <2> QED
    BY <1>3, <1>5, <1>6
<1>12. \A i \in Steps : TaskOK(r, i)'
  BY TasksUnchanged
<1>13. ProcOK(r)'
  <2>1. Stage(r, proc[r].pc)'
    <3> DEFINE pc == proc[r].pc
    <3>1. Stage(r, pc)
      BY ActingRun
    <3>2. \A p : Stage(r, p) => Stage(r, p)'
      BY <1>1, <1>4, UnchangedGrows, TasksUnchanged, StageKept
    <3> QED
      BY <3>1, <3>2, <1>4
  <2> QED
    BY <2>1, <1>4 DEF ProcOK, TxStates
<1>14. HiresKept /\ proc[r].pc # "idle"
  BY DEF HiresKept, TxStates, ChainCalls
<1> QED
  BY <1>1, <1>3, <1>4, <1>7, <1>8, <1>9, <1>11, <1>12, <1>13, <1>14, RunStepKeeps

\* A run all of whose steps are recorded claims the outcome its receipts have.
LEMMA RecordedRun ==
    ASSUME NEW r \in Runs, proc[r] \in ProcStates, NEW pc \in Finished, Stage(r, pc)
    PROVE  /\ Complete(r) /\ RunOutcome(r) = Outcome(r) /\ RunOutcome(r) \in Statuses
           /\ Succeeded(r) => Outcome(r) = StatusOk
<1>1. ASSUME NEW i \in StepsOf(r)
      PROVE  /\ IsAnchored(r, i) /\ StatusOnChain(r, i) = proc[r].statusById[i]
             /\ proc[r].statusById[i] \in Statuses
  BY <1>1, RunPlanned DEF Stage, Recorded, AnchoredWith, StatusOnChain, ProcStates
<1> DEFINE bad == {i \in StepsOf(r) : proc[r].statusById[i] # StatusOk}
<1>2. {i \in StepsOf(r) : StatusOnChain(r, i) # StatusOk} = bad
  BY <1>1
<1>3. bad # {} => Min(bad) \in bad
  <2>1. bad \in SUBSET Nat
    BY RunPlanned DEF Steps
  <2> QED
    BY <2>1, MinIsLeast
<1>4. Succeeded(r) <=> bad = {}
  BY DEF Succeeded
<1>5. Outcome(r) = IF bad = {} THEN StatusOk ELSE StatusOnChain(r, Min(bad))
  BY <1>2 DEF Outcome
<1>6. RunOutcome(r) = IF bad = {} THEN StatusOk ELSE proc[r].statusById[Min(bad)]
  BY <1>4 DEF RunOutcome
<1> HIDE DEF bad
<1>7. bad # {} => Min(bad) \in StepsOf(r)
  BY <1>3 DEF bad
<1>8. RunOutcome(r) = Outcome(r) /\ RunOutcome(r) \in Statuses
  BY <1>1, <1>5, <1>6, <1>7 DEF Statuses, StatusOk, StatusMax
<1> QED
  BY <1>1, <1>4, <1>5, <1>8 DEF Complete

LEMMA SendsKeep ==
    ASSUME ExecInv, NEW r \in Runs, ~crashed, UNCHANGED task,
           Publish(r) \/ Start(r) \/ AnchorNext(r) \/ Seal(r),
           UNCHANGED <<receiptVars, options, crashed, starts, hired>>
    PROVE  ExecInv'
<1>1. CASE Publish(r)
  <2> DEFINE tx == Tx(r, "publish", 0, 0)
  <2>1. tx \in TxStates /\ tx.run = r /\ tx.awaited /\ tx.op = "publish"
    BY DEF Tx, TxStates, ChainCalls, Statuses, StatusMax
  <2>2. Submit(r, tx) /\ proc[r].pc = "publish"
    BY <1>1 DEF Publish
  <2>3. SaysTheTruth(tx)
    BY <2>1 DEF SaysTheTruth
  <2> HIDE DEF tx
  <2> QED
    BY <2>1, <2>2, <2>3, SubmitKeeps
<1>2. CASE Start(r)
  <2> DEFINE tx == Tx(r, "start", 0, 0)
  <2>1. tx \in TxStates /\ tx.run = r /\ tx.awaited /\ tx.op = "start"
    BY DEF Tx, TxStates, ChainCalls, Statuses, StatusMax
  <2>2. Submit(r, tx) /\ proc[r].pc = "start"
    BY <1>2 DEF Start
  <2>3. SaysTheTruth(tx)
    BY <2>1 DEF SaysTheTruth
  <2> HIDE DEF tx
  <2> QED
    BY <2>1, <2>2, <2>3, SubmitKeeps
<1>3. CASE AnchorNext(r)
  <2> DEFINE i == Min(Unrecorded(r))
             tx == Tx(r, "anchor", i, task[r][i].status)
  <2>1. Submit(r, tx) /\ proc[r].pc = "anchor"
    BY <1>3 DEF AnchorNext
  <2>2. Stage(r, "anchor") /\ proc[r].wave \in 1 .. NumSteps + 1
    BY <2>1, ActingRun DEF ProcStates
  <2>3. i \in WaveOf(r) /\ i \in StepsOf(r) /\ i \in Steps
    BY <2>2, WaveSteps DEF Stage
  <2>4. task[r][i].at = "ready" /\ TaskOK(r, i)
    BY <2>2, <2>3, ActingRun DEF Stage
  <2>5. task[r][i].status \in Statuses /\ (task[r][i].status = StatusOk => Grounded(r, i))
    BY <2>4 DEF TaskOK, Decided
  <2>6. i \in Nat
    BY <2>3 DEF Steps
  <2> HIDE DEF i
  <2>7. /\ tx \in TxStates /\ tx.run = r /\ tx.awaited /\ tx.op = "anchor"
        /\ tx.index = i /\ tx.value = task[r][i].status
    BY <2>5, <2>6 DEF Tx, TxStates, ChainCalls
  <2> HIDE DEF tx
  <2>8. SaysTheTruth(tx)
    BY <2>3, <2>5, <2>7 DEF SaysTheTruth
  <2>9. i = Min(Unrecorded(r))
    BY DEF i
  <2> QED
    BY <2>1, <2>7, <2>8, <2>9, SubmitKeeps
<1>4. CASE Seal(r)
  <2> DEFINE count == Cardinality(StepsOf(r))
             tx == Tx(r, "seal", count, RunOutcome(r))
  <2>1. Submit(r, tx) /\ proc[r].pc = "seal"
    BY <1>4 DEF Seal
  <2>2. Complete(r) /\ RunOutcome(r) = Outcome(r) /\ RunOutcome(r) \in Statuses
    BY <2>1, ActingRun, RecordedRun DEF Finished
  <2>3. count \in Nat
    <3>1. Width[FlowOf[r]] - 1 \in Int
      BY RunPlanned, NumStepsAssumption
    <3>2. IsFiniteSet(StepsOf(r))
      BY <3>1, FS_Interval DEF StepsOf
    <3> QED
      BY <3>2, FS_CardinalityType
  <2> HIDE DEF count
  <2>4. /\ tx \in TxStates /\ tx.run = r /\ tx.awaited /\ tx.op = "seal"
        /\ tx.value = RunOutcome(r)
    BY <2>2, <2>3 DEF Tx, TxStates, ChainCalls
  <2> HIDE DEF tx
  <2>5. SaysTheTruth(tx)
    BY <2>2, <2>4 DEF SaysTheTruth
  <2> QED
    BY <2>1, <2>4, <2>5, SubmitKeeps
<1> QED
  BY <1>1, <1>2, <1>3, <1>4

\* Giving up on a transaction leaves it in the mempool.
LEMMA GiveUpKeeps ==
    ASSUME ExecInv, NEW r \in Runs, ~crashed, GiveUp(r), UNCHANGED task,
           UNCHANGED <<receiptVars, options, crashed, starts, hired>>
    PROVE  ExecInv'
<1>1. /\ mempool \in Seq(TxStates) /\ proc \in [Runs -> ProcStates]
      /\ task \in [Runs -> [Steps -> TaskStates]]
  BY DEF ExecInv, WorkTypeOK
<1>2. /\ proc[r].awaiting /\ Goto(r, "threw")
      /\ mempool' = [k \in DOMAIN mempool |-> Forget(mempool[k], r)]
  BY DEF GiveUp, Throw
<1>3. ASSUME NEW tx \in TxStates
      PROVE  /\ Forget(tx, r) \in TxStates /\ SameCall(Forget(tx, r), tx)
             /\ Forget(tx, r).awaited => tx.awaited /\ tx.run # r /\ Forget(tx, r) = tx
  <2>1. tx.awaited \in BOOLEAN
    BY DEF TxStates
  <2>2. CASE tx.awaited /\ tx.run # r
    <3>1. (tx.awaited /\ tx.run # r) = tx.awaited
      BY <2>1, <2>2
    <3> HIDE DEF TxStates
    <3>2. Forget(tx, r) = [tx EXCEPT !.awaited = tx.awaited]
      BY <3>1 DEF Forget
    <3>3. [tx EXCEPT !.awaited = tx.awaited] = tx
      BY DEF TxStates
    <3> QED
      BY <2>2, <3>2, <3>3 DEF SameCall
  <2>3. CASE ~(tx.awaited /\ tx.run # r)
    <3>1. (tx.awaited /\ tx.run # r) = FALSE
      BY <2>1, <2>3
    <3>2. Forget(tx, r) = [tx EXCEPT !.awaited = FALSE]
      BY <3>1 DEF Forget
    <3> QED
      BY <3>2 DEF SameCall, TxStates
  <2> QED
    BY <2>2, <2>3
<1>4. /\ DOMAIN mempool' = DOMAIN mempool
      /\ \A k \in DOMAIN mempool : mempool[k] \in TxStates /\ mempool'[k] = Forget(mempool[k], r)
  BY <1>1, <1>2
<1>5. mempool' \in Seq(TxStates)
  <2>1. DOMAIN mempool = 1 .. Len(mempool) /\ Len(mempool) \in Nat
    BY <1>1
  <2>2. mempool' \in [1 .. Len(mempool) -> TxStates]
    BY <1>2, <1>3, <1>4, <2>1
  <2> QED
    BY <2>1, <2>2, SeqDef
<1>6. AwaitedOnce'
  BY <1>3, <1>4 DEF ExecInv, AwaitedOnce, SameCall
<1>7. MempoolKept
  BY <1>3, <1>4 DEF MempoolKept
<1>8. \A q \in Runs : AwaitsNoMore(q)
  BY <1>3, <1>4 DEF AwaitsNoMore
<1>9. AwaitedFits(r)'
  BY <1>3, <1>4 DEF AwaitedFits, SameCall
<1>10. /\ proc' \in [Runs -> ProcStates] /\ proc'[r].pc = "threw" /\ ~proc'[r].awaiting
       /\ \A q \in Runs : q # r => proc'[q] = proc[q]
       /\ UNCHANGED <<proc[r].wave, proc[r].statusById>>
  BY <1>1, <1>2, GotoMoves DEF Places
<1>11. ProcOK(r)'
  <2>1. Stage(r, "threw") /\ proc[r] \in ProcStates
    BY ActingRun, Throwing
  <2>2. Stage(r, "threw")'
    BY <1>10, <2>1, UnchangedGrows, TasksUnchanged, StageKept
  <2> QED
    BY <1>10, <2>2 DEF ProcOK
<1>12. HiresKept /\ proc[r].pc # "idle"
  BY <1>2, ActingRun DEF HiresKept, ChainCalls
<1>13. \A i \in Steps : TaskOK(r, i)'
  BY TasksUnchanged
<1> QED
  BY <1>1, <1>5, <1>6, <1>7, <1>8, <1>9, <1>10, <1>11, <1>12, <1>13, RunStepKeeps

-----------------------------------------------------------------------------
\* A wave begins: what its steps need is recorded, and on chain.
LEMMA WaveRests ==
    ASSUME ExecInv, NEW r \in Runs, proc[r].pc = "wave", NEW i \in WaveOf(r), ~Blocked(r, i)
    PROVE  UpstreamsOk(r, i)
<1>1. Stage(r, "wave") /\ proc[r] \in ProcStates /\ proc[r].wave \in 1 .. NumSteps + 1
  BY ActingRun DEF ProcStates
<1> SUFFICES ASSUME NEW upstream \in DependsOf(r)[i] PROVE AnchoredWith(r, upstream, StatusOk)
  BY DEF UpstreamsOk
<1>2. i \in StepsOf(r)
  BY <1>1, WaveSteps
<1>3. upstream \in Steps
  BY <1>2, RunPlanned
<1>4. PICK j \in 1 .. proc[r].wave - 1 : upstream \in PlannedWaves[r][j]
  BY <1>1, UpstreamsPlannedEarlier DEF WaveOf
<1>5. Recorded(r, upstream)
  BY <1>1, <1>4 DEF Stage, Going
<1>6. proc[r].statusById[upstream] = StatusOk
  BY <1>5 DEF Blocked, Recorded
<1> QED
  BY <1>1, <1>3, <1>5, <1>6 DEF Stage

LEMMA BeginWaveKeeps ==
    ASSUME ExecInv, NEW r \in Runs, ~crashed, BeginWave(r),
           UNCHANGED <<receiptVars, options, crashed, starts, hired>>
    PROVE  ExecInv'
<1>1. proc[r].pc = "wave" /\ UNCHANGED mempool
  BY DEF BeginWave
<1>2. /\ Stage(r, "wave") /\ proc[r] \in ProcStates /\ proc[r].wave \in 1 .. NumSteps + 1
      /\ ~proc[r].awaiting /\ proc \in [Runs -> ProcStates]
  BY <1>1, ActingRun DEF ProcStates, ChainCalls
<1>3. CASE WaveOf(r) = {}
  <2>1. Goto(r, "seal") /\ UNCHANGED task
    BY <1>3 DEF BeginWave
  <2>2. proc[r].wave \in 1 .. Width[FlowOf[r]] + 1
    BY <1>2, RunPlanned DEF Stage
  <2>3. \A i \in StepsOf(r) : Recorded(r, i)
    <3> SUFFICES ASSUME NEW i \in StepsOf(r) PROVE Recorded(r, i)
      OBVIOUS
    <3>1. PICK j \in 1 .. proc[r].wave - 1 : i \in PlannedWaves[r][j]
      BY <1>3, <2>2, EmptyWaveEndsTheRun DEF WaveOf
    <3> QED
      BY <1>2, <3>1 DEF Stage, Going
  <2>4. Stage(r, "seal") /\ "seal" \in Places
    BY <1>2, <2>3 DEF Stage, Before, InWave, Finished, Going, Places
  <2> QED
    BY <1>1, <1>2, <2>1, <2>4, GotoKeeps
<1>4. CASE WaveOf(r) # {}
  <2> DEFINE skipped == [NoTask EXCEPT !.at = "tracing", !.status = StatusSkipped]
             begun == [NoTask EXCEPT !.at = "begun"]
  <2>1. /\ Goto(r, "running")
        /\ task' = [task EXCEPT ![r] = [i \in Steps |->
               IF i \notin WaveOf(r) THEN task[r][i]
               ELSE IF Blocked(r, i) \/ proc[r].halted THEN skipped ELSE begun]]
    BY <1>4 DEF BeginWave
  <2>2. task \in [Runs -> [Steps -> TaskStates]]
    BY DEF ExecInv, WorkTypeOK
  <2>3. /\ skipped \in TaskStates /\ skipped.at = "tracing" /\ skipped.status = StatusSkipped
        /\ begun \in TaskStates /\ begun.at = "begun"
    <3>1. StatusSkipped \in Statuses
      BY DEF StatusSkipped, Statuses, StatusMax
    <3>2. NoTask \in TaskStates
      BY FreshStates
    <3>3. skipped \in TaskStates /\ skipped.at = "tracing" /\ skipped.status = StatusSkipped
      BY <3>1, <3>2 DEF TaskStates, Decided
    <3>4. begun \in TaskStates /\ begun.at = "begun"
      BY <3>2 DEF TaskStates
    <3> QED
      BY <3>3, <3>4
  <2> HIDE DEF skipped, begun
  <2>4. /\ task' \in [Runs -> [Steps -> TaskStates]]
        /\ \A q \in Runs : q # r => task'[q] = task[q]
        /\ \A i \in Steps : i \notin WaveOf(r) => task'[r][i] = task[r][i]
        /\ \A i \in Steps : i \in WaveOf(r) =>
               task'[r][i] = IF Blocked(r, i) \/ proc[r].halted THEN skipped ELSE begun
    BY <2>1, <2>2, <2>3
  <2>5. /\ proc' \in [Runs -> ProcStates] /\ proc'[r].pc = "running" /\ ~proc'[r].awaiting
        /\ \A q \in Runs : q # r => proc'[q] = proc[q]
        /\ UNCHANGED <<proc[r].wave, proc[r].statusById>>
    BY <1>2, <2>1, GotoMoves DEF Places
  <2>6. /\ WaveOf(r)' = WaveOf(r) /\ \A i \in Steps : Recorded(r, i)' = Recorded(r, i)
        /\ WaveOf(r) \subseteq Steps /\ WaveOf(r) \subseteq StepsOf(r)
    BY <1>2, <2>5, WaveSteps DEF WaveOf, Recorded
  <2>7. Grows /\ WorksNow(r) /\ WorksNow(r)'
    BY <1>2, UnchangedGrows, WorksKept DEF Stage, Going
  <2>8. ASSUME NEW i \in Steps PROVE TaskOK(r, i)'
    <3>1. CASE i \notin WaveOf(r)
      BY <2>4, <2>7, <3>1, ActingRun, TaskKept
    <3>2. CASE i \in WaveOf(r) /\ (Blocked(r, i) \/ proc[r].halted)
      <4>1. task'[r][i].at = "tracing" /\ task'[r][i].status = StatusSkipped
        BY <2>3, <2>4, <3>2
      <4> QED
        BY <4>1, <2>6, <2>7, <3>2
           DEF TaskOK, Decided, StatusSkipped, StatusOk, Statuses, StatusMax
    <3>3. CASE i \in WaveOf(r) /\ ~(Blocked(r, i) \/ proc[r].halted)
      <4>1. task'[r][i].at = "begun"
        BY <2>3, <2>4, <3>3
      <4>2. UpstreamsOk(r, i)'
        BY <1>1, <2>6, <2>7, <3>3, WaveRests, GrowsUpstreams
      <4> QED
        BY <4>1, <4>2, <2>6, <2>7, <3>3 DEF TaskOK, Decided
    <3> QED
      BY <3>1, <3>2, <3>3
  <2>9. ASSUME NEW k \in proc[r].wave + 1 .. NumSteps + 1, NEW i \in PlannedWaves[r][k]
        PROVE  Untouched(r, i)'
    <3>1. k \in 1 .. NumSteps + 1 /\ k # proc[r].wave
      BY <1>2, NumStepsAssumption
    <3>2. i \in Steps /\ i \notin WaveOf(r)
      BY <1>2, <3>1, WaveFacts, RunPlanned DEF WaveOf
    <3>3. Untouched(r, i)
      BY <1>2, <2>9 DEF Stage
    <3> QED
      BY <2>4, <2>6, <3>2, <3>3 DEF Untouched
  <2>10. ASSUME NEW k \in 1 .. proc[r].wave - 1, NEW i \in PlannedWaves[r][k]
         PROVE  Recorded(r, i)'
    <3>1. k \in 1 .. NumSteps + 1
      BY <1>2, NumStepsAssumption
    <3>2. i \in Steps /\ Recorded(r, i)
      BY <1>2, <3>1, WaveFacts, RunPlanned DEF Stage, Going
    <3> QED
      BY <2>6, <3>2
  <2>11. /\ \A i \in WaveOf(r) : ~Recorded(r, i)'
         /\ \A i \in Steps : Recorded(r, i)' => AnchoredWith(r, i, proc[r].statusById[i])'
    <3>1. \A i \in WaveOf(r) : ~Recorded(r, i)
      BY <1>2 DEF Stage, Untouched
    <3>2. \A i \in Steps : Recorded(r, i) => AnchoredWith(r, i, proc[r].statusById[i])
      BY <1>2 DEF Stage
    <3> QED
      BY <2>5, <2>6, <2>7, <3>1, <3>2, GrowsAnchored
  <2>12. ProcOK(r)'
    BY <1>2, <1>4, <2>5, <2>6, <2>7, <2>9, <2>10, <2>11
       DEF ProcOK, Stage, Before, InWave, Finished, Going
  <2>13. AwaitedFits(r)'
    BY <1>1, <1>2, ActingRun DEF AwaitedFits
  <2>14. MempoolKept /\ AwaitedOnce' /\ \A q \in Runs : AwaitsNoMore(q)
    BY <1>1, MempoolUnchanged
  <2>15. HiresKept
    <3> SUFFICES ASSUME NEW p \in Runs, NEW i \in Steps, task[p][i].at \in {"hiring"} \cup Decided
                 PROVE  task'[p][i].at \in {"hiring"} \cup Decided
      BY DEF HiresKept
    <3>1. CASE p = r /\ i \in WaveOf(r)
      BY <1>2, <3>1 DEF Stage, Untouched, Decided
    <3>2. CASE ~(p = r /\ i \in WaveOf(r))
      BY <2>4, <3>2
    <3> QED
      BY <3>1, <3>2
  <2>16. mempool' \in Seq(TxStates)
    BY <1>1 DEF ExecInv, WorkTypeOK
  <2> QED
    BY <1>1, <2>4, <2>5, <2>8, <2>12, <2>13, <2>14, <2>15, <2>16, RunStepKeeps
<1> QED
  BY <1>3, <1>4

\* A receipt is anchored: its status is recorded, and after the last one of the
\* wave the next wave begins.
LEMMA SettleKeeps ==
    ASSUME ExecInv, NEW r \in Runs, ~crashed, Settle(r), UNCHANGED task,
           UNCHANGED <<receiptVars, options, crashed, starts, hired>>
    PROVE  ExecInv'
<1> DEFINE i == Min(Unrecorded(r))
           old == proc[r]
           status == [old.statusById EXCEPT ![i] = task[r][i].status]
           last == Unrecorded(r) = {i}
           halted == old.halted \/ (last /\ Halts(r, status))
           new == [old EXCEPT !.pc = IF last THEN "wave" ELSE "anchor", !.statusById = status,
                              !.wave = IF last THEN old.wave + 1 ELSE old.wave, !.halted = halted]
<1>1. old.pc = "settle" /\ UNCHANGED mempool /\ proc' = [proc EXCEPT ![r] = new]
  BY DEF Settle
<1>2. /\ Stage(r, "settle") /\ old \in ProcStates /\ old.wave \in 1 .. NumSteps + 1
      /\ ~old.awaiting /\ proc \in [Runs -> ProcStates]
      /\ old.statusById \in [Steps -> Statuses \cup {Unknown}] /\ old.halted \in BOOLEAN
      /\ Width[FlowOf[r]] \in 1 .. NumSteps /\ NumSteps \in Nat
  BY <1>1, ActingRun, RunPlanned, NumStepsAssumption DEF ProcStates, ChainCalls
<1>3. /\ WaveOf(r) \subseteq Steps /\ Unrecorded(r) \subseteq WaveOf(r)
      /\ i \in Unrecorded(r) /\ i \in WaveOf(r) /\ i \in Steps
  BY <1>2, WaveSteps DEF Stage
<1>4. task[r][i].at = "ready" /\ task[r][i].status \in Statuses
  <2>1. task[r][i].at = "ready"
    BY <1>2, <1>3 DEF Stage
  <2> QED
    BY <2>1, <1>3, ActingRun DEF TaskOK, Decided
<1>5. old.wave <= Width[FlowOf[r]]
  BY <1>2, <1>3, WaveFacts DEF WaveOf
<1>6. status \in [Steps -> Statuses \cup {Unknown}]
  BY <1>2, <1>3, <1>4
<1>7. halted \in BOOLEAN
  BY <1>2 DEF Halts
<1>8. (IF last THEN old.wave + 1 ELSE old.wave) \in 1 .. NumSteps + 1
  BY <1>2, <1>5
<1>9. /\ new \in ProcStates
      /\ new.pc = (IF last THEN "wave" ELSE "anchor") /\ ~new.awaiting
      /\ new.wave = (IF last THEN old.wave + 1 ELSE old.wave) /\ new.statusById = status
  <2> HIDE DEF status, halted, last
  <2>1. (IF last THEN "wave" ELSE "anchor") \in Places
    BY DEF Places
  <2> QED
    BY <1>2, <1>6, <1>7, <1>8, <2>1 DEF ProcStates
<1> HIDE DEF new
<1>10. /\ proc' \in [Runs -> ProcStates] /\ proc'[r] = new
       /\ \A q \in Runs : q # r => proc'[q] = proc[q]
  BY <1>1, <1>2, <1>9
<1>11. /\ task[r][i].status # Unknown
       /\ \A j \in Steps : j # i => status[j] = old.statusById[j]
       /\ status[i] = task[r][i].status
  BY <1>2, <1>3, <1>4 DEF Unknown, Statuses, StatusMax
<1>12. \A j \in Steps : Recorded(r, j)' <=> Recorded(r, j) \/ j = i
  BY <1>9, <1>10, <1>11 DEF Recorded
<1>13. Grows /\ WorksNow(r)'
  BY <1>2, UnchangedGrows, WorksKept DEF Stage, Going, InWave
<1>14. \A j \in Steps : Recorded(r, j)' => AnchoredWith(r, j, proc[r].statusById[j])'
  <2> SUFFICES ASSUME NEW j \in Steps, Recorded(r, j)', NEW value, value = proc'[r].statusById[j]
               PROVE  AnchoredWith(r, j, value)'
    OBVIOUS
  <2>1. value = status[j]
    BY <1>9, <1>10
  <2>2. AnchoredWith(r, j, value)
    <3>1. CASE j = i
      BY <1>2, <1>11, <2>1, <3>1 DEF Stage
    <3>2. CASE j # i
      BY <1>2, <1>11, <1>12, <2>1, <3>2 DEF Stage
    <3> QED
      BY <3>1, <3>2
  <2> QED
    BY <1>13, <2>2, GrowsAnchored
<1> SUFFICES ProcOK(r)'
  BY <1>1, <1>2, <1>10, MoveKeeps
<1>15. ASSUME NEW k \in old.wave + 1 .. NumSteps + 1, NEW j \in PlannedWaves[r][k]
       PROVE  Untouched(r, j)'
  <2>1. k \in 1 .. NumSteps + 1 /\ k # old.wave
    BY <1>2
  <2>2. j \in Steps /\ j \notin WaveOf(r)
    BY <1>2, <2>1, WaveFacts, RunPlanned DEF WaveOf
  <2>3. Untouched(r, j) /\ j # i
    BY <1>2, <1>3, <1>15, <2>2 DEF Stage, InWave
  <2> QED
    BY <1>12, <2>2, <2>3 DEF Untouched
<1>16. ASSUME NEW k \in 1 .. old.wave - 1, NEW j \in PlannedWaves[r][k]
       PROVE  Recorded(r, j)'
  <2>1. k \in 1 .. NumSteps + 1
    BY <1>2
  <2>2. j \in Steps /\ Recorded(r, j)
    BY <1>2, <2>1, WaveFacts, RunPlanned DEF Stage, Going, InWave
  <2> QED
    BY <1>12, <2>2
<1>17. CASE last
  <2>1. new.pc = "wave" /\ new.wave = old.wave + 1
    BY <1>9, <1>17
  <2>2. \A j \in WaveOf(r) : Recorded(r, j)'
    BY <1>3, <1>12, <1>17 DEF Unrecorded, Recorded
  <2>3. ASSUME NEW k \in 1 .. new.wave - 1, NEW j \in PlannedWaves[r][k] PROVE Recorded(r, j)'
    <3>1. k = old.wave \/ k \in 1 .. old.wave - 1
      BY <1>2, <2>1
    <3> QED
      BY <1>16, <2>2, <3>1 DEF WaveOf
  <2>4. /\ \A k \in new.wave + 1 .. NumSteps + 1 : \A j \in PlannedWaves[r][k] : Untouched(r, j)'
        /\ \A j \in PlannedWaves[r][new.wave] : Untouched(r, j)'
    BY <1>2, <1>5, <1>15, <2>1
  <2>5. WaveOf(r)' = PlannedWaves[r][new.wave]
    BY <1>10 DEF WaveOf
  <2>6. new.wave <= Width[FlowOf[r]] + 1
    BY <1>2, <1>5, <2>1
  <2>7. Stage(r, "wave")'
    BY <1>10, <1>13, <1>14, <2>3, <2>4, <2>5, <2>6 DEF Stage, Before, InWave, Finished, Going
  <2> QED
    BY <1>9, <1>10, <2>1, <2>7 DEF ProcOK
<1>18. CASE ~last
  <2>1. new.pc = "anchor" /\ new.wave = old.wave
    BY <1>9, <1>18
  <2>2. WaveOf(r)' = WaveOf(r) /\ Unrecorded(r)' = Unrecorded(r) \ {i}
    BY <1>3, <1>10, <1>12, <2>1 DEF WaveOf, Unrecorded, Recorded
  <2>3. Unrecorded(r)' # {}
    BY <1>3, <1>18, <2>2
  <2>4. \A j \in WaveOf(r) : task[r][j].at = "ready"
    BY <1>2 DEF Stage
  <2>5. Stage(r, "anchor")'
    BY <1>2, <1>10, <1>13, <1>14, <1>15, <1>16, <2>1, <2>2, <2>3, <2>4
       DEF Stage, Before, InWave, Finished, Going
  <2> QED
    BY <1>9, <1>10, <2>1, <2>5 DEF ProcOK
<1> QED
  BY <1>17, <1>18

LEMMA RunStepKeepsInv ==
    ASSUME ExecInv, NEW r \in Runs, RunStep(r)
    PROVE  ExecInv'
BY CheckRunKeeps, ChainCallFailsKeeps, WaveSettlesKeeps, SendsKeep, GiveUpKeeps, BeginWaveKeeps,
   SettleKeeps DEF RunStep

-----------------------------------------------------------------------------
\* Steps of runStep.
LEMMA ActingTask ==
    ASSUME ExecInv, NEW r \in Runs, NEW i \in Steps, task[r][i].at # "idle"
    PROVE  /\ i \in StepsOf(r) /\ WorksNow(r) /\ proc[r].pc # "idle"
           /\ task[r][i] \in TaskStates /\ TaskOK(r, i)
<1>1. TaskOK(r, i) /\ Stage(r, proc[r].pc)
  BY ActingRun
<1>2. proc[r].pc # "idle"
  BY <1>1 DEF Stage, Before, Untouched
<1> QED
  BY <1>1, <1>2 DEF TaskOK, ExecInv, WorkTypeOK

\* Only task i of run r changes, and perhaps which lives hired for it.
OnlyTask(r, i) ==
    /\ task' \in [Runs -> [Steps -> TaskStates]]
    /\ \A q \in Runs : q # r => task'[q] = task[q]
    /\ \A j \in Steps : j # i => task'[r][j] = task[r][j]
    /\ task[r][i].at \in {"hiring"} \cup Decided => task'[r][i].at \in {"hiring"} \cup Decided

HiresThisLife(r) ==
    /\ hired' \in [Runs -> [Steps -> SUBSET Nat]]
    /\ \A q \in Runs : q # r => hired'[q] = hired[q]
    /\ \A j \in Steps : hired'[r][j] = hired[r][j] \/ hired'[r][j] = {starts}

LEMMA TaskLeaves ==
    ASSUME ExecInv, NEW r \in Runs, NEW i \in Steps, task[r][i].at \notin {"idle", "ready"},
           OnlyTask(r, i), HiresThisLife(r), UNCHANGED <<receiptVars, starts>>
    PROVE  /\ Grows /\ TasksKeep(r) /\ HiresKept /\ WorksNow(r)' /\ ChainOK(r)'
           /\ \A j \in Steps : j # i => TaskOK(r, j)'
<1>1. Grows
  BY UnchangedGrows
<1>2. WorksNow(r) /\ starts \in Nat
  BY ActingTask DEF ExecInv, WorkTypeOK
<1>3. WorksNow(r)'
  BY <1>1, <1>2 DEF WorksNow, HiresThisLife, Grows
<1>4. ChainOK(r)'
  <2>1. \A j \in Steps : hired'[r][j] = {} \/ \E n \in Nat : hired'[r][j] = {n}
    BY <1>2, ActingRun DEF HiresThisLife, ChainOK
  <2>2. UNCHANGED <<runs[r], steps[r], seals[r]>>
    BY DEF receiptVars
  <2> QED
    BY <1>1, <1>2, <2>1, <2>2, ActingRun, ChainKept DEF WorksNow
<1>5. \A j \in Steps : j # i => TaskOK(r, j)'
  BY <1>1, <1>3, ActingRun, TaskKept DEF OnlyTask
<1>6. TasksKeep(r)
  BY DEF TasksKeep, OnlyTask
<1>7. HiresKept
  BY DEF HiresKept, OnlyTask
<1> QED
  BY <1>1, <1>3, <1>4, <1>5, <1>6, <1>7

LEMMA TaskStepKeeps ==
    ASSUME ExecInv, NEW r \in Runs, NEW i \in Steps, ~crashed,
           task[r][i].at \notin {"idle", "ready"}, OnlyTask(r, i), HiresThisLife(r),
           UNCHANGED <<receiptVars, options, mempool, crashed, starts>>,
           proc' \in [Runs -> ProcStates], \A q \in Runs : q # r => proc'[q] = proc[q],
           TaskOK(r, i)', ProcOK(r)', AwaitedFits(r)'
    PROVE  ExecInv'
<1>1. /\ Grows /\ HiresKept /\ ChainOK(r)'
      /\ \A j \in Steps : j # i => TaskOK(r, j)'
  BY TaskLeaves
<1>2. MempoolKept /\ AwaitedOnce' /\ \A q \in Runs : AwaitsNoMore(q)
  BY MempoolUnchanged
<1>3. ReceiptsTypeOK' /\ WorkTypeOK'
  BY DEF ExecInv, ReceiptsTypeOK, RegistryTypeOK, receiptVars, WorkTypeOK, OnlyTask, HiresThisLife
<1>4. RunOK(r)'
  BY <1>1 DEF RunOK
<1> DEFINE Q == {r}
<1>5. /\ Q \in SUBSET Runs /\ \A q \in Q : RunOK(q)'
      /\ \A q \in Q : proc[q].pc # "idle" \/ WasAskedFor(q)'
      /\ \A q \in Runs \ Q : Aside(q)
  BY <1>2, <1>4, ActingTask DEF Aside, receiptVars, OnlyTask, HiresThisLife
<1>6. ~crashed'
  OBVIOUS
<1> HIDE DEF Q
<1> QED
  BY <1>1, <1>2, <1>3, <1>5, <1>6, Assemble

\* The usual case: executeRun does not notice.
LEMMA QuietTaskKeeps ==
    ASSUME ExecInv, NEW r \in Runs, NEW i \in Steps, ~crashed,
           task[r][i].at \notin {"idle", "ready"}, OnlyTask(r, i), HiresThisLife(r),
           UNCHANGED <<receiptVars, options, mempool, crashed, starts, proc>>, TaskOK(r, i)'
    PROVE  ExecInv'
<1>1. Grows /\ TasksKeep(r) /\ WorksNow(r)'
  BY TaskLeaves
<1>2. ProcOK(r)'
  BY <1>1, ActingRun, ProcKept
<1>3. AwaitsNoMore(r)
  BY MempoolUnchanged
<1>4. AwaitedFits(r)'
  BY <1>1, <1>3, ActingRun, AwaitedKept
<1>5. proc' \in [Runs -> ProcStates] /\ \A q \in Runs : q # r => proc'[q] = proc[q]
  BY ActingRun
<1> QED
  BY <1>2, <1>4, <1>5, TaskStepKeeps

LEMMA HiredUnchanged ==
    ASSUME ExecInv, NEW r \in Runs, UNCHANGED hired
    PROVE  HiresThisLife(r)
BY DEF ExecInv, WorkTypeOK, HiresThisLife

LEMMA BecomesMoves ==
    ASSUME ExecInv, NEW r \in Runs, NEW i \in Steps, NEW at \in Decided, NEW status \in Statuses,
           Becomes(r, i, at, status)
    PROVE  OnlyTask(r, i) /\ task'[r][i].at = at /\ task'[r][i].status = status
<1>1. task \in [Runs -> [Steps -> TaskStates]]
  BY DEF ExecInv, WorkTypeOK
<1> DEFINE new == [task[r][i] EXCEPT !.at = at, !.status = status]
<1>2. task' = [task EXCEPT ![r] = [task[r] EXCEPT ![i] = new]]
  BY <1>1 DEF Becomes
<1>3. new \in TaskStates /\ new.at = at /\ new.status = status
  <2>1. task[r][i] \in TaskStates
    BY <1>1
  <2>2. \A t \in TaskStates :
          LET u == [t EXCEPT !.at = at, !.status = status]
          IN  u \in TaskStates /\ u.at = at /\ u.status = status
    BY DEF TaskStates
  <2> QED
    BY <2>1, <2>2
<1> HIDE DEF new
<1> QED
  BY <1>1, <1>2, <1>3 DEF OnlyTask

\* A step gets its status: what it says of its inputs and its hired run is on
\* chain.
LEMMA DecidedTaskOK ==
    ASSUME ExecInv, NEW r \in Runs, NEW i \in Steps, ~crashed,
           task[r][i].at \notin {"idle", "ready"},
           NEW at \in Decided, NEW status \in Statuses, status = StatusOk => Grounded(r, i),
           Becomes(r, i, at, status),
           UNCHANGED <<receiptVars, options, mempool, crashed, starts, hired>>
    PROVE  OnlyTask(r, i) /\ HiresThisLife(r) /\ TaskOK(r, i)'
<1>1. OnlyTask(r, i) /\ task'[r][i].at = at /\ task'[r][i].status = status
  BY BecomesMoves
<1>2. HiresThisLife(r)
  BY HiredUnchanged
<1>3. Grows /\ WorksNow(r)' /\ i \in StepsOf(r)
  BY <1>1, <1>2, TaskLeaves, ActingTask
<1>4. status = StatusOk => Grounded(r, i)'
  BY <1>3, GrowsGrounded
<1> QED
  BY <1>1, <1>2, <1>3, <1>4 DEF TaskOK, Decided

LEMMA DecidesKeeps ==
    ASSUME ExecInv, NEW r \in Runs, NEW i \in Steps, ~crashed,
           TurnDown(r, i) \/ Answer(r, i) \/ ChildEnds(r, i),
           UNCHANGED <<receiptVars, options, mempool, crashed, starts>>
    PROVE  ExecInv'
<1>1. ASSUME NEW status \in Statuses, Becomes(r, i, "tracing", status), UNCHANGED <<proc, hired>>,
             task[r][i].at \in {"begun", "invoked", "hiring"},
             status = StatusOk => Grounded(r, i)
      PROVE  ExecInv'
  <2>1. "tracing" \in Decided /\ task[r][i].at \notin {"idle", "ready"}
    BY <1>1 DEF Decided
  <2>2. OnlyTask(r, i) /\ HiresThisLife(r) /\ TaskOK(r, i)'
    BY <1>1, <2>1, DecidedTaskOK
  <2> QED
    BY <1>1, <2>1, <2>2, QuietTaskKeeps
<1>2. CASE TurnDown(r, i)
  <2>1. PICK status \in {StatusSkipped, StatusFailed} : Becomes(r, i, "tracing", status)
    BY <1>2 DEF TurnDown
  <2>2. status \in Statuses /\ status # StatusOk
    BY DEF StatusSkipped, StatusFailed, Statuses, StatusMax, StatusOk
  <2> QED
    BY <1>1, <1>2, <2>1, <2>2 DEF TurnDown
<1>3. CASE Answer(r, i)
  <2>1. PICK status \in {StatusOk, StatusFailed, StatusUnattested} : Becomes(r, i, "tracing", status)
    BY <1>3 DEF Answer
  <2>2. status \in Statuses
    BY DEF StatusUnattested, StatusFailed, Statuses, StatusMax, StatusOk
  <2>3. task[r][i].at = "invoked" /\ TaskOK(r, i)
    BY <1>3, ActingRun DEF Answer
  <2>4. Grounded(r, i)
    BY <2>3 DEF TaskOK, Grounded
  <2> QED
    BY <1>1, <1>3, <2>1, <2>2, <2>3, <2>4 DEF Answer
<1>4. CASE ChildEnds(r, i)
  <2> DEFINE child == ChildOf[r][i]
  <2>1. task[r][i].at = "hiring" /\ TaskOK(r, i) /\ Becomes(r, i, "tracing", ChildStatus(child))
    BY <1>4, ActingRun DEF ChildEnds
  <2>2. IsSubFlow(r, i) /\ UpstreamsOk(r, i)
    BY <2>1 DEF TaskOK
  <2>3. child \in Runs
    BY <2>2, HiredRunsAreDerived DEF IsSubFlow
  <2> HIDE DEF child
  <2>4. ASSUME ChildStatus(child) = StatusOk
        PROVE  IsSealed(child) /\ seals[child].outcome = StatusOk
    <3>1. proc[child].pc = "done" /\ Succeeded(child)
      BY <2>4 DEF ChildStatus, StatusOk, StatusFailed
    <3>2. Stage(child, "done") /\ ChainOK(child) /\ proc[child] \in ProcStates
      BY <2>3, <3>1, ActingRun
    <3>3. Outcome(child) = StatusOk
      BY <2>3, <3>1, <3>2, RecordedRun DEF Finished
    <3> QED
      BY <3>2, <3>3 DEF Stage, ChainOK
  <2>5. ChildStatus(child) = StatusOk => Grounded(r, i)
    BY <2>2, <2>4 DEF Grounded, child
  <2>6. ChildStatus(child) \in Statuses
    BY DEF ChildStatus, StatusOk, StatusFailed, Statuses, StatusMax
  <2>7. Becomes(r, i, "tracing", ChildStatus(child)) /\ UNCHANGED <<proc, hired>>
    BY <1>4, <2>1 DEF child, ChildEnds
  <2> QED
    BY <1>1, <2>1, <2>5, <2>6, <2>7
<1> QED
  BY <1>2, <1>3, <1>4

\* Calling an agent, and calling it again.
LEMMA InvokesKeep ==
    ASSUME ExecInv, NEW r \in Runs, NEW i \in Steps, ~crashed, Invoke(r, i) \/ Retry(r, i),
           UNCHANGED <<receiptVars, options, mempool, crashed, starts>>
    PROVE  ExecInv'
<1>1. /\ task \in [Runs -> [Steps -> TaskStates]] /\ task[r][i] \in TaskStates
      /\ hired \in [Runs -> [Steps -> SUBSET Nat]] /\ starts \in Nat
  BY DEF ExecInv, WorkTypeOK
<1>2. UNCHANGED proc /\ task[r][i].at \in {"begun", "invoked"} /\ ~IsSubFlow(r, i)
  BY ActingRun DEF Invoke, Retry, TaskOK
<1>3. \E n \in Nat : task' = [task EXCEPT ![r][i].at = "invoked", ![r][i].attempt = n]
  <2>1. CASE Invoke(r, i)
    BY <2>1 DEF Invoke
  <2>2. CASE Retry(r, i)
    <3> DEFINE n == task[r][i].attempt + 1
               new == [task[r][i] EXCEPT !.attempt = n]
    <3>1. n \in Nat
      BY <1>1 DEF TaskStates
    <3>2. task[r][i].at = "invoked" /\ task' = [task EXCEPT ![r][i].attempt = n]
      BY <2>2 DEF Retry
    <3>3. \A t \in TaskStates : t.at = "invoked" =>
              [t EXCEPT !.attempt = n] = [t EXCEPT !.at = "invoked", !.attempt = n]
      BY DEF TaskStates
    <3>4. task' = [task EXCEPT ![r][i].at = "invoked", ![r][i].attempt = n]
      BY <1>1, <3>2, <3>3
    <3> QED
      BY <3>1, <3>4
  <2> QED
    BY <2>1, <2>2
<1>4. PICK n \in Nat : task' = [task EXCEPT ![r][i].at = "invoked", ![r][i].attempt = n]
  BY <1>3
<1> DEFINE new == [task[r][i] EXCEPT !.at = "invoked", !.attempt = n]
<1>5. task' = [task EXCEPT ![r] = [task[r] EXCEPT ![i] = new]]
  BY <1>1, <1>4
<1>6. new \in TaskStates /\ new.at = "invoked"
  <2>1. \A t \in TaskStates :
            LET u == [t EXCEPT !.at = "invoked", !.attempt = n]
            IN  u \in TaskStates /\ u.at = "invoked"
    BY DEF TaskStates
  <2> QED
    BY <1>1, <2>1
<1> HIDE DEF new
<1>7. OnlyTask(r, i) /\ task'[r][i].at = "invoked"
  BY <1>1, <1>2, <1>5, <1>6 DEF OnlyTask, Decided
<1>8. HiresThisLife(r)
  <2>1. WorksNow(r)
    BY <1>2, ActingTask
  <2>2. CASE Invoke(r, i)
    <3>1. hired' = [hired EXCEPT ![r][i] = hired[r][i] \cup {starts}]
      BY <2>2 DEF Invoke
    <3>2. hired[r][i] \cup {starts} = {starts}
      BY <2>1 DEF WorksNow
    <3> QED
      BY <1>1, <3>1, <3>2 DEF HiresThisLife
  <2>3. CASE Retry(r, i)
    BY <2>3, HiredUnchanged DEF Retry
  <2> QED
    BY <2>2, <2>3
<1>9. TaskOK(r, i)'
  <2>1. Grows /\ WorksNow(r)' /\ i \in StepsOf(r) /\ UpstreamsOk(r, i)
    BY <1>2, <1>7, <1>8, TaskLeaves, ActingTask DEF TaskOK
  <2>2. UpstreamsOk(r, i)'
    BY <2>1, GrowsUpstreams
  <2> QED
    BY <1>2, <1>7, <2>1, <2>2 DEF TaskOK, Decided
<1> QED
  BY <1>2, <1>7, <1>8, <1>9, QuietTaskKeeps

\* Storing the trace, or failing to.
LEMMA StoresKeep ==
    ASSUME ExecInv, NEW r \in Runs, NEW i \in Steps, ~crashed, StoreTrace(r, i) \/ StoreFails(r, i),
           UNCHANGED <<receiptVars, options, mempool, crashed, starts>>
    PROVE  ExecInv'
<1> DEFINE status == task[r][i].status
<1>1. /\ task \in [Runs -> [Steps -> TaskStates]] /\ task[r][i] \in TaskStates
      /\ task[r][i].at = "tracing" /\ UNCHANGED hired /\ TaskOK(r, i)
  BY ActingRun DEF ExecInv, WorkTypeOK, StoreTrace, StoreFails
<1>2. status \in Statuses /\ (status = StatusOk => Grounded(r, i))
  BY <1>1 DEF TaskOK, Decided
<1>3. ASSUME NEW at \in {"ready", "lost"}, task' = [task EXCEPT ![r][i].at = at]
      PROVE  OnlyTask(r, i) /\ HiresThisLife(r) /\ TaskOK(r, i)'
  <2> DEFINE new == [task[r][i] EXCEPT !.at = at, !.status = status]
  <2>1. [task[r][i] EXCEPT !.at = at] = new
    BY <1>1 DEF TaskStates
  <2>2. Becomes(r, i, at, status)
    BY <1>1, <1>3, <2>1 DEF Becomes
  <2> QED
    BY <1>1, <1>2, <1>3, <2>2, DecidedTaskOK DEF Decided
<1>4. CASE StoreTrace(r, i)
  <2>1. task' = [task EXCEPT ![r][i].at = "ready"] /\ UNCHANGED proc
    BY <1>4 DEF StoreTrace
  <2> QED
    BY <1>1, <1>3, <2>1, QuietTaskKeeps
<1>5. CASE StoreFails(r, i) /\ proc[r].pc # "running"
  <2>1. task' = [task EXCEPT ![r][i].at = "lost"] /\ UNCHANGED proc
    BY <1>5 DEF StoreFails
  <2> QED
    BY <1>1, <1>3, <2>1, QuietTaskKeeps
<1>6. CASE StoreFails(r, i) /\ proc[r].pc = "running"
  <2>1. task' = [task EXCEPT ![r][i].at = "lost"] /\ Goto(r, "threw")
    BY <1>6 DEF StoreFails, Throw
  <2>2. /\ proc' \in [Runs -> ProcStates] /\ proc'[r].pc = "threw" /\ ~proc'[r].awaiting
        /\ \A q \in Runs : q # r => proc'[q] = proc[q]
        /\ UNCHANGED <<proc[r].wave, proc[r].statusById>>
    BY <2>1, ActingRun, GotoMoves DEF Places
  <2>3. OnlyTask(r, i) /\ HiresThisLife(r) /\ TaskOK(r, i)'
    BY <1>3, <2>1
  <2>4. Grows /\ TasksKeep(r) /\ WorksNow(r)'
    BY <1>1, <2>3, TaskLeaves
  <2>5. Stage(r, "threw") /\ proc[r] \in ProcStates /\ ~proc[r].awaiting /\ AwaitedFits(r)
    BY <1>6, ActingRun, Throwing DEF ChainCalls
  <2>6. Stage(r, "threw")'
    BY <2>2, <2>4, <2>5, StageKept
  <2>7. ProcOK(r)' /\ AwaitedFits(r)'
    BY <2>2, <2>5, <2>6 DEF ProcOK, AwaitedFits
  <2> QED
    BY <1>1, <2>2, <2>3, <2>7, TaskStepKeeps
<1> QED
  BY <1>4, <1>5, <1>6

\* Hiring: two runs are touched, the one that hires and the one that is hired,
\* which nobody had called in this life of the process.
LEMMA HireKeeps ==
    ASSUME ExecInv, NEW r \in Runs, NEW i \in Steps, ~crashed, Hire(r, i),
           UNCHANGED <<receiptVars, options, mempool, crashed, starts>>
    PROVE  ExecInv'
<1> DEFINE child == ChildOf[r][i]
           called == Called(proc[r].lineage \cup {r})
<1>1. /\ task \in [Runs -> [Steps -> TaskStates]] /\ task[r][i] \in TaskStates
      /\ hired \in [Runs -> [Steps -> SUBSET Nat]] /\ starts \in Nat
      /\ options.root \in Runs /\ options \in Requests
  BY RequestsNameRuns DEF ExecInv, WorkTypeOK
<1>2. /\ task[r][i].at = "begun" /\ IsSubFlow(r, i)
      /\ task' = [task EXCEPT ![r][i].at = "hiring"]
      /\ proc' = [proc EXCEPT ![child] = called]
      /\ hired' = [hired EXCEPT ![r][i] = hired[r][i] \cup {starts}]
  BY DEF Hire
<1>3. i \in StepsOf(r) /\ WorksNow(r) /\ proc[r].pc # "idle" /\ TaskOK(r, i)
  BY <1>2, ActingTask
<1>4. child \in Runs /\ child # Zero
  BY <1>2, HiredRunsAreDerived DEF IsSubFlow
<1>5. proc[child].pc = "idle"
  <2> SUFFICES ASSUME WasAskedFor(child) PROVE FALSE
    BY <1>4 DEF ExecInv
  <2>1. child # options.root
    BY <1>1, HiredRunsAreDerived
  <2>2. PICK p \in Runs, j \in Steps :
            ChildOf[p][j] = child /\ task[p][j].at \in {"hiring"} \cup Decided
    BY <2>1 DEF WasAskedFor
  <2>3. p = r /\ j = i
    BY <1>4, <2>2, HiredRunsAreDerived
  <2> QED
    BY <1>2, <2>2, <2>3 DEF Decided
<1>6. child # r
  BY <1>3, <1>5
<1> HIDE DEF child
<1>7. /\ proc \in [Runs -> ProcStates] /\ called \in ProcStates /\ Fresh(called)
      /\ called.pc = "check"
  <2>1. proc \in [Runs -> ProcStates] /\ proc[r].lineage \cup {r} \in SUBSET Runs
    BY ActingRun DEF ProcStates
  <2> QED
    BY <2>1, FreshStates
<1> HIDE DEF called
<1>8. /\ proc' \in [Runs -> ProcStates] /\ proc'[child] = called
      /\ \A q \in Runs : q # child => proc'[q] = proc[q]
  BY <1>2, <1>4, <1>7
<1>9. OnlyTask(r, i) /\ task'[r][i].at = "hiring"
  <2> DEFINE new == [task[r][i] EXCEPT !.at = "hiring"]
  <2>1. task' = [task EXCEPT ![r] = [task[r] EXCEPT ![i] = new]]
    BY <1>1, <1>2
  <2>2. new \in TaskStates /\ new.at = "hiring"
    BY <1>1 DEF TaskStates
  <2> HIDE DEF new
  <2> QED
    BY <1>1, <2>1, <2>2 DEF OnlyTask
<1>10. HiresThisLife(r)
  <2>1. hired[r][i] \cup {starts} = {starts}
    BY <1>3 DEF WorksNow
  <2> QED
    BY <1>1, <1>2, <2>1 DEF HiresThisLife
<1>11. /\ Grows /\ TasksKeep(r) /\ HiresKept /\ WorksNow(r)' /\ ChainOK(r)'
       /\ \A j \in Steps : j # i => TaskOK(r, j)'
  BY <1>2, <1>9, <1>10, TaskLeaves
<1>12. MempoolKept /\ AwaitedOnce' /\ \A q \in Runs : AwaitsNoMore(q)
  BY MempoolUnchanged
<1>13. RunOK(r)'
  <2>1. TaskOK(r, i)'
    <3>1. UpstreamsOk(r, i)'
      BY <1>2, <1>3, <1>11, GrowsUpstreams DEF TaskOK
    <3> QED
      BY <1>2, <1>3, <1>9, <1>11, <3>1 DEF TaskOK, Decided
  <2>2. ProcOK(r)' /\ AwaitedFits(r)'
    BY <1>6, <1>8, <1>11, <1>12, ActingRun, ProcKept, AwaitedKept
  <2> QED
    BY <1>11, <2>1, <2>2 DEF RunOK
<1>14. RunOK(child)'
  <2>1. ChainOK(child)'
    <3>1. /\ ChainOK(child) /\ hired'[child] = hired[child]
          /\ UNCHANGED <<runs[child], steps[child], seals[child]>>
      BY <1>4, <1>6, <1>10, ActingRun DEF HiresThisLife, receiptVars
    <3> QED
      BY <1>4, <1>11, <3>1, ChainKept DEF ChainOK
  <2>2. Stage(child, "idle") /\ ~proc[child].awaiting /\ AwaitedFits(child)
    BY <1>4, <1>5, ActingRun DEF ChainCalls
  <2>3. \A j \in Steps : task'[child][j].at = "idle"
    BY <1>4, <1>6, <1>9, <2>2 DEF OnlyTask, Stage, Before, Untouched
  <2>4. (Fresh(proc[child]) /\ proc[child].pc \in {"idle", "check"})'
    BY <1>7, <1>8 DEF Fresh
  <2>5. FreshRunsOK'
    BY FreshRunOK, PTL
  <2>6. ProcOK(child)' /\ \A j \in Steps : TaskOK(child, j)'
    BY <1>4, <2>3, <2>4, <2>5 DEF FreshRunsOK
  <2>7. AwaitedFits(child)'
    BY <2>2 DEF AwaitedFits
  <2> QED
    BY <2>1, <2>6, <2>7 DEF RunOK
<1>15. WasAskedFor(child)'
  BY <1>9 DEF WasAskedFor, child
<1> DEFINE Q == {r, child}
<1>16. /\ Q \in SUBSET Runs /\ \A q \in Q : RunOK(q)'
       /\ \A q \in Q : proc[q].pc # "idle" \/ WasAskedFor(q)'
       /\ \A q \in Runs \ Q : Aside(q)
  BY <1>3, <1>4, <1>8, <1>9, <1>10, <1>12, <1>13, <1>14, <1>15
     DEF Aside, receiptVars, OnlyTask, HiresThisLife
<1>17. ReceiptsTypeOK' /\ WorkTypeOK' /\ ~crashed'
  BY <1>8, <1>9, <1>10
     DEF ExecInv, ReceiptsTypeOK, RegistryTypeOK, receiptVars, WorkTypeOK, OnlyTask, HiresThisLife
<1> HIDE DEF Q
<1> QED
  BY <1>11, <1>12, <1>16, <1>17, Assemble

LEMMA TaskStepKeepsInv ==
    ASSUME ExecInv, NEW r \in Runs, NEW i \in Steps, TaskStep(r, i)
    PROVE  ExecInv'
BY DecidesKeeps, InvokesKeep, StoresKeep, HireKeeps DEF TaskStep

-----------------------------------------------------------------------------
\* A transaction is mined.  What each call does to the chain:
LEMMA ExecutedCall ==
    ASSUME ExecInv, NEW tx \in TxStates, SaysTheTruth(tx), Passes(tx), Executes(tx),
           UNCHANGED hired
    PROVE  /\ Grows /\ ReceiptsTypeOK' /\ ChainOK(tx.run)'
           /\ \A q \in Runs : q # tx.run => UNCHANGED <<runs[q], steps[q], seals[q]>>
           /\ tx.op = "start" => ~IsStarted(tx.run) /\ IsStarted(tx.run)'
           /\ tx.op = "anchor" => AnchoredWith(tx.run, tx.index, tx.value)'
           /\ tx.op = "seal" => IsSealed(tx.run)'
<1> DEFINE r == tx.run
           f == FlowOf[r]
<1>1. /\ r \in Runs /\ f \in Flows /\ tx.value \in Statuses /\ ChainOK(r)
      /\ tx.op \in ChainCalls
  BY ExecutorBounds, ActingRun DEF TxStates
<1>0. \A q \in Runs : \A i \in Steps : hired'[q][i] = {} \/ \E n \in Nat : hired'[q][i] = {n}
  BY DEF ExecInv, RunOK, ChainOK
<1>2. /\ ReceiptsTypeOK /\ hired \in [Runs -> [Steps -> SUBSET Nat]]
      /\ flowOwner \in [Flows -> Accounts \cup {Zero}]
      /\ runs \in [Runs -> [flow : Flows, executor : Accounts] \cup {NoRun}]
      /\ steps \in [Runs -> [Steps -> StepStates]]
      /\ seals \in [Runs -> [stepCount : 0 .. CountModulus - 1, outcome : Statuses, sealed : BOOLEAN]]
      /\ anchoredCount \in [Runs -> 0 .. CountModulus - 1]
  BY DEF ExecInv, WorkTypeOK, ReceiptsTypeOK, RegistryTypeOK
<1> HIDE DEF r, f
<1>3. CASE tx.op = "publish" /\ PublishFlow(Worker, f) /\ UNCHANGED <<steps, anchoredCount, seals>>
  <2>1. UNCHANGED <<runs, steps, anchoredCount, seals>>
    BY <1>3 DEF PublishFlow
  <2>2. ReceiptsTypeOK'
    BY <1>1, <1>2, <1>3, WorkerIsAnAccount DEF ReceiptsTypeOK, RegistryTypeOK, PublishFlow
  <2>3. Grows
    BY <2>1 DEF Grows, IsStarted
  <2>4. ChainOK(r)'
    BY <1>0, <1>1, <2>1, <2>3, ChainKept
  <2> QED
    BY <1>3, <2>1, <2>2, <2>3, <2>4 DEF r
<1>4. CASE tx.op = "start" /\ StartRun(f, r, Worker) /\ UNCHANGED <<steps, anchoredCount, seals>>
  <2>1. ~IsStarted(r) /\ UNCHANGED <<flowOwner, steps, anchoredCount, seals>>
    BY <1>4 DEF StartRun, CanStartRun
  <2>2. /\ runs' = [runs EXCEPT ![r] = [flow |-> f, executor |-> Worker]]
        /\ [flow |-> f, executor |-> Worker] \in [flow : Flows, executor : Accounts]
    BY <1>1, <1>4, WorkerIsAnAccount DEF StartRun
  <2>3. IsStarted(r)'
    BY <1>1, <1>2, <2>2, WorkerIsAnAccount, ZeroIsNoId DEF IsStarted, NoRun
  <2>4. \A q \in Runs : q # r => runs'[q] = runs[q]
    BY <1>2, <2>2
  <2>5. ReceiptsTypeOK'
    BY <1>1, <1>2, <2>1, <2>2 DEF ReceiptsTypeOK, RegistryTypeOK
  <2>6. Grows
    BY <2>1, <2>4 DEF Grows, IsStarted
  <2>7. \A i \in Steps : IsAnchored(r, i)' = IsAnchored(r, i)
    BY <2>1 DEF IsAnchored
  <2>8. \A i \in Steps : ~IsAnchored(r, i)
    BY <1>1, <2>1 DEF ChainOK
  <2>9. AnchoredSteps(r)' = {} /\ StepsOf(r) \subseteq Steps
    BY <1>1, <2>7, <2>8, RunPlanned DEF AnchoredSteps
  <2>10. ~IsSealed(r)'
    <3>1. IsSealed(r) => \A i \in StepsOf(r) : IsAnchored(r, i)
      BY <1>1 DEF ChainOK, Complete
    <3>2. 0 \in StepsOf(r)
      BY <1>1, RunPlanned, NumStepsAssumption DEF StepsOf
    <3> QED
      BY <2>1, <2>8, <2>9, <3>1, <3>2 DEF IsSealed
  <2>11. ChainOK(r)'
    BY <1>0, <1>1, <2>3, <2>7, <2>8, <2>9, <2>10 DEF ChainOK, AnchoredWith
  <2> QED
    BY <1>4, <2>1, <2>3, <2>4, <2>5, <2>6, <2>11 DEF r
<1>5. CASE tx.op = "seal" /\ SealRun(Worker, r, tx.index, tx.value)
  <2>1. /\ ~IsSealed(r) /\ IsStarted(r) /\ UNCHANGED <<flowOwner, runs, steps, anchoredCount>>
        /\ tx.index = anchoredCount[r]
        /\ seals' = [seals EXCEPT ![r] =
               [stepCount |-> tx.index, outcome |-> tx.value, sealed |-> TRUE]]
    BY <1>5 DEF SealRun, CanSeal, IsExecutor
  <2>2. /\ IsSealed(r)' /\ seals'[r].outcome = tx.value
        /\ \A q \in Runs : q # r => seals'[q] = seals[q]
    BY <1>1, <1>2, <2>1 DEF IsSealed
  <2>3. ReceiptsTypeOK'
    BY <1>1, <1>2, <2>1 DEF ReceiptsTypeOK, RegistryTypeOK
  <2>4. Grows
    BY <2>1, <2>2 DEF Grows, IsStarted
  <2>5. Complete(r) /\ tx.value = Outcome(r)
    BY <1>5 DEF SaysTheTruth, r
  <2>6. Complete(r)' /\ Outcome(r)' = Outcome(r)
    BY <1>1, <2>4, <2>5, GrowsOutcome
  <2>7. /\ IsStarted(r)' = IsStarted(r) /\ AnchoredSteps(r)' = AnchoredSteps(r)
        /\ \A i \in Steps : IsAnchored(r, i)' = IsAnchored(r, i)
        /\ \A i \in StepsOf(r) : AnchoredWith(r, i, StatusOk)' = AnchoredWith(r, i, StatusOk)
    BY <2>1 DEF IsStarted, AnchoredSteps, AnchoredWith, IsAnchored
  <2>8. \A i \in StepsOf(r) : AnchoredWith(r, i, StatusOk)' => Grounded(r, i)'
    BY <1>1, <2>4, <2>7, GrowsGrounded DEF ChainOK
  <2>9. ChainOK(r)'
    BY <1>0, <1>1, <2>1, <2>2, <2>5, <2>6, <2>7, <2>8 DEF ChainOK
  <2> QED
    BY <1>5, <2>1, <2>2, <2>3, <2>4, <2>9 DEF r
<1>6. CASE tx.op = "anchor" /\ \E agent \in AgentIds, work \in Works :
               AnchorStep(Worker, r, tx.index, f, tx.value, agent, work, TRUE)
  <2>1. PICK agent \in AgentIds, work \in Works :
            AnchorStep(Worker, r, tx.index, f, tx.value, agent, work, TRUE)
    BY <1>6
  <2> DEFINE i == tx.index
             state == [statusPlusOne |-> tx.value + 1, agent |-> agent, work |-> work]
  <2>2. i \in StepsOf(r) /\ i \in Steps
    BY <1>1, <1>6, RunPlanned DEF SaysTheTruth, r
  <2>3. /\ IsStarted(r) /\ ~IsSealed(r) /\ ~IsAnchored(r, i)
        /\ UNCHANGED <<flowOwner, runs, seals>>
        /\ steps' = [steps EXCEPT ![r][i] = state]
        /\ anchoredCount' = [anchoredCount EXCEPT ![r] = (anchoredCount[r] + 1) % CountModulus]
    BY <2>1 DEF AnchorStep, CanAnchor, IsExecutor
  <2>4. state \in StepStates /\ state.statusPlusOne # 0 /\ state.statusPlusOne - 1 = tx.value
    BY <1>1 DEF StepStates, Statuses, StatusMax
  <2> HIDE DEF i, state
  <2>5. /\ steps' \in [Runs -> [Steps -> StepStates]] /\ steps'[r][i] = state
        /\ \A j \in Steps : j # i => steps'[r][j] = steps[r][j]
        /\ \A q \in Runs : q # r => steps'[q] = steps[q]
    BY <1>1, <1>2, <2>2, <2>3, <2>4
  <2>6. (anchoredCount[r] + 1) % CountModulus \in 0 .. CountModulus - 1
    <3>1. \A n, m \in Nat : m # 0 => n % m \in 0 .. m - 1
      OBVIOUS
    <3>2. anchoredCount[r] + 1 \in Nat /\ CountModulus \in Nat /\ CountModulus # 0
      BY <1>1, <1>2, CountFits, NumStepsAssumption
    <3> QED
      BY <3>1, <3>2
  <2>7. ReceiptsTypeOK'
    BY <1>1, <1>2, <2>3, <2>5, <2>6 DEF ReceiptsTypeOK, RegistryTypeOK
  <2>8. Grows
    BY <2>3, <2>5 DEF Grows, IsStarted, IsAnchored
  <2>9. AnchoredWith(r, i, tx.value)'
    BY <2>4, <2>5 DEF AnchoredWith, IsAnchored
  <2>10. \A j \in Steps : j # i => IsAnchored(r, j)' = IsAnchored(r, j)
    BY <2>5 DEF IsAnchored
  <2>11. AnchoredSteps(r)' \subseteq StepsOf(r)
    BY <1>1, <2>2, <2>10 DEF AnchoredSteps, ChainOK
  <2>12. ASSUME NEW j \in StepsOf(r), AnchoredWith(r, j, StatusOk)' PROVE Grounded(r, j)'
    <3>1. CASE j = i
      <4>1. tx.value = StatusOk
        BY <2>9, <2>12, <3>1 DEF AnchoredWith
      <4>2. Grounded(r, i)
        BY <1>6, <4>1 DEF SaysTheTruth, r, i
      <4> QED
        BY <1>1, <2>2, <2>8, <3>1, <4>2, GrowsGrounded
    <3>2. CASE j # i
      <4>1. AnchoredWith(r, j, StatusOk)
        BY <1>1, <2>5, <2>12, <3>2, RunPlanned DEF AnchoredWith, IsAnchored
      <4> QED
        BY <1>1, <2>8, <4>1, GrowsGrounded DEF ChainOK
    <3> QED
      BY <3>1, <3>2
  <2>13. IsStarted(r)' /\ ~IsSealed(r)'
    BY <2>3 DEF IsStarted, IsSealed
  <2>14. ChainOK(r)'
    BY <1>0, <1>1, <2>11, <2>12, <2>13 DEF ChainOK
  <2>15. \A q \in Runs : q # r => UNCHANGED <<runs[q], steps[q], seals[q]>>
    BY <2>3, <2>5
  <2> QED
    BY <1>6, <2>7, <2>8, <2>9, <2>14, <2>15 DEF r, i
<1> QED
  BY <1>3, <1>4, <1>5, <1>6 DEF Executes, r, f

\* The next transaction leaves the mempool, and nobody waits for it any more.
LEMMA MinedPool ==
    ASSUME ExecInv, mempool # <<>>, mempool' = Tail(mempool)
    PROVE  LET tx == Head(mempool)
           IN  /\ tx \in TxStates /\ SaysTheTruth(tx) /\ tx.run \in Runs
               /\ mempool' \in Seq(TxStates) /\ MempoolKept /\ AwaitedOnce'
               /\ \A q \in Runs : AwaitsNoMore(q)
               /\ tx.awaited => /\ \A k \in DOMAIN mempool' :
                                       ~(mempool'[k].awaited /\ mempool'[k].run = tx.run)
                                /\ proc[tx.run].awaiting /\ proc[tx.run].pc = tx.op
                                /\ tx.op = "anchor" =>
                                     /\ tx.index = Min(Unrecorded(tx.run))
                                     /\ tx.value = task[tx.run][tx.index].status
<1> DEFINE tx == mempool[1]
<1>1. mempool \in Seq(TxStates)
  BY DEF ExecInv, WorkTypeOK
<1>2. /\ Head(mempool) = tx /\ 1 \in DOMAIN mempool /\ tx \in TxStates
      /\ mempool' \in Seq(TxStates)
      /\ \A k \in DOMAIN mempool' : k + 1 \in DOMAIN mempool /\ mempool'[k] = mempool[k + 1]
      /\ \A k \in DOMAIN mempool' : k \in Nat /\ k + 1 # 1
  BY <1>1
<1>3. SaysTheTruth(tx) /\ tx.run \in Runs
  BY <1>2 DEF ExecInv, TxStates
<1>4. MempoolKept
  BY <1>2 DEF MempoolKept, SameCall
<1>5. AwaitedOnce'
  <2> SUFFICES ASSUME NEW j \in DOMAIN mempool', NEW k \in DOMAIN mempool',
                      mempool'[j].awaited, mempool'[k].awaited, mempool'[j].run = mempool'[k].run
               PROVE  j = k
    BY DEF AwaitedOnce
  <2>1. j + 1 = k + 1
    BY <1>2 DEF ExecInv, AwaitedOnce
  <2> QED
    BY <1>2, <2>1
<1>6. \A q \in Runs : AwaitsNoMore(q)
  BY <1>2 DEF AwaitsNoMore
<1>7. \A k \in DOMAIN mempool' : tx.awaited => ~(mempool'[k].awaited /\ mempool'[k].run = tx.run)
  BY <1>2 DEF ExecInv, AwaitedOnce
<1>8. AwaitedFits(tx.run)
  BY <1>3, ActingRun
<1>9. tx.awaited => /\ proc[tx.run].awaiting /\ proc[tx.run].pc = tx.op
                    /\ tx.op = "anchor" =>
                         /\ tx.index = Min(Unrecorded(tx.run))
                         /\ tx.value = task[tx.run][tx.index].status
  BY <1>2, <1>8 DEF AwaitedFits
<1> HIDE DEF tx
<1> QED
  BY <1>2, <1>3, <1>4, <1>5, <1>6, <1>7, <1>9

\* What a run waited for has happened: it may go on.
LEMMA MayGoOn ==
    ASSUME ExecInv, NEW tx \in TxStates, SaysTheTruth(tx), Passes(tx), Executes(tx),
           proc[tx.run].pc = tx.op,
           tx.op = "anchor" => /\ tx.index = Min(Unrecorded(tx.run))
                               /\ tx.value = task[tx.run][tx.index].status,
           UNCHANGED <<task, starts, hired, proc[tx.run].wave, proc[tx.run].statusById>>
    PROVE  Stage(tx.run, After(tx.op))' /\ After(tx.op) \in Places
<1> DEFINE r == tx.run
<1>1. /\ r \in Runs /\ tx.op \in ChainCalls
      /\ proc[r] \in ProcStates /\ Stage(r, tx.op) /\ ChainOK(r)
  BY ActingRun DEF TxStates
<1>2. /\ Grows
      /\ tx.op = "start" => ~IsStarted(r) /\ IsStarted(r)'
      /\ tx.op = "anchor" => AnchoredWith(r, tx.index, tx.value)'
      /\ tx.op = "seal" => IsSealed(r)'
  BY ExecutedCall
<1> HIDE DEF r
<1>3. TasksKeep(r) /\ (WorksNow(r) => WorksNow(r)')
  BY <1>1, <1>2, WorksKept DEF TasksKeep
<1>4. UNCHANGED <<proc[r].wave, proc[r].statusById>>
  BY DEF r
<1>5. ASSUME NEW pc, Stage(r, pc) PROVE Stage(r, pc)'
  BY <1>1, <1>2, <1>3, <1>4, <1>5, StageKept
<1>6. proc[r].wave \in 1 .. NumSteps + 1 /\ WaveOf(r)' = WaveOf(r) /\ WaveOf(r) \subseteq Steps
  BY <1>1, <1>4, WaveSteps DEF ProcStates, WaveOf
<1>7. CASE tx.op = "publish"
  <2>1. Stage(r, "start")
    BY <1>1, <1>7 DEF Stage, Before, InWave, Finished, Going
  <2> QED
    BY <1>5, <1>7, <2>1 DEF After, Places, r
<1>8. CASE tx.op = "start"
  <2>1. Stage(r, "start")'
    BY <1>1, <1>5, <1>8
  <2>2. proc'[r].wave = 1 /\ \A i \in Steps : Untouched(r, i)'
    BY <2>1 DEF Stage, Before
  <2>3. WorksNow(r)'
    <3>1. \A i \in Steps : hired[r][i] = {}
      BY <1>1, <1>2, <1>8 DEF ChainOK
    <3> QED
      BY <1>2, <1>8, <3>1 DEF WorksNow
  <2>4. \A k \in 1 .. NumSteps + 1 : PlannedWaves[r][k] \subseteq Steps
    BY <1>1, WaveFacts, RunPlanned
  <2>5. /\ 1 .. proc'[r].wave - 1 = {} /\ proc'[r].wave + 1 .. NumSteps + 1 \subseteq 1 .. NumSteps + 1
    BY <2>2, NumStepsAssumption
  <2>6. Stage(r, "wave")'
    BY <1>6, <2>1, <2>2, <2>3, <2>4, <2>5 DEF Stage, Before, InWave, Finished, Going
  <2> QED
    BY <1>8, <2>6 DEF After, Places, r
<1>9. CASE tx.op = "anchor"
  <2>1. Stage(r, "anchor")'
    BY <1>1, <1>5, <1>9
  <2>2. /\ Unrecorded(r)' = Unrecorded(r) /\ tx.index = Min(Unrecorded(r))
        /\ tx.value = task[r][tx.index].status
    BY <1>4, <1>6, <1>9 DEF Unrecorded, r
  <2>3. AnchoredWith(r, Min(Unrecorded(r)), task[r][Min(Unrecorded(r))].status)'
    BY <1>2, <1>9, <2>2
  <2>4. Stage(r, "settle")'
    BY <2>1, <2>3 DEF Stage, Before, InWave, Finished, Going
  <2> QED
    BY <1>9, <2>4 DEF After, Places, r
<1>10. CASE tx.op = "seal"
  <2>1. Stage(r, "seal")'
    BY <1>1, <1>5, <1>10
  <2>2. Stage(r, "done")'
    BY <1>2, <1>10, <2>1 DEF Stage, Before, InWave, Finished, Going
  <2> QED
    BY <1>10, <2>2 DEF After, Places, r
<1> QED
  BY <1>1, <1>7, <1>8, <1>9, <1>10 DEF ChainCalls

\* The chain after a transaction was mined, or reverted.
LEMMA MinedCall ==
    ASSUME ExecInv, NEW tx \in TxStates, SaysTheTruth(tx), UNCHANGED hired,
           IF Passes(tx) THEN Executes(tx) ELSE UNCHANGED receiptVars
    PROVE  /\ Grows /\ ReceiptsTypeOK' /\ ChainOK(tx.run)'
           /\ \A q \in Runs : q # tx.run => UNCHANGED <<runs[q], steps[q], seals[q]>>
<1>1. CASE Passes(tx)
  BY <1>1, ExecutedCall
<1>2. CASE ~Passes(tx)
  <2>1. UNCHANGED receiptVars /\ Grows /\ tx.run \in Runs /\ ChainOK(tx.run)
    BY <1>2, UnchangedGrows, ActingRun DEF TxStates
  <2>2. ReceiptsTypeOK'
    BY <2>1 DEF ExecInv, ReceiptsTypeOK, RegistryTypeOK, receiptVars
  <2>3. UNCHANGED <<runs, steps, seals>>
    BY <2>1 DEF receiptVars
  <2>4. ChainOK(tx.run)'
    BY <2>1, <2>3, ChainKept DEF ChainOK
  <2> QED
    BY <2>1, <2>2, <2>3, <2>4
<1> QED
  BY <1>1, <1>2

LEMMA MineKeeps ==
    ASSUME ExecInv, Mine
    PROVE  ExecInv'
<1>0. PICK tx \in TxStates, r \in Runs : tx = Head(mempool) /\ r = tx.run
  BY MinedPool DEF Mine
<1>1. /\ mempool # <<>> /\ mempool' = Tail(mempool)
      /\ IF Passes(tx) THEN Executes(tx) ELSE UNCHANGED receiptVars
      /\ IF tx.awaited
         THEN IF Passes(tx) THEN Goto(r, After(tx.op)) ELSE Throw(r)
         ELSE UNCHANGED proc
      /\ UNCHANGED <<options, task, crashed, starts, hired>>
  BY <1>0 DEF Mine
<1>2. /\ tx \in TxStates /\ SaysTheTruth(tx) /\ r \in Runs
      /\ mempool' \in Seq(TxStates) /\ MempoolKept /\ AwaitedOnce'
      /\ \A q \in Runs : AwaitsNoMore(q)
      /\ tx.awaited => /\ \A k \in DOMAIN mempool' :
                              ~(mempool'[k].awaited /\ mempool'[k].run = r)
                       /\ proc[r].awaiting /\ proc[r].pc = tx.op
                       /\ tx.op = "anchor" =>
                            /\ tx.index = Min(Unrecorded(r))
                            /\ tx.value = task[r][tx.index].status
  BY <1>0, <1>1, MinedPool
<1>3. /\ Grows /\ ReceiptsTypeOK' /\ ChainOK(r)'
      /\ \A q \in Runs : q # r => UNCHANGED <<runs[q], steps[q], seals[q]>>
  BY <1>0, <1>1, <1>2, MinedCall
<1>4. /\ proc \in [Runs -> ProcStates] /\ proc[r] \in ProcStates /\ tx.op \in ChainCalls
      /\ ProcOK(r) /\ Stage(r, proc[r].pc) /\ AwaitedFits(r) /\ \A i \in Steps : TaskOK(r, i)
  BY <1>2, ActingRun DEF TxStates
<1>5. \A q \in Runs : TasksKeep(q) /\ (WorksNow(q) => WorksNow(q)')
  BY <1>1, <1>3, WorksKept DEF TasksKeep
<1>6. \A i \in Steps : TaskOK(r, i)'
  BY <1>1, <1>2, <1>3, <1>4, <1>5, TaskKept
<1>7. /\ proc' \in [Runs -> ProcStates] /\ ProcOK(r)' /\ AwaitedFits(r)'
      /\ \A q \in Runs : q # r => proc'[q] = proc[q]
      /\ proc'[r].pc = "idle" \/ proc[r].pc # "idle" \/ WasAskedFor(r)'
      /\ crashed' => crashed /\ UNCHANGED <<proc, task>>
  <2>1. CASE ~tx.awaited
    <3>1. UNCHANGED proc
      BY <1>1, <2>1
    <3>2. ProcOK(r)' /\ AwaitedFits(r)'
      BY <1>2, <1>3, <1>4, <1>5, <3>1, ProcKept, AwaitedKept
    <3> QED
      BY <1>1, <1>4, <3>1, <3>2
  <2>2. CASE tx.awaited
    <3>1. ~crashed
      <4>1. crashed => ~proc[r].awaiting
        BY <1>2 DEF ExecInv, NotCalled
      <4> QED
        BY <1>2, <2>2, <4>1
    <3>2. AwaitedFits(r)'
      BY <1>2, <2>2 DEF AwaitedFits
    <3>3. ASSUME NEW pc \in Places, Goto(r, pc),
                 UNCHANGED <<proc[r].wave, proc[r].statusById>> => Stage(r, pc)'
          PROVE  /\ proc' \in [Runs -> ProcStates] /\ ProcOK(r)'
                 /\ \A q \in Runs : q # r => proc'[q] = proc[q]
      <4>1. /\ proc' \in [Runs -> ProcStates]
            /\ \A q \in Runs : q # r => proc'[q] = proc[q]
            /\ proc'[r].pc = pc /\ ~proc'[r].awaiting
            /\ UNCHANGED <<proc[r].wave, proc[r].statusById>>
        BY <1>2, <1>4, <3>3, GotoMoves
      <4> QED
        BY <3>3, <4>1 DEF ProcOK
    <3>4. CASE Passes(tx)
      <4>1. Goto(r, After(tx.op)) /\ Executes(tx)
        BY <1>1, <2>2, <3>4
      <4>2. After(tx.op) \in Places
        BY <1>4 DEF After, Places, ChainCalls
      <4>3. UNCHANGED <<proc[r].wave, proc[r].statusById>> => Stage(r, After(tx.op))'
        BY <1>0, <1>1, <1>2, <2>2, <3>4, <4>1, MayGoOn
      <4> QED
        BY <1>1, <1>2, <1>4, <2>2, <3>1, <3>2, <3>3, <4>1, <4>2, <4>3 DEF ChainCalls
    <3>5. CASE ~Passes(tx)
      <4>1. Goto(r, "threw") /\ "threw" \in Places
        BY <1>1, <2>2, <3>5 DEF Throw, Places
      <4>2. Stage(r, "threw")
        BY <1>2, <1>4, Throwing
      <4>3. UNCHANGED <<proc[r].wave, proc[r].statusById>> => Stage(r, "threw")'
        BY <1>2, <1>3, <1>4, <1>5, <4>2, StageKept
      <4> QED
        BY <1>1, <1>2, <1>4, <2>2, <3>1, <3>2, <3>3, <4>1, <4>3 DEF ChainCalls
    <3> QED
      BY <3>4, <3>5
  <2> QED
    BY <2>1, <2>2
<1>8. RunOK(r)'
  BY <1>3, <1>6, <1>7 DEF RunOK
<1>9. WorkTypeOK'
  BY <1>1, <1>2, <1>7 DEF ExecInv, WorkTypeOK
<1> DEFINE Q == {r}
<1>10. /\ Q \in SUBSET Runs /\ \A q \in Q : RunOK(q)'
       /\ \A q \in Q : proc'[q].pc = "idle" \/ proc[q].pc # "idle" \/ WasAskedFor(q)'
       /\ \A q \in Runs \ Q : Aside(q)
  <2>1. \A q \in Runs : q # r => Aside(q)
    BY <1>1, <1>2, <1>3, <1>7 DEF Aside
  <2> QED
    BY <1>2, <1>7, <1>8, <2>1
<1>11. HiresKept
  BY <1>1 DEF HiresKept
<1> HIDE DEF Q
<1> QED
  BY <1>1, <1>2, <1>3, <1>7, <1>9, <1>10, <1>11, Assemble

-----------------------------------------------------------------------------
\* The process dies, is started again, and others use the registry.

\* What a life of the process leaves behind when all its local state is lost.
LEMMA FreshStart ==
    ASSUME ExecInv, UNCHANGED <<receiptVars, options, hired>>, WorkTypeOK',
           \A r \in Runs : /\ Fresh(proc'[r]) /\ proc'[r].pc \in {"idle", "check"}
                           /\ proc'[r].pc # "idle" => r = options'.root
                           /\ \A i \in Steps : task'[r][i].at = "idle",
           crashed' => \A r \in Runs : proc'[r] = NotCalled /\ \A i \in Steps : task'[r][i] = NoTask,
           \A k \in DOMAIN mempool' : ~mempool'[k].awaited,
           MempoolKept
    PROVE  ExecInv'
<1>1. Grows /\ ReceiptsTypeOK'
  BY UnchangedGrows DEF ExecInv, ReceiptsTypeOK, RegistryTypeOK, receiptVars
<1>2. ASSUME NEW r \in Runs PROVE RunOK(r)'
  <2>1. ChainOK(r)'
    <3>1. ChainOK(r) /\ UNCHANGED <<runs[r], steps[r], seals[r]>> /\ hired'[r] = hired[r]
      BY ActingRun DEF receiptVars
    <3> QED
      BY <1>1, <3>1, ChainKept DEF ChainOK
  <2>2. ProcOK(r)' /\ \A i \in Steps : TaskOK(r, i)'
    <3>1. FreshRunsOK'
      BY FreshRunOK, PTL
    <3>2. Fresh(proc[r])'
      BY DEF Fresh
    <3> QED
      BY <3>1, <3>2 DEF FreshRunsOK
  <2>3. AwaitedFits(r)'
    BY DEF AwaitedFits
  <2> QED
    BY <2>1, <2>2, <2>3 DEF RunOK
<1>3. ASSUME NEW k \in DOMAIN mempool' PROVE SaysTheTruth(mempool[k])'
  <2> SUFFICES ASSUME NEW j \in DOMAIN mempool, SameCall(mempool'[k], mempool[j])
               PROVE  SaysTheTruth(mempool[k])'
    BY DEF MempoolKept
  <2> DEFINE tx == mempool'[k]
             old == mempool[j]
  <2>1. tx \in TxStates /\ old \in TxStates
    BY DEF ExecInv, WorkTypeOK
  <2>2. SaysTheTruth(old)
    BY DEF ExecInv
  <2> QED
    BY <1>1, <2>1, <2>2, TruthKept
<1>4. AwaitedOnce'
  BY DEF AwaitedOnce
<1>5. \A r \in Runs : proc'[r].pc # "idle" => WasAskedFor(r)'
  BY DEF WasAskedFor
<1> QED
  BY <1>1, <1>2, <1>3, <1>4, <1>5 DEF ExecInv

LEMMA CrashKeeps ==
    ASSUME ExecInv, Crash
    PROVE  ExecInv'
<1>1. /\ mempool \in Seq(TxStates) /\ starts \in Nat
      /\ \A k \in DOMAIN mempool : mempool[k] \in TxStates
  BY DEF ExecInv, WorkTypeOK
<1>2. \A t \in TxStates : /\ [t EXCEPT !.awaited = FALSE] \in TxStates
                          /\ ~[t EXCEPT !.awaited = FALSE].awaited
                          /\ SameCall([t EXCEPT !.awaited = FALSE], t)
  BY DEF TxStates, SameCall
<1>3. /\ proc' = [r \in Runs |-> NotCalled] /\ crashed' = TRUE
      /\ task' = [r \in Runs |-> [i \in Steps |-> NoTask]]
      /\ mempool' = [k \in DOMAIN mempool |-> [mempool[k] EXCEPT !.awaited = FALSE]]
      /\ UNCHANGED <<receiptVars, options, starts, hired>>
  BY DEF Crash
<1>4. /\ DOMAIN mempool' = DOMAIN mempool
      /\ \A k \in DOMAIN mempool' : /\ mempool'[k] \in TxStates /\ ~mempool'[k].awaited
                                    /\ SameCall(mempool'[k], mempool[k])
  BY <1>1, <1>2, <1>3
<1>5. mempool' \in Seq(TxStates)
  <2>1. DOMAIN mempool = 1 .. Len(mempool) /\ Len(mempool) \in Nat
    BY <1>1
  <2>2. mempool' \in [1 .. Len(mempool) -> TxStates]
    BY <1>3, <1>4, <2>1
  <2> QED
    BY <2>1, <2>2, SeqDef
<1>6. /\ proc' \in [Runs -> ProcStates]
      /\ task' \in [Runs -> [Steps -> TaskStates]]
  BY <1>3, FreshStates
<1>7. WorkTypeOK'
  BY <1>3, <1>5, <1>6 DEF ExecInv, WorkTypeOK
<1>8. MempoolKept
  BY <1>4 DEF MempoolKept
<1>9. \A r \in Runs : /\ Fresh(proc'[r]) /\ proc'[r].pc \in {"idle", "check"}
                      /\ proc'[r].pc # "idle" => r = options'.root
                      /\ \A i \in Steps : task'[r][i].at = "idle"
  BY <1>3, FreshStates
<1>10. \A r \in Runs : proc'[r] = NotCalled /\ \A i \in Steps : task'[r][i] = NoTask
  BY <1>3
<1> QED
  BY <1>3, <1>4, <1>7, <1>8, <1>9, <1>10, FreshStart

LEMMA RestartKeeps ==
    ASSUME ExecInv, Restart
    PROVE  ExecInv'
<1>1. /\ proc \in [Runs -> ProcStates] /\ starts \in Nat /\ options.root \in Runs
      /\ \A r \in Runs : proc[r] = NotCalled /\ \A i \in Steps : task[r][i] = NoTask
      /\ mempool \in Seq(TxStates)
  BY RequestsNameRuns DEF ExecInv, WorkTypeOK, Restart
<1>2. /\ crashed' = FALSE /\ starts' = starts + 1
      /\ proc' = [proc EXCEPT ![options.root] = Called({})]
      /\ UNCHANGED <<receiptVars, options, task, mempool, hired>>
  BY DEF Restart
<1>3. Called({}) \in ProcStates /\ Fresh(Called({})) /\ Called({}).pc = "check"
  BY FreshStates
<1>4. /\ proc' \in [Runs -> ProcStates]
      /\ \A r \in Runs : proc'[r] = IF r = options.root THEN Called({}) ELSE NotCalled
  BY <1>1, <1>2, <1>3
<1>5. WorkTypeOK'
  <2>1. WorkTypeOK
    BY DEF ExecInv
  <2>2. crashed' \in BOOLEAN /\ starts' \in Nat
    <3>1. starts \in Nat /\ starts' = starts + 1 /\ crashed' = FALSE
      BY <1>1, <1>2
    <3>2. crashed' \in BOOLEAN
      BY <3>1, Zenon
    <3>3. starts' \in Nat
      BY <3>1, SMT
    <3> QED
      BY <3>2, <3>3
  <2>3. UNCHANGED <<options, task, mempool, hired>>
    BY <1>2
  <2> QED
    BY <1>4, <2>1, <2>2, <2>3 DEF WorkTypeOK
<1>6. \A k \in DOMAIN mempool : ~mempool[k].awaited
  <2> SUFFICES ASSUME NEW k \in DOMAIN mempool, mempool[k].awaited PROVE FALSE
    OBVIOUS
  <2>1. mempool[k].run \in Runs
    <3>1. mempool[k] \in TxStates
      BY <1>1
    <3> QED
      BY <3>1 DEF TxStates
  <2>2. proc[mempool[k].run].awaiting
    BY <2>1, ActingRun DEF AwaitedFits
  <2> QED
    BY <1>1, <2>1, <2>2 DEF NotCalled
<1>7. MempoolKept
  BY <1>2 DEF MempoolKept, SameCall
<1>8. \A r \in Runs : /\ Fresh(proc'[r]) /\ proc'[r].pc \in {"idle", "check"}
                      /\ proc'[r].pc # "idle" => r = options'.root
                      /\ \A i \in Steps : task'[r][i].at = "idle"
  BY <1>1, <1>2, <1>3, <1>4, FreshStates
<1> QED
  BY <1>2, <1>5, <1>6, <1>7, <1>8, FreshStart

LEMMA OthersPublishKeeps ==
    ASSUME ExecInv, OthersPublish
    PROVE  ExecInv'
<1>1. PICK caller \in Accounts, f \in Flows : PublishFlow(caller, f)
  BY ExecutorBounds DEF OthersPublish
<1>2. UNCHANGED <<runs, steps, anchoredCount, seals>> /\ UNCHANGED workVars
  BY <1>1 DEF OthersPublish, PublishFlow
<1>3. ReceiptsTypeOK'
  BY <1>1, <1>2 DEF ExecInv, ReceiptsTypeOK, RegistryTypeOK, PublishFlow
<1>4. Grows
  BY <1>2 DEF Grows, IsStarted
<1>5. WorkTypeOK'
  BY <1>2 DEF ExecInv, WorkTypeOK, workVars
<1>6. MempoolKept /\ AwaitedOnce' /\ \A q \in Runs : AwaitsNoMore(q)
  BY <1>2, MempoolUnchanged DEF workVars
<1>7. \A q \in Runs : Aside(q)
  BY <1>2, <1>6 DEF Aside, workVars
<1>8. HiresKept /\ UNCHANGED <<options, starts>> /\ (crashed' => crashed /\ UNCHANGED <<proc, task>>)
  BY <1>2 DEF HiresKept, workVars
<1> DEFINE Q == {}
<1>9. /\ Q \in SUBSET Runs /\ \A q \in Q : RunOK(q)'
      /\ \A q \in Q : proc'[q].pc = "idle" \/ proc[q].pc # "idle" \/ WasAskedFor(q)'
      /\ \A q \in Runs \ Q : Aside(q)
  BY <1>7
<1> HIDE DEF Q
<1> QED
  BY <1>3, <1>4, <1>5, <1>6, <1>8, <1>9, Assemble

LEMMA UnchangedKeeps ==
    ASSUME ExecInv, UNCHANGED <<receiptVars, workVars>>
    PROVE  ExecInv'
<1>1. ReceiptsTypeOK' /\ WorkTypeOK' /\ Grows
  BY UnchangedGrows
     DEF ExecInv, ReceiptsTypeOK, RegistryTypeOK, receiptVars, WorkTypeOK, workVars
<1>2. MempoolKept /\ AwaitedOnce' /\ \A q \in Runs : AwaitsNoMore(q)
  BY MempoolUnchanged DEF workVars
<1>3. \A q \in Runs : Aside(q)
  BY <1>2 DEF Aside, receiptVars, workVars
<1>4. HiresKept /\ UNCHANGED <<options, starts>> /\ (crashed' => crashed /\ UNCHANGED <<proc, task>>)
  BY DEF HiresKept, workVars
<1> DEFINE Q == {}
<1>5. /\ Q \in SUBSET Runs /\ \A q \in Q : RunOK(q)'
      /\ \A q \in Q : proc'[q].pc = "idle" \/ proc[q].pc # "idle" \/ WasAskedFor(q)'
      /\ \A q \in Runs \ Q : Aside(q)
  BY <1>3
<1> HIDE DEF Q
<1> QED
  BY <1>1, <1>2, <1>4, <1>5, Assemble

LEMMA NextExecInv == ExecInv /\ [ExecNext]_execVars => ExecInv'
<1> SUFFICES ASSUME ExecInv, [ExecNext]_execVars PROVE ExecInv'
  OBVIOUS
<1>1. CASE \E r \in Runs : RunStep(r)
  BY <1>1, RunStepKeepsInv
<1>2. CASE \E r \in Runs, i \in Steps : TaskStep(r, i)
  BY <1>2, TaskStepKeepsInv
<1>3. CASE Mine
  BY <1>3, MineKeeps
<1>4. CASE Crash
  BY <1>4, CrashKeeps
<1>5. CASE Restart
  BY <1>5, RestartKeeps
<1>6. CASE OthersPublish
  BY <1>6, OthersPublishKeeps
<1>7. CASE UNCHANGED execVars
  <2>1. UNCHANGED <<receiptVars, workVars>>
    BY <1>7 DEF execVars, receiptVars, workVars
  <2> QED
    BY <2>1, UnchangedKeeps
<1> QED
  BY <1>1, <1>2, <1>3, <1>4, <1>5, <1>6, <1>7 DEF ExecNext

LEMMA ExecInvariance == ExecSpec => []ExecInv
BY InitExecInv, NextExecInv, PTL DEF ExecSpec

-----------------------------------------------------------------------------
\* For every plan and every interleaving, whatever was given up and mined
\* late: a sealed run has a receipt for every step its flow declares, and the
\* outcome it was sealed with is the one its receipts have.
THEOREM SealedRunsAreComplete == ExecSpec => []SealTellsTheTruth
<1>1. ExecInv => SealTellsTheTruth
  <2> SUFFICES ASSUME ExecInv, NEW r \in Runs, IsSealed(r)
               PROVE  /\ AnchoredSteps(r) = StepsOf(r)
                      /\ seals[r].outcome = Outcome(r)
    BY DEF SealTellsTheTruth, Outcome
  <2>1. AnchoredSteps(r) \subseteq StepsOf(r) /\ Complete(r) /\ seals[r].outcome = Outcome(r)
    BY ActingRun DEF ChainOK
  <2>2. StepsOf(r) \subseteq AnchoredSteps(r)
    BY <2>1, RunPlanned DEF Complete, AnchoredSteps
  <2> QED
    BY <2>1, <2>2
<1> QED
  BY <1>1, ExecInvariance, PTL

\* For every plan, wide or deep: no agent is called, no sub-flow hired and no
\* receipt says ok, unless the receipts of all upstreams are on chain and say
\* ok; and what executeRun records of a step is what its receipt says.
THEOREM WorkStandsOnReceipts == ExecSpec => []WorkRestsOnReceipts
<1>1. ExecInv => WorkRestsOnReceipts
  <2> SUFFICES ASSUME ExecInv, NEW r \in Runs, NEW i \in Steps
               PROVE  /\ \/ task[r][i].at \in {"invoked", "hiring"}
                         \/ AnchoredWith(r, i, StatusOk)
                         => UpstreamsOk(r, i)
                      /\ proc[r].statusById[i] # Unknown =>
                            AnchoredWith(r, i, proc[r].statusById[i])
    BY DEF WorkRestsOnReceipts, UpstreamsOk
  <2>1. ChainOK(r) /\ TaskOK(r, i) /\ Stage(r, proc[r].pc)
    BY ActingRun
  <2>2. AnchoredWith(r, i, StatusOk) => UpstreamsOk(r, i)
    <3>1. AnchoredWith(r, i, StatusOk) => i \in StepsOf(r)
      BY <2>1 DEF ChainOK, AnchoredSteps, AnchoredWith
    <3> QED
      BY <2>1, <3>1 DEF ChainOK, Grounded
  <2>3. task[r][i].at \in {"invoked", "hiring"} => UpstreamsOk(r, i)
    BY <2>1 DEF TaskOK
  <2>4. proc[r].statusById[i] # Unknown => AnchoredWith(r, i, proc[r].statusById[i])
    BY <2>1 DEF Stage, Recorded
  <2> QED
    BY <2>2, <2>3, <2>4
<1> QED
  BY <1>1, ExecInvariance, PTL

\* For any number of crashes and restarts: at most one life of the process
\* calls the agent of a step.
THEOREM AgentsAreCalledInOneLife == ExecSpec => []OneLifeHires
<1>1. ExecInv => OneLifeHires
  <2> SUFFICES ASSUME ExecInv, NEW r \in Runs, NEW i \in Steps
               PROVE  Cardinality(hired[r][i]) <= 1
    BY DEF OneLifeHires
  <2>1. hired[r][i] = {} \/ \E n \in Nat : hired[r][i] = {n}
    BY ActingRun DEF ChainOK
  <2>2. Cardinality({}) = 0 /\ \A n : Cardinality({n}) = 1
    BY FS_EmptySet, FS_Singleton
  <2> QED
    BY <2>1, <2>2
<1> QED
  BY <1>1, ExecInvariance, PTL

\* For any depth of nesting: a receipt of a sub-flow step says ok only when
\* the run it hired is sealed with outcome ok, whichever of the two is mined
\* late.
THEOREM ParentsVouch == ExecSpec => []ParentsVouchForSealedChildren
<1>1. ExecInv => ParentsVouchForSealedChildren
  BY ActingRun DEF ParentsVouchForSealedChildren, ChainOK, Grounded
<1> QED
  BY <1>1, ExecInvariance, PTL

=============================================================================
