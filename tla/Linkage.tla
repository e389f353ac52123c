------------------------------ MODULE Linkage ------------------------------
(***************************************************************************)
(* linkage.ts and template.ts: whether the inputs of a run's steps derive, *)
(* under the templates of its flow, from the outputs of the steps they     *)
(* name.                                                                   *)
(*                                                                         *)
(* A flow is a function from step indices; a step has the set of steps its *)
(* template reads, the set it declares in `needs`, and whether the         *)
(* template reads the inputs of the run.  An index beyond the flow stands  *)
(* for a name no step has.                                                 *)
(***************************************************************************)
EXTENDS StepEvidence

\* resolveTemplates: the value of the template, a function of the outputs and
\* of the run inputs (index -1) it reads.
ResolveTemplates(step, inputs, outputs) ==
    [j \in step.reads \cup (IF step.readsInputs THEN {-1} ELSE {}) |->
        IF j = -1 THEN inputs ELSE outputs[j]]

\* The receipts of step i, and the evidence recovered from its trace.
Of(records, i) == {r \in records : r.step = i}

\* The output of step i is the one its receipt commits to.
Confirmed(evidence, receipts, i) ==
    \E e \in Of(evidence, i), r \in Of(receipts, i) :
        r.outputHash # ZeroHash /\ HashJson(e.output) = r.outputHash

\* Variant for the mutation checks: the input is taken as the receipt has it.
StepLinks_AnyInput(flow, inputs, evidence, receipts, i) ==
    \E r \in Of(receipts, i) : StatusSucceeded(r.status) => r.outputHash # ZeroHash

\* verifyLinkage, one step.
StepLinks(flow, inputs, evidence, receipts, i) ==
    LET step == flow[i]
    IN  /\ \A j \in step.reads : j \in step.needs /\ j \in DOMAIN flow /\ j < i
        /\ \E r \in Of(receipts, i), e \in Of(evidence, i) :
              /\ StatusSucceeded(r.status) =>
                     /\ \A j \in step.reads, u \in receipts :
                            u.step = j => StatusSucceeded(u.status)
                     /\ r.outputHash # ZeroHash /\ r.inputHash # ZeroHash
              /\ r.outputHash # ZeroHash => HashJson(e.output) = r.outputHash
              /\ r.inputHash # ZeroHash =>
                     /\ \A j \in step.reads : Confirmed(evidence, receipts, j)
                     /\ r.inputHash = HashJson(ResolveTemplates(step, inputs,
                            [j \in step.reads |-> The(Of(evidence, j)).output]))

\* verifyLinkage: every step of the flow links, and no receipt is of a step
\* the flow does not have.
VerifyLinkage(flow, inputs, evidence, receipts) ==
    /\ \A i \in DOMAIN flow : StepLinks(flow, inputs, evidence, receipts, i)
    /\ \A r \in receipts : r.step \in DOMAIN flow
=============================================================================
