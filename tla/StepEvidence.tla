---------------------------- MODULE StepEvidence ----------------------------
(***************************************************************************)
(* What is left of an executed step for others to read: its receipt and    *)
(* its trace (execute.ts, receipt.ts, trace.ts), what the two establish    *)
(* about the output (attestation.ts, agent-signature.ts), and the status   *)
(* decided from it (outcome.ts).                                           *)
(*                                                                         *)
(* Hashes are taken to be collision free, so the hash of a JSON value is   *)
(* the value; a commitment is the set of the one value committed to, and   *)
(* empty where the code writes the zero hash.  Optional things are sets of *)
(* at most one element in the same way.                                    *)
(***************************************************************************)
EXTENDS Integers, FiniteSets

CONSTANTS
    Empty,      \* the JSON value {}
    Other       \* a JSON value that no honest step of the flow consumes or produces

StatusOk == 0
StatusFailed == 1
StatusSkipped == 2
StatusUnattested == 3

HashJson(value) == {value}
ZeroHash == {}
The(option) == CHOOSE x \in option : TRUE

-----------------------------------------------------------------------------
\* Attestation.  A bundle names the provider and may hold its response: who
\* signed it, and the value found where the bundle says the answer is (Other
\* when the signed text does not commit to the stored response, or the answer
\* is not found in it).
Levels == <<"absent", "present", "attested", "bound">>
Rank(level) == CHOOSE k \in 1 .. 4 : Levels[k] = level
MeetsBinding(level, required) == Rank(level) >= Rank(required)

\* verifyAttestation: `acknowledged` is what 0G's registry says of the
\* provider, empty when it could not be read.
VerifyAttestation(bundle, output, acknowledged) ==
    LET signed == {r \in UNION {b.response : b \in bundle} :
                      \E a \in acknowledged : a.vouchedFor /\ r.signer = a.signer}
    IN  IF bundle = {} THEN "absent"
        ELSE IF signed = {} THEN "present"
        ELSE IF \A r \in signed : r.carries # output THEN "attested"
        ELSE "bound"

\* attestationRefFor: the digest covers every part of the bundle.
AttestationRefFor(bundle) == bundle

-----------------------------------------------------------------------------
\* Agent signatures.  The digest an agent signs names the run, the step, the
\* agent, and what was consumed and produced.
OutputClaim(run, i, agent, inputHash, outputHash) ==
    [run |-> run, step |-> i, agent |-> agent, input |-> inputHash, output |-> outputHash]

\* Recovery under another claim, or from an unusable signature, gives no key
\* anybody holds.
RecoverAgentSigner(claim, signature) == {s.by : s \in {t \in signature : t.over = claim}}

VerifyAgentSignature(claim, signature, key) ==
    key # {} /\ RecoverAgentSigner(claim, signature) = key

-----------------------------------------------------------------------------
\* decideStepStatus of a step that was performed; what it requires is part of
\* the flow.
DecideStepStatus(requires, bundle, level, signatureValid) ==
    IF \/ requires.attestation /\ (bundle = {} \/ ~MeetsBinding(level, requires.binding))
       \/ requires.signedOutput /\ ~signatureValid
    THEN StatusUnattested
    ELSE StatusOk

StatusSucceeded(status) == status = StatusOk

-----------------------------------------------------------------------------
\* buildTrace.  Of an error, timings and retries nothing is re-derived.
BuildTrace(run, i, input, output, bundle, signature, hiredRuns) ==
    [run |-> run, step |-> i, input |-> input, output |-> output,
     bundle |-> bundle, signature |-> signature, hiredRuns |-> hiredRuns]

\* A receipt names its trace by the Merkle root of the stored bytes.
Receipt(run, i, flow, agent, inputHash, outputHash, trace, ref, status) ==
    [run |-> run, step |-> i, flow |-> flow, agent |-> agent,
     inputHash |-> inputHash, outputHash |-> outputHash,
     traceRoot |-> trace, attestationRef |-> ref, status |-> status]

\* The end of runStep, once the agent answered.  `level` is what the executor
\* could establish of the attestation, `key` the signing key it read.
BuildPerformed(run, i, flow, step, input, output, bundle, level, signature, key, hiredRuns) ==
    LET claim == OutputClaim(run, i, step.agent, HashJson(input), HashJson(output))
    IN  Receipt(run, i, flow, step.agent, HashJson(input), HashJson(output),
                BuildTrace(run, i, input, output, bundle, signature, hiredRuns),
                AttestationRefFor(bundle),
                DecideStepStatus(step.requires, bundle, level,
                                 VerifyAgentSignature(claim, signature, key)))

\* buildFailed: `input` is empty when not even the input could be resolved.
BuildFailed(run, i, flow, step, input) ==
    Receipt(run, i, flow, step.agent, input, ZeroHash,
            BuildTrace(run, i, IF input = {} THEN Empty ELSE The(input), Empty, {}, {}, {}),
            ZeroHash, StatusFailed)

\* buildSkipped: nothing was consumed and nothing produced.
BuildSkipped(run, i, flow, step) ==
    Receipt(run, i, flow, step.agent, ZeroHash, ZeroHash,
            BuildTrace(run, i, Empty, Empty, {}, {}, {}), ZeroHash, StatusSkipped)

\* The output of a sub-flow step: the run it hired and what that run sealed.
HiredOutput(child, root, stepCount, outcome) ==
    [childRunId |-> child, chainRoot |-> root, stepCount |-> stepCount, outcome |-> outcome]

BuildSubFlow(run, i, flow, step, input, output) ==
    Receipt(run, i, flow, step.agent, HashJson(input), HashJson(output),
            BuildTrace(run, i, input, output, {}, {}, {}), ZeroHash, StatusOk)

-----------------------------------------------------------------------------
\* foldChainRoot: over ascending step index; it throws, here the empty set,
\* unless the receipts are those of steps 0 .. n-1, one each.  A receipt is
\* anchored once, so the root is determined by the run and the steps it covers.
FoldChainRoot(run, indices) ==
    {root \in {[run |-> run, steps |-> indices]} :
        indices # {} /\ indices = 0 .. Cardinality(indices) - 1}
=============================================================================
