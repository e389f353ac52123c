------------------------------ MODULE Verifier ------------------------------
(***************************************************************************)
(* verify.ts and sources.ts: anyone re-checks a run from public data, the  *)
(* logs of its receipts and of its seal, the stored traces and what the    *)
(* registries say, and follows the runs it hired.                          *)
(*                                                                         *)
(* The verifier reads at different moments while executors go on anchoring *)
(* and sealing, agents rotate their keys and 0G revokes a signer.  Any     *)
(* read may fail.  What is verified was left by the evidence half of       *)
(* execute.ts, or by an executor at fault once (Misrecord).                *)
(***************************************************************************)
EXTENDS Linkage, FlowPlan, Sequences

CONSTANTS
    RunIds,         \* the runs
    Root,           \* the run somebody asks to have verified
    Flows,          \* flow -> steps: [agent, reads, readsInputs, needs, requires, child]
    Manners,        \* run -> step -> what its agent returns: [bundle, signs, hired]
    FlowOf,         \* run -> the flow it executes
    RunInputs,      \* the inputs of the root run
    Answer,         \* what agents answer
    Agents,
    KeysOf,         \* agent -> the keys it uses, in the order it rotates through them
    Stranger,       \* a key that no agent of the flow has
    TeeKey,         \* the signer 0G acknowledges for the provider
    Registries,     \* identity registries the verifier is configured with
    Governing,      \* the one the adapter registry was deployed against
    Owns,           \* registry -> the agents it has an owner for
    SpecSupplied,   \* whether the verifier has the flow's specification: a set
    MaxHireDepth,   \* options.maxHireDepth
    Misrecords,     \* the ways in which an executor may be at fault
    MaxUnread,      \* bound: reads that may fail in one verification
    MaxChanges      \* bound: key rotations and revocations

NoRun == "none"     \* in place of the child of a step that hires nobody

ASSUME RootIsARun == Root \in RunIds /\ NoRun \notin RunIds
ASSUME VerifierBounds == MaxHireDepth \in Nat /\ MaxUnread \in Nat /\ MaxChanges \in Nat

\* executeRun plans every flow first.
ASSUME FlowsAreAccepted ==
    /\ FlowOf \in [RunIds -> DOMAIN Flows]
    /\ \A f \in DOMAIN Flows :
          LET flow == Flows[f]
              n == Cardinality(DOMAIN flow)
          IN  /\ IsFiniteSet(DOMAIN flow) /\ DOMAIN flow = 0 .. n - 1
              /\ Accepted(n, [i \in DOMAIN flow |-> flow[i].needs],
                             [i \in DOMAIN flow |-> flow[i].reads])
              /\ \A i \in DOMAIN flow : flow[i].agent \in Agents
\* The id of a hired run is the hash of its parent's id and the step's index;
\* the caller's is a hash of something fresh.
ASSUME HiredRunsAreDerived ==
    \A r, q \in RunIds : \A i \in DOMAIN Flows[FlowOf[r]], j \in DOMAIN Flows[FlowOf[q]] :
        LET child == Flows[FlowOf[r]][i].child
        IN  /\ child \in RunIds \cup {NoRun} /\ child \notin {r, Root}
            /\ child = Flows[FlowOf[q]][j].child /\ child # NoRun => r = q /\ i = j
\* readHiredClaim tells what a hired run sealed, by its fields, from an answer.
ASSUME HiredOutputsAreTold ==
    \A r \in RunIds : LET steps == DOMAIN Flows[FlowOf[r]] IN
        \A root \in {[run |-> r, steps |-> steps], Other} :
            HiredOutput(r, root, Cardinality(steps), StatusOk) \notin {Empty, Other, Answer}
\* A trace holds the run ids an agent discloses only if they are well formed.
ASSUME DisclosuresAreRuns ==
    \A r \in RunIds : \A i \in DOMAIN Flows[FlowOf[r]] : \A m \in Manners[r][i] : m.hired \subseteq RunIds
\* The adapter registry lists an agent with a key, and only when the identity
\* registry it is deployed against has an owner for it.
ASSUME AgentsAreListed ==
    /\ \A a \in Agents : Len(KeysOf[a]) \in Nat \ {0} /\ DOMAIN KeysOf[a] = 1 .. Len(KeysOf[a])
    /\ Agents \subseteq Owns[Governing]

VARIABLES
    receipts,   \* run -> the StepAnchored logs
    seal,       \* run -> the RunSealed log, if any
    begun,      \* run -> its inputs, once it is started
    fault,      \* how an executor was at fault, if it was
    keysUsed,   \* agent -> how many keys it has rotated away
    revoked,    \* 0G no longer acknowledges the provider's signer
    frames,     \* the calls of verifyRun under way, innermost last
    unread,     \* the kinds of read that failed in this verification
    verified    \* the runs some verification found verified

chainVars == <<receipts, seal, begun, fault>>
registryVars == <<keysUsed, revoked>>
verifierVars == <<frames, unread, verified>>
verifyVars == <<receipts, seal, begun, fault, keysUsed, revoked, frames, unread, verified>>

FlowSteps(r) == Flows[FlowOf[r]]
Child(r, i) == FlowSteps(r)[i].child

VerifyInit ==
    /\ receipts = [r \in RunIds |-> {}]
    /\ seal = [r \in RunIds |-> {}]
    /\ begun = [r \in RunIds |-> IF r = Root THEN {RunInputs} ELSE {}]
    /\ fault = "none"
    /\ keysUsed = [a \in Agents |-> 0]
    /\ revoked = FALSE
    /\ frames = <<>>
    /\ unread = {}
    /\ verified = {}

\* signerOf of the adapter registry, and getService of 0G's inference registry.
AgentSigner(a) == {KeysOf[a][keysUsed[a] + 1]}
AcknowledgedSigner == {[signer |-> TeeKey, vouchedFor |-> ~revoked]}

-----------------------------------------------------------------------------
\* Executors.  Receipts are anchored wave after wave, in index order within a
\* wave; Executor.tla has what happens in between.
Anchored(r) == {rc.step : rc \in receipts[r]}
Planned ==
    [f \in DOMAIN Flows |->
        LET n == Cardinality(DOMAIN Flows[f])
        IN  [k \in 1 .. n |-> Wave(n, [i \in DOMAIN Flows[f] |-> Flows[f][i].needs], k)]]
NextSteps(r) ==
    LET waves == Planned[FlowOf[r]]
        Open(k) == waves[k] \ Anchored(r)
        current == {k \in DOMAIN waves : Open(k) # {} /\ \A j \in 1 .. k - 1 : Open(j) = {}}
    IN  {i \in UNION {Open(k) : k \in current} : \A j \in UNION {Open(k) : k \in current} : i <= j}
ReceiptOf(r, i) == The(Of(receipts[r], i))
Output(r, i) == The(ReceiptOf(r, i).outputHash)
Blocked(r, i) ==
    \E j \in FlowSteps(r)[i].reads :
        ~StatusSucceeded(ReceiptOf(r, j).status) \/ ReceiptOf(r, j).outputHash = ZeroHash

ResolvedInput(r, i) ==
    ResolveTemplates(FlowSteps(r)[i], The(begun[r]),
                     [j \in FlowSteps(r)[i].reads |-> Output(r, j)])

RunSucceeded(r) == \A rc \in receipts[r] : StatusSucceeded(rc.status)

\* What executeRun may anchor for step i of a run, once its upstreams are.
Honest(r, i) ==
    LET f == FlowOf[r]
        step == FlowSteps(r)[i]
        input == ResolvedInput(r, i)
        child == step.child
        Signature(m) ==
            {[by |-> The(AgentSigner(step.agent)),
              over |-> OutputClaim(r, i, step.agent, HashJson(input), HashJson(Answer))] :
                 x \in {1} \cap {IF m.signs THEN 1 ELSE 0}}
    IN  IF Blocked(r, i) THEN {BuildSkipped(r, i, f, step)}
        ELSE {BuildFailed(r, i, f, step, {})} \cup
             IF child = NoRun
             THEN {BuildFailed(r, i, f, step, {input})} \cup
                  {BuildPerformed(r, i, f, step, input, Answer, m.bundle,
                       VerifyAttestation(m.bundle, Answer, AcknowledgedSigner),
                       Signature(m), AgentSigner(step.agent), m.hired) : m \in Manners[r][i]}
             ELSE {IF RunSucceeded(child)
                   THEN BuildSubFlow(r, i, f, step, input,
                            HiredOutput(child, s.chainRoot, s.stepCount, s.outcome))
                   ELSE BuildFailed(r, i, f, step, {input}) : s \in seal[child]}

OtherBundle == {[response |-> {[signer |-> TeeKey, carries |-> Other]}]}

\* Faults an executor may have, as what it then anchors in place of rc.
Misrecorded(kind, rc) ==
    CASE kind = "input" ->       \* the agent was given something else
             IF rc.inputHash = ZeroHash THEN {}
             ELSE {[rc EXCEPT !.inputHash = HashJson(Other), !.traceRoot.input = Other]}
      [] kind = "trace" ->       \* the output stored is not the one committed to
             IF rc.outputHash = ZeroHash THEN {} ELSE {[rc EXCEPT !.traceRoot.output = Other]}
      [] kind = "status" ->      \* ok, whatever happened
             IF StatusSucceeded(rc.status) THEN {} ELSE {[rc EXCEPT !.status = StatusOk]}
      [] kind = "bundle" ->      \* another bundle is stored than the digest covers
             {[rc EXCEPT !.traceRoot.bundle = b] : b \in IF rc.attestationRef = {} THEN {} ELSE {OtherBundle}}
      [] kind = "signature" ->   \* somebody else signed
             {[rc EXCEPT !.traceRoot.signature = {[s EXCEPT !.by = Stranger]}] :
                 s \in rc.traceRoot.signature}
      [] kind = "agent" ->       \* the receipt credits another agent
             {[rc EXCEPT !.agent = a] : a \in Agents \ {rc.agent}}
      [] kind = "child" ->       \* the hired run sealed something else
             IF rc.outputHash = ZeroHash \/ Child(rc.run, rc.step) = NoRun THEN {}
             ELSE {[rc EXCEPT !.outputHash = HashJson([The(rc.outputHash) EXCEPT !.chainRoot = Other]),
                              !.traceRoot.output.chainRoot = Other]}
      [] OTHER -> {}

\* ExecutionReceiptsV2 accepts one receipt per step and none after the seal.
Anchor(r, rc) == receipts' = [receipts EXCEPT ![r] = @ \cup {rc}]

CanAnchorNext(r) == begun[r] # {} /\ seal[r] = {}

ExecuteStep(r) ==
    /\ CanAnchorNext(r)
    /\ \E i \in NextSteps(r) : \E rc \in Honest(r, i) :
          \/ Anchor(r, rc) /\ UNCHANGED fault
          \/ /\ fault = "none"
             /\ \E kind \in Misrecords :
                   /\ fault' = kind
                   /\ \E wrong \in Misrecorded(kind, rc) : Anchor(r, wrong)
    /\ UNCHANGED <<seal, begun>>

\* runSubFlow: the hired run starts with the resolved input of the step.
HireRun(r) ==
    /\ CanAnchorNext(r)
    /\ \E i \in NextSteps(r) :
          /\ Child(r, i) # NoRun /\ begun[Child(r, i)] = {} /\ ~Blocked(r, i)
          /\ begun' = [begun EXCEPT ![Child(r, i)] = {ResolvedInput(r, i)}]
    /\ UNCHANGED <<receipts, seal, fault>>

RunOutcome(r) ==
    IF RunSucceeded(r) THEN StatusOk
    ELSE (CHOOSE rc \in receipts[r] :
             /\ ~StatusSucceeded(rc.status)
             /\ \A other \in receipts[r] : other.step < rc.step => StatusSucceeded(other.status)).status

SealRun(r) ==
    /\ seal[r] = {}
    /\ {rc.step : rc \in receipts[r]} = DOMAIN FlowSteps(r)
    /\ \E chainRoot \in FoldChainRoot(r, Anchored(r)) \cup {Other} :
          /\ IF chainRoot # Other THEN UNCHANGED fault
             ELSE "root" \in Misrecords /\ fault = "none" /\ fault' = "root"
          /\ seal' = [seal EXCEPT ![r] = {[chainRoot |-> chainRoot, outcome |-> RunOutcome(r),
                                           stepCount |-> Cardinality(receipts[r])]}]
    /\ UNCHANGED <<receipts, begun>>

ChainStep ==
    /\ \E r \in RunIds : ExecuteStep(r) \/ HireRun(r) \/ SealRun(r)
    /\ UNCHANGED <<registryVars, verifierVars>>

Changes == Cardinality({a \in Agents : keysUsed[a] > 0}) + (IF revoked THEN 1 ELSE 0)

RotateKey(a) ==
    /\ keysUsed[a] + 1 < Len(KeysOf[a])
    /\ keysUsed' = [keysUsed EXCEPT ![a] = @ + 1]
    /\ UNCHANGED revoked

Revoke == ~revoked /\ revoked' = TRUE /\ UNCHANGED keysUsed

RegistryStep ==
    /\ Changes < MaxChanges
    /\ Revoke \/ \E a \in Agents : RotateKey(a)
    /\ UNCHANGED <<chainVars, verifierVars>>

-----------------------------------------------------------------------------
\* One call of verifyRun.  Receipts never change, so those read are named by
\* their index; `had` are those whose trace was retrieved.  `failures` and
\* `incomplete` hold the kinds of the messages the code collects.
Frame(r, spec, depth) ==
    [run |-> r, spec |-> spec, depth |-> depth, at |-> "logs", governing |-> {},
     read |-> {}, seal |-> {}, todo |-> {}, had |-> {}, claims |-> <<>>,
     failures |-> {}, incomplete |-> {}]

Top == frames[Len(frames)]
Replace(frame) == frames' = [frames EXCEPT ![Len(frames)] = frame]
Found(frame, failures, incomplete) ==
    [frame EXCEPT !.failures = @ \cup failures, !.incomplete = @ \cup incomplete]

EvidenceOf(frame) ==
    {[step |-> rc.step, input |-> rc.traceRoot.input, output |-> rc.traceRoot.output] :
        rc \in {x \in receipts[frame.run] : x.step \in frame.had}}
Read(frame) == {rc \in receipts[frame.run] : rc.step \in frame.read}

\* Reads that may fail, at most one of each kind in a verification.
Unread(kinds) ==
    /\ kinds \cap unread = {} /\ Cardinality(unread \cup kinds) <= MaxUnread
    /\ unread' = unread \cup kinds

Verdict(frame) ==
    IF frame.failures # {} THEN "failed"
    ELSE IF frame.incomplete # {} THEN "incomplete"
    ELSE "verified"

\* Variant for the mutation checks: a hired run is verified without its flow.
ChildSpec_None(frame, i) == {}

\* childSpecFor: the parent's document declares the sub-flow inline.
ChildSpec(frame, i) ==
    IF frame.spec = {} THEN {}
    ELSE LET child == Child(frame.run, i)
         IN  {[flow |-> FlowOf[child], inputs |-> e.input] : e \in Of(EvidenceOf(frame), i)}

Begin ==
    /\ frames = <<>>
    /\ \E supplied \in SpecSupplied :
          frames' = <<Frame(Root, {s \in {[flow |-> FlowOf[Root], inputs |-> RunInputs]} : supplied},
                            MaxHireDepth)>>
    /\ unread' = {}
    /\ UNCHANGED verified

\* The registry that governs the deployment: identityRegistryOf answers null
\* for every error, and the configured list is then used.  A run without
\* receipts is reported as failed at once.
ReadReceipts ==
    /\ Top.at = "logs"
    /\ \E governing \in {{}, {Governing}} :
          /\ Unread({"registry" : x \in {1} \ {Cardinality(governing)}})
          /\ Replace(IF receipts[Top.run] = {}
                     THEN [Found(Top, {"receipts"}, {}) EXCEPT !.at = "hired"]
                     ELSE [Top EXCEPT !.governing = governing, !.read = Anchored(Top.run),
                                      !.todo = Anchored(Top.run), !.at = "seal"])
    /\ UNCHANGED verified

SealFailures(folded, read, sealed) ==
    {"fold" : x \in {1} \ {Cardinality(folded)}}
    \cup {"root" : s \in {t \in sealed : folded # {} /\ {t.chainRoot} # folded}}
    \cup {"count" : s \in {t \in sealed : folded # {} /\ t.stepCount # Cardinality(read)}}

\* Fold and compare; the seal is read after the receipts.
ReadSeal ==
    /\ Top.at = "seal"
    /\ LET sealed == seal[Top.run]
           failures == SealFailures(FoldChainRoot(Top.run, Top.read), Top.read, sealed)
       IN  Replace([Found(Top, failures, IF sealed = {} THEN {"seal"} ELSE {}) EXCEPT
                        !.seal = sealed, !.at = "steps"])
    /\ UNCHANGED <<unread, verified>>

-----------------------------------------------------------------------------
\* Steps 2, 3, 5, 7 and 8 of the procedure, for one receipt.

\* Step 7: `lost` are the registries whose ownerOf could not be called, which
\* the source answers like a token that does not exist.
Consulted(frame) == IF frame.governing # {} THEN frame.governing ELSE Registries
Claimants(frame, agent, lost) == {g \in Consulted(frame) \ lost : agent \in Owns[g]}
IdentityFailures(frame, rc, lost) ==
    IF Cardinality(Claimants(frame, rc.agent, lost)) = 1 THEN {} ELSE {"identity"}

CommitFailures(rc) ==
    IF StatusSucceeded(rc.status) /\ (rc.inputHash = ZeroHash \/ rc.outputHash = ZeroHash)
    THEN {"commitment"} ELSE {}

\* Variant for the mutation checks: the zero hash is taken for a hash.
HashFailures_OfZero(rc, trace) ==
    IF rc.inputHash = HashJson(trace.input) /\ rc.outputHash = HashJson(trace.output)
    THEN {} ELSE {"hash"}

HashFailures(rc, trace) ==
    IF /\ rc.inputHash \in {ZeroHash, HashJson(trace.input)}
       /\ rc.outputHash \in {ZeroHash, HashJson(trace.output)}
    THEN {} ELSE {"hash"}

\* Step 5: the digest first; then an ok step may not carry an attestation that
\* is genuine and belongs to another response.
AttestationFailures(rc, trace, acknowledged) ==
    IF rc.attestationRef = ZeroHash THEN {}
    ELSE IF AttestationRefFor(trace.bundle) # rc.attestationRef THEN {"attestation"}
    ELSE IF /\ StatusSucceeded(rc.status)
            /\ VerifyAttestation(trace.bundle, trace.output, acknowledged) = "attested"
         THEN {"attestation"} ELSE {}

\* Step 8: a signature that cannot be confirmed leaves the authorship open.
SignatureGaps(rc, trace, key) ==
    LET claim == OutputClaim(rc.run, rc.step, rc.agent, rc.inputHash, rc.outputHash)
    IN  IF trace.signature = {} \/ VerifyAgentSignature(claim, trace.signature, key)
        THEN {} ELSE {"signature"}

\* readHiredClaim, and the runs the agent disclosed unless already claimed.
SubFlowClaims(i, output) ==
    IF output \in {Empty, Other, Answer} THEN <<>>
    ELSE <<[step |-> i, run |-> output.childRunId, root |-> {output.chainRoot}]>>

Disclosures(i, trace, claims) ==
    LET new == {d \in trace.hiredRuns : \A k \in DOMAIN claims : claims[k].run # d}
    IN  IF new = {} THEN <<>> ELSE <<[step |-> i, run |-> The(new), root |-> {}]>>

\* The reads made for one receipt: its trace, with or without a proof, the key
\* for a signature, the acknowledged signer for an attestation.
EvidenceReads(rc) ==
    {"trace", "proof"} \cup {"key" : x \in rc.traceRoot.signature}
                       \cup {"signer" : x \in rc.attestationRef}

\* What one receipt adds to the report, when the reads in `missed` failed.
Failures(frame, rc, lost, missed) ==
    IdentityFailures(frame, rc, lost) \cup
    IF "trace" \in missed THEN {}
    ELSE CommitFailures(rc) \cup HashFailures(rc, rc.traceRoot) \cup
         AttestationFailures(rc, rc.traceRoot, IF "signer" \in missed THEN {} ELSE AcknowledgedSigner)

Gaps(rc, missed) ==
    (missed \cap {"trace", "proof"}) \cup
    IF "trace" \in missed THEN {}
    ELSE SignatureGaps(rc, rc.traceRoot, IF "key" \in missed THEN {} ELSE AgentSigner(rc.agent))

Claims(frame, rc) ==
    LET claims == frame.claims \o SubFlowClaims(rc.step, rc.traceRoot.output)
    IN  claims \o Disclosures(rc.step, rc.traceRoot, claims)

\* A trace that could not be had from 0G Storage with a proof may still be in
\* a local directory.
CheckStep ==
    LET i == CHOOSE x \in Top.todo : \A y \in Top.todo : x <= y
        rc == ReceiptOf(Top.run, i)
    IN  /\ Top.at = "steps"
        /\ \E lost \in {{}} \cup {{g} : g \in Consulted(Top)}, missed \in {{}} \cup {{x} : x \in EvidenceReads(rc)} :
              /\ Unread({"registry" : g \in lost} \cup {"evidence" : x \in missed})
              /\ Replace([Found(Top, Failures(Top, rc, lost, missed), Gaps(rc, missed)) EXCEPT
                     !.todo = @ \ {i},
                     !.at = IF Top.todo = {i} THEN "linkage" ELSE "steps",
                     !.had = IF "trace" \in missed THEN @ ELSE @ \cup {i},
                     !.claims = IF "trace" \in missed THEN @ ELSE Claims(Top, rc)])
        /\ UNCHANGED verified

-----------------------------------------------------------------------------
\* Step 4.  Without a trace of every receipt linkage is not checked.
CanLink(frame) == frame.spec # {} /\ frame.had = frame.read

\* The evidence is looked up for every step of the flow; where a receipt is
\* still missing the lookup throws.
LinkThrows(frame) ==
    CanLink(frame) /\ DOMAIN Flows[The(frame.spec).flow] \ frame.had # {}

CheckLinkage ==
    /\ Top.at = "linkage" /\ ~LinkThrows(Top)
    /\ LET spec == The(Top.spec)
           links == CanLink(Top) =>
                        VerifyLinkage(Flows[spec.flow], spec.inputs, EvidenceOf(Top), Read(Top))
       IN  Replace([Found(Top, IF links THEN {} ELSE {"linkage"},
                               IF CanLink(Top) THEN {} ELSE {"linkage"}) EXCEPT !.at = "hired"])
    /\ UNCHANGED <<unread, verified>>

\* Step 9: the hired runs, one after another.
MayFollow(depth) == depth > 0
Spent(depth) == depth - 1

FollowClaim ==
    /\ Top.at = "hired" /\ Top.claims # <<>>
    /\ LET claim == Head(Top.claims)
       IN  IF MayFollow(Top.depth)
           THEN frames' = Append(frames, Frame(claim.run,
                    IF claim.root # {} THEN ChildSpec(Top, claim.step) ELSE {}, Spent(Top.depth)))
           ELSE Replace([Found(Top, {}, {"depth"}) EXCEPT !.claims = Tail(@)])
    /\ UNCHANGED <<unread, verified>>

Concluding(frame) == frame.at = "hired" /\ frame.claims = <<>>

\* What the report of a hired run adds to its caller's.
ClaimFailures(claim, report) ==
    {"child" : root \in {x \in claim.root : \/ Verdict(report) = "failed"
                                            \/ \E s \in report.seal : s.chainRoot # x}}
ClaimGaps(claim, report) ==
    IF \/ report.seal = {} \/ Verdict(report) = "incomplete"
       \/ Verdict(report) = "failed" /\ claim.root = {}
    THEN {"child"} ELSE {}

Absorb(failures, gaps) ==
    LET n == Len(frames) - 1
    IN  frames' = IF n = 0 THEN <<>>
                  ELSE [k \in 1 .. n |->
                           IF k < n THEN frames[k]
                           ELSE [Found(frames[n], failures, gaps) EXCEPT !.claims = Tail(@)]]

Return ==
    /\ Concluding(Top)
    /\ verified' = verified \cup {r \in {Top.run} : Verdict(Top) = "verified"}
    /\ LET caller == frames[Len(frames) - 1]
       IN  IF Len(frames) = 1 THEN Absorb({}, {})
           ELSE Absorb(ClaimFailures(Head(caller.claims), Top), ClaimGaps(Head(caller.claims), Top))
    /\ UNCHANGED unread

\* The logs cannot be read, or linkage throws: no report of this run.
Throw ==
    /\ \/ Top.at \in {"logs", "seal"} /\ Unread({"logs"})
       \/ Top.at = "linkage" /\ LinkThrows(Top) /\ UNCHANGED unread
    /\ Absorb({}, {"child"})
    /\ UNCHANGED verified

VerifierStep ==
    /\ frames # <<>>
    /\ \/ ReadReceipts \/ ReadSeal \/ CheckStep \/ CheckLinkage
       \/ FollowClaim \/ Return \/ Throw
    /\ UNCHANGED <<chainVars, registryVars>>

VerifyNext ==
    \/ ChainStep
    \/ RegistryStep
    \/ Begin /\ UNCHANGED <<chainVars, registryVars>>
    \/ VerifierStep

VerifySpec == VerifyInit /\ [][VerifyNext]_verifyVars

-----------------------------------------------------------------------------
\* What a sound receipt is, by the chain and the traces alone: the input of an
\* ok step is its template resolved over the anchored outputs of ok steps, the
\* trace is the one committed to, and whoever signed is the agent credited.
SoundReceipt(rc) ==
    /\ HashFailures(rc, rc.traceRoot) = {}
    /\ rc.attestationRef # ZeroHash => rc.attestationRef = rc.traceRoot.bundle
    /\ \A s \in rc.traceRoot.signature :
          /\ \E k \in DOMAIN KeysOf[rc.agent] : KeysOf[rc.agent][k] = s.by
          /\ s.over = OutputClaim(rc.run, rc.step, rc.agent, rc.inputHash, rc.outputHash)
    /\ StatusSucceeded(rc.status) =>
          /\ ~Blocked(rc.run, rc.step)
          /\ rc.inputHash = HashJson(ResolvedInput(rc.run, rc.step))
          /\ rc.outputHash # ZeroHash

\* Verified means what it says, whatever one fault an executor had, whenever
\* the verifier read what it read and whichever of its reads failed: the run
\* is sealed under the root of its receipts, each receipt is sound, and every
\* run hired by an ok sub-flow step was itself verified and sealed the root
\* the step's output names.
VerifiedRunsAreSound ==
    \A r \in verified :
        /\ \E s \in seal[r] : {s.chainRoot} = FoldChainRoot(r, DOMAIN FlowSteps(r))
        /\ \A rc \in receipts[r] :
              /\ SoundReceipt(rc)
              /\ Child(r, rc.step) # NoRun /\ StatusSucceeded(rc.status) =>
                     /\ Child(r, rc.step) \in verified
                     /\ The(rc.outputHash).chainRoot = The(seal[Child(r, rc.step)]).chainRoot

Concluded(r) == {frames[k] : k \in {n \in DOMAIN frames : frames[n].run = r /\ Concluding(frames[n])}}

\* The executor and the verifier agree: a complete run that no executor
\* recorded wrongly never fails verification, be it one that failed, that
\* skipped steps, lacks attestations or hired a run that failed, and although
\* keys rotate and signers are revoked while it is read.  The exception is a
\* registry that cannot be read: ownerOf answers no owner for any error.
HonestRunsNeverFail ==
    fault = "none" /\ "registry" \notin unread =>
        \A r \in RunIds : \A frame \in Concluded(r) :
            frame.read = DOMAIN FlowSteps(r) => frame.failures = {}

\* Incomplete is no hiding place: when a complete, honestly recorded run is
\* verified with its specification, every read succeeds, no key was rotated
\* and no agent disclosed a run, the verdict is verified.
ReadableHonestRunsVerify ==
    /\ fault = "none" /\ unread = {} /\ \A a \in Agents : keysUsed[a] = 0
    /\ \A r \in RunIds : \A rc \in receipts[r] : rc.traceRoot.hiredRuns = {}
    => \A r \in RunIds : \A frame \in Concluded(r) :
           frame.spec # {} /\ frame.seal # {} => Verdict(frame) = "verified"

\* What the theorems take of the runs.  An executor may anchor ok for a step
\* that carries a genuine attestation of another response, unless the step
\* requires a bound one; the verifier rejects it.
NoLooseQuotes ==
    \A r \in RunIds : \A i \in DOMAIN FlowSteps(r) : \A m \in Manners[r][i] :
        \/ FlowSteps(r)[i].requires.attestation /\ FlowSteps(r)[i].requires.binding = "bound"
        \/ VerifyAttestation(m.bundle, Answer, {[signer |-> TeeKey, vouchedFor |-> TRUE]}) # "attested"
\* Hired runs are nested no deeper than the verifier follows them: a run has a
\* rank above that of the runs it hires.
Descends(rank) ==
    \A r \in RunIds : \A i \in DOMAIN FlowSteps(r) :
        Child(r, i) # NoRun => rank[Child(r, i)] < rank[r]
HiringIsShallow == \E rank \in [RunIds -> 0 .. MaxHireDepth] : Descends(rank)
=============================================================================
