--------------------------- MODULE VerifierProofs ---------------------------
(***************************************************************************)
(* For any runs, flows, agents and keys, any nesting of hired runs and any *)
(* failed reads: what a verdict of the verifier means.                     *)
(***************************************************************************)
EXTENDS Verifier, FlowPlanProofs, SequenceTheorems

-----------------------------------------------------------------------------
\* What the flows and the ids of the hired runs are like.
LEMMA FlowFacts ==
    ASSUME NEW r \in RunIds
    PROVE  LET flow == FlowSteps(r)
               n == Cardinality(DOMAIN flow)
           IN  /\ IsFiniteSet(DOMAIN flow) /\ n \in Nat /\ n > 0
               /\ DOMAIN flow = 0 .. n - 1 /\ DOMAIN flow \subseteq Nat /\ DOMAIN flow # {}
               /\ \A i \in DOMAIN flow :
                     /\ flow[i].agent \in Agents
                     /\ flow[i].needs \subseteq DOMAIN flow /\ flow[i].reads \subseteq flow[i].needs
                     /\ \A j \in flow[i].reads : j < i
<1> DEFINE flow == FlowSteps(r)
           n == Cardinality(DOMAIN flow)
           needs == [i \in DOMAIN flow |-> flow[i].needs]
           reads == [i \in DOMAIN flow |-> flow[i].reads]
<1>1. FlowOf[r] \in DOMAIN Flows
  BY FlowsAreAccepted
<1>2. /\ IsFiniteSet(DOMAIN flow) /\ DOMAIN flow = 0 .. n - 1
      /\ Accepted(n, needs, reads)
      /\ \A i \in DOMAIN flow : flow[i].agent \in Agents
  BY <1>1, FlowsAreAccepted DEF FlowSteps
<1>3. n \in Nat
  BY <1>2, FS_CardinalityType
<1> HIDE DEF n, flow
<1>4. /\ n > 0
      /\ \A i \in 0 .. n - 1 : needs[i] \subseteq 0 .. n - 1 /\ reads[i] \subseteq needs[i]
      /\ \A i \in 0 .. n - 1 : \A upstream \in DependsOn(n, needs, reads)[i] : upstream < i
  BY <1>2 DEF Accepted, InDeclarationOrder
<1>5. ASSUME NEW i \in DOMAIN flow
      PROVE  /\ flow[i].needs \subseteq DOMAIN flow /\ flow[i].reads \subseteq flow[i].needs
             /\ \A j \in flow[i].reads : j < i
  <2>1. i \in 0 .. n - 1 /\ needs[i] = flow[i].needs /\ reads[i] = flow[i].reads
    BY <1>2
  <2>2. DependsOn(n, needs, reads)[i] = needs[i] \cup reads[i]
    BY <2>1 DEF DependsOn
  <2> HIDE DEF needs, reads
  <2> QED
    BY <1>2, <1>4, <2>1, <2>2
<1>6. DOMAIN flow \subseteq Nat /\ DOMAIN flow # {}
  BY <1>2, <1>3, <1>4
<1> QED
  BY <1>2, <1>3, <1>4, <1>5, <1>6 DEF n, flow

LEMMA ChildFacts ==
    ASSUME NEW r \in RunIds, NEW i \in DOMAIN FlowSteps(r)
    PROVE  /\ Child(r, i) \in RunIds \cup {NoRun} /\ Child(r, i) # r /\ Child(r, i) # Root
           /\ NoRun \notin RunIds
           /\ \A q \in RunIds : \A j \in DOMAIN FlowSteps(q) :
                 Child(q, j) = Child(r, i) /\ Child(r, i) # NoRun => q = r /\ j = i
<1>1. /\ Child(r, i) \in RunIds \cup {NoRun} /\ Child(r, i) \notin {r, Root}
  BY HiredRunsAreDerived DEF FlowSteps, Child
<1>2. ASSUME NEW q \in RunIds, NEW j \in DOMAIN FlowSteps(q), Child(q, j) = Child(r, i), Child(r, i) # NoRun
      PROVE  q = r /\ j = i
  BY <1>2, HiredRunsAreDerived DEF FlowSteps, Child
<1> QED
  BY <1>1, <1>2, RootIsARun

\* A step is executed once all it reads is anchored.
LEMMA NextStepFacts ==
    ASSUME NEW r \in RunIds, NEW i \in NextSteps(r)
    PROVE  /\ i \in DOMAIN FlowSteps(r) /\ i \notin Anchored(r)
           /\ FlowSteps(r)[i].reads \subseteq Anchored(r)
<1> DEFINE flow == FlowSteps(r)
           n == Cardinality(DOMAIN flow)
           needs == [j \in DOMAIN flow |-> flow[j].needs]
           waves == Planned[FlowOf[r]]
           Open(k) == waves[k] \ Anchored(r)
<1>1. PICK k \in DOMAIN waves : i \in Open(k) /\ \A j \in 1 .. k - 1 : Open(j) = {}
  BY DEF NextSteps
<1>2. waves = [j \in 1 .. n |-> Wave(n, needs, j)]
  BY FlowsAreAccepted DEF Planned, FlowSteps
<1>3. n \in Nat /\ DOMAIN flow = 0 .. n - 1
  BY FlowFacts
<1>4. k \in 1 .. n /\ i \in Wave(n, needs, k) /\ i \notin Anchored(r)
  BY <1>1, <1>2
<1> HIDE DEF n, flow, needs, waves
<1>5. i \in 0 .. n - 1
  BY <1>4 DEF Wave
<1>6. ASSUME NEW j \in needs[i] PROVE j \in Anchored(r)
  <2>1. PICK l \in 1 .. k - 1 : j \in Wave(n, needs, l)
    BY <1>3, <1>4, UpstreamsInEarlierWaves
  <2>2. l \in 1 .. n
    BY <1>3, <1>4
  <2> QED
    BY <1>1, <1>2, <2>1, <2>2
<1>7. i \in DOMAIN flow /\ needs[i] = flow[i].needs
  BY <1>3, <1>5 DEF needs
<1>8. flow[i].reads \subseteq flow[i].needs
  BY <1>7, FlowFacts DEF flow
<1> QED
  BY <1>4, <1>6, <1>7, <1>8 DEF flow

-----------------------------------------------------------------------------
\* What holds of the chain.  Outputs that readHiredClaim does not take for the
\* output of a sub-flow step:
Special == {Empty, Other, Answer}
RootsOf(r) == {[run |-> r, steps |-> DOMAIN FlowSteps(r)], Other}
OutputOfRun(r, root) == HiredOutput(r, root, Cardinality(DOMAIN FlowSteps(r)), StatusOk)

\* The bundle holds a response that 0G's signer signed and that carries output.
Proven(bundle, output) ==
    \E q \in UNION {b.response : b \in bundle} : q.signer = TeeKey /\ q.carries = output

\* What is hired by a step is sealed, and the step's output says under which root.
HiredOK(r, rc) ==
    LET child == Child(r, rc.step)
    IN  IF child = NoRun THEN rc.traceRoot.output \in Special
        ELSE /\ rc.outputHash = ZeroHash
                \/ \E root \in RootsOf(child) : rc.outputHash = {OutputOfRun(child, root)}
             /\ rc.traceRoot.output \in Special
                \/ \E root \in RootsOf(child) : rc.traceRoot.output = OutputOfRun(child, root)
             /\ rc.outputHash # ZeroHash \/ rc.traceRoot.output \notin Special => seal[child] # {}

\* What holds of a receipt although its executor was at fault.
ReceiptOK(r, rc) ==
    /\ rc.run = r /\ rc.step \in DOMAIN FlowSteps(r) /\ rc.agent \in Agents
    /\ FlowSteps(r)[rc.step].reads \subseteq Anchored(r)
    /\ \A s, t \in rc.traceRoot.signature : s = t
    /\ rc.traceRoot.hiredRuns \subseteq RunIds
    /\ HiredOK(r, rc)

\* What holds of a receipt anchored as execute.ts has it.
PlainHashes(rc) ==
    /\ rc.inputHash \in {ZeroHash, {rc.traceRoot.input}}
    /\ rc.outputHash \in {ZeroHash, {rc.traceRoot.output}}
    /\ StatusSucceeded(rc.status) => rc.outputHash # ZeroHash
    /\ rc.outputHash # ZeroHash => rc.inputHash # ZeroHash
    /\ rc.traceRoot.output \notin Special => rc.outputHash # ZeroHash
    /\ rc.inputHash # ZeroHash =>
          /\ ~Blocked(rc.run, rc.step)
          /\ rc.inputHash = HashJson(ResolvedInput(rc.run, rc.step))

PlainEvidence(rc) ==
    LET step == FlowSteps(rc.run)[rc.step]
        bundle == rc.traceRoot.bundle
    IN  /\ rc.agent = step.agent
        /\ rc.attestationRef = bundle
        /\ bundle # {} =>
              /\ rc.traceRoot.output = Answer
              /\ \E m \in Manners[rc.run][rc.step] : m.bundle = bundle
              /\ /\ StatusSucceeded(rc.status)
                 /\ step.requires.attestation /\ step.requires.binding = "bound"
                 => Proven(bundle, Answer)
        /\ \A s \in rc.traceRoot.signature :
              /\ \E k \in 1 .. keysUsed[rc.agent] + 1 : s.by = KeysOf[rc.agent][k]
              /\ s.over = OutputClaim(rc.run, rc.step, rc.agent, rc.inputHash, rc.outputHash)

PlainHired(rc) ==
    LET child == Child(rc.run, rc.step)
    IN  rc.outputHash # ZeroHash /\ child # NoRun =>
            \E s \in seal[child] : rc.outputHash = {OutputOfRun(child, s.chainRoot)}

Plain(rc) == PlainHashes(rc) /\ PlainEvidence(rc) /\ PlainHired(rc)

\* One receipt per step, of a run whose inputs are known.
OnePerStep(r) == \A rc, rd \in receipts[r] : rc.step = rd.step => rc = rd
BegunOK(r) ==
    /\ \A x, y \in begun[r] : x = y
    /\ receipts[r] # {} => begun[r] # {}

\* A run hired by step i was begun with the step's input.
HiresOK(r) ==
    \A i \in DOMAIN FlowSteps(r) :
        Child(r, i) # NoRun /\ begun[Child(r, i)] # {} =>
            /\ begun[r] # {} /\ FlowSteps(r)[i].reads \subseteq Anchored(r)
            /\ begun[Child(r, i)] = {ResolvedInput(r, i)}

\* A sealed run has a receipt of every step.
SealOK(r) ==
    /\ \A s, t \in seal[r] : s = t
    /\ \A s \in seal[r] :
          /\ Anchored(r) = DOMAIN FlowSteps(r)
          /\ s.chainRoot \in RootsOf(r)
          /\ s.stepCount = Cardinality(DOMAIN FlowSteps(r))
          /\ RunSucceeded(r) => s.outcome = StatusOk
          /\ fault = "none" => s.chainRoot # Other

LedgerOK(r) ==
    /\ \A rc \in receipts[r] : ReceiptOK(r, rc)
    /\ OnePerStep(r) /\ BegunOK(r) /\ HiresOK(r) /\ SealOK(r)

\* Whatever was recorded otherwise than executed is in one run.
OneFault ==
    /\ \A r, q \in RunIds : \A rc \in receipts[r], rd \in receipts[q] : Plain(rc) \/ Plain(rd) \/ r = q
    /\ \A r \in RunIds : \A rc \in receipts[r] : Plain(rc) \/ fault # "none"

KeysOK == keysUsed \in [Agents -> Nat] /\ \A a \in Agents : keysUsed[a] < Len(KeysOf[a])

\* The receipts of a run are those of an executor that was not at fault in it.
AllPlain(r) == fault # "none" /\ \A rc \in receipts[r] : Plain(rc)

ChainInv ==
    /\ receipts = [r \in RunIds |-> receipts[r]]
    /\ seal = [r \in RunIds |-> seal[r]]
    /\ begun = [r \in RunIds |-> begun[r]] /\ begun[Root] = {RunInputs}
    /\ \A r \in RunIds : LedgerOK(r)
    /\ OneFault /\ KeysOK

-----------------------------------------------------------------------------
\* Reading a receipt.
LEMMA TheOne ==
    ASSUME NEW x PROVE The({x}) = x
BY DEF The

LEMMA ReceiptIs ==
    ASSUME NEW r \in RunIds, OnePerStep(r), NEW rc \in receipts[r]
    PROVE  Of(receipts[r], rc.step) = {rc} /\ ReceiptOf(r, rc.step) = rc
<1>1. Of(receipts[r], rc.step) = {rc}
  BY DEF Of, OnePerStep
<1> QED
  BY <1>1, TheOne DEF ReceiptOf

LEMMA AnchoredIs ==
    ASSUME NEW r \in RunIds, OnePerStep(r), NEW i \in Anchored(r)
    PROVE  ReceiptOf(r, i) \in receipts[r] /\ ReceiptOf(r, i).step = i
           /\ Of(receipts[r], i) = {ReceiptOf(r, i)}
<1>1. PICK rc \in receipts[r] : rc.step = i
  BY DEF Anchored
<1> QED
  BY <1>1, ReceiptIs

\* What is on chain stays, a sealed run as it is.
Grows ==
    /\ \A r \in RunIds : receipts[r] \subseteq receipts'[r]
    /\ \A r \in RunIds : begun[r] # {} => begun'[r] = begun[r]
    /\ \A r \in RunIds : seal[r] # {} => seal'[r] = seal[r] /\ receipts'[r] = receipts[r]
    /\ fault # "none" => fault' = fault
    /\ \A a \in Agents : keysUsed[a] \in Nat /\ keysUsed'[a] \in Nat /\ keysUsed[a] <= keysUsed'[a]

LEMMA ReceiptStays ==
    ASSUME NEW r \in RunIds, OnePerStep(r), OnePerStep(r)', Grows, NEW i \in Anchored(r)
    PROVE  ReceiptOf(r, i)' = ReceiptOf(r, i) /\ i \in Anchored(r)'
<1>1. ReceiptOf(r, i) \in receipts[r] /\ ReceiptOf(r, i).step = i
  BY AnchoredIs
<1> DEFINE rc == ReceiptOf(r, i)
<1>2. PICK x : x = ReceiptOf(r, i)
  OBVIOUS
<1>3. x \in receipts'[r] /\ x.step = i
  BY <1>1, <1>2 DEF Grows
<1>4. Of(receipts'[r], i) = {x}
  BY <1>3 DEF Of, OnePerStep
<1>5. ReceiptOf(r, i)' = x
  BY <1>4, TheOne DEF ReceiptOf
<1>6. i \in Anchored(r)'
  BY <1>3 DEF Anchored
<1> QED
  BY <1>2, <1>5, <1>6

LEMMA InputStays ==
    ASSUME NEW r \in RunIds, OnePerStep(r), OnePerStep(r)', Grows,
           NEW i \in DOMAIN FlowSteps(r), FlowSteps(r)[i].reads \subseteq Anchored(r)
    PROVE  /\ Blocked(r, i)' <=> Blocked(r, i)
           /\ begun[r] # {} => ResolvedInput(r, i)' = ResolvedInput(r, i)
<1>1. \A j \in FlowSteps(r)[i].reads : ReceiptOf(r, j)' = ReceiptOf(r, j)
  BY ReceiptStays
<1>2. Blocked(r, i)' <=> Blocked(r, i)
  BY <1>1 DEF Blocked
<1>3. ASSUME begun[r] # {} PROVE ResolvedInput(r, i)' = ResolvedInput(r, i)
  <2>1. \A j \in FlowSteps(r)[i].reads : Output(r, j)' = Output(r, j)
    BY <1>1 DEF Output
  <2>2. [j \in FlowSteps(r)[i].reads |-> Output(r, j)]' = [j \in FlowSteps(r)[i].reads |-> Output(r, j)]
    BY <2>1
  <2>3. begun'[r] = begun[r]
    BY <1>3 DEF Grows
  <2> QED
    BY <2>2, <2>3 DEF ResolvedInput
<1> QED
  BY <1>2, <1>3

-----------------------------------------------------------------------------
\* What the evidence half of execute.ts anchors.
TraceFields == {"run", "step", "input", "output", "bundle", "signature", "hiredRuns"}
ReceiptFields ==
    {"run", "step", "flow", "agent", "inputHash", "outputHash", "traceRoot", "attestationRef", "status"}
IsReceipt(rc) == DOMAIN rc = ReceiptFields /\ DOMAIN rc.traceRoot = TraceFields

LEMMA MadeReceipt ==
    ASSUME NEW r, NEW i, NEW f, NEW agent, NEW inputHash, NEW outputHash, NEW ref, NEW status,
           NEW input, NEW output, NEW bundle, NEW signature, NEW hired, NEW rc,
           rc = Receipt(r, i, f, agent, inputHash, outputHash,
                        BuildTrace(r, i, input, output, bundle, signature, hired), ref, status)
    PROVE  /\ IsReceipt(rc) /\ rc.run = r /\ rc.step = i /\ rc.agent = agent
           /\ rc.inputHash = inputHash /\ rc.outputHash = outputHash
           /\ rc.attestationRef = ref /\ rc.status = status
           /\ rc.traceRoot.input = input /\ rc.traceRoot.output = output
           /\ rc.traceRoot.bundle = bundle /\ rc.traceRoot.signature = signature
           /\ rc.traceRoot.hiredRuns = hired
BY DEF Receipt, BuildTrace, IsReceipt, ReceiptFields, TraceFields

LEMMA Ranks ==
    /\ Rank("absent") = 1 /\ Rank("present") = 2 /\ Rank("attested") = 3 /\ Rank("bound") = 4
<1>1. /\ Levels[1] = "absent" /\ Levels[2] = "present" /\ Levels[3] = "attested"
      /\ Levels[4] = "bound"
  BY DEF Levels
<1>2. ASSUME NEW level, NEW n \in 1 .. 4, Levels[n] = level, \A k \in 1 .. 4 : Levels[k] = level => k = n
      PROVE  Rank(level) = n
  BY <1>2 DEF Rank
<1>3. 1 .. 4 = {1, 2, 3, 4}
  OBVIOUS
<1>4. Rank("absent") = 1
  BY <1>1, <1>2, <1>3
<1>5. Rank("present") = 2
  BY <1>1, <1>2, <1>3
<1>6. Rank("attested") = 3
  BY <1>1, <1>2, <1>3
<1>7. Rank("bound") = 4
  BY <1>1, <1>2, <1>3
<1> QED
  BY <1>4, <1>5, <1>6, <1>7

\* A step that requires a bound attestation is ok only with one.
LEMMA BoundIsProven ==
    ASSUME NEW requires, NEW bundle, NEW valid, NEW acknowledged,
           \A a \in acknowledged : a.signer = TeeKey,
           requires.attestation, requires.binding = "bound",
           StatusSucceeded(DecideStepStatus(requires, bundle,
                               VerifyAttestation(bundle, Answer, acknowledged), valid))
    PROVE  Proven(bundle, Answer)
<1> DEFINE level == VerifyAttestation(bundle, Answer, acknowledged)
           signed == {q \in UNION {b.response : b \in bundle} :
                         \E a \in acknowledged : a.vouchedFor /\ q.signer = a.signer}
<1>1. MeetsBinding(level, "bound")
  BY DEF DecideStepStatus, StatusSucceeded, StatusUnattested, StatusOk
<1>2. level = IF bundle = {} THEN "absent"
              ELSE IF signed = {} THEN "present"
              ELSE IF \A q \in signed : q.carries # Answer THEN "attested"
              ELSE "bound"
  BY DEF VerifyAttestation
<1>3. level \notin {"absent", "present", "attested"}
  BY <1>1, Ranks DEF MeetsBinding
<1>4. PICK q \in signed : q.carries = Answer
  BY <1>2, <1>3
<1> QED
  BY <1>4 DEF Proven

\* What was performed, failed or was skipped is recorded as it was.
LEMMA HonestReceipt ==
    ASSUME ChainInv, NEW r \in RunIds, NEW i \in DOMAIN FlowSteps(r),
           FlowSteps(r)[i].reads \subseteq Anchored(r), NEW rc \in Honest(r, i)
    PROVE  ReceiptOK(r, rc) /\ Plain(rc) /\ IsReceipt(rc) /\ rc.step = i
<1> DEFINE f == FlowOf[r]
           step == FlowSteps(r)[i]
           input == ResolvedInput(r, i)
           Signature(m) ==
               {[by |-> The(AgentSigner(step.agent)),
                 over |-> OutputClaim(r, i, step.agent, HashJson(input), HashJson(Answer))] :
                    x \in {1} \cap {IF m.signs THEN 1 ELSE 0}}
<1>1. step.agent \in Agents
  BY FlowFacts
<1>2. CASE rc = BuildSkipped(r, i, f, step)
  <2>1. /\ IsReceipt(rc) /\ rc.run = r /\ rc.step = i /\ rc.agent = step.agent
        /\ rc.inputHash = {} /\ rc.outputHash = {} /\ rc.attestationRef = {} /\ rc.status = StatusSkipped
        /\ rc.traceRoot.output = Empty /\ rc.traceRoot.bundle = {}
        /\ rc.traceRoot.signature = {} /\ rc.traceRoot.hiredRuns = {}
    BY <1>2, MadeReceipt DEF BuildSkipped, ZeroHash
  <2> HIDE DEF step, input, f
  <2>2. ReceiptOK(r, rc)
    BY <1>1, <2>1 DEF ReceiptOK, HiredOK, Special, ZeroHash, step
  <2>3. PlainHashes(rc)
    BY <2>1 DEF PlainHashes, Special, ZeroHash, StatusSucceeded, StatusSkipped, StatusOk
  <2>4. PlainEvidence(rc) /\ PlainHired(rc)
    BY <2>1 DEF PlainEvidence, PlainHired, ZeroHash, step
  <2> QED
    BY <2>1, <2>2, <2>3, <2>4 DEF Plain
<1>3. ASSUME NEW x, x = {} \/ x = {input}, rc = BuildFailed(r, i, f, step, x), ~Blocked(r, i)
      PROVE  ReceiptOK(r, rc) /\ Plain(rc) /\ IsReceipt(rc) /\ rc.step = i
  <2>1. /\ IsReceipt(rc) /\ rc.run = r /\ rc.step = i /\ rc.agent = step.agent
        /\ rc.inputHash = x /\ rc.outputHash = {} /\ rc.attestationRef = {} /\ rc.status = StatusFailed
        /\ rc.traceRoot.input = (IF x = {} THEN Empty ELSE The(x))
        /\ rc.traceRoot.output = Empty /\ rc.traceRoot.bundle = {}
        /\ rc.traceRoot.signature = {} /\ rc.traceRoot.hiredRuns = {}
    BY <1>3, MadeReceipt DEF BuildFailed, ZeroHash
  <2>2. x # {} => The(x) = input
    BY <1>3, TheOne
  <2>3. ReceiptOK(r, rc)
    BY <1>1, <2>1 DEF ReceiptOK, HiredOK, Special, ZeroHash
  <2>4. PlainHashes(rc)
    BY <1>3, <2>1, <2>2 DEF PlainHashes, Special, ZeroHash, HashJson, StatusSucceeded, StatusFailed, StatusOk
  <2>5. PlainEvidence(rc) /\ PlainHired(rc)
    BY <2>1 DEF PlainEvidence, PlainHired, ZeroHash
  <2> QED
    BY <2>1, <2>3, <2>4, <2>5 DEF Plain
<1>4. ASSUME NEW m \in Manners[r][i], Child(r, i) = NoRun, ~Blocked(r, i),
             rc = BuildPerformed(r, i, f, step, input, Answer, m.bundle,
                       VerifyAttestation(m.bundle, Answer, AcknowledgedSigner),
                       Signature(m), AgentSigner(step.agent), m.hired)
      PROVE  ReceiptOK(r, rc) /\ Plain(rc) /\ IsReceipt(rc) /\ rc.step = i
  <2> DEFINE status == DecideStepStatus(step.requires, m.bundle,
                           VerifyAttestation(m.bundle, Answer, AcknowledgedSigner),
                           VerifyAgentSignature(
                               OutputClaim(r, i, step.agent, HashJson(input), HashJson(Answer)),
                               Signature(m), AgentSigner(step.agent)))
  <2>1. /\ IsReceipt(rc) /\ rc.run = r /\ rc.step = i /\ rc.agent = step.agent
        /\ rc.inputHash = {input} /\ rc.outputHash = {Answer} /\ rc.attestationRef = m.bundle
        /\ rc.status = status
        /\ rc.traceRoot.input = input
        /\ rc.traceRoot.output = Answer /\ rc.traceRoot.bundle = m.bundle
        /\ rc.traceRoot.signature = Signature(m) /\ rc.traceRoot.hiredRuns = m.hired
    BY <1>4, MadeReceipt DEF BuildPerformed, HashJson, AttestationRefFor
  <2>2. \A s \in Signature(m) :
           s = [by |-> KeysOf[step.agent][keysUsed[step.agent] + 1],
                over |-> OutputClaim(r, i, step.agent, {input}, {Answer})]
    BY TheOne DEF AgentSigner, HashJson
  <2>3. m.hired \subseteq RunIds
    BY DisclosuresAreRuns DEF FlowSteps
  <2>4. \A a \in AcknowledgedSigner : a.signer = TeeKey
    BY DEF AcknowledgedSigner
  <2>5. StatusSucceeded(status) /\ step.requires.attestation /\ step.requires.binding = "bound"
        => Proven(m.bundle, Answer)
    BY <2>4, BoundIsProven
  <2>6. keysUsed[step.agent] + 1 \in 1 .. keysUsed[step.agent] + 1
    <3>1. keysUsed[step.agent] \in Nat
      BY <1>1 DEF ChainInv, KeysOK
    <3> QED
      BY <3>1
  <2> DEFINE signature == Signature(m)
  <2>7. rc.traceRoot.signature = signature
    BY <2>1
  <2>8. \A s, t \in signature : s = t
    BY <2>2
  <2>9. \A s \in signature : /\ s.by = KeysOf[step.agent][keysUsed[step.agent] + 1]
                             /\ s.over = OutputClaim(r, i, step.agent, {input}, {Answer})
    BY <2>2
  <2> HIDE DEF signature, status
  <2>10. ReceiptOK(r, rc)
    BY <1>1, <1>4, <2>1, <2>3, <2>7, <2>8 DEF ReceiptOK, HiredOK, Special
  <2>11. PlainHashes(rc)
    BY <1>4, <2>1 DEF PlainHashes, Special, ZeroHash, HashJson
  <2>12. PlainEvidence(rc)
    BY <2>1, <2>5, <2>6, <2>7, <2>9 DEF PlainEvidence
  <2>13. PlainHired(rc)
    BY <1>4, <2>1 DEF PlainHired
  <2> QED
    BY <2>1, <2>10, <2>11, <2>12, <2>13 DEF Plain
<1>5. ASSUME Child(r, i) # NoRun, ~Blocked(r, i), NEW s \in seal[Child(r, i)], RunSucceeded(Child(r, i)),
             rc = BuildSubFlow(r, i, f, step, input,
                      HiredOutput(Child(r, i), s.chainRoot, s.stepCount, s.outcome))
      PROVE  ReceiptOK(r, rc) /\ Plain(rc) /\ IsReceipt(rc) /\ rc.step = i
  <2> DEFINE child == Child(r, i)
  <2>1. child \in RunIds
    BY <1>5, ChildFacts
  <2>2. /\ s.chainRoot \in RootsOf(child) /\ s.stepCount = Cardinality(DOMAIN FlowSteps(child))
        /\ s.outcome = StatusOk
    BY <1>5, <2>1 DEF ChainInv, LedgerOK, SealOK
  <2>3. rc = BuildSubFlow(r, i, f, step, input, OutputOfRun(child, s.chainRoot))
    BY <1>5, <2>2 DEF OutputOfRun
  <2>4. /\ IsReceipt(rc) /\ rc.run = r /\ rc.step = i /\ rc.agent = step.agent
        /\ rc.inputHash = {input} /\ rc.outputHash = {OutputOfRun(child, s.chainRoot)}
        /\ rc.attestationRef = {} /\ rc.status = StatusOk
        /\ rc.traceRoot.input = input
        /\ rc.traceRoot.output = OutputOfRun(child, s.chainRoot) /\ rc.traceRoot.bundle = {}
        /\ rc.traceRoot.signature = {} /\ rc.traceRoot.hiredRuns = {}
    BY <2>3, MadeReceipt DEF BuildSubFlow, HashJson, ZeroHash
  <2>5. ReceiptOK(r, rc)
    BY <1>1, <1>5, <2>2, <2>4 DEF ReceiptOK, HiredOK
  <2>6. PlainHashes(rc)
    BY <1>5, <2>4 DEF PlainHashes, ZeroHash, HashJson
  <2>7. PlainEvidence(rc) /\ PlainHired(rc)
    BY <1>5, <2>4 DEF PlainEvidence, PlainHired
  <2> QED
    BY <2>4, <2>5, <2>6, <2>7 DEF Plain
<1>6. CASE Blocked(r, i)
  BY <1>2, <1>6 DEF Honest
<1>7. CASE ~Blocked(r, i)
  <2>1. \/ rc = BuildFailed(r, i, f, step, {})
        \/ rc = BuildFailed(r, i, f, step, {input})
        \/ /\ Child(r, i) = NoRun
           /\ \E m \in Manners[r][i] :
                 rc = BuildPerformed(r, i, f, step, input, Answer, m.bundle,
                       VerifyAttestation(m.bundle, Answer, AcknowledgedSigner),
                       Signature(m), AgentSigner(step.agent), m.hired)
        \/ /\ Child(r, i) # NoRun
           /\ \E s \in seal[Child(r, i)] :
                 /\ RunSucceeded(Child(r, i))
                 /\ rc = BuildSubFlow(r, i, f, step, input,
                             HiredOutput(Child(r, i), s.chainRoot, s.stepCount, s.outcome))
    BY <1>7 DEF Honest, Child
  <2> QED
    BY <1>3, <1>4, <1>5, <1>7, <2>1
<1> QED
  BY <1>6, <1>7

-----------------------------------------------------------------------------
\* What an executor at fault anchors instead.
LEMMA SameEvidence ==
    ASSUME NEW r, NEW rc, ReceiptOK(r, rc), NEW wrong,
           wrong.run = rc.run, wrong.step = rc.step, wrong.agent \in Agents,
           wrong.traceRoot.hiredRuns = rc.traceRoot.hiredRuns,
           \A s, t \in wrong.traceRoot.signature : s = t,
           wrong.outputHash = rc.outputHash,
           wrong.traceRoot.output \in {rc.traceRoot.output, Other}
    PROVE  ReceiptOK(r, wrong)
<1>1. HiredOK(r, wrong)
  BY DEF ReceiptOK, HiredOK, Special
<1> QED
  BY <1>1 DEF ReceiptOK

LEMMA MisrecordedReceipt ==
    ASSUME NEW r \in RunIds, NEW rc, ReceiptOK(r, rc), PlainHashes(rc), IsReceipt(rc),
           NEW kind, NEW wrong \in Misrecorded(kind, rc)
    PROVE  ReceiptOK(r, wrong) /\ wrong.step = rc.step
<1>0. /\ rc.agent \in Agents
      /\ \A s, t \in rc.traceRoot.signature : s = t
  BY DEF ReceiptOK
<1> USE DEF IsReceipt, ReceiptFields, TraceFields
<1>1. CASE kind = "input"
  <2>1. wrong = [rc EXCEPT !.inputHash = HashJson(Other), !.traceRoot.input = Other]
    BY <1>1 DEF Misrecorded
  <2>2. /\ wrong.run = rc.run /\ wrong.step = rc.step /\ wrong.agent = rc.agent
        /\ wrong.outputHash = rc.outputHash
        /\ wrong.traceRoot = [rc.traceRoot EXCEPT !.input = Other]
    BY <2>1
  <2>3. /\ wrong.traceRoot.hiredRuns = rc.traceRoot.hiredRuns
        /\ wrong.traceRoot.signature = rc.traceRoot.signature
        /\ wrong.traceRoot.output = rc.traceRoot.output
    BY <2>2
  <2> QED
    BY <1>0, <2>2, <2>3, SameEvidence
<1>2. CASE kind = "trace"
  <2>1. wrong = [rc EXCEPT !.traceRoot.output = Other]
    BY <1>2 DEF Misrecorded
  <2>2. /\ wrong.run = rc.run /\ wrong.step = rc.step /\ wrong.agent = rc.agent
        /\ wrong.outputHash = rc.outputHash
        /\ wrong.traceRoot = [rc.traceRoot EXCEPT !.output = Other]
    BY <2>1
  <2>3. /\ wrong.traceRoot.hiredRuns = rc.traceRoot.hiredRuns
        /\ wrong.traceRoot.signature = rc.traceRoot.signature
        /\ wrong.traceRoot.output = Other
    BY <2>2
  <2> QED
    BY <1>0, <2>2, <2>3, SameEvidence
<1>3. CASE kind = "status"
  <2>1. wrong = [rc EXCEPT !.status = StatusOk]
    BY <1>3 DEF Misrecorded
  <2>2. /\ wrong.run = rc.run /\ wrong.step = rc.step /\ wrong.agent = rc.agent
        /\ wrong.outputHash = rc.outputHash /\ wrong.traceRoot = rc.traceRoot
    BY <2>1
  <2> QED
    BY <1>0, <2>2, SameEvidence
<1>4. CASE kind = "bundle"
  <2>1. PICK b : wrong = [rc EXCEPT !.traceRoot.bundle = b]
    BY <1>4 DEF Misrecorded
  <2>2. /\ wrong.run = rc.run /\ wrong.step = rc.step /\ wrong.agent = rc.agent
        /\ wrong.outputHash = rc.outputHash
        /\ wrong.traceRoot = [rc.traceRoot EXCEPT !.bundle = b]
    BY <2>1
  <2>3. /\ wrong.traceRoot.hiredRuns = rc.traceRoot.hiredRuns
        /\ wrong.traceRoot.signature = rc.traceRoot.signature
        /\ wrong.traceRoot.output = rc.traceRoot.output
    BY <2>2
  <2> QED
    BY <1>0, <2>2, <2>3, SameEvidence
<1>5. CASE kind = "signature"
  <2>1. PICK s : wrong = [rc EXCEPT !.traceRoot.signature = {[s EXCEPT !.by = Stranger]}]
    BY <1>5 DEF Misrecorded
  <2>2. PICK other : wrong = [rc EXCEPT !.traceRoot.signature = {other}]
    BY <2>1
  <2>3. /\ wrong.run = rc.run /\ wrong.step = rc.step /\ wrong.agent = rc.agent
        /\ wrong.outputHash = rc.outputHash
        /\ wrong.traceRoot = [rc.traceRoot EXCEPT !.signature = {other}]
    BY <2>2
  <2>4. /\ wrong.traceRoot.hiredRuns = rc.traceRoot.hiredRuns
        /\ wrong.traceRoot.signature = {other}
        /\ wrong.traceRoot.output = rc.traceRoot.output
    BY <2>3
  <2> QED
    BY <1>0, <2>3, <2>4, SameEvidence
<1>6. CASE kind = "agent"
  <2>1. PICK a \in Agents : wrong = [rc EXCEPT !.agent = a]
    BY <1>6 DEF Misrecorded
  <2>2. /\ wrong.run = rc.run /\ wrong.step = rc.step /\ wrong.agent = a
        /\ wrong.outputHash = rc.outputHash /\ wrong.traceRoot = rc.traceRoot
    BY <2>1
  <2> QED
    BY <1>0, <2>2, SameEvidence
<1>7. CASE kind = "child"
  <2> DEFINE child == Child(rc.run, rc.step)
             hash == HashJson([The(rc.outputHash) EXCEPT !.chainRoot = Other])
  <2>1. /\ rc.outputHash # ZeroHash /\ child # NoRun
        /\ wrong = [rc EXCEPT !.outputHash = hash, !.traceRoot.output.chainRoot = Other]
    BY <1>7 DEF Misrecorded
  <2>2. /\ wrong.run = rc.run /\ wrong.step = rc.step /\ wrong.agent = rc.agent
        /\ wrong.outputHash = hash
        /\ wrong.traceRoot = [rc.traceRoot EXCEPT !.output = [rc.traceRoot.output EXCEPT !.chainRoot = Other]]
    <3> HIDE DEF hash
    <3> QED
      BY <2>1
  <2>3. /\ wrong.traceRoot.hiredRuns = rc.traceRoot.hiredRuns
        /\ wrong.traceRoot.signature = rc.traceRoot.signature
        /\ wrong.traceRoot.output = [rc.traceRoot.output EXCEPT !.chainRoot = Other]
    BY <2>2
  <2>4. rc.run = r
    BY DEF ReceiptOK
  <2>5. PICK root : rc.outputHash = {OutputOfRun(child, root)}
    BY <2>1, <2>4 DEF ReceiptOK, HiredOK
  <2>6. rc.traceRoot.output = OutputOfRun(child, root)
    BY <2>1, <2>5 DEF PlainHashes
  <2>7. [OutputOfRun(child, root) EXCEPT !.chainRoot = Other] = OutputOfRun(child, Other)
    BY DEF OutputOfRun, HiredOutput
  <2>8. /\ wrong.outputHash = {OutputOfRun(child, Other)}
        /\ wrong.traceRoot.output = OutputOfRun(child, Other)
    <3>1. The(rc.outputHash) = OutputOfRun(child, root)
      BY <2>5, TheOne
    <3>2. hash = {[OutputOfRun(child, root) EXCEPT !.chainRoot = Other]}
      BY <3>1 DEF HashJson
    <3> QED
      BY <2>2, <2>3, <2>6, <2>7, <3>2
  <2>9. seal[child] # {}
    BY <2>1, <2>4 DEF ReceiptOK, HiredOK
  <2>10. HiredOK(r, wrong)
    BY <2>1, <2>2, <2>4, <2>8, <2>9 DEF HiredOK, RootsOf
  <2> QED
    BY <1>0, <2>2, <2>3, <2>10 DEF ReceiptOK
<1>8. CASE kind \notin {"input", "trace", "status", "bundle", "signature", "agent", "child"}
  BY <1>8 DEF Misrecorded
<1> QED
  BY <1>1, <1>2, <1>3, <1>4, <1>5, <1>6, <1>7, <1>8

-----------------------------------------------------------------------------
\* What holds of a receipt goes on to hold.
LEMMA ReceiptOKStays ==
    ASSUME NEW r \in RunIds, Grows, NEW rc, ReceiptOK(r, rc)
    PROVE  ReceiptOK(r, rc)'
<1>1. Anchored(r) \subseteq Anchored(r)'
  BY DEF Anchored, Grows
<1>2. rc.step \in DOMAIN FlowSteps(r)
  BY DEF ReceiptOK
<1>3. Child(r, rc.step) # NoRun => Child(r, rc.step) \in RunIds
  BY <1>2, ChildFacts
<1>4. HiredOK(r, rc)'
  BY <1>3 DEF HiredOK, ReceiptOK, Grows
<1> QED
  BY <1>1, <1>4 DEF ReceiptOK

LEMMA PlainStays ==
    ASSUME NEW r \in RunIds, Grows, OnePerStep(r), OnePerStep(r)',
           NEW rc, ReceiptOK(r, rc), Plain(rc), begun[r] # {}
    PROVE  Plain(rc)'
<1>1. rc.run = r /\ rc.step \in DOMAIN FlowSteps(r) /\ rc.agent \in Agents
      /\ FlowSteps(r)[rc.step].reads \subseteq Anchored(r)
  BY DEF ReceiptOK
<1>2. /\ Blocked(r, rc.step)' <=> Blocked(r, rc.step)
      /\ ResolvedInput(r, rc.step)' = ResolvedInput(r, rc.step)
  BY <1>1, InputStays
<1>3. PlainHashes(rc)'
  BY <1>1, <1>2 DEF PlainHashes, Plain
<1>4. PlainHired(rc)'
  <2>1. Child(r, rc.step) # NoRun => Child(r, rc.step) \in RunIds
    BY <1>1, ChildFacts
  <2> QED
    BY <1>1, <2>1 DEF PlainHired, Plain, Grows
<1>5. 1 .. keysUsed[rc.agent] + 1 \subseteq 1 .. keysUsed'[rc.agent] + 1
  <2>1. keysUsed[rc.agent] \in Nat /\ keysUsed'[rc.agent] \in Nat /\ keysUsed[rc.agent] <= keysUsed'[rc.agent]
    BY <1>1 DEF Grows
  <2> QED
    BY <2>1
<1>6. PlainEvidence(rc)'
  BY <1>5 DEF PlainEvidence, Plain
<1> QED
  BY <1>3, <1>4, <1>6 DEF Plain

-----------------------------------------------------------------------------
\* Every step of the chain keeps ChainInv.
LEMMA HiresStay ==
    ASSUME NEW r \in RunIds, Grows, OnePerStep(r), OnePerStep(r)', HiresOK(r),
           \A i \in DOMAIN FlowSteps(r) :
               Child(r, i) # NoRun /\ begun'[Child(r, i)] # begun[Child(r, i)] =>
                   /\ begun[r] # {} /\ FlowSteps(r)[i].reads \subseteq Anchored(r)
                   /\ begun'[Child(r, i)] = {ResolvedInput(r, i)}
    PROVE  HiresOK(r)'
<1> SUFFICES ASSUME NEW i \in DOMAIN FlowSteps(r), Child(r, i) # NoRun, begun'[Child(r, i)] # {}
             PROVE  /\ begun'[r] # {} /\ FlowSteps(r)[i].reads \subseteq Anchored(r)'
                    /\ begun'[Child(r, i)] = {ResolvedInput(r, i)'}
  BY DEF HiresOK
<1>1. /\ begun[r] # {} /\ FlowSteps(r)[i].reads \subseteq Anchored(r)
      /\ begun'[Child(r, i)] = {ResolvedInput(r, i)}
  BY DEF HiresOK
<1>2. ResolvedInput(r, i)' = ResolvedInput(r, i)
  BY <1>1, InputStays
<1>3. Anchored(r) \subseteq Anchored(r)'
  BY DEF Anchored, Grows
<1> QED
  BY <1>1, <1>2, <1>3 DEF Grows

LEMMA SealStays ==
    ASSUME NEW r \in RunIds, Grows, SealOK(r), seal[r] # {} \/ seal'[r] = {}
    PROVE  SealOK(r)'
<1>1. CASE seal'[r] = {}
  BY <1>1 DEF SealOK
<1>2. CASE seal[r] # {}
  <2>1. receipts'[r] = receipts[r] /\ seal'[r] = seal[r] /\ (fault' = "none" => fault = "none")
    BY <1>2 DEF Grows
  <2>2. Anchored(r)' = Anchored(r) /\ (RunSucceeded(r)' <=> RunSucceeded(r))
    BY <2>1 DEF Anchored, RunSucceeded
  <2> QED
    BY <2>1, <2>2 DEF SealOK
<1> QED
  BY <1>1, <1>2

New(r) == receipts'[r] \ receipts[r]
PlainKept == \A r \in RunIds : AllPlain(r) => AllPlain(r)'

LEMMA ChainKeeps ==
    ASSUME ChainInv, Grows,
           receipts' = [r \in RunIds |-> receipts'[r]],
           seal' = [r \in RunIds |-> seal'[r]],
           begun' = [r \in RunIds |-> begun'[r]],
           \A r \in RunIds : \A rc \in New(r) :
               /\ ReceiptOK(r, rc) /\ rc.step \notin Anchored(r) /\ begun[r] # {}
               /\ Plain(rc) \/ (fault = "none" /\ fault' # "none"),
           \A r, q \in RunIds : \A rc \in New(r), rd \in New(q) : r = q /\ rc = rd,
           \A r \in RunIds : begun'[r] = begun[r] \/ \E x : begun'[r] = {x},
           \A r \in RunIds : OnePerStep(r)' => HiresOK(r)',
           \A r \in RunIds : SealOK(r)',
           KeysOK'
    PROVE  ChainInv' /\ PlainKept
<1>1. ASSUME NEW r \in RunIds PROVE OnePerStep(r)'
  <2> SUFFICES ASSUME NEW rc \in receipts'[r], NEW rd \in receipts'[r], rc.step = rd.step PROVE rc = rd
    BY DEF OnePerStep
  <2>1. OnePerStep(r)
    BY DEF ChainInv, LedgerOK
  <2>2. CASE rc \in receipts[r] /\ rd \in receipts[r]
    BY <2>1, <2>2 DEF OnePerStep
  <2>3. CASE rc \in New(r) /\ rd \in New(r)
    BY <2>3
  <2>4. CASE rc \in New(r) /\ rd \in receipts[r]
    BY <2>4 DEF Anchored
  <2>5. CASE rd \in New(r) /\ rc \in receipts[r]
    BY <2>5 DEF Anchored
  <2> QED
    BY <2>2, <2>3, <2>4, <2>5 DEF New
<1>2. ASSUME NEW r \in RunIds, NEW rc \in receipts'[r] PROVE ReceiptOK(r, rc) /\ ReceiptOK(r, rc)' /\ begun[r] # {}
  <2>1. ReceiptOK(r, rc) /\ begun[r] # {}
    BY DEF ChainInv, LedgerOK, New, BegunOK
  <2> QED
    BY <2>1, ReceiptOKStays
<1>3. ASSUME NEW r \in RunIds PROVE BegunOK(r)'
  <2>1. receipts'[r] # {} => begun'[r] # {}
    BY <1>2 DEF Grows
  <2> QED
    BY <2>1 DEF ChainInv, LedgerOK, BegunOK
<1>4. \A r \in RunIds : LedgerOK(r)'
  BY <1>1, <1>2, <1>3 DEF LedgerOK
<1>5. begun'[Root] = {RunInputs}
  BY RootIsARun DEF ChainInv, Grows
<1>6. ASSUME NEW r \in RunIds, NEW rc \in receipts'[r], Plain(rc) PROVE Plain(rc)'
  <2>1. OnePerStep(r)
    BY DEF ChainInv, LedgerOK
  <2> QED
    BY <1>1, <1>2, <1>6, <2>1, PlainStays
<1>7. OneFault'
  <2>1. ASSUME NEW r \in RunIds, NEW rc \in receipts'[r], ~Plain(rc)'
        PROVE  /\ ~Plain(rc) /\ fault' # "none"
               /\ rc \in New(r) => fault = "none"
    <3>1. ~Plain(rc)
      BY <1>6, <2>1
    <3>2. CASE rc \in New(r)
      BY <3>1, <3>2
    <3>3. CASE rc \in receipts[r]
      <4>1. fault # "none"
        BY <3>1, <3>3 DEF ChainInv, OneFault
      <4> QED
        BY <3>1, <3>3, <4>1 DEF Grows, New
    <3> QED
      BY <3>2, <3>3 DEF New
  <2>2. ASSUME NEW r \in RunIds, NEW q \in RunIds, NEW rc \in receipts'[r], NEW rd \in receipts'[q],
               ~Plain(rc)', ~Plain(rd)'
        PROVE  r = q
    <3>1. ~Plain(rc) /\ ~Plain(rd)
      BY <2>1, <2>2
    <3>2. CASE rc \in New(r) /\ rd \in New(q)
      BY <3>2
    <3>3. CASE rc \in New(r) /\ rd \in receipts[q]
      <4>1. fault = "none"
        BY <2>1, <2>2, <3>3
      <4> QED
        BY <3>1, <3>3, <4>1 DEF ChainInv, OneFault
    <3>4. CASE rc \in receipts[r] /\ rd \in New(q)
      <4>1. fault = "none"
        BY <2>1, <2>2, <3>4
      <4> QED
        BY <3>1, <3>4, <4>1 DEF ChainInv, OneFault
    <3>5. CASE rc \in receipts[r] /\ rd \in receipts[q]
      BY <3>1, <3>5 DEF ChainInv, OneFault
    <3> QED
      BY <3>2, <3>3, <3>4, <3>5 DEF New
  <2> QED
    BY <2>1, <2>2 DEF OneFault
<1>8. PlainKept
  <2> SUFFICES ASSUME NEW r \in RunIds, AllPlain(r), NEW rc \in receipts'[r]
               PROVE  fault' # "none" /\ Plain(rc)'
    BY DEF PlainKept, AllPlain, Grows
  <2>1. fault # "none" /\ fault' # "none"
    BY DEF AllPlain, Grows
  <2>2. Plain(rc)
    BY <2>1 DEF AllPlain, New
  <2> QED
    BY <1>6, <2>1, <2>2
<1> QED
  BY <1>4, <1>5, <1>7, <1>8 DEF ChainInv

LEMMA ExecuteKeeps ==
    ASSUME ChainInv, NEW r \in RunIds, ExecuteStep(r), UNCHANGED registryVars
    PROVE  ChainInv' /\ Grows /\ PlainKept
<1> DEFINE Anchors(rc, x) ==
               /\ receipts' = [receipts EXCEPT ![r] = @ \cup {x}]
               /\ \/ x = rc /\ UNCHANGED fault
                  \/ fault = "none" /\ x \in Misrecorded(fault', rc)
<1>0. PICK i \in NextSteps(r) : \E rc \in Honest(r, i) : \E x : Anchors(rc, x)
  BY DEF ExecuteStep, Anchor
<1>1. PICK rc \in Honest(r, i) : \E x : Anchors(rc, x)
  BY <1>0
<1>2. PICK x : Anchors(rc, x)
  BY <1>1
<1>3. /\ seal' = seal /\ begun' = begun /\ keysUsed' = keysUsed
      /\ begun[r] # {} /\ seal[r] = {}
  BY DEF ExecuteStep, CanAnchorNext, registryVars
<1>4. /\ i \in DOMAIN FlowSteps(r) /\ i \notin Anchored(r) /\ FlowSteps(r)[i].reads \subseteq Anchored(r)
  BY NextStepFacts
<1>5. ReceiptOK(r, rc) /\ Plain(rc) /\ IsReceipt(rc) /\ rc.step = i
  BY <1>4, HonestReceipt
<1>6. ReceiptOK(r, x) /\ x.step = i
  BY <1>2, <1>5, MisrecordedReceipt DEF Plain
<1>7. /\ receipts'[r] = receipts[r] \cup {x}
      /\ \A q \in RunIds \ {r} : receipts'[q] = receipts[q]
      /\ receipts' = [q \in RunIds |-> receipts'[q]]
  <2>1. receipts = [q \in RunIds |-> receipts[q]]
    BY DEF ChainInv
  <2> QED
    BY ONLY <1>2, <2>1
<1>8. \A a \in Agents : keysUsed[a] \in Nat
  BY DEF ChainInv, KeysOK
<1>9. fault # "none" => fault' = fault
  BY <1>2
<1>10. Grows
  BY <1>3, <1>7, <1>8, <1>9 DEF Grows
<1>11. \A q \in RunIds : \A y \in New(q) : q = r /\ y = x
  BY <1>7 DEF New
<1>12. Plain(x) \/ (fault = "none" /\ fault' # "none")
  <2>1. CASE x = rc
    BY <1>5, <2>1
  <2>2. CASE fault = "none" /\ x \in Misrecorded(fault', rc)
    <3>1. Misrecorded("none", rc) = {}
      BY DEF Misrecorded
    <3> QED
      BY <2>2, <3>1
  <2> QED
    BY <1>2, <2>1, <2>2
<1>13. ASSUME NEW q \in RunIds, OnePerStep(q)' PROVE HiresOK(q)'
  <2>1. OnePerStep(q) /\ HiresOK(q)
    BY DEF ChainInv, LedgerOK
  <2> QED
    BY <1>3, <1>10, <1>13, <2>1, HiresStay
<1>14. ASSUME NEW q \in RunIds PROVE SealOK(q)'
  <2>1. SealOK(q)
    BY DEF ChainInv, LedgerOK
  <2> QED
    BY <1>3, <1>10, <2>1, SealStays
<1>15. KeysOK'
  BY <1>3 DEF ChainInv, KeysOK
<1>16. /\ seal' = [q \in RunIds |-> seal'[q]] /\ begun' = [q \in RunIds |-> begun'[q]]
  BY <1>3 DEF ChainInv
<1>17. \A q \in RunIds : \A y \in New(q) :
           /\ ReceiptOK(q, y) /\ y.step \notin Anchored(q) /\ begun[q] # {}
           /\ Plain(y) \/ (fault = "none" /\ fault' # "none")
  BY <1>3, <1>4, <1>6, <1>11, <1>12
<1>18. \A p, q \in RunIds : \A y \in New(p), z \in New(q) : p = q /\ y = z
  BY <1>11
<1>19. \A q \in RunIds : begun'[q] = begun[q] \/ \E y : begun'[q] = {y}
  BY <1>3
<1> QED
  BY <1>7, <1>10, <1>13, <1>14, <1>15, <1>16, <1>17, <1>18, <1>19, ChainKeeps

LEMMA HireKeeps ==
    ASSUME ChainInv, NEW r \in RunIds, HireRun(r), UNCHANGED registryVars
    PROVE  ChainInv' /\ Grows /\ PlainKept
<1>1. PICK i \in NextSteps(r) :
          /\ Child(r, i) # NoRun /\ begun[Child(r, i)] = {}
          /\ begun' = [begun EXCEPT ![Child(r, i)] = {ResolvedInput(r, i)}]
  BY DEF HireRun
<1>2. /\ seal' = seal /\ receipts' = receipts /\ keysUsed' = keysUsed /\ fault' = fault
      /\ begun[r] # {}
  BY DEF HireRun, CanAnchorNext, registryVars
<1>3. /\ i \in DOMAIN FlowSteps(r) /\ FlowSteps(r)[i].reads \subseteq Anchored(r)
  BY NextStepFacts
<1>4. Child(r, i) \in RunIds
  BY <1>1, <1>3, ChildFacts
<1>5. /\ begun'[Child(r, i)] = {ResolvedInput(r, i)}
      /\ \A q \in RunIds \ {Child(r, i)} : begun'[q] = begun[q]
      /\ begun' = [q \in RunIds |-> begun'[q]]
  <2>1. begun = [q \in RunIds |-> begun[q]]
    BY DEF ChainInv
  <2> QED
    BY ONLY <1>1, <1>4, <2>1
<1>6. \A a \in Agents : keysUsed[a] \in Nat
  BY DEF ChainInv, KeysOK
<1>7. Grows
  BY <1>1, <1>2, <1>5, <1>6 DEF Grows
<1>8. ASSUME NEW q \in RunIds, OnePerStep(q)' PROVE HiresOK(q)'
  <2>1. OnePerStep(q) /\ HiresOK(q)
    BY DEF ChainInv, LedgerOK
  <2>2. ASSUME NEW j \in DOMAIN FlowSteps(q), Child(q, j) # NoRun, begun'[Child(q, j)] # begun[Child(q, j)]
        PROVE  /\ begun[q] # {} /\ FlowSteps(q)[j].reads \subseteq Anchored(q)
               /\ begun'[Child(q, j)] = {ResolvedInput(q, j)}
    <3>1. Child(q, j) \in RunIds
      BY <2>2, ChildFacts
    <3>2. Child(q, j) = Child(r, i)
      BY <1>5, <2>2, <3>1
    <3>3. q = r /\ j = i
      BY <1>1, <1>3, <3>2, ChildFacts
    <3> QED
      BY <1>2, <1>3, <1>5, <3>3
  <2> QED
    BY <1>7, <1>8, <2>1, <2>2, HiresStay
<1>9. ASSUME NEW q \in RunIds PROVE SealOK(q)'
  <2>1. SealOK(q)
    BY DEF ChainInv, LedgerOK
  <2> QED
    BY <1>2, <1>7, <2>1, SealStays
<1>10. KeysOK'
  BY <1>2 DEF ChainInv, KeysOK
<1>11. /\ seal' = [q \in RunIds |-> seal'[q]] /\ receipts' = [q \in RunIds |-> receipts'[q]]
  BY <1>2 DEF ChainInv
<1>12. \A q \in RunIds : New(q) = {}
  BY <1>2 DEF New
<1>13. \A q \in RunIds : begun'[q] = begun[q] \/ \E x : begun'[q] = {x}
  BY <1>5
<1> QED
  BY <1>5, <1>7, <1>8, <1>9, <1>10, <1>11, <1>12, <1>13, ChainKeeps

\* A run that is complete has one receipt for each of its steps.
LEMMA CountReceipts ==
    ASSUME NEW r \in RunIds, OnePerStep(r), Anchored(r) = DOMAIN FlowSteps(r)
    PROVE  Cardinality(receipts[r]) = Cardinality(DOMAIN FlowSteps(r))
<1> DEFINE S == DOMAIN FlowSteps(r)
           f == [i \in S |-> ReceiptOf(r, i)]
<1>1. \A i \in S : f[i] \in receipts[r] /\ f[i].step = i
  BY AnchoredIs
<1>2. f \in Injection(S, receipts[r])
  <2>1. \A i, j \in S : f[i] = f[j] => i = j
    <3> HIDE DEF f
    <3> QED
      BY <1>1
  <2> QED
    BY <1>1, <2>1 DEF Injection, IsInjective
<1>3. f \in Surjection(S, receipts[r])
  <2>1. \A rc \in receipts[r] : rc.step \in S /\ f[rc.step] = rc
    BY ReceiptIs DEF Anchored
  <2>2. f \in [S -> receipts[r]]
    BY <1>1
  <2> HIDE DEF f
  <2> QED
    BY <2>1, <2>2 DEF Surjection
<1>4. IsFiniteSet(S)
  BY FlowFacts
<1> QED
  BY <1>2, <1>3, <1>4, FS_Surjection

LEMMA RootOf ==
    ASSUME NEW r \in RunIds
    PROVE  FoldChainRoot(r, DOMAIN FlowSteps(r)) = {[run |-> r, steps |-> DOMAIN FlowSteps(r)]}
BY FlowFacts DEF FoldChainRoot

LEMMA SealKeeps ==
    ASSUME ChainInv, NEW r \in RunIds, SealRun(r), UNCHANGED registryVars
    PROVE  ChainInv' /\ Grows /\ PlainKept
<1>1. PICK chainRoot \in FoldChainRoot(r, Anchored(r)) \cup {Other} :
          /\ IF chainRoot # Other THEN UNCHANGED fault ELSE fault = "none" /\ fault' = "root"
          /\ seal' = [seal EXCEPT ![r] = {[chainRoot |-> chainRoot, outcome |-> RunOutcome(r),
                                           stepCount |-> Cardinality(receipts[r])]}]
  BY DEF SealRun
<1>2. /\ begun' = begun /\ receipts' = receipts /\ keysUsed' = keysUsed
      /\ seal[r] = {} /\ Anchored(r) = DOMAIN FlowSteps(r)
  BY DEF SealRun, registryVars, Anchored
<1> DEFINE sealed == [chainRoot |-> chainRoot, outcome |-> RunOutcome(r),
                      stepCount |-> Cardinality(receipts[r])]
<1>3. /\ seal'[r] = {sealed}
      /\ \A q \in RunIds \ {r} : seal'[q] = seal[q]
      /\ seal' = [q \in RunIds |-> seal'[q]]
  <2>1. seal = [q \in RunIds |-> seal[q]]
    BY DEF ChainInv
  <2> HIDE DEF sealed
  <2>2. seal' = [seal EXCEPT ![r] = {sealed}]
    BY <1>1 DEF sealed
  <2> QED
    BY ONLY <2>1, <2>2
<1>4. \A a \in Agents : keysUsed[a] \in Nat
  BY DEF ChainInv, KeysOK
<1>5. fault # "none" => fault' = fault
  BY <1>1
<1>6. Grows
  BY <1>2, <1>3, <1>4, <1>5 DEF Grows
<1>7. ASSUME NEW q \in RunIds, OnePerStep(q)' PROVE HiresOK(q)'
  <2>1. OnePerStep(q) /\ HiresOK(q)
    BY DEF ChainInv, LedgerOK
  <2> QED
    BY <1>2, <1>6, <1>7, <2>1, HiresStay
<1>8. SealOK(r)'
  <2>1. Cardinality(receipts[r]) = Cardinality(DOMAIN FlowSteps(r))
    BY <1>2, CountReceipts DEF ChainInv, LedgerOK
  <2>2. chainRoot \in RootsOf(r)
    BY <1>1, <1>2, RootOf DEF RootsOf
  <2>3. Anchored(r)' = DOMAIN FlowSteps(r) /\ (RunSucceeded(r)' <=> RunSucceeded(r))
    BY <1>2 DEF Anchored, RunSucceeded
  <2>4. RunSucceeded(r) => sealed.outcome = StatusOk
    BY DEF RunOutcome
  <2>5. fault' = "none" => chainRoot # Other
    BY <1>1
  <2>6. sealed.chainRoot = chainRoot /\ sealed.stepCount = Cardinality(receipts[r])
    OBVIOUS
  <2> HIDE DEF sealed
  <2> QED
    BY <1>3, <2>1, <2>2, <2>3, <2>4, <2>5, <2>6 DEF SealOK
<1>9. ASSUME NEW q \in RunIds PROVE SealOK(q)'
  <2>1. SealOK(q)
    BY DEF ChainInv, LedgerOK
  <2> QED
    BY <1>3, <1>6, <1>8, <2>1, SealStays
<1>10. KeysOK'
  BY <1>2 DEF ChainInv, KeysOK
<1>11. /\ begun' = [q \in RunIds |-> begun'[q]] /\ receipts' = [q \in RunIds |-> receipts'[q]]
  BY <1>2 DEF ChainInv
<1>12. \A q \in RunIds : New(q) = {}
  BY <1>2 DEF New
<1>13. \A q \in RunIds : begun'[q] = begun[q] \/ \E x : begun'[q] = {x}
  BY <1>2
<1> QED
  BY <1>3, <1>6, <1>7, <1>9, <1>10, <1>11, <1>12, <1>13, ChainKeeps

\* Rotating a key, or revoking the signer, leaves what the receipts are.
LEMMA RegistryKeeps ==
    ASSUME ChainInv, RegistryStep \/ UNCHANGED <<chainVars, registryVars>>
    PROVE  ChainInv' /\ Grows /\ PlainKept
<1>1. /\ begun' = begun /\ receipts' = receipts /\ seal' = seal /\ fault' = fault
  BY DEF RegistryStep, chainVars
<1>2. KeysOK' /\ \A a \in Agents : keysUsed[a] \in Nat /\ keysUsed'[a] \in Nat /\ keysUsed[a] <= keysUsed'[a]
  <2>1. KeysOK
    BY DEF ChainInv
  <2>2. CASE Revoke
    BY <2>1, <2>2 DEF Revoke, KeysOK
  <2>3. ASSUME NEW a \in Agents, RotateKey(a)
        PROVE  KeysOK' /\ \A b \in Agents : keysUsed[b] \in Nat /\ keysUsed'[b] \in Nat /\ keysUsed[b] <= keysUsed'[b]
    BY <2>1, <2>3 DEF RotateKey, KeysOK
  <2>4. CASE UNCHANGED <<chainVars, registryVars>>
    BY <2>1, <2>4 DEF registryVars, KeysOK
  <2> QED
    BY <2>2, <2>3, <2>4 DEF RegistryStep
<1>3. Grows
  BY <1>1, <1>2 DEF Grows
<1>4. ASSUME NEW q \in RunIds, OnePerStep(q)' PROVE HiresOK(q)'
  <2>1. OnePerStep(q) /\ HiresOK(q)
    BY DEF ChainInv, LedgerOK
  <2> QED
    BY <1>1, <1>3, <1>4, <2>1, HiresStay
<1>5. ASSUME NEW q \in RunIds PROVE SealOK(q)'
  <2>1. SealOK(q)
    BY DEF ChainInv, LedgerOK
  <2> QED
    BY <1>1, <1>3, <2>1, SealStays
<1>6. /\ begun' = [q \in RunIds |-> begun'[q]] /\ receipts' = [q \in RunIds |-> receipts'[q]]
      /\ seal' = [q \in RunIds |-> seal'[q]]
  BY <1>1 DEF ChainInv
<1>7. \A q \in RunIds : New(q) = {}
  BY <1>1 DEF New
<1>8. \A q \in RunIds : begun'[q] = begun[q] \/ \E x : begun'[q] = {x}
  BY <1>1
<1> QED
  BY <1>2, <1>3, <1>4, <1>5, <1>6, <1>7, <1>8, ChainKeeps

LEMMA ChainStepsKeep ==
    ASSUME ChainInv, ChainStep \/ RegistryStep \/ UNCHANGED <<chainVars, registryVars>>
    PROVE  ChainInv' /\ Grows /\ PlainKept
<1>1. CASE ChainStep
  BY <1>1, ExecuteKeeps, HireKeeps, SealKeeps DEF ChainStep
<1> QED
  BY <1>1, RegistryKeeps

LEMMA InitChain == VerifyInit => ChainInv
<1> SUFFICES ASSUME VerifyInit PROVE ChainInv
  OBVIOUS
<1>1. /\ receipts = [r \in RunIds |-> {}] /\ seal = [r \in RunIds |-> {}]
      /\ begun = [r \in RunIds |-> IF r = Root THEN {RunInputs} ELSE {}]
      /\ keysUsed = [a \in Agents |-> 0]
  BY DEF VerifyInit
<1>2. ASSUME NEW r \in RunIds PROVE LedgerOK(r)
  <2>1. HiresOK(r)
    <3>1. \A i \in DOMAIN FlowSteps(r) : Child(r, i) # NoRun => Child(r, i) \in RunIds /\ Child(r, i) # Root
      BY ChildFacts
    <3> QED
      BY <1>1, <3>1 DEF HiresOK
  <2> QED
    BY <1>1, <2>1 DEF LedgerOK, OnePerStep, BegunOK, SealOK
<1>3. OneFault
  BY <1>1 DEF OneFault
<1>4. KeysOK
  BY <1>1, AgentsAreListed DEF KeysOK
<1> QED
  BY <1>1, <1>2, <1>3, <1>4, RootIsARun DEF ChainInv

-----------------------------------------------------------------------------
\* What holds of a call of verifyRun under way.
FrameFields == {"run", "spec", "depth", "at", "governing", "read", "seal", "todo", "had",
                "claims", "failures", "incomplete"}
IsSequence(s) == \E n \in Nat : s = [k \in 1 .. n |-> s[k]]
Clean(f) == f.failures = {} /\ f.incomplete = {}

\* A claim with a root is the one a receipt's trace makes.
ClaimOK(f, claim) ==
    /\ claim.run \in RunIds
    /\ claim.root # {} =>
          \E rc \in receipts[f.run] :
              /\ rc.step = claim.step /\ rc.step \in f.had /\ rc.traceRoot.output \notin Special
              /\ claim.run = Child(f.run, rc.step) /\ claim.root = {rc.traceRoot.output.chainRoot}

Shape(f) ==
    /\ DOMAIN f = FrameFields /\ f.run \in RunIds
    /\ f.at \in {"logs", "seal", "steps", "linkage", "hired"}
    /\ f.todo \subseteq f.read /\ f.had \subseteq f.read \ f.todo /\ f.read \subseteq Anchored(f.run)
    /\ f.at = "seal" => f.todo = f.read /\ f.todo # {} /\ f.had = {}
    /\ f.at = "steps" => f.todo # {}
    /\ f.at \in {"linkage", "hired"} => f.todo = {}
    /\ f.at = "logs" => f.read = {}
    /\ f.at \in {"logs", "seal"} => Clean(f)
    /\ IsSequence(f.claims) /\ \A k \in DOMAIN f.claims : ClaimOK(f, f.claims[k])

\* The inputs linkage is checked with are those the run was begun with, or
\* whoever stated them wrongly was not at fault in the run itself.
SpecOK(f) ==
    \/ f.spec = {}
    \/ \E s : /\ f.spec = {s} /\ s.flow = FlowOf[f.run]
              /\ begun[f.run] = {s.inputs} \/ AllPlain(f.run)

\* A receipt that the checks of a step find nothing against.
Checked(rc) ==
    /\ HashFailures(rc, rc.traceRoot) = {} /\ CommitFailures(rc) = {}
    /\ rc.attestationRef # ZeroHash => rc.attestationRef = rc.traceRoot.bundle
    /\ \A s \in rc.traceRoot.signature :
          /\ \E k \in DOMAIN KeysOf[rc.agent] : KeysOf[rc.agent][k] = s.by
          /\ s.over = OutputClaim(rc.run, rc.step, rc.agent, rc.inputHash, rc.outputHash)

\* A receipt whose input derives from receipts of steps that are ok.
Linked(rc) ==
    StatusSucceeded(rc.status) =>
        /\ ~Blocked(rc.run, rc.step)
        /\ rc.inputHash = HashJson(ResolvedInput(rc.run, rc.step))
        /\ rc.outputHash # ZeroHash

ClaimOf(rc) ==
    [step |-> rc.step, run |-> Child(rc.run, rc.step), root |-> {The(rc.outputHash).chainRoot}]
Pending(f, rc) == \E k \in DOMAIN f.claims : f.claims[k] = ClaimOf(rc)

\* The run a step hired was verified and sealed what the step's output says.
Settled(rc) ==
    LET child == Child(rc.run, rc.step)
    IN  child \in verified /\ \E s \in seal[child] : The(rc.outputHash).chainRoot = s.chainRoot

Hires(rc) == Child(rc.run, rc.step) # NoRun /\ StatusSucceeded(rc.status)

\* As long as nothing was found and nothing was missing: the seal is the run's
\* and its root that of the receipts read; every trace was had, and what is
\* claimed of a hired run still has to be followed or was confirmed.
BooksOK(f) ==
    Clean(f) /\ f.at \in {"steps", "linkage", "hired"} =>
        /\ f.seal = seal[f.run]
        /\ \E s \in f.seal : {s.chainRoot} = FoldChainRoot(f.run, f.read)
        /\ f.had = f.read \ f.todo
        /\ \A rc \in receipts[f.run] : rc.step \in f.had =>
              Checked(rc) /\ (Hires(rc) => Pending(f, rc) \/ Settled(rc))

LinkedOK(f) ==
    Clean(f) /\ f.at = "hired" =>
        /\ f.read = DOMAIN FlowSteps(f.run)
        /\ \A rc \in receipts[f.run] : Linked(rc)

FrameOK(f) == Shape(f) /\ SpecOK(f) /\ BooksOK(f) /\ LinkedOK(f)

\* A caller waits for the run its first claim names.
StackOK ==
    \A k \in DOMAIN frames : \A below \in DOMAIN frames : below = k + 1 =>
        /\ frames[k].at = "hired" /\ frames[k].claims # <<>>
        /\ Head(frames[k].claims).run = frames[below].run

SoundRun(r) ==
    /\ \E s \in seal[r] : {s.chainRoot} = FoldChainRoot(r, DOMAIN FlowSteps(r))
    /\ \A rc \in receipts[r] : Checked(rc) /\ Linked(rc) /\ (Hires(rc) => Settled(rc))

Calls == {frames[k] : k \in DOMAIN frames}

FramesOK ==
    /\ IsSequence(frames) /\ \A f \in Calls : FrameOK(f)
    /\ StackOK
    /\ verified \subseteq RunIds /\ \A r \in verified : SoundRun(r)

VerifyInv == ChainInv /\ FramesOK

-----------------------------------------------------------------------------
\* Sequences that are known by their length and their elements only.
LEMMA SequenceFacts ==
    ASSUME NEW s, IsSequence(s)
    PROVE  /\ Len(s) \in Nat /\ DOMAIN s = 1 .. Len(s)
           /\ s \in Seq({s[k] : k \in DOMAIN s})
           /\ s # <<>> <=> Len(s) > 0
<1>1. PICK n \in Nat : s = [k \in 1 .. n |-> s[k]]
  BY DEF IsSequence
<1>2. DOMAIN s = 1 .. n
  BY <1>1
<1> DEFINE S == {s[k] : k \in DOMAIN s}
<1>3. s \in [1 .. n -> S]
  BY <1>1, <1>2
<1>4. s \in Seq(S)
  BY <1>3, SeqDef
<1> HIDE DEF S
<1> QED
  BY <1>2, <1>4 DEF S

LEMMA SequenceOf ==
    ASSUME NEW S, NEW s \in Seq(S)
    PROVE  IsSequence(s)
<1>1. Len(s) \in Nat /\ s = [k \in 1 .. Len(s) |-> s[k]]
  OBVIOUS
<1> QED
  BY <1>1 DEF IsSequence

LEMMA AppendFacts ==
    ASSUME NEW s, IsSequence(s), NEW x
    PROVE  /\ IsSequence(Append(s, x)) /\ DOMAIN Append(s, x) = 1 .. Len(s) + 1
           /\ \A k \in DOMAIN s : Append(s, x)[k] = s[k]
           /\ Append(s, x)[Len(s) + 1] = x
<1> DEFINE S == {s[k] : k \in DOMAIN s} \cup {x}
<1>1. s \in Seq(S) /\ x \in S
  <2>1. s \in Seq({s[k] : k \in DOMAIN s})
    BY SequenceFacts
  <2> QED
    BY <2>1
<1> HIDE DEF S
<1>2. IsSequence(Append(s, x))
  <2>1. Append(s, x) \in Seq(S)
    BY <1>1
  <2> QED
    BY <2>1, SequenceOf
<1>3. /\ DOMAIN Append(s, x) = 1 .. Len(s) + 1 /\ DOMAIN s = 1 .. Len(s)
      /\ \A k \in 1 .. Len(s) : Append(s, x)[k] = s[k]
      /\ Append(s, x)[Len(s) + 1] = x
  BY <1>1
<1> QED
  BY <1>2, <1>3

LEMMA TailFacts ==
    ASSUME NEW s, IsSequence(s), s # <<>>
    PROVE  /\ IsSequence(Tail(s)) /\ DOMAIN Tail(s) = 1 .. Len(s) - 1 /\ Len(s) \in Nat \ {0}
           /\ \A k \in 1 .. Len(s) - 1 : Tail(s)[k] = s[k + 1]
           /\ Head(s) = s[1] /\ 1 \in DOMAIN s /\ DOMAIN s = 1 .. Len(s)
<1> DEFINE S == {s[k] : k \in DOMAIN s}
<1>1. s \in Seq(S) /\ Len(s) \in Nat /\ Len(s) > 0 /\ DOMAIN s = 1 .. Len(s)
  BY SequenceFacts
<1> HIDE DEF S
<1>2. IsSequence(Tail(s))
  <2>1. Tail(s) \in Seq(S)
    BY <1>1
  <2> QED
    BY <2>1, SequenceOf
<1>3. /\ DOMAIN Tail(s) = 1 .. Len(s) - 1
      /\ \A k \in 1 .. Len(s) - 1 : Tail(s)[k] = s[k + 1]
  BY <1>1
<1>4. Head(s) = s[1] /\ 1 \in DOMAIN s
  BY <1>1
<1> QED
  BY <1>1, <1>2, <1>3, <1>4

\* At most one element more at the end.
LEMMA ExtendFacts ==
    ASSUME NEW s, IsSequence(s), NEW t, t = <<>> \/ \E x : t = <<x>>
    PROVE  /\ IsSequence(s \o t)
           /\ \A k \in DOMAIN s : k \in DOMAIN (s \o t) /\ (s \o t)[k] = s[k]
           /\ \A k \in DOMAIN (s \o t) : k \in DOMAIN s \/ t = <<(s \o t)[k]>>
           /\ \A x : t = <<x>> => \E k \in DOMAIN (s \o t) : (s \o t)[k] = x
<1>1. CASE t = <<>>
  <2> DEFINE S == {s[k] : k \in DOMAIN s}
  <2>1. s \in Seq(S)
    BY SequenceFacts
  <2> HIDE DEF S
  <2>2. s \o <<>> = s
    BY <2>1
  <2>3. \A x : <<x>> # <<>>
    OBVIOUS
  <2> QED
    BY <1>1, <2>2, <2>3
<1>2. ASSUME NEW x, t = <<x>> PROVE s \o t = Append(s, x)
  <2> DEFINE S == {s[k] : k \in DOMAIN s} \cup {x}
  <2>1. s \in Seq({s[k] : k \in DOMAIN s})
    BY SequenceFacts
  <2>2. s \in Seq(S) /\ x \in S
    BY <2>1
  <2> HIDE DEF S
  <2> QED
    BY <1>2, <2>2
<1>3. ASSUME NEW x, t = <<x>>
      PROVE  /\ IsSequence(s \o t)
             /\ \A k \in DOMAIN s : k \in DOMAIN (s \o t) /\ (s \o t)[k] = s[k]
             /\ \A k \in DOMAIN (s \o t) : k \in DOMAIN s \/ t = <<(s \o t)[k]>>
             /\ \A y : t = <<y>> => \E k \in DOMAIN (s \o t) : (s \o t)[k] = y
  <2>1. /\ IsSequence(Append(s, x)) /\ DOMAIN Append(s, x) = 1 .. Len(s) + 1
        /\ \A k \in DOMAIN s : Append(s, x)[k] = s[k]
        /\ Append(s, x)[Len(s) + 1] = x
    BY AppendFacts
  <2>2. s \o t = Append(s, x)
    BY <1>2, <1>3
  <2>3. Len(s) \in Nat /\ DOMAIN s = 1 .. Len(s)
    BY SequenceFacts
  <2>4. \A y : t = <<y>> => y = x
    BY <1>3
  <2> DEFINE u == Append(s, x)
  <2> HIDE DEF u
  <2>5. /\ \A k \in DOMAIN s : k \in DOMAIN u /\ u[k] = s[k]
        /\ \A k \in DOMAIN u : k \in DOMAIN s \/ k = Len(s) + 1
        /\ Len(s) + 1 \in DOMAIN u /\ u[Len(s) + 1] = x
    BY <2>1, <2>3 DEF u
  <2> QED
    BY <1>3, <2>1, <2>2, <2>4, <2>5 DEF u
<1> QED
  BY <1>1, <1>3

-----------------------------------------------------------------------------
\* What a verifier knows of the chain stays true while the chain goes on.
Goes == ChainInv /\ ChainInv' /\ Grows /\ PlainKept /\ verified \subseteq verified'

LEMMA SealedStays ==
    ASSUME Goes, NEW r \in RunIds, seal[r] # {}
    PROVE  /\ receipts'[r] = receipts[r] /\ seal'[r] = seal[r] /\ begun'[r] = begun[r]
           /\ begun[r] # {} /\ Anchored(r) = DOMAIN FlowSteps(r)
           /\ \A s \in seal[r] : seal[r] = {s}
           /\ \A rc \in receipts[r] : Linked(rc) => Linked(rc)'
<1>1. receipts'[r] = receipts[r] /\ seal'[r] = seal[r]
  BY DEF Goes, Grows
<1>2. LedgerOK(r) /\ LedgerOK(r)'
  BY DEF Goes, ChainInv
<1>3. Anchored(r) = DOMAIN FlowSteps(r) /\ \A s \in seal[r] : seal[r] = {s}
  BY <1>2 DEF LedgerOK, SealOK
<1>4. receipts[r] # {}
  BY <1>3, FlowFacts DEF Anchored
<1>5. begun[r] # {} /\ begun'[r] = begun[r]
  BY <1>2, <1>4 DEF LedgerOK, BegunOK, Goes, Grows
<1>6. ASSUME NEW rc \in receipts[r], Linked(rc) PROVE Linked(rc)'
  <2>1. ReceiptOK(r, rc) /\ OnePerStep(r) /\ OnePerStep(r)' /\ Grows
    BY <1>2 DEF LedgerOK, Goes
  <2>2. /\ rc.run = r /\ rc.step \in DOMAIN FlowSteps(r)
        /\ FlowSteps(r)[rc.step].reads \subseteq Anchored(r)
    BY <2>1 DEF ReceiptOK
  <2>3. /\ Blocked(r, rc.step)' <=> Blocked(r, rc.step)
        /\ ResolvedInput(r, rc.step)' = ResolvedInput(r, rc.step)
    BY <1>5, <2>1, <2>2, InputStays
  <2> QED
    BY <1>6, <2>2, <2>3 DEF Linked
<1> QED
  BY <1>1, <1>3, <1>5, <1>6

LEMMA SettledStays ==
    ASSUME Goes, NEW r \in RunIds, NEW rc \in receipts[r], Hires(rc), Settled(rc)
    PROVE  Settled(rc)'
<1>1. ReceiptOK(r, rc)
  BY DEF Goes, ChainInv, LedgerOK
<1>2. Child(rc.run, rc.step) \in RunIds
  BY <1>1, ChildFacts DEF ReceiptOK, Hires
<1>3. seal'[Child(rc.run, rc.step)] = seal[Child(rc.run, rc.step)]
  BY <1>2, SealedStays DEF Settled
<1> QED
  BY <1>3 DEF Settled, Goes

LEMMA SoundStays ==
    ASSUME Goes, NEW r \in RunIds, SoundRun(r)
    PROVE  SoundRun(r)'
<1>1. seal[r] # {}
  BY DEF SoundRun
<1>2. /\ receipts'[r] = receipts[r] /\ seal'[r] = seal[r]
      /\ \A rc \in receipts[r] : Linked(rc) => Linked(rc)'
  BY <1>1, SealedStays
<1>3. \A rc \in receipts[r] : Hires(rc) => Settled(rc)'
  BY SettledStays DEF SoundRun
<1>4. \A rc \in receipts[r] : (Checked(rc)' <=> Checked(rc)) /\ (Hires(rc)' <=> Hires(rc))
  BY DEF Checked, Hires
<1> QED
  BY <1>2, <1>3, <1>4 DEF SoundRun

LEMMA FrameStays ==
    ASSUME Goes, NEW f, FrameOK(f)
    PROVE  FrameOK(f)'
<1> DEFINE r == f.run
<1>1. r \in RunIds /\ receipts[r] \subseteq receipts'[r]
  BY DEF FrameOK, Shape, Goes, Grows
<1>2. Anchored(r) \subseteq Anchored(r)'
  BY <1>1 DEF Anchored
<1>3. \A claim : ClaimOK(f, claim) => ClaimOK(f, claim)'
  BY <1>1 DEF ClaimOK
<1>4. Shape(f)'
  BY <1>2, <1>3 DEF Shape, FrameOK, Clean
<1>5. SpecOK(f)'
  BY <1>1 DEF SpecOK, FrameOK, Goes, PlainKept, Grows
<1>6. CASE Clean(f) /\ f.at \in {"steps", "linkage", "hired"}
  <2>1. f.seal = seal[r] /\ seal[r] # {}
    BY <1>6 DEF FrameOK, BooksOK
  <2>2. /\ receipts'[r] = receipts[r] /\ seal'[r] = seal[r]
        /\ \A rc \in receipts[r] : Linked(rc) => Linked(rc)'
    BY <1>1, <2>1, SealedStays
  <2>3. \A rc \in receipts[r] : (Checked(rc)' <=> Checked(rc)) /\ (Hires(rc)' <=> Hires(rc))
                                /\ (Pending(f, rc)' <=> Pending(f, rc))
    BY DEF Checked, Hires, Pending, ClaimOf
  <2>4. \A rc \in receipts[r] : Hires(rc) /\ Settled(rc) => Settled(rc)'
    BY <1>1, SettledStays
  <2>5. BooksOK(f)'
    BY <1>6, <2>2, <2>3, <2>4 DEF FrameOK, BooksOK
  <2>6. LinkedOK(f)'
    BY <1>6, <2>2 DEF FrameOK, LinkedOK
  <2> QED
    BY <1>4, <1>5, <2>5, <2>6 DEF FrameOK
<1>7. CASE ~(Clean(f) /\ f.at \in {"steps", "linkage", "hired"})
  BY <1>4, <1>5, <1>7 DEF FrameOK, BooksOK, LinkedOK, Clean
<1> QED
  BY <1>6, <1>7

\* The chain and the registries go on while runs are verified.
LEMMA ChainGoes ==
    ASSUME ChainInv, ChainStep \/ RegistryStep \/ UNCHANGED <<chainVars, registryVars>>,
           verified \subseteq verified'
    PROVE  Goes
BY ChainStepsKeep DEF Goes

LEMMA ElsewhereKeeps ==
    ASSUME VerifyInv, ChainStep \/ RegistryStep \/ UNCHANGED verifyVars
    PROVE  VerifyInv'
<1>1. frames' = frames /\ verified' = verified
  BY DEF ChainStep, RegistryStep, verifierVars, verifyVars
<1>2. Goes
  BY <1>1, ChainGoes DEF VerifyInv, verifyVars, chainVars, registryVars
<1>3. \A f \in Calls : FrameOK(f)'
  BY <1>2, FrameStays DEF VerifyInv, FramesOK
<1>4. \A r \in verified : SoundRun(r)'
  BY <1>2, SoundStays DEF VerifyInv, FramesOK
<1>5. StackOK' /\ Calls' = Calls
  BY <1>1 DEF VerifyInv, FramesOK, StackOK, Calls
<1>6. FramesOK'
  BY <1>1, <1>3, <1>4, <1>5 DEF VerifyInv, FramesOK
<1> QED
  BY <1>2, <1>6 DEF VerifyInv, Goes

-----------------------------------------------------------------------------
\* The calls under way: the innermost one goes on, calls another or returns.
Quiet == UNCHANGED <<chainVars, registryVars>> /\ verified \subseteq verified'

LEMMA TopFacts ==
    ASSUME VerifyInv, frames # <<>>
    PROVE  /\ Len(frames) \in Nat \ {0} /\ DOMAIN frames = 1 .. Len(frames)
           /\ frames = [k \in 1 .. Len(frames) |-> frames[k]]
           /\ Top \in Calls /\ FrameOK(Top)
<1>1. IsSequence(frames)
  BY DEF VerifyInv, FramesOK
<1>2. Len(frames) \in Nat \ {0} /\ DOMAIN frames = 1 .. Len(frames)
  BY <1>1, SequenceFacts
<1>3. frames = [k \in DOMAIN frames |-> frames[k]]
  BY <1>1 DEF IsSequence
<1>4. Top \in Calls
  BY <1>2 DEF Top, Calls
<1> QED
  BY <1>2, <1>3, <1>4 DEF VerifyInv, FramesOK

\* Everything but the innermost call is as it was.
LEMMA CallsKeep ==
    ASSUME VerifyInv, Quiet, IsSequence(frames)', StackOK',
           \A f \in Calls' : f \in Calls \/ FrameOK(f)',
           \A r \in verified' : r \in verified \/ (r \in RunIds /\ SoundRun(r)')
    PROVE  VerifyInv'
<1>1. Goes
  BY ChainGoes DEF VerifyInv, Quiet
<1>2. \A f \in Calls' : FrameOK(f)'
  BY <1>1, FrameStays DEF VerifyInv, FramesOK
<1>3. \A r \in verified' : r \in RunIds /\ SoundRun(r)'
  BY <1>1, SoundStays DEF VerifyInv, FramesOK
<1> QED
  BY <1>1, <1>2, <1>3 DEF VerifyInv, FramesOK, Goes

LEMMA ReplaceKeeps ==
    ASSUME VerifyInv, frames # <<>>, Quiet, verified' = verified,
           NEW g, Replace(g), FrameOK(g)', g.run = Top.run
    PROVE  VerifyInv'
<1> DEFINE n == Len(frames)
<1>1. n \in Nat \ {0} /\ DOMAIN frames = 1 .. n /\ frames = [k \in 1 .. n |-> frames[k]]
  BY TopFacts
<1>2. frames' = [frames EXCEPT ![n] = g]
  BY DEF Replace
<1> HIDE DEF n
<1>3. /\ DOMAIN frames' = 1 .. n /\ frames'[n] = g
      /\ \A k \in 1 .. n : k # n => frames'[k] = frames[k]
      /\ frames' = [k \in 1 .. n |-> frames'[k]]
  BY ONLY <1>1, <1>2
<1>4. IsSequence(frames)'
  BY <1>1, <1>3 DEF IsSequence
<1>5. \A f \in Calls' : f \in Calls \/ FrameOK(f)'
  BY <1>1, <1>3 DEF Calls
<1>6. StackOK'
  <2> SUFFICES ASSUME NEW k \in 1 .. n, NEW below \in 1 .. n, below = k + 1
               PROVE  /\ frames'[k].at = "hired" /\ frames'[k].claims # <<>>
                      /\ Head(frames'[k].claims).run = frames'[below].run
    BY <1>3 DEF StackOK
  <2>1. k # n
    BY <1>1
  <2>2. /\ frames[k].at = "hired" /\ frames[k].claims # <<>>
        /\ Head(frames[k].claims).run = frames[below].run
    BY <1>1 DEF VerifyInv, FramesOK, StackOK
  <2>3. frames'[below].run = frames[below].run
    BY <1>3 DEF Top, n
  <2> QED
    BY <1>3, <2>1, <2>2, <2>3
<1>7. \A r \in verified' : r \in verified \/ (r \in RunIds /\ SoundRun(r)')
  OBVIOUS
<1> QED
  BY <1>4, <1>5, <1>6, <1>7, CallsKeep

LEMMA PushKeeps ==
    ASSUME VerifyInv, frames # <<>>, Quiet, verified' = verified,
           Top.at = "hired", Top.claims # <<>>,
           NEW g, frames' = Append(frames, g), FrameOK(g)', g.run = Head(Top.claims).run
    PROVE  VerifyInv'
<1> DEFINE n == Len(frames)
<1>1. n \in Nat \ {0} /\ DOMAIN frames = 1 .. n /\ IsSequence(frames)
  BY TopFacts DEF VerifyInv, FramesOK
<1>2. /\ DOMAIN frames' = 1 .. n + 1 /\ frames'[n + 1] = g /\ IsSequence(frames')
      /\ \A k \in 1 .. n : frames'[k] = frames[k]
  BY <1>1, AppendFacts
<1>3. frames[n] = Top
  BY DEF Top
<1> HIDE DEF n
<1>4. \A f \in Calls' : f \in Calls \/ FrameOK(f)'
  BY <1>1, <1>2 DEF Calls
<1>5. StackOK'
  <2>1. ASSUME NEW k \in 1 .. n + 1, NEW below \in 1 .. n + 1, below = k + 1
        PROVE  /\ frames'[k].at = "hired" /\ frames'[k].claims # <<>>
               /\ Head(frames'[k].claims).run = frames'[below].run
    <3>1. CASE k = n
      BY <1>1, <1>2, <1>3, <2>1, <3>1
    <3>2. CASE k # n
      <4>1. k \in 1 .. n /\ below \in 1 .. n
        BY <1>1, <2>1, <3>2
      <4>2. /\ frames[k].at = "hired" /\ frames[k].claims # <<>>
            /\ Head(frames[k].claims).run = frames[below].run
        BY <1>1, <2>1, <4>1 DEF VerifyInv, FramesOK, StackOK
      <4> QED
        BY <1>2, <4>1, <4>2
    <3> QED
      BY <3>1, <3>2
  <2> QED
    BY ONLY <1>2, <2>1 DEF StackOK
<1>6. \A r \in verified' : r \in verified \/ (r \in RunIds /\ SoundRun(r)')
  OBVIOUS
<1>7. IsSequence(frames)'
  BY <1>2 DEF IsSequence
<1> QED
  BY <1>4, <1>5, <1>6, <1>7, CallsKeep

Caller == frames[Len(frames) - 1]
WithoutClaim(f, failures, gaps) == [Found(f, failures, gaps) EXCEPT !.claims = Tail(@)]
Resumed(failures, gaps) == WithoutClaim(Caller, failures, gaps)

LEMMA CallerFacts ==
    ASSUME VerifyInv, frames # <<>>, Len(frames) # 1
    PROVE  /\ Caller \in Calls /\ FrameOK(Caller) /\ Caller.at = "hired" /\ Caller.claims # <<>>
           /\ Head(Caller.claims).run = Top.run
<1> DEFINE n == Len(frames)
<1>1. n \in Nat \ {0} /\ DOMAIN frames = 1 .. n
  BY TopFacts
<1> HIDE DEF n
<1>2. n - 1 \in DOMAIN frames /\ n \in DOMAIN frames /\ n = (n - 1) + 1
  BY <1>1 DEF n
<1>3. Caller \in Calls
  BY <1>2 DEF Caller, Calls, n
<1>4. /\ frames[n - 1].at = "hired" /\ frames[n - 1].claims # <<>>
      /\ Head(frames[n - 1].claims).run = frames[n].run
  BY <1>2 DEF VerifyInv, FramesOK, StackOK
<1> QED
  BY <1>3, <1>4 DEF Caller, Top, n, VerifyInv, FramesOK

LEMMA PopKeeps ==
    ASSUME VerifyInv, frames # <<>>, Quiet, NEW failures, NEW gaps, Absorb(failures, gaps),
           NEW g, g = Resumed(failures, gaps),
           Len(frames) # 1 => FrameOK(g)' /\ g.run = Caller.run,
           \A r \in verified' : r \in verified \/ (r \in RunIds /\ SoundRun(r)')
    PROVE  VerifyInv'
<1> DEFINE n == Len(frames) - 1
<1>1. Len(frames) \in Nat \ {0} /\ DOMAIN frames = 1 .. n + 1
  BY TopFacts
<1>2. CASE n = 0
  <2>1. frames' = <<>>
    BY <1>2 DEF Absorb
  <2>2. IsSequence(frames') /\ DOMAIN frames' = {}
    <3>1. <<>> = [k \in 1 .. 0 |-> <<>>[k]] /\ DOMAIN <<>> = {}
      OBVIOUS
    <3> QED
      BY <2>1, <3>1 DEF IsSequence
  <2>3. IsSequence(frames)' /\ StackOK' /\ Calls' = {}
    BY <2>2 DEF IsSequence, StackOK, Calls
  <2> QED
    BY <2>3, CallsKeep
<1>3. CASE n # 0
  <2>1. n \in Nat \ {0} /\ Len(frames) # 1
    BY <1>1, <1>3
  <2> HIDE DEF n
  <2>3. frames' = [k \in 1 .. n |-> IF k < n THEN frames[k] ELSE g]
    BY <1>3 DEF Absorb, n, Resumed, WithoutClaim, Caller
  <2>4. /\ DOMAIN frames' = 1 .. n /\ frames'[n] = g
        /\ \A k \in 1 .. n : k # n => frames'[k] = frames[k]
        /\ frames' = [k \in 1 .. n |-> frames'[k]]
    BY ONLY <2>1, <2>3
  <2>5. IsSequence(frames)'
    BY <2>1, <2>4 DEF IsSequence
  <2>6. FrameOK(g)' /\ g.run = frames[n].run
    BY <2>1 DEF Caller, n
  <2>7. \A f \in Calls' : f \in Calls \/ FrameOK(f)'
    BY <1>1, <2>1, <2>4, <2>6 DEF Calls
  <2>8. StackOK'
    <3> SUFFICES ASSUME NEW k \in 1 .. n, NEW below \in 1 .. n, below = k + 1
                 PROVE  /\ frames'[k].at = "hired" /\ frames'[k].claims # <<>>
                        /\ Head(frames'[k].claims).run = frames'[below].run
      BY <2>4 DEF StackOK
    <3>1. k # n /\ k \in DOMAIN frames /\ below \in DOMAIN frames
      BY <1>1, <2>1
    <3>2. /\ frames[k].at = "hired" /\ frames[k].claims # <<>>
          /\ Head(frames[k].claims).run = frames[below].run
      BY <3>1 DEF VerifyInv, FramesOK, StackOK
    <3>3. frames'[below].run = frames[below].run
      BY <2>4, <2>6
    <3> QED
      BY <2>4, <3>1, <3>2, <3>3
  <2> QED
    BY <2>5, <2>7, <2>8, CallsKeep
<1> QED
  BY <1>2, <1>3

-----------------------------------------------------------------------------
\* What one action makes of a frame.
LEMMA FoundFields ==
    ASSUME NEW f, DOMAIN f = FrameFields, NEW failures, NEW incomplete, NEW u, u = Found(f, failures, incomplete)
    PROVE  /\ DOMAIN u = FrameFields /\ u.run = f.run /\ u.spec = f.spec /\ u.depth = f.depth
           /\ u.at = f.at /\ u.governing = f.governing /\ u.read = f.read /\ u.seal = f.seal
           /\ u.todo = f.todo /\ u.had = f.had /\ u.claims = f.claims
           /\ u.failures = f.failures \cup failures /\ u.incomplete = f.incomplete \cup incomplete
BY DEF Found, FrameFields

LEMMA FreshFrame ==
    ASSUME NEW r \in RunIds, NEW spec, NEW depth, NEW g, g = Frame(r, spec, depth), SpecOK(g)
    PROVE  FrameOK(g) /\ g.run = r /\ g.spec = spec
<1>1. /\ DOMAIN g = FrameFields /\ g.run = r /\ g.spec = spec /\ g.at = "logs"
      /\ g.read = {} /\ g.todo = {} /\ g.had = {} /\ g.claims = <<>>
      /\ g.failures = {} /\ g.incomplete = {}
  BY DEF Frame, FrameFields
<1>2. IsSequence(<<>>) /\ DOMAIN <<>> = {}
  <2>1. <<>> = [k \in 1 .. 0 |-> <<>>[k]] /\ DOMAIN <<>> = {}
    OBVIOUS
  <2> QED
    BY <2>1 DEF IsSequence
<1>3. Shape(g)
  BY <1>1, <1>2 DEF Shape, Clean
<1> QED
  BY <1>1, <1>3 DEF FrameOK, BooksOK, LinkedOK

\* A call that goes on without its first claim.
LEMMA DropClaim ==
    ASSUME NEW f, FrameOK(f), f.at = "hired", f.claims # <<>>, NEW failures, NEW gaps,
           NEW g, g = WithoutClaim(f, failures, gaps)
    PROVE  /\ DOMAIN g = FrameFields /\ g.run = f.run /\ g.spec = f.spec /\ g.at = "hired"
           /\ g.read = f.read /\ g.seal = f.seal /\ g.todo = f.todo /\ g.had = f.had
           /\ g.governing = f.governing /\ g.depth = f.depth
           /\ g.failures = f.failures \cup failures /\ g.incomplete = f.incomplete \cup gaps
           /\ g.claims = Tail(f.claims)
           /\ \A k \in DOMAIN g.claims : k + 1 \in DOMAIN f.claims /\ g.claims[k] = f.claims[k + 1]
           /\ \A k \in DOMAIN f.claims : k # 1 =>
                 \E l \in DOMAIN g.claims : g.claims[l] = f.claims[k]
           /\ Shape(g) /\ SpecOK(g) /\ LinkedOK(g)
<1>1. PICK u : u = Found(f, failures, gaps)
  OBVIOUS
<1>2. DOMAIN f = FrameFields
  BY DEF FrameOK, Shape
<1>3. /\ DOMAIN u = FrameFields /\ u.run = f.run /\ u.spec = f.spec /\ u.depth = f.depth
      /\ u.at = f.at /\ u.governing = f.governing /\ u.read = f.read /\ u.seal = f.seal
      /\ u.todo = f.todo /\ u.had = f.had /\ u.claims = f.claims
      /\ u.failures = f.failures \cup failures /\ u.incomplete = f.incomplete \cup gaps
  BY <1>1, <1>2, FoundFields
<1>4. g = [u EXCEPT !.claims = Tail(u.claims)]
  BY <1>1 DEF WithoutClaim
<1>5. /\ DOMAIN g = FrameFields /\ g.run = f.run /\ g.spec = f.spec /\ g.at = "hired"
      /\ g.read = f.read /\ g.seal = f.seal /\ g.todo = f.todo /\ g.had = f.had
      /\ g.governing = f.governing /\ g.depth = f.depth
      /\ g.failures = f.failures \cup failures /\ g.incomplete = f.incomplete \cup gaps
      /\ g.claims = Tail(f.claims)
  BY <1>3, <1>4 DEF FrameFields
<1>6. IsSequence(f.claims) /\ \A k \in DOMAIN f.claims : ClaimOK(f, f.claims[k])
  BY DEF FrameOK, Shape
<1> DEFINE s == f.claims
<1>7. /\ IsSequence(Tail(s)) /\ DOMAIN Tail(s) = 1 .. Len(s) - 1 /\ Len(s) \in Nat \ {0}
      /\ \A k \in 1 .. Len(s) - 1 : Tail(s)[k] = s[k + 1]
      /\ DOMAIN s = 1 .. Len(s)
  BY <1>6, TailFacts
<1> HIDE DEF s
<1>8. \A k \in DOMAIN Tail(s) : k + 1 \in DOMAIN s /\ Tail(s)[k] = s[k + 1]
  BY <1>7
<1>9. \A k \in DOMAIN s : k # 1 => \E l \in DOMAIN Tail(s) : Tail(s)[l] = s[k]
  <2> SUFFICES ASSUME NEW k \in DOMAIN s, k # 1 PROVE \E l \in DOMAIN Tail(s) : Tail(s)[l] = s[k]
    OBVIOUS
  <2>1. k - 1 \in DOMAIN Tail(s) /\ Tail(s)[k - 1] = s[k]
    BY <1>7
  <2> QED
    BY <2>1
<1>10. \A k \in DOMAIN g.claims : ClaimOK(g, g.claims[k])
  <2>1. \A claim : ClaimOK(f, claim) => ClaimOK(g, claim)
    BY <1>5 DEF ClaimOK
  <2> QED
    BY <1>5, <1>6, <1>8, <2>1 DEF s
<1>11. Shape(g)
  BY <1>5, <1>7, <1>10 DEF FrameOK, Shape, s
<1>12. SpecOK(g)
  BY <1>5 DEF FrameOK, SpecOK
<1>13. LinkedOK(g)
  BY <1>5 DEF FrameOK, LinkedOK, Clean
<1> QED
  BY <1>5, <1>8, <1>9, <1>11, <1>12, <1>13 DEF s

-----------------------------------------------------------------------------
\* verifyRun begins, and reads the receipts and the seal.
LEMMA BeginKeeps ==
    ASSUME VerifyInv, Begin, UNCHANGED <<chainVars, registryVars>>
    PROVE  VerifyInv'
<1>1. PICK supplied \in SpecSupplied :
          frames' = <<Frame(Root, {s \in {[flow |-> FlowOf[Root], inputs |-> RunInputs]} : supplied},
                            MaxHireDepth)>>
  BY DEF Begin
<1> DEFINE spec == {s \in {[flow |-> FlowOf[Root], inputs |-> RunInputs]} : supplied}
<1>2. PICK g : g = Frame(Root, spec, MaxHireDepth)
  OBVIOUS
<1>3. frames' = <<g>> /\ verified' = verified /\ frames = <<>>
  BY <1>1, <1>2 DEF Begin
<1>4. g.run = Root /\ g.spec = spec
  BY <1>2 DEF Frame
<1>5. begun[Root] = {RunInputs}
  BY DEF VerifyInv, ChainInv
<1>6. SpecOK(g)
  <2>1. spec = {} \/ spec = {[flow |-> FlowOf[Root], inputs |-> RunInputs]}
    OBVIOUS
  <2> HIDE DEF spec
  <2> QED
    BY <1>4, <1>5, <2>1 DEF SpecOK
<1>7. FrameOK(g)
  BY <1>2, <1>6, RootIsARun, FreshFrame
<1>8. Quiet
  BY <1>3 DEF Quiet
<1>9. Goes
  BY <1>8, ChainGoes DEF VerifyInv, Quiet
<1>10. FrameOK(g)'
  BY <1>7, <1>9, FrameStays
<1>11. IsSequence(frames)'
  <2>1. <<g>> = [k \in 1 .. 1 |-> <<g>>[k]]
    OBVIOUS
  <2> QED
    BY <1>3, <2>1 DEF IsSequence
<1>12. DOMAIN frames' = {1} /\ frames'[1] = g
  BY <1>3
<1>13. \A f \in Calls' : f \in Calls \/ FrameOK(f)'
  BY <1>10, <1>12 DEF Calls
<1>14. StackOK'
  BY <1>12 DEF StackOK
<1>15. \A r \in verified' : r \in verified \/ (r \in RunIds /\ SoundRun(r)')
  BY <1>3
<1> QED
  BY <1>8, <1>11, <1>13, <1>14, <1>15, CallsKeep

\* An action that replaces the innermost frame by one that FrameOK holds of.
LEMMA TopKeeps ==
    ASSUME VerifyInv, frames # <<>>, UNCHANGED <<chainVars, registryVars>>, verified' = verified,
           NEW g, Replace(g), FrameOK(g), g.run = Top.run
    PROVE  VerifyInv'
<1>1. Quiet
  BY DEF Quiet
<1>2. Goes
  BY <1>1, ChainGoes DEF VerifyInv, Quiet
<1>3. FrameOK(g)'
  BY <1>2, FrameStays
<1> QED
  BY <1>1, <1>3, ReplaceKeeps

LEMMA ReceiptsReadOK ==
    ASSUME ChainInv, NEW f, FrameOK(f), f.at = "logs", NEW governing, NEW g,
           g = IF receipts[f.run] = {}
               THEN [Found(f, {"receipts"}, {}) EXCEPT !.at = "hired"]
               ELSE [f EXCEPT !.governing = governing, !.read = Anchored(f.run),
                              !.todo = Anchored(f.run), !.at = "seal"]
    PROVE  FrameOK(g) /\ g.run = f.run
<1>1. /\ DOMAIN f = FrameFields /\ f.read = {} /\ f.todo = {} /\ f.had = {} /\ f.run \in RunIds
      /\ IsSequence(f.claims) /\ \A k \in DOMAIN f.claims : ClaimOK(f, f.claims[k])
      /\ Clean(f)
  BY DEF FrameOK, Shape
<1>2. CASE receipts[f.run] = {}
  <2>1. PICK u : u = Found(f, {"receipts"}, {})
    OBVIOUS
  <2>2. /\ DOMAIN u = FrameFields /\ u.run = f.run /\ u.spec = f.spec /\ u.read = f.read
        /\ u.todo = f.todo /\ u.had = f.had /\ u.claims = f.claims
        /\ u.failures = f.failures \cup {"receipts"}
    BY <1>1, <2>1, FoundFields
  <2>3. g = [u EXCEPT !.at = "hired"]
    BY <1>2, <2>1
  <2>4. /\ DOMAIN g = FrameFields /\ g.run = f.run /\ g.spec = f.spec /\ g.read = f.read
        /\ g.todo = f.todo /\ g.had = f.had /\ g.claims = f.claims /\ g.at = "hired"
        /\ g.failures # {}
    BY <2>2, <2>3 DEF FrameFields
  <2>5. Shape(g)
    BY <1>1, <2>4 DEF Shape, ClaimOK
  <2> QED
    BY <2>4, <2>5 DEF FrameOK, BooksOK, LinkedOK, SpecOK, Clean
<1>3. CASE receipts[f.run] # {}
  <2>1. g = [f EXCEPT !.governing = governing, !.read = Anchored(f.run),
                      !.todo = Anchored(f.run), !.at = "seal"]
    BY <1>3
  <2>2. /\ DOMAIN g = FrameFields /\ g.run = f.run /\ g.spec = f.spec /\ g.read = Anchored(f.run)
        /\ g.todo = Anchored(f.run) /\ g.had = f.had /\ g.claims = f.claims /\ g.at = "seal"
        /\ g.failures = f.failures /\ g.incomplete = f.incomplete
    BY <1>1, <2>1 DEF FrameFields
  <2>3. Anchored(f.run) # {}
    BY <1>3 DEF Anchored
  <2>4. Shape(g)
    BY <1>1, <2>2, <2>3 DEF Shape, ClaimOK, Clean
  <2> QED
    BY <2>2, <2>4 DEF FrameOK, BooksOK, LinkedOK, SpecOK
<1> QED
  BY <1>2, <1>3

LEMMA SealReadOK ==
    ASSUME ChainInv, NEW f, FrameOK(f), f.at = "seal", NEW failures, NEW g,
           failures = SealFailures(FoldChainRoot(f.run, f.read), f.read, seal[f.run]),
           g = [Found(f, failures, IF seal[f.run] = {} THEN {"seal"} ELSE {}) EXCEPT
                    !.seal = seal[f.run], !.at = "steps"]
    PROVE  FrameOK(g) /\ g.run = f.run
<1> DEFINE incomplete == IF seal[f.run] = {} THEN {"seal"} ELSE {}
           folded == FoldChainRoot(f.run, f.read)
<1>1. /\ DOMAIN f = FrameFields /\ f.had = {} /\ f.todo = f.read /\ f.todo # {} /\ f.run \in RunIds
      /\ f.read \subseteq Anchored(f.run)
      /\ IsSequence(f.claims) /\ \A k \in DOMAIN f.claims : ClaimOK(f, f.claims[k])
  BY DEF FrameOK, Shape
<1>2. PICK u : u = Found(f, failures, incomplete)
  OBVIOUS
<1>3. /\ DOMAIN u = FrameFields /\ u.run = f.run /\ u.spec = f.spec /\ u.read = f.read
      /\ u.todo = f.todo /\ u.had = f.had /\ u.claims = f.claims
      /\ u.failures = f.failures \cup failures /\ u.incomplete = f.incomplete \cup incomplete
  BY <1>1, <1>2, FoundFields
<1>4. g = [u EXCEPT !.seal = seal[f.run], !.at = "steps"]
  BY <1>2
<1>5. /\ DOMAIN g = FrameFields /\ g.run = f.run /\ g.spec = f.spec /\ g.read = f.read
      /\ g.todo = f.todo /\ g.had = f.had /\ g.claims = f.claims /\ g.at = "steps"
      /\ g.seal = seal[f.run]
      /\ g.failures = f.failures \cup failures /\ g.incomplete = f.incomplete \cup incomplete
  BY <1>3, <1>4 DEF FrameFields
<1>6. Shape(g)
  BY <1>1, <1>5 DEF Shape, ClaimOK
<1>7. ASSUME Clean(g) PROVE \E s \in g.seal : {s.chainRoot} = folded
  <2>1. failures = {} /\ incomplete = {}
    BY <1>5, <1>7 DEF Clean
  <2>2. PICK s \in seal[f.run] : TRUE
    BY <2>1
  <2>3. /\ {"fold" : x \in {1} \ {Cardinality(folded)}} = {}
        /\ {"root" : t \in {t \in seal[f.run] : folded # {} /\ {t.chainRoot} # folded}} = {}
    BY <2>1 DEF SealFailures
  <2>4. folded # {}
    <3>1. Cardinality(folded) = 1
      BY <2>3
    <3>2. Cardinality({}) = 0
      BY FS_EmptySet
    <3> QED
      BY <3>1, <3>2
  <2> HIDE DEF folded
  <2>5. {s.chainRoot} = folded
    BY <2>2, <2>3, <2>4
  <2> QED
    BY <1>5, <2>5
<1>8. BooksOK(g)
  BY <1>1, <1>5, <1>7 DEF BooksOK
<1> QED
  BY <1>5, <1>6, <1>8 DEF FrameOK, SpecOK, LinkedOK

-----------------------------------------------------------------------------
\* The checks of one receipt, and what its trace claims of other runs.
LEMMA ToldApart ==
    ASSUME NEW r \in RunIds, NEW root \in RootsOf(r)
    PROVE  /\ OutputOfRun(r, root) \notin Special
           /\ OutputOfRun(r, root).childRunId = r /\ OutputOfRun(r, root).chainRoot = root
<1>1. OutputOfRun(r, root) \notin Special
  BY HiredOutputsAreTold DEF RootsOf, OutputOfRun, Special, FlowSteps
<1>2. OutputOfRun(r, root).childRunId = r /\ OutputOfRun(r, root).chainRoot = root
  BY DEF OutputOfRun, HiredOutput
<1> QED
  BY <1>1, <1>2

\* A trace's output that is taken for the output of a hired run is one.
LEMMA HiredClaim ==
    ASSUME NEW r \in RunIds, NEW rc, ReceiptOK(r, rc), rc.traceRoot.output \notin Special
    PROVE  LET child == Child(r, rc.step)
           IN  /\ child # NoRun /\ child \in RunIds /\ seal[child] # {}
               /\ \E root \in RootsOf(child) :
                     rc.traceRoot.output = OutputOfRun(child, root)
               /\ rc.traceRoot.output.childRunId = child
<1> DEFINE child == Child(r, rc.step)
<1>1. child # NoRun /\ child \in RunIds
  BY ChildFacts DEF ReceiptOK, HiredOK
<1>2. PICK root \in RootsOf(child) : rc.traceRoot.output = OutputOfRun(child, root)
  BY <1>1 DEF ReceiptOK, HiredOK
<1>3. seal[child] # {}
  BY <1>1 DEF ReceiptOK, HiredOK
<1> QED
  BY <1>1, <1>2, <1>3, ToldApart

\* The claim a trace makes of a hired run.
MadeClaim(rc) == [step |-> rc.step, run |-> rc.traceRoot.output.childRunId,
                  root |-> {rc.traceRoot.output.chainRoot}]

LEMMA ClaimsMade ==
    ASSUME NEW f, FrameOK(f), NEW rc \in receipts[f.run], ReceiptOK(f.run, rc), NEW claims,
           claims = Claims(f, rc)
    PROVE  /\ IsSequence(claims)
           /\ \A k \in DOMAIN f.claims : k \in DOMAIN claims /\ claims[k] = f.claims[k]
           /\ \A k \in DOMAIN claims :
                 \/ k \in DOMAIN f.claims /\ claims[k] = f.claims[k]
                 \/ claims[k].run \in rc.traceRoot.hiredRuns /\ claims[k].root = {}
                 \/ rc.traceRoot.output \notin Special /\ claims[k] = MadeClaim(rc)
           /\ rc.traceRoot.output \notin Special => \E k \in DOMAIN claims : claims[k] = MadeClaim(rc)
<1> DEFINE made == MadeClaim(rc)
           s == f.claims
           t == SubFlowClaims(rc.step, rc.traceRoot.output)
           u == s \o t
           v == Disclosures(rc.step, rc.traceRoot, u)
<1>1. IsSequence(s)
  BY DEF FrameOK, Shape
<1>2. IF rc.traceRoot.output \in Special THEN t = <<>> ELSE t = <<made>>
  BY DEF SubFlowClaims, Special, MadeClaim
<1> HIDE DEF made, s, t
<1>3. /\ IsSequence(u)
      /\ \A k \in DOMAIN s : k \in DOMAIN u /\ u[k] = s[k]
      /\ \A k \in DOMAIN u : k \in DOMAIN s \/ t = <<u[k]>>
      /\ \A x : t = <<x>> => \E k \in DOMAIN u : u[k] = x
  <2>1. t = <<>> \/ \E x : t = <<x>>
    BY <1>2
  <2> QED
    BY <1>1, <2>1, ExtendFacts
<1> HIDE DEF u
<1>4. v = <<>> \/ \E d \in rc.traceRoot.hiredRuns : v = <<[step |-> rc.step, run |-> d, root |-> {}]>>
  <2> DEFINE new == {d \in rc.traceRoot.hiredRuns : \A k \in DOMAIN u : u[k].run # d}
  <2>1. new # {} => The(new) \in new
    BY DEF The
  <2> HIDE DEF new
  <2>2. v = IF new = {} THEN <<>> ELSE <<[step |-> rc.step, run |-> The(new), root |-> {}]>>
    BY DEF Disclosures, new
  <2>3. new \subseteq rc.traceRoot.hiredRuns
    BY DEF new
  <2> QED
    BY <2>1, <2>2, <2>3
<1> HIDE DEF v
<1>5. claims = u \o v
  BY DEF Claims, u, v, s, t
<1>6. /\ IsSequence(claims)
      /\ \A k \in DOMAIN u : k \in DOMAIN claims /\ claims[k] = u[k]
      /\ \A k \in DOMAIN claims : k \in DOMAIN u \/ v = <<claims[k]>>
  <2>1. v = <<>> \/ \E x : v = <<x>>
    BY <1>4
  <2>2. IsSequence(u)
    BY <1>3
  <2>3. /\ IsSequence(u \o v)
        /\ \A k \in DOMAIN u : k \in DOMAIN (u \o v) /\ (u \o v)[k] = u[k]
        /\ \A k \in DOMAIN (u \o v) : k \in DOMAIN u \/ v = <<(u \o v)[k]>>
    BY <2>1, <2>2, ExtendFacts
  <2> QED
    BY <1>5, <2>3
<1>7. \A x, y : <<x>> = <<y>> => x = y
  OBVIOUS
<1>8. \A x : <<>> # <<x>>
  OBVIOUS
<1>9. ASSUME NEW k \in DOMAIN claims
      PROVE  \/ k \in DOMAIN s /\ claims[k] = s[k]
             \/ claims[k].run \in rc.traceRoot.hiredRuns /\ claims[k].root = {}
             \/ rc.traceRoot.output \notin Special /\ claims[k] = made
  <2>1. CASE k \in DOMAIN s
    BY <1>3, <1>6, <2>1
  <2>2. CASE k \in DOMAIN u /\ t = <<u[k]>>
    <3>1. rc.traceRoot.output \notin Special /\ t = <<made>>
      BY <1>2, <1>8, <2>2
    <3>2. u[k] = made
      BY <1>7, <2>2, <3>1
    <3> QED
      BY <1>6, <2>2, <3>1, <3>2
  <2>3. CASE v = <<claims[k]>>
    <3>1. PICK d \in rc.traceRoot.hiredRuns : v = <<[step |-> rc.step, run |-> d, root |-> {}]>>
      BY <1>4, <1>8, <2>3
    <3>2. claims[k] = [step |-> rc.step, run |-> d, root |-> {}]
      BY <1>7, <2>3, <3>1
    <3> QED
      BY <3>2
  <2> QED
    BY <1>3, <1>6, <2>1, <2>2, <2>3
<1>10. rc.traceRoot.output \notin Special => \E k \in DOMAIN claims : claims[k] = made
  BY <1>2, <1>3, <1>6
<1> QED
  BY <1>3, <1>6, <1>9, <1>10 DEF made, s

\* When the checks of a step find nothing, there is nothing to be found.
LEMMA NothingFound ==
    ASSUME ChainInv, NEW f, NEW rc, ReceiptOK(f.run, rc), NEW lost, NEW missed,
           Failures(f, rc, lost, missed) = {}, Gaps(rc, missed) = {}
    PROVE  "trace" \notin missed /\ Checked(rc)
<1>1. "trace" \notin missed
  BY DEF Gaps
<1>2. /\ CommitFailures(rc) = {} /\ HashFailures(rc, rc.traceRoot) = {}
      /\ AttestationFailures(rc, rc.traceRoot, IF "signer" \in missed THEN {} ELSE AcknowledgedSigner) = {}
      /\ SignatureGaps(rc, rc.traceRoot, IF "key" \in missed THEN {} ELSE AgentSigner(rc.agent)) = {}
  BY <1>1 DEF Failures, Gaps
<1>3. rc.attestationRef # ZeroHash => rc.attestationRef = rc.traceRoot.bundle
  BY <1>2 DEF AttestationFailures, AttestationRefFor
<1> DEFINE key == IF "key" \in missed THEN {} ELSE AgentSigner(rc.agent)
           claim == OutputClaim(rc.run, rc.step, rc.agent, rc.inputHash, rc.outputHash)
<1>4. ASSUME NEW s \in rc.traceRoot.signature
      PROVE  s.over = claim /\ \E k \in DOMAIN KeysOf[rc.agent] : KeysOf[rc.agent][k] = s.by
  <2>1. VerifyAgentSignature(claim, rc.traceRoot.signature, key)
    BY <1>2 DEF SignatureGaps
  <2>2. /\ key = AgentSigner(rc.agent)
        /\ {t.by : t \in {t \in rc.traceRoot.signature : t.over = claim}} = key
    BY <2>1 DEF VerifyAgentSignature, RecoverAgentSigner
  <2>3. key = {KeysOf[rc.agent][keysUsed[rc.agent] + 1]}
    BY <2>2 DEF AgentSigner
  <2> HIDE DEF key, claim
  <2>4. PICK t \in rc.traceRoot.signature : t.over = claim /\ t.by = KeysOf[rc.agent][keysUsed[rc.agent] + 1]
    BY <2>2, <2>3
  <2>5. t = s
    BY DEF ReceiptOK
  <2>6. keysUsed[rc.agent] + 1 \in DOMAIN KeysOf[rc.agent]
    <3>1. rc.agent \in Agents
      BY DEF ReceiptOK
    <3>2. keysUsed[rc.agent] \in Nat /\ keysUsed[rc.agent] < Len(KeysOf[rc.agent])
      BY <3>1 DEF ChainInv, KeysOK
    <3>3. Len(KeysOf[rc.agent]) \in Nat /\ DOMAIN KeysOf[rc.agent] = 1 .. Len(KeysOf[rc.agent])
      BY <3>1, AgentsAreListed
    <3> QED
      BY <3>2, <3>3
  <2> QED
    BY <2>4, <2>5, <2>6
<1> QED
  BY <1>1, <1>2, <1>3, <1>4 DEF Checked

\* A checked ok receipt of a sub-flow step carries the claim of the hired run.
LEMMA CheckedHire ==
    ASSUME NEW r \in RunIds, NEW rc, ReceiptOK(r, rc), Checked(rc), Hires(rc)
    PROVE  /\ rc.traceRoot.output \notin Special
           /\ ClaimOf(rc) = MadeClaim(rc)
           /\ The(rc.outputHash) = rc.traceRoot.output
<1> DEFINE child == Child(r, rc.step)
<1>1. rc.run = r /\ rc.step \in DOMAIN FlowSteps(r) /\ child # NoRun /\ StatusSucceeded(rc.status)
  BY DEF ReceiptOK, Hires
<1>2. child \in RunIds
  BY <1>1, ChildFacts
<1>3. rc.outputHash # ZeroHash
  BY <1>1 DEF Checked, CommitFailures
<1>4. PICK root \in RootsOf(child) : rc.outputHash = {OutputOfRun(child, root)}
  BY <1>1, <1>3 DEF ReceiptOK, HiredOK
<1>5. rc.outputHash = {rc.traceRoot.output}
  BY <1>3 DEF Checked, HashFailures, HashJson
<1>6. rc.traceRoot.output = OutputOfRun(child, root)
  BY <1>4, <1>5
<1>7. The(rc.outputHash) = rc.traceRoot.output
  BY <1>5, TheOne
<1>8. rc.traceRoot.output \notin Special /\ rc.traceRoot.output.childRunId = child
  BY <1>2, <1>6, ToldApart
<1> QED
  BY <1>1, <1>7, <1>8 DEF ClaimOf, MadeClaim

StepChecked(f, i, rc, lost, missed) ==
    [Found(f, Failures(f, rc, lost, missed), Gaps(rc, missed)) EXCEPT
        !.todo = @ \ {i},
        !.at = IF f.todo = {i} THEN "linkage" ELSE "steps",
        !.had = IF "trace" \in missed THEN @ ELSE @ \cup {i},
        !.claims = IF "trace" \in missed THEN @ ELSE Claims(f, rc)]

LEMMA StepCheckedOK ==
    ASSUME ChainInv, NEW f, FrameOK(f), f.at = "steps", NEW i \in f.todo,
           NEW rc \in receipts[f.run], rc.step = i, NEW lost, NEW missed, NEW g,
           g = StepChecked(f, i, rc, lost, missed)
    PROVE  FrameOK(g) /\ g.run = f.run
<1> DEFINE failures == Failures(f, rc, lost, missed)
           gaps == Gaps(rc, missed)
           claims == IF "trace" \in missed THEN f.claims ELSE Claims(f, rc)
           had == IF "trace" \in missed THEN f.had ELSE f.had \cup {i}
           at == IF f.todo = {i} THEN "linkage" ELSE "steps"
<1>1. /\ DOMAIN f = FrameFields /\ f.run \in RunIds
      /\ f.todo \subseteq f.read /\ f.had \subseteq f.read \ f.todo /\ f.read \subseteq Anchored(f.run)
      /\ IsSequence(f.claims) /\ \A k \in DOMAIN f.claims : ClaimOK(f, f.claims[k])
  BY DEF FrameOK, Shape
<1>2. /\ \A rd \in receipts[f.run] : ReceiptOK(f.run, rd)
      /\ OnePerStep(f.run)
  BY <1>1 DEF ChainInv, LedgerOK
<1>3. PICK u : u = Found(f, failures, gaps)
  OBVIOUS
<1>4. /\ DOMAIN u = FrameFields /\ u.run = f.run /\ u.spec = f.spec /\ u.read = f.read
      /\ u.todo = f.todo /\ u.had = f.had /\ u.claims = f.claims /\ u.seal = f.seal
      /\ u.failures = f.failures \cup failures /\ u.incomplete = f.incomplete \cup gaps
  BY <1>1, <1>3, FoundFields
<1>5. g = [u EXCEPT !.todo = f.todo \ {i}, !.at = at, !.had = had, !.claims = claims]
  <2>1. g = [u EXCEPT !.todo = @ \ {i}, !.at = at,
                      !.had = IF "trace" \in missed THEN @ ELSE @ \cup {i},
                      !.claims = IF "trace" \in missed THEN @ ELSE Claims(f, rc)]
    BY <1>3 DEF StepChecked
  <2> QED
    BY <1>4, <2>1 DEF FrameFields
<1> HIDE DEF at, had, claims, failures, gaps
<1>6. /\ DOMAIN g = FrameFields /\ g.run = f.run /\ g.spec = f.spec /\ g.read = f.read
      /\ g.todo = f.todo \ {i} /\ g.at = at /\ g.had = had /\ g.claims = claims /\ g.seal = f.seal
      /\ g.failures = f.failures \cup failures /\ g.incomplete = f.incomplete \cup gaps
  BY ONLY <1>4, <1>5 DEF FrameFields
<1> DEFINE made == MadeClaim(rc)
<1>7. /\ IsSequence(claims)
      /\ \A k \in DOMAIN f.claims : k \in DOMAIN claims /\ claims[k] = f.claims[k]
      /\ \A k \in DOMAIN claims :
            \/ k \in DOMAIN f.claims /\ claims[k] = f.claims[k]
            \/ claims[k].run \in rc.traceRoot.hiredRuns /\ claims[k].root = {}
            \/ /\ rc.traceRoot.output \notin Special /\ claims[k] = made
               /\ "trace" \notin missed
      /\ rc.traceRoot.output \notin Special /\ "trace" \notin missed =>
            \E k \in DOMAIN claims : claims[k] = made
  <2>1. CASE "trace" \in missed
    BY <1>1, <2>1 DEF claims
  <2>2. CASE "trace" \notin missed
    <3>1. claims = Claims(f, rc) /\ ReceiptOK(f.run, rc)
      BY <1>2, <2>2 DEF claims
    <3>2. /\ IsSequence(claims)
          /\ \A k \in DOMAIN f.claims : k \in DOMAIN claims /\ claims[k] = f.claims[k]
          /\ \A k \in DOMAIN claims :
                \/ k \in DOMAIN f.claims /\ claims[k] = f.claims[k]
                \/ claims[k].run \in rc.traceRoot.hiredRuns /\ claims[k].root = {}
                \/ rc.traceRoot.output \notin Special /\ claims[k] = made
          /\ rc.traceRoot.output \notin Special => \E k \in DOMAIN claims : claims[k] = made
      BY <1>1, <3>1, ClaimsMade
    <3> QED
      BY <2>2, <3>2
  <2> QED
    BY <2>1, <2>2
<1>8. f.had \subseteq had /\ had \subseteq f.had \cup {i} /\ ("trace" \notin missed => i \in had)
  BY DEF had
<1>9. ASSUME NEW k \in DOMAIN claims PROVE ClaimOK(g, claims[k])
  <2>1. CASE k \in DOMAIN f.claims /\ claims[k] = f.claims[k]
    <3>1. ClaimOK(f, claims[k])
      BY <1>1, <2>1
    <3> QED
      BY <1>6, <1>8, <3>1 DEF ClaimOK
  <2>2. CASE claims[k].run \in rc.traceRoot.hiredRuns /\ claims[k].root = {}
    BY <1>2, <2>2 DEF ReceiptOK, ClaimOK
  <2>3. CASE rc.traceRoot.output \notin Special /\ claims[k] = made /\ "trace" \notin missed
    <3>1. /\ Child(f.run, rc.step) \in RunIds
          /\ rc.traceRoot.output.childRunId = Child(f.run, rc.step)
      BY <1>1, <1>2, <2>3, HiredClaim
    <3>2. /\ claims[k].step = rc.step /\ claims[k].run = Child(f.run, rc.step)
          /\ claims[k].root = {rc.traceRoot.output.chainRoot}
      BY <2>3, <3>1 DEF MadeClaim
    <3>3. rc.step \in g.had
      BY <1>6, <1>8, <2>3
    <3> QED
      BY <1>6, <2>3, <3>1, <3>2, <3>3 DEF ClaimOK
  <2> QED
    BY <1>7, <2>1, <2>2, <2>3
<1>10. Shape(g)
  <2>1. g.at = "linkage" => g.todo = {}
    BY <1>6 DEF at
  <2>2. g.at = "steps" => g.todo # {}
    BY <1>6 DEF at
  <2>3. g.at \in {"linkage", "steps"}
    BY <1>6 DEF at
  <2>4. g.had \subseteq g.read \ g.todo
    BY <1>1, <1>6, <1>8
  <2> QED
    BY <1>1, <1>6, <1>7, <1>9, <2>1, <2>2, <2>3, <2>4 DEF Shape
<1>11. BooksOK(g)
  <2> SUFFICES ASSUME Clean(g)
               PROVE  /\ g.seal = seal[g.run]
                      /\ \E s \in g.seal : {s.chainRoot} = FoldChainRoot(g.run, g.read)
                      /\ g.had = g.read \ g.todo
                      /\ \A rd \in receipts[g.run] : rd.step \in g.had =>
                            Checked(rd) /\ (Hires(rd) => Pending(g, rd) \/ Settled(rd))
    BY DEF BooksOK
  <2>1. failures = {} /\ gaps = {} /\ Clean(f)
    BY <1>6 DEF Clean
  <2>2. "trace" \notin missed /\ Checked(rc)
    BY <1>2, <2>1, NothingFound DEF failures, gaps
  <2>3. /\ f.seal = seal[f.run]
        /\ \E s \in f.seal : {s.chainRoot} = FoldChainRoot(f.run, f.read)
        /\ f.had = f.read \ f.todo
        /\ \A rd \in receipts[f.run] : rd.step \in f.had =>
              Checked(rd) /\ (Hires(rd) => Pending(f, rd) \/ Settled(rd))
    BY <2>1 DEF FrameOK, BooksOK
  <2>4. g.had = g.read \ g.todo
    BY <1>1, <1>6, <1>8, <2>2, <2>3
  <2>5. ASSUME NEW rd \in receipts[f.run], rd.step \in had
        PROVE  Checked(rd) /\ (Hires(rd) => Pending(g, rd) \/ Settled(rd))
    <3>1. CASE rd.step \in f.had
      <4>1. Pending(f, rd) => Pending(g, rd)
        BY <1>6, <1>7 DEF Pending
      <4> QED
        BY <2>3, <3>1, <4>1
    <3>2. CASE rd.step = i
      <4>1. rd = rc
        BY <1>2, <3>2 DEF OnePerStep
      <4>2. Hires(rc) => rc.traceRoot.output \notin Special /\ ClaimOf(rc) = made
        BY <1>1, <1>2, <2>2, CheckedHire
      <4>3. Hires(rc) => Pending(g, rc)
        BY <1>6, <1>7, <2>2, <4>2 DEF Pending
      <4> QED
        BY <2>2, <4>1, <4>3
    <3> QED
      BY <1>8, <2>5, <3>1, <3>2
  <2> QED
    BY <1>6, <2>3, <2>4, <2>5
<1>12. SpecOK(g)
  BY <1>6 DEF FrameOK, SpecOK
<1>13. LinkedOK(g)
  BY <1>6 DEF LinkedOK, at
<1> QED
  BY <1>6, <1>10, <1>11, <1>12, <1>13 DEF FrameOK

LEMMA ReadReceiptsKeeps ==
    ASSUME VerifyInv, frames # <<>>, UNCHANGED <<chainVars, registryVars>>, ReadReceipts
    PROVE  VerifyInv'
<1>1. PICK governing \in {{}, {Governing}} :
          Replace(IF receipts[Top.run] = {}
                  THEN [Found(Top, {"receipts"}, {}) EXCEPT !.at = "hired"]
                  ELSE [Top EXCEPT !.governing = governing, !.read = Anchored(Top.run),
                                   !.todo = Anchored(Top.run), !.at = "seal"])
  BY DEF ReadReceipts
<1>2. PICK g : g = IF receipts[Top.run] = {}
                   THEN [Found(Top, {"receipts"}, {}) EXCEPT !.at = "hired"]
                   ELSE [Top EXCEPT !.governing = governing, !.read = Anchored(Top.run),
                                    !.todo = Anchored(Top.run), !.at = "seal"]
  OBVIOUS
<1>3. Replace(g) /\ Top.at = "logs" /\ verified' = verified
  BY <1>1, <1>2 DEF ReadReceipts
<1>4. FrameOK(g) /\ g.run = Top.run
  <2>1. ChainInv /\ FrameOK(Top)
    BY TopFacts DEF VerifyInv
  <2> QED
    BY <1>2, <1>3, <2>1, ReceiptsReadOK
<1> QED
  BY <1>3, <1>4, TopKeeps

LEMMA ReadSealKeeps ==
    ASSUME VerifyInv, frames # <<>>, UNCHANGED <<chainVars, registryVars>>, ReadSeal
    PROVE  VerifyInv'
<1>1. PICK failures : failures = SealFailures(FoldChainRoot(Top.run, Top.read), Top.read, seal[Top.run])
  OBVIOUS
<1>2. PICK g : g = [Found(Top, failures, IF seal[Top.run] = {} THEN {"seal"} ELSE {}) EXCEPT
                        !.seal = seal[Top.run], !.at = "steps"]
  OBVIOUS
<1>3. Replace(g) /\ Top.at = "seal" /\ verified' = verified
  BY <1>1, <1>2 DEF ReadSeal
<1>4. FrameOK(g) /\ g.run = Top.run
  <2>1. ChainInv /\ FrameOK(Top)
    BY TopFacts DEF VerifyInv
  <2> QED
    BY <1>1, <1>2, <1>3, <2>1, SealReadOK
<1> QED
  BY <1>3, <1>4, TopKeeps

\* The receipt to be checked next is one of those read.
LEMMA LeastIsRead ==
    ASSUME ChainInv, NEW f, FrameOK(f), f.at = "steps", NEW least,
           least = CHOOSE x \in f.todo : \A y \in f.todo : x <= y
    PROVE  /\ least \in f.todo /\ ReceiptOf(f.run, least) \in receipts[f.run]
           /\ ReceiptOf(f.run, least).step = least
<1>1. f.run \in RunIds /\ f.todo \subseteq Anchored(f.run) /\ f.todo # {}
  BY DEF FrameOK, Shape
<1>2. LedgerOK(f.run)
  BY <1>1 DEF ChainInv
<1>3. Anchored(f.run) \subseteq Nat
  <2>1. DOMAIN FlowSteps(f.run) \subseteq Nat
    BY <1>1, FlowFacts
  <2> QED
    BY <1>2, <2>1 DEF LedgerOK, ReceiptOK, Anchored
<1>4. least \in f.todo
  <2>1. \E x \in f.todo : \A y \in f.todo : x <= y
    BY <1>1, <1>3, LeastElement
  <2> QED
    BY <2>1
<1> QED
  BY <1>1, <1>2, <1>4, AnchoredIs DEF LedgerOK

LEMMA CheckStepKeeps ==
    ASSUME VerifyInv, frames # <<>>, UNCHANGED <<chainVars, registryVars>>, CheckStep
    PROVE  VerifyInv'
<1> DEFINE least == CHOOSE x \in Top.todo : \A y \in Top.todo : x <= y
<1>1. ChainInv /\ FrameOK(Top) /\ Top.at = "steps" /\ verified' = verified
  BY TopFacts DEF VerifyInv, CheckStep
<1>2. PICK i : i = least
  OBVIOUS
<1>3. PICK rc : rc = ReceiptOf(Top.run, i)
  OBVIOUS
<1>4. i \in Top.todo /\ rc \in receipts[Top.run] /\ rc.step = i
  BY <1>1, <1>2, <1>3, LeastIsRead
<1>5. PICK lost, missed : Replace(StepChecked(Top, least, ReceiptOf(Top.run, least), lost, missed))
  <2>1. \E lost \in {{}} \cup {{x} : x \in Consulted(Top)},
           missed \in {{}} \cup {{x} : x \in EvidenceReads(ReceiptOf(Top.run, least))} :
              Replace(StepChecked(Top, least, ReceiptOf(Top.run, least), lost, missed))
    BY Zenon DEF CheckStep, StepChecked
  <2> QED
    BY <2>1
<1>6. PICK g : g = StepChecked(Top, i, rc, lost, missed)
  OBVIOUS
<1> HIDE DEF least
<1>7. Replace(g)
  BY <1>2, <1>3, <1>5, <1>6
<1>8. FrameOK(g) /\ g.run = Top.run
  BY <1>1, <1>4, <1>6, StepCheckedOK
<1> QED
  BY <1>1, <1>7, <1>8, TopKeeps

-----------------------------------------------------------------------------
\* Linkage: the input of every ok step derives from the outputs anchored.
LEMMA EvidenceIs ==
    ASSUME NEW f, OnePerStep(f.run), NEW rc \in receipts[f.run], rc.step \in f.had
    PROVE  Of(EvidenceOf(f), rc.step) =
               {[step |-> rc.step, input |-> rc.traceRoot.input, output |-> rc.traceRoot.output]}
<1> DEFINE Evidence(x) == [step |-> x.step, input |-> x.traceRoot.input, output |-> x.traceRoot.output]
           had == {x \in receipts[f.run] : x.step \in f.had}
<1>1. \A x : Evidence(x).step = x.step
  OBVIOUS
<1>2. EvidenceOf(f) = {Evidence(x) : x \in had}
  BY DEF EvidenceOf
<1>3. rc \in had /\ \A x \in had : x.step = rc.step => x = rc
  BY DEF OnePerStep
<1> HIDE DEF Evidence, had
<1>4. Of(EvidenceOf(f), rc.step) = {Evidence(rc)}
  BY <1>1, <1>2, <1>3 DEF Of
<1> QED
  BY <1>4 DEF Evidence

LEMMA PlainIsLinked ==
    ASSUME NEW rc, Plain(rc) PROVE Linked(rc)
BY DEF Plain, PlainHashes, Linked

LEMMA StepLinked ==
    ASSUME ChainInv, NEW f, f.run \in RunIds, f.had = Anchored(f.run), f.read = f.had,
           NEW inputs, begun[f.run] = {inputs}, NEW rc \in receipts[f.run],
           StepLinks(FlowSteps(f.run), inputs, EvidenceOf(f), Read(f), rc.step)
    PROVE  Linked(rc)
<1> DEFINE r == f.run
           i == rc.step
           step == FlowSteps(r)[i]
           told == [j \in step.reads |-> The(Of(EvidenceOf(f), j)).output]
<1>1. /\ OnePerStep(r) /\ rc.run = r /\ i \in DOMAIN FlowSteps(r) /\ step.reads \subseteq Anchored(r)
  BY DEF ChainInv, LedgerOK, ReceiptOK
<1>2. Read(f) = receipts[r]
  BY DEF Read, Anchored
<1> SUFFICES ASSUME StatusSucceeded(rc.status)
             PROVE  /\ ~Blocked(r, i) /\ rc.inputHash = HashJson(ResolvedInput(r, i))
                    /\ rc.outputHash # ZeroHash
  BY <1>1 DEF Linked
<1>3. Of(receipts[r], i) = {rc}
  BY <1>1, ReceiptIs
<1>4. /\ \A j \in step.reads, u \in receipts[r] : u.step = j => StatusSucceeded(u.status)
      /\ rc.outputHash # ZeroHash /\ rc.inputHash # ZeroHash
      /\ \A j \in step.reads : Confirmed(EvidenceOf(f), receipts[r], j)
      /\ rc.inputHash = HashJson(ResolveTemplates(step, inputs, told))
  BY <1>2, <1>3 DEF StepLinks
<1>5. ASSUME NEW j \in step.reads
      PROVE  /\ StatusSucceeded(ReceiptOf(r, j).status) /\ ReceiptOf(r, j).outputHash # ZeroHash
             /\ The(Of(EvidenceOf(f), j)).output = Output(r, j)
  <2>1. PICK rd : rd = ReceiptOf(r, j)
    OBVIOUS
  <2>2. rd \in receipts[r] /\ rd.step = j /\ Of(receipts[r], j) = {rd}
    BY <1>1, <2>1, AnchoredIs
  <2>3. Of(EvidenceOf(f), j) =
            {[step |-> rd.step, input |-> rd.traceRoot.input, output |-> rd.traceRoot.output]}
    <3>1. rd.step \in f.had
      BY <1>1, <2>2
    <3> QED
      BY <1>1, <2>2, <3>1, EvidenceIs
  <2>4. rd.outputHash # ZeroHash /\ {rd.traceRoot.output} = rd.outputHash
    <3>1. \E e \in Of(EvidenceOf(f), j), x \in Of(receipts[r], j) :
              x.outputHash # ZeroHash /\ HashJson(e.output) = x.outputHash
      BY <1>4 DEF Confirmed
    <3> QED
      BY <2>2, <2>3, <3>1 DEF HashJson
  <2>5. The(Of(EvidenceOf(f), j)).output = rd.traceRoot.output
    <3> DEFINE e == [step |-> rd.step, input |-> rd.traceRoot.input, output |-> rd.traceRoot.output]
    <3>1. e.output = rd.traceRoot.output
      OBVIOUS
    <3> HIDE DEF e
    <3>2. The(Of(EvidenceOf(f), j)) = e
      BY <2>3, TheOne DEF e
    <3> QED
      BY <3>1, <3>2
  <2>6. Output(r, j) = rd.traceRoot.output
    <3>1. The(rd.outputHash) = rd.traceRoot.output
      BY <2>4, TheOne
    <3> QED
      BY <2>1, <3>1 DEF Output
  <2> QED
    BY <1>4, <2>1, <2>2, <2>4, <2>5, <2>6
<1>6. ~Blocked(r, i)
  BY <1>5 DEF Blocked
<1>7. told = [j \in step.reads |-> Output(r, j)]
  BY <1>5
<1>8. The(begun[r]) = inputs
  BY TheOne
<1>9. ResolvedInput(r, i) = ResolveTemplates(step, inputs, told)
  BY <1>7, <1>8 DEF ResolvedInput
<1> QED
  BY <1>4, <1>6, <1>9

LEMMA LinkageOK ==
    ASSUME ChainInv, NEW f, FrameOK(f), f.at = "linkage", ~LinkThrows(f), NEW failures,
           failures = {} => (CanLink(f) => VerifyLinkage(Flows[The(f.spec).flow], The(f.spec).inputs,
                                                        EvidenceOf(f), Read(f))),
           NEW g, g = [Found(f, failures, IF CanLink(f) THEN {} ELSE {"linkage"}) EXCEPT !.at = "hired"]
    PROVE  FrameOK(g) /\ g.run = f.run
<1> DEFINE incomplete == IF CanLink(f) THEN {} ELSE {"linkage"}
           r == f.run
<1>1. /\ DOMAIN f = FrameFields /\ f.had \subseteq f.read \ f.todo /\ f.todo = {} /\ r \in RunIds
      /\ f.read \subseteq Anchored(r)
      /\ IsSequence(f.claims) /\ \A k \in DOMAIN f.claims : ClaimOK(f, f.claims[k])
  BY DEF FrameOK, Shape
<1>2. PICK u : u = Found(f, failures, incomplete)
  OBVIOUS
<1>3. /\ DOMAIN u = FrameFields /\ u.run = r /\ u.spec = f.spec /\ u.read = f.read
      /\ u.todo = f.todo /\ u.had = f.had /\ u.claims = f.claims /\ u.seal = f.seal
      /\ u.failures = f.failures \cup failures /\ u.incomplete = f.incomplete \cup incomplete
  BY <1>1, <1>2, FoundFields
<1>4. g = [u EXCEPT !.at = "hired"]
  BY <1>2
<1>5. /\ DOMAIN g = FrameFields /\ g.run = r /\ g.spec = f.spec /\ g.read = f.read
      /\ g.todo = f.todo /\ g.had = f.had /\ g.claims = f.claims /\ g.at = "hired" /\ g.seal = f.seal
      /\ g.failures = f.failures \cup failures /\ g.incomplete = f.incomplete \cup incomplete
  BY <1>3, <1>4 DEF FrameFields
<1>6. Shape(g)
  BY <1>1, <1>5 DEF Shape, ClaimOK
<1>7. SpecOK(g)
  BY <1>5 DEF FrameOK, SpecOK
<1>8. BooksOK(g)
  <2>1. Clean(g) => Clean(f)
    BY <1>5 DEF Clean
  <2>2. \A rc : Pending(f, rc) => Pending(g, rc)
    BY <1>5 DEF Pending
  <2> QED
    BY <1>5, <2>1, <2>2 DEF FrameOK, BooksOK
<1>9. ASSUME Clean(g)
      PROVE  f.read = DOMAIN FlowSteps(r) /\ \A rc \in receipts[r] : Linked(rc)
  <2>1. failures = {} /\ CanLink(f)
    BY <1>5, <1>9 DEF Clean
  <2>2. PICK s : /\ f.spec = {s} /\ s.flow = FlowOf[r]
                 /\ begun[r] = {s.inputs} \/ AllPlain(r)
    BY <2>1 DEF FrameOK, SpecOK, CanLink
  <2>3. The(f.spec) = s /\ Flows[s.flow] = FlowSteps(r)
    BY <2>2, TheOne DEF FlowSteps
  <2>4. DOMAIN FlowSteps(r) \subseteq f.had /\ f.had = f.read
    BY <2>1, <2>3 DEF LinkThrows, CanLink
  <2>5. Anchored(r) \subseteq DOMAIN FlowSteps(r)
    BY <1>1 DEF ChainInv, LedgerOK, ReceiptOK, Anchored
  <2>6. f.read = DOMAIN FlowSteps(r) /\ f.had = Anchored(r)
    BY <1>1, <2>4, <2>5
  <2>7. ASSUME NEW rc \in receipts[r] PROVE Linked(rc)
    <3>1. CASE begun[r] = {s.inputs}
      <4>1. rc.step \in DOMAIN FlowSteps(r)
        BY <2>5 DEF Anchored
      <4>2. StepLinks(FlowSteps(r), s.inputs, EvidenceOf(f), Read(f), rc.step)
        BY <2>1, <2>3, <4>1 DEF VerifyLinkage
      <4> QED
        BY <1>1, <2>4, <2>6, <3>1, <4>2, StepLinked
    <3>2. CASE AllPlain(r)
      BY <3>2, PlainIsLinked DEF AllPlain
    <3> QED
      BY <2>2, <3>1, <3>2
  <2> QED
    BY <2>6, <2>7
<1>10. LinkedOK(g)
  BY <1>5, <1>9 DEF LinkedOK
<1> QED
  BY <1>5, <1>6, <1>7, <1>8, <1>10 DEF FrameOK

LEMMA CheckLinkageKeeps ==
    ASSUME VerifyInv, frames # <<>>, UNCHANGED <<chainVars, registryVars>>, CheckLinkage
    PROVE  VerifyInv'
<1> DEFINE links == CanLink(Top) => VerifyLinkage(Flows[The(Top.spec).flow], The(Top.spec).inputs,
                                                 EvidenceOf(Top), Read(Top))
<1>1. /\ ChainInv /\ FrameOK(Top) /\ Top.at = "linkage" /\ ~LinkThrows(Top) /\ verified' = verified
  BY TopFacts DEF VerifyInv, CheckLinkage
<1>2. PICK failures : failures = IF links THEN {} ELSE {"linkage"}
  OBVIOUS
<1>3. PICK g : g = [Found(Top, failures, IF CanLink(Top) THEN {} ELSE {"linkage"}) EXCEPT !.at = "hired"]
  OBVIOUS
<1>4. Replace(g)
  BY <1>2, <1>3 DEF CheckLinkage
<1>5. FrameOK(g) /\ g.run = Top.run
  BY <1>1, <1>2, <1>3, LinkageOK
<1> QED
  BY <1>1, <1>4, <1>5, TopKeeps

-----------------------------------------------------------------------------
\* Following the claims of hired runs.  The inputs a hired run is verified
\* with come from its parent's trace, which may have been recorded wrongly.
LEMMA ChildSpecOK ==
    ASSUME ChainInv, NEW f, FrameOK(f), NEW claim, ClaimOK(f, claim), claim.root # {},
           NEW g, g.run = claim.run, g.spec = ChildSpec(f, claim.step)
    PROVE  SpecOK(g)
<1> DEFINE r == f.run
           child == claim.run
<1>1. PICK rc \in receipts[r] : /\ rc.step = claim.step /\ rc.step \in f.had
                                /\ rc.traceRoot.output \notin Special /\ child = Child(r, rc.step)
  BY DEF ClaimOK
<1>2. r \in RunIds /\ LedgerOK(r)
  BY DEF FrameOK, Shape, ChainInv
<1>3. ReceiptOK(r, rc) /\ OnePerStep(r) /\ HiresOK(r) /\ rc.run = r /\ rc.step \in DOMAIN FlowSteps(r)
  BY <1>2 DEF LedgerOK, ReceiptOK
<1>4. child # NoRun /\ child \in RunIds /\ seal[child] # {}
  BY <1>1, <1>2, <1>3, HiredClaim
<1>5. child # r
  BY <1>1, <1>2, <1>3, ChildFacts
<1>6. begun[child] = {ResolvedInput(r, rc.step)}
  <2>1. LedgerOK(child)
    BY <1>4 DEF ChainInv
  <2>2. Anchored(child) # {}
    <3>1. DOMAIN FlowSteps(child) # {}
      BY <1>4, FlowFacts
    <3> QED
      BY <1>4, <2>1, <3>1 DEF LedgerOK, SealOK
  <2>3. begun[child] # {}
    BY <2>1, <2>2 DEF LedgerOK, BegunOK, Anchored
  <2> QED
    BY <1>1, <1>3, <1>4, <2>3 DEF HiresOK
<1>7. g.spec = {} \/ g.spec = {[flow |-> FlowOf[child], inputs |-> rc.traceRoot.input]}
  <2>1. Of(EvidenceOf(f), rc.step) =
            {[step |-> rc.step, input |-> rc.traceRoot.input, output |-> rc.traceRoot.output]}
    BY <1>1, <1>3, EvidenceIs
  <2>2. {[flow |-> FlowOf[child], inputs |-> e.input] : e \in Of(EvidenceOf(f), rc.step)}
            = {[flow |-> FlowOf[child], inputs |-> rc.traceRoot.input]}
    BY <2>1
  <2> QED
    BY <1>1, <2>2 DEF ChildSpec
<1>8. begun[child] = {rc.traceRoot.input} \/ AllPlain(child)
  <2>1. CASE Plain(rc)
    <3>1. rc.inputHash = {rc.traceRoot.input} /\ rc.inputHash = {ResolvedInput(r, rc.step)}
      BY <1>1, <1>3, <2>1 DEF Plain, PlainHashes, HashJson
    <3> QED
      BY <1>6, <3>1
  <2>2. CASE ~Plain(rc)
    BY <1>2, <1>4, <1>5, <2>2 DEF ChainInv, OneFault, AllPlain
  <2> QED
    BY <2>1, <2>2
<1>9. PICK s : s = [flow |-> FlowOf[child], inputs |-> rc.traceRoot.input]
  OBVIOUS
<1>10. s.flow = FlowOf[child] /\ s.inputs = rc.traceRoot.input
  BY <1>9
<1>11. g.spec = {} \/ g.spec = {s}
  BY <1>7, <1>9
<1> QED
  BY <1>8, <1>10, <1>11 DEF SpecOK

LEMMA FollowClaimKeeps ==
    ASSUME VerifyInv, frames # <<>>, UNCHANGED <<chainVars, registryVars>>, FollowClaim
    PROVE  VerifyInv'
<1> DEFINE claim == Head(Top.claims)
           spec == IF claim.root # {} THEN ChildSpec(Top, claim.step) ELSE {}
<1>1. /\ ChainInv /\ FrameOK(Top) /\ Top.at = "hired" /\ Top.claims # <<>> /\ verified' = verified
  BY TopFacts DEF VerifyInv, FollowClaim
<1>2. ClaimOK(Top, claim)
  <2>1. IsSequence(Top.claims) /\ \A k \in DOMAIN Top.claims : ClaimOK(Top, Top.claims[k])
    BY <1>1 DEF FrameOK, Shape
  <2>2. 1 \in DOMAIN Top.claims /\ claim = Top.claims[1]
    BY <1>1, <2>1, TailFacts
  <2> QED
    BY <2>1, <2>2
<1>3. Quiet /\ Goes
  BY <1>1, ChainGoes DEF VerifyInv, Quiet
<1>4. CASE MayFollow(Top.depth)
  <2>1. PICK g : g = Frame(claim.run, spec, Spent(Top.depth))
    OBVIOUS
  <2>2. frames' = Append(frames, g)
    BY <1>4, <2>1 DEF FollowClaim
  <2>3. g.run = claim.run /\ g.spec = spec
    BY <2>1 DEF Frame
  <2>4. SpecOK(g)
    <3>1. CASE claim.root = {}
      BY <2>3, <3>1 DEF SpecOK
    <3>2. CASE claim.root # {}
      <4>1. g.spec = ChildSpec(Top, claim.step)
        BY <2>3, <3>2
      <4> HIDE DEF claim
      <4> QED
        BY <1>1, <1>2, <2>3, <3>2, <4>1, ChildSpecOK
    <3> QED
      BY <3>1, <3>2
  <2>5. FrameOK(g)
    <3>1. claim.run \in RunIds
      BY <1>2 DEF ClaimOK
    <3> HIDE DEF claim, spec
    <3> QED
      BY <2>1, <2>4, <3>1, FreshFrame
  <2>6. FrameOK(g)'
    BY <1>3, <2>5, FrameStays
  <2> QED
    BY <1>1, <1>3, <2>2, <2>3, <2>6, PushKeeps
<1>5. CASE ~MayFollow(Top.depth)
  <2>1. PICK g : g = WithoutClaim(Top, {}, {"depth"})
    OBVIOUS
  <2>2. Replace(g)
    BY <1>5, <2>1 DEF FollowClaim, WithoutClaim
  <2>3. /\ g.run = Top.run /\ g.incomplete # {} /\ Shape(g) /\ SpecOK(g) /\ LinkedOK(g)
    <3>1. /\ g.run = Top.run /\ g.incomplete = Top.incomplete \cup {"depth"}
          /\ Shape(g) /\ SpecOK(g) /\ LinkedOK(g)
      BY <1>1, <2>1, DropClaim
    <3> QED
      BY <3>1
  <2>4. FrameOK(g)
    BY <2>3 DEF FrameOK, BooksOK, Clean
  <2> QED
    BY <1>1, <2>2, <2>3, <2>4, TopKeeps
<1> QED
  BY <1>4, <1>5

-----------------------------------------------------------------------------
\* A call returns, or throws.
LEMMA CleanIsVerified ==
    ASSUME NEW f
    PROVE  /\ Verdict(f) = "verified" <=> Clean(f)
           /\ Verdict(f) # "failed" /\ Verdict(f) # "incomplete" => Clean(f)
BY DEF Verdict, Clean

LEMMA ConcludedIsSound ==
    ASSUME ChainInv, NEW f, FrameOK(f), Concluding(f), Clean(f)
    PROVE  f.run \in RunIds /\ SoundRun(f.run) /\ f.seal = seal[f.run]
<1>1. /\ f.at = "hired" /\ f.claims = <<>> /\ f.todo = {} /\ f.run \in RunIds
  BY DEF Concluding, FrameOK, Shape
<1>2. /\ f.seal = seal[f.run]
      /\ \E s \in f.seal : {s.chainRoot} = FoldChainRoot(f.run, f.read)
      /\ f.had = f.read \ f.todo
      /\ \A rc \in receipts[f.run] : rc.step \in f.had =>
              Checked(rc) /\ (Hires(rc) => Pending(f, rc) \/ Settled(rc))
      /\ f.read = DOMAIN FlowSteps(f.run)
      /\ \A rc \in receipts[f.run] : Linked(rc)
  BY <1>1 DEF FrameOK, BooksOK, LinkedOK
<1>3. \A rc : ~Pending(f, rc)
  <2>1. DOMAIN <<>> = {}
    OBVIOUS
  <2> QED
    BY <1>1, <2>1 DEF Pending
<1>4. \A rc \in receipts[f.run] : rc.step \in f.had
  <2>1. \A rc \in receipts[f.run] : rc.step \in DOMAIN FlowSteps(f.run)
    BY <1>1 DEF ChainInv, LedgerOK, ReceiptOK
  <2> QED
    BY <1>1, <1>2, <2>1
<1> QED
  BY <1>1, <1>2, <1>3, <1>4 DEF SoundRun

\* A frame of which only the settled claims are still to be seen.
LEMMA QuietKeeps ==
    ASSUME Goes, UNCHANGED <<chainVars, registryVars>>,
           NEW g, Shape(g), SpecOK(g), LinkedOK(g), BooksOK(g)'
    PROVE  FrameOK(g)'
<1>1. receipts' = receipts /\ begun' = begun /\ fault' = fault /\ seal' = seal
  BY DEF chainVars
<1>2. Shape(g)'
  BY <1>1 DEF Shape, ClaimOK, Anchored, Clean
<1>3. SpecOK(g)'
  BY <1>1 DEF SpecOK, Shape, Goes, PlainKept
<1>4. \A rc : Linked(rc)' <=> Linked(rc)
  <2>1. \A r, i : (Blocked(r, i)' <=> Blocked(r, i)) /\ ResolvedInput(r, i)' = ResolvedInput(r, i)
    BY <1>1 DEF Blocked, ResolvedInput, Output, ReceiptOf
  <2> QED
    BY <2>1 DEF Linked
<1>5. LinkedOK(g)'
  BY <1>1, <1>4 DEF LinkedOK, Clean
<1> QED
  BY <1>2, <1>3, <1>5 DEF FrameOK

LEMMA ResumedOK ==
    ASSUME Goes, UNCHANGED <<chainVars, registryVars>>,
           NEW f, FrameOK(f), Concluding(f), Clean(f) => f.run \in verified',
           NEW c, FrameOK(c), c.at = "hired", c.claims # <<>>, Head(c.claims).run = f.run,
           NEW failures, failures = ClaimFailures(Head(c.claims), f),
           NEW gaps, gaps = ClaimGaps(Head(c.claims), f),
           NEW g, g = WithoutClaim(c, failures, gaps)
    PROVE  FrameOK(g)' /\ g.run = c.run
<1>1. /\ g.run = c.run /\ g.at = "hired"
      /\ g.read = c.read /\ g.seal = c.seal /\ g.todo = c.todo /\ g.had = c.had
      /\ g.failures = c.failures \cup failures /\ g.incomplete = c.incomplete \cup gaps
      /\ \A k \in DOMAIN c.claims : k # 1 =>
            \E l \in DOMAIN g.claims : g.claims[l] = c.claims[k]
      /\ Shape(g) /\ SpecOK(g) /\ LinkedOK(g)
  BY DropClaim
<1>2. receipts' = receipts /\ seal' = seal /\ verified \subseteq verified'
  BY DEF chainVars, Goes
<1>3. Head(c.claims) = c.claims[1]
  <2>1. IsSequence(c.claims)
    BY DEF FrameOK, Shape
  <2> QED
    BY <2>1, TailFacts
<1>4. BooksOK(g)'
  <2> SUFFICES ASSUME Clean(g)
               PROVE  /\ g.seal = seal[g.run]
                      /\ \E s \in g.seal : {s.chainRoot} = FoldChainRoot(g.run, g.read)
                      /\ g.had = g.read \ g.todo
                      /\ \A rc \in receipts[g.run] : rc.step \in g.had =>
                            Checked(rc) /\ (Hires(rc) => Pending(g, rc) \/ Settled(rc)')
    BY <1>2 DEF BooksOK, Clean, Checked, Hires, Pending, ClaimOf
  <2>1. Clean(c) /\ failures = {} /\ gaps = {}
    BY <1>1 DEF Clean
  <2>2. /\ c.seal = seal[c.run]
        /\ \E s \in c.seal : {s.chainRoot} = FoldChainRoot(c.run, c.read)
        /\ c.had = c.read \ c.todo
        /\ \A rc \in receipts[c.run] : rc.step \in c.had =>
              Checked(rc) /\ (Hires(rc) => Pending(c, rc) \/ Settled(rc))
    BY <2>1 DEF FrameOK, BooksOK
  <2>3. ASSUME NEW rc \in receipts[c.run], Pending(c, rc)
        PROVE  Pending(g, rc) \/ Settled(rc)'
    <3>1. PICK k \in DOMAIN c.claims : c.claims[k] = ClaimOf(rc)
      BY <2>3 DEF Pending
    <3>2. CASE k # 1
      BY <1>1, <3>1, <3>2 DEF Pending
    <3>3. CASE k = 1
      <4>1. Head(c.claims).root = {The(rc.outputHash).chainRoot} /\ f.run = Child(rc.run, rc.step)
        BY <1>3, <3>1, <3>3 DEF ClaimOf
      <4>2. Verdict(f) # "failed" /\ \A s \in f.seal : s.chainRoot = The(rc.outputHash).chainRoot
        BY <2>1, <4>1 DEF ClaimFailures
      <4>3. Verdict(f) # "incomplete" /\ f.seal # {}
        BY <2>1 DEF ClaimGaps
      <4>4. Clean(f)
        BY <4>2, <4>3, CleanIsVerified
      <4>5. f.run \in verified' /\ f.seal = seal[f.run]
        BY <4>4, ConcludedIsSound DEF Goes
      <4> QED
        BY <1>2, <4>1, <4>2, <4>3, <4>5 DEF Settled
    <3> QED
      BY <3>2, <3>3
  <2>4. \A rc : Settled(rc) => Settled(rc)'
    BY <1>2 DEF Settled
  <2> QED
    BY <1>1, <2>2, <2>3, <2>4
<1> QED
  BY <1>1, <1>4, QuietKeeps

LEMMA ReturnKeeps ==
    ASSUME VerifyInv, frames # <<>>, UNCHANGED <<chainVars, registryVars>>, Return
    PROVE  VerifyInv'
<1>1. /\ ChainInv /\ FrameOK(Top) /\ Concluding(Top)
      /\ verified' = verified \cup {r \in {Top.run} : Verdict(Top) = "verified"}
  BY TopFacts DEF VerifyInv, Return
<1>2. Quiet
  BY <1>1 DEF Quiet
<1>3. Goes
  BY <1>2, ChainGoes DEF VerifyInv, Quiet
<1>4. Clean(Top) => Top.run \in verified'
  BY <1>1, CleanIsVerified
<1>5. ASSUME NEW r \in verified' PROVE r \in verified \/ (r \in RunIds /\ SoundRun(r)')
  <2> SUFFICES ASSUME r \notin verified PROVE r \in RunIds /\ SoundRun(r)'
    OBVIOUS
  <2>1. r = Top.run /\ Verdict(Top) = "verified"
    BY <1>1
  <2>2. r \in RunIds /\ SoundRun(r)
    BY <1>1, <2>1, CleanIsVerified, ConcludedIsSound
  <2> QED
    BY <1>3, <2>2, SoundStays
<1>6. CASE Len(frames) = 1
  <2>1. Absorb({}, {})
    BY <1>6 DEF Return
  <2>2. PICK g : g = Resumed({}, {})
    OBVIOUS
  <2> QED
    BY <1>2, <1>5, <1>6, <2>1, <2>2, PopKeeps
<1>7. CASE Len(frames) # 1
  <2>1. PICK failures, gaps : /\ failures = ClaimFailures(Head(Caller.claims), Top)
                              /\ gaps = ClaimGaps(Head(Caller.claims), Top)
    OBVIOUS
  <2>2. Absorb(failures, gaps)
    BY <1>7, <2>1 DEF Return, Caller
  <2>3. /\ FrameOK(Caller) /\ Caller.at = "hired" /\ Caller.claims # <<>>
        /\ Head(Caller.claims).run = Top.run
    BY <1>7, CallerFacts
  <2>4. PICK g : g = Resumed(failures, gaps)
    OBVIOUS
  <2>5. FrameOK(g)' /\ g.run = Caller.run
    <3>1. g = WithoutClaim(Caller, failures, gaps)
      BY <2>4 DEF Resumed
    <3> QED
      BY <1>1, <1>3, <1>4, <2>1, <2>3, <3>1, ResumedOK
  <2> QED
    BY <1>2, <1>5, <2>2, <2>4, <2>5, PopKeeps
<1> QED
  BY <1>6, <1>7

LEMMA ThrowKeeps ==
    ASSUME VerifyInv, frames # <<>>, UNCHANGED <<chainVars, registryVars>>, Throw
    PROVE  VerifyInv'
<1>1. Absorb({}, {"child"}) /\ verified' = verified
  BY DEF Throw
<1>2. Quiet
  BY <1>1 DEF Quiet
<1>3. Goes
  BY <1>2, ChainGoes DEF VerifyInv, Quiet
<1>4. PICK g : g = Resumed({}, {"child"})
  OBVIOUS
<1>5. ASSUME Len(frames) # 1 PROVE FrameOK(g)' /\ g.run = Caller.run
  <2>1. FrameOK(Caller) /\ Caller.at = "hired" /\ Caller.claims # <<>>
    BY <1>5, CallerFacts
  <2>2. g = WithoutClaim(Caller, {}, {"child"})
    BY <1>4 DEF Resumed
  <2>3. /\ g.run = Caller.run /\ g.incomplete = Caller.incomplete \cup {"child"}
        /\ Shape(g) /\ SpecOK(g) /\ LinkedOK(g)
    BY <2>1, <2>2, DropClaim
  <2>4. g.incomplete # {}
    BY <2>3
  <2>5. FrameOK(g)
    BY <2>3, <2>4 DEF FrameOK, BooksOK, Clean
  <2> QED
    BY <1>3, <2>3, <2>5, FrameStays
<1> QED
  BY <1>1, <1>2, <1>4, <1>5, PopKeeps

-----------------------------------------------------------------------------
LEMMA InitVerifyInv == VerifyInit => VerifyInv
<1> SUFFICES ASSUME VerifyInit PROVE VerifyInv
  OBVIOUS
<1>1. ChainInv
  BY InitChain
<1>2. frames = <<>> /\ verified = {}
  BY DEF VerifyInit
<1>3. IsSequence(frames) /\ DOMAIN frames = {}
  <2>1. <<>> = [k \in 1 .. 0 |-> <<>>[k]] /\ DOMAIN <<>> = {}
    OBVIOUS
  <2> QED
    BY <1>2, <2>1 DEF IsSequence
<1> QED
  BY <1>1, <1>2, <1>3 DEF VerifyInv, FramesOK, StackOK, Calls

LEMMA NextVerifyInv ==
    VerifyInv /\ [VerifyNext]_verifyVars => VerifyInv'
<1> SUFFICES ASSUME VerifyInv, [VerifyNext]_verifyVars PROVE VerifyInv'
  OBVIOUS
<1>1. CASE ChainStep \/ RegistryStep \/ UNCHANGED verifyVars
  BY <1>1, ElsewhereKeeps
<1>2. CASE Begin /\ UNCHANGED <<chainVars, registryVars>>
  BY <1>2, BeginKeeps
<1>3. CASE VerifierStep
  <2>1. frames # <<>> /\ UNCHANGED <<chainVars, registryVars>>
    BY <1>3 DEF VerifierStep
  <2>2. CASE ReadReceipts
    BY <2>1, <2>2, ReadReceiptsKeeps
  <2>3. CASE ReadSeal
    BY <2>1, <2>3, ReadSealKeeps
  <2>4. CASE CheckStep
    BY <2>1, <2>4, CheckStepKeeps
  <2>5. CASE CheckLinkage
    BY <2>1, <2>5, CheckLinkageKeeps
  <2>6. CASE FollowClaim
    BY <2>1, <2>6, FollowClaimKeeps
  <2>7. CASE Return
    BY <2>1, <2>7, ReturnKeeps
  <2>8. CASE Throw
    BY <2>1, <2>8, ThrowKeeps
  <2> QED
    BY <1>3, <2>2, <2>3, <2>4, <2>5, <2>6, <2>7, <2>8 DEF VerifierStep
<1> QED
  BY <1>1, <1>2, <1>3 DEF VerifyNext

\* What was verified is sound: see VerifiedRunsAreSound in Verifier.tla.
LEMMA InvImpliesSound == VerifyInv => VerifiedRunsAreSound
<1> SUFFICES ASSUME VerifyInv, NEW r \in verified
             PROVE  /\ \E s \in seal[r] : {s.chainRoot} = FoldChainRoot(r, DOMAIN FlowSteps(r))
                    /\ \A rc \in receipts[r] :
                          /\ SoundReceipt(rc)
                          /\ Child(r, rc.step) # NoRun /\ StatusSucceeded(rc.status) =>
                                 /\ Child(r, rc.step) \in verified
                                 /\ The(rc.outputHash).chainRoot = The(seal[Child(r, rc.step)]).chainRoot
  BY DEF VerifiedRunsAreSound
<1>1. r \in RunIds /\ SoundRun(r) /\ ChainInv
  BY DEF VerifyInv, FramesOK
<1>2. ASSUME NEW rc \in receipts[r] PROVE SoundReceipt(rc)
  BY <1>1 DEF SoundRun, Checked, Linked, SoundReceipt
<1>3. ASSUME NEW rc \in receipts[r], Child(r, rc.step) # NoRun, StatusSucceeded(rc.status)
      PROVE  /\ Child(r, rc.step) \in verified
             /\ The(rc.outputHash).chainRoot = The(seal[Child(r, rc.step)]).chainRoot
  <2> DEFINE child == Child(r, rc.step)
  <2>1. rc.run = r /\ rc.step \in DOMAIN FlowSteps(r)
    BY <1>1 DEF ChainInv, LedgerOK, ReceiptOK
  <2>2. Settled(rc)
    BY <1>1, <1>3, <2>1 DEF SoundRun, Hires
  <2>3. PICK s \in seal[child] : The(rc.outputHash).chainRoot = s.chainRoot
    BY <2>1, <2>2 DEF Settled
  <2>4. child \in RunIds
    BY <1>1, <1>3, <2>1, ChildFacts
  <2>5. seal[child] = {s}
    BY <1>1, <2>4 DEF ChainInv, LedgerOK, SealOK
  <2>6. The(seal[child]) = s
    BY <2>5, TheOne
  <2> QED
    BY <2>1, <2>2, <2>3, <2>6 DEF Settled
<1> QED
  BY <1>1, <1>2, <1>3 DEF SoundRun

\* Whoever recorded whatever wrongly in one place, and whichever reads failed
\* at whatever moment: a run that was found verified is sealed under the root
\* of its receipts, each of them is sound, and the runs it hired were verified
\* in their turn and sealed what it says of them.
THEOREM VerifiedMeansSound == VerifySpec => []VerifiedRunsAreSound
<1>1. VerifyInit => VerifyInv
  BY InitVerifyInv
<1>2. VerifyInv /\ [VerifyNext]_verifyVars => VerifyInv'
  BY NextVerifyInv
<1>3. VerifyInv => VerifiedRunsAreSound
  BY InvImpliesSound
<1> QED
  BY <1>1, <1>2, <1>3, PTL DEF VerifySpec


-----------------------------------------------------------------------------
\* Runs recorded as executed.

Signed(bundle, acknowledged) ==
    {q \in UNION {b.response : b \in bundle} :
        \E a \in acknowledged : a.vouchedFor /\ q.signer = a.signer}

LEMMA AttestedMeans ==
    ASSUME NEW bundle, NEW output, NEW acknowledged
    PROVE  VerifyAttestation(bundle, output, acknowledged) = "attested" <=>
               /\ bundle # {} /\ Signed(bundle, acknowledged) # {}
               /\ \A q \in Signed(bundle, acknowledged) : q.carries # output
<1> DEFINE signed == Signed(bundle, acknowledged)
<1>1. VerifyAttestation(bundle, output, acknowledged) =
          IF bundle = {} THEN "absent"
          ELSE IF signed = {} THEN "present"
          ELSE IF \A q \in signed : q.carries # output THEN "attested"
          ELSE "bound"
  BY DEF VerifyAttestation, Signed
<1> HIDE DEF signed
<1>2. VerifyAttestation(bundle, output, acknowledged) = "attested" <=>
          bundle # {} /\ signed # {} /\ \A q \in signed : q.carries # output
  BY ONLY <1>1
<1> QED
  BY <1>2 DEF signed

LEMMA QuotePasses ==
    ASSUME NoLooseQuotes, NEW r \in RunIds, NEW rc, ReceiptOK(r, rc), Plain(rc),
           NEW acknowledged, acknowledged \in {{}, AcknowledgedSigner}
    PROVE  AttestationFailures(rc, rc.traceRoot, acknowledged) = {}
<1> DEFINE bundle == rc.traceRoot.bundle
           step == FlowSteps(r)[rc.step]
           all == {[signer |-> TeeKey, vouchedFor |-> TRUE]}
<1>1. rc.run = r /\ rc.step \in DOMAIN FlowSteps(r)
  BY DEF ReceiptOK
<1>2. /\ rc.attestationRef = bundle
      /\ bundle # {} =>
            /\ rc.traceRoot.output = Answer
            /\ \E m \in Manners[r][rc.step] : m.bundle = bundle
            /\ StatusSucceeded(rc.status) /\ step.requires.attestation /\ step.requires.binding = "bound"
                   => Proven(bundle, Answer)
  BY <1>1 DEF Plain, PlainEvidence
<1>3. ASSUME bundle # {}, StatusSucceeded(rc.status)
      PROVE  VerifyAttestation(bundle, Answer, acknowledged) # "attested"
  <2> SUFFICES ASSUME VerifyAttestation(bundle, Answer, acknowledged) = "attested" PROVE FALSE
    OBVIOUS
  <2>1. /\ Signed(bundle, acknowledged) # {}
        /\ \A q \in Signed(bundle, acknowledged) : q.carries # Answer
    BY AttestedMeans
  <2>2. PICK a \in acknowledged : a.vouchedFor
    BY <2>1 DEF Signed
  <2>3. a = [signer |-> TeeKey, vouchedFor |-> ~revoked]
    BY <2>2 DEF AcknowledgedSigner
  <2>4. a.signer = TeeKey
    BY <2>3
  <2>5. \A q \in UNION {b.response : b \in bundle} : q.signer = TeeKey => q.carries # Answer
    BY <2>1, <2>2, <2>4 DEF Signed
  <2>6. ~Proven(bundle, Answer)
    BY <2>5 DEF Proven
  <2>7. PICK m \in Manners[r][rc.step] : m.bundle = bundle
    BY <1>2, <1>3
  <2>8. VerifyAttestation(bundle, Answer, all) # "attested"
    BY <1>1, <1>2, <1>3, <2>6, <2>7 DEF NoLooseQuotes
  <2>9. Signed(bundle, all) = {q \in UNION {b.response : b \in bundle} : q.signer = TeeKey}
    BY DEF Signed
  <2>10. Signed(bundle, acknowledged) \subseteq Signed(bundle, all)
    <3>1. \A b \in acknowledged : b.signer = TeeKey
      BY DEF AcknowledgedSigner
    <3> QED
      BY <2>9, <3>1 DEF Signed
  <2>11. VerifyAttestation(bundle, Answer, all) = "attested"
    <3>1. Signed(bundle, all) # {} /\ \A q \in Signed(bundle, all) : q.carries # Answer
      BY <2>1, <2>5, <2>9, <2>10
    <3> QED
      BY <1>3, <3>1, AttestedMeans
  <2> QED
    BY <2>8, <2>11
<1> HIDE DEF bundle
<1>4. CASE bundle = {}
  BY <1>2, <1>4 DEF AttestationFailures, ZeroHash
<1>5. CASE bundle # {}
  BY <1>2, <1>3, <1>5 DEF AttestationFailures, AttestationRefFor, bundle
<1> QED
  BY <1>4, <1>5

\* Nothing is found against such a receipt: its agent has an owner in the
\* registry that governs, and it says what the trace says.
LEMMA NothingAgainst ==
    ASSUME NoLooseQuotes, ChainInv, fault = "none", NEW f, f.run \in RunIds,
           f.governing = {Governing}, NEW rc \in receipts[f.run], NEW missed
    PROVE  Failures(f, rc, {}, missed) = {}
<1>1. ReceiptOK(f.run, rc) /\ Plain(rc)
  BY DEF ChainInv, LedgerOK, OneFault
<1>2. IdentityFailures(f, rc, {}) = {}
  <2>1. rc.agent \in Owns[Governing]
    BY <1>1, AgentsAreListed DEF ReceiptOK
  <2>2. Claimants(f, rc.agent, {}) = {Governing}
    BY <2>1 DEF Claimants, Consulted
  <2>3. Cardinality({Governing}) = 1
    BY FS_Singleton
  <2> QED
    BY <2>2, <2>3 DEF IdentityFailures
<1>3. CommitFailures(rc) = {} /\ HashFailures(rc, rc.traceRoot) = {}
  BY <1>1 DEF Plain, PlainHashes, CommitFailures, HashFailures, HashJson
<1>4. AttestationFailures(rc, rc.traceRoot, IF "signer" \in missed THEN {} ELSE AcknowledgedSigner) = {}
  <2>1. (IF "signer" \in missed THEN {} ELSE AcknowledgedSigner) \in {{}, AcknowledgedSigner}
    OBVIOUS
  <2> QED
    BY <1>1, <2>1, QuotePasses
<1> QED
  BY <1>2, <1>3, <1>4 DEF Failures

LEMMA SealPasses ==
    ASSUME ChainInv, fault = "none", NEW r \in RunIds, NEW read, read = DOMAIN FlowSteps(r)
    PROVE  SealFailures(FoldChainRoot(r, read), read, seal[r]) = {}
<1> DEFINE root == [run |-> r, steps |-> DOMAIN FlowSteps(r)]
<1>1. FoldChainRoot(r, read) = {root}
  BY RootOf
<1>2. Cardinality({root}) = 1
  BY FS_Singleton
<1>3. \A s \in seal[r] : s.chainRoot = root /\ s.stepCount = Cardinality(read)
  BY DEF ChainInv, LedgerOK, SealOK, RootsOf
<1> HIDE DEF root
<1> QED
  BY <1>1, <1>2, <1>3 DEF SealFailures

\* The inputs derive as the executor derived them.
LEMMA HonestStepLinks ==
    ASSUME ChainInv, fault = "none", NEW f, f.run \in RunIds, f.read = DOMAIN FlowSteps(f.run),
           f.had = f.read, f.read \subseteq Anchored(f.run), NEW inputs, begun[f.run] = {inputs},
           NEW i \in DOMAIN FlowSteps(f.run)
    PROVE  StepLinks(FlowSteps(f.run), inputs, EvidenceOf(f), Read(f), i)
<1> DEFINE r == f.run
           step == FlowSteps(r)[i]
           told == [j \in step.reads |-> The(Of(EvidenceOf(f), j)).output]
<1>1. /\ OnePerStep(r) /\ \A rd \in receipts[r] : ReceiptOK(r, rd) /\ Plain(rd)
  BY DEF ChainInv, LedgerOK, OneFault
<1>2. Read(f) = receipts[r]
  BY <1>1 DEF Read, ReceiptOK
<1>3. PICK rc \in receipts[r] : rc.step = i
  BY DEF Anchored
<1>4. rc.run = r /\ step.reads \subseteq Anchored(r)
  BY <1>1, <1>3 DEF ReceiptOK
<1>5. Of(receipts[r], i) = {rc}
  BY <1>1, <1>3, ReceiptIs
<1> DEFINE ev(rd) == [step |-> rd.step, input |-> rd.traceRoot.input, output |-> rd.traceRoot.output]
<1>6. ASSUME NEW rd \in receipts[r]
      PROVE  Of(EvidenceOf(f), rd.step) = {ev(rd)} /\ ev(rd).output = rd.traceRoot.output
  <2>1. rd.step \in f.had
    BY <1>1 DEF ReceiptOK
  <2> QED
    BY <1>1, <2>1, EvidenceIs
<1> HIDE DEF ev
<1>7. ASSUME NEW j \in step.reads, ~Blocked(r, i)
      PROVE  /\ \A u \in receipts[r] : u.step = j => StatusSucceeded(u.status)
             /\ Confirmed(EvidenceOf(f), receipts[r], j)
             /\ The(Of(EvidenceOf(f), j)).output = Output(r, j)
  <2>1. PICK rd : rd = ReceiptOf(r, j)
    OBVIOUS
  <2>2. rd \in receipts[r] /\ rd.step = j /\ Of(receipts[r], j) = {rd}
    BY <1>1, <1>4, <2>1, AnchoredIs
  <2>3. StatusSucceeded(rd.status) /\ rd.outputHash # ZeroHash
    BY <1>7, <2>1 DEF Blocked
  <2>4. rd.outputHash = {rd.traceRoot.output}
    BY <1>1, <2>2, <2>3 DEF Plain, PlainHashes
  <2>5. Confirmed(EvidenceOf(f), receipts[r], j)
    BY <1>6, <2>2, <2>3, <2>4 DEF Confirmed, HashJson
  <2>6. The(Of(EvidenceOf(f), j)) = ev(rd)
    BY <1>6, <2>2, TheOne
  <2>7. The(rd.outputHash) = rd.traceRoot.output
    BY <2>4, TheOne
  <2>8. The(Of(EvidenceOf(f), j)).output = Output(r, j)
    BY <1>6, <2>1, <2>2, <2>6, <2>7 DEF Output
  <2> QED
    BY <1>1, <2>2, <2>3, <2>5, <2>8 DEF OnePerStep
<1>8. \A j \in step.reads : j \in step.needs /\ j \in DOMAIN FlowSteps(r) /\ j < i
  BY FlowFacts
<1>9. /\ rc.inputHash \in {ZeroHash, {rc.traceRoot.input}}
      /\ rc.outputHash \in {ZeroHash, {rc.traceRoot.output}}
      /\ StatusSucceeded(rc.status) => rc.outputHash # ZeroHash
      /\ rc.outputHash # ZeroHash => rc.inputHash # ZeroHash
      /\ rc.inputHash # ZeroHash =>
            ~Blocked(r, i) /\ rc.inputHash = HashJson(ResolvedInput(r, i))
  BY <1>1, <1>3, <1>4 DEF Plain, PlainHashes
<1>10. ASSUME ~Blocked(r, i)
       PROVE  ResolvedInput(r, i) = ResolveTemplates(step, inputs, told)
  <2>1. told = [j \in step.reads |-> Output(r, j)]
    BY <1>7, <1>10
  <2>2. The(begun[r]) = inputs
    BY TheOne
  <2> QED
    BY <2>1, <2>2 DEF ResolvedInput
<1>11. PICK e : e \in Of(EvidenceOf(f), i) /\ e.output = rc.traceRoot.output
  BY <1>3, <1>6
<1>12. /\ StatusSucceeded(rc.status) =>
             /\ \A j \in step.reads, u \in receipts[r] : u.step = j => StatusSucceeded(u.status)
             /\ rc.outputHash # ZeroHash /\ rc.inputHash # ZeroHash
       /\ rc.outputHash # ZeroHash => HashJson(e.output) = rc.outputHash
       /\ rc.inputHash # ZeroHash =>
             /\ \A j \in step.reads : Confirmed(EvidenceOf(f), receipts[r], j)
             /\ rc.inputHash = HashJson(ResolveTemplates(step, inputs, told))
  <2>1. rc.outputHash # ZeroHash => HashJson(e.output) = rc.outputHash
    BY <1>9, <1>11 DEF HashJson
  <2>2. CASE rc.inputHash = ZeroHash
    BY <1>9, <2>1, <2>2
  <2>3. CASE rc.inputHash # ZeroHash
    BY <1>7, <1>9, <1>10, <2>1, <2>3
  <2> QED
    BY <2>2, <2>3
<1>13. rc \in Of(Read(f), i) /\ e \in Of(EvidenceOf(f), i)
  BY <1>2, <1>5, <1>11
<1> HIDE DEF step
<1> QED
  BY <1>2, <1>8, <1>12, <1>13 DEF StepLinks, step

LEMMA LinkagePasses ==
    ASSUME ChainInv, fault = "none", NEW f, FrameOK(f), CanLink(f), f.read = DOMAIN FlowSteps(f.run)
    PROVE  VerifyLinkage(Flows[The(f.spec).flow], The(f.spec).inputs, EvidenceOf(f), Read(f))
<1>1. f.run \in RunIds /\ f.had = f.read /\ f.read \subseteq Anchored(f.run)
  BY DEF FrameOK, Shape, CanLink
<1>2. PICK s : f.spec = {s} /\ s.flow = FlowOf[f.run] /\ begun[f.run] = {s.inputs}
  BY DEF FrameOK, SpecOK, CanLink, AllPlain
<1>3. The(f.spec) = s /\ Flows[s.flow] = FlowSteps(f.run)
  BY <1>2, TheOne DEF FlowSteps
<1>4. \A i \in DOMAIN FlowSteps(f.run) : StepLinks(FlowSteps(f.run), s.inputs, EvidenceOf(f), Read(f), i)
  BY <1>1, <1>2, HonestStepLinks
<1>5. \A rc \in Read(f) : rc.step \in DOMAIN FlowSteps(f.run)
  BY DEF Read
<1> QED
  BY <1>3, <1>4, <1>5 DEF VerifyLinkage


-----------------------------------------------------------------------------
\* While nothing is recorded wrongly and the registries can be read: nothing
\* is found against a run whose receipts were all read, and those of a run
\* that a receipt claims are all there.
Whole(f) == f.read = DOMAIN FlowSteps(f.run)
Passing(f) ==
    /\ f.at # "logs" /\ f.read # {} => f.governing = {Governing}
    /\ Whole(f) => f.failures = {}
    /\ f.seal \subseteq seal[f.run]
Told(caller, f) == Head(caller.claims).root # {} => f.at = "logs" \/ Whole(f)
\* A caller, and the call it waits for.
Waits(c, f) == \E k, below \in DOMAIN frames : below = k + 1 /\ c = frames[k] /\ f = frames[below]
Recorded == fault = "none" /\ "registry" \notin unread
HonestInv ==
    Recorded =>
        /\ \A f \in Calls : Passing(f)
        /\ \A c, f : Waits(c, f) => Told(c, f)

LEMMA CallerWaits ==
    ASSUME VerifyInv, frames # <<>>, Len(frames) # 1
    PROVE  Waits(Caller, Top)
<1> DEFINE n == Len(frames)
<1>1. n \in Nat \ {0} /\ DOMAIN frames = 1 .. n
  BY TopFacts
<1> HIDE DEF n
<1>2. n - 1 \in DOMAIN frames /\ n \in DOMAIN frames /\ n = (n - 1) + 1
  BY <1>1 DEF n
<1> QED
  BY <1>2 DEF Waits, Caller, Top, n

\* The calls after a step of the innermost one, after a call and a return.
LEMMA CallsReplaced ==
    ASSUME VerifyInv, frames # <<>>, NEW g, Replace(g)
    PROVE  /\ \A f \in Calls' : f \in Calls \/ f = g
           /\ \A c, f : Waits(c, f)' => Waits(c, f) \/ (Len(frames) # 1 /\ c = Caller /\ f = g)
<1> DEFINE n == Len(frames)
<1>1. n \in Nat \ {0} /\ DOMAIN frames = 1 .. n /\ frames = [k \in 1 .. n |-> frames[k]]
  BY TopFacts
<1>2. frames' = [frames EXCEPT ![n] = g]
  BY DEF Replace
<1>3. Caller = frames[n - 1]
  BY DEF Caller
<1> HIDE DEF n
<1>4. /\ DOMAIN frames' = 1 .. n /\ frames'[n] = g
      /\ \A k \in 1 .. n : k # n => frames'[k] = frames[k]
  BY ONLY <1>1, <1>2
<1>5. \A f \in Calls' : f \in Calls \/ f = g
  BY <1>1, <1>4 DEF Calls
<1>6. ASSUME NEW k \in 1 .. n, NEW below \in 1 .. n, below = k + 1
      PROVE  \/ Waits(frames'[k], frames'[below])
             \/ n # 1 /\ frames'[k] = Caller /\ frames'[below] = g
  <2>1. k # n /\ frames'[k] = frames[k]
    BY <1>1, <1>4, <1>6
  <2>2. CASE below = n
    <3>1. k = n - 1 /\ n # 1
      BY <1>1, <1>6, <2>2
    <3> QED
      BY <1>3, <1>4, <2>1, <2>2, <3>1
  <2>3. CASE below # n
    BY <1>1, <1>4, <1>6, <2>1, <2>3 DEF Waits
  <2> QED
    BY <2>2, <2>3
<1>7. \A c, f : Waits(c, f)' =>
          \E k \in 1 .. n, below \in 1 .. n : below = k + 1 /\ c = frames'[k] /\ f = frames'[below]
  BY <1>4 DEF Waits
<1> QED
  BY <1>5, <1>6, <1>7 DEF n

LEMMA CallsPushed ==
    ASSUME VerifyInv, frames # <<>>, NEW g, frames' = Append(frames, g)
    PROVE  /\ \A f \in Calls' : f \in Calls \/ f = g
           /\ \A c, f : Waits(c, f)' => Waits(c, f) \/ (c = Top /\ f = g)
<1> DEFINE n == Len(frames)
<1>1. n \in Nat \ {0} /\ DOMAIN frames = 1 .. n /\ IsSequence(frames)
  BY TopFacts DEF VerifyInv, FramesOK
<1>2. /\ DOMAIN frames' = 1 .. n + 1 /\ frames'[n + 1] = g
      /\ \A k \in 1 .. n : frames'[k] = frames[k]
  BY <1>1, AppendFacts
<1>3. Top = frames[n]
  BY DEF Top
<1> HIDE DEF n
<1>4. \A f \in Calls' : f \in Calls \/ f = g
  BY <1>1, <1>2 DEF Calls
<1>5. ASSUME NEW k \in 1 .. n + 1, NEW below \in 1 .. n + 1, below = k + 1
      PROVE  Waits(frames'[k], frames'[below]) \/ (frames'[k] = Top /\ frames'[below] = g)
  <2>1. CASE below = n + 1
    <3>1. k = n /\ k \in 1 .. n
      BY <1>1, <1>5, <2>1
    <3> QED
      BY <1>2, <1>3, <2>1, <3>1
  <2>2. CASE below # n + 1
    <3>1. k \in 1 .. n /\ below \in 1 .. n
      BY <1>1, <1>5, <2>2
    <3> QED
      BY <1>1, <1>2, <1>5, <3>1 DEF Waits
  <2> QED
    BY <2>1, <2>2
<1>6. ASSUME NEW c, NEW f, Waits(c, f)' PROVE Waits(c, f) \/ (c = Top /\ f = g)
  <2>1. PICK k \in 1 .. n + 1, below \in 1 .. n + 1 :
            below = k + 1 /\ c = frames'[k] /\ f = frames'[below]
    BY <1>2, <1>6 DEF Waits
  <2> QED
    BY <1>5, <2>1
<1> QED
  BY <1>4, <1>6

LEMMA CallsPopped ==
    ASSUME VerifyInv, frames # <<>>, NEW failures, NEW gaps, Absorb(failures, gaps),
           NEW g, g = Resumed(failures, gaps)
    PROVE  /\ \A f \in Calls' : f \in Calls \/ (Len(frames) # 1 /\ f = g)
           /\ \A c, f : Waits(c, f)' =>
                 Waits(c, f) \/ (Len(frames) # 1 /\ f = g /\ Waits(c, Caller))
<1> DEFINE n == Len(frames) - 1
<1>1. Len(frames) \in Nat \ {0} /\ DOMAIN frames = 1 .. n + 1
  BY TopFacts
<1>2. CASE n = 0
  <2>1. frames' = <<>> /\ DOMAIN <<>> = {}
    BY <1>2 DEF Absorb
  <2> QED
    BY <2>1 DEF Waits, Calls
<1>3. CASE n # 0
  <2>1. n \in Nat \ {0} /\ Len(frames) # 1
    BY <1>1, <1>3
  <2>2. Caller = frames[n]
    BY DEF Caller
  <2>3. frames' = [k \in 1 .. n |-> IF k < n THEN frames[k] ELSE g]
    BY <1>3 DEF Absorb, Resumed, WithoutClaim, Caller
  <2> HIDE DEF n
  <2>4. /\ DOMAIN frames' = 1 .. n /\ frames'[n] = g
        /\ \A k \in 1 .. n : k # n => frames'[k] = frames[k]
    BY ONLY <2>1, <2>3
  <2>5. \A f \in Calls' : f \in Calls \/ f = g
    BY <1>1, <2>1, <2>4 DEF Calls
  <2>6. ASSUME NEW k \in 1 .. n, NEW below \in 1 .. n, below = k + 1
        PROVE  \/ Waits(frames'[k], frames'[below])
               \/ frames'[below] = g /\ Waits(frames'[k], Caller)
    <3>1. k # n /\ k \in DOMAIN frames /\ below \in DOMAIN frames
      BY <1>1, <2>1, <2>6
    <3>2. Waits(frames[k], frames[below])
      BY <2>6, <3>1 DEF Waits
    <3> QED
      BY <2>2, <2>4, <3>1, <3>2
  <2>7. \A c, f : Waits(c, f)' =>
            \E k \in 1 .. n, below \in 1 .. n : below = k + 1 /\ c = frames'[k] /\ f = frames'[below]
    BY <2>4 DEF Waits
  <2> QED
    BY <2>1, <2>5, <2>6, <2>7
<1> QED
  BY <1>2, <1>3

LEMMA PassingStays ==
    ASSUME UNCHANGED <<chainVars, registryVars>>
    PROVE  \A f : Passing(f)' <=> Passing(f)
BY DEF Passing, Whole, chainVars

LEMMA HonestReplace ==
    ASSUME VerifyInv, HonestInv, frames # <<>>, UNCHANGED <<chainVars, registryVars>>,
           Recorded, NEW g, Replace(g), Passing(g), Len(frames) # 1 => Told(Caller, g)
    PROVE  HonestInv'
<1>1. \A f \in Calls' : Passing(f)'
  BY CallsReplaced, PassingStays DEF HonestInv
<1>2. \A c, f : Waits(c, f)' => Told(c, f)
  BY CallsReplaced DEF HonestInv
<1> QED
  BY <1>1, <1>2 DEF HonestInv, Told, Whole

LEMMA HonestPush ==
    ASSUME VerifyInv, HonestInv, frames # <<>>, UNCHANGED <<chainVars, registryVars>>,
           Recorded, NEW g, frames' = Append(frames, g), Passing(g), g.at = "logs"
    PROVE  HonestInv'
<1>1. \A f \in Calls' : Passing(f)'
  BY CallsPushed, PassingStays DEF HonestInv
<1>2. \A c, f : Waits(c, f)' => Told(c, f)
  BY CallsPushed DEF HonestInv, Told
<1> QED
  BY <1>1, <1>2 DEF HonestInv, Told, Whole

LEMMA HonestPop ==
    ASSUME VerifyInv, HonestInv, frames # <<>>, UNCHANGED <<chainVars, registryVars>>,
           Recorded, NEW failures, NEW gaps, Absorb(failures, gaps), Len(frames) # 1 => failures = {}
    PROVE  HonestInv'
<1>1. PICK g : g = Resumed(failures, gaps)
  OBVIOUS
<1>2. ASSUME Len(frames) # 1
      PROVE  Passing(g) /\ \A c : Told(c, Caller) => Told(c, g)
  <2>1. FrameOK(Caller) /\ Caller.at = "hired" /\ Caller.claims # <<>> /\ Caller \in Calls
    BY <1>2, CallerFacts
  <2>2. /\ g.run = Caller.run /\ g.at = "hired" /\ g.read = Caller.read /\ g.seal = Caller.seal
        /\ g.governing = Caller.governing /\ g.failures = Caller.failures \cup failures
    BY <1>1, <2>1, DropClaim DEF Resumed
  <2>3. Passing(Caller)
    BY <2>1 DEF HonestInv
  <2> QED
    BY <1>2, <2>1, <2>2, <2>3 DEF Passing, Told, Whole
<1>3. \A f \in Calls' : Passing(f)'
  BY <1>1, <1>2, CallsPopped, PassingStays DEF HonestInv
<1>4. \A c, f : Waits(c, f)' => Told(c, f)
  BY <1>1, <1>2, CallsPopped DEF HonestInv
<1> QED
  BY <1>3, <1>4 DEF HonestInv, Told, Whole

\* The run that the claim of a receipt names is sealed, so its receipts are
\* all there when they are read.
LEMMA ClaimedIsWhole ==
    ASSUME ChainInv, NEW f, FrameOK(f), NEW claim, ClaimOK(f, claim), claim.root # {}
    PROVE  /\ claim.run \in RunIds /\ Anchored(claim.run) = DOMAIN FlowSteps(claim.run)
           /\ seal[claim.run] # {} /\ receipts[claim.run] # {}
<1>1. PICK rc \in receipts[f.run] : rc.traceRoot.output \notin Special /\ claim.run = Child(f.run, rc.step)
  BY DEF ClaimOK
<1>2. f.run \in RunIds /\ ReceiptOK(f.run, rc)
  BY DEF FrameOK, Shape, ChainInv, LedgerOK
<1>3. claim.run \in RunIds /\ seal[claim.run] # {}
  BY <1>1, <1>2, HiredClaim
<1>4. Anchored(claim.run) = DOMAIN FlowSteps(claim.run)
  BY <1>3 DEF ChainInv, LedgerOK, SealOK
<1>5. receipts[claim.run] # {}
  <2>1. DOMAIN FlowSteps(claim.run) # {}
    BY <1>3, FlowFacts
  <2> QED
    BY <1>4, <2>1 DEF Anchored
<1> QED
  BY <1>3, <1>4, <1>5

LEMMA CallerClaims ==
    ASSUME VerifyInv, frames # <<>>, Len(frames) # 1
    PROVE  /\ FrameOK(Caller) /\ ClaimOK(Caller, Head(Caller.claims))
           /\ Head(Caller.claims).run = Top.run
<1>1. /\ FrameOK(Caller) /\ Caller.claims # <<>> /\ Head(Caller.claims).run = Top.run
  BY CallerFacts
<1>2. IsSequence(Caller.claims) /\ \A k \in DOMAIN Caller.claims : ClaimOK(Caller, Caller.claims[k])
  BY <1>1 DEF FrameOK, Shape
<1>3. 1 \in DOMAIN Caller.claims /\ Head(Caller.claims) = Caller.claims[1]
  BY <1>1, <1>2, TailFacts
<1> QED
  BY <1>1, <1>2, <1>3

\* What the innermost call and its caller are like.
LEMMA HonestTop ==
    ASSUME VerifyInv, HonestInv, frames # <<>>, Recorded
    PROVE  /\ FrameOK(Top) /\ Top.run \in RunIds /\ DOMAIN Top = FrameFields /\ Passing(Top)
           /\ Len(frames) # 1 => Told(Caller, Top)
<1>1. FrameOK(Top) /\ Top \in Calls
  BY TopFacts
<1> QED
  BY <1>1, CallerWaits DEF FrameOK, Shape, HonestInv

\* One lemma per action of the verifier.
LEMMA HonestReadReceipts ==
    ASSUME VerifyInv, HonestInv, frames # <<>>, UNCHANGED <<chainVars, registryVars>>,
           Recorded, Recorded', ReadReceipts
    PROVE  HonestInv'
<1>1. PICK governing \in {{}, {Governing}} :
          /\ Unread({"registry" : x \in {1} \ {Cardinality(governing)}})
          /\ Replace(IF receipts[Top.run] = {}
                     THEN [Found(Top, {"receipts"}, {}) EXCEPT !.at = "hired"]
                     ELSE [Top EXCEPT !.governing = governing, !.read = Anchored(Top.run),
                                      !.todo = Anchored(Top.run), !.at = "seal"])
  BY DEF ReadReceipts
<1>2. PICK g : g = IF receipts[Top.run] = {}
                   THEN [Found(Top, {"receipts"}, {}) EXCEPT !.at = "hired"]
                   ELSE [Top EXCEPT !.governing = governing, !.read = Anchored(Top.run),
                                    !.todo = Anchored(Top.run), !.at = "seal"]
  OBVIOUS
<1>3. Replace(g) /\ Top.at = "logs"
  BY <1>1, <1>2 DEF ReadReceipts
<1>4. governing = {Governing}
  <2>1. CASE governing = {}
    <3>1. Cardinality(governing) = 0
      BY <2>1, FS_EmptySet
    <3>2. {1} \ {0} = {1}
      OBVIOUS
    <3>3. "registry" \in unread'
      BY <1>1, <3>1, <3>2 DEF Unread
    <3> QED
      BY <3>3 DEF Recorded
  <2> QED
    BY <2>1
<1>5. /\ FrameOK(Top) /\ Top.run \in RunIds /\ DOMAIN Top = FrameFields /\ Passing(Top)
  BY HonestTop
<1>6. Top.read = {} /\ Top.failures = {}
  BY <1>3, <1>5 DEF FrameOK, Shape, Clean
<1>7. DOMAIN FlowSteps(Top.run) # {}
  BY <1>5, FlowFacts
<1>8. g.run = Top.run /\ Passing(g) /\ (receipts[Top.run] # {} => g.read = Anchored(Top.run))
  <2>1. CASE receipts[Top.run] = {}
    <3>1. PICK u : u = Found(Top, {"receipts"}, {})
      OBVIOUS
    <3>2. DOMAIN u = FrameFields /\ u.run = Top.run /\ u.read = Top.read /\ u.seal = Top.seal
      BY <1>5, <3>1, FoundFields
    <3>3. g = [u EXCEPT !.at = "hired"]
      BY <1>2, <2>1, <3>1
    <3>4. g.run = Top.run /\ g.read = {} /\ g.seal = Top.seal
      BY <1>6, <3>2, <3>3 DEF FrameFields
    <3> QED
      BY <1>5, <1>7, <2>1, <3>4 DEF Passing, Whole
  <2>2. CASE receipts[Top.run] # {}
    <3>1. g = [Top EXCEPT !.governing = governing, !.read = Anchored(Top.run),
                          !.todo = Anchored(Top.run), !.at = "seal"]
      BY <1>2, <2>2
    <3>2. PICK f : f = Top
      OBVIOUS
    <3>3. /\ g.run = f.run /\ g.read = Anchored(f.run) /\ g.seal = f.seal /\ g.governing = governing
          /\ g.failures = f.failures
      BY <1>5, <3>1, <3>2 DEF FrameFields
    <3> QED
      BY <1>4, <1>5, <1>6, <3>2, <3>3 DEF Passing
  <2> QED
    BY <2>1, <2>2
<1>9. ASSUME Len(frames) # 1 PROVE Told(Caller, g)
  <2>1. CASE Head(Caller.claims).root # {}
    <3>1. /\ FrameOK(Caller) /\ ClaimOK(Caller, Head(Caller.claims))
          /\ Head(Caller.claims).run = Top.run
      BY <1>9, CallerClaims
    <3>2. Anchored(Top.run) = DOMAIN FlowSteps(Top.run) /\ receipts[Top.run] # {}
      BY <2>1, <3>1, ClaimedIsWhole DEF VerifyInv
    <3> QED
      BY <1>8, <3>2 DEF Told, Whole
  <2> QED
    BY <2>1 DEF Told
<1> QED
  BY <1>3, <1>8, <1>9, HonestReplace

LEMMA HonestReadSeal ==
    ASSUME VerifyInv, HonestInv, frames # <<>>, UNCHANGED <<chainVars, registryVars>>,
           Recorded, ReadSeal
    PROVE  HonestInv'
<1>1. PICK failures, gaps : /\ failures = SealFailures(FoldChainRoot(Top.run, Top.read), Top.read, seal[Top.run])
                            /\ gaps = IF seal[Top.run] = {} THEN {"seal"} ELSE {}
  OBVIOUS
<1>2. PICK u : u = Found(Top, failures, gaps)
  OBVIOUS
<1>3. PICK g : g = [u EXCEPT !.seal = seal[Top.run], !.at = "steps"]
  OBVIOUS
<1>4. Replace(g) /\ Top.at = "seal"
  BY <1>1, <1>2, <1>3 DEF ReadSeal
<1>5. /\ Top.run \in RunIds /\ DOMAIN Top = FrameFields /\ Passing(Top)
      /\ Len(frames) # 1 => Told(Caller, Top)
  BY HonestTop
<1>6. /\ DOMAIN u = FrameFields /\ u.run = Top.run /\ u.read = Top.read /\ u.governing = Top.governing
      /\ u.failures = Top.failures \cup failures
  BY <1>2, <1>5, FoundFields
<1>7. /\ g.run = Top.run /\ g.read = Top.read /\ g.governing = Top.governing
      /\ g.failures = Top.failures \cup failures /\ g.seal = seal[Top.run]
  BY <1>3, <1>6 DEF FrameFields
<1>8. Whole(Top) => failures = {}
  BY <1>1, <1>5, SealPasses DEF Whole, VerifyInv, Recorded
<1>9. Passing(g)
  BY <1>4, <1>5, <1>7, <1>8 DEF Passing, Whole
<1>10. Len(frames) # 1 => Told(Caller, g)
  BY <1>4, <1>5, <1>7 DEF Told, Whole
<1> QED
  BY <1>4, <1>7, <1>9, <1>10, HonestReplace

LEMMA HonestCheckStep ==
    ASSUME NoLooseQuotes, VerifyInv, HonestInv, frames # <<>>, UNCHANGED <<chainVars, registryVars>>,
           Recorded, Recorded', CheckStep
    PROVE  HonestInv'
<1> DEFINE least == CHOOSE x \in Top.todo : \A y \in Top.todo : x <= y
           receipt == ReceiptOf(Top.run, least)
<1>1. ChainInv /\ FrameOK(Top) /\ Top.at = "steps"
  BY TopFacts DEF VerifyInv, CheckStep
<1>2. /\ Top.run \in RunIds /\ DOMAIN Top = FrameFields /\ Passing(Top)
      /\ Len(frames) # 1 => Told(Caller, Top)
  BY HonestTop
<1>3. least \in Top.todo /\ receipt \in receipts[Top.run]
  BY <1>1, LeastIsRead
<1>4. \E lost \in {{}} \cup {{x} : x \in Consulted(Top)}, missed \in {{}} \cup {{x} : x \in EvidenceReads(receipt)} :
          /\ Unread({"registry" : x \in lost} \cup {"evidence" : x \in missed})
          /\ Replace(StepChecked(Top, least, receipt, lost, missed))
  BY Zenon DEF CheckStep, StepChecked
<1>5. PICK lost, missed : /\ Unread({"registry" : x \in lost} \cup {"evidence" : x \in missed})
                          /\ Replace(StepChecked(Top, least, receipt, lost, missed))
  BY <1>4
<1>6. lost = {}
  <2> SUFFICES ASSUME lost # {} PROVE FALSE
    OBVIOUS
  <2>1. "registry" \in unread'
    BY <1>5 DEF Unread
  <2> QED
    BY <2>1 DEF Recorded
<1>7. PICK i, rc : i = least /\ rc = receipt
  OBVIOUS
<1>8. i \in Top.todo /\ rc \in receipts[Top.run]
  BY <1>3, <1>7
<1>9. PICK g : g = StepChecked(Top, i, rc, lost, missed)
  OBVIOUS
<1>10. Replace(g)
  BY <1>5, <1>7, <1>9
<1> HIDE DEF least, receipt
<1>11. PICK u, failures, gaps : /\ failures = Failures(Top, rc, lost, missed) /\ gaps = Gaps(rc, missed)
                                /\ u = Found(Top, failures, gaps)
  OBVIOUS
<1>12. /\ DOMAIN u = FrameFields /\ u.run = Top.run /\ u.read = Top.read /\ u.seal = Top.seal
       /\ u.governing = Top.governing /\ u.failures = Top.failures \cup failures
  BY <1>2, <1>11, FoundFields
<1>13. PICK todo, at, had, claims : g = [u EXCEPT !.todo = todo, !.at = at, !.had = had, !.claims = claims]
  BY <1>9, <1>11 DEF StepChecked
<1>14. /\ g.run = Top.run /\ g.read = Top.read /\ g.governing = Top.governing
       /\ g.failures = Top.failures \cup failures /\ g.seal = Top.seal
  BY <1>12, <1>13 DEF FrameFields
<1>15. Top.governing = {Governing}
  <2>1. Top.read # {}
    BY <1>1, <1>8 DEF FrameOK, Shape
  <2> QED
    BY <1>1, <1>2, <2>1 DEF Passing
<1>16. failures = {}
  BY <1>1, <1>2, <1>6, <1>8, <1>11, <1>15, NothingAgainst DEF Recorded
<1>17. Passing(g)
  BY <1>1, <1>2, <1>14, <1>16 DEF Passing, Whole
<1>18. Len(frames) # 1 => Told(Caller, g)
  BY <1>1, <1>2, <1>14 DEF Told, Whole
<1> QED
  BY <1>10, <1>14, <1>17, <1>18, HonestReplace

LEMMA HonestCheckLinkage ==
    ASSUME VerifyInv, HonestInv, frames # <<>>, UNCHANGED <<chainVars, registryVars>>,
           Recorded, CheckLinkage
    PROVE  HonestInv'
<1> DEFINE links == CanLink(Top) => VerifyLinkage(Flows[The(Top.spec).flow], The(Top.spec).inputs,
                                                 EvidenceOf(Top), Read(Top))
<1>1. ChainInv /\ FrameOK(Top) /\ Top.at = "linkage"
  BY TopFacts DEF VerifyInv, CheckLinkage
<1>2. /\ Top.run \in RunIds /\ DOMAIN Top = FrameFields /\ Passing(Top)
      /\ Len(frames) # 1 => Told(Caller, Top)
  BY HonestTop
<1>3. PICK failures, gaps : /\ failures = IF links THEN {} ELSE {"linkage"}
                            /\ gaps = IF CanLink(Top) THEN {} ELSE {"linkage"}
  OBVIOUS
<1>4. PICK u : u = Found(Top, failures, gaps)
  OBVIOUS
<1>5. PICK g : g = [u EXCEPT !.at = "hired"]
  OBVIOUS
<1>6. Replace(g)
  BY <1>3, <1>4, <1>5 DEF CheckLinkage
<1>7. Whole(Top) => failures = {}
  <2>1. Whole(Top) => links
    BY <1>1, LinkagePasses DEF Whole, Recorded
  <2> HIDE DEF links
  <2> QED
    BY <1>3, <2>1
<1>8. /\ DOMAIN u = FrameFields /\ u.run = Top.run /\ u.read = Top.read /\ u.seal = Top.seal
      /\ u.governing = Top.governing /\ u.failures = Top.failures \cup failures
  BY <1>2, <1>4, FoundFields
<1>9. /\ g.run = Top.run /\ g.read = Top.read /\ g.governing = Top.governing
      /\ g.failures = Top.failures \cup failures /\ g.seal = Top.seal
  BY <1>5, <1>8 DEF FrameFields
<1>10. Passing(g)
  BY <1>1, <1>2, <1>7, <1>9 DEF Passing, Whole
<1>11. Len(frames) # 1 => Told(Caller, g)
  BY <1>1, <1>2, <1>9 DEF Told, Whole
<1> QED
  BY <1>6, <1>9, <1>10, <1>11, HonestReplace

LEMMA HonestFollowClaim ==
    ASSUME VerifyInv, HonestInv, frames # <<>>, UNCHANGED <<chainVars, registryVars>>,
           Recorded, FollowClaim
    PROVE  HonestInv'
<1>1. /\ FrameOK(Top) /\ Top.run \in RunIds /\ Passing(Top)
      /\ Len(frames) # 1 => Told(Caller, Top)
  BY HonestTop
<1>2. Top.at = "hired" /\ Top.claims # <<>>
  BY DEF FollowClaim
<1>3. CASE MayFollow(Top.depth)
  <2>1. PICK claim, spec : /\ claim = Head(Top.claims)
                           /\ spec = IF claim.root # {} THEN ChildSpec(Top, claim.step) ELSE {}
    OBVIOUS
  <2>2. PICK g : g = Frame(claim.run, spec, Spent(Top.depth))
    OBVIOUS
  <2>3. frames' = Append(frames, g)
    BY <1>3, <2>1, <2>2 DEF FollowClaim
  <2>4. g.at = "logs" /\ g.read = {} /\ g.seal = {} /\ g.failures = {}
    BY <2>2 DEF Frame
  <2>5. Passing(g)
    BY <2>4 DEF Passing
  <2> QED
    BY <2>3, <2>4, <2>5, HonestPush
<1>4. CASE ~MayFollow(Top.depth)
  <2>1. PICK g, none, gaps : none = {} /\ gaps = {"depth"} /\ g = WithoutClaim(Top, none, gaps)
    OBVIOUS
  <2>2. Replace(g)
    BY <1>4, <2>1 DEF FollowClaim, WithoutClaim
  <2>3. /\ g.run = Top.run /\ g.at = "hired" /\ g.read = Top.read /\ g.seal = Top.seal
        /\ g.governing = Top.governing /\ g.failures = Top.failures \cup none
    <3>1. PICK f : f = Top
      OBVIOUS
    <3>2. FrameOK(f) /\ f.at = "hired" /\ f.claims # <<>> /\ g = WithoutClaim(f, none, gaps)
      BY <1>1, <1>2, <2>1, <3>1
    <3>3. /\ g.run = f.run /\ g.at = "hired" /\ g.read = f.read /\ g.seal = f.seal
          /\ g.governing = f.governing /\ g.failures = f.failures \cup none
      BY <3>2, DropClaim
    <3> QED
      BY <3>1, <3>3
  <2>4. Passing(g)
    BY <1>1, <1>2, <2>1, <2>3 DEF Passing, Whole
  <2>5. Len(frames) # 1 => Told(Caller, g)
    BY <1>1, <1>2, <2>3 DEF Told, Whole
  <2> QED
    BY <2>2, <2>3, <2>4, <2>5, HonestReplace
<1> QED
  BY <1>3, <1>4

\* The report of a claimed run adds no failure to its caller's.
LEMMA HonestReturn ==
    ASSUME VerifyInv, HonestInv, frames # <<>>, UNCHANGED <<chainVars, registryVars>>,
           Recorded, Return
    PROVE  HonestInv'
<1>1. /\ FrameOK(Top) /\ Top.run \in RunIds /\ Passing(Top)
      /\ Len(frames) # 1 => Told(Caller, Top)
  BY HonestTop
<1>2. Concluding(Top) /\ Top.at = "hired"
  BY DEF Return, Concluding
<1>3. CASE Len(frames) = 1
  <2>1. Absorb({}, {})
    BY <1>3 DEF Return
  <2> QED
    BY <2>1, HonestPop
<1>4. CASE Len(frames) # 1
  <2>1. PICK claim, failures, gaps : /\ claim = Head(Caller.claims)
                                     /\ failures = ClaimFailures(claim, Top) /\ gaps = ClaimGaps(claim, Top)
    OBVIOUS
  <2>2. Absorb(failures, gaps)
    BY <1>4, <2>1 DEF Return, Caller
  <2>3. FrameOK(Caller) /\ ClaimOK(Caller, claim) /\ claim.run = Top.run
    BY <1>4, <2>1, CallerClaims
  <2>4. ASSUME NEW x \in claim.root
        PROVE  Verdict(Top) # "failed" /\ \A s \in Top.seal : s.chainRoot = x
    <3>1. Whole(Top)
      BY <1>1, <1>2, <1>4, <2>1, <2>4 DEF Told
    <3>2. Verdict(Top) # "failed"
      BY <1>1, <3>1 DEF Passing, Verdict
    <3>3. PICK rc \in receipts[Caller.run] :
              /\ rc.traceRoot.output \notin Special /\ claim.run = Child(Caller.run, rc.step)
              /\ claim.root = {rc.traceRoot.output.chainRoot}
      BY <2>3, <2>4 DEF ClaimOK
    <3>4. /\ Caller.run \in RunIds /\ ReceiptOK(Caller.run, rc) /\ Plain(rc)
      BY <2>3 DEF FrameOK, Shape, VerifyInv, ChainInv, LedgerOK, OneFault, Recorded
    <3>5. claim.run # NoRun /\ rc.run = Caller.run
      BY <3>3, <3>4, HiredClaim DEF ReceiptOK
    <3>6. rc.outputHash # ZeroHash /\ rc.outputHash = {rc.traceRoot.output}
      BY <3>3, <3>4 DEF Plain, PlainHashes
    <3>7. PICK s \in seal[Top.run] : rc.outputHash = {OutputOfRun(Top.run, s.chainRoot)}
      BY <2>3, <3>3, <3>4, <3>5, <3>6 DEF Plain, PlainHired
    <3>8. rc.traceRoot.output = OutputOfRun(Top.run, s.chainRoot)
      BY <3>6, <3>7
    <3>9. rc.traceRoot.output.chainRoot = s.chainRoot
      BY <3>8 DEF OutputOfRun, HiredOutput
    <3>10. \A t \in seal[Top.run] : t = s
      BY <1>1 DEF VerifyInv, ChainInv, LedgerOK, SealOK
    <3>11. Top.seal \subseteq seal[Top.run]
      BY <1>1 DEF Passing
    <3> QED
      BY <2>4, <3>2, <3>3, <3>9, <3>10, <3>11
  <2>5. failures = {}
    BY <2>1, <2>4 DEF ClaimFailures
  <2> QED
    BY <2>2, <2>5, HonestPop
<1> QED
  BY <1>3, <1>4

LEMMA HonestThrow ==
    ASSUME VerifyInv, HonestInv, frames # <<>>, UNCHANGED <<chainVars, registryVars>>,
           Recorded, Throw
    PROVE  HonestInv'
<1>1. Absorb({}, {"child"})
  BY DEF Throw
<1> QED
  BY <1>1, HonestPop

LEMMA HonestElsewhere ==
    ASSUME VerifyInv, HonestInv, ChainStep \/ RegistryStep \/ UNCHANGED verifyVars, Recorded'
    PROVE  HonestInv'
<1>1. frames' = frames /\ unread' = unread
  BY DEF ChainStep, RegistryStep, verifierVars, verifyVars
<1>2. ChainInv' /\ Grows
  BY ChainStepsKeep DEF VerifyInv, verifyVars, chainVars, registryVars
<1>3. Recorded
  BY <1>1, <1>2 DEF Recorded, Grows
<1>4. \A f \in Calls : Passing(f)'
  <2> SUFFICES ASSUME NEW f \in Calls PROVE Passing(f)'
    OBVIOUS
  <2>1. Passing(f) /\ f.run \in RunIds
    BY <1>3 DEF HonestInv, VerifyInv, FramesOK, FrameOK, Shape
  <2>2. seal[f.run] \subseteq seal'[f.run]
    BY <1>2, <2>1 DEF Grows
  <2> QED
    BY <2>1, <2>2 DEF Passing
<1>5. Calls' = Calls /\ \A c, f : Waits(c, f)' <=> Waits(c, f)
  BY <1>1 DEF Calls, Waits
<1> QED
  BY <1>3, <1>4, <1>5 DEF HonestInv, Told, Whole

LEMMA HonestBegin ==
    ASSUME Begin PROVE HonestInv'
<1>1. PICK g, spec : frames' = <<g>> /\ g = Frame(Root, spec, MaxHireDepth)
  BY DEF Begin
<1>2. g.at = "logs" /\ g.read = {} /\ g.seal = {} /\ g.failures = {}
  BY <1>1 DEF Frame
<1>3. DOMAIN frames' = {1} /\ frames'[1] = g
  BY <1>1
<1>4. \A f \in Calls' : Passing(f)'
  BY <1>2, <1>3 DEF Calls, Passing
<1>5. \A c, f : ~Waits(c, f)'
  BY <1>3 DEF Waits
<1> QED
  BY <1>4, <1>5 DEF HonestInv

LEMMA UnreadGrows ==
    ASSUME VerifierStep PROVE unread \subseteq unread'
<1>1. CASE ReadReceipts
  BY <1>1 DEF ReadReceipts, Unread
<1>2. CASE ReadSeal \/ CheckLinkage \/ FollowClaim \/ Return
  BY <1>2 DEF ReadSeal, CheckLinkage, FollowClaim, Return
<1>3. CASE CheckStep
  <2>1. \E kinds : Unread(kinds)
    BY Zenon, <1>3 DEF CheckStep
  <2> QED
    BY <2>1 DEF Unread
<1>4. CASE Throw
  BY <1>4 DEF Throw, Unread
<1> QED
  BY <1>1, <1>2, <1>3, <1>4 DEF VerifierStep

LEMMA NextHonestInv ==
    ASSUME NoLooseQuotes, VerifyInv, HonestInv, [VerifyNext]_verifyVars
    PROVE  HonestInv'
<1> SUFFICES ASSUME Recorded' PROVE HonestInv'
  BY DEF HonestInv
<1>1. CASE ChainStep \/ RegistryStep \/ UNCHANGED verifyVars
  BY <1>1, HonestElsewhere
<1>2. CASE Begin /\ UNCHANGED <<chainVars, registryVars>>
  BY <1>2, HonestBegin
<1>3. CASE VerifierStep
  <2>1. frames # <<>> /\ UNCHANGED <<chainVars, registryVars>>
    BY <1>3 DEF VerifierStep
  <2>2. Recorded
    <3>1. fault' = fault
      BY <2>1 DEF chainVars
    <3>2. unread \subseteq unread'
      BY <1>3, UnreadGrows
    <3> QED
      BY <3>1, <3>2 DEF Recorded
  <2>3. CASE ReadReceipts
    BY <2>1, <2>2, <2>3, HonestReadReceipts
  <2>4. CASE ReadSeal
    BY <2>1, <2>2, <2>4, HonestReadSeal
  <2>5. CASE CheckStep
    BY <2>1, <2>2, <2>5, HonestCheckStep
  <2>6. CASE CheckLinkage
    BY <2>1, <2>2, <2>6, HonestCheckLinkage
  <2>7. CASE FollowClaim
    BY <2>1, <2>2, <2>7, HonestFollowClaim
  <2>8. CASE Return
    BY <2>1, <2>2, <2>8, HonestReturn
  <2>9. CASE Throw
    BY <2>1, <2>2, <2>9, HonestThrow
  <2> QED
    BY <1>3, <2>3, <2>4, <2>5, <2>6, <2>7, <2>8, <2>9 DEF VerifierStep
<1> QED
  BY <1>1, <1>2, <1>3 DEF VerifyNext

LEMMA HonestInvImplies == HonestInv => HonestRunsNeverFail
<1> SUFFICES ASSUME HonestInv, fault = "none", "registry" \notin unread,
                    NEW r \in RunIds, NEW f \in Concluded(r), f.read = DOMAIN FlowSteps(r)
             PROVE  f.failures = {}
  BY DEF HonestRunsNeverFail
<1>1. f \in Calls /\ f.run = r
  BY DEF Concluded, Calls
<1> QED
  BY <1>1 DEF HonestInv, Recorded, Passing, Whole

\* Whatever happened in a run, when it was recorded as it happened a verifier
\* that can read the registries finds no failure in it: see
\* HonestRunsNeverFail in Verifier.tla.
THEOREM HonestRunsPass ==
    ASSUME NoLooseQuotes
    PROVE  VerifySpec => []HonestRunsNeverFail
<1>1. VerifyInit => VerifyInv /\ HonestInv
  <2>1. VerifyInit => HonestInv
    BY DEF VerifyInit, HonestInv, Calls, Waits
  <2> QED
    BY <2>1, InitVerifyInv
<1>2. VerifyInv /\ HonestInv /\ [VerifyNext]_verifyVars => VerifyInv' /\ HonestInv'
  BY NextVerifyInv, NextHonestInv
<1>3. HonestInv => HonestRunsNeverFail
  BY HonestInvImplies
<1> QED
  BY <1>1, <1>2, <1>3, PTL DEF VerifySpec


-----------------------------------------------------------------------------
\* Incomplete is no hiding place.  As long as nothing was missed, no key was
\* rotated and no agent disclosed a run: every trace of the receipts read was
\* had, and nothing is left open of a sealed run whose flow is known.
Readable ==
    /\ fault = "none" /\ unread = {} /\ \A a \in Agents : keysUsed[a] = 0
    /\ \A r \in RunIds : \A rc \in receipts[r] : rc.traceRoot.hiredRuns = {}

Opening(f) == f.at \in {"logs", "seal"}
Open(f, rank) ==
    /\ f.had = f.read \ f.todo
    /\ Opening(f) \/ f.read = {} => f.seal = {}
    /\ f.spec # {} /\ f.seal # {} => f.incomplete = {}
    /\ f.at = "hired" /\ f.spec # {} /\ f.read # {} => Whole(f)
    /\ \A k \in DOMAIN f.claims : f.claims[k].root # {}
    /\ f.depth \in Int /\ rank[f.run] <= f.depth
Under(c, f) == c.spec # {} => f.spec # {} /\ (Opening(f) \/ f.seal # {})

ReadInv(rank) ==
    Readable =>
        /\ \A f \in Calls : Open(f, rank)
        /\ \A c, f : Waits(c, f) => Under(c, f)

LEMMA ReadableIsRecorded == Readable => Recorded
BY DEF Readable, Recorded

LEMMA OpenReplace ==
    ASSUME VerifyInv, NEW rank, ReadInv(rank), frames # <<>>, Readable,
           NEW g, Replace(g), Open(g, rank), Len(frames) # 1 => Under(Caller, g)
    PROVE  ReadInv(rank)'
<1>1. \A f \in Calls' : Open(f, rank)
  BY CallsReplaced DEF ReadInv
<1>2. \A c, f : Waits(c, f)' => Under(c, f)
  BY CallsReplaced DEF ReadInv
<1> QED
  BY <1>1, <1>2 DEF ReadInv, Open, Opening, Under, Whole

LEMMA OpenTop ==
    ASSUME VerifyInv, NEW rank, ReadInv(rank), frames # <<>>, Readable
    PROVE  /\ FrameOK(Top) /\ Top.run \in RunIds /\ DOMAIN Top = FrameFields /\ Open(Top, rank)
           /\ Len(frames) # 1 => Under(Caller, Top)
<1>1. FrameOK(Top) /\ Top \in Calls
  BY TopFacts
<1> QED
  BY <1>1, CallerWaits DEF FrameOK, Shape, ReadInv

\* A call under a claim is of a run that is sealed with all its receipts.
LEMMA ClaimedCall ==
    ASSUME VerifyInv, NEW rank, ReadInv(rank), frames # <<>>, Readable, Len(frames) # 1
    PROVE  /\ Head(Caller.claims).root # {}
           /\ Anchored(Top.run) = DOMAIN FlowSteps(Top.run) /\ receipts[Top.run] # {} /\ seal[Top.run] # {}
<1>1. /\ FrameOK(Caller) /\ ClaimOK(Caller, Head(Caller.claims))
      /\ Head(Caller.claims).run = Top.run
  BY CallerClaims
<1>2. Caller \in Calls /\ Caller.claims # <<>>
  BY CallerFacts
<1>3. Head(Caller.claims).root # {}
  <2>1. IsSequence(Caller.claims)
    BY <1>1 DEF FrameOK, Shape
  <2>2. 1 \in DOMAIN Caller.claims /\ Head(Caller.claims) = Caller.claims[1]
    BY <1>2, <2>1, TailFacts
  <2> QED
    BY <1>2, <2>2 DEF ReadInv, Open
<1> QED
  BY <1>1, <1>3, ClaimedIsWhole DEF VerifyInv

LEMMA OpenReadReceipts ==
    ASSUME VerifyInv, NEW rank, ReadInv(rank), frames # <<>>, Readable, ReadReceipts
    PROVE  ReadInv(rank)'
<1>1. PICK governing \in {{}, {Governing}} :
          Replace(IF receipts[Top.run] = {}
                  THEN [Found(Top, {"receipts"}, {}) EXCEPT !.at = "hired"]
                  ELSE [Top EXCEPT !.governing = governing, !.read = Anchored(Top.run),
                                   !.todo = Anchored(Top.run), !.at = "seal"])
  BY DEF ReadReceipts
<1>2. PICK g : g = IF receipts[Top.run] = {}
                   THEN [Found(Top, {"receipts"}, {}) EXCEPT !.at = "hired"]
                   ELSE [Top EXCEPT !.governing = governing, !.read = Anchored(Top.run),
                                    !.todo = Anchored(Top.run), !.at = "seal"]
  OBVIOUS
<1>3. Replace(g) /\ Top.at = "logs"
  BY <1>1, <1>2 DEF ReadReceipts
<1>4. /\ FrameOK(Top) /\ Top.run \in RunIds /\ DOMAIN Top = FrameFields /\ Open(Top, rank)
      /\ Len(frames) # 1 => Under(Caller, Top)
  BY OpenTop
<1>5. PICK f : f = Top
  OBVIOUS
<1>6. /\ f.read = {} /\ f.todo = {} /\ f.had = {} /\ f.seal = {}
      /\ \A k \in DOMAIN f.claims : f.claims[k].root # {}
      /\ f.depth \in Int /\ rank[f.run] <= f.depth
  BY <1>3, <1>4, <1>5 DEF FrameOK, Shape, Open, Opening
<1>7. CASE receipts[Top.run] = {}
  <2>1. PICK failures, gaps : failures = {"receipts"} /\ gaps = {}
    OBVIOUS
  <2>2. PICK u : u = Found(f, failures, gaps)
    OBVIOUS
  <2>3. /\ DOMAIN u = FrameFields /\ u.run = f.run /\ u.read = f.read /\ u.seal = f.seal
        /\ u.todo = f.todo /\ u.had = f.had /\ u.claims = f.claims /\ u.depth = f.depth
    BY <1>4, <1>5, <2>2, FoundFields
  <2>4. g = [u EXCEPT !.at = "hired"]
    BY <1>2, <1>5, <1>7, <2>1, <2>2
  <2>5. /\ g.run = f.run /\ g.read = f.read /\ g.seal = f.seal /\ g.todo = f.todo /\ g.had = f.had
        /\ g.claims = f.claims /\ g.depth = f.depth
    BY <2>3, <2>4 DEF FrameFields
  <2>6. Open(g, rank)
    BY <1>6, <2>5 DEF Open
  <2>7. Len(frames) = 1
    BY <1>7, ClaimedCall
  <2> QED
    BY <1>3, <2>6, <2>7, OpenReplace
<1>8. CASE receipts[Top.run] # {}
  <2>1. g = [f EXCEPT !.governing = governing, !.read = Anchored(f.run),
                      !.todo = Anchored(f.run), !.at = "seal"]
    BY <1>2, <1>5, <1>8
  <2>2. /\ g.run = f.run /\ g.read = Anchored(f.run) /\ g.seal = f.seal /\ g.todo = Anchored(f.run)
        /\ g.had = f.had /\ g.claims = f.claims /\ g.depth = f.depth /\ g.spec = f.spec /\ g.at = "seal"
    BY <1>4, <1>5, <2>1 DEF FrameFields
  <2>3. Open(g, rank)
    BY <1>6, <2>2 DEF Open
  <2>4. Len(frames) # 1 => Under(Caller, g)
    BY <1>4, <1>5, <2>2 DEF Under, Opening
  <2> QED
    BY <1>3, <2>3, <2>4, OpenReplace
<1> QED
  BY <1>7, <1>8

LEMMA OpenReadSeal ==
    ASSUME VerifyInv, NEW rank, ReadInv(rank), frames # <<>>, Readable, ReadSeal
    PROVE  ReadInv(rank)'
<1>1. PICK failures, gaps : /\ failures = SealFailures(FoldChainRoot(Top.run, Top.read), Top.read, seal[Top.run])
                            /\ gaps = IF seal[Top.run] = {} THEN {"seal"} ELSE {}
  OBVIOUS
<1>2. PICK u : u = Found(Top, failures, gaps)
  OBVIOUS
<1>3. PICK g : g = [u EXCEPT !.seal = seal[Top.run], !.at = "steps"]
  OBVIOUS
<1>4. Replace(g) /\ Top.at = "seal"
  BY <1>1, <1>2, <1>3 DEF ReadSeal
<1>5. /\ FrameOK(Top) /\ Top.run \in RunIds /\ DOMAIN Top = FrameFields /\ Open(Top, rank)
      /\ Len(frames) # 1 => Under(Caller, Top)
  BY OpenTop
<1>6. /\ DOMAIN u = FrameFields /\ u.run = Top.run /\ u.read = Top.read
      /\ u.todo = Top.todo /\ u.had = Top.had /\ u.claims = Top.claims /\ u.depth = Top.depth
      /\ u.spec = Top.spec /\ u.incomplete = Top.incomplete \cup gaps
  BY <1>2, <1>5, FoundFields
<1>7. /\ g.run = Top.run /\ g.read = Top.read /\ g.todo = Top.todo /\ g.had = Top.had
      /\ g.claims = Top.claims /\ g.depth = Top.depth /\ g.spec = Top.spec
      /\ g.incomplete = Top.incomplete \cup gaps /\ g.seal = seal[Top.run] /\ g.at = "steps"
  BY <1>3, <1>6 DEF FrameFields
<1>8. Top.read # {} /\ Top.incomplete = {}
  BY <1>4, <1>5 DEF FrameOK, Shape, Clean
<1>9. Open(g, rank)
  BY <1>1, <1>5, <1>7, <1>8 DEF Open, Opening
<1>10. Len(frames) # 1 => Under(Caller, g)
  BY <1>5, <1>7, ClaimedCall DEF Under
<1> QED
  BY <1>4, <1>9, <1>10, OpenReplace

\* With the key it was signed with still in place, a signature is confirmed.
LEMMA NothingOpen ==
    ASSUME ChainInv, Readable, NEW r \in RunIds, NEW rc \in receipts[r]
    PROVE  Gaps(rc, {}) = {}
<1>1. ReceiptOK(r, rc) /\ Plain(rc)
  BY DEF ChainInv, LedgerOK, OneFault, Readable
<1> DEFINE claim == OutputClaim(rc.run, rc.step, rc.agent, rc.inputHash, rc.outputHash)
           key == AgentSigner(rc.agent)
<1>2. keysUsed[rc.agent] = 0
  BY <1>1 DEF ReceiptOK, Readable
<1>3. key = {KeysOf[rc.agent][1]}
  BY <1>2 DEF AgentSigner
<1>4. ASSUME NEW s \in rc.traceRoot.signature
      PROVE  s.by = KeysOf[rc.agent][1] /\ s.over = claim
  BY <1>1, <1>2 DEF Plain, PlainEvidence
<1> HIDE DEF claim, key
<1>5. rc.traceRoot.signature # {} => VerifyAgentSignature(claim, rc.traceRoot.signature, key)
  BY <1>3, <1>4 DEF VerifyAgentSignature, RecoverAgentSigner
<1>6. SignatureGaps(rc, rc.traceRoot, key) = {}
  BY <1>5 DEF SignatureGaps, claim
<1> QED
  BY <1>6 DEF Gaps, key

LEMMA OpenCheckStep ==
    ASSUME VerifyInv, NEW rank, ReadInv(rank), frames # <<>>, Readable, Readable', CheckStep
    PROVE  ReadInv(rank)'
<1> DEFINE least == CHOOSE x \in Top.todo : \A y \in Top.todo : x <= y
           receipt == ReceiptOf(Top.run, least)
<1>1. ChainInv /\ FrameOK(Top) /\ Top.at = "steps"
  BY TopFacts DEF VerifyInv, CheckStep
<1>2. /\ Top.run \in RunIds /\ DOMAIN Top = FrameFields /\ Open(Top, rank)
      /\ Len(frames) # 1 => Under(Caller, Top)
  BY OpenTop
<1>3. least \in Top.todo /\ receipt \in receipts[Top.run]
  BY <1>1, LeastIsRead
<1>4. \E lost \in {{}} \cup {{x} : x \in Consulted(Top)}, missed \in {{}} \cup {{x} : x \in EvidenceReads(receipt)} :
          /\ Unread({"registry" : x \in lost} \cup {"evidence" : x \in missed})
          /\ Replace(StepChecked(Top, least, receipt, lost, missed))
  BY Zenon DEF CheckStep, StepChecked
<1>5. PICK lost, missed : /\ Unread({"registry" : x \in lost} \cup {"evidence" : x \in missed})
                          /\ Replace(StepChecked(Top, least, receipt, lost, missed))
  BY <1>4
<1>6. missed = {}
  <2> SUFFICES ASSUME missed # {} PROVE FALSE
    OBVIOUS
  <2>1. "evidence" \in unread'
    BY <1>5 DEF Unread
  <2> QED
    BY <2>1 DEF Readable
<1>7. PICK i, rc : i = least /\ rc = receipt
  OBVIOUS
<1>8. i \in Top.todo /\ rc \in receipts[Top.run]
  BY <1>3, <1>7
<1>9. PICK g : g = StepChecked(Top, i, rc, lost, missed)
  OBVIOUS
<1>10. Replace(g)
  BY <1>5, <1>7, <1>9
<1> HIDE DEF least, receipt
<1>11. PICK u, failures, gaps : /\ failures = Failures(Top, rc, lost, missed) /\ gaps = Gaps(rc, missed)
                                /\ u = Found(Top, failures, gaps)
  OBVIOUS
<1>12. /\ DOMAIN u = FrameFields /\ u.run = Top.run /\ u.read = Top.read /\ u.seal = Top.seal
       /\ u.spec = Top.spec /\ u.depth = Top.depth /\ u.todo = Top.todo /\ u.had = Top.had
       /\ u.claims = Top.claims /\ u.incomplete = Top.incomplete \cup gaps
  BY <1>2, <1>11, FoundFields
<1>13. PICK at, claims : at \in {"linkage", "steps"} /\ claims = Claims(Top, rc)
                         /\ g = [u EXCEPT !.todo = Top.todo \ {i}, !.at = at, !.had = Top.had \cup {i}, !.claims = claims]
  <2>1. "trace" \notin missed
    BY <1>6
  <2>2. PICK at : at = IF Top.todo = {i} THEN "linkage" ELSE "steps"
    OBVIOUS
  <2>3. g = [u EXCEPT !.todo = @ \ {i}, !.at = at, !.had = @ \cup {i}, !.claims = Claims(Top, rc)]
    BY <1>9, <1>11, <2>1, <2>2 DEF StepChecked
  <2>4. g = [u EXCEPT !.todo = Top.todo \ {i}, !.at = at, !.had = Top.had \cup {i}, !.claims = Claims(Top, rc)]
    BY <1>12, <2>3
  <2>5. at \in {"linkage", "steps"}
    BY <2>2
  <2> QED
    BY <2>4, <2>5
<1>14. /\ g.run = Top.run /\ g.read = Top.read /\ g.seal = Top.seal /\ g.spec = Top.spec
       /\ g.depth = Top.depth /\ g.todo = Top.todo \ {i} /\ g.had = Top.had \cup {i} /\ g.at = at
       /\ g.claims = claims /\ g.incomplete = Top.incomplete \cup gaps
  BY <1>12, <1>13 DEF FrameFields
<1>15. gaps = {}
  BY <1>1, <1>2, <1>6, <1>8, <1>11, NothingOpen
<1>16. \A k \in DOMAIN claims : claims[k].root # {}
  <2>1. ReceiptOK(Top.run, rc) /\ rc.traceRoot.hiredRuns = {}
    BY <1>1, <1>2, <1>8 DEF ChainInv, LedgerOK, Readable
  <2>2. \A k \in DOMAIN claims :
            \/ k \in DOMAIN Top.claims /\ claims[k] = Top.claims[k]
            \/ claims[k].run \in rc.traceRoot.hiredRuns /\ claims[k].root = {}
            \/ rc.traceRoot.output \notin Special /\ claims[k] = MadeClaim(rc)
    BY <1>1, <1>8, <1>13, <2>1, ClaimsMade
  <2>3. MadeClaim(rc).root # {}
    BY DEF MadeClaim
  <2> QED
    BY <1>2, <2>1, <2>2, <2>3 DEF Open
<1>17. g.had = g.read \ g.todo
  <2>1. Top.todo \subseteq Top.read
    BY <1>1 DEF FrameOK, Shape
  <2> QED
    BY <1>2, <1>8, <1>14, <2>1 DEF Open
<1>18. Open(g, rank)
  BY <1>1, <1>2, <1>13, <1>14, <1>15, <1>16, <1>17 DEF Open, Opening
<1>19. Len(frames) # 1 => Under(Caller, g)
  BY <1>1, <1>2, <1>14 DEF Under, Opening
<1> QED
  BY <1>10, <1>18, <1>19, OpenReplace

LEMMA LinkedIsWhole ==
    ASSUME ChainInv, NEW f, FrameOK(f), CanLink(f), ~LinkThrows(f)
    PROVE  Whole(f)
<1>1. f.run \in RunIds /\ f.had = f.read /\ f.read \subseteq Anchored(f.run)
  BY DEF FrameOK, Shape, CanLink
<1>2. PICK s : f.spec = {s} /\ s.flow = FlowOf[f.run]
  BY DEF FrameOK, SpecOK, CanLink
<1>3. Flows[The(f.spec).flow] = FlowSteps(f.run)
  BY <1>2, TheOne DEF FlowSteps
<1>4. DOMAIN FlowSteps(f.run) \subseteq f.read
  BY <1>1, <1>3 DEF LinkThrows
<1>5. Anchored(f.run) \subseteq DOMAIN FlowSteps(f.run)
  BY <1>1, AnchoredIs DEF ChainInv, LedgerOK, ReceiptOK
<1> QED
  BY <1>1, <1>4, <1>5 DEF Whole

LEMMA OpenCheckLinkage ==
    ASSUME VerifyInv, NEW rank, ReadInv(rank), frames # <<>>, Readable, CheckLinkage
    PROVE  ReadInv(rank)'
<1> DEFINE links == CanLink(Top) => VerifyLinkage(Flows[The(Top.spec).flow], The(Top.spec).inputs,
                                                 EvidenceOf(Top), Read(Top))
<1>1. ChainInv /\ FrameOK(Top) /\ Top.at = "linkage" /\ ~LinkThrows(Top)
  BY TopFacts DEF VerifyInv, CheckLinkage
<1>2. /\ Top.run \in RunIds /\ DOMAIN Top = FrameFields /\ Open(Top, rank)
      /\ Len(frames) # 1 => Under(Caller, Top)
  BY OpenTop
<1>3. PICK failures, gaps : /\ failures = IF links THEN {} ELSE {"linkage"}
                            /\ gaps = IF CanLink(Top) THEN {} ELSE {"linkage"}
  OBVIOUS
<1>4. PICK u : u = Found(Top, failures, gaps)
  OBVIOUS
<1>5. PICK g : g = [u EXCEPT !.at = "hired"]
  OBVIOUS
<1>6. Replace(g)
  BY <1>3, <1>4, <1>5 DEF CheckLinkage
<1> HIDE DEF links
<1>7. /\ DOMAIN u = FrameFields /\ u.run = Top.run /\ u.read = Top.read /\ u.seal = Top.seal
      /\ u.spec = Top.spec /\ u.depth = Top.depth /\ u.todo = Top.todo /\ u.had = Top.had
      /\ u.claims = Top.claims /\ u.incomplete = Top.incomplete \cup gaps
  BY <1>2, <1>4, FoundFields
<1>8. /\ g.run = Top.run /\ g.read = Top.read /\ g.seal = Top.seal /\ g.spec = Top.spec
      /\ g.depth = Top.depth /\ g.todo = Top.todo /\ g.had = Top.had /\ g.at = "hired"
      /\ g.claims = Top.claims /\ g.incomplete = Top.incomplete \cup gaps
  BY <1>5, <1>7 DEF FrameFields
<1>9. Top.spec # {} => CanLink(Top)
  BY <1>1, <1>2 DEF FrameOK, Shape, Open, CanLink
<1>10. Top.spec # {} => gaps = {} /\ Whole(Top)
  BY <1>1, <1>3, <1>9, LinkedIsWhole
<1>11. Open(g, rank)
  BY <1>1, <1>2, <1>8, <1>10 DEF Open, Opening, Whole
<1>12. Len(frames) # 1 => Under(Caller, g)
  BY <1>1, <1>2, <1>8 DEF Under, Opening
<1> QED
  BY <1>6, <1>11, <1>12, OpenReplace

\* A claimed run has a lower rank than the one that claims it, so the verifier
\* may still follow it.
LEMMA OpenFollowClaim ==
    ASSUME VerifyInv, NEW rank \in [RunIds -> 0 .. MaxHireDepth], Descends(rank), ReadInv(rank),
           frames # <<>>, Readable, FollowClaim
    PROVE  ReadInv(rank)'
<1>1. ChainInv /\ FrameOK(Top) /\ Top.at = "hired" /\ Top.claims # <<>>
  BY TopFacts DEF VerifyInv, FollowClaim
<1>2. Top.run \in RunIds /\ Open(Top, rank)
  BY OpenTop
<1>3. PICK claim : claim = Head(Top.claims)
  OBVIOUS
<1>4. ClaimOK(Top, claim) /\ claim.root # {}
  <2>1. IsSequence(Top.claims) /\ \A k \in DOMAIN Top.claims : ClaimOK(Top, Top.claims[k])
    BY <1>1 DEF FrameOK, Shape
  <2>2. 1 \in DOMAIN Top.claims /\ claim = Top.claims[1]
    BY <1>1, <1>3, <2>1, TailFacts
  <2> QED
    BY <1>2, <2>1, <2>2 DEF Open
<1>5. PICK rc \in receipts[Top.run] :
          /\ rc.step = claim.step /\ rc.step \in Top.had /\ rc.traceRoot.output \notin Special
          /\ claim.run = Child(Top.run, rc.step)
  BY <1>4 DEF ClaimOK
<1>6. /\ OnePerStep(Top.run) /\ ReceiptOK(Top.run, rc) /\ rc.step \in DOMAIN FlowSteps(Top.run)
      /\ claim.run # NoRun /\ claim.run \in RunIds
  <2>1. ReceiptOK(Top.run, rc) /\ OnePerStep(Top.run)
    BY <1>1, <1>2 DEF ChainInv, LedgerOK
  <2>2. claim.run # NoRun /\ claim.run \in RunIds
    BY <1>1, <1>2, <1>5, <2>1, HiredClaim
  <2> QED
    BY <2>1, <2>2 DEF ReceiptOK
<1>7. /\ Top.depth \in Int /\ rank[Top.run] <= Top.depth /\ rank[claim.run] < rank[Top.run]
      /\ rank[claim.run] \in 0 .. MaxHireDepth /\ rank[Top.run] \in 0 .. MaxHireDepth
  <2>1. rank[claim.run] < rank[Top.run]
    BY <1>2, <1>5, <1>6 DEF Descends
  <2>2. rank[claim.run] \in 0 .. MaxHireDepth /\ rank[Top.run] \in 0 .. MaxHireDepth
    BY <1>2, <1>6
  <2> QED
    BY <1>2, <2>1, <2>2 DEF Open
<1>8. /\ MayFollow(Top.depth) /\ Spent(Top.depth) \in Int /\ rank[claim.run] <= Spent(Top.depth)
  BY <1>7, VerifierBounds DEF MayFollow, Spent
<1>9. PICK spec, depth : spec = ChildSpec(Top, claim.step) /\ depth = Spent(Top.depth)
  OBVIOUS
<1>10. PICK g : g = Frame(claim.run, spec, depth)
  OBVIOUS
<1>11. frames' = Append(frames, g)
  BY <1>3, <1>4, <1>8, <1>9, <1>10 DEF FollowClaim
<1>12. /\ g.run = claim.run /\ g.spec = spec /\ g.depth = depth /\ g.at = "logs" /\ g.read = {}
       /\ g.seal = {} /\ g.todo = {} /\ g.had = {} /\ g.claims = <<>> /\ g.incomplete = {}
  BY <1>10 DEF Frame
<1>13. Open(g, rank)
  <2>1. DOMAIN g.claims = {}
    BY <1>12
  <2> QED
    BY <1>8, <1>9, <1>12, <2>1 DEF Open
<1>14. Under(Top, g)
  <2>1. Of(EvidenceOf(Top), claim.step) # {}
    <3>1. Of(EvidenceOf(Top), rc.step) =
              {[step |-> rc.step, input |-> rc.traceRoot.input, output |-> rc.traceRoot.output]}
      BY <1>5, <1>6, EvidenceIs
    <3> QED
      BY <1>5, <3>1
  <2>2. Top.spec # {} => spec # {}
    BY <1>9, <2>1 DEF ChildSpec
  <2> QED
    BY <1>12, <2>2 DEF Under, Opening
<1>15. \A f \in Calls' : Open(f, rank)
  BY <1>11, <1>13, CallsPushed DEF ReadInv
<1>16. \A c, f : Waits(c, f)' => Under(c, f)
  BY <1>11, <1>14, CallsPushed DEF ReadInv
<1> QED
  BY <1>15, <1>16 DEF ReadInv, Open, Opening, Under, Whole

LEMMA OpenPop ==
    ASSUME VerifyInv, NEW rank, ReadInv(rank), frames # <<>>, Readable,
           NEW failures, NEW gaps, Absorb(failures, gaps),
           Len(frames) # 1 /\ Caller.spec # {} => gaps = {}
    PROVE  ReadInv(rank)'
<1>1. PICK g : g = Resumed(failures, gaps)
  OBVIOUS
<1>2. ASSUME Len(frames) # 1
      PROVE  Open(g, rank) /\ \A c : Under(c, Caller) => Under(c, g)
  <2>1. FrameOK(Caller) /\ Caller.at = "hired" /\ Caller.claims # <<>> /\ Caller \in Calls
    BY <1>2, CallerFacts
  <2>2. PICK f : f = Caller
    OBVIOUS
  <2>3. Open(f, rank) /\ FrameOK(f) /\ f.at = "hired" /\ f.claims # <<>> /\ g = WithoutClaim(f, failures, gaps)
    BY <1>1, <2>1, <2>2 DEF ReadInv, Resumed
  <2>4. /\ g.run = f.run /\ g.spec = f.spec /\ g.at = "hired" /\ g.read = f.read /\ g.seal = f.seal
        /\ g.todo = f.todo /\ g.had = f.had /\ g.depth = f.depth
        /\ g.incomplete = f.incomplete \cup gaps
        /\ \A k \in DOMAIN g.claims : k + 1 \in DOMAIN f.claims /\ g.claims[k] = f.claims[k + 1]
    BY <2>3, DropClaim
  <2>5. \A k \in DOMAIN g.claims : g.claims[k].root # {}
    BY <2>3, <2>4 DEF Open
  <2>6. g.spec # {} => gaps = {}
    BY <1>2, <2>2, <2>4
  <2>7. Open(g, rank)
    BY <2>3, <2>4, <2>5, <2>6 DEF Open, Opening, Whole
  <2>8. \A c : Under(c, f) => Under(c, g)
    BY <2>3, <2>4 DEF Under, Opening
  <2> QED
    BY <2>2, <2>7, <2>8
<1>3. \A f \in Calls' : Open(f, rank)
  BY <1>1, <1>2, CallsPopped DEF ReadInv
<1>4. \A c, f : Waits(c, f)' => Under(c, f)
  BY <1>1, <1>2, CallsPopped DEF ReadInv
<1> QED
  BY <1>3, <1>4 DEF ReadInv, Open, Opening, Under, Whole

\* The report of a hired run whose flow is known leaves nothing open.
LEMMA OpenReturn ==
    ASSUME VerifyInv, NEW rank, ReadInv(rank), frames # <<>>, Readable, Return
    PROVE  ReadInv(rank)'
<1>1. Top.at = "hired"
  BY DEF Return, Concluding
<1>2. Open(Top, rank) /\ (Len(frames) # 1 => Under(Caller, Top))
  BY OpenTop
<1>3. CASE Len(frames) = 1
  <2>1. Absorb({}, {})
    BY <1>3 DEF Return
  <2> QED
    BY <2>1, OpenPop
<1>4. CASE Len(frames) # 1
  <2>1. PICK claim, failures, gaps : /\ claim = Head(Caller.claims)
                                     /\ failures = ClaimFailures(claim, Top) /\ gaps = ClaimGaps(claim, Top)
    OBVIOUS
  <2>2. Absorb(failures, gaps)
    BY <1>4, <2>1 DEF Return, Caller
  <2>3. ASSUME Caller.spec # {} PROVE gaps = {}
    <3>1. Top.spec # {} /\ Top.seal # {}
      BY <1>1, <1>2, <1>4, <2>3 DEF Under, Opening
    <3>2. Top.incomplete = {}
      BY <1>2, <3>1 DEF Open
    <3>3. Verdict(Top) # "incomplete"
      BY <3>2 DEF Verdict
    <3>4. claim.root # {}
      BY <1>4, <2>1, ClaimedCall
    <3> QED
      BY <2>1, <3>1, <3>3, <3>4 DEF ClaimGaps
  <2> QED
    BY <2>2, <2>3, OpenPop
<1> QED
  BY <1>3, <1>4

\* Linkage is never looked up in a hired run that lacks a receipt: what is
\* claimed of it was sealed.
LEMMA OpenThrow ==
    ASSUME VerifyInv, HonestInv, NEW rank, ReadInv(rank), frames # <<>>, Readable, Readable', Throw
    PROVE  ReadInv(rank)'
<1>1. Absorb({}, {"child"})
  BY DEF Throw
<1>2. Top.at = "linkage" /\ LinkThrows(Top)
  <2>1. unread' = {}
    BY DEF Readable
  <2>2. ~Unread({"logs"})
    BY <2>1 DEF Unread
  <2> QED
    BY <2>2 DEF Throw
<1>3. ASSUME Len(frames) # 1 PROVE FALSE
  <2>1. FrameOK(Top) /\ Told(Caller, Top)
    BY <1>3, HonestTop, ReadableIsRecorded
  <2>2. Head(Caller.claims).root # {}
    BY <1>3, ClaimedCall
  <2>3. Top.read = DOMAIN FlowSteps(Top.run)
    BY <1>2, <2>1, <2>2 DEF Told, Whole
  <2>4. PICK s : Top.spec = {s} /\ s.flow = FlowOf[Top.run]
    BY <1>2, <2>1 DEF FrameOK, SpecOK, LinkThrows, CanLink
  <2>5. Flows[The(Top.spec).flow] = FlowSteps(Top.run)
    BY <2>4, TheOne DEF FlowSteps
  <2> QED
    BY <1>2, <2>3, <2>5 DEF LinkThrows, CanLink
<1> QED
  BY <1>1, <1>3, OpenPop

LEMMA OpenElsewhere ==
    ASSUME VerifyInv, NEW rank, ReadInv(rank), ChainStep \/ RegistryStep \/ UNCHANGED verifyVars, Readable'
    PROVE  ReadInv(rank)'
<1>1. frames' = frames /\ unread' = unread
  BY DEF ChainStep, RegistryStep, verifierVars, verifyVars
<1>2. ChainInv' /\ Grows
  BY ChainStepsKeep DEF VerifyInv, verifyVars, chainVars, registryVars
<1>3. Readable
  <2>1. fault = "none" /\ unread = {}
    BY <1>1, <1>2 DEF Readable, Grows
  <2>2. ASSUME NEW a \in Agents PROVE keysUsed[a] = 0
    <3>1. keysUsed[a] \in Nat /\ keysUsed'[a] \in Nat /\ keysUsed[a] <= keysUsed'[a]
      BY <1>2 DEF Grows
    <3>2. keysUsed'[a] = 0
      BY DEF Readable
    <3> QED
      BY <3>1, <3>2
  <2>3. \A r \in RunIds : \A rc \in receipts[r] : rc.traceRoot.hiredRuns = {}
    BY <1>2 DEF Readable, Grows
  <2> QED
    BY <2>1, <2>2, <2>3 DEF Readable
<1>4. Calls' = Calls /\ \A c, f : Waits(c, f)' <=> Waits(c, f)
  BY <1>1 DEF Calls, Waits
<1>5. /\ \A f \in Calls' : Open(f, rank)
      /\ \A c, f : Waits(c, f)' => Under(c, f)
  BY <1>3, <1>4 DEF ReadInv
<1> QED
  BY <1>5 DEF ReadInv, Open, Opening, Under, Whole

LEMMA OpenBegin ==
    ASSUME NEW rank \in [RunIds -> 0 .. MaxHireDepth], Descends(rank), Begin
    PROVE  ReadInv(rank)'
<1>1. PICK g, spec : frames' = <<g>> /\ g = Frame(Root, spec, MaxHireDepth)
  BY DEF Begin
<1>2. /\ g.run = Root /\ g.depth = MaxHireDepth /\ g.at = "logs" /\ g.read = {}
      /\ g.seal = {} /\ g.todo = {} /\ g.had = {} /\ g.claims = <<>> /\ g.incomplete = {}
  BY <1>1 DEF Frame
<1>3. MaxHireDepth \in Int /\ rank[Root] <= MaxHireDepth
  BY VerifierBounds, RootIsARun
<1>4. Open(g, rank)
  <2>1. DOMAIN g.claims = {}
    BY <1>2
  <2> QED
    BY <1>2, <1>3, <2>1 DEF Open
<1>5. DOMAIN frames' = {1} /\ frames'[1] = g
  BY <1>1
<1>6. \A f \in Calls' : Open(f, rank)
  BY <1>4, <1>5 DEF Calls
<1>7. \A c, f : ~Waits(c, f)'
  BY <1>5 DEF Waits
<1> QED
  BY <1>6, <1>7 DEF ReadInv, Open, Opening, Whole

LEMMA NextReadInv ==
    ASSUME NoLooseQuotes, VerifyInv, HonestInv, NEW rank \in [RunIds -> 0 .. MaxHireDepth],
           Descends(rank), ReadInv(rank), [VerifyNext]_verifyVars
    PROVE  ReadInv(rank)'
<1> SUFFICES ASSUME Readable' PROVE ReadInv(rank)'
  BY DEF ReadInv
<1>1. CASE ChainStep \/ RegistryStep \/ UNCHANGED verifyVars
  BY <1>1, OpenElsewhere
<1>2. CASE Begin
  BY <1>2, OpenBegin
<1>3. CASE VerifierStep
  <2>1. frames # <<>> /\ UNCHANGED <<chainVars, registryVars>>
    BY <1>3 DEF VerifierStep
  <2>2. Readable
    <3>1. fault' = fault /\ receipts' = receipts /\ keysUsed' = keysUsed
      BY <2>1 DEF chainVars, registryVars
    <3>2. unread \subseteq unread'
      BY <1>3, UnreadGrows
    <3> QED
      BY <3>1, <3>2 DEF Readable
  <2>3. CASE ReadReceipts
    BY <2>1, <2>2, <2>3, OpenReadReceipts
  <2>4. CASE ReadSeal
    BY <2>1, <2>2, <2>4, OpenReadSeal
  <2>5. CASE CheckStep
    BY <2>1, <2>2, <2>5, OpenCheckStep
  <2>6. CASE CheckLinkage
    BY <2>1, <2>2, <2>6, OpenCheckLinkage
  <2>7. CASE FollowClaim
    BY <2>1, <2>2, <2>7, OpenFollowClaim
  <2>8. CASE Return
    BY <2>1, <2>2, <2>8, OpenReturn
  <2>9. CASE Throw
    BY <2>1, <2>2, <2>9, OpenThrow
  <2> QED
    BY <1>3, <2>3, <2>4, <2>5, <2>6, <2>7, <2>8, <2>9 DEF VerifierStep
<1> QED
  BY <1>1, <1>2, <1>3 DEF VerifyNext

LEMMA ReadInvImplies ==
    ASSUME HonestInv, NEW rank, ReadInv(rank)
    PROVE  ReadableHonestRunsVerify
<1> SUFFICES ASSUME Readable, NEW r \in RunIds, NEW f \in Concluded(r), f.spec # {}, f.seal # {}
             PROVE  Verdict(f) = "verified"
  BY DEF ReadableHonestRunsVerify, Readable
<1>1. f \in Calls /\ f.at = "hired"
  BY DEF Concluded, Calls, Concluding
<1>2. Passing(f) /\ Open(f, rank)
  BY <1>1, ReadableIsRecorded DEF HonestInv, ReadInv
<1>3. f.incomplete = {} /\ Whole(f)
  BY <1>1, <1>2 DEF Open
<1>4. f.failures = {}
  BY <1>2, <1>3 DEF Passing
<1> QED
  BY <1>3, <1>4 DEF Verdict

\* A complete run, recorded as it happened, is verified by whoever has its
\* specification and can read everything: see ReadableHonestRunsVerify in
\* Verifier.tla.  It takes runs that hire no deeper than the verifier follows,
\* as by default they do: a run under three others is the last that execute.ts
\* starts (maxDepth 4) and the last that verify.ts follows (maxHireDepth 3).
THEOREM ReadableRunsVerify ==
    ASSUME NoLooseQuotes, HiringIsShallow
    PROVE  VerifySpec => []ReadableHonestRunsVerify
<1>1. PICK rank \in [RunIds -> 0 .. MaxHireDepth] : Descends(rank)
  BY DEF HiringIsShallow
<1>2. VerifyInit => VerifyInv /\ HonestInv /\ ReadInv(rank)
  <2>1. VerifyInit => HonestInv
    BY DEF VerifyInit, HonestInv, Calls, Waits
  <2>2. VerifyInit => ReadInv(rank)
    BY DEF VerifyInit, ReadInv, Calls, Waits
  <2> QED
    BY <2>1, <2>2, InitVerifyInv
<1>3. VerifyInv /\ HonestInv /\ ReadInv(rank) /\ [VerifyNext]_verifyVars
          => VerifyInv' /\ HonestInv' /\ ReadInv(rank)'
  BY <1>1, NextVerifyInv, NextHonestInv, NextReadInv
<1>4. HonestInv /\ ReadInv(rank) => ReadableHonestRunsVerify
  BY ReadInvImplies
<1> QED
  BY <1>2, <1>3, <1>4, PTL DEF VerifySpec
=============================================================================
