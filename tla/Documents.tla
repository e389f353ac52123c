------------------------------ MODULE Documents ------------------------------
(***************************************************************************)
(* The documents of a run: the templates of a flow are planned, resolved   *)
(* step by step into inputs (execute.ts), hashed, sent as JSON to agents   *)
(* written in either language, which hash what they received and what they *)
(* answer in order to sign it; the answers are parsed (adapter.ts), hashed *)
(* again, and become the outputs that later inputs are made of.            *)
(***************************************************************************)
EXTENDS Templates

CONSTANTS
    Flows,          \* the flows somebody may ask to execute
    RunInputs,      \* the inputs the run may be given, parsed from JSON
    StepAnswers     \* step id -> the values its agent may answer with

VARIABLES
    flow, given,
    plan,           \* "none", "asked", "accepted" or "refused"
    settled,        \* per step, in order: its receipt and what it is about
    threw           \* executeRun threw

docVars == <<flow, given, plan, settled, threw>>

DocInit == flow = Rejected /\ given = Rejected /\ plan = "none" /\ settled = <<>> /\ threw = FALSE

\* Somebody asks for a run.
Ask ==
    /\ plan = "none" /\ plan' = "asked"
    /\ flow' \in Flows /\ given' \in RunInputs
    /\ UNCHANGED <<settled, threw>>

Plan ==
    /\ plan = "asked"
    /\ plan' = IF PlanFlow(flow, 0) THEN "accepted" ELSE "refused"
    /\ UNCHANGED <<flow, given, settled, threw>>

\* JSON.stringify and the parser at the other end: zero has no sign in JSON,
\* and members come in no particular order.
RECURSIVE Sent(_)
Sent(value) ==
    CASE value.type = "number" /\ value.kind = "negativeZero" -> Num("finite", 0)
      [] value.type = "array" -> List([i \in DOMAIN value.items |-> Sent(value.items[i])])
      [] value.type = "object" ->
             Dict(Reverse([i \in DOMAIN value.members |-> <<value.members[i][1], Sent(value.members[i][2])>>]))
      [] OTHER -> value

\* The step whose turn it is, one for an agent (a hired flow is a run of its
\* own, in Executor): waves end with the steps of lower index settled,
\* and a step of the same wave may have settled or not.
Current == flow.steps[Len(settled) + 1]
Ok(i) == settled[i].status = "ok"
Halted == \E i \in DOMAIN settled : ~Ok(i)
OutputOf(ids) ==
    [id \in {flow.steps[i].id : i \in {j \in DOMAIN settled : Ok(j) /\ flow.steps[j].id \in ids}} |->
        settled[IndexById(flow, id) + 1].output]

Receipt(status, input, output_, signed) ==
    [status |-> status, input |-> input, output |-> output_, signed |-> signed]
Settles(receipt) == settled' = Append(settled, receipt) /\ UNCHANGED <<flow, given, plan, threw>>
Unsettled == Receipt("failed", Rejected, Rejected, Rejected)

\* What an agent signs: its own hash of what it received and of what it answers.
Hashes(language, value) == IF language = "python" THEN Serialise(value) ELSE CodePoints(Canonicalize(value))
Hashable(language, value) == IF language = "python" THEN Serialise(value) # Rejected ELSE Canonicalize(value) # Rejected

\* runStep, as far as documents go.  The hash of the input is taken outside of
\* every try: without a canonical form the run throws.
RunStep(known) ==
    LET resolved == ResolveTemplates(Current.input, [inputs |-> given, steps |-> OutputOf(known)])
    IN  IF Halted \/ resolved = Rejected THEN Settles(Unsettled)
        ELSE IF Canonicalize(resolved) = Rejected
        THEN threw' = TRUE /\ UNCHANGED <<flow, given, plan, settled>>
        ELSE \E language \in {"typescript", "python"}, answer \in StepAnswers[Current.id] :
                 LET received == Sent(resolved)
                 IN  IF \/ ~Hashable(language, received) \/ ~Hashable(language, answer)
                        \/ Canonicalize(Sent(answer)) = Rejected
                     THEN Settles(Unsettled)
                     ELSE Settles(Receipt("ok", resolved, Sent(answer),
                              <<Hashes(language, received), Hashes(language, answer)>>))

Step ==
    /\ plan = "accepted" /\ ~threw /\ Len(settled) < Len(flow.steps)
    /\ Current.flow = {}
    /\ \E known \in SUBSET {flow.steps[i].id : i \in DOMAIN settled} :
           Current.needs \subseteq known /\ RunStep(known)

DocNext == Ask \/ Plan \/ Step
DocSpec == DocInit /\ [][DocNext]_docVars

-----------------------------------------------------------------------------
\* A verifier, or a worker that schedules otherwise, gets the same input for a
\* step from the outputs the step declares it needs: "an undeclared dependency
\* would let the planner schedule a step before its data exists" (template.ts).
InputsRestOnNeeds ==
    \A i \in DOMAIN settled : Ok(i) =>
        settled[i].input = ResolveTemplates(flow.steps[i].input,
            [inputs |-> given, steps |-> OutputOf(flow.steps[i].needs)])

\* canonical.py: "must agree with it byte for byte".  What an agent signed is
\* what the executor anchors, in whichever language the agent is written,
\* whatever became of the document on the way.
AgentsSignWhatIsAnchored ==
    \A i \in DOMAIN settled : Ok(i) =>
        settled[i].signed = <<CodePoints(Canonicalize(settled[i].input)), CodePoints(Canonicalize(settled[i].output))>>

\* The document a value is: what a reader of JSON may tell apart.
RECURSIVE Meaning(_)
Meaning(value) ==
    CASE value.type = "string" -> [text |-> NFC(value.units)]
      [] value.type = "number" -> [num |-> IF value.kind = "negativeZero" THEN 0 ELSE value.n]
      [] value.type = "array" -> [list |-> [i \in DOMAIN value.items |-> Meaning(value.items[i])]]
      [] value.type = "object" ->
             [dict |-> [nfc \in {NFC(key) : key \in MemberKeys(value)} |->
                 Meaning((CHOOSE m \in ToSet(value.members) : NFC(m[1]) = nfc)[2])]]
      [] OTHER -> value

\* Two documents of a run have one hash if they are the same document, and
\* only then: no linkage is broken, and none is feigned.
HashesIdentifyDocuments ==
    LET documents == {settled[i].input : i \in {j \in DOMAIN settled : Ok(j)}}
                     \cup {settled[i].output : i \in {j \in DOMAIN settled : Ok(j)}}
        hashed == [v \in documents |-> Canonicalize(v)]
        meant == [v \in documents |-> Meaning(v)]
    IN  \A v, w \in documents : hashed[v] = hashed[w] <=> meant[v] = meant[w]
=============================================================================
