----------------------------- MODULE Conformance -----------------------------
(***************************************************************************)
(* The conformance suite (conform/checks.ts, probe.ts) against an agent,   *)
(* and then a run that hires the agent as a stranger would: with the input *)
(* its published schema calls for.                                         *)
(*                                                                         *)
(* The agent is built with the SDK or answers as it likes; its output may  *)
(* alternate between two values; a probe may go unanswered.  The suite     *)
(* sends what the executor sends, except that its envelope names no chain  *)
(* and no receipts contract.                                               *)
(***************************************************************************)
EXTENDS AgentContract, Schemas

CONSTANTS
    Agents,         \* the agents under test
    MaxFlakes       \* bound: probes that go unanswered

\* doc: what /schema serves, [input, output], each the set of the schema it
\* holds if it is there; outputs: the values its work alternates between;
\* signs: whether and how it signs; onMalformed: how an agent without the SDK
\* answers a request without an input; heedsDeadline: it refuses late work.
ASSUME AgentsAssumption ==
    \A a \in Agents :
        /\ DOMAIN a = {"healthy", "doc", "sdk", "outputs", "attestation", "signs", "onMalformed", "heedsDeadline"}
        /\ a.signs \in {"never", "template", "always"} /\ a.outputs # <<>>

VARIABLES agent, probe, calls, flakes, schema, input, first, failed, refusal, hired
conformVars == <<agent, probe, calls, flakes, schema, input, first, failed, refusal, hired>>

ConformInit ==
    /\ agent \in Agents
    /\ probe = "health" /\ calls = 0 /\ flakes = 0
    /\ schema = {} /\ input = EmptyObject /\ first = {}
    /\ failed = {}      \* the checks that failed at severity `fail`
    /\ refusal = {}     \* the answer to the malformed request
    /\ hired = {}       \* what the executor took from the agent's answer

-----------------------------------------------------------------------------
\* The agent.
InputSchemas == agent.doc.input

Work(request) ==
    LET output == agent.outputs[(calls % Len(agent.outputs)) + 1]
        fields == [Nothing EXCEPT !.output = {output} \ {"absent"}, !.attestation = agent.attestation]
    IN  IF \E s \in InputSchemas, value \in request.input : ~ValidateAgainstSchema(value, s) THEN SchemaError
        ELSE IF agent.heedsDeadline /\ request.expired THEN AgentError(500, FALSE)
        ELSE IF output = Unhashable /\ agent.signs = "always" THEN OtherError
        ELSE CASE agent.signs = "never" -> Returns(fields)
               [] agent.signs = "template" -> TemplateInvoke(request, output, "signature")
               [] agent.signs = "always" -> SignOutput(request, output, "signature")

AgentAnswer(request) ==
    IF agent.sdk THEN HandleInvoke(request, Work(request))
    ELSE IF ParseRequest(request)
         THEN LET result == Work(request)
              IN  IF result.kind = "returns" THEN Response(200, {result.fields}) ELSE Response(500, {})
         ELSE agent.onMalformed

NoAnswer == Response(0, {})
Answers(request) == {AgentAnswer(request)} \cup (IF flakes < MaxFlakes THEN {NoAnswer} ELSE {})

Request(value, bound, expired) == [input |-> value, bound |-> bound, expired |-> expired]
Envelope == Request({input}, FALSE, FALSE)

-----------------------------------------------------------------------------
\* The checks, one per probe.
CheckSchema(served) == served.input # {} /\ served.output # {} /\ NoSchema \notin served.input

CheckHashable(output) == output # {Unhashable}

CheckInvoke(response) ==
    response.status = 200 /\ \E doc \in response.body : doc.output # {} /\ doc.output # {Null}
CheckAttestation(doc) == Bad \notin doc.attestation
CheckDeterminism(output, response) ==
    response.status = 200 /\ \E doc \in response.body : doc.output = output /\ doc.output # {Unhashable}

\* Variant for the mutation checks: any error envelope will do.
CheckErrorShape_AnyFlag(response) ==
    /\ response.status # 0 /\ ~IsSuccess(response)
    /\ \E doc \in response.body : doc.error # {}

\* checkErrorShape: an error envelope with a status that is none of success;
\* if it says whether to retry, it says no.
CheckErrorShape(response) ==
    /\ response.status # 0 /\ ~IsSuccess(response)
    /\ \E doc \in response.body : \E e \in doc.error : e.retryable \subseteq {FALSE}

CheckDeadline(response) == response.status # 0

FailedIf(condition, check) == failed' = failed \cup (IF condition THEN {check} ELSE {})
Counts(response) ==
    /\ flakes' = flakes + (IF response = NoAnswer THEN 1 ELSE 0)
    /\ calls' = calls + (IF response = NoAnswer THEN 0 ELSE 1)

ProbeHealth ==
    /\ probe = "health" /\ probe' = "schema"
    /\ \E answered \in {agent.healthy} \cup (IF flakes < MaxFlakes THEN {FALSE} ELSE {}) :
           FailedIf(~answered, "health") /\ flakes' = flakes + (IF answered = agent.healthy THEN 0 ELSE 1)
    /\ UNCHANGED <<agent, calls, schema, input, first, refusal, hired>>

ProbeSchema ==
    /\ probe = "schema" /\ probe' = "golden"
    /\ \E served \in {agent.doc} \cup (IF flakes < MaxFlakes THEN {[input |-> {}, output |-> {}]} ELSE {}) :
           /\ FailedIf(~CheckSchema(served), "schema")
           /\ schema' = served.input
           /\ flakes' = flakes + (IF served = agent.doc THEN 0 ELSE 1)
    /\ UNCHANGED <<agent, calls, input, first, refusal, hired>>

\* No schema to build from, or one too vague, is only worth a warning.
BuildInput ==
    /\ probe = "golden" /\ probe' = "invoke"
    /\ input' = IF schema = {} THEN EmptyObject ELSE GoldenInput(The(schema)).input
    /\ UNCHANGED <<agent, calls, flakes, schema, first, failed, refusal, hired>>

\* The answer is examined further only if the invocation passed.
Invoke ==
    /\ probe = "invoke"
    /\ \E response \in Answers(Envelope) :
           /\ Counts(response)
           /\ IF CheckInvoke(response)
              THEN LET doc == The(response.body)
                   IN  /\ first' = doc.output /\ probe' = "again"
                       /\ failed' = failed \cup {c \in {"attestation", "hashable"} :
                              \/ c = "attestation" /\ ~CheckAttestation(doc)
                              \/ c = "hashable" /\ ~CheckHashable(doc.output)}
              ELSE FailedIf(TRUE, "invoke") /\ probe' = "malformed" /\ UNCHANGED first
    /\ UNCHANGED <<agent, schema, input, refusal, hired>>

InvokeAgain ==
    /\ probe = "again" /\ probe' = "malformed"
    /\ \E response \in Answers(Envelope) :
           Counts(response) /\ FailedIf(~CheckDeterminism(first, response), "determinism")
    /\ UNCHANGED <<agent, schema, input, first, refusal, hired>>

SendMalformed ==
    /\ probe = "malformed" /\ probe' = "late"
    /\ \E response \in Answers(Request({}, FALSE, FALSE)) :
           /\ Counts(response) /\ FailedIf(~CheckErrorShape(response), "error-shape")
           /\ refusal' = {response}
    /\ UNCHANGED <<agent, schema, input, first, hired>>

SendExpired ==
    /\ probe = "late" /\ probe' = "reported"
    /\ \E response \in Answers(Request({input}, FALSE, TRUE)) :
           Counts(response) /\ FailedIf(~CheckDeadline(response), "deadline")
    /\ UNCHANGED <<agent, schema, input, first, refusal, hired>>

\* A step of a run whose input is what the published schema calls for.
Hire ==
    /\ probe = "reported" /\ probe' = "hired"
    /\ LET response == AgentAnswer(Request({input}, TRUE, FALSE))
       IN  hired' = IF IsSuccess(response) THEN ParseSuccess(response.body) ELSE {}
    /\ UNCHANGED <<agent, calls, flakes, schema, input, first, failed, refusal>>

ConformNext ==
    \/ ProbeHealth \/ ProbeSchema \/ BuildInput \/ Invoke \/ InvokeAgain
    \/ SendMalformed \/ SendExpired \/ Hire

ConformSpec == ConformInit /\ [][ConformNext]_conformVars

Reported == probe \in {"reported", "hired"}
Conformant == Reported /\ failed = {}

-----------------------------------------------------------------------------
\* "Passing is the criterion for composability": from a conformant agent a
\* stranger's run gets an output it can anchor, and what the agent refuses is
\* not sent to it again, whichever probes went unanswered.
ConformantAgentsCompose ==
    Conformant => /\ probe = "hired" => hired # {}
                  /\ \A response \in refusal : ~ParseError(response.body)

\* What a schema gives as values is accepted by it, and what it requires it
\* describes; a property's schema likewise.
RECURSIVE SelfConsistent(_)
SelfConsistent(s) ==
    s = NoSchema \/
        /\ \A value \in ToSet(Given(s)) : ValidateAgainstSchema(value, s)
        /\ \A required \in s.required : s.properties # {} /\ required \subseteq DOMAIN The(s.properties)
        /\ \A declared \in s.properties : \A n \in DOMAIN declared : SelfConsistent(declared[n])
        /\ \A items \in s.items : SelfConsistent(items)

\* The input built from a schema that makes sense is accepted by it
\* (golden.ts against schema.ts), unless the suite says it is too vague.
GoldenInputsFit ==
    \A s \in InputSchemas : SelfConsistent(s) =>
        GoldenInput(s).opaque \/ ValidateAgainstSchema(GoldenInput(s).input, s)
=============================================================================
