---------------------------- MODULE AgentContract ----------------------------
(***************************************************************************)
(* The HTTP contract between the executor and an agent, from both ends:    *)
(* how an agent built with the SDK answers POST /invoke (adapter-sdk,      *)
(* templates/agent), and what the executor makes of any answer             *)
(* (adapter.ts).                                                           *)
(*                                                                         *)
(* A JSON document is a record of its fields; a field is the set of the    *)
(* one value it holds, empty when it is absent or null, except `output`,   *)
(* where null is the value Null.  Bad stands for a value of a form the     *)
(* reader cannot use.                                                      *)
(***************************************************************************)
EXTENDS Integers, FiniteSets

CONSTANTS
    Null,           \* the JSON value null
    Unhashable,     \* an output that has no canonical form
    Bad             \* a malformed signature, run id, address, flag or binding

ASSUME ContractAssumption == Cardinality({Null, Unhashable, Bad}) = 3

\* A body is the set of the one object it parses to: empty when it is no JSON
\* or no object.
Nothing == [output |-> {}, attestation |-> {}, binding |-> {}, provider |-> {},
            signature |-> {}, hiredRuns |-> {}, error |-> {}]
Response(status, body) == [status |-> status, body |-> body]

ErrorBody(retryable) == {[Nothing EXCEPT !.error = {[retryable |-> retryable]}]}

-----------------------------------------------------------------------------
\* The SDK's end.  `request` carries an input object, or not; `bound` says
\* whether it names the chain and the receipts contract.
ParseRequest(request) == request.input # {}

\* What an agent's own code ends in: an AgentError, another exception, or a
\* result; `fields` are the fields of the result as far as they are set.
AgentError(status, retryable) == [kind |-> "AgentError", status |-> status, retryable |-> retryable]
SchemaError == AgentError(422, FALSE)
OtherError == [kind |-> "other"]
Returns(fields) == [kind |-> "returns", fields |-> fields]

\* signOutput, with the signature the agent's key makes: a claim bound to no chain is not signed but refused.
SignOutput(request, output, signature) ==
    IF request.bound THEN Returns([Nothing EXCEPT !.output = {output}, !.signature = {signature}])
    ELSE AgentError(500, FALSE)

\* The template answers unsigned where signOutput would refuse.
TemplateInvoke(request, output, signature) ==
    IF request.bound THEN SignOutput(request, output, signature)
    ELSE Returns([Nothing EXCEPT !.output = {output}])

\* What handleInvoke demands of a result; a provider it only demands to exist.
Sound(fields) ==
    /\ fields.output # {}
    /\ fields.binding # {} => fields.provider # {} /\ Bad \notin fields.binding
    /\ Bad \notin fields.signature
    /\ Bad \notin fields.hiredRuns

\* handleInvoke: the answer that leaves the agent.  `result` is what the
\* agent's own code ends in, if it is run at all.
HandleInvoke(request, result) ==
    IF ~ParseRequest(request) THEN Response(400, ErrorBody({FALSE}))
    ELSE CASE result.kind = "AgentError" -> Response(result.status, ErrorBody({result.retryable}))
           [] result.kind = "other" -> Response(500, ErrorBody({FALSE}))
           [] OTHER -> IF Sound(result.fields) THEN Response(200, {result.fields})
                       ELSE Response(500, ErrorBody({FALSE}))

-----------------------------------------------------------------------------
\* The executor's end.
IsSuccess(response) == response.status >= 200 /\ response.status < 300

\* parseSuccess: the fields it takes over, or nothing when the answer is a
\* malformed-response.  Fields of an unusable form are dropped.
ParseSuccess(body) ==
    {[doc EXCEPT !.attestation = @ \ {Bad}, !.binding = @ \ {Bad}, !.provider = @ \ {Bad},
                 !.signature = @ \ {Bad}, !.hiredRuns = @ \ {Bad}] :
        doc \in {d \in body : d.output # {} /\ d.output # {Unhashable}}}

\* parseError: whether the failure may be retried; only `true` says so.
ParseError(body) == \E doc \in body : \E e \in doc.error : e.retryable = {TRUE}
=============================================================================
