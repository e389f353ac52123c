------------------------------ MODULE MCFormats ------------------------------
(***************************************************************************)
(* Publications (Publishing), and what the programs exchange, one exchange *)
(* at a time: a call, an event or an answer (Wire), the documents of a run *)
(* (Documents), or an agent's test and then its hire (Conformance).  They  *)
(* are explored side by side: each is run while the others rest.           *)
(***************************************************************************)
EXTENDS Publishing, Wire, Documents, Conformance

-----------------------------------------------------------------------------
\* Two publications by either front, of an identity of the publisher's own,
\* of another's or of a new one, while an operator and a buyer of identities
\* act once.
CONSTANTS p, other, k1, k2, e1, e2, u

MCPrices == {0}
Form(named, payTo, price) ==
    [endpoint |-> e1, named |-> named, payTo |-> payTo, signer |-> k1, price |-> price]
MCForms == {Form(0, p, 0), Form(0, p, Malformed), Form(1, other, 0)}

-----------------------------------------------------------------------------
\* Every call and every event, one field after the other at the boundaries of
\* its type and beyond; texts of no word, of one, and of a part of one.
Bounds(type) == {0, Limit(type), Limit(type) + 1}
MCSamples ==
    [t \in {"uint8", "uint32", "uint64", "uint256", "bytes32", "address", "owner", "bool"} |->
        IF t = "owner" THEN {1, Limit("address")} ELSE IF t = "bool" THEN {0, 1} ELSE Bounds(t)]
MCStrings == {<<>>, <<1>>, <<1, 2, 3>>, <<1, 2, 3, 4>>, <<4, 3, 2, 1, 0>>}

-----------------------------------------------------------------------------
\* Flows of a step that makes something and one that may read it, planned
\* rightly and wrongly; answers at the edges of the canonical form.
a == 3001
b == 3002
x == 3003
firstOf == 3004
Ref(path) == <<Open, Space>> \o path \o <<Space, Close>>
ReadA == <<steps, Dot, a, Dot, output>>
Field == ReadA \o <<Dot, x>>
Emoji == <<55357, 56832>>

Templates ==
    {Text(Ref(ReadA)), Text(Ref(Field)), Text(<<x>> \o Ref(Field)), Text(Ref(<<inputs, Dot, x>>)),
     Text(<<Letter>> \o Ref(<<inputs, Dot, x>>) \o Ref(ReadA)), Text(Ref(<<inputs, Dot, b>>)),
     Text(Ref(ReadA \o <<Dot, firstOf>>)), Text(Ref(<<steps, Dot, a>>)), Text(Ref(<<a>>)), Text(Ref(<<b, Dot, x>>)),
     Text(<<Open>>), List(<<Text(Ref(ReadA)), Text(Ref(ReadA))>>),
     Dict(<<<<<<x>>, Text(Ref(Field))>>, <<<<Letter>>, Text(Ref(<<steps, Dot, b, Dot, output>>))>>>>),
     Dict(<<<<<<Open, x>>, JsonNull>>>>), Dict(<<<<<<b>>, Text(<<b>>)>>, <<<<x>>, List(<<JsonNull>>)>>>>)}

Step_(id, needs, template) == [id |-> id, needs |-> needs, input |-> template, flow |-> {}]
Flow(steps_) == [inputs |-> {x}, steps |-> steps_]
RECURSIVE Nested(_)
Nested(n) ==
    Flow(<<[Step_(a, {}, JsonNull) EXCEPT !.flow = IF n = 0 THEN {} ELSE {Nested(n - 1)}]>>)
MCFlows ==
    {Flow(<<Step_(a, {}, Text(<<x>>)), Step_(b, needs, t)>>) : needs \in {{}, {a}, {b}}, t \in Templates}
    \cup {Flow(<<Step_(b, {}, Text(<<x>>)), Step_(a, {}, Text(Ref(<<inputs, Dot, x>>))), Step_(x, needs, t)>>) :
             needs \in {{}, {a}, {a, b}},
             t \in {List(<<Text(Ref(ReadA) \o Ref(<<steps, Dot, b, Dot, output>>))>>), Text(Ref(ReadA))}}
    \cup {Flow(<<>>), Flow(<<Step_(a, {}, JsonNull), Step_(a, {}, JsonNull)>>), Nested(1), Nested(2)}

Edges ==
    {JsonNull, Bool(TRUE), Num("finite", 0), Num("finite", 1), Num("negativeZero", 0), Num("infinite", 0),
     Text(<<Letter, Accent>>), Text(<<Composed>>), Text(<<Quote, 7, 10>>), Text(Emoji), Text(<<55357>>),
     Text(Ref(<<inputs, Dot, x>>)), List(<<>>), List(<<Num("finite", 1), Text(<<x>>)>>),
     Dict(<<>>), Dict(<<<<<<x>>, Num("finite", 1)>>, <<<<Letter>>, JsonNull>>>>),
     Dict(<<<<<<Letter>>, JsonNull>>, <<<<x>>, Num("finite", 1)>>>>),
     Dict(<<<<<<65535>>, JsonNull>>, <<Emoji, JsonNull>>>>),
     Dict(<<<<<<Letter, Accent>>, JsonNull>>, <<<<Composed>>, JsonNull>>>>),
     Dict(<<<<ToJSON, JsonNull>>>>), Other}

MCAnswers == [id \in {a, b, x} |-> IF id = x THEN {JsonNull} ELSE Edges]

MCRunInputs ==
    {Dict(<<<<<<x>>, v>>>>) : v \in {Text(<<Accent>>), Num("negativeZero", 0), List(<<Text(<<b>>)>>)}}
    \cup {Dict(<<>>), Dict(<<<<<<x>>, Num("infinite", 0)>>>>)}
MCIndexOf == firstOf :> 0

-----------------------------------------------------------------------------
\* Every schema of a small family served by a well-made agent, and agents of
\* every kind that serve one of a few schemas.
SomeText == Scalar("string", "text")
Count == Scalar("integer", "one")
Typed(types) == [Unconstrained EXCEPT !.types = types]

Leaves == {NoSchema, Unconstrained, Typed(<<"string">>), Typed(<<"null", "number">>),
           [Typed(<<"string">>) EXCEPT !.enum = <<SomeText, Scalar("string", "more")>>],
           [Typed(<<"string">>) EXCEPT !.enum = <<Count, SomeText>>],
           [Unconstrained EXCEPT !.enum = <<SomeText>>, !.default = {Count}],
           [Typed(<<"integer">>) EXCEPT !.const = {Count}],
           [Typed(<<"array">>) EXCEPT !.items = {Typed(<<"boolean">>)}, !.minItems = {2}],
           [Typed(<<"array">>) EXCEPT !.items = {Unconstrained}]}

FieldNames == {"repo", "ref"}
Properties == {{}} \cup {{f} : f \in UNION {[S -> Leaves] : S \in SUBSET FieldNames}}
MCSchemas == Leaves \cup
    {[Typed(types) EXCEPT !.properties = fields, !.required = r, !.closed = c] :
        types \in {<<"object">>, <<>>}, fields \in Properties,
        r \in {{}} \cup {{R} : R \in SUBSET FieldNames}, c \in BOOLEAN}

Simple == [Typed(<<"object">>) EXCEPT !.properties = {[n \in {"repo"} |-> Typed(<<"string">>)]}]

Agent(sdk, doc, outputs, signs) ==
    [healthy |-> TRUE, doc |-> doc, sdk |-> sdk, outputs |-> outputs, attestation |-> {}, signs |-> signs,
     onMalformed |-> Response(400, ErrorBody({FALSE})), heedsDeadline |-> TRUE]
Serves(s) == [input |-> {s}, output |-> {Unconstrained}]

ManySchemas == {Agent(TRUE, Serves(s), <<"o1">>, "template") : s \in MCSchemas}

ManyAgents ==
    {[Agent(sdk, doc, outputs, signs) EXCEPT !.healthy = h, !.attestation = att, !.onMalformed = mal, !.heedsDeadline = d] :
        sdk \in BOOLEAN, h \in BOOLEAN, d \in BOOLEAN,
        doc \in {Serves(Simple), [input |-> {Simple}, output |-> {}], [input |-> {}, output |-> {}]},
        outputs \in {<<"o1">>, <<"o1", "o2">>, <<Null>>, <<Unhashable>>, <<"o1", Unhashable>>, <<"absent">>},
        signs \in {"never", "template", "always"},
        att \in {{}, {"quote"}, {Bad}},
        mal \in {Response(200, {Nothing}), Response(500, {}), Response(400, ErrorBody({})),
                 Response(400, ErrorBody({TRUE})), Response(400, ErrorBody({Bad}))}}

MCAgents == ManySchemas \cup {one \in ManyAgents : one.sdk => one.onMalformed = Response(500, {})}

-----------------------------------------------------------------------------
formatVars == <<wireVars, docVars, conformVars>>
NoCall == meant = Absent /\ answer = Absent
\* The agent, when none is tested, is any of them.
NoTest == agent = Agent(TRUE, Serves(NoSchema), <<"o1">>, "template") /\ probe = "health"
NoDocument == plan = "none"
NoExchange == NoCall /\ NoDocument /\ NoTest
NoPublication == checks = 0 /\ meddling = 0 /\ \A j \in Jobs : At(j, "off")

Init == PubInit /\ WireInit /\ DocInit /\ ConformInit
Next ==
    \/ NoExchange /\ PubNext /\ UNCHANGED formatVars
    \/ NoPublication /\ NoDocument /\ NoTest /\ WireNext /\ UNCHANGED <<pubVars, docVars, conformVars>>
    \/ NoPublication /\ NoCall /\ NoTest /\ DocNext /\ UNCHANGED <<pubVars, wireVars, conformVars>>
    \/ NoPublication /\ NoCall /\ NoDocument /\ ConformNext /\ UNCHANGED <<pubVars, wireVars, docVars>>

\* Calls of a publisher are answered or fail, and the wallet's owner decides.
FairSpec ==
    /\ Init /\ [][Next]_<<pubVars, formatVars>>
    /\ \A j \in Jobs : WF_pubVars(JobStep(j))
=============================================================================
