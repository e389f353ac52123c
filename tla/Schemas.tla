------------------------------- MODULE Schemas -------------------------------
(***************************************************************************)
(* The two readers of the JSON Schema an agent publishes: the executor's   *)
(* check of an input against it (core/schema.ts) and the conformance       *)
(* suite's construction of an input from it (conform/golden.ts).           *)
(*                                                                         *)
(* A JSON value is a record with its type; an object has its properties as *)
(* a function, an array its elements as a sequence.  A schema is a record  *)
(* of its keywords.  A keyword that may be absent is the empty or one-     *)
(* element set of what it says; `enum` and `examples` are sequences, empty *)
(* when absent.  A schema that is no object is NoSchema.                   *)
(***************************************************************************)
EXTENDS Integers, Sequences, FiniteSets, SequencesExt

Scalar(type, value) == [type |-> type, value |-> value]
Array(elements) == [type |-> "array", elements |-> elements]
Object(properties) == [type |-> "object", properties |-> properties]
EmptyObject == Object([n \in {} |-> {}])

NoSchema == [kind |-> "none"]
\* No keyword at all; `types` lists what `type` names, one or several, and
\* `closed` is additionalProperties: false.
Unconstrained == [kind |-> "schema", types |-> <<>>, const |-> {}, default |-> {}, examples |-> <<>>,
                  enum |-> <<>>, properties |-> {}, required |-> {}, closed |-> FALSE,
                  items |-> {}, minItems |-> {}]
The(option) == CHOOSE x \in option : TRUE

-----------------------------------------------------------------------------
\* `integer` satisfies `number`; nothing else widens.
MatchesType(value, type) == value.type = type \/ (type = "number" /\ value.type = "integer")

RECURSIVE ValidateAgainstSchema(_, _)
\* The keywords about objects: additionalProperties counts only beside
\* properties.
ObjectFits(value, schema) ==
    /\ \A required \in schema.required : required \subseteq DOMAIN value.properties
    /\ \A declared \in schema.properties :
           /\ \A name \in DOMAIN declared \cap DOMAIN value.properties :
                  ValidateAgainstSchema(value.properties[name], declared[name])
           /\ schema.closed => DOMAIN value.properties \subseteq DOMAIN declared

\* Whether walk() finds no problem.  Keywords it does not know constrain
\* nothing here, const and minItems among them.
ValidateAgainstSchema(value, schema) ==
    \/ schema = NoSchema
    \/ /\ schema.types # <<>> => \E type \in ToSet(schema.types) : MatchesType(value, type)
       /\ schema.enum # <<>> => value \in ToSet(schema.enum)
       /\ value.type = "object" => ObjectFits(value, schema)
       /\ value.type = "array" =>
              \A items \in schema.items : \A element \in ToSet(value.elements) :
                  ValidateAgainstSchema(element, items)

-----------------------------------------------------------------------------
\* firstType: of several, the first that is not null.
FirstType(types) ==
    LET others == SelectSeq(types, LAMBDA t : t # "null")
    IN  IF types = <<>> THEN "undefined" ELSE IF others # <<>> THEN others[1] ELSE types[1]

\* Variant for the mutation checks: the test of `required` is inverted.
NamesToBuild_Inverted(schema) ==
    LET declared == DOMAIN The(schema.properties)
    IN  IF schema.required = {} THEN declared ELSE declared \ The(schema.required)

\* The properties that get a value: of those described, the required ones,
\* each one if nothing is said to be required.
NamesToBuild(schema) ==
    LET declared == DOMAIN The(schema.properties)
    IN  IF schema.required = {} THEN declared ELSE declared \cap The(schema.required)

RECURSIVE Synthesise(_)
\* synthesiseObject: nothing if one of these has no value, or if nothing is
\* described.
SynthesiseObject(schema) ==
    LET built == [n \in NamesToBuild(schema) |-> Synthesise(The(schema.properties)[n])]
    IN  IF schema.properties \in {{}, {<<>>}} \/ \E n \in DOMAIN built : built[n] = {} THEN {}
        ELSE {Object([n \in DOMAIN built |-> The(built[n])])}

\* What the author of the schema gave, in the order of preference.
Given(schema) == SetToSeq(schema.const) \o SetToSeq(schema.default) \o schema.examples \o schema.enum

\* synthesise: the value built for a schema; empty when it is too vague.
Synthesise(schema) ==
    IF schema = NoSchema THEN {}
    ELSE IF Given(schema) # <<>> THEN {Given(schema)[1]}
    ELSE CASE FirstType(schema.types) \in {"string", "number", "integer", "boolean", "null"} ->
                  {Scalar(FirstType(schema.types), "sample")}
           [] FirstType(schema.types) = "array" ->
                  LET element == UNION {Synthesise(items) : items \in schema.items}
                      count == IF schema.minItems = {} THEN 1 ELSE The(schema.minItems)
                  IN  {Array(IF element = {} THEN <<>>
                             ELSE [k \in 1 .. IF count < 1 THEN 1 ELSE count |-> The(element)])}
           [] FirstType(schema.types) = "object" \/ schema.properties # {} ->
                  SynthesiseObject(schema)
           [] OTHER -> {}

\* goldenInput: {} with a remark when no object could be built.
GoldenInput(schema) ==
    LET built == Synthesise(schema)
        opaque == built = {} \/ The(built).type # "object"
    IN  [opaque |-> opaque, input |-> IF opaque THEN EmptyObject ELSE The(built)]
=============================================================================
