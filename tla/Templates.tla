------------------------------ MODULE Templates ------------------------------
(***************************************************************************)
(* core/template.ts: the references in the input of a step and what they   *)
(* resolve to; executor/plan.ts: which flows are accepted for execution.   *)
(*                                                                         *)
(* In a text, `{{` and `}}` are one unit each, and so is each word of a    *)
(* path: a step's id, a field, an index.                                   *)
(***************************************************************************)
EXTENDS Canonical, FlowPlan

CONSTANTS
    MAX_PLAN_DEPTH,     \* how deep flows may nest when they are planned
    IndexOf             \* the words that are array indices -> the number

Open == 2001
Close == 2002
Dot == 46
Space == 32
inputs == 2003
steps == 2004
output == 2005

-----------------------------------------------------------------------------
\* The references of a text: where each opens and closes, nothing but text
\* between.
Delimiters(s) == {i \in DOMAIN s : s[i] \in {Open, Close}}
Expressions(s) ==
    {<<i, j>> \in Delimiters(s) \X Delimiters(s) :
        s[i] = Open /\ s[j] = Close /\ i < j /\ Delimiters(s) \cap i + 1 .. j - 1 = {}}

\* tokenize: literals and expressions, in order; any other delimiter is one too
\* many.
Tokenize(s) ==
    LET cuts == SetToSortSeq({0, Len(s) + 1} \cup UNION {{e[1], e[2]} : e \in Expressions(s)}, LAMBDA a, b : a < b)
        token(k) == [expr |-> <<cuts[k], cuts[k + 1]>> \in Expressions(s),
                     units |-> SubSeq(s, cuts[k] + 1, cuts[k + 1] - 1)]
        all == [k \in 1 .. Len(cuts) - 1 |-> token(k)]
    IN  IF \E i \in Delimiters(s) : \A e \in Expressions(s) : i \notin {e[1], e[2]} THEN Rejected
        ELSE SelectSeq(all, LAMBDA t : t.expr \/ t.units # <<>>)

\* trim, and split at the dots.
Trim(s) ==
    LET kept == {i \in DOMAIN s : s[i] # Space}
    IN  IF kept = {} THEN <<>>
        ELSE SubSeq(s, CHOOSE i \in kept : \A j \in kept : i <= j, CHOOSE i \in kept : \A j \in kept : i >= j)

Split(s) ==
    LET add(done, u) == IF u = Dot THEN Append(done, <<>>)
                        ELSE Append(Front(done), Append(Last(done), u))
    IN  FoldLeft(add, <<<<>>>>, s)

\* parsePath: two segments at least, each a word.
ParsePath(expression) ==
    LET path == Split(Trim(expression))
    IN  IF Len(path) < 2 \/ \E i \in DOMAIN path : Len(path[i]) # 1 \/ path[i][1] <= Space THEN Rejected
        ELSE [i \in DOMAIN path |-> path[i][1]]

\* traverse, one segment: a member of its own, or an index in range.
Traverse(root, path) ==
    LET step(current, segment) ==
            IF current = Rejected THEN Rejected
            ELSE IF current.type = "array" /\ segment \in DOMAIN IndexOf /\ IndexOf[segment] < Len(current.items)
                 THEN current.items[IndexOf[segment] + 1]
            ELSE IF current.type = "object" /\ <<segment>> \in MemberKeys(current)
                 THEN (CHOOSE m \in ToSet(current.members) : m[1] = <<segment>>)[2]
            ELSE Rejected
    IN  FoldLeft(step, root, path)

\* resolveExpression: the inputs of the run, or the output of a step that has
\* one.
ResolveExpression(expression, context) ==
    LET path == ParsePath(expression)
    IN  IF path = Rejected THEN Rejected
        ELSE CASE path[1] = inputs -> Traverse(context.inputs, Tail(path))
               [] path[1] = steps /\ Len(path) >= 3 /\ path[3] = output /\ path[2] \in DOMAIN context.steps ->
                      Traverse(context.steps[path[2]], SubSeq(path, 4, Len(path)))
               [] OTHER -> Rejected

\* renderScalar: a text as it is, anything else that is no array or object in
\* its canonical form.
RenderScalar(value) ==
    IF value = Rejected \/ value.type \in {"array", "object"} THEN Rejected
    ELSE IF value.type = "string" THEN value.units ELSE Canonicalize(value)

ResolveString(s, context) ==
    LET tokens == Tokenize(s)
        text(t) == IF t.expr THEN RenderScalar(ResolveExpression(t.units, context)) ELSE t.units
        texts == [k \in DOMAIN tokens |-> text(tokens[k])]
    IN  IF tokens = Rejected THEN Rejected
        ELSE IF Len(tokens) = 1 /\ tokens[1].expr THEN ResolveExpression(tokens[1].units, context)
        ELSE IF Rejected \in ToSet(texts) THEN Rejected ELSE Text(FlattenSeq(texts))

RECURSIVE ResolveTemplates(_, _)
\* resolve: what it puts in is not looked at again.
ResolveTemplates(value, context) ==
    CASE value.type = "string" -> ResolveString(value.units, context)
      [] value.type = "array" ->
             LET items == [i \in DOMAIN value.items |-> ResolveTemplates(value.items[i], context)]
             IN  IF Rejected \in ToSet(items) THEN Rejected ELSE List(items)
      [] value.type = "object" ->
             LET members == [i \in DOMAIN value.members |->
                     <<value.members[i][1], ResolveTemplates(value.members[i][2], context)>>]
             IN  IF \E i \in DOMAIN members : members[i][2] = Rejected \/ Open \in ToSet(members[i][1])
                 THEN Rejected ELSE Dict(members)
      [] OTHER -> value

-----------------------------------------------------------------------------
\* The texts in a value, the keys not among them.
RECURSIVE TextsIn(_)
TextsIn(value) ==
    CASE value.type = "string" -> {value.units}
      [] value.type = "array" -> UNION {TextsIn(value.items[i]) : i \in DOMAIN value.items}
      [] value.type = "object" -> UNION {TextsIn(value.members[i][2]) : i \in DOMAIN value.members}
      [] OTHER -> {}

\* Variant for the mutation checks: of a text, the first reference.
PathsIn_First(s) ==
    LET exprs == SelectSeq(Tokenize(s), LAMBDA t : t.expr)
    IN  IF exprs = <<>> THEN {} ELSE {ParsePath(exprs[1].units)}

PathsIn(s) == {ParsePath(t.units) : t \in {u \in ToSet(Tokenize(s)) : u.expr}}

\* referencedSteps: rejected for a reference no resolution could follow.
ReferencedSteps(value) ==
    LET paths == UNION {PathsIn(s) : s \in {t \in TextsIn(value) : Tokenize(t) # Rejected}}
        toSteps == {p \in paths \ {Rejected} : p[1] = steps}
    IN  IF \/ \E s \in TextsIn(value) : Tokenize(s) = Rejected
           \/ Rejected \in paths
           \/ \E p \in toSteps : Len(p) < 3 \/ p[3] # output THEN Rejected
        ELSE {p[2] : p \in toSteps}

\* referencedInputs: the first segment after `inputs`.
ReferencedInputs(value) ==
    {p[2] : p \in {q \in UNION {PathsIn(s) : s \in TextsIn(value)} : q[1] = inputs}}

\* A flow: the inputs it declares, and its steps, each with its id, what it
\* needs, the template of its input, and the flow it hires, if it hires one.
AssertUniqueIds(flow) ==
    /\ flow.steps # <<>>
    /\ \A i, j \in DOMAIN flow.steps : flow.steps[i].id = flow.steps[j].id => i = j

IndexById(flow, id) == (CHOOSE i \in DOMAIN flow.steps : flow.steps[i].id = id) - 1

RECURSIVE PlanFlow(_, _)
\* planFlow: before anything is published, or anybody hired.
PlanFlow(flow, depth) ==
    LET ids == {flow.steps[i].id : i \in DOMAIN flow.steps}
        n == Len(flow.steps)
        indices(names) == {IF id \in ids THEN IndexById(flow, id) ELSE n : id \in names}
    IN  /\ depth <= MAX_PLAN_DEPTH
        /\ AssertUniqueIds(flow)
        /\ \A i \in DOMAIN flow.steps :
               /\ ReferencedSteps(flow.steps[i].input) # Rejected
               /\ ReferencedInputs(flow.steps[i].input) \subseteq flow.inputs
               /\ \A child \in flow.steps[i].flow : PlanFlow(child, depth + 1)
        /\ Accepted(n, [i \in 0 .. n - 1 |-> indices(flow.steps[i + 1].needs)],
                       [i \in 0 .. n - 1 |-> indices(ReferencedSteps(flow.steps[i + 1].input))])
        /\ \A i \in DOMAIN flow.steps : Canonicalize(flow.steps[i].input) # Rejected
=============================================================================
