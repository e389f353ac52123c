------------------------------ MODULE Canonical ------------------------------
(***************************************************************************)
(* The canonical form of a JSON value, which is what every hash is taken   *)
(* of: core/canonicalize.ts, and its port for agents written in Python,    *)
(* zgflow/canonical.py.                                                    *)
(*                                                                         *)
(* A text is a sequence of UTF-16 code units; a longer word of the format  *)
(* (true, null) is one unit of its own.  A value is a record with its      *)
(* type; an object has its members in the order they were added.  `Other`  *)
(* is what is no JSON: undefined, a function, a date, an instance of a     *)
(* class, or a value met again inside itself.                              *)
(***************************************************************************)
EXTENDS Integers, Sequences, FiniteSets, SequencesExt

CONSTANTS Rejected       \* what a value without a canonical form, or without a value, yields

JsonNull == [type |-> "null"]
Bool(b) == [type |-> "bool", is |-> b]
Num(kind, n) == [type |-> "number", kind |-> kind, n |-> n]     \* finite, negativeZero, infinite
Text(units) == [type |-> "string", units |-> units]
List(items) == [type |-> "array", items |-> items]
Dict(members) == [type |-> "object", members |-> members]
Other == [type |-> "other"]

MemberKeys(object) == {object.members[i][1] : i \in DOMAIN object.members}

\* Code units: the quote, the backslash, "u" and the hexadecimal digits; and
\* one letter with its accent, apart and composed.
Quote == 34
Backslash == 92
Letter == 101
Accent == 769
Composed == 233
High(u) == u \in 55296 .. 56319
Low(u) == u \in 56320 .. 57343
Hex(n) == IF n < 10 THEN 48 + n ELSE 87 + n
ToJSON == <<116, 111, 74>>

\* The platforms: normalisation, and a string as its code points.
NFC(s) ==
    LET add(done, u) == IF u = Accent /\ done # <<>> /\ Last(done) = Letter
                        THEN Append(Front(done), Composed) ELSE Append(done, u)
    IN  FoldLeft(add, <<>>, s)

CodePoints(units) ==
    LET add(done, u) ==
            IF Low(u) /\ done # <<>> /\ High(Last(done))
            THEN Append(Front(done), 65536 + (Last(done) - 55296) * 1024 + (u - 56320)) ELSE Append(done, u)
    IN  FoldLeft(add, <<>>, units)

Utf16(points) ==
    FlattenSeq([i \in DOMAIN points |->
        IF points[i] < 65536 THEN <<points[i]>>
        ELSE <<55296 + (points[i] - 65536) \div 1024, 56320 + ((points[i] - 65536) % 1024)>>])

\* a < b, of sequences of numbers.
Before(a, b) ==
    \/ IsStrictPrefix(a, b)
    \/ \E i \in DOMAIN a \cap DOMAIN b : SubSeq(a, 1, i - 1) = SubSeq(b, 1, i - 1) /\ a[i] < b[i]

\* Parts between brackets, if there is one for each.
Joined(open, parts, close) ==
    IF \E i \in DOMAIN parts : parts[i] = Rejected THEN Rejected
    ELSE open \o FlattenSeq([i \in DOMAIN parts |-> IF i = 1 THEN parts[i] ELSE <<44>> \o parts[i]]) \o close

-----------------------------------------------------------------------------
\* canonicalize.ts.
AssertWellFormed(s) ==
    \A i \in DOMAIN s :
        /\ High(s[i]) => i < Len(s) /\ Low(s[i + 1])
        /\ Low(s[i]) => i > 1 /\ High(s[i - 1])

\* ESCAPES: the letter for each of the seven; the other controls by number.
ESCAPES == {<<8, 98>>, <<9, 116>>, <<10, 110>>, <<12, 102>>, <<13, 114>>, <<Quote, Quote>>, <<Backslash, Backslash>>}
Escaped(u) ==
    IF \E e \in ESCAPES : e[1] = u THEN <<Backslash, (CHOOSE e \in ESCAPES : e[1] = u)[2]>>
    ELSE IF u < 32 THEN <<Backslash, 117, 48, 48, Hex(u \div 16), Hex(u % 16)>>
    ELSE <<u>>

\* Variant for the mutation checks: texts are taken as they come.
SerializeString_Raw(raw) ==
    IF ~AssertWellFormed(raw) THEN Rejected
    ELSE <<Quote>> \o FlattenSeq([i \in DOMAIN raw |-> Escaped(raw[i])]) \o <<Quote>>

SerializeString(raw) ==
    IF ~AssertWellFormed(raw) THEN Rejected
    ELSE LET s == NFC(raw) IN <<Quote>> \o FlattenSeq([i \in DOMAIN s |-> Escaped(s[i])]) \o <<Quote>>

SerializeNumber(v) == CASE v.kind = "infinite" -> Rejected [] v.kind = "negativeZero" -> <<48>> [] OTHER -> <<48 + v.n>>

SortKeys(keys) == SetToSortSeq(keys, Before)

\* The value under the key that reads so once it is normalised; a member as it
\* is written.
Value(object, nfc) == (CHOOSE m \in ToSet(object.members) : NFC(m[1]) = nfc)[2]
Member(key, child) == IF child = Rejected THEN Rejected ELSE key \o <<58>> \o child

\* Two keys that normalise to one would make the form depend on their order.
Collide(object) == Cardinality({NFC(key) : key \in MemberKeys(object)}) # Len(object.members)

RECURSIVE Canonicalize(_)
SerializeObject(v) ==
    LET sorted == SortKeys({NFC(key) : key \in MemberKeys(v)})
    IN  IF ToJSON \in MemberKeys(v) \/ Collide(v) \/ \E key \in MemberKeys(v) : ~AssertWellFormed(key) THEN Rejected
        ELSE Joined(<<123>>, [i \in DOMAIN sorted |->
                 Member(SerializeString(sorted[i]), Canonicalize(Value(v, sorted[i])))], <<125>>)

Canonicalize(v) ==
    CASE v.type = "null" -> <<1000>>
      [] v.type = "bool" -> <<IF v.is THEN 1001 ELSE 1002>>
      [] v.type = "number" -> SerializeNumber(v)
      [] v.type = "string" -> SerializeString(v.units)
      [] v.type = "array" -> Joined(<<91>>, [i \in DOMAIN v.items |-> Canonicalize(v.items[i])], <<93>>)
      [] v.type = "object" -> SerializeObject(v)
      [] OTHER -> Rejected

-----------------------------------------------------------------------------
\* canonical.py and numbers.py, on the same value; its texts are sequences of
\* code points.
CheckEncodable(points) == \A i \in DOMAIN points : ~High(points[i]) /\ ~Low(points[i])

SerialiseString(points) ==
    IF ~CheckEncodable(points) THEN Rejected
    ELSE <<Quote>> \o FlattenSeq([i \in DOMAIN points |-> Escaped(points[i])]) \o <<Quote>>

\* isinstance: a bool is an int, and the number True is 1.
IsInstance(v, type) == v.type = type \/ (type = "number" /\ v.type = "bool")
FormatNumber(v) ==
    IF v.type = "bool" THEN Rejected
    ELSE CASE v.kind = "infinite" -> Rejected [] v.n = 0 -> <<48>> [] OTHER -> <<48 + v.n>>

\* Variant for the mutation checks: sorted() as it is.
SortedByUtf16_CodePoints(keys) == SetToSortSeq(keys, Before)

SortedByUtf16(keys) == SetToSortSeq(keys, LAMBDA a, b : Before(Utf16(a), Utf16(b)))

RECURSIVE Serialise(_)
\* _serialise_object: nothing is said of a key toJSON.
SerialiseObject(v) ==
    LET sorted == SortedByUtf16({CodePoints(NFC(key)) : key \in MemberKeys(v)})
    IN  IF Collide(v) \/ \E key \in MemberKeys(v) : ~CheckEncodable(CodePoints(key)) THEN Rejected
        ELSE Joined(<<123>>, [i \in DOMAIN sorted |->
                 Member(SerialiseString(sorted[i]), Serialise(Value(v, Utf16(sorted[i]))))], <<125>>)

Serialise(v) ==
    IF v.type = "null" THEN <<1000>>
    ELSE IF IsInstance(v, "bool") THEN <<IF v.is THEN 1001 ELSE 1002>>
    ELSE IF IsInstance(v, "string") THEN SerialiseString(CodePoints(NFC(v.units)))
    ELSE IF IsInstance(v, "number") THEN FormatNumber(v)
    ELSE IF IsInstance(v, "array")
         THEN Joined(<<91>>, [i \in DOMAIN v.items |-> Serialise(v.items[i])], <<93>>)
    ELSE IF IsInstance(v, "object") THEN SerialiseObject(v)
    ELSE Rejected
=============================================================================
