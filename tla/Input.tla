--------------------------------- MODULE Input ---------------------------------
(***************************************************************************)
(* The types of @bunt/input and how they validate a payload.               *)
(*                                                                         *)
(* A value is a tuple, its first element the kind: <<"undefined">>,        *)
(* <<"null">>, <<"bool", b>>, <<"num", class, n>>, <<"str", s>>,           *)
(* <<"list", seq>>, <<"obj", [name -> value]>>, <<"date", v>>, where the   *)
(* class of a number is "int" (a safe integer), "late" (a safe integer     *)
(* beyond the last date), "float" (any other in their range), "huge" or    *)
(* "nan".  <<"inherited", s>> is what every object has under the name s.   *)
(* What matters of a string is a constant: its length, the number it       *)
(* converts to and the patterns it matches.  A type is a tuple, too: its   *)
(* name and its parameters; no field has a name that is inherited.         *)
(***************************************************************************)
EXTENDS Integers, Sequences, FiniteSets

CONSTANTS
    Types, Payloads,    \* what is validated, and by what
    Length,             \* the length of a string
    Number,             \* the number it converts to
    Matching,           \* which of "email", "uuid", "date" and "digits" match it
    Parse,              \* what the strings that are JSON stand for
    Members,            \* the enumeration: its keys, and their values
    Inherited           \* the names that every object inherits

VARIABLES type, payload, verdict
vars == <<type, payload, verdict>>

Undefined == <<"undefined">>
IsNullish(v) == v[1] \in {"undefined", "null"}
IsString(v) == v[1] = "str"
IsNumber(v) == v[1] = "num" /\ v[2] # "nan"
IsObject(v) == v[1] \in {"obj", "date"}
\* payload[field]: undefined where there is none.
At(v, field) ==
    IF v[1] = "obj" /\ field \in DOMAIN v[2] THEN v[2][field] ELSE Undefined

\* +payload
ToNum(v) == IF IsString(v) THEN Number[v[2]] ELSE v

\* A verdict: the value, or the error as the set of paths to what is wrong, which is
\* what toSafeJSON() tells of it.
Ok(v) == [valid |-> TRUE, value |-> v, wrong |-> {}]
Wrong(paths) == [valid |-> FALSE, value |-> Undefined, wrong |-> paths]
Asserted(condition, v) == IF condition THEN Ok(v) ELSE Wrong({<<>>})

\* Types without parts.
IntType(v) == Asserted(IsNumber(v) /\ v[2] \in {"int", "late"}, v)
Float(v) == Asserted(IsNumber(v) /\ v[2] # "huge", v)
Bool(v) == Asserted(v[1] = "bool", v)
Text(v) == Asserted(IsString(v), v)
RecordType(v) == Asserted(IsObject(v), v)
UUID(v) == Asserted(IsString(v) /\ "uuid" \in Matching[v[2]], v)
EmailAddress(v) == Asserted(IsString(v) /\ "email" \in Matching[v[2]], v)
JSONString(v) == IF IsString(v) /\ v[2] \in DOMAIN Parse THEN Ok(Parse[v[2]]) ELSE Wrong({<<>>})
ToNumber(v) == IF IsNumber(v) \/ IsString(v) THEN IntType(ToNum(v)) ELSE Wrong({<<>>})
DateTime(v) ==
    Asserted(\/ IsNumber(v) /\ v[2] \notin {"late", "huge"}
             \/ IsString(v) /\ "date" \in Matching[v[2]], <<"date", v>>)

\* A key that reads as a number is none of the enumeration's names; `in' finds the names
\* that its object inherits, too, and what comes out is what they are names of.
Enum(v) ==
    IF ~IsString(v) \/ "digits" \in Matching[v[2]] THEN Wrong({<<>>})
    ELSE IF v[2] \in DOMAIN Members THEN Ok(Members[v[2]])
    ELSE IF v[2] \in Inherited THEN Ok(<<"inherited", v[2]>>) ELSE Wrong({<<>>})

\* A bound that is 0 is none.
Varchar(min, max, v) ==
    Asserted(/\ IsString(v)
             /\ min # 0 => Length[v[2]] >= min
             /\ max # 0 => Length[v[2]] <= max, v)

Under(key, paths) == {<<key>> \o p : p \in paths}

RECURSIVE Validate(_, _)

\* Every field is looked at, whatever is wrong with others; what has no field is dropped.
Fields(fields, v) ==
    LET of == [f \in DOMAIN fields |-> Validate(fields[f], At(v, f))]
    IN  IF ~IsObject(v) THEN Wrong({<<>>})
        ELSE IF \A f \in DOMAIN of : of[f].valid
             THEN Ok(<<"obj", [f \in DOMAIN of |-> of[f].value]>>)
             ELSE Wrong(UNION {Under(f, of[f].wrong) : f \in DOMAIN of})

\* Likewise every item, under its index.
List(item, v) ==
    LET of == [i \in DOMAIN v[2] |-> Validate(item, v[2][i])]
    IN  IF v[1] # "list" THEN Wrong({<<>>})
        ELSE IF \A i \in DOMAIN of : of[i].valid
             THEN Ok(<<"list", [i \in DOMAIN of |-> of[i].value]>>)
             ELSE Wrong(UNION {Under(i - 1, of[i].wrong) : i \in DOMAIN of})

Nullable(of, v) == IF IsNullish(v) THEN Ok(Undefined) ELSE Validate(of, v)

\* The default is not validated.
NonNull(of, default, v) == IF IsNullish(v) THEN Ok(default) ELSE Validate(of, v)

\* The selector, here by the kind of the value, may know no type for it.
Union(selector, v) ==
    IF v[1] \in DOMAIN selector THEN Validate(selector[v[1]], v) ELSE Wrong({<<>>})

StringAsNumber(of, v) ==
    IF IsString(v) \/ IsNumber(v) THEN Validate(of, ToNum(v)) ELSE Wrong({<<>>})

\* The mutation, here a list of one, is applied to what is valid.
Mutate(of, v) ==
    LET inner == Validate(of, v)
    IN  IF inner.valid THEN Ok(<<"list", <<inner.value>>>>) ELSE inner

Validate(t, v) ==
    CASE t[1] = "Int" -> IntType(v)
      [] t[1] = "Float" -> Float(v)
      [] t[1] = "Bool" -> Bool(v)
      [] t[1] = "Text" -> Text(v)
      [] t[1] = "Record" -> RecordType(v)
      [] t[1] = "UUID" -> UUID(v)
      [] t[1] = "Email" -> EmailAddress(v)
      [] t[1] = "JSON" -> JSONString(v)
      [] t[1] = "ToNumber" -> ToNumber(v)
      [] t[1] = "DateTime" -> DateTime(v)
      [] t[1] = "Enum" -> Enum(v)
      [] t[1] = "Varchar" -> Varchar(t[2], t[3], v)
      [] t[1] = "Fields" -> Fields(t[2], v)
      [] t[1] = "List" -> List(t[2], v)
      [] t[1] = "Nullable" -> Nullable(t[2], v)
      [] t[1] = "NonNull" -> NonNull(t[2], t[3], v)
      [] t[1] = "Union" -> Union(t[2], v)
      [] t[1] = "StringAsNumber" -> StringAsNumber(t[2], v)
      [] t[1] = "Mutate" -> Mutate(t[2], v)

------------------------------------------------------------------------------
Pending == [valid |-> FALSE, value |-> Undefined, wrong |-> {}]

Init ==
    /\ type \in Types
    /\ payload \in Payloads
    /\ verdict = Pending

\* validate()
Next ==
    /\ verdict = Pending
    /\ verdict' = Validate(type, payload)
    /\ UNCHANGED <<type, payload>>

Spec == Init /\ [][Next]_vars

------------------------------------------------------------------------------
RECURSIVE Conforms(_, _)

\* Whether a value is one of a type: what the type promises whoever uses the result.
Conforms(t, v) ==
    CASE t[1] \in {"Int", "ToNumber"} -> v[1] = "num" /\ v[2] \in {"int", "late"}
      [] t[1] = "Float" -> v[1] = "num" /\ v[2] \in {"int", "late", "float"}
      [] t[1] = "Bool" -> v[1] = "bool"
      [] t[1] \in {"Text", "UUID", "Email"} -> v[1] = "str"
      [] t[1] = "Record" -> v[1] \in {"obj", "date"}
      [] t[1] = "JSON" -> \E s \in DOMAIN Parse : v = Parse[s]
      [] t[1] = "DateTime" ->
            v[1] = "date" /\ (IsNumber(v[2]) => v[2][2] \in {"int", "float"})
      [] t[1] = "Enum" ->
            \/ \E s \in DOMAIN Members : "digits" \notin Matching[s] /\ v = Members[s]
            \/ \E s \in Inherited \ DOMAIN Members : v = <<"inherited", s>>
      [] t[1] = "Varchar" ->
            v[1] = "str" /\ Length[v[2]] >= t[2] /\ (t[3] = 0 \/ Length[v[2]] <= t[3])
      [] t[1] = "Fields" ->
            v[1] = "obj" /\ DOMAIN v[2] = DOMAIN t[2]
                         /\ \A f \in DOMAIN t[2] : Conforms(t[2][f], v[2][f])
      [] t[1] = "List" -> v[1] = "list" /\ \A i \in DOMAIN v[2] : Conforms(t[2], v[2][i])
      [] t[1] = "Nullable" -> v = Undefined \/ Conforms(t[2], v)
      [] t[1] = "NonNull" -> v = t[3] \/ (~IsNullish(v) /\ Conforms(t[2], v))
      [] t[1] = "Union" -> \E k \in DOMAIN t[2] : Conforms(t[2][k], v)
      [] t[1] = "StringAsNumber" -> Conforms(t[2], v)
      [] t[1] = "Mutate" -> v[1] = "list" /\ Len(v[2]) = 1 /\ Conforms(t[2], v[2][1])

\* What validation lets through is a value of the type, down to the last part of it,
\* whatever was converted, defaulted or selected on the way, and nothing besides.  What
\* an Enum promises is not what its type says: a value of the enumeration, or what its
\* object inherits under the name that was given.
ValidatedConforms == verdict.valid => Conforms(type, verdict.value)

================================================================================
