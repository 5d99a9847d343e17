-------------------------------- MODULE MCInput --------------------------------
\* Input with every type, some of them nested, and payloads that meet and miss them.
EXTENDS Input, TLC

Strings == {"", "7", "1.5", "word", "STR", "mail", "uuid", "day", "{}", "toString"}
MCLength == [s \in Strings |-> IF s = "" THEN 0 ELSE IF s = "7" THEN 1 ELSE 4]
MCNumber ==
    [s \in Strings |->
        CASE s = "" -> <<"num", "int", 0>>
          [] s = "7" -> <<"num", "int", 7>>
          [] s = "1.5" -> <<"num", "float", 1>>
          [] OTHER -> <<"num", "nan", 0>>]
MCMatching ==
    [s \in Strings |->
        CASE s = "mail" -> {"email"} [] s = "uuid" -> {"uuid"} [] s = "7" -> {"date", "digits"}
          [] s \in {"day", "1.5"} -> {"date"} [] OTHER -> {}]
MCParse == "7" :> <<"num", "int", 7>> @@ "{}" :> <<"obj", << >>>>
\* An enumeration of numbers has its names under its values, too.
MCMembers == "STR" :> <<"num", "int", 7>> @@ "7" :> <<"str", "STR">>
MCInherited == {"toString"}

Scalars ==
    {<<n>> : n \in {"Int", "Float", "Bool", "Text", "Record", "UUID", "Email", "JSON",
                    "ToNumber", "DateTime", "Enum"}}
    \cup {<<"Varchar", 2, 3>>, <<"Varchar", 0, 4>>, <<"Varchar", 0, 0>>}
Several ==
    {<<"StringAsNumber", <<"Float">>>>, <<"Mutate", <<"Int">>>>,
     <<"Union", "str" :> <<"DateTime">> @@ "num" :> <<"DateTime">> @@ "bool" :> <<"Bool">>>>}
Human ==
    <<"Fields", "age" :> <<"Nullable", <<"ToNumber">>>> @@ "name" :> <<"Varchar", 1, 4>>
                @@ "links" :> <<"NonNull", <<"List", <<"ToNumber">>>>, <<"list", <<>>>>>>>>
MCTypes ==
    Scalars \cup Several
    \cup {<<"Nullable", t>> : t \in {<<"Int">>, <<"Enum">>}}
    \cup {<<"NonNull", <<"Text">>, <<"str", "word">>>>}
    \cup {Human, <<"List", Human>>, <<"List", <<"ToNumber">>>>}

Atoms ==
    {Undefined, <<"null">>, <<"bool", TRUE>>, <<"num", "int", 3>>, <<"num", "float", 1>>,
     <<"num", "late", 9>>, <<"num", "huge", 1>>, <<"num", "nan", 0>>, <<"date", <<"str", "day">>>>}
    \cup {<<"str", s>> : s \in Strings}
Humans ==
    {<<"obj", "age" :> a @@ "name" :> n @@ "links" :> l>> :
        a \in {<<"str", "7">>, <<"str", "word">>, <<"null">>},
        n \in {<<"str", "word">>, <<"str", "">>},
        l \in {Undefined, <<"list", <<<<"str", "7">>, <<"bool", TRUE>>>>>>}}
MCPayloads ==
    Atoms \cup Humans
    \cup {<<"list", <<a, b>>>> : a \in {<<"str", "7">>, <<"str", "word">>}, b \in Humans}
    \cup {<<"list", <<a, b>>>> : a \in {<<"str", "7">>, <<"str", "word">>}, b \in Atoms}
================================================================================
