----------------------------- MODULE MCRequestBody -----------------------------
(* Bodies for RequestBody: a chunk or two, and forms of three parts whose names *)
(* meet in a list, in an object, in a list of objects, in what is an object and *)
(* a list by turns, or not at all.                                              *)
EXTENDS Integers, Sequences

Chunk(n, json) == [n |-> n, json |-> json]
ChunkBodies ==
    {<<Chunk(1, a)>> : a \in BOOLEAN} \cup {<<Chunk(1, a), Chunk(2, b)>> : a, b \in BOOLEAN}

Key(k) == <<"key", k>>
Place(i) == <<"index", i>>
Shapes ==
    {{<<Key("a")>>, <<Key("b")>>},
     {<<Key("a"), Place(i)>> : i \in {-1, 0, 1, 5}},
     {<<Key("a"), Key(k)>> : k \in {"x", "y"}},
     {<<Key("a"), Place(i), Key(k)>> : i \in {0, 1}, k \in {"x", "y"}},
     {<<Key("a"), Key("x")>>, <<Key("a"), Place(-1)>>, <<Key("a"), Place(1)>>}}
PartOf(n, path, kind) ==
    [value |-> n, path |-> path, file |-> kind = "file", json |-> kind = "field"]
Kinds == {"file", "field", "skipped"}
Forms(names) ==
    {<<PartOf(1, p, f), PartOf(2, q, g), PartOf(3, r, "field")>> : p, q, r \in names, f, g \in Kinds}

MCBodies == ChunkBodies \cup UNION {Forms(names) : names \in Shapes}
MCPlans ==
    {<<"object">>, <<"constant", "object">>, <<"object", "text">>, <<"json">>,
     <<"text", "form">>, <<"form", "json">>}
================================================================================
