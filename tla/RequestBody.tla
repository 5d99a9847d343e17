------------------------------ MODULE RequestBody ------------------------------
(***************************************************************************)
(* The state of a route's action, made from the body of a request: the     *)
(* Resolver of @bunt/app runs the resolvers of the payload one after the   *)
(* other, each reads the body as an object, a text or a form, and a form   *)
(* of several parts is put together by QueryString.  A body comes as a     *)
(* stream that can be read once.                                           *)
(*                                                                         *)
(* A body is a sequence of chunks, or of parts: fields, and files that are *)
(* written to disk.  What is no form at all is left out: the parser is     *)
(* external, and nothing here handles its errors.                          *)
(***************************************************************************)
EXTENDS Integers, Sequences, FiniteSets, SequencesExt, Functions

CONSTANTS
    Bodies,         \* the bodies: what may come, part by part
    Types,          \* the content types a request may have
    Plans           \* the resolvers of a payload, by how each reads the body

VARIABLES
    type,           \* the content type, or "none"
    body,           \* the body
    stream,         \* what of it is still to come
    plan,           \* the resolvers still to run, the one that runs first
    reading,        \* "none", "buffer" or "parts"
    chunks,         \* what getBuffer() has so far
    fields,         \* what the QueryString has so far
    writing,        \* the files not yet closed
    state,          \* what the resolvers gave
    outcome         \* "pending", "resolved" or "thrown"

vars == <<type, body, stream, plan, reading, chunks, fields, writing, state, outcome>>

------------------------------------------------------------------------------
(***************************************************************************)
(* QueryString                                                             *)
(*                                                                         *)
(* A name is a path of keys: <<"key", k>>, <<"index", i>> if it is the     *)
(* number of a place, or <<"index", -1>> if it is numeric otherwise, as    *)
(* the empty key is.  Its base is a key whatever it reads like, as push()  *)
(* drops what #inject() returns.  A value is a leaf, or a tree: an object  *)
(* or a list, by its entries in the order of Object.values().  Left out    *)
(* are names that go on below a leaf, and the length of a list.            *)
(***************************************************************************)
Leaf(v) == [is |-> "leaf", of |-> v]
Tree(entries) == [is |-> "tree", of |-> entries]
Nothing == Tree(<<>>)

\* fields[key]
Get(node, k) ==
    IF \E i \in DOMAIN node.of : node.of[i][1] = k
    THEN node.of[CHOOSE i \in DOMAIN node.of : node.of[i][1] = k][2] ELSE Nothing

IsPlace(k) == k[1] = "index" /\ k[2] >= 0

\* fields[key] = value: the places come first, in order, then the names as they came.
SetTo(node, k, v) ==
    LET es == node.of
        below == {i \in DOMAIN es : IsPlace(es[i][1]) /\ es[i][1][2] < k[2]}
    IN  IF \E i \in DOMAIN es : es[i][1] = k
        THEN Tree([i \in DOMAIN es |-> IF es[i][1] = k THEN <<k, v>> ELSE es[i]])
        ELSE Tree(InsertAt(es, IF IsPlace(k) THEN Cardinality(below) + 1 ELSE Len(es) + 1, <<k, v>>))

\* Mutant: a numeric key begins a new list.
PutAlone(node, k, v) ==
    IF k[1] = "index" THEN SetTo(Nothing, <<"index", 0>>, v) ELSE SetTo(node, k, v)

\* A numeric key makes a list of the values there are, whatever they had for keys.
Put(node, k, v) ==
    LET es == SetTo(node, k, v).of
    IN  IF k[1] = "key" THEN Tree(es)
        ELSE Tree([i \in DOMAIN es |-> <<<<"index", i - 1>>, es[i][2]>>])

RECURSIVE Inject(_, _, _)
Inject(path, value, node) ==
    Put(node, Head(path),
        IF Len(path) = 1 THEN Leaf(value) ELSE Inject(Tail(path), value, Get(node, Head(path))))

RECURSIVE Leaves(_)
Leaves(node) ==
    IF node.is = "leaf" THEN {node.of} ELSE UNION {Leaves(node.of[i][2]) : i \in DOMAIN node.of}

------------------------------------------------------------------------------
(***************************************************************************)
(* Readers                                                                 *)
(***************************************************************************)

\* toObject() goes by the content type.
Reader(way) ==
    IF way # "object" THEN way
    ELSE IF type \in {"multipart", "form"} THEN type ELSE "json"

\* What a reader asserts of the content type: there must be one, and for a
\* form of one part, whose type is given as a string, that is all.
Admits(reader) ==
    /\ type # "none"
    /\ reader \in {"json", "text", "multipart"} => type = reader

Done(given) ==
    /\ state' = Append(state, given)
    /\ plan' = Tail(plan)
    /\ reading' = "none"
    /\ outcome' = IF Len(plan) = 1 THEN "resolved" ELSE "pending"

Throws ==
    /\ outcome' = "thrown"
    /\ reading' = "none"
    /\ UNCHANGED <<state, plan>>

\* A resolver begins: a value that is no function is taken as it is.
Begin ==
    /\ outcome = "pending" /\ reading = "none"
    /\ LET r == Reader(Head(plan)) IN
       IF r = "constant" THEN Done([by |-> r, got |-> <<>>])
       ELSE IF ~Admits(r) THEN Throws
       ELSE /\ reading' = IF r = "multipart" THEN "parts" ELSE "buffer"
            /\ UNCHANGED <<state, plan, outcome>>
    /\ chunks' = <<>> /\ fields' = Nothing
    /\ UNCHANGED <<type, body, stream, writing>>

\* getBuffer(): the next chunk.
Chunk ==
    /\ reading = "buffer" /\ stream # <<>>
    /\ chunks' = Append(chunks, Head(stream))
    /\ stream' = Tail(stream)
    /\ UNCHANGED <<type, body, plan, reading, fields, writing, state, outcome>>

\* JSON.parse() of the chunks: nothing at all is no JSON.
Parses == chunks # <<>> /\ \A i \in DOMAIN chunks : chunks[i].json

\* The stream has ended: the reader makes its value of the chunks.
BufferEnds ==
    /\ reading = "buffer" /\ stream = <<>>
    /\ IF Reader(Head(plan)) = "json" /\ ~Parses THEN Throws
                                                 ELSE Done([by |-> Reader(Head(plan)), got |-> chunks])
    /\ UNCHANGED <<type, body, stream, chunks, fields, writing>>

\* A part: a file is noted and piped to disk; a field is decoded, and
\* skipped if it is no JSON.
Part ==
    /\ reading = "parts" /\ stream # <<>>
    /\ LET p == Head(stream) IN
       /\ fields' = IF p.file \/ p.json THEN Inject(p.path, p.value, fields) ELSE fields
       /\ writing' = IF p.file THEN writing \cup {p} ELSE writing
    /\ stream' = Tail(stream)
    /\ UNCHANGED <<type, body, plan, reading, chunks, state, outcome>>

FileCloses(p) ==
    /\ p \in writing
    /\ writing' = writing \ {p}
    /\ UNCHANGED <<type, body, stream, plan, reading, chunks, fields, state, outcome>>

\* The parser has closed, and so has every file.
PartsEnd ==
    /\ reading = "parts" /\ stream = <<>> /\ writing = {}
    /\ Done([by |-> "multipart", got |-> fields])
    /\ UNCHANGED <<type, body, stream, chunks, fields, writing>>

Init ==
    /\ body \in Bodies
    /\ type \in {t \in Types : t = "multipart" <=> "path" \in DOMAIN body[1]}
    /\ plan \in Plans
    /\ stream = body /\ reading = "none"
    /\ chunks = <<>> /\ fields = Nothing /\ writing = {}
    /\ state = <<>> /\ outcome = "pending"

Next == Begin \/ Chunk \/ BufferEnds \/ Part \/ PartsEnd \/ \E p \in writing : FileCloses(p)

------------------------------------------------------------------------------
\* The names of a form come in order: where two differ first, the later has another
\* property, an empty index, or a higher index than the earlier.
InOrder(parts) ==
    \A i, j \in DOMAIN parts : i < j =>
        \E d \in DOMAIN parts[i].path \cap DOMAIN parts[j].path :
            LET a == parts[i].path[d]
                b == parts[j].path[d]
            IN  /\ SubSeq(parts[i].path, 1, d - 1) = SubSeq(parts[j].path, 1, d - 1)
                /\ CASE b[1] = "key" -> a # b
                     [] b[2] = -1 -> TRUE
                     [] OTHER -> IsPlace(a) /\ a[2] < b[2]

\* What a resolver made of a body is made of all of it: of every chunk, unless
\* another resolver has read the body before and there is none, or of every
\* field of a form whose names come in order, and by then its files are written.
BodyIsWhole ==
    \A i \in DOMAIN state : LET s == state[i] IN
        /\ s.by \in {"json", "text", "form"} => s.got \in {body, <<>>}
        /\ s.by = "json" => s.got = body
        /\ s.by = "multipart" /\ InOrder(body) =>
            Leaves(s.got) = {p.value : p \in {q \in ToSet(body) : q.file \/ q.json}}
        /\ s.by = "multipart" => writing = {}
================================================================================
