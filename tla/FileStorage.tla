------------------------------- MODULE FileStorage -----------------------------
(***************************************************************************)
(* The file storage of @bunt/fs: FileStorage and its list of buckets,      *)
(* FsBucket, and the driver for MinIO, over a store that other callers and *)
(* processes use as well.                                                  *)
(*                                                                         *)
(* The object store and the servers that files are fetched from are        *)
(* external, known by what the driver calls.  What an object holds is the  *)
(* call that wrote it, and its ETag counts what has been written.          *)
(***************************************************************************)
EXTENDS Naturals, Sequences, FiniteSets

CONSTANTS
    Callers,
    Regions,        \* regions that buckets are asked for in
    Default,        \* DEFAULT_REGION
    None,           \* no region is asked for
    NoBucket,       \* listed: the bucket has no FsBucket; region: the store has no such bucket
    NoObject,
    MaxWrites       \* bound on what is written

StorageAssumption == NoBucket \notin Regions \cup {Default, None}

\* One bucket and one name in it stand for all: calls on others do not meet.
VARIABLES
    listed,     \* the region of the FsBucket in the list's Map
    region,     \* the region of the bucket in the store
    object,     \* the object there: [etag, by, from], the call and what it had to write
    written,    \* how many objects have been written
    calls       \* caller -> the call that it waits for: where it stands, the ETag of what
                \* it wrote itself and of what it resolves with

vars == <<listed, region, object, written, calls>>

Idle == [op |-> "none", at |-> "idle", own |-> 0, etag |-> 0, from |-> "none"]
At(c, op, at) == calls[c].op = op /\ calls[c].at = at
Goes(c, at) == calls' = [calls EXCEPT ![c].at = at]
Begins(c, op, at, from) ==
    /\ calls[c].at \in {"idle", "resolved", "rejected", "failed"}
    /\ calls' = [calls EXCEPT ![c] = [op |-> op, at |-> at, own |-> 0, etag |-> 0, from |-> from]]

------------------------------------------------------------------------------
\* getBucket(): the bucket of that name, if there is one, whatever its region.
Ensure(r) ==
    /\ listed = NoBucket
    /\ listed' = r
    /\ UNCHANGED <<region, object, written, calls>>

\* save(): createBucket() with checkExists.
Save(c) ==
    /\ listed # NoBucket
    /\ Begins(c, "save", "exists?", "none")
    /\ UNCHANGED <<listed, region, object, written>>

Exists(c) ==
    /\ At(c, "save", "exists?")
    /\ Goes(c, IF region # NoBucket THEN "resolved" ELSE "make")
    /\ UNCHANGED <<listed, region, object, written>>

\* The store refuses to make a bucket that is there: two calls may both have seen none.
Make(c) ==
    /\ At(c, "save", "make")
    /\ IF region = NoBucket
       THEN /\ region' = IF listed = None THEN Default ELSE listed
            /\ Goes(c, "resolved")
       ELSE Goes(c, "rejected") /\ UNCHANGED region
    /\ UNCHANGED <<listed, object, written>>

------------------------------------------------------------------------------
\* #put(): a Buffer, a stream or a file goes to the store; a URL is fetched first.
Put(c) ==
    /\ \/ Begins(c, "put", "put", "source")
       \/ Begins(c, "put", "fetch", "none")
    /\ UNCHANGED <<listed, region, object, written>>

\* response.ok, the status 200, and a body
Accepted(answer) == answer = "ok"

Fetch(c) ==
    /\ At(c, "put", "fetch")
    /\ \E answer \in {"ok", "partial", "error"} :
           calls' = [calls EXCEPT ![c].at = IF Accepted(answer) THEN "put" ELSE "rejected",
                                  ![c].from = answer]
    /\ UNCHANGED <<listed, region, object, written>>

\* write() puts what it is given.  writeRemoteURL() writes whatever the server answers.
WriteFile(c) ==
    /\ \/ Begins(c, "write", "put", "source")
       \/ \E answer \in {"ok", "partial", "error"} : Begins(c, "write", "put", answer)
    /\ UNCHANGED <<listed, region, object, written>>

Stored(c) == [etag |-> written + 1, by |-> calls[c].op, from |-> calls[c].from]

\* Mutant: the object is asked for beside the put.
PutBeside(c) ==
    /\ calls[c].at = "put"
    /\ IF region = NoBucket
       THEN Goes(c, "rejected") /\ UNCHANGED <<object, written>>
       ELSE /\ written < MaxWrites
            /\ written' = written + 1
            /\ object' = Stored(c)
            /\ calls' = [calls EXCEPT ![c].at = "resolved", ![c].own = written + 1,
                                      ![c].etag = IF object = NoObject THEN 0 ELSE object.etag]
    /\ UNCHANGED <<listed, region>>

\* putObject() and fPutObject().  write() resolves with the ETag it gets; put() drops it
\* and asks for the object.
PutObject(c) ==
    /\ calls[c].at = "put"
    /\ IF region = NoBucket
       THEN Goes(c, "rejected") /\ UNCHANGED <<object, written>>
       ELSE /\ written < MaxWrites
            /\ written' = written + 1
            /\ object' = Stored(c)
            /\ calls' = [calls EXCEPT ![c].at = IF calls[c].op = "put" THEN "stat" ELSE "resolved",
                                      ![c].own = written + 1, ![c].etag = written + 1]
    /\ UNCHANGED <<listed, region>>

\* statObject(): the object that is there now.
Stat(c) ==
    /\ At(c, "put", "stat")
    /\ IF object = NoObject THEN Goes(c, "rejected")
       ELSE calls' = [calls EXCEPT ![c].at = "resolved", ![c].etag = object.etag]
    /\ UNCHANGED <<listed, region, object, written>>

Remove(c) ==
    /\ Begins(c, "remove", "remove", "none")
    /\ UNCHANGED <<listed, region, object, written>>

Removed(c) ==
    /\ At(c, "remove", "remove")
    /\ object' = NoObject
    /\ Goes(c, IF region = NoBucket THEN "rejected" ELSE "resolved")
    /\ UNCHANGED <<listed, region, written>>

\* A call to the store, or to the server of a URL, that gets no answer: the driver tries
\* nothing again and rejects, whether or not the call had its effect.
Unanswered(c) ==
    /\ calls[c].at \in {"exists?", "make", "fetch", "put", "stat", "remove"}
    /\ Goes(c, "failed")
    /\ \/ UNCHANGED <<region, object, written>>
       \/ /\ calls[c].at = "make" /\ region = NoBucket
          /\ region' = IF listed = None THEN Default ELSE listed
          /\ UNCHANGED <<object, written>>
       \/ /\ calls[c].at = "put" /\ region # NoBucket /\ written < MaxWrites
          /\ written' = written + 1
          /\ object' = Stored(c)
          /\ UNCHANGED region
       \/ /\ calls[c].at = "remove"
          /\ object' = NoObject
          /\ UNCHANGED <<region, written>>
    /\ UNCHANGED listed

Init ==
    /\ listed = NoBucket /\ region = NoBucket /\ object = NoObject /\ written = 0
    /\ calls = [c \in Callers |-> Idle]

Next ==
    \/ \E r \in Regions \cup {None} : Ensure(r)
    \/ \E c \in Callers :
           \/ Save(c) \/ Exists(c) \/ Make(c)
           \/ Put(c) \/ Fetch(c) \/ PutObject(c) \/ Stat(c)
           \/ WriteFile(c) \/ Remove(c) \/ Removed(c) \/ Unanswered(c)

Spec == Init /\ [][Next]_vars

------------------------------------------------------------------------------
\* put() writes and then asks, and others write in between: what it resolves with is its
\* own object or a later one, never one that it has replaced.
StatIsNotOlder ==
    \A c \in Callers : calls[c].op = "put" /\ calls[c].at = "resolved" =>
        calls[c].own > 0 /\ calls[c].etag >= calls[c].own

\* Whatever a server answers, put() never stores the body of an answer that is not 200.
OnlyFilesArePut ==
    object # NoObject /\ object.by = "put" => object.from \in {"source", "ok"}

\* When save() is done, by itself or because another call made the bucket between its
\* question and its answer, the bucket exists, even where the store refuses to make it.
SavedExists ==
    \A c \in Callers : calls[c].op = "save" /\ calls[c].at \in {"resolved", "rejected"} =>
        region # NoBucket
================================================================================
