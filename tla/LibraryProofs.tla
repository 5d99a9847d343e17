----------------------------- MODULE LibraryProofs -----------------------------
(***************************************************************************)
(* Theorems about the parts of Library, for any callers, regions,          *)
(* transports, units, headers and consumers, and any bounds.               *)
(***************************************************************************)
EXTENDS Library, FiniteSetTheorems, SequenceTheorems, WellFoundedInduction, TLAPS

------------------------------------------------------------------------------
(***************************************************************************)
(* The file storage: ETags count what is written, so that a call which has *)
(* written knows a number that no later object falls below.                *)
(***************************************************************************)

FileCalls ==
    [op : {"none", "save", "put", "write", "remove"},
     at : {"idle", "exists?", "make", "fetch", "put", "stat", "remove",
           "resolved", "rejected", "failed"},
     own : Nat, etag : Nat, from : {"none", "source", "ok", "partial", "error"}]

FileTypes ==
    /\ written \in Nat
    /\ listed \in Regions \cup {None, NoBucket}
    /\ calls \in [FileCallers -> FileCalls]

\* Buckets are made by those who save one, and one is listed by then.
SavesAreListed ==
    \A c \in FileCallers :
        /\ calls[c].at \in {"exists?", "make"} => calls[c].op = "save"
        /\ calls[c].op = "save" => listed # NoBucket /\ calls[c].at # "put"

\* The object is the last one written; what put() wrote and waits for, or has got, is
\* not younger, and what it is about to write is what a server has answered in full.
LastIsStored == object # NoObject => object.etag = written
OwnIsOlder ==
    \A c \in FileCallers :
        /\ calls[c].own <= written
        /\ calls[c].op = "put" /\ calls[c].at \in {"stat", "resolved"} => calls[c].own > 0
        /\ calls[c].op = "put" /\ calls[c].at = "put" => calls[c].from \in {"source", "ok"}

FilesInv ==
    /\ FileTypes /\ SavesAreListed /\ LastIsStored /\ OwnIsOlder
    /\ Fs!StatIsNotOlder /\ Fs!OnlyFilesArePut /\ Fs!SavedExists

\* The storage begins with nothing stored and nobody calling it.
LEMMA FilesBegin == Fs!Init => FilesInv
BY LibraryAssumption
DEF Fs!Init, FilesInv, FileTypes, FileCalls, SavesAreListed, LastIsStored, OwnIsOlder, Fs!Idle,
    Fs!StatIsNotOlder, Fs!OnlyFilesArePut, Fs!SavedExists

\* Every step of the storage, of the store and of the servers keeps what FilesInv says.
LEMMA FilesGoOn == FilesInv /\ [Fs!Next]_(Fs!vars) => FilesInv'
<1> SUFFICES ASSUME FilesInv, [Fs!Next]_(Fs!vars) PROVE FilesInv'
  OBVIOUS
<1> USE LibraryAssumption
    DEF FilesInv, FileTypes, FileCalls, SavesAreListed, LastIsStored, OwnIsOlder,
        Fs!StatIsNotOlder, Fs!OnlyFilesArePut, Fs!SavedExists, Fs!At, Fs!Goes, Fs!Begins,
        Fs!StorageAssumption
<1>1. CASE \E r \in Regions \cup {None} : Fs!Ensure(r)
  BY <1>1 DEF Fs!Ensure
<1>2. CASE \E c \in FileCallers : Fs!Save(c)
  BY <1>2 DEF Fs!Save
<1>3. CASE \E c \in FileCallers : Fs!Exists(c)
  BY <1>3 DEF Fs!Exists
<1>4. CASE \E c \in FileCallers : Fs!Make(c)
  BY <1>4 DEF Fs!Make
<1>5. CASE \E c \in FileCallers : Fs!Put(c)
  BY <1>5 DEF Fs!Put
<1>6. CASE \E c \in FileCallers : Fs!Fetch(c)
  <2>1. PICK c \in FileCallers : Fs!Fetch(c)
    BY <1>6
  <2>2. PICK reply \in {"ok", "partial", "error"} :
            calls' = [calls EXCEPT ![c].at = IF Fs!Accepted(reply) THEN "put" ELSE "rejected",
                                   ![c].from = reply]
    BY <2>1 DEF Fs!Fetch
  <2> DEFINE next == [calls[c] EXCEPT !.at = IF reply = "ok" THEN "put" ELSE "rejected",
                                      !.from = reply]
  <2>3. calls[c] \in FileCalls /\ calls[c].op = "put" /\ UNCHANGED <<listed, region, object, written>>
    BY <2>1 DEF Fs!Fetch
  <2>4. calls' = [calls EXCEPT ![c] = next]
    BY <2>2 DEF Fs!Accepted
  <2>5. /\ next \in FileCalls /\ next.at \in {"put", "rejected"} /\ next.op = "put"
        /\ next.at = "put" => next.from \in {"source", "ok"}
        /\ next.own = calls[c].own
    BY <2>3
  <2>6. /\ calls \in [FileCallers -> FileCalls] /\ written \in Nat
        /\ listed \in Regions \cup {None, NoBucket}
        /\ SavesAreListed /\ LastIsStored /\ OwnIsOlder
        /\ Fs!StatIsNotOlder /\ Fs!OnlyFilesArePut /\ Fs!SavedExists
    OBVIOUS
  <2> HIDE DEF next, FileCalls, FilesInv
  <2>7. /\ calls' \in [FileCallers -> FileCalls] /\ calls'[c] = next
        /\ \A d \in FileCallers : d # c => calls'[d] = calls[d]
    <3>1. calls \in [FileCallers -> FileCalls] /\ next \in FileCalls
      BY <2>5, <2>6
    <3> QED
      BY <2>4, <3>1
  <2>8. FileTypes'
    BY <2>3, <2>6, <2>7
  <2>9. LastIsStored' /\ Fs!OnlyFilesArePut'
    BY <2>3, <2>6
  <2>10. SavesAreListed'
    BY <2>3, <2>5, <2>6, <2>7
  <2>11. Fs!SavedExists'
    BY <2>3, <2>5, <2>6, <2>7
  <2>12. OwnIsOlder'
    <3>1. \A d \in FileCallers : calls'[d].own = calls[d].own
      BY <2>5, <2>7
    <3> QED
      BY <2>3, <2>5, <2>6, <2>7, <3>1
  <2>13. Fs!StatIsNotOlder'
    BY <2>3, <2>5, <2>6, <2>7
  <2> HIDE DEF FileTypes, SavesAreListed, LastIsStored, OwnIsOlder,
               Fs!StatIsNotOlder, Fs!OnlyFilesArePut, Fs!SavedExists
  <2> QED
    BY <2>8, <2>9, <2>10, <2>11, <2>12, <2>13 DEF FilesInv
<1>7. CASE \E c \in FileCallers : Fs!PutObject(c)
  BY <1>7 DEF Fs!PutObject, Fs!Stored
<1>8. CASE \E c \in FileCallers : Fs!Stat(c)
  BY <1>8 DEF Fs!Stat
<1>9. CASE \E c \in FileCallers : Fs!WriteFile(c)
  BY <1>9 DEF Fs!WriteFile
<1>10. CASE \E c \in FileCallers : Fs!Remove(c) \/ Fs!Removed(c)
  BY <1>10 DEF Fs!Remove, Fs!Removed
<1>11. CASE \E c \in FileCallers : Fs!Unanswered(c)
  BY <1>11 DEF Fs!Unanswered, Fs!Stored
<1>12. CASE UNCHANGED Fs!vars
  BY <1>12 DEF Fs!vars
<1> QED
  BY <1>1, <1>2, <1>3, <1>4, <1>5, <1>6, <1>7, <1>8, <1>9, <1>10, <1>11, <1>12 DEF Fs!Next

\* What put() resolves with is its own object or a later one, it stores no body of an
\* answer that is not 200, and where save() is done there is a bucket: for any number of
\* callers, of writes and of calls that get no answer.
THEOREM FilesStayStored == Fs!Spec => []FilesAreStored
<1>1. Fs!Spec => []FilesInv
  BY FilesBegin, FilesGoOn, PTL DEF Fs!Spec
<1>2. FilesInv => FilesAreStored
  BY DEF FilesInv, FilesAreStored
<1> QED
  BY <1>1, <1>2, PTL
------------------------------------------------------------------------------
(***************************************************************************)
(* The logger: a write that was begun before a dispose() is among what     *)
(* that dispose() waits for, because Logger.writing forgets a write only   *)
(* when it has settled.                                                    *)
(***************************************************************************)

Writes == [log : Nat, to : Nat]

Disposals ==
    [stage : {"idle", "waits", "resolved", "rejected"}, since : Nat,
     writes : SUBSET Writes, closes : SUBSET Nat]

LogTypes ==
    /\ attached \in Seq(Transports) /\ logged \in Seq(Severities)
    /\ transports \in Seq(Nat) /\ Log!ToSet(transports) \subseteq DOMAIN attached
    /\ called \subseteq DOMAIN attached /\ closing \subseteq called
    /\ writes \subseteq Writes
    /\ disposer \in [Disposers -> Disposals]

\* The set of writes holds those that have not settled, all of them.
AllAreNoted == writing = writes

\* Of the writes that a waiting dispose() does not know, each was begun after its call.
LaterAreUnknown ==
    \A d \in Disposers : disposer[d].stage = "waits" =>
        /\ disposer[d].since <= Len(logged)
        /\ \A w \in writes : w \in disposer[d].writes \/ w.log > disposer[d].since

LogInv == LogTypes /\ AllAreNoted /\ LaterAreUnknown /\ Log!WritersAreOpen

\* The first places of a sequence are some of them.
LEMMA FirstPlaces ==
    ASSUME NEW s \in Seq(Nat), NEW n \in 0 .. Len(s)
    PROVE  /\ Log!ToSet(SubSeq(s, 1, n)) \subseteq Log!ToSet(s)
           /\ n = Len(s) => Log!ToSet(SubSeq(s, 1, n)) = Log!ToSet(s)
<1>1. /\ Len(SubSeq(s, 1, n)) = n /\ DOMAIN SubSeq(s, 1, n) = 1 .. n
      /\ \A i \in 1 .. n : SubSeq(s, 1, n)[i] = s[i]
  OBVIOUS
<1>2. DOMAIN s = 1 .. Len(s) /\ 1 .. n \subseteq 1 .. Len(s)
  OBVIOUS
<1> QED
  BY <1>1, <1>2 DEF Log!ToSet

\* Of two sequences one behind the other, the places of each are among the places of both.
LEMMA JoinedPlaces ==
    ASSUME NEW s \in Seq(Nat), NEW t \in Seq(Nat)
    PROVE  Log!ToSet(s \o t) = Log!ToSet(s) \cup Log!ToSet(t)
<1>1. /\ DOMAIN s = 1 .. Len(s) /\ DOMAIN t = 1 .. Len(t) /\ DOMAIN (s \o t) = 1 .. Len(s) + Len(t)
      /\ Len(s) \in Nat /\ Len(t) \in Nat
      /\ \A i \in 1 .. Len(s) : (s \o t)[i] = s[i]
      /\ \A i \in 1 .. Len(t) : (s \o t)[Len(s) + i] = t[i]
  OBVIOUS
<1>2. ASSUME NEW i \in 1 .. Len(s) + Len(t) PROVE (s \o t)[i] \in Log!ToSet(s) \cup Log!ToSet(t)
  <2>1. CASE i \in 1 .. Len(s)
    BY <1>1, <2>1 DEF Log!ToSet
  <2>2. CASE i \notin 1 .. Len(s)
    <3> DEFINE j == i - Len(s)
    <3>1. j \in 1 .. Len(t) /\ i = Len(s) + j
      BY <1>1, <2>2
    <3> HIDE DEF j
    <3>2. (s \o t)[i] = t[j] /\ t[j] \in Log!ToSet(t)
      BY <1>1, <3>1 DEF Log!ToSet
    <3> QED
      BY <3>2
  <2> QED
    BY <2>1, <2>2
<1>3. Log!ToSet(s) \subseteq Log!ToSet(s \o t)
  <2> SUFFICES ASSUME NEW i \in 1 .. Len(s) PROVE s[i] \in Log!ToSet(s \o t)
    BY <1>1 DEF Log!ToSet
  <2>1. i \in DOMAIN (s \o t) /\ (s \o t)[i] = s[i]
    BY <1>1
  <2> QED
    BY <2>1 DEF Log!ToSet
<1>4. Log!ToSet(t) \subseteq Log!ToSet(s \o t)
  <2> SUFFICES ASSUME NEW i \in 1 .. Len(t) PROVE t[i] \in Log!ToSet(s \o t)
    BY <1>1 DEF Log!ToSet
  <2>1. Len(s) + i \in DOMAIN (s \o t) /\ (s \o t)[Len(s) + i] = t[i]
    BY <1>1
  <2> QED
    BY <2>1 DEF Log!ToSet
<1>5. Log!ToSet(s \o t) = {(s \o t)[i] : i \in 1 .. Len(s) + Len(t)}
  BY <1>1 DEF Log!ToSet
<1> QED
  BY <1>2, <1>3, <1>4, <1>5

\* What is attached has places of its own, behind those there were.
LEMMA AddedPlaces ==
    ASSUME LogTypes, NEW ts \in Seq(Transports)
    PROVE  /\ Log!Added(ts) \in Seq(Nat)
           /\ attached \o ts \in Seq(Transports)
           /\ DOMAIN attached \subseteq DOMAIN (attached \o ts)
           /\ Log!ToSet(Log!Added(ts)) \subseteq DOMAIN (attached \o ts)
           /\ Log!ToSet(Log!Added(ts)) \cap DOMAIN attached = {}
<1> DEFINE a == Log!Added(ts)
<1>1. /\ attached \in Seq(Transports) /\ Len(attached) \in Nat /\ Len(ts) \in Nat
      /\ DOMAIN attached = 1 .. Len(attached) /\ DOMAIN ts = 1 .. Len(ts)
      /\ DOMAIN (attached \o ts) = 1 .. Len(attached) + Len(ts)
  BY DEF LogTypes
<1>2. a = [i \in 1 .. Len(ts) |-> Len(attached) + i]
  BY <1>1 DEF Log!Added
<1>3. a \in Seq(Nat)
  BY <1>1, <1>2
<1>4. Log!ToSet(a) = {Len(attached) + i : i \in 1 .. Len(ts)}
  BY <1>2 DEF Log!ToSet
<1> HIDE DEF a
<1>5. Log!ToSet(a) \subseteq 1 .. Len(attached) + Len(ts) /\ Log!ToSet(a) \cap (1 .. Len(attached)) = {}
  BY <1>1, <1>4
<1>6. attached \o ts \in Seq(Transports)
  BY <1>1
<1>7. DOMAIN attached \subseteq DOMAIN (attached \o ts)
  BY <1>1
<1> QED
  BY <1>1, <1>3, <1>5, <1>6, <1>7 DEF a

\* The logger begins with no transport, no write and nobody who disposes of it.
LEMMA LogBegins == Log!Init => LogInv
<1> SUFFICES ASSUME Log!Init PROVE LogInv
  OBVIOUS
<1>1. Log!ToSet(<<>>) = {}
  BY DEF Log!ToSet
<1> QED
  BY <1>1 DEF Log!Init, LogInv, LogTypes, Disposals, Writes, AllAreNoted, LaterAreUnknown,
              Log!WritersAreOpen, Log!Idle

\* What closes transports closes attached ones.
LEMMA ClosesAttached ==
    ASSUME LogTypes, NEW n \in 0 .. Len(transports), NEW k \in 0 .. n, Log!Closes(n, k)
    PROVE  called' \subseteq DOMAIN attached /\ closing' \subseteq called'
<1>1. k \in 0 .. Len(transports) /\ transports \in Seq(Nat)
  BY DEF LogTypes
<1>2. /\ Log!FirstOf(n) \subseteq Log!ToSet(transports)
      /\ Log!FirstOf(k) \subseteq Log!FirstOf(n)
  <2>1. /\ DOMAIN SubSeq(transports, 1, n) = 1 .. n /\ DOMAIN SubSeq(transports, 1, k) = 1 .. k
        /\ \A i \in 1 .. n : SubSeq(transports, 1, n)[i] = transports[i]
        /\ \A i \in 1 .. k : SubSeq(transports, 1, k)[i] = transports[i]
    BY <1>1
  <2>2. 1 .. k \subseteq 1 .. n
    OBVIOUS
  <2>3. Log!FirstOf(k) \subseteq Log!FirstOf(n)
    BY <2>1, <2>2 DEF Log!FirstOf, Log!ToSet
  <2> QED
    BY <1>1, <2>3, FirstPlaces DEF Log!FirstOf
<1> QED
  BY <1>2 DEF Log!Closes, LogTypes

\* Where the lists have been emptied, there is no writer to be closed.
LEMMA EmptiedIsOpen ==
    ASSUME Log!Emptied
    PROVE  transports' \in Seq(Nat) /\ Log!ToSet(transports)' = {} /\ Log!WritersAreOpen'
<1>1. Log!ToSet(<<>>) = {} /\ transports' = <<>> /\ writers' = <<>>
  BY DEF Log!Emptied, Log!ToSet
<1>2. Log!ToSet(transports)' = {} /\ Log!ToSet(writers)' = {}
  BY <1>1 DEF Log!ToSet
<1> QED
  BY <1>1, <1>2 DEF Log!WritersAreOpen

\* Every step of the logger and of its transports keeps what LogInv says.
LEMMA LogGoesOn == LogInv /\ [Log!Next]_(Log!vars) => LogInv'
<1> SUFFICES ASSUME LogInv, [Log!Next]_(Log!vars) PROVE LogInv'
  OBVIOUS
<1>0. /\ LogTypes /\ AllAreNoted /\ LaterAreUnknown
      /\ writers = transports /\ Log!ToSet(writers) \cap called = {}
  BY DEF LogInv, Log!WritersAreOpen
<1>1. ASSUME NEW t \in Transports, Log!Add(t) PROVE LogInv'
  <2> DEFINE ts == <<t>>  a == Log!Added(ts)
  <2>1. /\ attached' = attached \o ts /\ transports' = transports \o a /\ writers' = writers \o a
        /\ UNCHANGED <<severity, called, closing, writes, writing, logged, disposer>>
    <3>1. Append(attached, t) = attached \o <<t>>
      BY <1>0 DEF LogTypes
    <3> QED
      BY <1>1, <3>1 DEF Log!Add
  <2>2. ts \in Seq(Transports)
    OBVIOUS
  <2> HIDE DEF ts
  <2>3. /\ a \in Seq(Nat) /\ attached \o ts \in Seq(Transports)
        /\ DOMAIN attached \subseteq DOMAIN (attached \o ts)
        /\ Log!ToSet(a) \subseteq DOMAIN (attached \o ts) /\ Log!ToSet(a) \cap DOMAIN attached = {}
    BY <1>0, <2>2, AddedPlaces
  <2> HIDE DEF a
  <2>4. transports \o a \in Seq(Nat) /\ Log!ToSet(transports \o a) = Log!ToSet(transports) \cup Log!ToSet(a)
    BY <1>0, <2>3, JoinedPlaces DEF LogTypes
  <2>5. Log!ToSet(transports)' = Log!ToSet(transports \o a) /\ writers' = transports'
        /\ Log!ToSet(writers)' = Log!ToSet(transports \o a)
    BY <1>0, <2>1 DEF Log!ToSet
  <2>6. LogTypes'
    BY <1>0, <2>1, <2>3, <2>4, <2>5 DEF LogTypes
  <2>7. Log!WritersAreOpen'
    BY <1>0, <2>1, <2>3, <2>4, <2>5 DEF Log!WritersAreOpen, LogTypes
  <2>8. AllAreNoted' /\ LaterAreUnknown'
    BY <1>0, <2>1 DEF AllAreNoted, LaterAreUnknown
  <2> QED
    BY <2>6, <2>7, <2>8 DEF LogInv
<1>2. ASSUME NEW ts \in Log!Given, Log!SetTo(ts) PROVE LogInv'
  <2> DEFINE a == Log!Added(ts)
  <2>1. /\ attached' = attached \o ts /\ transports' = a /\ writers' = a
        /\ Log!Closes(Len(transports), Len(transports))
        /\ UNCHANGED <<severity, writes, writing, logged, disposer>>
    BY <1>2 DEF Log!SetTo
  <2>2. ts \in Seq(Transports)
    <3>1. CASE ts = <<>>
      BY <3>1
    <3>2. ASSUME NEW t \in Transports, ts = <<t>> PROVE ts \in Seq(Transports)
      <4>1. <<t>> \in Seq(Transports)
        OBVIOUS
      <4> QED
        BY <3>2, <4>1
    <3>3. ASSUME NEW t \in Transports, NEW u \in Transports, ts = <<t, u>>
          PROVE  ts \in Seq(Transports)
      <4>1. <<t, u>> \in Seq(Transports)
        OBVIOUS
      <4> QED
        BY <3>3, <4>1
    <3> QED
      BY <3>1, <3>2, <3>3 DEF Log!Given
  <2>3. /\ a \in Seq(Nat) /\ attached \o ts \in Seq(Transports)
        /\ DOMAIN attached \subseteq DOMAIN (attached \o ts)
        /\ Log!ToSet(a) \subseteq DOMAIN (attached \o ts) /\ Log!ToSet(a) \cap DOMAIN attached = {}
    BY <1>0, <2>2, AddedPlaces
  <2> HIDE DEF a
  <2>4. called' \subseteq DOMAIN attached /\ closing' \subseteq called'
    <3>1. Len(transports) \in 0 .. Len(transports)
      BY <1>0 DEF LogTypes
    <3> QED
      BY <1>0, <2>1, <3>1, ClosesAttached
  <2>5. Log!ToSet(transports)' = Log!ToSet(a) /\ Log!ToSet(writers)' = Log!ToSet(a)
    BY <2>1 DEF Log!ToSet
  <2>6. LogTypes'
    BY <1>0, <2>1, <2>3, <2>4, <2>5 DEF LogTypes
  <2>7. Log!WritersAreOpen'
    BY <2>1, <2>3, <2>4, <2>5 DEF Log!WritersAreOpen
  <2>8. AllAreNoted' /\ LaterAreUnknown'
    BY <1>0, <2>1 DEF AllAreNoted, LaterAreUnknown
  <2> QED
    BY <2>6, <2>7, <2>8 DEF LogInv
<1>3. ASSUME NEW k \in closing, Log!CloseSettles(k) PROVE LogInv'
  <2>1. closing' \subseteq closing
        /\ UNCHANGED <<severity, attached, transports, writers, called, writes, writing, logged, disposer>>
    BY <1>3 DEF Log!CloseSettles
  <2> QED
    BY <1>0, <2>1 DEF LogInv, LogTypes, AllAreNoted, LaterAreUnknown, Log!WritersAreOpen, Log!ToSet
<1>4. ASSUME NEW s \in Severities, Log!SetSeverity(s) PROVE LogInv'
  <2>1. UNCHANGED <<attached, transports, writers, called, closing, writes, writing, logged, disposer>>
    BY <1>4 DEF Log!SetSeverity
  <2> QED
    BY <1>0, <2>1 DEF LogInv, LogTypes, AllAreNoted, LaterAreUnknown, Log!WritersAreOpen, Log!ToSet
<1>5. ASSUME NEW s \in Severities, Log!Log(s) PROVE LogInv'
  <2>0. PICK took \in SUBSET {k \in Log!ToSet(writers) : s <= severity /\ s \in Accepts[attached[k]]} :
          /\ writes' = writes \cup {Log!Write(Len(logged) + 1, k) : k \in took}
          /\ writing' = writing \cup {Log!Write(Len(logged) + 1, k) : k \in took}
    BY <1>5 DEF Log!Log, Log!Noted
  <2> DEFINE begun == {Log!Write(Len(logged) + 1, k) : k \in took}
  <2>1. took \subseteq Nat
    <3>1. Log!ToSet(transports) \subseteq Nat
      BY <1>0 DEF LogTypes, Log!ToSet
    <3> QED
      BY <1>0, <3>1
  <2>2. /\ UNCHANGED <<attached, transports, writers, called, closing, disposer>>
        /\ logged' = Append(logged, s)
    BY <1>5 DEF Log!Log
  <2>3. logged' \in Seq(Severities) /\ Len(logged') = Len(logged) + 1 /\ Len(logged) \in Nat
    BY <1>0, <2>2 DEF LogTypes
  <2>4. begun \subseteq Writes /\ \A w \in begun : w.log = Len(logged) + 1
    BY <2>1, <2>3 DEF Log!Write, Writes
  <2>5. writes' = writes \cup begun /\ writing' = writing \cup begun
    BY <2>0
  <2> HIDE DEF begun
  <2>6. LogTypes'
    BY <1>0, <2>2, <2>3, <2>4, <2>5 DEF LogTypes, Log!ToSet
  <2>7. Log!WritersAreOpen' /\ AllAreNoted'
    BY <1>0, <2>2, <2>5 DEF Log!WritersAreOpen, Log!ToSet, AllAreNoted
  <2>8. LaterAreUnknown'
    <3>1. \A d \in Disposers : disposer[d].since \in Nat
      BY <1>0 DEF LogTypes, Disposals
    <3> QED
      BY <1>0, <2>2, <2>3, <2>4, <2>5, <3>1 DEF LaterAreUnknown
  <2> QED
    BY <2>6, <2>7, <2>8 DEF LogInv
<1>6. ASSUME Log!SetThrows PROVE LogInv'
  <2>1. PICK n \in DOMAIN transports : Log!Closes(n, n - 1)
    BY <1>6 DEF Log!SetThrows
  <2>2. Log!Emptied /\ UNCHANGED <<severity, attached, writes, writing, logged, disposer>>
    BY <1>6 DEF Log!SetThrows
  <2>3. n \in 0 .. Len(transports) /\ n - 1 \in 0 .. n
    BY <1>0 DEF LogTypes
  <2>4. called' \subseteq DOMAIN attached /\ closing' \subseteq called'
    BY <1>0, <2>1, <2>3, ClosesAttached
  <2>5. transports' \in Seq(Nat) /\ Log!ToSet(transports)' = {} /\ Log!WritersAreOpen'
    BY <2>2, EmptiedIsOpen
  <2>6. LogTypes'
    BY <1>0, <2>2, <2>4, <2>5 DEF LogTypes
  <2>7. AllAreNoted' /\ LaterAreUnknown'
    BY <1>0, <2>2 DEF AllAreNoted, LaterAreUnknown
  <2> QED
    BY <2>5, <2>6, <2>7 DEF LogInv
<1>7. ASSUME NEW w \in writes, Log!WriteSettles(w) PROVE LogInv'
  <2>1. writes' = writes \ {w} /\ writing' = writing \ {w}
        /\ UNCHANGED <<severity, attached, transports, writers, called, closing, logged, disposer>>
    BY <1>7 DEF Log!WriteSettles
  <2> QED
    BY <1>0, <2>1 DEF LogInv, LogTypes, AllAreNoted, LaterAreUnknown, Log!WritersAreOpen, Log!ToSet
<1>8. ASSUME NEW d \in Disposers, Log!Dispose(d) PROVE LogInv'
  <2> DEFINE asked0 == Log!ResetOf(Log!ToSet(transports))
  <2>1. /\ Log!Emptied /\ Log!Closes(Len(transports), Len(transports))
        /\ disposer' = [disposer EXCEPT ![d] = asked0]
        /\ UNCHANGED <<severity, attached, writes, writing, logged>>
    BY <1>8 DEF Log!Dispose
  <2>2. Len(transports) \in 0 .. Len(transports) /\ Log!ToSet(transports) \subseteq Nat
    BY <1>0 DEF LogTypes, Log!ToSet
  <2>3. /\ asked0 \in Disposals /\ asked0.since = Len(logged)
        /\ \A w \in writes : w \in asked0.writes
    BY <1>0, <2>2 DEF Log!ResetOf, Disposals, LogTypes, AllAreNoted
  <2> HIDE DEF asked0
  <2>4. called' \subseteq DOMAIN attached /\ closing' \subseteq called'
    BY <1>0, <2>1, <2>2, ClosesAttached
  <2>5. transports' \in Seq(Nat) /\ Log!ToSet(transports)' = {} /\ Log!WritersAreOpen'
    BY <2>1, EmptiedIsOpen
  <2>6. LogTypes' /\ AllAreNoted'
    BY <1>0, <2>1, <2>3, <2>4, <2>5 DEF LogTypes, AllAreNoted
  <2>7. LaterAreUnknown'
    <3>1. Len(logged) <= Len(logged) /\ disposer \in [Disposers -> Disposals]
      BY <1>0 DEF LogTypes
    <3> QED
      BY <1>0, <2>1, <2>3, <3>1 DEF LaterAreUnknown
  <2> QED
    BY <2>5, <2>6, <2>7 DEF LogInv
<1>9. ASSUME NEW d \in Disposers, Log!DisposeThrows(d) PROVE LogInv'
  <2>1. PICK n \in DOMAIN transports : Log!Closes(n, n - 1)
    BY <1>9 DEF Log!DisposeThrows
  <2>2. /\ Log!Emptied /\ disposer' = [disposer EXCEPT ![d].stage = "rejected"]
        /\ UNCHANGED <<severity, attached, writes, writing, logged>>
    BY <1>9 DEF Log!DisposeThrows
  <2>3. n \in 0 .. Len(transports) /\ n - 1 \in 0 .. n
    BY <1>0 DEF LogTypes
  <2>4. called' \subseteq DOMAIN attached /\ closing' \subseteq called'
    BY <1>0, <2>1, <2>3, ClosesAttached
  <2>5. transports' \in Seq(Nat) /\ Log!ToSet(transports)' = {} /\ Log!WritersAreOpen'
    BY <2>2, EmptiedIsOpen
  <2>6. disposer' \in [Disposers -> Disposals]
    <3>1. disposer[d] \in Disposals /\ disposer \in [Disposers -> Disposals]
      BY <1>0 DEF LogTypes
    <3>2. [disposer[d] EXCEPT !.stage = "rejected"] \in Disposals
      BY <3>1 DEF Disposals
    <3> QED
      BY <2>2, <3>1, <3>2
  <2>7. LogTypes' /\ AllAreNoted'
    BY <1>0, <2>2, <2>4, <2>5, <2>6 DEF LogTypes, AllAreNoted
  <2>8. LaterAreUnknown'
    BY <1>0, <2>2 DEF LaterAreUnknown, LogTypes, Disposals
  <2> QED
    BY <2>5, <2>7, <2>8 DEF LogInv
<1>10. ASSUME NEW d \in Disposers, Log!DisposeResolves(d) PROVE LogInv'
  <2>1. /\ disposer' = [disposer EXCEPT ![d].stage = "resolved"]
        /\ UNCHANGED <<severity, attached, transports, writers, called, closing, writes, writing, logged>>
    BY <1>10 DEF Log!DisposeResolves
  <2>2. disposer' \in [Disposers -> Disposals]
    <3>1. disposer[d] \in Disposals /\ disposer \in [Disposers -> Disposals]
      BY <1>0 DEF LogTypes
    <3>2. [disposer[d] EXCEPT !.stage = "resolved"] \in Disposals
      BY <3>1 DEF Disposals
    <3> QED
      BY <2>1, <3>1, <3>2
  <2>3. LogTypes' /\ AllAreNoted'
    BY <1>0, <2>1, <2>2 DEF LogTypes, AllAreNoted, Log!ToSet
  <2>4. LaterAreUnknown'
    BY <1>0, <2>1 DEF LaterAreUnknown, LogTypes, Disposals
  <2>5. Log!WritersAreOpen'
    BY <1>0, <2>1 DEF Log!WritersAreOpen, Log!ToSet
  <2> QED
    BY <2>3, <2>4, <2>5 DEF LogInv
<1>11. CASE UNCHANGED Log!vars
  <2>1. UNCHANGED <<severity, attached, transports, writers, called, closing, writes, writing, logged,
                    disposer>>
    BY <1>11 DEF Log!vars
  <2> QED
    BY <1>0, <2>1 DEF LogInv, LogTypes, AllAreNoted, LaterAreUnknown, Log!WritersAreOpen, Log!ToSet
<1> QED
  BY <1>1, <1>2, <1>3, <1>4, <1>5, <1>6, <1>7, <1>8, <1>9, <1>10, <1>11 DEF Log!Next

\* What a step may do to a dispose() that waits.
ResolvesWhenFlushed ==
    \A d \in Disposers :
        disposer[d].stage = "waits" /\ disposer'[d].stage = "resolved" =>
            /\ \A w \in writes : w.log > disposer[d].since
            /\ disposer[d].closes \cap closing = {}

\* Only DisposeResolves ends a wait, and what it finds settled is all that was begun.
LEMMA WaitsEndFlushed == LogInv /\ [Log!Next]_(Log!vars) => [ResolvesWhenFlushed]_(Log!vars)
<1> SUFFICES ASSUME LogInv, Log!Next, NEW d \in Disposers,
                    disposer[d].stage = "waits", disposer'[d].stage = "resolved"
             PROVE  /\ \A w \in writes : w.log > disposer[d].since
                    /\ disposer[d].closes \cap closing = {}
  BY DEF ResolvesWhenFlushed
<1> USE DEF LogInv, LogTypes, Disposals
<1>1. Log!DisposeResolves(d)
  <2>1. \E e \in Disposers : Log!Dispose(e) \/ Log!DisposeThrows(e) \/ Log!DisposeResolves(e)
    BY DEF Log!Next, Log!Add, Log!SetTo, Log!CloseSettles, Log!SetSeverity, Log!Log, Log!SetThrows,
           Log!WriteSettles
  <2> PICK e \in Disposers : Log!Dispose(e) \/ Log!DisposeThrows(e) \/ Log!DisposeResolves(e)
    BY <2>1
  <2>2. e = d
    BY DEF Log!Dispose, Log!DisposeThrows, Log!DisposeResolves
  <2> QED
    BY <2>2 DEF Log!Dispose, Log!DisposeThrows
<1> QED
  BY <1>1 DEF Log!DisposeResolves, LaterAreUnknown

\* No writer outlives the close() of what it was attached for, and a dispose() that
\* resolves leaves no write behind: for any transports, messages and callers.
THEOREM LogsStayFlushed == Log!Spec => LogsAreFlushed
<1>1. Log!Spec => []LogInv
  BY LogBegins, LogGoesOn, PTL DEF Log!Spec
<1>2. LogInv => Log!TypeOK /\ Log!WritersAreOpen
  BY DEF LogInv, LogTypes, Disposals, AllAreNoted, Log!TypeOK
<1>3. Log!Spec => [][ResolvesWhenFlushed]_(Log!vars)
  BY <1>1, WaitsEndFlushed, PTL DEF Log!Spec
<1>4. [][ResolvesWhenFlushed]_(Log!vars) => Log!DisposeWaits
  BY DEF Log!DisposeWaits, ResolvesWhenFlushed
<1> QED
  BY <1>1, <1>2, <1>3, <1>4, PTL DEF LogsAreFlushed

------------------------------------------------------------------------------
(***************************************************************************)
(* Contexts: a service is run once, and every value that was ever          *)
(* collected is of that run.                                               *)
(***************************************************************************)

UnitTypes ==
    /\ Unit!TypeOK
    /\ values \in [Units -> Seq(Services \X Nat)]

\* What a unit has collected: as many of the services it refers to as its steps, in
\* their order, and all of them when it is done.
Collected ==
    \A u \in Units :
        /\ Len(values[u]) =< Len(Unit!Refs(u))
        /\ \A i \in 1 .. Len(values[u]) : values[u][i][1] = Unit!Refs(u)[i]
        /\ unit[u] = "none" => step[u] = 0 /\ values[u] = <<>>
        /\ unit[u] = "waiting" => step[u] < Len(Unit!Refs(u)) /\ Len(values[u]) = step[u]
        /\ unit[u] = "done" => Len(values[u]) = Len(Unit!Refs(u))

\* A value is that of the only run of its service, which has resolved.
OfOneRun ==
    \A u \in Units : \A i \in 1 .. Len(values[u]) :
        /\ promise[values[u][i][1]] = "resolved"
        /\ values[u][i][2] = runs[values[u][i][1]]

\* A context is cached with a unit of it that is whole.
CachedAreDone ==
    \A c \in Unit!Contexts :
        cache[c] # NoUnit => unit[cache[c]] = "done" /\ ContextOf[cache[c]] = c

Noted ==
    \A u \in Units : \A i \in 1 .. Len(values[u]) :
        values[u][i][1] \in Disposable => values[u][i] \in disposables

UnitInv == UnitTypes /\ Collected /\ OfOneRun /\ CachedAreDone /\ Noted


\* Two units of one context refer to the same services.
LEMMA RefsOfContext ==
    ASSUME NEW u \in Units, NEW v \in Units, ContextOf[u] = ContextOf[v]
    PROVE  Unit!Refs(u) = Unit!Refs(v)
BY DEF Unit!Refs

\* The contexts begin with no unit, no value and no promise but those of plain values.
LEMMA UnitBegins == Unit!Init => UnitInv
<1> SUFFICES ASSUME Unit!Init PROVE UnitInv
  OBVIOUS
<1> USE LibraryAssumption DEF Unit!ContextsAssumption
<1>1. UnitTypes
  <2>1. promise \in [Services -> {"none", "pending", "resolved", "rejected"}]
    BY DEF Unit!Init
  <2>2. values \in [Units -> Seq(Services \X Nat)]
    <3>1. <<>> \in Seq(Services \X Nat)
      OBVIOUS
    <3> QED
      BY <3>1 DEF Unit!Init
  <2> QED
    BY <2>1, <2>2 DEF UnitTypes, Unit!TypeOK, Unit!Init
<1>2. ASSUME NEW u \in Units PROVE Len(values[u]) = 0 /\ Len(Unit!Refs(u)) \in Nat
  <2>1. Unit!Refs(u) \in Seq(Services) /\ values[u] = <<>>
    BY DEF Unit!Init
  <2> QED
    BY <2>1
<1> QED
  BY <1>1, <1>2 DEF UnitInv, Collected, OfOneRun, CachedAreDone, Noted, Unit!Init

\* Where a unit that proceeds is then: waiting, done, or failed at once.
Goes(u, n) ==
    \E to \in {"waiting", "failed", "done"} :
        /\ unit' = [unit EXCEPT ![u] = to]
        /\ to = "done" <=> ~(n < Len(Unit!Refs(u)))

\* A unit that proceeds runs no service that has resolved again and takes back no value.
LEMMA ProceedKeeps ==
    ASSUME UnitTypes, NEW u \in Units, NEW n \in Nat, Unit!Proceed(u, n)
    PROVE  /\ promise' \in [Services -> {"none", "pending", "resolved", "rejected"}]
           /\ runs' \in [Services -> Nat]
           /\ \A s \in Services :
                  promise[s] = "resolved" => promise'[s] = "resolved" /\ runs'[s] = runs[s]
           /\ Goes(u, n)
           /\ cache' \in [Unit!Contexts -> Units \cup {NoUnit}]
           /\ \A c \in Unit!Contexts :
                  \/ cache'[c] = cache[c]
                  \/ n >= Len(Unit!Refs(u)) /\ c = ContextOf[u] /\ cache'[c] = u
<1> USE LibraryAssumption DEF Unit!ContextsAssumption, UnitTypes, Unit!TypeOK
<1>1. Unit!Refs(u) \in Seq(Services) /\ Len(Unit!Refs(u)) \in Nat
  OBVIOUS
<1>2. CASE n < Len(Unit!Refs(u))
  <2> DEFINE s == Unit!Refs(u)[n + 1]
  <2>1. s \in Services
    BY <1>1, <1>2
  <2>2. /\ UNCHANGED cache
        /\ \/ Unit!Resolve(s) /\ unit' = [unit EXCEPT ![u] = "waiting"]
           \/ Unit!Throws(s) /\ unit' = [unit EXCEPT ![u] = "failed"]
    BY <1>2 DEF Unit!Proceed
  <2> HIDE DEF s
  <2>3. promise' \in [Services -> {"none", "pending", "resolved", "rejected"}]
    BY <2>1, <2>2 DEF Unit!Resolve, Unit!Throws
  <2>5. runs' \in [Services -> Nat]
    <3>1. UNCHANGED runs \/ runs' = [runs EXCEPT ![s] = @ + 1]
      BY <2>2 DEF Unit!Resolve, Unit!Throws
    <3>2. runs \in [Services -> Nat] /\ runs[s] + 1 \in Nat
      BY <2>1
    <3> QED
      BY <3>1, <3>2
  <2>4. ASSUME NEW r \in Services, promise[r] = "resolved"
        PROVE  promise'[r] = "resolved" /\ runs'[r] = runs[r]
    BY <2>1, <2>2, <2>4 DEF Unit!Resolve, Unit!Throws
  <2>6. Goes(u, n)
    BY <1>2, <2>2 DEF Goes
  <2> QED
    BY <1>2, <2>2, <2>3, <2>4, <2>5, <2>6
<1>3. CASE ~(n < Len(Unit!Refs(u)))
  <2>1. /\ unit' = [unit EXCEPT ![u] = "done"] /\ UNCHANGED <<promise, runs>>
        /\ cache' = [cache EXCEPT ![ContextOf[u]] = IF @ = NoUnit THEN u ELSE @]
    BY <1>3 DEF Unit!Proceed
  <2>2. cache' \in [Unit!Contexts -> Units \cup {NoUnit}]
    BY <2>1
  <2>3. ASSUME NEW c \in Unit!Contexts
        PROVE  cache'[c] = cache[c] \/ (c = ContextOf[u] /\ cache'[c] = u)
    BY <2>1
  <2>4. n >= Len(Unit!Refs(u))
    BY <1>1, <1>3
  <2>5. Goes(u, n)
    BY <1>3, <2>1 DEF Goes
  <2> QED
    BY <2>1, <2>2, <2>3, <2>4, <2>5
<1> QED
  BY <1>2, <1>3

\* Every step of a unit, and of a service that settles, keeps what UnitInv says.
LEMMA UnitGoesOn == UnitInv /\ [Unit!Next]_(Unit!vars) => UnitInv'
<1> SUFFICES ASSUME UnitInv, [Unit!Next]_(Unit!vars) PROVE UnitInv'
  OBVIOUS
<1> USE LibraryAssumption DEF Unit!ContextsAssumption
<1>0. /\ UnitTypes /\ \A u \in Units : Unit!Refs(u) \in Seq(Services) /\ Len(Unit!Refs(u)) \in Nat
      /\ \A u \in Units : values[u] \in Seq(Services \X Nat) /\ Len(values[u]) \in Nat
      /\ \A u \in Units : \A i \in 1 .. Len(values[u]) :
             values[u][i] \in Services \X Nat /\ values[u][i][1] \in Services
  BY DEF UnitInv, UnitTypes
<1>1. ASSUME NEW u \in Units, Unit!Apply(u) PROVE UnitInv'
  <2>1. /\ unit[u] = "none" /\ step[u] = 0 /\ values[u] = <<>>
        /\ UNCHANGED <<step, disposables>>
    BY <1>1 DEF Unit!Apply, UnitInv, Collected
  <2> DEFINE c == ContextOf[u]
  <2>2. c \in Unit!Contexts
    BY DEF Unit!Contexts, Unit!Range
  <2>3. CASE cache[c] # NoUnit
    <3> DEFINE v == cache[c]
    <3>1. v \in Units /\ unit[v] = "done" /\ Unit!Refs(v) = Unit!Refs(u)
      BY <1>0, <2>2, <2>3, RefsOfContext DEF UnitInv, CachedAreDone, UnitTypes, Unit!TypeOK
    <3>2. /\ unit' = [unit EXCEPT ![u] = "done"] /\ values' = [values EXCEPT ![u] = values[v]]
          /\ UNCHANGED <<promise, runs, cache>>
      BY <1>1, <2>3 DEF Unit!Apply
    <3> HIDE DEF v, c
    <3>3. UnitTypes'
      BY <1>0, <2>1, <3>1, <3>2 DEF UnitTypes, Unit!TypeOK
    <3>4. /\ values'[u] = values[v] /\ unit'[u] = "done"
          /\ \A w \in Units : w # u => values'[w] = values[w] /\ unit'[w] = unit[w]
      BY <1>0, <3>2 DEF UnitTypes, Unit!TypeOK
    <3>5. Collected'
      BY <2>1, <3>1, <3>2, <3>4 DEF UnitInv, Collected
    <3>6. OfOneRun' /\ Noted'
      BY <2>1, <3>1, <3>2, <3>4 DEF UnitInv, OfOneRun, Noted
    <3>7. CachedAreDone'
      BY <1>0, <2>1, <3>2, <3>4 DEF UnitInv, CachedAreDone, UnitTypes, Unit!TypeOK
    <3> QED
      BY <3>3, <3>5, <3>6, <3>7 DEF UnitInv
  <2>4. CASE cache[c] = NoUnit
    <3>1. Unit!Proceed(u, 0) /\ UNCHANGED values
      BY <1>1, <2>4 DEF Unit!Apply
    <3>2. /\ promise' \in [Services -> {"none", "pending", "resolved", "rejected"}]
          /\ runs' \in [Services -> Nat]
          /\ \A s \in Services :
                 promise[s] = "resolved" => promise'[s] = "resolved" /\ runs'[s] = runs[s]
          /\ Goes(u, 0)
          /\ cache' \in [Unit!Contexts -> Units \cup {NoUnit}]
          /\ \A d \in Unit!Contexts :
                 \/ cache'[d] = cache[d]
                 \/ 0 >= Len(Unit!Refs(u)) /\ d = ContextOf[u] /\ cache'[d] = u
      BY <1>0, <3>1, ProceedKeeps
    <3> HIDE DEF c
    <3>9. PICK to \in {"waiting", "failed", "done"} :
              unit' = [unit EXCEPT ![u] = to] /\ (to = "done" <=> ~(0 < Len(Unit!Refs(u))))
      BY <3>2 DEF Goes
    <3>3. UnitTypes'
      BY <1>0, <2>1, <3>1, <3>2, <3>9 DEF UnitTypes, Unit!TypeOK
    <3>4. /\ unit'[u] = to
          /\ \A w \in Units : w # u => unit'[w] = unit[w]
      BY <1>0, <3>9 DEF UnitTypes, Unit!TypeOK
    <3>5. Collected'
      <4> SUFFICES ASSUME NEW v \in Units
                   PROVE  /\ Len(values'[v]) =< Len(Unit!Refs(v))
                          /\ \A i \in 1 .. Len(values'[v]) : values'[v][i][1] = Unit!Refs(v)[i]
                          /\ unit'[v] = "none" => step'[v] = 0 /\ values'[v] = <<>>
                          /\ unit'[v] = "waiting" =>
                                 step'[v] < Len(Unit!Refs(v)) /\ Len(values'[v]) = step'[v]
                          /\ unit'[v] = "done" => Len(values'[v]) = Len(Unit!Refs(v))
        BY DEF Collected
      <4>1. CASE v # u
        BY <2>1, <3>1, <3>4, <4>1 DEF UnitInv, Collected
      <4>2. CASE v = u
        BY <1>0, <2>1, <3>1, <3>4, <3>9, <4>2
      <4> QED
        BY <4>1, <4>2
    <3>6. ASSUME NEW v \in Units, NEW i \in 1 .. Len(values'[v])
          PROVE  /\ promise'[values'[v][i][1]] = "resolved"
                 /\ values'[v][i][2] = runs'[values'[v][i][1]]
      <4>1. values' = values /\ values[v][i][1] \in Services
        BY <1>0, <3>1
      <4>2. promise[values[v][i][1]] = "resolved" /\ values[v][i][2] = runs[values[v][i][1]]
        BY <4>1 DEF UnitInv, OfOneRun
      <4> QED
        BY <3>2, <4>1, <4>2
    <3>8. Noted'
      BY <2>1, <3>1 DEF UnitInv, Noted
    <3>7. CachedAreDone'
      <4> SUFFICES ASSUME NEW d \in Unit!Contexts, cache'[d] # NoUnit
                   PROVE  unit'[cache'[d]] = "done" /\ ContextOf[cache'[d]] = d
        BY DEF CachedAreDone
      <4>1. CASE cache'[d] = cache[d]
        <5>1. cache[d] \in Units /\ unit[cache[d]] = "done" /\ ContextOf[cache[d]] = d
          BY <1>0, <4>1 DEF UnitInv, CachedAreDone, UnitTypes, Unit!TypeOK
        <5> QED
          BY <2>1, <3>4, <4>1, <5>1
      <4>2. CASE 0 >= Len(Unit!Refs(u)) /\ d = ContextOf[u] /\ cache'[d] = u
        BY <1>0, <3>4, <3>9, <4>2
      <4> QED
        BY <3>2, <4>1, <4>2
    <3> QED
      BY <3>3, <3>5, <3>6, <3>7, <3>8 DEF UnitInv, OfOneRun
  <2> QED
    BY <2>3, <2>4
<1>2. ASSUME NEW u \in Units, Unit!Collect(u) PROVE UnitInv'
  <2> DEFINE s == Unit!Refs(u)[step[u] + 1]
             n == step[u] + 1
             w == <<s, runs[s]>>
  <2>1. /\ unit[u] = "waiting" /\ promise[s] = "resolved"
        /\ values' = [values EXCEPT ![u] = Append(@, w)]
        /\ disposables' = IF s \in Disposable THEN disposables \cup {w} ELSE disposables
        /\ step' = [step EXCEPT ![u] = @ + 1]
        /\ Unit!Proceed(u, n)
    BY <1>2 DEF Unit!Collect
  <2>2. /\ step[u] \in Nat /\ step[u] < Len(Unit!Refs(u)) /\ Len(values[u]) = step[u]
        /\ n \in Nat /\ n =< Len(Unit!Refs(u))
    BY <1>0, <2>1 DEF UnitInv, Collected, UnitTypes, Unit!TypeOK
  <2>3. s \in Services /\ w \in Services \X Nat
    BY <1>0, <2>2 DEF UnitTypes, Unit!TypeOK
  <2>4. /\ promise' \in [Services -> {"none", "pending", "resolved", "rejected"}]
        /\ runs' \in [Services -> Nat]
        /\ \A r \in Services :
               promise[r] = "resolved" => promise'[r] = "resolved" /\ runs'[r] = runs[r]
        /\ Goes(u, n)
        /\ cache' \in [Unit!Contexts -> Units \cup {NoUnit}]
        /\ \A d \in Unit!Contexts :
               \/ cache'[d] = cache[d]
               \/ n >= Len(Unit!Refs(u)) /\ d = ContextOf[u] /\ cache'[d] = u
    BY <1>0, <2>1, <2>2, ProceedKeeps
  <2>5. w[1] = s /\ w[2] = runs[s] /\ s = Unit!Refs(u)[n]
    OBVIOUS
  <2> HIDE DEF w, s
  <2>14. PICK to \in {"waiting", "failed", "done"} :
             unit' = [unit EXCEPT ![u] = to] /\ (to = "done" <=> ~(n < Len(Unit!Refs(u))))
    BY <2>4 DEF Goes
  <2>6. /\ values'[u] = Append(values[u], w) /\ step'[u] = n
        /\ unit'[u] = to
        /\ \A v \in Units : v # u =>
               values'[v] = values[v] /\ unit'[v] = unit[v] /\ step'[v] = step[v]
    BY <1>0, <2>1, <2>14 DEF UnitTypes, Unit!TypeOK
  <2>7. /\ Len(values'[u]) = n /\ values'[u][n] = w
        /\ \A i \in 1 .. Len(values[u]) : values'[u][i] = values[u][i]
    BY <1>0, <2>2, <2>3, <2>6
  <2> HIDE DEF n
  <2>8. UnitTypes'
    <3>1. values' \in [Units -> Seq(Services \X Nat)]
      <4>1. /\ values \in [Units -> Seq(Services \X Nat)]
            /\ values' = [values EXCEPT ![u] = Append(values[u], w)]
        BY <1>0, <2>1 DEF UnitTypes
      <4>2. Append(values[u], w) \in Seq(Services \X Nat)
        BY <2>3, <4>1
      <4> QED
        BY <4>1, <4>2
    <3>2. unit' \in [Units -> {"none", "waiting", "done", "failed"}]
      BY <1>0, <2>14 DEF UnitTypes, Unit!TypeOK
    <3>3. step' \in [Units -> Nat]
      BY <1>0, <2>1 DEF UnitTypes, Unit!TypeOK
    <3>4. disposables' \subseteq Services \X Nat
      BY <1>0, <2>1, <2>3 DEF UnitTypes, Unit!TypeOK
    <3> QED
      BY <2>4, <3>1, <3>2, <3>3, <3>4 DEF UnitTypes, Unit!TypeOK
  <2>9. Collected'
    <3> SUFFICES ASSUME NEW v \in Units
                 PROVE  /\ Len(values'[v]) =< Len(Unit!Refs(v))
                        /\ \A i \in 1 .. Len(values'[v]) : values'[v][i][1] = Unit!Refs(v)[i]
                        /\ unit'[v] = "none" => step'[v] = 0 /\ values'[v] = <<>>
                        /\ unit'[v] = "waiting" =>
                               step'[v] < Len(Unit!Refs(v)) /\ Len(values'[v]) = step'[v]
                        /\ unit'[v] = "done" => Len(values'[v]) = Len(Unit!Refs(v))
      BY DEF Collected
    <3>1. CASE v # u
      <4>1. values'[v] = values[v] /\ unit'[v] = unit[v] /\ step'[v] = step[v]
        BY <2>6, <3>1
      <4> QED
        BY <4>1 DEF UnitInv, Collected
    <3>2. CASE v = u
      <4>1. ASSUME NEW i \in 1 .. n PROVE values'[u][i][1] = Unit!Refs(u)[i]
        <5>1. CASE i = n
          BY <2>5, <2>7, <5>1
        <5>2. CASE i # n
          <6>1. i \in 1 .. Len(values[u])
            BY <2>2, <5>2 DEF n
          <6> QED
            BY <2>7, <6>1 DEF UnitInv, Collected
        <5> QED
          BY <5>1, <5>2
      <4>2. Len(Unit!Refs(u)) \in Nat
        BY <1>0
      <4>3. /\ unit'[u] # "none"
            /\ unit'[u] = "waiting" => n < Len(Unit!Refs(u))
            /\ unit'[u] = "done" => n = Len(Unit!Refs(u))
        BY <2>2, <2>6, <2>14, <4>2
      <4> QED
        BY <2>2, <2>6, <2>7, <3>2, <4>1, <4>3
    <3> QED
      BY <3>1, <3>2
  <2>10. ASSUME NEW v \in Units, NEW i \in 1 .. Len(values'[v])
         PROVE  /\ values'[v][i] = w \/ (i \in 1 .. Len(values[v]) /\ values'[v][i] = values[v][i])
    <3>1. CASE v # u
      BY <2>6, <3>1
    <3>2. CASE v = u /\ i = n
      BY <2>7, <3>2
    <3>3. CASE v = u /\ i # n
      <4>1. i \in 1 .. Len(values[u])
        BY <2>2, <2>7, <3>3 DEF n
      <4> QED
        BY <2>7, <3>3, <4>1
    <3> QED
      BY <3>1, <3>2, <3>3
  <2>11. OfOneRun'
    <3> SUFFICES ASSUME NEW v \in Units, NEW i \in 1 .. Len(values'[v])
                 PROVE  /\ promise'[values'[v][i][1]] = "resolved"
                        /\ values'[v][i][2] = runs'[values'[v][i][1]]
      BY DEF OfOneRun
    <3>1. CASE values'[v][i] = w
      <4>1. values'[v][i][1] = s /\ values'[v][i][2] = runs[s]
        BY <2>5, <3>1
      <4>2. promise'[s] = "resolved" /\ runs'[s] = runs[s]
        BY <2>1, <2>3, <2>4
      <4> QED
        BY <4>1, <4>2
    <3>2. CASE i \in 1 .. Len(values[v]) /\ values'[v][i] = values[v][i]
      <4>1. values[v][i][1] \in Services
        BY <1>0, <3>2
      <4>2. promise[values[v][i][1]] = "resolved" /\ values[v][i][2] = runs[values[v][i][1]]
        BY <3>2 DEF UnitInv, OfOneRun
      <4> QED
        BY <2>4, <3>2, <4>1, <4>2
    <3> QED
      BY <2>10, <3>1, <3>2
  <2>12. Noted'
    <3> SUFFICES ASSUME NEW v \in Units, NEW i \in 1 .. Len(values'[v]),
                        values'[v][i][1] \in Disposable
                 PROVE  values'[v][i] \in disposables'
      BY DEF Noted
    <3>1. CASE values'[v][i] = w
      BY <2>1, <2>5, <3>1
    <3>2. CASE i \in 1 .. Len(values[v]) /\ values'[v][i] = values[v][i]
      BY <2>1, <3>2 DEF UnitInv, Noted
    <3> QED
      BY <2>10, <3>1, <3>2
  <2>13. CachedAreDone'
    <3> SUFFICES ASSUME NEW d \in Unit!Contexts, cache'[d] # NoUnit
                 PROVE  unit'[cache'[d]] = "done" /\ ContextOf[cache'[d]] = d
      BY DEF CachedAreDone
    <3>1. CASE cache'[d] = cache[d]
      <4>1. cache[d] \in Units /\ unit[cache[d]] = "done" /\ ContextOf[cache[d]] = d
        BY <1>0, <3>1 DEF UnitInv, CachedAreDone, UnitTypes, Unit!TypeOK
      <4> QED
        BY <2>1, <2>6, <3>1, <4>1
    <3>2. CASE n >= Len(Unit!Refs(u)) /\ d = ContextOf[u] /\ cache'[d] = u
      BY <1>0, <2>2, <2>6, <2>14, <3>2
    <3> QED
      BY <2>4, <3>1, <3>2
  <2> QED
    BY <2>8, <2>9, <2>11, <2>12, <2>13 DEF UnitInv
<1>3. ASSUME NEW u \in Units, Unit!Fail(u) PROVE UnitInv'
  <2>1. /\ unit[u] = "waiting" /\ unit' = [unit EXCEPT ![u] = "failed"]
        /\ UNCHANGED <<step, promise, runs, values, cache, disposables>>
    BY <1>3 DEF Unit!Fail
  <2>2. unit'[u] = "failed" /\ \A v \in Units : v # u => unit'[v] = unit[v]
    BY <1>0, <2>1 DEF UnitTypes, Unit!TypeOK
  <2>3. UnitTypes' /\ OfOneRun' /\ Noted'
    BY <1>0, <2>1 DEF UnitInv, UnitTypes, Unit!TypeOK, OfOneRun, Noted
  <2>4. Collected'
    BY <2>1, <2>2 DEF UnitInv, Collected
  <2>5. CachedAreDone'
    BY <1>0, <2>1, <2>2 DEF UnitInv, CachedAreDone, UnitTypes, Unit!TypeOK
  <2> QED
    BY <2>3, <2>4, <2>5 DEF UnitInv
<1>4. ASSUME NEW s \in Services, Unit!Settle(s) PROVE UnitInv'
  <2> PICK outcome \in {"resolved", "rejected"} : promise' = [promise EXCEPT ![s] = outcome]
    BY <1>4 DEF Unit!Settle
  <2>1. promise[s] = "pending" /\ UNCHANGED <<step, unit, runs, values, cache, disposables>>
    BY <1>4 DEF Unit!Settle
  <2>2. UnitTypes'
    BY <1>0, <2>1 DEF UnitTypes, Unit!TypeOK
  <2>3. \A r \in Services : promise[r] = "resolved" => promise'[r] = "resolved"
    BY <1>0, <2>1 DEF UnitTypes, Unit!TypeOK
  <2>4. OfOneRun'
    BY <1>0, <2>1, <2>3 DEF UnitInv, OfOneRun
  <2>5. Collected' /\ CachedAreDone' /\ Noted'
    BY <2>1 DEF UnitInv, Collected, CachedAreDone, Noted
  <2> QED
    BY <2>2, <2>4, <2>5 DEF UnitInv
<1>5. CASE UNCHANGED Unit!vars
  <2>1. UNCHANGED <<step, unit, promise, runs, values, cache, disposables>>
    BY <1>5 DEF Unit!vars
  <2>2. UnitTypes'
    BY <1>0, <2>1 DEF UnitTypes, Unit!TypeOK
  <2>3. Collected' /\ CachedAreDone'
    BY <2>1 DEF UnitInv, Collected, CachedAreDone
  <2>4. OfOneRun' /\ Noted'
    BY <2>1 DEF UnitInv, OfOneRun, Noted
  <2> QED
    BY <2>2, <2>3, <2>4 DEF UnitInv
<1> QED
  BY <1>1, <1>2, <1>3, <1>4, <1>5 DEF Unit!Next

\* Whoever resolves a context has every service it refers to, contexts that share a
\* service share its value, and what can be disposed of is noted: for any units,
\* contexts and services, and whichever of them fail.
THEOREM ContextsStayShared == Unit!Spec => []ContextsAreShared
<1>1. Unit!Spec => []UnitInv
  BY UnitBegins, UnitGoesOn, PTL DEF Unit!Spec
<1>2. UnitInv => ContextsAreShared
  <2> SUFFICES ASSUME UnitInv PROVE ContextsAreShared
    OBVIOUS
  <2>0. \A u \in Units : /\ values[u] \in Seq(Services \X Nat) /\ DOMAIN values[u] = 1 .. Len(values[u])
                         /\ Unit!Refs(u) \in Seq(Services)
                         /\ DOMAIN Unit!Refs(u) = 1 .. Len(Unit!Refs(u))
    <3> SUFFICES ASSUME NEW u \in Units
                 PROVE  /\ values[u] \in Seq(Services \X Nat)
                        /\ DOMAIN values[u] = 1 .. Len(values[u])
                        /\ Unit!Refs(u) \in Seq(Services)
                        /\ DOMAIN Unit!Refs(u) = 1 .. Len(Unit!Refs(u))
      OBVIOUS
    <3>1. values[u] \in Seq(Services \X Nat) /\ Unit!Refs(u) \in Seq(Services)
      BY LibraryAssumption DEF UnitInv, UnitTypes, Unit!ContextsAssumption
    <3> QED
      BY <3>1
  <2>1. ASSUME NEW u \in Units, unit[u] = "done"
        PROVE  [i \in DOMAIN values[u] |-> values[u][i][1]] = Unit!Refs(u)
    <3>1. /\ DOMAIN values[u] = DOMAIN Unit!Refs(u)
          /\ \A i \in DOMAIN values[u] : values[u][i][1] = Unit!Refs(u)[i]
      BY <2>0, <2>1 DEF UnitInv, Collected
    <3>2. Unit!Refs(u) = [i \in DOMAIN Unit!Refs(u) |-> Unit!Refs(u)[i]]
      BY <2>0
    <3> QED
      BY <3>1, <3>2
  <2>2. ASSUME NEW u \in Units, NEW v \in Units, NEW i \in DOMAIN values[u],
               NEW j \in DOMAIN values[v], values[u][i][1] = values[v][j][1]
        PROVE  values[u][i] = values[v][j]
    <3>1. values[u][i] \in Services \X Nat /\ values[v][j] \in Services \X Nat
      BY <2>0
    <3>2. /\ values[u][i][2] = runs[values[u][i][1]]
          /\ values[v][j][2] = runs[values[v][j][1]]
      BY <2>0 DEF UnitInv, OfOneRun
    <3> QED
      BY <2>2, <3>1, <3>2
  <2>3. Unit!ServicesAreShared
    BY <2>1, <2>2 DEF Unit!ServicesAreShared
  <2>4. Unit!TypeOK /\ Unit!DisposablesAreNoted
    BY <2>0 DEF UnitInv, UnitTypes, Noted, Unit!DisposablesAreNoted
  <2> QED
    BY <2>3, <2>4 DEF ContextsAreShared
<1> QED
  BY <1>1, <1>2, PTL

------------------------------------------------------------------------------
(***************************************************************************)
(* AsyncPool: somebody waits only while the buffer is empty, so a value is *)
(* given to whoever waits or comes behind those before it.                 *)
(***************************************************************************)

\* The Defer that is shared is the first, until it is rejected for good.
OneDefer == pooled \in {None, Pool!NewDefer, Pool!Rejected(Pool!NewDefer)}

\* Somebody waits exactly while there is a Defer that has not settled.
WaitersShare == Pool!Waiting # {} <=> pooled = Pool!NewDefer

\* Nobody is told of a failure before the Defer has been rejected.
FailuresAreKept ==
    \A c \in Consumers : reader[c].pc = "failed" => pooled = Pool!Rejected(Pool!NewDefer)

\* g is made of elements of p among the first t, in their order.
Follows(g, p, t) ==
    \E at \in [DOMAIN g -> 1 .. t] :
        /\ \A i, j \in DOMAIN at : i < j => at[i] < at[j]
        /\ \A i \in DOMAIN at : g[i] = p[at[i]]

Taken == Len(pushed) - Len(buffer)

\* Delivery, with the rest told by its elements.
Delivered ==
    /\ Taken \in Nat
    /\ \A i \in 1 .. Len(buffer) : buffer[i] = pushed[Taken + i]
    /\ \A i \in 1 .. Taken : \E c \in Consumers : pushed[i] \in Pool!Range(reader[c].got)
    /\ \A c \in Consumers : Follows(reader[c].got, pushed, Taken)
    /\ \A c \in Consumers : reader[c].pc \in {"waiting", "failed"} => buffer = <<>>

PoolInv == Pool!TypeOK /\ OneDefer /\ WaitersShare /\ FailuresAreKept /\ Delivered

\* The rest of a sequence, told by its elements.
LEMMA RestOfSequence ==
    ASSUME NEW V, NEW p \in Seq(V), NEW b \in Seq(V), NEW t \in Nat, Len(p) = t + Len(b)
    PROVE  b = SubSeq(p, t + 1, Len(p)) <=> \A i \in 1 .. Len(b) : b[i] = p[t + i]
<1> DEFINE r == SubSeq(p, t + 1, Len(p))
<1>1. r \in Seq(V) /\ Len(r) = Len(b) /\ \A i \in 1 .. Len(b) : r[i] = p[t + i]
  <2>1. t + 1 \in 1 .. Len(p) + 1 /\ Len(p) \in (t + 1) - 1 .. Len(p) /\ Len(b) \in Nat
    OBVIOUS
  <2>2. /\ r \in Seq(V) /\ Len(r) = Len(p) - (t + 1) + 1
        /\ \A i \in 1 .. Len(p) - (t + 1) + 1 : r[i] = p[(t + 1) + i - 1]
    BY <2>1, SubSeqProperties
  <2>3. Len(p) - (t + 1) + 1 = Len(b) /\ \A i \in 1 .. Len(b) : (t + 1) + i - 1 = t + i
    BY <2>1
  <2> HIDE DEF r
  <2> QED
    BY <2>2, <2>3
<1> HIDE DEF r
<1>2. b = r <=> \A i \in 1 .. Len(b) : b[i] = r[i]
  <2>1. ASSUME \A i \in 1 .. Len(b) : b[i] = r[i] PROVE b = r
    BY <1>1, <2>1, SeqEqual
  <2> QED
    BY <2>1
<1> QED
  BY <1>1, <1>2 DEF r

\* More may be taken, and more accepted.
LEMMA FollowsLonger ==
    ASSUME NEW V, NEW g \in Seq(V), NEW p \in Seq(V), NEW q \in Seq(V), NEW t \in Nat, NEW u \in Nat,
           t <= u, t <= Len(p), \A i \in 1 .. Len(p) : i \in 1 .. Len(q) /\ q[i] = p[i],
           Follows(g, p, t)
    PROVE  Follows(g, q, u)
<1> PICK at \in [DOMAIN g -> 1 .. t] :
        /\ \A i, j \in DOMAIN at : i < j => at[i] < at[j]
        /\ \A i \in DOMAIN at : g[i] = p[at[i]]
  BY DEF Follows
<1>1. at \in [DOMAIN g -> 1 .. u]
  OBVIOUS
<1>2. \A i \in DOMAIN at : g[i] = q[at[i]]
  OBVIOUS
<1> QED
  BY <1>1, <1>2 DEF Follows

\* Whoever is given what is taken next follows still.
LEMMA FollowsNext ==
    ASSUME NEW V, NEW g \in Seq(V), NEW p \in Seq(V), NEW t \in Nat, t < Len(p), Follows(g, p, t)
    PROVE  Follows(Append(g, p[t + 1]), p, t + 1)
<1> PICK at \in [DOMAIN g -> 1 .. t] :
        /\ \A i, j \in DOMAIN at : i < j => at[i] < at[j]
        /\ \A i \in DOMAIN at : g[i] = p[at[i]]
  BY DEF Follows
<1> DEFINE n == Len(g) + 1
           h == Append(g, p[t + 1])
           on == [i \in 1 .. n |-> IF i = n THEN t + 1 ELSE at[i]]
<1>1. DOMAIN g = 1 .. Len(g) /\ Len(g) \in Nat /\ p[t + 1] \in V
  OBVIOUS
<1>2. DOMAIN h = 1 .. n /\ h[n] = p[t + 1] /\ \A i \in 1 .. Len(g) : h[i] = g[i]
  BY <1>1
<1>3. \A i \in 1 .. n : i # n => i \in 1 .. Len(g)
  BY <1>1
<1> HIDE DEF n, h
<1>4. on \in [1 .. n -> 1 .. t + 1]
  BY <1>1, <1>3
<1>5. ASSUME NEW i \in 1 .. n, NEW j \in 1 .. n, i < j PROVE on[i] < on[j]
  <2>1. i # n /\ at[i] \in 1 .. t
    BY <1>1, <1>3, <1>5 DEF n
  <2>2. CASE j = n
    BY <2>1, <2>2
  <2>3. CASE j # n
    BY <1>1, <1>3, <1>5, <2>1, <2>3
  <2> QED
    BY <2>2, <2>3
<1>6. ASSUME NEW i \in 1 .. n PROVE h[i] = p[on[i]]
  BY <1>1, <1>2, <1>3
<1> HIDE DEF on
<1>7. /\ on \in [DOMAIN h -> 1 .. t + 1]
      /\ \A i, j \in DOMAIN on : i < j => on[i] < on[j]
      /\ \A i \in DOMAIN on : h[i] = p[on[i]]
  BY <1>2, <1>4, <1>5, <1>6
<1> QED
  BY <1>7 DEF Follows, h

\* What the code accepts, buffers and gives is Delivery.
LEMMA DeliveryIs == Pool!TypeOK => (Pool!Delivery <=> Delivered)
<1> SUFFICES ASSUME Pool!TypeOK PROVE Pool!Delivery <=> Delivered
  OBVIOUS
<1>1. pushed \in Seq(Pool!Values) /\ buffer \in Seq(Pool!Values)
  BY DEF Pool!TypeOK
<1>2. Taken \in Int /\ (Taken >= 0 <=> Taken \in Nat) /\ Len(pushed) = Taken + Len(buffer)
  BY <1>1 DEF Taken
<1>3. Taken \in Nat => (buffer = SubSeq(pushed, Taken + 1, Len(pushed))
                            <=> \A i \in 1 .. Len(buffer) : buffer[i] = pushed[Taken + i])
  BY <1>1, <1>2, RestOfSequence
<1> QED
  BY <1>2, <1>3 DEF Pool!Delivery, Delivered, Taken, Follows

\* The states of the Defer that is shared.
LEMMA SharedDefers ==
    /\ Pool!NewDefer \in Pool!Defers /\ Pool!Rejected(Pool!NewDefer) \in Pool!Defers
    /\ Pool!Rejected(Pool!Rejected(Pool!NewDefer)) = Pool!Rejected(Pool!NewDefer)
    /\ Pool!Rejected(Pool!NewDefer) # Pool!NewDefer
    /\ ~Pool!IsSettled(Pool!NewDefer) /\ Pool!IsSettled(Pool!Rejected(Pool!NewDefer))
    /\ None # Pool!NewDefer /\ None # Pool!Rejected(Pool!NewDefer)
<1>1. Pool!Rejected(Pool!NewDefer) =
          [state |-> "rejected", promise |-> "rejected", heard |-> {"rejected"}]
  BY DEF Pool!Rejected, Pool!NewDefer, Pool!Emitted
<1>2. Pool!NewDefer \in Pool!Defers /\ Pool!Rejected(Pool!NewDefer) \in Pool!Defers
  BY <1>1 DEF Pool!NewDefer, Pool!Defers, Pool!Outcomes
<1>3. Pool!Rejected(Pool!Rejected(Pool!NewDefer)) = Pool!Rejected(Pool!NewDefer)
  BY <1>1 DEF Pool!Rejected, Pool!Emitted
<1>4. ~Pool!IsSettled(Pool!NewDefer) /\ Pool!IsSettled(Pool!Rejected(Pool!NewDefer))
  BY <1>1 DEF Pool!IsSettled, Pool!NewDefer
<1> QED
  BY <1>2, <1>3, <1>4, LibraryAssumption DEF Pool!PoolAssumption

Readers ==
    [pc : {"idle", "waiting", "done", "failed", "left"}, got : Seq(Pool!Values)]

\* What PoolInv says of the Defer: whether it has settled and whether anybody waits.
LEMMA PoolStates ==
    ASSUME PoolInv
    PROVE  /\ reader \in [Consumers -> Readers]
           /\ pushed \in Seq(Pool!Values) /\ buffer \in Seq(Pool!Values)
           /\ Pool!Settled <=> pooled = Pool!Rejected(Pool!NewDefer)
           /\ \A c \in Consumers : reader[c].pc = "waiting" => pooled = Pool!NewDefer /\ buffer = <<>>
           /\ \A c \in Consumers : reader[c].pc = "failed" => Pool!Settled /\ buffer = <<>>
           /\ pooled = Pool!NewDefer => \E c \in Consumers : reader[c].pc = "waiting"
           /\ Delivered
<1>1. Pool!TypeOK /\ Delivered
  BY DEF PoolInv
<1>2. Pool!Settled <=> pooled = Pool!Rejected(Pool!NewDefer)
  BY SharedDefers DEF PoolInv, OneDefer, Pool!Settled
<1>3. pooled = Pool!NewDefer <=> \E c \in Consumers : reader[c].pc = "waiting"
  BY DEF PoolInv, WaitersShare, Pool!Waiting
<1> QED
  BY <1>1, <1>2, <1>3 DEF Pool!TypeOK, Readers, PoolInv, FailuresAreKept, Delivered

\* Whoever is given a value has it beside those it had.
LEMMA GivenBeside ==
    ASSUME NEW r \in Readers, NEW v \in Pool!Values
    PROVE  /\ Pool!Given(r, v) \in Readers /\ Pool!Given(r, v).got = Append(r.got, v)
           /\ Pool!Given(r, v).pc \in {"done", "idle"}
           /\ Pool!Range(Append(r.got, v)) = Pool!Range(r.got) \cup {v}
<1>1. r.got \in Seq(Pool!Values)
  BY DEF Readers
<1>2. Append(r.got, v) \in Seq(Pool!Values)
  BY <1>1
<1>3. /\ Pool!Given(r, v) \in Readers /\ Pool!Given(r, v).got = Append(r.got, v)
      /\ Pool!Given(r, v).pc \in {"done", "idle"}
  BY <1>2 DEF Pool!Given, Readers
<1>4. /\ DOMAIN Append(r.got, v) = 1 .. Len(r.got) + 1 /\ DOMAIN r.got = 1 .. Len(r.got)
      /\ \A i \in 1 .. Len(r.got) : Append(r.got, v)[i] = r.got[i]
      /\ Append(r.got, v)[Len(r.got) + 1] = v
  BY <1>1
<1>5. 1 .. Len(r.got) + 1 = (1 .. Len(r.got)) \cup {Len(r.got) + 1}
  BY <1>1
<1>6. Pool!Range(Append(r.got, v)) = Pool!Range(r.got) \cup {v}
  BY <1>4, <1>5 DEF Pool!Range
<1> QED
  BY <1>3, <1>6

\* What push() accepts is given to all who wait, or is the last of the buffer.
LEMMA PushKeeps ==
    ASSUME PoolInv, NEW v \in Pool!Values, Pool!Pushed(v)
    PROVE  /\ pushed' \in Seq(Pool!Values) /\ buffer' \in Seq(Pool!Values)
           /\ reader' \in [Consumers -> Readers] /\ pooled' \in Pool!Defers \cup {None}
           /\ OneDefer' /\ WaitersShare' /\ FailuresAreKept' /\ Delivered'
<1>1. /\ reader \in [Consumers -> Readers]
      /\ pushed \in Seq(Pool!Values) /\ buffer \in Seq(Pool!Values)
      /\ pooled # Pool!Rejected(Pool!NewDefer) /\ pooled \in {None, Pool!NewDefer}
      /\ \A c \in Consumers : reader[c].pc = "waiting" => pooled = Pool!NewDefer /\ buffer = <<>>
      /\ \A c \in Consumers : reader[c].pc # "failed"
      /\ pooled = Pool!NewDefer => \E c \in Consumers : reader[c].pc = "waiting"
      /\ Delivered
  BY PoolStates DEF Pool!Pushed, PoolInv, OneDefer
<1>2. /\ pushed' = Append(pushed, v) /\ pushed' \in Seq(Pool!Values)
      /\ Len(pushed') = Len(pushed) + 1 /\ pushed'[Len(pushed) + 1] = v
      /\ \A i \in 1 .. Len(pushed) : i \in 1 .. Len(pushed') /\ pushed'[i] = pushed[i]
  BY <1>1 DEF Pool!Pushed
<1>3. Taken \in Nat /\ Taken =< Len(pushed)
  BY <1>1 DEF Delivered, Taken
<1>4. ASSUME NEW c \in Consumers
      PROVE  reader[c].got \in Seq(Pool!Values) /\ Follows(reader[c].got, pushed, Taken)
  BY <1>1 DEF Delivered, Readers
<1>5. CASE pooled # None
  <2>1. /\ pooled = Pool!NewDefer /\ pooled' = None /\ buffer' = buffer
        /\ reader' = [c \in Consumers |->
                          IF c \in Pool!Waiting THEN Pool!Given(reader[c], v) ELSE reader[c]]
    BY <1>1, <1>5 DEF Pool!Pushed
  <2>2. PICK d \in Consumers : reader[d].pc = "waiting"
    BY <1>1, <2>1
  <2>3. buffer = <<>> /\ Taken = Len(pushed) /\ Taken' = Len(pushed) + 1
    BY <1>1, <1>2, <2>1, <2>2 DEF Taken
  <2>4. ASSUME NEW c \in Consumers
        PROVE  /\ reader'[c] \in Readers /\ reader'[c].pc \notin {"waiting", "failed"}
               /\ \/ reader'[c].got = reader[c].got /\ reader[c].pc # "waiting"
                  \/ /\ reader'[c].got = Append(reader[c].got, v)
                     /\ Pool!Range(reader'[c].got) = Pool!Range(reader[c].got) \cup {v}
    BY <1>1, <2>1, GivenBeside DEF Pool!Waiting
  <2>5. reader' \in [Consumers -> Readers]
    BY <2>1, <2>4
  <2>6. ASSUME NEW i \in 1 .. Taken'
        PROVE  \E c \in Consumers : pushed'[i] \in Pool!Range(reader'[c].got)
    <3>1. CASE i = Len(pushed) + 1
      BY <1>2, <2>2, <2>4, <3>1
    <3>2. CASE i \in 1 .. Len(pushed)
      <4>1. PICK c \in Consumers : pushed[i] \in Pool!Range(reader[c].got)
        BY <1>1, <2>3, <3>2 DEF Delivered
      <4> QED
        BY <1>2, <2>4, <3>2, <4>1
    <3> QED
      BY <1>1, <2>3, <3>1, <3>2
  <2>7. ASSUME NEW c \in Consumers PROVE Follows(reader'[c].got, pushed', Taken')
    <3>1. reader[c].got \in Seq(Pool!Values) /\ Follows(reader[c].got, pushed, Taken)
      BY <1>4
    <3>2. /\ Len(pushed) \in Nat /\ Len(pushed) + 1 \in Nat /\ Len(pushed) < Len(pushed')
          /\ Len(pushed) <= Len(pushed) /\ Len(pushed) <= Len(pushed) + 1
          /\ Follows(reader[c].got, pushed, Len(pushed))
      BY <1>1, <1>2, <2>3, <3>1
    <3> DEFINE n == Len(pushed)
    <3> HIDE DEF n
    <3>6. /\ n \in Nat /\ n + 1 \in Nat /\ n <= n /\ n <= n + 1 /\ n <= Len(pushed)
          /\ Follows(reader[c].got, pushed, n)
      BY <3>2 DEF n
    <3>3. Follows(reader[c].got, pushed', n)
      BY <1>1, <1>2, <3>1, <3>6, FollowsLonger
    <3>4. Follows(reader[c].got, pushed', n + 1)
      BY <1>1, <1>2, <3>1, <3>6, FollowsLonger
    <3>5. Follows(Append(reader[c].got, pushed'[Len(pushed) + 1]), pushed', Len(pushed) + 1)
      BY <1>2, <3>1, <3>2, <3>3, FollowsNext DEF n
    <3> QED
      BY <1>2, <2>3, <2>4, <3>4, <3>5 DEF n
  <2>8. Delivered'
    BY <1>1, <2>1, <2>3, <2>4, <2>6, <2>7 DEF Delivered
  <2>9. OneDefer' /\ WaitersShare' /\ FailuresAreKept'
    BY <2>1, <2>4, SharedDefers DEF OneDefer, WaitersShare, FailuresAreKept, Pool!Waiting
  <2> QED
    BY <1>1, <1>2, <2>1, <2>5, <2>8, <2>9
<1>6. CASE pooled = None
  <2>1. /\ buffer' = Append(buffer, v) /\ UNCHANGED <<pooled, reader>>
        /\ \A c \in Consumers : reader[c].pc \notin {"waiting", "failed"}
    BY <1>1, <1>6, SharedDefers DEF Pool!Pushed
  <2>2. /\ buffer' \in Seq(Pool!Values) /\ Len(buffer') = Len(buffer) + 1
        /\ buffer'[Len(buffer) + 1] = v /\ \A i \in 1 .. Len(buffer) : buffer'[i] = buffer[i]
    BY <1>1, <2>1
  <2>3. Taken' = Taken /\ Len(pushed) = Taken + Len(buffer) /\ Len(buffer) \in Nat
    BY <1>1, <1>2, <2>2 DEF Taken
  <2>4. ASSUME NEW i \in 1 .. Len(buffer') PROVE buffer'[i] = pushed'[Taken + i]
    <3>1. CASE i = Len(buffer) + 1
      <4>1. Taken + i = Len(pushed) + 1
        BY <1>3, <2>3, <3>1
      <4> QED
        BY <1>2, <2>2, <3>1, <4>1
    <3>2. CASE i \in 1 .. Len(buffer)
      <4>1. Taken + i \in 1 .. Len(pushed)
        BY <1>3, <2>3, <3>2
      <4> QED
        BY <1>1, <1>2, <2>2, <3>2, <4>1 DEF Delivered
    <3> QED
      BY <2>2, <2>3, <3>1, <3>2
  <2>5. ASSUME NEW c \in Consumers PROVE Follows(reader[c].got, pushed', Taken)
    <3>1. reader[c].got \in Seq(Pool!Values) /\ Follows(reader[c].got, pushed, Taken) /\ Taken =< Taken
      BY <1>3, <1>4
    <3> QED
      BY <1>1, <1>2, <1>3, <3>1, FollowsLonger
  <2>6. ASSUME NEW i \in 1 .. Taken
        PROVE  \E c \in Consumers : pushed'[i] \in Pool!Range(reader[c].got)
    <3>1. i \in 1 .. Len(pushed)
      BY <1>1, <1>3
    <3> QED
      BY <1>1, <1>2, <3>1 DEF Delivered
  <2>7. Delivered'
    BY <1>3, <2>1, <2>3, <2>4, <2>5, <2>6 DEF Delivered
  <2>8. OneDefer' /\ WaitersShare' /\ FailuresAreKept'
    BY <2>1 DEF PoolInv, OneDefer, WaitersShare, FailuresAreKept, Pool!Waiting
  <2> QED
    BY <1>1, <1>2, <1>6, <2>1, <2>2, <2>7, <2>8
<1> QED
  BY <1>5, <1>6

\* A consumer takes the first of the buffer, and nobody else waits.
LEMMA PullKeeps ==
    ASSUME PoolInv, NEW c \in Consumers, Pool!PullBuffered(c)
    PROVE  PoolInv'
<1>1. /\ reader \in [Consumers -> Readers]
      /\ pushed \in Seq(Pool!Values) /\ buffer \in Seq(Pool!Values) /\ Delivered
      /\ \A d \in Consumers : reader[d].pc \notin {"waiting", "failed"}
  BY PoolStates DEF Pool!PullBuffered
<1> DEFINE v == Head(buffer)
<1>2. /\ buffer # <<>> /\ buffer' = Tail(buffer)
      /\ reader' = [reader EXCEPT ![c] = Pool!Given(@, v)]
      /\ UNCHANGED <<offered, pushed, pooled, factory, poolDisposer, alive>>
  BY DEF Pool!PullBuffered
<1>3. /\ v = buffer[1] /\ v \in Pool!Values /\ Len(buffer) \in Nat \ {0}
      /\ buffer' \in Seq(Pool!Values) /\ Len(buffer') = Len(buffer) - 1
      /\ \A i \in 1 .. Len(buffer') : buffer'[i] = buffer[i + 1] /\ i + 1 \in 1 .. Len(buffer)
  BY <1>1, <1>2
<1> HIDE DEF v
<1>4. /\ Taken \in Nat /\ Taken' = Taken + 1 /\ Len(pushed) = Taken + Len(buffer)
      /\ Taken < Len(pushed) /\ v = pushed[Taken + 1] /\ 1 \in 1 .. Len(buffer)
  BY <1>1, <1>2, <1>3 DEF Taken, Delivered
<1>5. ASSUME NEW d \in Consumers
      PROVE  /\ reader'[d] \in Readers /\ reader'[d].pc \notin {"waiting", "failed"}
             /\ \/ d # c /\ reader'[d].got = reader[d].got
                \/ /\ d = c /\ reader'[d].got = Append(reader[d].got, v)
                   /\ Pool!Range(reader'[d].got) = Pool!Range(reader[d].got) \cup {v}
  <2>1. CASE d # c
    BY <1>1, <1>2, <2>1
  <2>2. CASE d = c
    <3>1. reader'[d] = Pool!Given(reader[d], v) /\ reader[d] \in Readers
      BY <1>1, <1>2, <2>2
    <3>2. /\ Pool!Given(reader[d], v) \in Readers
          /\ Pool!Given(reader[d], v).got = Append(reader[d].got, v)
          /\ Pool!Given(reader[d], v).pc \in {"done", "idle"}
          /\ Pool!Range(Append(reader[d].got, v)) = Pool!Range(reader[d].got) \cup {v}
      BY <1>3, <3>1, GivenBeside
    <3> QED
      BY <2>2, <3>1, <3>2
  <2> QED
    BY <2>1, <2>2
<1>6. reader' \in [Consumers -> Readers]
  BY <1>1, <1>2, <1>5
<1>7. ASSUME NEW i \in 1 .. Len(buffer') PROVE buffer'[i] = pushed'[Taken' + i]
  <2>1. Taken' + i = Taken + (i + 1)
    BY <1>4
  <2> QED
    BY <1>1, <1>2, <1>3, <2>1 DEF Delivered
<1>8. ASSUME NEW i \in 1 .. Taken'
      PROVE  \E d \in Consumers : pushed'[i] \in Pool!Range(reader'[d].got)
  <2>1. CASE i = Taken + 1
    BY <1>2, <1>4, <1>5, <2>1
  <2>2. CASE i \in 1 .. Taken
    <3>1. PICK d \in Consumers : pushed[i] \in Pool!Range(reader[d].got)
      BY <1>1, <2>2 DEF Delivered
    <3> QED
      BY <1>2, <1>5, <3>1
  <2> QED
    BY <1>4, <2>1, <2>2
<1>9. ASSUME NEW d \in Consumers PROVE Follows(reader'[d].got, pushed', Taken')
  <2>1. reader[d].got \in Seq(Pool!Values) /\ Follows(reader[d].got, pushed, Taken)
    BY <1>1 DEF Delivered, Readers
  <2>2. Follows(Append(reader[d].got, pushed[Taken + 1]), pushed, Taken + 1)
    BY <1>1, <1>4, <2>1, FollowsNext
  <2>3. /\ Taken + 1 \in Nat /\ Taken <= Taken + 1 /\ Taken <= Len(pushed)
        /\ \A i \in 1 .. Len(pushed) : i \in 1 .. Len(pushed) /\ pushed[i] = pushed[i]
    BY <1>1, <1>4
  <2>4. Follows(reader[d].got, pushed, Taken + 1)
    BY <1>1, <1>4, <2>1, <2>3, FollowsLonger
  <2> QED
    BY <1>2, <1>4, <1>5, <2>2, <2>4
<1>10. Delivered'
  BY <1>4, <1>5, <1>7, <1>8, <1>9 DEF Delivered
<1>11. Pool!TypeOK'
  BY <1>2, <1>3, <1>6 DEF PoolInv, Pool!TypeOK, Readers
<1>12. OneDefer' /\ WaitersShare' /\ FailuresAreKept'
  BY <1>1, <1>2, <1>5 DEF PoolInv, OneDefer, WaitersShare, FailuresAreKept, Pool!Waiting
<1> QED
  BY <1>10, <1>11, <1>12 DEF PoolInv

\* Consumers that wait, fail or leave change nothing of what was delivered.
LEMMA ReadersGoOn ==
    ASSUME PoolInv, reader' \in [Consumers -> Readers], UNCHANGED <<pushed, buffer>>,
           \A c \in Consumers :
               /\ reader'[c].got = reader[c].got
               /\ \/ reader'[c].pc = reader[c].pc
                  \/ reader[c].pc = "waiting"
                  \/ buffer = <<>>
                  \/ reader'[c].pc \notin {"waiting", "failed"}
    PROVE  Delivered'
<1>1. Taken' = Taken
  BY DEF Taken
<1>2. \A c \in Consumers : reader'[c].pc \in {"waiting", "failed"} => buffer' = <<>>
  BY DEF PoolInv, Delivered
<1> QED
  BY <1>1, <1>2 DEF PoolInv, Delivered

\* The pool begins with nothing accepted and nobody waiting.
LEMMA PoolBegins == Pool!Init => PoolInv
<1> SUFFICES ASSUME Pool!Init PROVE PoolInv
  OBVIOUS
<1> USE DEF Pool!Init
<1>1. Pool!TypeOK
  <2>1. <<>> \in Seq(Pool!Values) /\ 0 \in 0 .. MaxPushed
    BY LibraryAssumption DEF Pool!PoolAssumption
  <2> QED
    BY <2>1 DEF Pool!TypeOK
<1>2. OneDefer /\ WaitersShare /\ FailuresAreKept
  BY SharedDefers DEF OneDefer, WaitersShare, FailuresAreKept, Pool!Waiting
<1>3. Taken = 0
  BY DEF Taken
<1>4. ASSUME NEW c \in Consumers PROVE Follows(reader[c].got, pushed, Taken)
  <2>1. DOMAIN reader[c].got = {}
    OBVIOUS
  <2>2. [i \in {} |-> 1] \in [DOMAIN reader[c].got -> 1 .. Taken]
    BY <2>1
  <2> QED
    BY <2>1, <2>2 DEF Follows
<1>5. Delivered
  BY <1>3, <1>4 DEF Delivered
<1> QED
  BY <1>1, <1>2, <1>5 DEF PoolInv

\* Every step of the factory and of the consumers keeps what PoolInv says.
LEMMA PoolGoesOn == PoolInv /\ [Pool!Next]_(Pool!vars) => PoolInv'
<1> SUFFICES ASSUME PoolInv, [Pool!Next]_(Pool!vars) PROVE PoolInv'
  OBVIOUS
<1>0. /\ Pool!TypeOK /\ MaxPushed \in Nat /\ reader \in [Consumers -> Readers]
      /\ pooled \in {None, Pool!NewDefer, Pool!Rejected(Pool!NewDefer)}
  BY PoolStates, LibraryAssumption DEF PoolInv, OneDefer, Pool!PoolAssumption
<1>1. CASE Pool!Push
  <2>1. offered + 1 \in Pool!Values /\ offered' \in 0 .. MaxPushed
    BY <1>0, <1>1 DEF Pool!Push, Pool!TypeOK, Pool!Values
  <2>2. Pool!Pushed(offered + 1) /\ UNCHANGED <<factory, poolDisposer, alive>>
    BY <1>1 DEF Pool!Push
  <2> QED
    BY <1>0, <2>1, <2>2, PushKeeps DEF PoolInv, Pool!TypeOK, Readers
<1>2. CASE Pool!Ends
  <2>1. CASE Pool!PushThrows
    <3>1. factory' = "thrown" /\ UNCHANGED <<offered, pushed, buffer, pooled, reader, poolDisposer, alive>>
      BY <1>2, <2>1 DEF Pool!Ends
    <3> QED
      BY <1>0, <3>1 DEF PoolInv, OneDefer, WaitersShare, FailuresAreKept, Delivered, Taken,
                        Pool!TypeOK, Pool!Waiting
  <2>2. CASE ~Pool!PushThrows
    <3>1. End \in Pool!Values
      BY DEF Pool!Values
    <3>2. /\ Pool!Pushed(End) /\ factory' = "over" /\ UNCHANGED <<offered, poolDisposer, alive>>
      BY <1>2, <2>2 DEF Pool!Ends
    <3> QED
      BY <1>0, <3>1, <3>2, PushKeeps DEF PoolInv, Pool!TypeOK, Readers
  <2> QED
    BY <2>1, <2>2
<1>3. CASE Pool!PushRefused \/ Pool!On \/ Pool!FactorySettles \/ Pool!Unhandled
  <2>1. UNCHANGED <<pushed, buffer, pooled, reader>>
    BY <1>3 DEF Pool!PushRefused, Pool!On, Pool!FactorySettles, Pool!Unhandled
  <2>2. /\ offered' \in 0 .. MaxPushed /\ alive' \in BOOLEAN
        /\ factory' \in {"running", "returned", "thrown", "over"}
        /\ poolDisposer' \in {"unset", "set", "called"}
    <3>1. CASE Pool!PushRefused
      <4>1. /\ offered < MaxPushed /\ offered' = offered + 1
            /\ factory' \in IF factory = "running" THEN {"running", "thrown"} ELSE {factory}
            /\ UNCHANGED <<poolDisposer, alive>>
        BY <3>1 DEF Pool!PushRefused
      <4>2. offered' \in 0 .. MaxPushed
        BY <1>0, <4>1 DEF Pool!TypeOK
      <4>3. factory' \in {"running", "returned", "thrown", "over"}
        BY <1>0, <4>1 DEF Pool!TypeOK
      <4> QED
        BY <1>0, <4>1, <4>2, <4>3 DEF Pool!TypeOK
    <3>2. CASE Pool!On
      BY <1>0, <3>2 DEF Pool!On, Pool!TypeOK
    <3>3. CASE Pool!FactorySettles
      BY <1>0, <3>3 DEF Pool!FactorySettles, Pool!TypeOK
    <3>4. CASE Pool!Unhandled
      BY <1>0, <3>4 DEF Pool!Unhandled, Pool!TypeOK
    <3> QED
      BY <1>3, <3>1, <3>2, <3>3, <3>4
  <2>3. Pool!TypeOK'
    BY <1>0, <2>1, <2>2 DEF Pool!TypeOK
  <2> QED
    BY <2>1, <2>3 DEF PoolInv, OneDefer, WaitersShare, FailuresAreKept, Delivered, Taken, Pool!Waiting
<1>4. CASE Pool!Fails
  <2>1. /\ pooled' = Pool!Rejected(IF pooled = None THEN Pool!NewDefer ELSE pooled)
        /\ reader' = [c \in Consumers |->
                         IF c \in Pool!Waiting THEN [reader[c] EXCEPT !.pc = "failed"] ELSE reader[c]]
        /\ factory' = "over" /\ UNCHANGED <<offered, pushed, buffer, poolDisposer, alive>>
    BY <1>4 DEF Pool!Fails
  <2>2. pooled' = Pool!Rejected(Pool!NewDefer)
    BY <1>0, <2>1, SharedDefers
  <2>3. ASSUME NEW c \in Consumers
        PROVE  /\ reader'[c] \in Readers /\ reader'[c].got = reader[c].got
               /\ reader'[c].pc # "waiting"
               /\ reader[c].pc = "waiting" \/ reader'[c].pc = reader[c].pc
    BY <1>0, <2>1 DEF Readers, Pool!Waiting
  <2>4. reader' \in [Consumers -> Readers]
    BY <2>1, <2>3
  <2>5. Delivered'
    BY <2>1, <2>3, <2>4, ReadersGoOn
  <2>6. OneDefer' /\ WaitersShare' /\ FailuresAreKept'
    BY <2>2, <2>3, SharedDefers DEF OneDefer, WaitersShare, FailuresAreKept, Pool!Waiting
  <2>7. Pool!TypeOK'
    BY <1>0, <2>1, <2>2, <2>4, SharedDefers DEF Pool!TypeOK, Readers
  <2> QED
    BY <2>5, <2>6, <2>7 DEF PoolInv
<1>5. ASSUME NEW c \in Consumers, Pool!PullRejected(c) PROVE PoolInv'
  <2>1. /\ reader[c].pc = "idle" /\ buffer = <<>> /\ Pool!Settled
        /\ reader' = [reader EXCEPT ![c].pc = "failed"]
        /\ UNCHANGED <<offered, pushed, buffer, pooled, factory, poolDisposer, alive>>
    BY <1>5 DEF Pool!PullRejected
  <2>2. ASSUME NEW d \in Consumers
        PROVE  /\ reader'[d] \in Readers /\ reader'[d].got = reader[d].got
               /\ reader'[d].pc = IF d = c THEN "failed" ELSE reader[d].pc
    BY <1>0, <2>1 DEF Readers
  <2>3. reader' \in [Consumers -> Readers]
    BY <1>0, <2>1, <2>2
  <2>4. Delivered'
    BY <2>1, <2>2, <2>3, ReadersGoOn
  <2>5. OneDefer' /\ WaitersShare' /\ FailuresAreKept'
    <3>1. pooled' = Pool!Rejected(Pool!NewDefer) /\ pooled' # Pool!NewDefer
      BY <2>1, PoolStates, SharedDefers
    <3>2. \A d \in Consumers : reader[d].pc # "waiting" /\ reader'[d].pc # "waiting"
      BY <2>1, <2>2, <3>1, PoolStates
    <3> QED
      BY <3>1, <3>2 DEF OneDefer, WaitersShare, FailuresAreKept, Pool!Waiting
  <2>6. Pool!TypeOK'
    BY <1>0, <2>1, <2>3 DEF Pool!TypeOK, Readers
  <2> QED
    BY <2>4, <2>5, <2>6 DEF PoolInv
<1>6. ASSUME NEW c \in Consumers, Pool!PullWaits(c) PROVE PoolInv'
  <2>1. /\ reader[c].pc = "idle" /\ buffer = <<>> /\ ~Pool!Settled
        /\ pooled' = IF pooled = None THEN Pool!NewDefer ELSE pooled
        /\ reader' = [reader EXCEPT ![c].pc = "waiting"]
        /\ UNCHANGED <<offered, pushed, buffer, factory, poolDisposer, alive>>
    BY <1>6 DEF Pool!PullWaits
  <2>2. ASSUME NEW d \in Consumers
        PROVE  /\ reader'[d] \in Readers /\ reader'[d].got = reader[d].got
               /\ reader'[d].pc = IF d = c THEN "waiting" ELSE reader[d].pc
    BY <1>0, <2>1 DEF Readers
  <2>3. reader' \in [Consumers -> Readers]
    BY <1>0, <2>1, <2>2
  <2>4. Delivered'
    BY <2>1, <2>2, <2>3, ReadersGoOn
  <2>5. OneDefer' /\ WaitersShare' /\ FailuresAreKept'
    <3>1. pooled' = Pool!NewDefer
      BY <1>0, <2>1, PoolStates
    <3>2. reader'[c].pc = "waiting" /\ \A d \in Consumers : reader'[d].pc # "failed"
      BY <2>1, <2>2, PoolStates
    <3> QED
      BY <3>1, <3>2 DEF OneDefer, WaitersShare, FailuresAreKept, Pool!Waiting
  <2>6. Pool!TypeOK'
    BY <1>0, <2>1, <2>3, SharedDefers DEF Pool!TypeOK, Readers
  <2> QED
    BY <2>4, <2>5, <2>6 DEF PoolInv
<1>7. ASSUME NEW c \in Consumers, Pool!Return(c) PROVE PoolInv'
  <2>1. /\ reader[c].pc = "idle" /\ reader' = [reader EXCEPT ![c].pc = "left"]
        /\ poolDisposer' \in {"unset", "called"}
        /\ UNCHANGED <<offered, pushed, buffer, pooled, factory, alive>>
    BY <1>7 DEF Pool!Return
  <2>2. ASSUME NEW d \in Consumers
        PROVE  /\ reader'[d] \in Readers /\ reader'[d].got = reader[d].got
               /\ reader'[d].pc = IF d = c THEN "left" ELSE reader[d].pc
    BY <1>0, <2>1 DEF Readers
  <2>3. reader' \in [Consumers -> Readers]
    BY <1>0, <2>1, <2>2
  <2>4. Delivered'
    BY <2>1, <2>2, <2>3, ReadersGoOn
  <2>5. OneDefer' /\ WaitersShare' /\ FailuresAreKept'
    BY <2>1, <2>2 DEF PoolInv, OneDefer, WaitersShare, FailuresAreKept, Pool!Waiting
  <2>6. Pool!TypeOK'
    BY <1>0, <2>1, <2>3 DEF Pool!TypeOK, Readers
  <2> QED
    BY <2>4, <2>5, <2>6 DEF PoolInv
<1>8. CASE UNCHANGED Pool!vars
  BY <1>8 DEF PoolInv, OneDefer, WaitersShare, FailuresAreKept, Delivered, Taken, Pool!TypeOK,
              Pool!Waiting, Pool!vars
<1> QED
  BY <1>1, <1>2, <1>3, <1>4, <1>5, <1>6, <1>7, <1>8, PullKeeps DEF Pool!Next, Pool!Pull

------------------------------------------------------------------------------
(***************************************************************************)
(* AsyncCallback: the queue is in order and behind what has been given.    *)
(***************************************************************************)

\* Where fewer than two values were dropped, what is queued comes after all that was given.
QueueIsLater ==
    Cardinality(dropped) < 2 =>
        \A c \in Pullers : \A i \in DOMAIN puller[c].got : \A j \in DOMAIN emitQueue :
            puller[c].got[i] < emitQueue[j]

QueueIsInOrder == \A i, j \in DOMAIN emitQueue : i < j => emitQueue[i] < emitQueue[j]

CallbackInv ==
    /\ Callback!TypeOK /\ QueueIsInOrder /\ QueueIsLater /\ Callback!CallbackDelivery


\* AsyncCallback counts what this module counts.
LEMMA CallbackCounts == ASSUME NEW S PROVE Callback!Cardinality(S) = Cardinality(S)
<1>1. Callback!IsFiniteSet(S) <=> IsFiniteSet(S)
  BY DEF Callback!IsFiniteSet, IsFiniteSet
<1> QED
  BY Zenon DEF Callback!Cardinality, Cardinality

\* Where fewer than two were dropped, fewer were before, and no two.
LEMMA FewDropped ==
    ASSUME NEW D \in SUBSET (1 .. MaxEmitted), NEW C \in SUBSET D, Cardinality(D) < 2
    PROVE  Cardinality(C) < 2 /\ \A a, b \in D : a = b
<1>1. IsFiniteSet(D) /\ Cardinality(D) \in Nat
  <2>1. MaxEmitted \in Int /\ 1 \in Int
    BY LibraryAssumption DEF Callback!CallbackAssumption
  <2>2. IsFiniteSet(1 .. MaxEmitted)
    BY <2>1, FS_Interval
  <2>3. IsFiniteSet(D)
    BY <2>2, FS_Subset
  <2> QED
    BY <2>3, FS_CardinalityType
<1>2. Cardinality(C) < 2
  <2>1. Cardinality(C) \in Nat /\ Cardinality(C) <= Cardinality(D)
    BY <1>1, FS_Subset, FS_CardinalityType
  <2> QED
    BY <1>1, <2>1
<1>3. ASSUME NEW a \in D, NEW b \in D, a # b PROVE FALSE
  <2>1. IsFiniteSet({a}) /\ Cardinality({a}) = 1
    BY FS_Singleton
  <2>2. IsFiniteSet({a} \cup {b}) /\ Cardinality({a} \cup {b}) = Cardinality({a}) + 1
    BY <1>3, <2>1, FS_AddElement
  <2>3. {a} \cup {b} \in SUBSET D
    OBVIOUS
  <2>4. Cardinality({a} \cup {b}) <= Cardinality(D)
    BY <1>1, <2>3, FS_Subset
  <2> QED
    BY <1>1, <2>1, <2>2, <2>4
<1> QED
  BY <1>2, <1>3

\* What is left of a queue that is in order when its first k values are shifted.
LEMMA QueueCut ==
    ASSUME NEW q \in Seq(1 .. MaxEmitted), \A i, j \in DOMAIN q : i < j => q[i] < q[j],
           NEW k \in Nat, k <= Len(q)
    PROVE  LET r == SubSeq(q, k + 1, Len(q))
           IN  /\ r \in Seq(1 .. MaxEmitted) /\ Len(r) = Len(q) - k
               /\ \A i \in DOMAIN r : k + i \in DOMAIN q /\ r[i] = q[k + i]
               /\ \A i, j \in DOMAIN r : i < j => r[i] < r[j]
               /\ Callback!Range(q) = {q[i] : i \in 1 .. k} \cup Callback!Range(r)
               /\ {q[i] : i \in 1 .. k} \cap Callback!Range(r) = {}
<1> DEFINE r == SubSeq(q, k + 1, Len(q))
<1>0. MaxEmitted \in Nat /\ 1 .. MaxEmitted \subseteq Nat
  BY LibraryAssumption DEF Callback!CallbackAssumption
<1>a. Len(q) \in Nat /\ DOMAIN q = 1 .. Len(q) /\ k \in Nat /\ k <= Len(q)
  OBVIOUS
<1>b. \A i \in DOMAIN q : q[i] \in 1 .. MaxEmitted /\ q[i] \in Int
  BY <1>0
<1>1. k + 1 \in Int /\ Len(q) \in Int /\ \A i \in k + 1 .. Len(q) : q[i] \in 1 .. MaxEmitted
  BY <1>a, <1>b
<1>2. /\ r \in Seq(1 .. MaxEmitted)
      /\ Len(r) = IF k + 1 <= Len(q) THEN Len(q) - (k + 1) + 1 ELSE 0
      /\ \A i \in 1 .. Len(q) - (k + 1) + 1 : r[i] = q[(k + 1) + i - 1]
  BY <1>1, SubSeqProperties
<1> HIDE DEF r
<1>3. Len(r) = Len(q) - k /\ DOMAIN r = 1 .. Len(q) - k
  <2>1. Len(r) = Len(q) - k
    <3> DEFINE m == Len(q)
    <3>1. m \in Nat /\ k \in Nat /\ k <= m /\ Len(r) = IF k + 1 <= m THEN m - (k + 1) + 1 ELSE 0
      BY <1>2, <1>a
    <3> HIDE DEF m
    <3>2. Len(r) = m - k
      BY <3>1
    <3> QED
      BY <3>2 DEF m
  <2>2. DOMAIN r = 1 .. Len(r)
    BY <1>2
  <2> QED
    BY <2>1, <2>2
<1>4. ASSUME NEW i \in DOMAIN r PROVE k + i \in DOMAIN q /\ r[i] = q[k + i]
  <2>1. i \in 1 .. Len(q) - (k + 1) + 1 /\ (k + 1) + i - 1 = k + i /\ k + i \in 1 .. Len(q)
    BY <1>3, <1>a
  <2> QED
    BY <1>2, <1>a, <2>1
<1>5. ASSUME NEW i \in DOMAIN r, NEW j \in DOMAIN r, i < j PROVE r[i] < r[j]
  <2>1. k + i \in DOMAIN q /\ k + j \in DOMAIN q /\ k + i < k + j
    BY <1>3, <1>a, <1>4, <1>5
  <2> QED
    BY <1>4, <2>1
<1>6. ASSUME NEW i \in DOMAIN q PROVE q[i] \in {q[h] : h \in 1 .. k} \cup Callback!Range(r)
  <2>1. CASE i \in 1 .. k
    BY <2>1
  <2>2. CASE i \notin 1 .. k
    <3>1. i - k \in DOMAIN r /\ k + (i - k) = i
      BY <1>3, <1>a, <2>2
    <3>2. r[i - k] = q[i]
      BY <1>4, <3>1
    <3> QED
      BY <3>1, <3>2 DEF Callback!Range
  <2> QED
    BY <2>1, <2>2
<1>7. 1 .. k \subseteq DOMAIN q
  BY <1>a
<1>8. Callback!Range(q) = {q[i] : i \in 1 .. k} \cup Callback!Range(r)
  <2>1. Callback!Range(r) \subseteq Callback!Range(q)
    BY <1>4 DEF Callback!Range
  <2>2. {q[i] : i \in 1 .. k} \subseteq Callback!Range(q)
    BY <1>7 DEF Callback!Range
  <2>3. Callback!Range(q) \subseteq {q[i] : i \in 1 .. k} \cup Callback!Range(r)
    BY <1>6 DEF Callback!Range
  <2> QED
    BY <2>1, <2>2, <2>3
<1>9. ASSUME NEW i \in 1 .. k, NEW j \in DOMAIN r PROVE q[i] # r[j]
  <2>1. i \in DOMAIN q /\ k + j \in DOMAIN q /\ i < k + j
    BY <1>3, <1>a, <1>4, <1>7
  <2>2. q[i] < q[k + j] /\ q[i] \in Int /\ q[k + j] \in Int
    BY <2>1, <1>b
  <2>3. r[j] = q[k + j]
    BY <1>4
  <2> QED
    BY <2>2, <2>3
<1>10. {q[i] : i \in 1 .. k} \cap Callback!Range(r) = {}
  BY <1>9 DEF Callback!Range
<1> QED
  BY <1>2, <1>3, <1>4, <1>5, <1>8, <1>10 DEF r

PullCalls == [pc : {"idle", "waiting", "done", "left"}, got : Seq(1 .. MaxEmitted)]

\* Whoever is given a value has it behind those they had.
LEMMA GetsBehind ==
    ASSUME NEW r \in PullCalls, NEW v \in 1 .. MaxEmitted
    PROVE  /\ Callback!Gets(r, v) \in PullCalls /\ Callback!Gets(r, v).got = Append(r.got, v)
           /\ Callback!Gets(r, v).pc = "idle"
           /\ Callback!Range(Append(r.got, v)) = Callback!Range(r.got) \cup {v}
           /\ \A i \in DOMAIN Append(r.got, v) :
                  \/ i \in DOMAIN r.got /\ Append(r.got, v)[i] = r.got[i]
                  \/ i = Len(r.got) + 1 /\ Append(r.got, v)[i] = v
           /\ DOMAIN r.got = 1 .. Len(r.got) /\ Len(r.got) \in Nat
<1>1. r.got \in Seq(1 .. MaxEmitted)
  BY DEF PullCalls
<1>2. Append(r.got, v) \in Seq(1 .. MaxEmitted)
  BY <1>1
<1>3. /\ Callback!Gets(r, v) \in PullCalls /\ Callback!Gets(r, v).got = Append(r.got, v)
      /\ Callback!Gets(r, v).pc = "idle"
  BY <1>2 DEF Callback!Gets, PullCalls
<1>4. /\ DOMAIN Append(r.got, v) = 1 .. Len(r.got) + 1 /\ DOMAIN r.got = 1 .. Len(r.got)
      /\ \A i \in 1 .. Len(r.got) : Append(r.got, v)[i] = r.got[i]
      /\ Append(r.got, v)[Len(r.got) + 1] = v /\ Len(r.got) \in Nat
  BY <1>1
<1>5. 1 .. Len(r.got) + 1 = (1 .. Len(r.got)) \cup {Len(r.got) + 1}
  BY <1>4
<1>6. Callback!Range(Append(r.got, v)) = Callback!Range(r.got) \cup {v}
  BY <1>4, <1>5 DEF Callback!Range
<1> QED
  BY <1>3, <1>4, <1>5, <1>6

\* What CallbackInv says, of one caller and one value at a time.
LEMMA CallbackStates ==
    ASSUME CallbackInv
    PROVE  /\ emitted \in Nat /\ emitted <= MaxEmitted /\ MaxEmitted \in Nat
           /\ puller \in [Pullers -> PullCalls] /\ emitQueue \in Seq(1 .. MaxEmitted)
           /\ dropped \subseteq 1 .. MaxEmitted /\ dropped \subseteq Falsy
           /\ \A i, j \in DOMAIN emitQueue : i < j => emitQueue[i] < emitQueue[j]
           /\ 1 .. emitted = Callback!Range(emitQueue) \cup Callback!Given \cup dropped
           /\ Callback!Range(emitQueue) \cap (Callback!Given \cup dropped) = {}
           /\ \A c \in Pullers : \A i \in DOMAIN puller[c].got : puller[c].got[i] \in 1 .. emitted
           /\ \A i \in DOMAIN emitQueue : emitQueue[i] \in 1 .. emitted
<1>1. Callback!TypeOK /\ QueueIsInOrder /\ Callback!CallbackDelivery
  BY DEF CallbackInv
<1>2. MaxEmitted \in Nat
  BY LibraryAssumption DEF Callback!CallbackAssumption
<1>3. /\ emitted \in Nat /\ emitted <= MaxEmitted
      /\ puller \in [Pullers -> PullCalls] /\ emitQueue \in Seq(1 .. MaxEmitted)
      /\ dropped \subseteq 1 .. MaxEmitted
  BY <1>1, <1>2 DEF Callback!TypeOK, PullCalls
<1>4. /\ 1 .. emitted = Callback!Range(emitQueue) \cup Callback!Given \cup dropped
      /\ Callback!Range(emitQueue) \cap (Callback!Given \cup dropped) = {}
      /\ dropped \subseteq Falsy
  BY <1>1 DEF Callback!CallbackDelivery
<1>5. ASSUME NEW c \in Pullers, NEW i \in DOMAIN puller[c].got
      PROVE  puller[c].got[i] \in 1 .. emitted
  BY <1>4 DEF Callback!Given, Callback!Range
<1>6. ASSUME NEW i \in DOMAIN emitQueue PROVE emitQueue[i] \in 1 .. emitted
  BY <1>4 DEF Callback!Range
<1> QED
  BY <1>1, <1>2, <1>3, <1>4, <1>5, <1>6 DEF QueueIsInOrder

\* What all have been given when those of T are given v, and that each has it in order.
LEMMA CallbackServes ==
    ASSUME CallbackInv, NEW T \in SUBSET Pullers, NEW v \in 1 .. MaxEmitted,
           puller' \in [Pullers -> PullCalls],
           \A c \in Pullers : puller'[c].got = IF c \in T THEN Append(puller[c].got, v)
                                                          ELSE puller[c].got
    PROVE  /\ Callback!Given' = Callback!Given \cup IF T = {} THEN {} ELSE {v}
           /\ \A c \in Pullers : \A i \in DOMAIN puller'[c].got :
                 \/ i \in DOMAIN puller[c].got /\ puller'[c].got[i] = puller[c].got[i]
                 \/ c \in T /\ puller'[c].got[i] = v
           /\ Cardinality(dropped) < 2 /\ (\A c \in T : \A i \in DOMAIN puller[c].got :
                                               puller[c].got[i] < v)
              => \A c \in Pullers : \A i, j \in DOMAIN puller'[c].got :
                     i < j => puller'[c].got[i] < puller'[c].got[j]
<1>1. puller \in [Pullers -> PullCalls] /\ 1 .. MaxEmitted \subseteq Int
  BY CallbackStates
<1>2. ASSUME NEW c \in Pullers
      PROVE  /\ puller[c] \in PullCalls
             /\ c \in T => Callback!Range(puller'[c].got) = Callback!Range(puller[c].got) \cup {v}
             /\ c \notin T => Callback!Range(puller'[c].got) = Callback!Range(puller[c].got)
             /\ \A i \in DOMAIN puller'[c].got :
                   \/ i \in DOMAIN puller[c].got /\ puller'[c].got[i] = puller[c].got[i]
                   \/ c \in T /\ i = Len(puller[c].got) + 1 /\ puller'[c].got[i] = v
             /\ DOMAIN puller[c].got = 1 .. Len(puller[c].got) /\ Len(puller[c].got) \in Nat
  <2>1. puller[c] \in PullCalls
    BY <1>1
  <2>2. CASE c \in T
    <3>1. puller'[c].got = Append(puller[c].got, v)
      BY <2>2
    <3>2. /\ Callback!Range(Append(puller[c].got, v)) = Callback!Range(puller[c].got) \cup {v}
          /\ \A i \in DOMAIN Append(puller[c].got, v) :
                \/ i \in DOMAIN puller[c].got /\ Append(puller[c].got, v)[i] = puller[c].got[i]
                \/ i = Len(puller[c].got) + 1 /\ Append(puller[c].got, v)[i] = v
          /\ DOMAIN puller[c].got = 1 .. Len(puller[c].got) /\ Len(puller[c].got) \in Nat
      BY <2>1, GetsBehind
    <3> DEFINE next == Append(puller[c].got, v)
    <3> HIDE DEF next
    <3> QED
      BY <2>1, <2>2, <3>1, <3>2 DEF next
  <2>3. CASE c \notin T
    BY <2>1, <2>3, GetsBehind
  <2> QED
    BY <2>2, <2>3
<1>3. \A w : w \in Callback!Given' <=> \E c \in Pullers : w \in Callback!Range(puller'[c].got)
  BY DEF Callback!Given, Callback!Range
<1>4. \A w : w \in Callback!Given <=> \E c \in Pullers : w \in Callback!Range(puller[c].got)
  BY DEF Callback!Given
<1>5. Callback!Given' = Callback!Given \cup IF T = {} THEN {} ELSE {v}
  <2>1. \A c \in Pullers : \A w : w \in Callback!Range(puller'[c].got)
                                  <=> w \in Callback!Range(puller[c].got) \/ (c \in T /\ w = v)
    <3> TAKE c \in Pullers
    <3>1. /\ c \in T => Callback!Range(puller'[c].got) = Callback!Range(puller[c].got) \cup {v}
          /\ c \notin T => Callback!Range(puller'[c].got) = Callback!Range(puller[c].got)
      BY <1>2
    <3> QED
      BY <3>1
  <2>2. ASSUME NEW w PROVE w \in Callback!Given' <=> w \in Callback!Given \/ (T # {} /\ w = v)
    <3>1. w \in Callback!Given' => w \in Callback!Given \/ (T # {} /\ w = v)
      BY <1>3, <1>4, <2>1
    <3>2. w \in Callback!Given => w \in Callback!Given'
      BY <1>3, <1>4, <2>1
    <3>3. ASSUME NEW c \in T PROVE v \in Callback!Given'
      BY <1>3, <2>1
    <3> QED
      BY <3>1, <3>2, <3>3
  <2> QED
    BY <2>2
<1>6. ASSUME Cardinality(dropped) < 2,
             \A c \in T : \A i \in DOMAIN puller[c].got : puller[c].got[i] < v,
             NEW c \in Pullers, NEW i \in DOMAIN puller'[c].got, NEW j \in DOMAIN puller'[c].got,
             i < j
      PROVE  puller'[c].got[i] < puller'[c].got[j]
  <2>1. \A h, k \in DOMAIN puller[c].got : h < k => puller[c].got[h] < puller[c].got[k]
    BY <1>6, CallbackCounts DEF CallbackInv, Callback!CallbackDelivery
  <2>2. DOMAIN puller[c].got = 1 .. Len(puller[c].got) /\ Len(puller[c].got) \in Nat
    BY <1>2
  <2>3. \/ i \in DOMAIN puller[c].got /\ puller'[c].got[i] = puller[c].got[i]
        \/ c \in T /\ i = Len(puller[c].got) + 1 /\ puller'[c].got[i] = v
    BY <1>2
  <2>4. \/ j \in DOMAIN puller[c].got /\ puller'[c].got[j] = puller[c].got[j]
        \/ c \in T /\ j = Len(puller[c].got) + 1 /\ puller'[c].got[j] = v
    BY <1>2
  <2>5. i \in DOMAIN puller[c].got /\ puller'[c].got[i] = puller[c].got[i]
    BY <1>6, <2>2, <2>3, <2>4
  <2> QED
    BY <1>6, <2>1, <2>4, <2>5
<1> QED
  BY <1>2, <1>5, <1>6

\* Nobody is given anything, and nothing is emitted or shifted.
LEMMA CallbackRests ==
    ASSUME CallbackInv, puller' \in [Pullers -> PullCalls],
           UNCHANGED <<emitted, emitQueue, dropped>>, listens' \in BOOLEAN, linked' \in BOOLEAN,
           \A c \in Pullers : /\ puller'[c].got = puller[c].got
                              /\ puller'[c].pc = "waiting" => puller[c].pc = "waiting"
    PROVE  CallbackInv'
<1>1. Callback!TypeOK'
  BY DEF CallbackInv, Callback!TypeOK, PullCalls
<1>2. QueueIsInOrder' /\ QueueIsLater'
  BY DEF CallbackInv, QueueIsInOrder, QueueIsLater
<1>3. Callback!Given' = Callback!Given
  <2>1. Callback!Given' = UNION {Callback!Range(puller'[c].got) : c \in Pullers}
    BY DEF Callback!Given, Callback!Range
  <2> QED
    BY <2>1 DEF Callback!Given
<1>4. Callback!Pipeline' # {} => Callback!Pipeline # {}
  BY DEF Callback!Pipeline
<1>5. Callback!CallbackDelivery'
  BY <1>3, <1>4 DEF CallbackInv, Callback!CallbackDelivery, Callback!Range, Callback!Cardinality
<1> QED
  BY <1>1, <1>2, <1>5 DEF CallbackInv

\* At the start nothing is emitted.
LEMMA CallbackBegins == Callback!Init => CallbackInv
<1> SUFFICES ASSUME Callback!Init PROVE CallbackInv
  OBVIOUS
<1>1. MaxEmitted \in Nat
  BY LibraryAssumption DEF Callback!CallbackAssumption
<1>2. /\ emitted = 0 /\ emitQueue = <<>> /\ dropped = {} /\ linked = FALSE /\ listens = TRUE
      /\ puller = [c \in Pullers |-> [pc |-> "idle", got |-> <<>>]]
  BY DEF Callback!Init
<1>3. puller \in [Pullers -> PullCalls]
  <2>1. <<>> \in Seq(1 .. MaxEmitted)
    OBVIOUS
  <2>2. [pc |-> "idle", got |-> <<>>] \in PullCalls
    BY <2>1 DEF PullCalls
  <2> QED
    BY <1>2, <2>2
<1>4. Callback!TypeOK
  <2>1. emitted \in 0 .. MaxEmitted
    BY <1>1, <1>2
  <2>3. listens \in BOOLEAN /\ linked \in BOOLEAN
    BY <1>2, Zenon
  <2>2. emitQueue \in Seq(1 .. MaxEmitted) /\ dropped \subseteq 1 .. MaxEmitted
    BY <1>2
  <2> QED
    BY <1>3, <2>1, <2>2, <2>3 DEF Callback!TypeOK, PullCalls
<1>5. \A c \in Pullers : puller[c].got = <<>> /\ puller[c].pc = "idle"
  BY <1>2
<1>6. QueueIsInOrder /\ QueueIsLater
  BY <1>2 DEF QueueIsInOrder, QueueIsLater
<1>7. Callback!Given = {} /\ Callback!Range(emitQueue) = {} /\ Callback!Pipeline = {}
  BY <1>2, <1>5 DEF Callback!Given, Callback!Range, Callback!Pipeline
<1>8. 1 .. emitted = {}
  BY <1>2
<1>9. Callback!CallbackDelivery
  BY <1>2, <1>5, <1>7, <1>8 DEF Callback!CallbackDelivery
<1> QED
  BY <1>4, <1>6, <1>9 DEF CallbackInv


\* What is emitted is larger than all before it: it is given to all who wait, or queued last.
LEMMA CallbackEmits == CallbackInv /\ Callback!Emit => CallbackInv'
<1> SUFFICES ASSUME CallbackInv, Callback!Emit PROVE CallbackInv'
  OBVIOUS
<1> DEFINE v == emitted + 1  T == Callback!Pipeline
<1>1. /\ emitted < MaxEmitted /\ emitted' = v /\ UNCHANGED <<listens, linked, dropped>>
      /\ puller' = [c \in Pullers |->
                       IF c \in T THEN Callback!Gets(puller[c], v) ELSE puller[c]]
      /\ emitQueue' = IF T = {} THEN Append(emitQueue, v) ELSE emitQueue
  BY DEF Callback!Emit
<1>2. /\ emitted \in Nat /\ MaxEmitted \in Nat /\ puller \in [Pullers -> PullCalls]
      /\ emitQueue \in Seq(1 .. MaxEmitted)
      /\ \A c \in Pullers : \A i \in DOMAIN puller[c].got : puller[c].got[i] \in 1 .. emitted
      /\ \A i \in DOMAIN emitQueue : emitQueue[i] \in 1 .. emitted
      /\ \A i, j \in DOMAIN emitQueue : i < j => emitQueue[i] < emitQueue[j]
      /\ 1 .. emitted = Callback!Range(emitQueue) \cup Callback!Given \cup dropped
      /\ Callback!Range(emitQueue) \cap (Callback!Given \cup dropped) = {}
      /\ dropped \subseteq Falsy
  BY CallbackStates
<1>3. v \in 1 .. MaxEmitted /\ 1 .. v = (1 .. emitted) \cup {v} /\ v \notin 1 .. emitted
      /\ v \in Nat /\ \A i \in 1 .. emitted : i < v /\ i \in Nat
  BY <1>1, <1>2
<1>4. T \subseteq Pullers
  BY DEF Callback!Pipeline
<1> HIDE DEF v, T
<1>5. /\ puller' \in [Pullers -> PullCalls]
      /\ \A c \in Pullers : puller'[c].got = IF c \in T THEN Append(puller[c].got, v)
                                                       ELSE puller[c].got
      /\ \A c \in Pullers : puller'[c].pc # "waiting"
  <2>1. ASSUME NEW c \in Pullers
        PROVE  /\ puller'[c] \in PullCalls
               /\ puller'[c].got = IF c \in T THEN Append(puller[c].got, v) ELSE puller[c].got
               /\ puller'[c].pc # "waiting"
    <3>1. puller[c] \in PullCalls
      BY <1>2
    <3>2. CASE c \in T
      <4>1. puller'[c] = Callback!Gets(puller[c], v)
        BY <1>1, <3>2
      <4>2. /\ Callback!Gets(puller[c], v) \in PullCalls
            /\ Callback!Gets(puller[c], v).got = Append(puller[c].got, v)
            /\ Callback!Gets(puller[c], v).pc = "idle"
        BY <1>3, <3>1, GetsBehind
      <4> QED
        BY <3>2, <4>1, <4>2
    <3>3. CASE c \notin T
      <4>1. puller'[c] = puller[c]
        BY <1>1, <3>3
      <4>2. puller[c].pc # "waiting"
        BY <3>3 DEF T, Callback!Pipeline
      <4> QED
        BY <3>1, <3>3, <4>1, <4>2
    <3> QED
      BY <3>2, <3>3
  <2>2. puller' \in [Pullers -> PullCalls]
    BY <1>1, <2>1
  <2> QED
    BY <2>1, <2>2
<1>6. /\ Callback!Given' = Callback!Given \cup IF T = {} THEN {} ELSE {v}
      /\ \A c \in Pullers : \A i \in DOMAIN puller'[c].got :
            \/ i \in DOMAIN puller[c].got /\ puller'[c].got[i] = puller[c].got[i]
            \/ c \in T /\ puller'[c].got[i] = v
      /\ Cardinality(dropped) < 2
         => \A c \in Pullers : \A i, j \in DOMAIN puller'[c].got :
                i < j => puller'[c].got[i] < puller'[c].got[j]
  <2>1. \A c \in T : \A i \in DOMAIN puller[c].got : puller[c].got[i] < v
    BY <1>2, <1>3, <1>4
  <2> QED
    BY <1>3, <1>4, <1>5, <2>1, CallbackServes
<1>7. Callback!Pipeline' = {}
  BY <1>5 DEF Callback!Pipeline
<1>8. /\ emitQueue' \in Seq(1 .. MaxEmitted)
      /\ Callback!Range(emitQueue') = Callback!Range(emitQueue) \cup IF T = {} THEN {v} ELSE {}
      /\ \A i \in DOMAIN emitQueue' : \/ i \in DOMAIN emitQueue /\ emitQueue'[i] = emitQueue[i]
                                      \/ T = {} /\ i = Len(emitQueue) + 1 /\ emitQueue'[i] = v
      /\ DOMAIN emitQueue = 1 .. Len(emitQueue) /\ Len(emitQueue) \in Nat
  <2>1. CASE T = {}
    <3>1. emitQueue' = Append(emitQueue, v)
      BY <1>1, <2>1
    <3>2. /\ DOMAIN emitQueue' = 1 .. Len(emitQueue) + 1 /\ emitQueue' \in Seq(1 .. MaxEmitted)
          /\ DOMAIN emitQueue = 1 .. Len(emitQueue) /\ Len(emitQueue) \in Nat
          /\ \A i \in 1 .. Len(emitQueue) : emitQueue'[i] = emitQueue[i]
          /\ emitQueue'[Len(emitQueue) + 1] = v
      BY <1>2, <1>3, <3>1
    <3>3. 1 .. Len(emitQueue) + 1 = (1 .. Len(emitQueue)) \cup {Len(emitQueue) + 1}
      BY <3>2
    <3>4. Callback!Range(emitQueue') = Callback!Range(emitQueue) \cup {v}
      BY <3>2, <3>3 DEF Callback!Range
    <3> QED
      BY <2>1, <3>2, <3>3, <3>4
  <2>2. CASE T # {}
    BY <1>1, <1>2, <2>2
  <2> QED
    BY <2>1, <2>2
<1>9. QueueIsInOrder'
  <2> SUFFICES ASSUME NEW i \in DOMAIN emitQueue', NEW j \in DOMAIN emitQueue', i < j
               PROVE  emitQueue'[i] < emitQueue'[j]
    BY DEF QueueIsInOrder
  <2>1. i \in DOMAIN emitQueue /\ emitQueue'[i] = emitQueue[i]
    BY <1>8
  <2>2. CASE j \in DOMAIN emitQueue /\ emitQueue'[j] = emitQueue[j]
    BY <1>2, <2>1, <2>2
  <2>3. CASE emitQueue'[j] = v
    <3>1. emitQueue[i] \in 1 .. emitted
      BY <1>2, <2>1
    <3> QED
      BY <1>3, <2>1, <2>3, <3>1
  <2> QED
    BY <1>8, <2>2, <2>3
<1>10. QueueIsLater'
  <2> SUFFICES ASSUME Cardinality(dropped') < 2, NEW c \in Pullers, NEW i \in DOMAIN puller'[c].got,
                      NEW j \in DOMAIN emitQueue'
               PROVE  puller'[c].got[i] < emitQueue'[j]
    BY DEF QueueIsLater
  <2>0. Cardinality(dropped) < 2
    BY <1>1
  <2>1. CASE T = {}
    <3>1. i \in DOMAIN puller[c].got /\ puller'[c].got[i] = puller[c].got[i]
      BY <1>6, <2>1
    <3>2. puller[c].got[i] \in 1 .. emitted
      BY <1>2, <3>1
    <3>3. CASE j \in DOMAIN emitQueue /\ emitQueue'[j] = emitQueue[j]
      BY <2>0, <3>1, <3>3 DEF CallbackInv, QueueIsLater
    <3>4. CASE emitQueue'[j] = v
      BY <1>3, <3>1, <3>2, <3>4
    <3> QED
      BY <1>8, <3>3, <3>4
  <2>2. CASE T # {}
    <3>1. emitQueue = <<>>
      BY <2>0, <2>2, CallbackCounts DEF T, CallbackInv, Callback!CallbackDelivery
    <3>2. DOMAIN emitQueue' = {}
      BY <1>1, <2>2, <3>1
    <3> QED
      BY <3>2
  <2> QED
    BY <2>1, <2>2
<1>11. /\ 1 .. emitted' = Callback!Range(emitQueue') \cup Callback!Given' \cup dropped'
       /\ Callback!Range(emitQueue') \cap (Callback!Given' \cup dropped') = {}
       /\ dropped' \subseteq Falsy
  BY <1>1, <1>2, <1>3, <1>6, <1>8
<1>12. Callback!CallbackDelivery'
  <2>1. Callback!Range(emitQueue)' = Callback!Range(emitQueue')
    BY DEF Callback!Range
  <2>2. /\ Callback!Cardinality(dropped') < 2 => Cardinality(dropped) < 2
        /\ Callback!Cardinality(dropped)' = Callback!Cardinality(dropped')
    BY <1>1, CallbackCounts DEF Callback!Cardinality
  <2> QED
    BY <1>6, <1>7, <1>11, <2>1, <2>2 DEF Callback!CallbackDelivery
<1>13. Callback!TypeOK'
  <2>1. emitted' \in 0 .. MaxEmitted
    BY <1>1, <1>3
  <2>2. dropped' \subseteq 1 .. MaxEmitted /\ listens' \in BOOLEAN /\ linked' \in BOOLEAN
    BY <1>1 DEF CallbackInv, Callback!TypeOK
  <2> QED
    BY <1>5, <1>8, <2>1, <2>2 DEF Callback!TypeOK, PullCalls
<1> QED
  BY <1>9, <1>10, <1>12, <1>13 DEF CallbackInv


\* The caller is given the first that is not falsy, and what lies before it is dropped.
LEMMA CallbackFinds ==
    ASSUME CallbackInv, NEW c \in Pullers, Callback!PullFinds(c) PROVE CallbackInv'
<1>1. PICK n \in Callback!Shifts :
         /\ Callback!Found(n)
         /\ puller' = [puller EXCEPT ![c] = Callback!Gets(puller[c], emitQueue[n + 1])]
         /\ emitQueue' = SubSeq(emitQueue, n + 2, Len(emitQueue))
         /\ dropped' = dropped \cup {emitQueue[i] : i \in 1 .. n}
         /\ UNCHANGED <<emitted, listens, linked>>
  BY DEF Callback!PullFinds
<1> DEFINE k == n + 1  v == emitQueue[k]
<1>2. /\ emitted \in Nat /\ MaxEmitted \in Nat /\ puller \in [Pullers -> PullCalls]
      /\ emitQueue \in Seq(1 .. MaxEmitted)
      /\ dropped \subseteq 1 .. MaxEmitted /\ dropped \subseteq Falsy
      /\ \A i \in DOMAIN emitQueue : emitQueue[i] \in 1 .. emitted
      /\ \A i, j \in DOMAIN emitQueue : i < j => emitQueue[i] < emitQueue[j]
      /\ 1 .. emitted = Callback!Range(emitQueue) \cup Callback!Given \cup dropped
      /\ Callback!Range(emitQueue) \cap (Callback!Given \cup dropped) = {}
  BY CallbackStates
<1>3. /\ n \in Nat /\ n < Len(emitQueue) /\ \A i \in 1 .. n : emitQueue[i] \in Falsy
      /\ puller[c].pc = "idle"
  BY <1>1 DEF Callback!Shifts, Callback!Found, Callback!PullFinds
<1>4. DOMAIN emitQueue = 1 .. Len(emitQueue) /\ Len(emitQueue) \in Nat
  BY <1>2
<1>5. k \in Nat /\ k <= Len(emitQueue) /\ n + 2 = k + 1 /\ k \in DOMAIN emitQueue
      /\ 1 .. k = (1 .. n) \cup {k} /\ 1 .. n \subseteq DOMAIN emitQueue
  BY <1>3, <1>4
<1>6. v \in 1 .. MaxEmitted /\ v \in 1 .. emitted
  BY <1>2, <1>5
<1>7. puller' = [puller EXCEPT ![c] = Callback!Gets(puller[c], v)]
      /\ emitQueue' = SubSeq(emitQueue, k + 1, Len(emitQueue))
  BY <1>1, <1>5
<1> HIDE DEF k
<1>8. /\ emitQueue' \in Seq(1 .. MaxEmitted)
      /\ \A i \in DOMAIN emitQueue' : k + i \in DOMAIN emitQueue /\ emitQueue'[i] = emitQueue[k + i]
      /\ \A i, j \in DOMAIN emitQueue' : i < j => emitQueue'[i] < emitQueue'[j]
      /\ Callback!Range(emitQueue) = {emitQueue[i] : i \in 1 .. k} \cup Callback!Range(emitQueue')
      /\ {emitQueue[i] : i \in 1 .. k} \cap Callback!Range(emitQueue') = {}
  <2> DEFINE rest == SubSeq(emitQueue, k + 1, Len(emitQueue))
  <2>1. /\ rest \in Seq(1 .. MaxEmitted)
        /\ \A i \in DOMAIN rest : k + i \in DOMAIN emitQueue /\ rest[i] = emitQueue[k + i]
        /\ \A i, j \in DOMAIN rest : i < j => rest[i] < rest[j]
        /\ Callback!Range(emitQueue) = {emitQueue[i] : i \in 1 .. k} \cup Callback!Range(rest)
        /\ {emitQueue[i] : i \in 1 .. k} \cap Callback!Range(rest) = {}
    <3>1. /\ emitQueue \in Seq(1 .. MaxEmitted) /\ k \in Nat /\ k <= Len(emitQueue)
          /\ \A i, j \in DOMAIN emitQueue : i < j => emitQueue[i] < emitQueue[j]
      BY <1>2, <1>5
    <3> QED
      BY <3>1, QueueCut
  <2>2. emitQueue' = rest
    BY <1>7
  <2> HIDE DEF rest
  <2> QED
    BY <2>1, <2>2
<1>9. {emitQueue[i] : i \in 1 .. k} = {emitQueue[i] : i \in 1 .. n} \cup {v}
  <2>1. ASSUME NEW w PROVE w \in {emitQueue[i] : i \in 1 .. k} <=> w \in {emitQueue[i] : i \in 1 .. n} \/ w = v
    <3>1. \A i : i \in 1 .. k <=> i \in 1 .. n \/ i = k
      BY <1>5
    <3>2. w \in {emitQueue[i] : i \in 1 .. k} <=> \E i \in 1 .. k : w = emitQueue[i]
      OBVIOUS
    <3>3. w \in {emitQueue[i] : i \in 1 .. n} <=> \E i \in 1 .. n : w = emitQueue[i]
      OBVIOUS
    <3> HIDE DEF v
    <3>4. v = emitQueue[k]
      BY DEF v
    <3>5. (\E i \in 1 .. k : w = emitQueue[i]) <=> (\E i \in 1 .. n : w = emitQueue[i]) \/ w = emitQueue[k]
      BY <3>1, Zenon
    <3> QED
      BY <3>2, <3>3, <3>4, <3>5, Zenon
  <2> QED
    BY <2>1
<1> DEFINE D == {emitQueue[i] : i \in 1 .. n}
<1>10. D \subseteq Falsy /\ D \subseteq 1 .. MaxEmitted /\ dropped' = dropped \cup D
  <2>1. D \subseteq Falsy
    BY <1>3
  <2>2. \A i \in DOMAIN emitQueue : emitQueue[i] \in 1 .. MaxEmitted
    BY <1>2
  <2>3. D \subseteq 1 .. MaxEmitted
    BY <1>5, <2>2
  <2> QED
    BY <1>1, <2>1, <2>3
<1> HIDE DEF v, D
<1>11. /\ puller' \in [Pullers -> PullCalls]
       /\ \A d \in Pullers : puller'[d].got = IF d \in {c} THEN Append(puller[d].got, v)
                                                            ELSE puller[d].got
       /\ \A d \in Pullers : puller'[d].pc = "waiting" => puller[d].pc = "waiting"
  <2>1. ASSUME NEW d \in Pullers
        PROVE  /\ puller'[d] \in PullCalls
               /\ puller'[d].got = IF d \in {c} THEN Append(puller[d].got, v) ELSE puller[d].got
               /\ puller'[d].pc = "waiting" => puller[d].pc = "waiting"
    <3>1. puller[d] \in PullCalls
      BY <1>2
    <3>2. CASE d = c
      <4>1. puller'[d] = Callback!Gets(puller[d], v)
        BY <1>2, <1>7, <3>2
      <4>2. /\ Callback!Gets(puller[d], v) \in PullCalls
            /\ Callback!Gets(puller[d], v).got = Append(puller[d].got, v)
            /\ Callback!Gets(puller[d], v).pc = "idle"
        BY <1>6, <3>1, GetsBehind
      <4> QED
        BY <3>2, <4>1, <4>2
    <3>3. CASE d # c
      BY <1>2, <1>7, <3>1, <3>3
    <3> QED
      BY <3>2, <3>3
  <2>2. puller' \in [Pullers -> PullCalls]
    BY <1>2, <1>7, <2>1
  <2> QED
    BY <2>1, <2>2
<1>12. Cardinality(dropped') < 2 => Cardinality(dropped) < 2
  BY <1>2, <1>10, FewDropped
<1>13. Cardinality(dropped) < 2 => \A d \in {c} : \A i \in DOMAIN puller[d].got : puller[d].got[i] < v
  BY <1>5 DEF v, CallbackInv, QueueIsLater
<1>14. /\ Callback!Given' = Callback!Given \cup {v}
       /\ \A d \in Pullers : \A i \in DOMAIN puller'[d].got :
             \/ i \in DOMAIN puller[d].got /\ puller'[d].got[i] = puller[d].got[i]
             \/ d \in {c} /\ puller'[d].got[i] = v
       /\ Cardinality(dropped) < 2
          => \A d \in Pullers : \A i, j \in DOMAIN puller'[d].got :
                 i < j => puller'[d].got[i] < puller'[d].got[j]
  <2>1. /\ Callback!Given' = Callback!Given \cup IF {c} = {} THEN {} ELSE {v}
        /\ \A d \in Pullers : \A i \in DOMAIN puller'[d].got :
              \/ i \in DOMAIN puller[d].got /\ puller'[d].got[i] = puller[d].got[i]
              \/ d \in {c} /\ puller'[d].got[i] = v
        /\ Cardinality(dropped) < 2 /\ (\A d \in {c} : \A i \in DOMAIN puller[d].got :
                                            puller[d].got[i] < v)
           => \A d \in Pullers : \A i, j \in DOMAIN puller'[d].got :
                  i < j => puller'[d].got[i] < puller'[d].got[j]
    BY <1>6, <1>11, CallbackServes, {c} \in SUBSET Pullers
  <2> QED
    BY <1>13, <2>1
<1>15. QueueIsInOrder'
  BY <1>8 DEF QueueIsInOrder
<1>16. QueueIsLater'
  <2> SUFFICES ASSUME Cardinality(dropped') < 2, NEW d \in Pullers, NEW i \in DOMAIN puller'[d].got,
                      NEW j \in DOMAIN emitQueue'
               PROVE  puller'[d].got[i] < emitQueue'[j]
    BY DEF QueueIsLater
  <2>1. k + j \in DOMAIN emitQueue /\ emitQueue'[j] = emitQueue[k + j] /\ j \in 1 .. Len(emitQueue')
    BY <1>8
  <2>2. CASE i \in DOMAIN puller[d].got /\ puller'[d].got[i] = puller[d].got[i]
    BY <1>12, <2>1, <2>2 DEF CallbackInv, QueueIsLater
  <2>3. CASE puller'[d].got[i] = v
    <3>1. k < k + j
      BY <1>5, <2>1
    <3> QED
      BY <1>2, <1>5, <2>1, <2>3, <3>1 DEF v
  <2> QED
    BY <1>14, <2>2, <2>3
<1>17. Cardinality(dropped') < 2 => Callback!Pipeline' = {}
  <2> SUFFICES ASSUME Cardinality(dropped') < 2, NEW d \in Pullers, puller'[d].pc = "waiting"
               PROVE  FALSE
    BY DEF Callback!Pipeline
  <2>1. d \in Callback!Pipeline
    BY <1>11 DEF Callback!Pipeline
  <2>2. emitQueue = <<>>
    BY <1>12, <2>1, CallbackCounts DEF CallbackInv, Callback!CallbackDelivery
  <2> QED
    BY <1>3, <2>2
<1>18. /\ 1 .. emitted' = Callback!Range(emitQueue') \cup Callback!Given' \cup dropped'
       /\ Callback!Range(emitQueue') \cap (Callback!Given' \cup dropped') = {}
       /\ dropped' \subseteq Falsy
  <2>1. Callback!Range(emitQueue) = D \cup {v} \cup Callback!Range(emitQueue')
        /\ (D \cup {v}) \cap Callback!Range(emitQueue') = {}
    BY <1>8, <1>9 DEF D
  <2> QED
    BY <1>1, <1>2, <1>10, <1>14, <2>1
<1>19. Callback!CallbackDelivery'
  <2>1. Callback!Range(emitQueue)' = Callback!Range(emitQueue')
    BY DEF Callback!Range
  <2>2. Callback!Cardinality(dropped)' = Cardinality(dropped')
    BY CallbackCounts DEF Callback!Cardinality
  <2> QED
    BY <1>12, <1>14, <1>17, <1>18, <2>1, <2>2 DEF Callback!CallbackDelivery
<1>20. Callback!TypeOK'
  <2>1. emitted' \in 0 .. MaxEmitted /\ listens' \in BOOLEAN /\ linked' \in BOOLEAN
    BY <1>1 DEF CallbackInv, Callback!TypeOK
  <2>2. dropped' \subseteq 1 .. MaxEmitted
    BY <1>2, <1>10
  <2> QED
    BY <1>8, <1>11, <2>1, <2>2 DEF Callback!TypeOK, PullCalls
<1> QED
  BY <1>15, <1>16, <1>19, <1>20 DEF CallbackInv


\* Whoever waits has seen the end of the queue, or two falsy values before it.
LEMMA CallbackWaits ==
    ASSUME CallbackInv, NEW c \in Pullers, Callback!PullWaits(c) PROVE CallbackInv'
<1>1. PICK n \in Callback!Shifts :
         /\ \A m \in Callback!Shifts : m <= n
         /\ emitQueue' = SubSeq(emitQueue, n + 1, Len(emitQueue))
         /\ dropped' = dropped \cup {emitQueue[i] : i \in 1 .. n}
  BY DEF Callback!PullWaits
<1>2. /\ \A m \in Callback!Shifts : ~Callback!Found(m)
      /\ puller' = [puller EXCEPT ![c].pc = "waiting"]
      /\ UNCHANGED <<emitted, listens, linked>>
  BY DEF Callback!PullWaits
<1>3. /\ emitted \in Nat /\ MaxEmitted \in Nat /\ puller \in [Pullers -> PullCalls]
      /\ emitQueue \in Seq(1 .. MaxEmitted)
      /\ dropped \subseteq 1 .. MaxEmitted /\ dropped \subseteq Falsy
      /\ \A i, j \in DOMAIN emitQueue : i < j => emitQueue[i] < emitQueue[j]
      /\ 1 .. emitted = Callback!Range(emitQueue) \cup Callback!Given \cup dropped
      /\ Callback!Range(emitQueue) \cap (Callback!Given \cup dropped) = {}
  BY CallbackStates
<1>4. n \in 0 .. 2 /\ n <= Len(emitQueue) /\ \A i \in 1 .. n : emitQueue[i] \in Falsy
  BY <1>1 DEF Callback!Shifts
<1>5. /\ DOMAIN emitQueue = 1 .. Len(emitQueue) /\ Len(emitQueue) \in Nat /\ n \in Nat
      /\ 1 .. n \subseteq DOMAIN emitQueue
      /\ \A i \in DOMAIN emitQueue : emitQueue[i] \in 1 .. MaxEmitted /\ emitQueue[i] \in Int
  BY <1>3, <1>4
<1> DEFINE D == {emitQueue[i] : i \in 1 .. n}
<1>6. /\ emitQueue' \in Seq(1 .. MaxEmitted) /\ Len(emitQueue') = Len(emitQueue) - n
      /\ \A i \in DOMAIN emitQueue' : n + i \in DOMAIN emitQueue /\ emitQueue'[i] = emitQueue[n + i]
      /\ \A i, j \in DOMAIN emitQueue' : i < j => emitQueue'[i] < emitQueue'[j]
      /\ Callback!Range(emitQueue) = D \cup Callback!Range(emitQueue')
      /\ D \cap Callback!Range(emitQueue') = {}
  <2> DEFINE rest == SubSeq(emitQueue, n + 1, Len(emitQueue))
  <2>1. /\ rest \in Seq(1 .. MaxEmitted) /\ Len(rest) = Len(emitQueue) - n
        /\ \A i \in DOMAIN rest : n + i \in DOMAIN emitQueue /\ rest[i] = emitQueue[n + i]
        /\ \A i, j \in DOMAIN rest : i < j => rest[i] < rest[j]
        /\ Callback!Range(emitQueue) = D \cup Callback!Range(rest)
        /\ D \cap Callback!Range(rest) = {}
    BY <1>3, <1>4, <1>5, QueueCut
  <2>2. emitQueue' = rest
    BY <1>1
  <2> HIDE DEF rest
  <2> QED
    BY <2>1, <2>2
<1>7. /\ D \subseteq Falsy /\ D \subseteq 1 .. MaxEmitted /\ dropped' = dropped \cup D
      /\ \A i \in 1 .. n : emitQueue[i] \in D
  BY <1>1, <1>3, <1>4, <1>5
<1> HIDE DEF D
<1>8. /\ puller' \in [Pullers -> PullCalls]
      /\ \A d \in Pullers : puller'[d].got = puller[d].got
  <2>1. ASSUME NEW d \in Pullers PROVE puller'[d] \in PullCalls /\ puller'[d].got = puller[d].got
    <3>1. puller[d] \in PullCalls
      BY <1>3
    <3>2. puller'[d] = IF d = c THEN [puller[d] EXCEPT !.pc = "waiting"] ELSE puller[d]
      BY <1>2, <1>3
    <3> QED
      BY <3>1, <3>2 DEF PullCalls
  <2>2. puller' \in [Pullers -> PullCalls]
    BY <1>2, <1>3, <2>1
  <2> QED
    BY <2>1, <2>2
<1>9. Cardinality(dropped') < 2 => Cardinality(dropped) < 2 /\ \A a, b \in dropped' : a = b
  <2>1. dropped' \in SUBSET (1 .. MaxEmitted) /\ dropped \in SUBSET dropped'
    BY <1>3, <1>7
  <2> QED
    BY <2>1, FewDropped
<1>10. Callback!Given' = Callback!Given
  <2>1. Callback!Given' = UNION {Callback!Range(puller'[d].got) : d \in Pullers}
    BY DEF Callback!Given, Callback!Range
  <2> QED
    BY <1>8, <2>1 DEF Callback!Given
<1>11. Cardinality(dropped') < 2 => emitQueue' = <<>>
  <2> SUFFICES ASSUME Cardinality(dropped') < 2 PROVE emitQueue' = <<>>
    OBVIOUS
  <2>1. n < 2
    <3> SUFFICES ASSUME n = 2 PROVE FALSE
      BY <1>4
    <3>1. emitQueue[1] < emitQueue[2] /\ emitQueue[1] \in Int /\ emitQueue[2] \in Int
      BY <1>3, <1>5
    <3>2. emitQueue[1] = emitQueue[2]
      BY <1>7, <1>9
    <3> QED
      BY <3>1, <3>2
  <2>2. ASSUME n < Len(emitQueue) PROVE FALSE
    <3>1. emitQueue[n + 1] \in Falsy
      BY <1>2, <2>1, <2>2 DEF Callback!Found
    <3>2. n + 1 \in Callback!Shifts
      BY <1>4, <1>5, <2>1, <2>2, <3>1 DEF Callback!Shifts
    <3>3. \A m \in Callback!Shifts : m <= n
      BY <1>1
    <3>4. n + 1 <= n /\ n \in Int
      BY <1>5, <3>2, <3>3
    <3> QED
      BY <3>4
  <2>3. Len(emitQueue') = 0
    <3>1. ~(n < Len(emitQueue)) /\ n <= Len(emitQueue) /\ n \in Nat /\ Len(emitQueue) \in Nat
      BY <1>4, <1>5, <2>2
    <3>2. n = Len(emitQueue)
      BY <3>1
    <3> QED
      BY <1>6, <3>1, <3>2
  <2> QED
    BY <1>6, <2>3
<1>12. QueueIsInOrder'
  BY <1>6 DEF QueueIsInOrder
<1>13. QueueIsLater'
  BY <1>11 DEF QueueIsLater
<1>14. Callback!CallbackDelivery'
  <2>1. Callback!Range(emitQueue)' = Callback!Range(emitQueue')
    BY DEF Callback!Range
  <2>2. Callback!Cardinality(dropped)' = Cardinality(dropped')
    BY CallbackCounts DEF Callback!Cardinality
  <2>3. /\ 1 .. emitted' = Callback!Range(emitQueue') \cup Callback!Given' \cup dropped'
        /\ Callback!Range(emitQueue') \cap (Callback!Given' \cup dropped') = {}
        /\ dropped' \subseteq Falsy
    BY <1>2, <1>3, <1>6, <1>7, <1>10
  <2>4. Cardinality(dropped') < 2 => \A d \in Pullers : \A i, j \in DOMAIN puller'[d].got :
            i < j => puller'[d].got[i] < puller'[d].got[j]
    BY <1>8, <1>9, CallbackCounts DEF CallbackInv, Callback!CallbackDelivery
  <2> QED
    BY <1>11, <2>1, <2>2, <2>3, <2>4 DEF Callback!CallbackDelivery
<1>15. Callback!TypeOK'
  <2>1. emitted' \in 0 .. MaxEmitted /\ listens' \in BOOLEAN /\ linked' \in BOOLEAN
    BY <1>2 DEF CallbackInv, Callback!TypeOK
  <2>2. dropped' \subseteq 1 .. MaxEmitted
    BY <1>3, <1>7
  <2> QED
    BY <1>6, <1>8, <2>1, <2>2 DEF Callback!TypeOK, PullCalls
<1> QED
  BY <1>12, <1>13, <1>14, <1>15 DEF CallbackInv

\* Every step of AsyncCallback keeps CallbackInv.
LEMMA CallbackGoesOn == CallbackInv /\ [Callback!Next]_(Callback!vars) => CallbackInv'
<1> SUFFICES ASSUME CallbackInv, [Callback!Next]_(Callback!vars) PROVE CallbackInv'
  OBVIOUS
<1>0. puller \in [Pullers -> PullCalls] /\ listens \in BOOLEAN /\ linked \in BOOLEAN
  <2>1. listens \in BOOLEAN /\ linked \in BOOLEAN
    BY DEF CallbackInv, Callback!TypeOK
  <2> QED
    BY <2>1, CallbackStates
<1>1. CASE Callback!Emit
  BY <1>1, CallbackEmits
<1>2. CASE Callback!Linked
  BY <1>0, <1>2, CallbackRests DEF Callback!Linked
<1>3. CASE Callback!DisposeOutside
  <2>1. /\ UNCHANGED <<emitted, emitQueue, linked, dropped>> /\ listens' = (listens /\ ~linked)
        /\ puller' = [c \in Pullers |-> IF c \in Callback!Pipeline
                                        THEN [puller[c] EXCEPT !.pc = "done"] ELSE puller[c]]
    BY <1>3 DEF Callback!DisposeOutside, Callback!Dispose
  <2>2. /\ puller' \in [Pullers -> PullCalls]
        /\ \A c \in Pullers : /\ puller'[c].got = puller[c].got
                              /\ puller'[c].pc = "waiting" => puller[c].pc = "waiting"
    BY <1>0, <2>1 DEF PullCalls
  <2>3. listens' \in BOOLEAN /\ linked' \in BOOLEAN
    BY <1>0, <2>1
  <2> QED
    BY <2>1, <2>2, <2>3, CallbackRests
<1>4. ASSUME NEW c \in Pullers, Callback!Return(c) PROVE CallbackInv'
  <2>1. /\ UNCHANGED <<emitted, emitQueue, linked, dropped>> /\ listens' = (listens /\ ~linked)
        /\ puller' = [d \in Pullers |->
                         IF d \in Callback!Pipeline THEN [puller[d] EXCEPT !.pc = "done"]
                         ELSE IF d = c THEN [puller[d] EXCEPT !.pc = "left"] ELSE puller[d]]
    BY <1>4 DEF Callback!Return, Callback!Dispose
  <2>2. /\ puller' \in [Pullers -> PullCalls]
        /\ \A d \in Pullers : /\ puller'[d].got = puller[d].got
                              /\ puller'[d].pc = "waiting" => puller[d].pc = "waiting"
    BY <1>0, <2>1 DEF PullCalls
  <2>3. listens' \in BOOLEAN /\ linked' \in BOOLEAN
    BY <1>0, <2>1
  <2> QED
    BY <2>1, <2>2, <2>3, CallbackRests
<1>5. CASE UNCHANGED Callback!vars
  BY <1>0, <1>5, CallbackRests DEF Callback!vars
<1> QED
  BY <1>1, <1>2, <1>3, <1>4, <1>5, CallbackFinds, CallbackWaits DEF Callback!Next, Callback!Pull

\* AsyncPool gives every value to one reader, in the order of the values, or leaves it in
\* its buffer in that order; AsyncCallback gives each to all who wait for it, or queues it.
THEOREM EveryValueStaysDelivered == Pool!Spec /\ Callback!Spec => []EveryValueIsDelivered
<1>1. PoolInv => Pool!TypeOK /\ Pool!Delivery
  BY DeliveryIs DEF PoolInv
<1>2. CallbackInv => Callback!TypeOK /\ Callback!CallbackDelivery
  BY DEF CallbackInv
<1>3. PoolInv /\ CallbackInv => EveryValueIsDelivered
  BY <1>1, <1>2 DEF EveryValueIsDelivered
<1>4. Pool!Spec => []PoolInv
  BY PoolBegins, PoolGoesOn, PTL DEF Pool!Spec
<1>5. Callback!Spec => []CallbackInv
  BY CallbackBegins, CallbackGoesOn, PTL DEF Callback!Spec
<1> QED
  BY <1>3, <1>4, <1>5, PTL


------------------------------------------------------------------------------
(***************************************************************************)
(* Answer: entries that are set in a map of headers, and who has the last  *)
(* word on each of them.                                                   *)
(***************************************************************************)

NameAt(entries, i) == Lower[entries[i][1]]

\* Numbers have a least one.
LEMMA LeastExists ==
    ASSUME NEW I \in SUBSET Nat, I # {}
    PROVE  \E k \in I : \A m \in I : k <= m
<1>1. PICK k \in I : \A m \in I : ~(<<m, k>> \in OpToRel(<, Nat))
  BY NatLessThanWellFounded, WFMin
<1>2. \A m \in I : ~(m < k)
  BY <1>1 DEF OpToRel
<1> QED
  BY <1>2

\* A name among entries is the name of a last one.
LEMMA LastExists ==
    ASSUME NEW S, NEW entries \in Seq(S), NEW n \in Web!Names(entries)
    PROVE  \E i \in DOMAIN entries :
               /\ NameAt(entries, i) = n
               /\ \A j \in DOMAIN entries : NameAt(entries, j) = n => j <= i
<1> DEFINE I == {k \in Nat : \E i \in DOMAIN entries : k = Len(entries) - i /\ NameAt(entries, i) = n}
<1>1. DOMAIN entries = 1 .. Len(entries) /\ Len(entries) \in Nat
  OBVIOUS
<1>2. PICK i \in DOMAIN entries : NameAt(entries, i) = n
  BY DEF Web!Names, NameAt
<1>3. Len(entries) - i \in I
  BY <1>1, <1>2
<1>4. I \subseteq Nat /\ I # {}
  BY <1>3
<1>5. PICK k \in I : \A m \in I : k <= m
  <2> HIDE DEF I
  <2> QED
    BY <1>4, LeastExists
<1>7. PICK l \in DOMAIN entries : k = Len(entries) - l /\ NameAt(entries, l) = n
  BY <1>5
<1>8. ASSUME NEW j \in DOMAIN entries, NameAt(entries, j) = n PROVE j <= l
  <2>1. Len(entries) - j \in I
    BY <1>1, <1>8
  <2> QED
    BY <1>1, <1>5, <1>7, <2>1
<1> QED
  BY <1>7, <1>8

\* The entry that names n last gives its value.
LEMMA LastGives ==
    ASSUME NEW map, NEW S, NEW entries \in Seq(S), NEW i \in DOMAIN entries,
           \A j \in DOMAIN entries : NameAt(entries, j) = NameAt(entries, i) => j <= i
    PROVE  /\ NameAt(entries, i) \in Web!Names(entries)
           /\ Web!PutAll(map, entries)[NameAt(entries, i)] = entries[i][2]
<1> DEFINE n == NameAt(entries, i)
<1>1. DOMAIN entries = 1 .. Len(entries) /\ Len(entries) \in Nat
  OBVIOUS
<1>2. n \in Web!Names(entries)
  BY DEF Web!Names, NameAt
<1>3. Web!LastNamed(entries, n) = i
  <2> DEFINE P(k) == NameAt(entries, k) = n /\ \A j \in DOMAIN entries : NameAt(entries, j) = n => j <= k
  <2>1. P(i) /\ \A k \in DOMAIN entries : P(k) => k = i
    BY <1>1
  <2>2. Web!LastNamed(entries, n) = CHOOSE k \in DOMAIN entries : P(k)
    BY DEF Web!LastNamed, NameAt
  <2> HIDE DEF P
  <2> QED
    BY <2>1, <2>2
<1> HIDE DEF n
<1>4. Web!PutAll(map, entries)[n] = entries[Web!LastNamed(entries, n)][2]
  BY <1>2 DEF Web!PutAll, Web!Over
<1> QED
  BY <1>2, <1>3, <1>4 DEF n

\* What a map has that entries were put in: what they do not name is as it was.
LEMMA OthersStay ==
    ASSUME NEW map, NEW entries
    PROVE  /\ DOMAIN Web!PutAll(map, entries) = DOMAIN map \cup Web!Names(entries)
           /\ \A n \in DOMAIN map : n \notin Web!Names(entries) => Web!PutAll(map, entries)[n] = map[n]
BY DEF Web!PutAll, Web!Over

\* One after the other: the places of a sequence that is two joined.
LEMMA Joined ==
    ASSUME NEW S, NEW a \in Seq(S), NEW b \in Seq(S)
    PROVE  /\ a \o b \in Seq(S)
           /\ \A i \in DOMAIN a : i \in DOMAIN (a \o b) /\ (a \o b)[i] = a[i]
           /\ \A i \in DOMAIN b : /\ Len(a) + i \in DOMAIN (a \o b)
                                  /\ (a \o b)[Len(a) + i] = b[i]
           /\ \A i \in DOMAIN (a \o b) :
                  i \in DOMAIN a \/ \E j \in DOMAIN b : i = Len(a) + j
<1>1. /\ DOMAIN a = 1 .. Len(a) /\ DOMAIN b = 1 .. Len(b) /\ Len(a) \in Nat /\ Len(b) \in Nat
      /\ a \o b \in Seq(S) /\ DOMAIN (a \o b) = 1 .. Len(a) + Len(b)
      /\ \A i \in 1 .. Len(a) + Len(b) : (a \o b)[i] = IF i <= Len(a) THEN a[i] ELSE b[i - Len(a)]
  OBVIOUS
<1>2. ASSUME NEW i \in DOMAIN (a \o b), i \notin DOMAIN a
      PROVE  \E j \in DOMAIN b : i = Len(a) + j
  <2>1. i - Len(a) \in DOMAIN b /\ i = Len(a) + (i - Len(a))
    BY <1>1, <1>2
  <2> QED
    BY <2>1
<1>3. \A i \in DOMAIN b : Len(a) + i \in DOMAIN (a \o b) /\ (a \o b)[Len(a) + i] = b[i]
  BY <1>1
<1>4. \A i \in DOMAIN a : i \in DOMAIN (a \o b) /\ (a \o b)[i] = a[i]
  BY <1>1
<1> QED
  BY <1>1, <1>2, <1>3, <1>4

\* Entries that are put behind others have the last word on what they name, whatever the
\* map, and leave the others theirs.
LEMMA PutOnward ==
    ASSUME NEW S, NEW a \in Seq(S), NEW b \in Seq(S)
    PROVE  /\ Web!Names(a \o b) = Web!Names(a) \cup Web!Names(b)
           /\ \A map, other : \A n \in Web!Names(b) :
                  Web!PutAll(map, a \o b)[n] = Web!PutAll(other, b)[n]
           /\ \A map, other : \A n \in Web!Names(a) \ Web!Names(b) :
                  Web!PutAll(map, a \o b)[n] = Web!PutAll(other, a)[n]
<1> DEFINE ab == a \o b
<1>1. /\ ab \in Seq(S) /\ DOMAIN a = 1 .. Len(a) /\ DOMAIN b = 1 .. Len(b)
      /\ Len(a) \in Nat /\ Len(b) \in Nat /\ DOMAIN ab = 1 .. Len(a) + Len(b)
      /\ \A i \in DOMAIN a : i \in DOMAIN ab /\ ab[i] = a[i]
      /\ \A i \in DOMAIN b : Len(a) + i \in DOMAIN ab /\ ab[Len(a) + i] = b[i]
      /\ \A i \in DOMAIN ab : i \in DOMAIN a \/ \E j \in DOMAIN b : i = Len(a) + j
  BY Joined
<1> HIDE DEF ab
<1>0. ab \in Seq(S)
  BY <1>1
<1>2. /\ \A i \in DOMAIN a : i \in DOMAIN ab /\ NameAt(ab, i) = NameAt(a, i)
      /\ \A i \in DOMAIN b : Len(a) + i \in DOMAIN ab /\ NameAt(ab, Len(a) + i) = NameAt(b, i)
  BY <1>1 DEF NameAt
<1>3. Web!Names(ab) = Web!Names(a) \cup Web!Names(b)
  <2>1. \A e : Web!Names(e) = {NameAt(e, i) : i \in DOMAIN e}
    BY DEF Web!Names, NameAt
  <2>2. \A i \in DOMAIN ab : NameAt(ab, i) \in {NameAt(a, j) : j \in DOMAIN a} \cup {NameAt(b, j) : j \in DOMAIN b}
    BY <1>1, <1>2
  <2> QED
    BY <1>2, <2>1, <2>2
<1>4. ASSUME NEW map, NEW other, NEW n \in Web!Names(b)
      PROVE  Web!PutAll(map, ab)[n] = Web!PutAll(other, b)[n]
  <2>1. PICK i \in DOMAIN b : /\ NameAt(b, i) = n
                              /\ \A j \in DOMAIN b : NameAt(b, j) = n => j <= i
    BY LastExists
  <2>2. Web!PutAll(other, b)[n] = b[i][2]
    BY <2>1, LastGives
  <2> DEFINE k == Len(a) + i
  <2>3. k \in DOMAIN ab /\ NameAt(ab, k) = n /\ ab[k] = b[i]
    BY <1>1, <1>2, <2>1
  <2>4. ASSUME NEW j \in DOMAIN ab, NameAt(ab, j) = n PROVE j <= k
    <3>1. CASE j \in DOMAIN a
      BY <1>1, <3>1
    <3>2. CASE j \notin DOMAIN a
      <4>1. PICK m \in DOMAIN b : j = Len(a) + m
        BY <1>1, <3>2
      <4>2. m <= i
        BY <1>2, <2>1, <2>4, <4>1
      <4> QED
        BY <1>1, <4>1, <4>2
    <3> QED
      BY <3>1, <3>2
  <2> HIDE DEF k
  <2>5. \A j \in DOMAIN ab : NameAt(ab, j) = NameAt(ab, k) => j <= k
    BY <2>3, <2>4
  <2>6. k \in DOMAIN ab
    BY <2>3
  <2>7. Web!PutAll(map, ab)[NameAt(ab, k)] = ab[k][2]
    BY <1>0, <2>5, <2>6, LastGives
  <2> QED
    BY <2>2, <2>3, <2>7
<1>5. ASSUME NEW map, NEW other, NEW n \in Web!Names(a) \ Web!Names(b)
      PROVE  Web!PutAll(map, ab)[n] = Web!PutAll(other, a)[n]
  <2>1. PICK i \in DOMAIN a : /\ NameAt(a, i) = n
                              /\ \A j \in DOMAIN a : NameAt(a, j) = n => j <= i
    BY LastExists
  <2>2. Web!PutAll(other, a)[n] = a[i][2]
    BY <2>1, LastGives
  <2>3. i \in DOMAIN ab /\ NameAt(ab, i) = n /\ ab[i] = a[i]
    BY <1>1, <1>2, <2>1
  <2>4. ASSUME NEW j \in DOMAIN ab, NameAt(ab, j) = n PROVE j <= i
    <3>1. ASSUME j \notin DOMAIN a PROVE FALSE
      <4>1. PICK m \in DOMAIN b : j = Len(a) + m
        BY <1>1, <3>1
      <4>2. NameAt(b, m) = n
        BY <1>2, <2>4, <4>1
      <4> QED
        BY <1>5, <4>2 DEF Web!Names, NameAt
    <3> QED
      BY <1>2, <2>1, <2>4, <3>1
  <2>5. \A j \in DOMAIN ab : NameAt(ab, j) = NameAt(ab, i) => j <= i
    BY <2>3, <2>4
  <2>6. i \in DOMAIN ab
    BY <2>3
  <2>7. Web!PutAll(map, ab)[NameAt(ab, i)] = ab[i][2]
    BY <1>0, <2>5, <2>6, LastGives
  <2> QED
    BY <2>2, <2>3, <2>7
<1> QED
  BY <1>3, <1>4, <1>5 DEF ab

Behind(a, b) == a \o b

\* The same for one map.
LEMMA PutBehind ==
    ASSUME NEW S, NEW a \in Seq(S), NEW b \in Seq(S), NEW map
    PROVE  /\ Behind(a, b) \in Seq(S) /\ Web!Names(Behind(a, b)) = Web!Names(a) \cup Web!Names(b)
           /\ \A n \in Web!Names(b) : Web!PutAll(map, Behind(a, b))[n] = Web!PutAll(map, b)[n]
           /\ \A n \in Web!Names(a) \ Web!Names(b) :
                  Web!PutAll(map, Behind(a, b))[n] = Web!PutAll(map, a)[n]
BY PutOnward DEF Behind

\* A pair is two singles joined.
LEMMA TwoJoined == ASSUME NEW x, NEW y PROVE <<x, y>> = <<x>> \o <<y>>
<1> DEFINE S == {x, y}
<1>1. <<x>> \in Seq(S) /\ <<y>> \in Seq(S) /\ <<x, y>> \in Seq(S)
  OBVIOUS
<1>2. <<x, y>> = Append(<<x>>, y)
  OBVIOUS
<1>3. Append(<<x>>, y) = <<x>> \o <<y>>
  BY <1>1, AppendIsConcat
<1> QED
  BY <1>2, <1>3

\* A single entry.
LEMMA PutOne ==
    ASSUME NEW map, NEW k, NEW v
    PROVE  /\ Web!Names(<<<<k, v>>>>) = {Lower[k]}
           /\ Web!PutAll(map, <<<<k, v>>>>)[Lower[k]] = v
<1> DEFINE e == <<k, v>>
<1>1. e[1] = k /\ e[2] = v
  OBVIOUS
<1> HIDE DEF e
<1> DEFINE s == <<e>>
<1>2. /\ s \in Seq({e}) /\ DOMAIN s = {1} /\ s[1] = e
  OBVIOUS
<1> HIDE DEF s
<1>3. NameAt(s, 1) = Lower[k]
  BY <1>1, <1>2 DEF NameAt
<1>4. Web!Names(s) = {Lower[k]}
  BY <1>2, <1>3 DEF Web!Names, NameAt
<1>5. Web!PutAll(map, s)[NameAt(s, 1)] = s[1][2]
  <2>1. 1 \in DOMAIN s /\ \A j \in DOMAIN s : NameAt(s, j) = NameAt(s, 1) => j <= 1
    BY <1>2
  <2> QED
    BY <1>2, <2>1, LastGives
<1> QED
  BY <1>1, <1>2, <1>3, <1>4, <1>5 DEF e, s


\* What the validator lets the origin know is among the headers h, but for some names.
Allows(h, but) ==
    /\ "access-control-allow-origin" \notin but =>
           /\ "access-control-allow-origin" \in DOMAIN h
           /\ h["access-control-allow-origin"] = Web!AllowedOrigin
    /\ policy.origin = "origin" /\ "vary" \notin but => "vary" \in DOMAIN h /\ h["vary"] = "Origin"
    /\ policy.credentials /\ "access-control-allow-credentials" \notin but =>
           /\ "access-control-allow-credentials" \in DOMAIN h
           /\ h["access-control-allow-credentials"] = "true"

Says(entries, n) == {entries[i][2] : i \in {j \in DOMAIN entries : Lower[entries[j][1]] = n}}

AnswerTypes ==
    /\ Web!TypeOK
    /\ cookies \in Seq(CookieNames \X Nat)
    /\ server \in ServerHeaders

\* Until its answer is sent the headers of a request are the validator's, and nobody but
\* the validator makes the answer to a preflight.
AnswerStages ==
    /\ stage = "arrived" => headers = Web!Nothing
    /\ answer = "response" => ownHeaders \in OwnHeaders
    /\ answer = "preflight" => ownHeaders = Web!AccessControlHeaders
    /\ stage \in {"running", "answering"} /\ policy # NoPolicy /\ asked.method # "OPTIONS"
       => Allows(headers, {})

AnswerInv == AnswerTypes /\ AnswerStages /\ Web!OriginIsToldTheSame /\ Web!LastWordIsKept

OriginEntry == <<"access-control-allow-origin", Web!AllowedOrigin>>
MethodsEntry == <<"access-control-allow-methods", {t.method : t \in Web!RouteTuples}>>
VaryEntry == <<"Vary", "Origin">>
CredentialsEntry == <<"access-control-allow-credentials", "true">>
TypeEntry == <<"content-type", "class">>
Entries == {OriginEntry, MethodsEntry, VaryEntry, CredentialsEntry, TypeEntry}


\* The names of the code's own entries are as they are written, "Vary" aside.
LEMMA NamesAreKept ==
    /\ Lower["access-control-allow-origin"] = "access-control-allow-origin"
    /\ Lower["access-control-allow-methods"] = "access-control-allow-methods"
    /\ Lower["access-control-allow-credentials"] = "access-control-allow-credentials"
    /\ Lower["vary"] = "vary" /\ Lower["Vary"] = "vary"
    /\ Lower["content-type"] = "content-type" /\ Lower["set-cookie"] = "set-cookie"
    /\ \A e \in Entries : e[1] \in DOMAIN Lower
BY LibraryAssumption DEF Web!AnswerAssumption, Entries, OriginEntry, MethodsEntry, VaryEntry,
                         CredentialsEntry, TypeEntry

\* Names of entries are in lower case.
LEMMA NamesAreLower ==
    ASSUME NEW S, NEW entries \in Seq(S), \A e \in S : e[1] \in DOMAIN Lower,
           NEW n \in Web!Names(entries)
    PROVE  Lower[n] = n
<1>1. PICK i \in DOMAIN entries : n = Lower[entries[i][1]]
  BY DEF Web!Names
<1>2. entries[i] \in S
  OBVIOUS
<1> QED
  BY <1>1, <1>2, LibraryAssumption DEF Web!AnswerAssumption

\* The validator's entries, one by one.
LEMMA ValidatorEntries ==
    /\ <<OriginEntry>> \in Seq(Entries) /\ <<MethodsEntry>> \in Seq(Entries)
    /\ <<TypeEntry>> \in Seq(Entries) /\ Web!Vary \in Seq(Entries) /\ Web!Credentials \in Seq(Entries)
    /\ Web!Names(<<OriginEntry>>) = {"access-control-allow-origin"}
    /\ Web!Names(<<MethodsEntry>>) = {"access-control-allow-methods"}
    /\ Web!Names(<<TypeEntry>>) = {"content-type"}
    /\ Web!Names(Web!Vary) = IF policy.origin = "origin" THEN {"vary"} ELSE {}
    /\ Web!Names(Web!Credentials) =
           IF policy.credentials THEN {"access-control-allow-credentials"} ELSE {}
    /\ \A map : Web!PutAll(map, <<OriginEntry>>)["access-control-allow-origin"] = Web!AllowedOrigin
    /\ \A map : policy.origin = "origin" => Web!PutAll(map, Web!Vary)["vary"] = "Origin"
    /\ \A map : policy.credentials
                => Web!PutAll(map, Web!Credentials)["access-control-allow-credentials"] = "true"
<1>1. ASSUME NEW e \in Entries PROVE <<e>> \in Seq(Entries)
  OBVIOUS
<1>2. /\ OriginEntry \in Entries /\ MethodsEntry \in Entries /\ VaryEntry \in Entries
      /\ CredentialsEntry \in Entries /\ TypeEntry \in Entries
  BY DEF Entries
<1>3. Web!Names(<<>>) = {} /\ <<>> \in Seq(Entries)
  BY DEF Web!Names
<1>4. /\ Web!Names(<<OriginEntry>>) = {"access-control-allow-origin"}
      /\ \A map : Web!PutAll(map, <<OriginEntry>>)["access-control-allow-origin"] = Web!AllowedOrigin
  BY NamesAreKept, PutOne DEF OriginEntry
<1>5. Web!Names(<<MethodsEntry>>) = {"access-control-allow-methods"}
  BY NamesAreKept, PutOne DEF MethodsEntry
<1>6. Web!Names(<<TypeEntry>>) = {"content-type"}
  BY NamesAreKept, PutOne DEF TypeEntry
<1>7. /\ Web!Names(<<VaryEntry>>) = {"vary"}
      /\ \A map : Web!PutAll(map, <<VaryEntry>>)["vary"] = "Origin"
  BY NamesAreKept, PutOne DEF VaryEntry
<1>8. /\ Web!Names(<<CredentialsEntry>>) = {"access-control-allow-credentials"}
      /\ \A map : Web!PutAll(map, <<CredentialsEntry>>)["access-control-allow-credentials"] = "true"
  BY NamesAreKept, PutOne DEF CredentialsEntry
<1>9. /\ Web!Vary = IF policy.origin = "origin" THEN <<VaryEntry>> ELSE <<>>
      /\ Web!Credentials = IF policy.credentials THEN <<CredentialsEntry>> ELSE <<>>
  BY DEF Web!Vary, Web!Credentials, VaryEntry, CredentialsEntry
<1>10. /\ Web!Vary \in Seq(Entries)
       /\ Web!Names(Web!Vary) = IF policy.origin = "origin" THEN {"vary"} ELSE {}
       /\ \A map : policy.origin = "origin" => Web!PutAll(map, Web!Vary)["vary"] = "Origin"
  <2>1. CASE policy.origin = "origin"
    BY <1>1, <1>2, <1>7, <1>9, <2>1
  <2>2. CASE policy.origin # "origin"
    BY <1>3, <1>9, <2>2
  <2> QED
    BY <2>1, <2>2
<1>11. /\ Web!Credentials \in Seq(Entries)
       /\ Web!Names(Web!Credentials) =
              IF policy.credentials THEN {"access-control-allow-credentials"} ELSE {}
       /\ \A map : policy.credentials
                   => Web!PutAll(map, Web!Credentials)["access-control-allow-credentials"] = "true"
  <2>1. CASE policy.credentials
    BY <1>1, <1>2, <1>8, <1>9, <2>1
  <2>2. CASE ~policy.credentials
    BY <1>3, <1>9, <2>2
  <2> QED
    BY <2>1, <2>2
<1>12. <<OriginEntry>> \in Seq(Entries) /\ <<MethodsEntry>> \in Seq(Entries) /\ <<TypeEntry>> \in Seq(Entries)
  BY <1>1, <1>2
<1> QED
  BY <1>4, <1>5, <1>6, <1>10, <1>11, <1>12



\* What the validator puts on an answer that is another's.
LEMMA ValidatorPuts ==
    ASSUME NEW map
    PROVE  LET these == <<OriginEntry>> \o Web!Credentials \o Web!Vary
           IN  /\ these \in Seq(Entries)
               /\ Allows(Web!PutAll(map, these), {})
<1> DEFINE o == <<OriginEntry>>  c == Web!Credentials  v == Web!Vary  oc == Behind(o, c)  ocv == Behind(oc, v)
           h == Web!PutAll(map, ocv)
<1>1. /\ o \in Seq(Entries) /\ c \in Seq(Entries) /\ v \in Seq(Entries)
      /\ Web!Names(o) = {"access-control-allow-origin"}
      /\ Web!Names(v) = IF policy.origin = "origin" THEN {"vary"} ELSE {}
      /\ Web!Names(c) = IF policy.credentials THEN {"access-control-allow-credentials"} ELSE {}
      /\ Web!PutAll(map, o)["access-control-allow-origin"] = Web!AllowedOrigin
      /\ policy.origin = "origin" => Web!PutAll(map, v)["vary"] = "Origin"
      /\ policy.credentials => Web!PutAll(map, c)["access-control-allow-credentials"] = "true"
  BY ValidatorEntries
<1>2. o \in Seq(Entries) /\ c \in Seq(Entries) /\ v \in Seq(Entries)
  BY <1>1
<1> HIDE DEF o, c, v
<1>3. /\ oc \in Seq(Entries) /\ Web!Names(oc) = Web!Names(o) \cup Web!Names(c)
      /\ \A n \in Web!Names(c) : Web!PutAll(map, oc)[n] = Web!PutAll(map, c)[n]
      /\ \A n \in Web!Names(o) \ Web!Names(c) : Web!PutAll(map, oc)[n] = Web!PutAll(map, o)[n]
  BY <1>2, PutBehind
<1> HIDE DEF oc
<1>4. /\ ocv \in Seq(Entries) /\ Web!Names(ocv) = Web!Names(oc) \cup Web!Names(v)
      /\ \A n \in Web!Names(v) : Web!PutAll(map, ocv)[n] = Web!PutAll(map, v)[n]
      /\ \A n \in Web!Names(oc) \ Web!Names(v) : Web!PutAll(map, ocv)[n] = Web!PutAll(map, oc)[n]
  BY <1>2, <1>3, PutBehind
<1>5. Web!Names(ocv) \subseteq DOMAIN h
  BY OthersStay
<1> HIDE DEF ocv
<1>6. /\ "access-control-allow-origin" \in DOMAIN h
      /\ h["access-control-allow-origin"] = Web!AllowedOrigin
  BY <1>1, <1>3, <1>4, <1>5
<1>7. policy.origin = "origin" => "vary" \in DOMAIN h /\ h["vary"] = "Origin"
  BY <1>1, <1>4, <1>5
<1>8. policy.credentials => /\ "access-control-allow-credentials" \in DOMAIN h
                            /\ h["access-control-allow-credentials"] = "true"
  BY <1>1, <1>3, <1>4, <1>5
<1>9. Allows(h, {})
  BY <1>6, <1>7, <1>8 DEF Allows
<1> QED
  BY <1>4, <1>9 DEF h, ocv, oc, o, c, v, Behind

\* What the validator puts on an answer of its own, over the content type.
LEMMA PreflightPuts ==
    ASSUME NEW map
    PROVE  LET all == <<TypeEntry>> \o Web!AccessControlHeaders
           IN  /\ all \in Seq(Entries) /\ "content-type" \in Web!Names(all)
               /\ Allows(Web!PutAll(map, all), {})
<1> DEFINE t == <<TypeEntry>>  o == <<OriginEntry>>  m == <<MethodsEntry>>
           c == Web!Credentials  v == Web!Vary
           om == Behind(o, m)  omv == Behind(om, v)  omvc == Behind(omv, c)  all == Behind(t, omvc)
           h == Web!PutAll(map, all)
<1>1. /\ o \in Seq(Entries) /\ m \in Seq(Entries) /\ t \in Seq(Entries)
      /\ c \in Seq(Entries) /\ v \in Seq(Entries)
      /\ Web!Names(o) = {"access-control-allow-origin"}
      /\ Web!Names(m) = {"access-control-allow-methods"} /\ Web!Names(t) = {"content-type"}
      /\ Web!Names(v) = IF policy.origin = "origin" THEN {"vary"} ELSE {}
      /\ Web!Names(c) = IF policy.credentials THEN {"access-control-allow-credentials"} ELSE {}
      /\ Web!PutAll(map, o)["access-control-allow-origin"] = Web!AllowedOrigin
      /\ policy.origin = "origin" => Web!PutAll(map, v)["vary"] = "Origin"
      /\ policy.credentials => Web!PutAll(map, c)["access-control-allow-credentials"] = "true"
  BY ValidatorEntries
<1>2. Web!AccessControlHeaders = omvc
  <2>1. <<OriginEntry, MethodsEntry>> = o \o m
    BY TwoJoined
  <2> QED
    BY <2>1 DEF Web!AccessControlHeaders, OriginEntry, MethodsEntry, Behind
<1>3. /\ o \in Seq(Entries) /\ m \in Seq(Entries) /\ t \in Seq(Entries)
      /\ c \in Seq(Entries) /\ v \in Seq(Entries)
  BY <1>1
<1> HIDE DEF t, o, m, c, v
<1>4. /\ om \in Seq(Entries) /\ Web!Names(om) = Web!Names(o) \cup Web!Names(m)
      /\ \A n \in Web!Names(o) \ Web!Names(m) : Web!PutAll(map, om)[n] = Web!PutAll(map, o)[n]
  <2>1. o \in Seq(Entries) /\ m \in Seq(Entries)
    BY <1>3
  <2> QED
    BY <2>1, PutBehind
<1> HIDE DEF om
<1>5. /\ omv \in Seq(Entries) /\ Web!Names(omv) = Web!Names(om) \cup Web!Names(v)
      /\ \A n \in Web!Names(v) : Web!PutAll(map, omv)[n] = Web!PutAll(map, v)[n]
      /\ \A n \in Web!Names(om) \ Web!Names(v) : Web!PutAll(map, omv)[n] = Web!PutAll(map, om)[n]
  <2>1. om \in Seq(Entries) /\ v \in Seq(Entries)
    BY <1>3, <1>4
  <2> QED
    BY <2>1, PutBehind
<1> HIDE DEF omv
<1>7. /\ omvc \in Seq(Entries) /\ Web!Names(omvc) = Web!Names(omv) \cup Web!Names(c)
      /\ \A n \in Web!Names(c) : Web!PutAll(map, omvc)[n] = Web!PutAll(map, c)[n]
      /\ \A n \in Web!Names(omv) \ Web!Names(c) : Web!PutAll(map, omvc)[n] = Web!PutAll(map, omv)[n]
  <2>1. omv \in Seq(Entries) /\ c \in Seq(Entries)
    BY <1>3, <1>5
  <2> QED
    BY <2>1, PutBehind
<1> HIDE DEF omvc
<1>9. /\ all \in Seq(Entries) /\ Web!Names(all) = Web!Names(t) \cup Web!Names(omvc)
      /\ \A n \in Web!Names(omvc) : h[n] = Web!PutAll(map, omvc)[n]
  <2>1. t \in Seq(Entries) /\ omvc \in Seq(Entries)
    BY <1>3, <1>7
  <2>2. h = Web!PutAll(map, all)
    OBVIOUS
  <2> HIDE DEF h
  <2>3. all \in Seq(Entries) /\ Web!Names(all) = Web!Names(t) \cup Web!Names(omvc)
    BY <2>1, PutBehind
  <2>4. ASSUME NEW n \in Web!Names(omvc) PROVE Web!PutAll(map, all)[n] = Web!PutAll(map, omvc)[n]
    BY <2>1, PutBehind
  <2> HIDE DEF all
  <2> QED
    BY <2>2, <2>3, <2>4
<1>10. Web!Names(all) \subseteq DOMAIN h
  BY OthersStay
<1> HIDE DEF h, all
<1>11. /\ "access-control-allow-origin" \in DOMAIN h
       /\ h["access-control-allow-origin"] = Web!AllowedOrigin
  <2> DEFINE n == "access-control-allow-origin"
  <2>1. n \in Web!Names(o) /\ n \notin Web!Names(m) /\ n \notin Web!Names(v) /\ n \notin Web!Names(c)
    BY <1>1
  <2> QED
    BY <1>1, <1>4, <1>5, <1>7, <1>9, <1>10, <2>1
<1>12. policy.origin = "origin" => "vary" \in DOMAIN h /\ h["vary"] = "Origin"
  BY <1>1, <1>5, <1>7, <1>9, <1>10
<1>13. policy.credentials => /\ "access-control-allow-credentials" \in DOMAIN h
                             /\ h["access-control-allow-credentials"] = "true"
  BY <1>1, <1>7, <1>9, <1>10
<1>14. Allows(h, {})
  BY <1>11, <1>12, <1>13 DEF Allows
<1>15. "content-type" \in Web!Names(all)
  BY <1>1, <1>9
<1> QED
  BY <1>2, <1>9, <1>14, <1>15 DEF h, all, t, Behind

\* Headers that let the origin know what the validator allows have each of its entries.
LEMMA AllowsTells ==
    ASSUME NEW h, NEW but, Allows(h, but)
    PROVE  LET these == <<<<"access-control-allow-origin", Web!AllowedOrigin>>>> \o Web!Vary \o Web!Credentials
           IN  \A i \in DOMAIN these :
                   Lower[these[i][1]] \notin but => h[Lower[these[i][1]]] = these[i][2]
<1> DEFINE o == <<OriginEntry>>  v == Web!Vary  c == Web!Credentials  ov == o \o v  these == ov \o c
<1>1. o \in Seq(Entries) /\ v \in Seq(Entries) /\ c \in Seq(Entries)
  BY ValidatorEntries
<1>2. /\ \A i \in DOMAIN o : o[i] = OriginEntry
      /\ \A i \in DOMAIN v : v[i] = VaryEntry /\ policy.origin = "origin"
      /\ \A i \in DOMAIN c : c[i] = CredentialsEntry /\ policy.credentials
  BY DEF Web!Vary, Web!Credentials, VaryEntry, CredentialsEntry
<1> HIDE DEF o, v, c
<1>3. /\ ov \in Seq(Entries)
      /\ \A i \in DOMAIN ov : \/ i \in DOMAIN o /\ ov[i] = o[i]
                              \/ \E j \in DOMAIN v : ov[i] = v[j]
  <2>1. /\ ov \in Seq(Entries)
        /\ \A i \in DOMAIN o : ov[i] = o[i]
        /\ \A i \in DOMAIN v : ov[Len(o) + i] = v[i]
        /\ \A i \in DOMAIN ov : i \in DOMAIN o \/ \E j \in DOMAIN v : i = Len(o) + j
    BY <1>1, Joined
  <2> HIDE DEF ov
  <2> QED
    BY <2>1
<1> HIDE DEF ov
<1>4. \A i \in DOMAIN these : \/ i \in DOMAIN ov /\ these[i] = ov[i]
                             \/ \E j \in DOMAIN c : these[i] = c[j]
  <2>1. /\ \A i \in DOMAIN ov : these[i] = ov[i]
        /\ \A i \in DOMAIN c : these[Len(ov) + i] = c[i]
        /\ \A i \in DOMAIN these : i \in DOMAIN ov \/ \E j \in DOMAIN c : i = Len(ov) + j
    BY <1>1, <1>3, Joined
  <2> HIDE DEF these
  <2> QED
    BY <2>1
<1> HIDE DEF these
<1>5. ASSUME NEW i \in DOMAIN these, Lower[these[i][1]] \notin but
      PROVE  h[Lower[these[i][1]]] = these[i][2]
  <2>1. \/ these[i] = OriginEntry
        \/ these[i] = VaryEntry /\ policy.origin = "origin"
        \/ these[i] = CredentialsEntry /\ policy.credentials
    BY <1>2, <1>3, <1>4
  <2> QED
    BY <1>5, <2>1, NamesAreKept DEF Allows, OriginEntry, VaryEntry, CredentialsEntry
<1> QED
  BY <1>5 DEF these, ov, o, v, c, OriginEntry

\* What respond() hands to send(), and the content type that send() sees to.
LEMMA TypedIs ==
    ASSUME AnswerInv, stage = "answering", answer # "bare"
    PROVE  /\ "content-type" \in DOMAIN Web!Typed
           /\ \A n \in DOMAIN Web!Typed : Lower[n] = n
           /\ answer = "preflight" => Allows(Web!Typed, {})
           /\ answer \in {"plain", "error"} => DOMAIN Web!Typed = {"content-type"}
           /\ answer = "response" =>
                  /\ DOMAIN Web!Typed = {"content-type"} \cup Web!Names(ownHeaders)
                  /\ \A n \in Web!Names(ownHeaders) : Web!Typed[n] \in Says(ownHeaders, n)
<1>1. answer \in {"response", "preflight", "plain", "error"}
  BY DEF AnswerInv, AnswerTypes, Web!TypeOK
<1>2. DOMAIN Web!Nothing = {}
  BY DEF Web!Nothing
<1>3. ASSUME NEW v PROVE DOMAIN Web!Put(Web!Nothing, "content-type", v) = {"content-type"}
  <2> DEFINE e == <<<<"content-type", v>>>>
  <2>1. Web!Names(e) = {"content-type"}
    BY NamesAreKept, PutOne
  <2> HIDE DEF e
  <2>2. DOMAIN Web!PutAll(Web!Nothing, e) = {"content-type"}
    BY <1>2, <2>1, OthersStay
  <2> QED
    BY <2>2 DEF Web!Put, e
<1>4. CASE answer = "preflight"
  <2> DEFINE all == <<TypeEntry>> \o Web!AccessControlHeaders
  <2>1. Web!Composed = Web!PutAll(Web!Nothing, all)
    BY <1>4 DEF Web!Composed, AnswerInv, AnswerStages, TypeEntry
  <2>2. all \in Seq(Entries) /\ "content-type" \in Web!Names(all) /\ Allows(Web!PutAll(Web!Nothing, all), {})
    BY PreflightPuts
  <2> HIDE DEF all
  <2>3. DOMAIN Web!Composed = Web!Names(all)
    BY <1>2, <2>1, OthersStay
  <2>4. Web!Typed = Web!Composed
    BY <2>2, <2>3 DEF Web!Typed
  <2>5. \A n \in Web!Names(all) : Lower[n] = n
    BY <2>2, NamesAreKept, NamesAreLower
  <2> QED
    BY <1>4, <2>1, <2>2, <2>3, <2>4, <2>5
<1>5. CASE answer \in {"plain", "error"}
  <2>1. CASE answer = "error" /\ asked.accept = "json"
    <3>1. Web!Composed = Web!Put(Web!Nothing, "content-type", "json")
      BY <2>1 DEF Web!Composed
    <3>2. Web!Typed = Web!Composed /\ DOMAIN Web!Composed = {"content-type"}
      BY <1>3, <3>1 DEF Web!Typed
    <3> QED
      BY <1>5, <3>2, NamesAreKept
  <2>2. CASE ~(answer = "error" /\ asked.accept = "json")
    <3>1. Web!Composed = Web!Nothing
      BY <1>5, <2>2 DEF Web!Composed
    <3>2. Web!Typed = Web!Put(Web!Nothing, "content-type", "plain")
      BY <1>2, <3>1 DEF Web!Typed
    <3> QED
      BY <1>3, <1>5, <3>2, NamesAreKept
  <2> QED
    BY <2>1, <2>2
<1>6. CASE answer = "response"
  <2> DEFINE S == Entries \cup ((DOMAIN Lower) \X STRING)  t == <<TypeEntry>>
             all == Behind(t, ownHeaders)
  <2>1. Web!Composed = Web!PutAll(Web!Nothing, all)
    BY <1>6 DEF Web!Composed, TypeEntry, Behind
  <2>2. ownHeaders \in Seq(S)
    <3>1. ownHeaders \in Seq((DOMAIN Lower) \X STRING)
      BY <1>6, LibraryAssumption DEF Web!AnswerAssumption, AnswerInv, AnswerStages
    <3> QED
      BY <3>1
  <2>3. t \in Seq(S) /\ Web!Names(t) = {"content-type"}
    <3>1. t \in Seq(Entries) /\ Web!Names(t) = {"content-type"}
      BY ValidatorEntries
    <3> QED
      BY <3>1
  <2>4. \A e \in S : e[1] \in DOMAIN Lower
    BY NamesAreKept
  <2> HIDE DEF S, t
  <2>5. /\ Web!Names(all) = Web!Names(t) \cup Web!Names(ownHeaders)
        /\ \A n \in Web!Names(ownHeaders) :
               Web!PutAll(Web!Nothing, all)[n] = Web!PutAll(Web!Nothing, ownHeaders)[n]
    BY <2>2, <2>3, PutBehind
  <2> HIDE DEF all
  <2>6. DOMAIN Web!Composed = {"content-type"} \cup Web!Names(ownHeaders)
    <3>1. DOMAIN Web!PutAll(Web!Nothing, all) = Web!Names(all)
      BY <1>2, OthersStay
    <3>2. DOMAIN Web!Composed = Web!Names(t) \cup Web!Names(ownHeaders)
      BY <2>1, <2>5, <3>1, Zenon
    <3> QED
      BY <2>3, <3>2, Zenon
  <2>7. Web!Typed = Web!Composed
    BY <2>6 DEF Web!Typed
  <2>8. \A n \in Web!Names(ownHeaders) : Lower[n] = n
    BY <2>2, <2>4, NamesAreLower
  <2>9. ASSUME NEW n \in Web!Names(ownHeaders) PROVE Web!Composed[n] \in Says(ownHeaders, n)
    <3>1. PICK i \in DOMAIN ownHeaders :
              /\ NameAt(ownHeaders, i) = n
              /\ \A j \in DOMAIN ownHeaders : NameAt(ownHeaders, j) = n => j <= i
      BY <2>2, LastExists
    <3>2. Web!PutAll(Web!Nothing, ownHeaders)[n] = ownHeaders[i][2]
      BY <2>2, <3>1, LastGives
    <3>3. ownHeaders[i][2] \in Says(ownHeaders, n)
      BY <3>1 DEF Says, NameAt
    <3> QED
      BY <2>1, <2>5, <3>2, <3>3
  <2> QED
    BY <1>6, <2>6, <2>7, <2>8, <2>9, NamesAreKept
<1> QED
  BY <1>1, <1>4, <1>5, <1>6



\* A request comes with no headers of an answer.
LEMMA AnswerBegins == Web!Init => AnswerInv
<1> SUFFICES ASSUME Web!Init PROVE AnswerInv
  OBVIOUS
<1>1. /\ server \in ServerHeaders /\ stage = "arrived" /\ answer = "none"
      /\ cookies = <<>> /\ headers = Web!Nothing /\ DOMAIN headers = {}
  BY DEF Web!Init, Web!Nothing
<1>2. MaxCookies \in Nat
  BY LibraryAssumption DEF Web!AnswerAssumption
<1>3. AnswerTypes
  BY <1>1, <1>2 DEF AnswerTypes, Web!TypeOK
<1>4. AnswerStages
  BY <1>1 DEF AnswerStages
<1>5. Web!OriginIsToldTheSame /\ Web!LastWordIsKept
  BY <1>1 DEF Web!OriginIsToldTheSame, Web!LastWordIsKept
<1> QED
  BY <1>3, <1>4, <1>5 DEF AnswerInv

\* Before the answer is sent it suffices to look at the stages.
LEMMA AnswerIsMade ==
    ASSUME AnswerTypes', AnswerStages', stage' # "sent" PROVE AnswerInv'
<1>1. (Web!OriginIsToldTheSame /\ Web!LastWordIsKept)'
  BY DEF Web!OriginIsToldTheSame, Web!LastWordIsKept
<1> QED
  BY <1>1 DEF AnswerInv

\* The validator answers a preflight, or lets it through.
LEMMA AnswerPreflight == AnswerInv /\ Web!Preflight => AnswerInv'
<1> SUFFICES ASSUME AnswerInv, Web!Preflight PROVE AnswerInv'
  OBVIOUS
<1>1. /\ stage = "arrived" /\ policy # NoPolicy /\ asked.method = "OPTIONS" /\ answer = "none"
      /\ UNCHANGED <<policy, asked, server, cookies, headers>>
  BY DEF Web!Preflight, Web!given, AnswerInv, AnswerTypes, Web!TypeOK
<1>2. \/ stage' = "running" /\ answer' = answer /\ ownHeaders' = ownHeaders
      \/ stage' = "answering" /\ answer' = "bare"
      \/ stage' = "answering" /\ answer' = "preflight" /\ ownHeaders' = Web!AccessControlHeaders
  BY DEF Web!Preflight
<1>3. Web!AccessControlHeaders' = Web!AccessControlHeaders
  BY <1>1 DEF Web!AccessControlHeaders, Web!AllowedOrigin, Web!RouteTuples, Web!Vary, Web!Credentials
<1>4. AnswerTypes'
  BY <1>1, <1>2 DEF AnswerInv, AnswerTypes, Web!TypeOK
<1>5. AnswerStages'
  BY <1>1, <1>2, <1>3 DEF AnswerStages
<1> QED
  BY <1>2, <1>4, <1>5, AnswerIsMade

\* The validator puts its headers on an answer that is another's.
LEMMA AnswerValidated == AnswerInv /\ Web!Validate => AnswerInv'
<1> SUFFICES ASSUME AnswerInv, Web!Validate PROVE AnswerInv'
  OBVIOUS
<1> DEFINE these == <<OriginEntry>> \o Web!Credentials \o Web!Vary
<1>1. /\ stage = "arrived" /\ stage' = "running" /\ answer = "none" /\ headers = Web!Nothing
      /\ UNCHANGED <<policy, asked, server, answer, ownHeaders, cookies>>
      /\ headers' = IF policy = NoPolicy THEN headers ELSE Web!PutAll(headers, these)
  BY DEF Web!Validate, Web!given, AnswerInv, AnswerTypes, AnswerStages, Web!TypeOK, OriginEntry
<1>2. these \in Seq(Entries) /\ Allows(Web!PutAll(headers, these), {})
  BY ValidatorPuts
<1> HIDE DEF these
<1>3. \A n \in DOMAIN headers' : Lower[n] = n
  <2>1. DOMAIN headers = {}
    BY <1>1 DEF Web!Nothing
  <2>2. DOMAIN Web!PutAll(headers, these) = Web!Names(these)
    BY <2>1, OthersStay
  <2>3. \A n \in Web!Names(these) : Lower[n] = n
    BY <1>2, NamesAreKept, NamesAreLower
  <2> QED
    BY <1>1, <2>1, <2>2, <2>3
<1>4. policy' # NoPolicy => Allows(headers, {})'
  BY <1>1, <1>2 DEF Allows, Web!AllowedOrigin
<1>5. AnswerTypes'
  BY <1>1, <1>3 DEF AnswerInv, AnswerTypes, Web!TypeOK
<1>6. AnswerStages'
  BY <1>1, <1>4 DEF AnswerStages
<1> QED
  BY <1>1, <1>5, <1>6, AnswerIsMade

\* The action answers, or fails.
LEMMA AnswerActs == AnswerInv /\ Web!Act => AnswerInv'
<1> SUFFICES ASSUME AnswerInv, Web!Act PROVE AnswerInv'
  OBVIOUS
<1>1. /\ stage = "running" /\ stage' = "answering"
      /\ UNCHANGED <<policy, asked, server, cookies, headers>>
      /\ \/ answer' = "response" /\ ownHeaders' \in OwnHeaders
         \/ answer' \in {"plain", "error", "bare"}
  BY DEF Web!Act, Web!given
<1>2. AnswerTypes'
  BY <1>1 DEF AnswerInv, AnswerTypes, Web!TypeOK
<1>3. AnswerStages'
  BY <1>1 DEF AnswerInv, AnswerStages, Allows, Web!AllowedOrigin
<1> QED
  BY <1>1, <1>2, <1>3, AnswerIsMade

\* A cookie is set, or set again in its place.
LEMMA AnswerSetsCookie ==
    ASSUME AnswerInv, NEW name \in CookieNames, Web!SetCookie(name) PROVE AnswerInv'
<1>1. /\ stage = "answering" /\ Len(cookies) < MaxCookies /\ MaxCookies \in Nat
      /\ UNCHANGED <<policy, asked, server, stage, answer, ownHeaders, headers>>
      /\ cookies \in Seq(CookieNames \X Nat)
  BY LibraryAssumption DEF Web!AnswerAssumption, Web!SetCookie, Web!given, AnswerInv, AnswerTypes
<1>2. cookies' \in Seq(CookieNames \X Nat) /\ Len(cookies') <= MaxCookies
  <2> DEFINE again == [i \in DOMAIN cookies |->
                           IF cookies[i][1] = name THEN <<name, cookies[i][2] + 1>> ELSE cookies[i]]
             new == <<name, 1>>
  <2>1. cookies' = again \/ cookies' = Append(cookies, new)
    BY DEF Web!SetCookie
  <2>2. again \in Seq(CookieNames \X Nat) /\ Len(again) = Len(cookies)
    <3>1. ASSUME NEW i \in DOMAIN cookies PROVE again[i] \in CookieNames \X Nat
      <4>1. cookies[i] \in CookieNames \X Nat
        BY <1>1
      <4>2. cookies[i][2] + 1 \in Nat
        BY <4>1
      <4> QED
        BY <4>1, <4>2
    <3> HIDE DEF again
    <3>2. DOMAIN again = 1 .. Len(cookies) /\ again = [i \in DOMAIN again |-> again[i]] /\ Len(cookies) \in Nat
      BY <1>1 DEF again
    <3>3. DOMAIN cookies = 1 .. Len(cookies)
      BY <1>1
    <3> QED
      BY <3>1, <3>2, <3>3
  <2>3. new \in CookieNames \X Nat
    OBVIOUS
  <2> HIDE DEF again, new
  <2>4. Append(cookies, new) \in Seq(CookieNames \X Nat) /\ Len(Append(cookies, new)) = Len(cookies) + 1
    BY <1>1, <2>3
  <2>5. Len(cookies) \in Nat
    BY <1>1
  <2>6. CASE cookies' = again
    BY <1>1, <2>2, <2>5, <2>6
  <2>7. CASE cookies' = Append(cookies, new)
    BY <1>1, <2>4, <2>5, <2>7
  <2> QED
    BY <2>1, <2>6, <2>7
<1>3. AnswerTypes'
  BY <1>1, <1>2 DEF AnswerInv, AnswerTypes, Web!TypeOK
<1>4. AnswerStages'
  BY <1>1 DEF AnswerInv, AnswerStages, Allows, Web!AllowedOrigin, Web!AccessControlHeaders,
              Web!RouteTuples, Web!Vary, Web!Credentials
<1> QED
  BY <1>1, <1>3, <1>4, AnswerIsMade



\* The answer is sent with what all the four ask for.
LEMMA AnswerSends == AnswerInv /\ Web!Send => AnswerInv'
<1> SUFFICES ASSUME AnswerInv, Web!Send PROVE AnswerInv'
  OBVIOUS
<1> DEFINE S == ({"set-cookie"} \X (CookieNames \X Nat)) \cup ((DOMAIN Lower) \X STRING)
           c == Web!CookieHeader  all == Behind(c, server)  base == Web!Over(Web!Typed, headers)
<1>1. /\ stage = "answering" /\ answer # "bare" /\ stage' = "sent"
      /\ headers' = Web!PutAll(base, all)
      /\ UNCHANGED <<policy, asked, server, answer, ownHeaders, cookies>>
  BY DEF Web!Send, Web!Sent, Web!given, Behind
<1>2. /\ c \in Seq(S) /\ Web!Names(c) = IF cookies = <<>> THEN {} ELSE {"set-cookie"}
      /\ cookies # <<>> => \A map : Web!PutAll(map, c)["set-cookie"] = Web!Last(cookies)
  <2>1. CASE cookies = <<>>
    <3>1. c = <<>>
      BY <2>1 DEF Web!CookieHeader
    <3>2. Web!Names(<<>>) = {}
      BY DEF Web!Names
    <3> QED
      BY <2>1, <3>1, <3>2
  <2>2. CASE cookies # <<>>
    <3> DEFINE last == Web!Last(cookies)
    <3>1. c = <<<<"set-cookie", last>>>>
      BY <2>2 DEF Web!CookieHeader
    <3>2. last \in CookieNames \X Nat
      BY <2>2 DEF AnswerInv, AnswerTypes, Web!Last
    <3> HIDE DEF last
    <3>3. <<<<"set-cookie", last>>>> \in Seq(S)
      BY <3>2
    <3>4. /\ Web!Names(<<<<"set-cookie", last>>>>) = {"set-cookie"}
          /\ \A map : Web!PutAll(map, <<<<"set-cookie", last>>>>)["set-cookie"] = last
      BY NamesAreKept, PutOne
    <3> HIDE DEF c
    <3> QED
      BY <2>2, <3>1, <3>3, <3>4 DEF last
  <2> QED
    BY <2>1, <2>2
<1>3. server \in Seq(S)
  <2>1. server \in Seq((DOMAIN Lower) \X STRING)
    BY LibraryAssumption DEF Web!AnswerAssumption, AnswerInv, AnswerTypes
  <2> QED
    BY <2>1
<1>4. \A e \in S : e[1] \in DOMAIN Lower
  <2>1. "set-cookie" \in DOMAIN Lower
    BY LibraryAssumption DEF Web!AnswerAssumption
  <2> QED
    BY <2>1
<1>5. /\ DOMAIN base = DOMAIN Web!Typed \cup DOMAIN headers
      /\ \A n \in DOMAIN base : base[n] = IF n \in DOMAIN Web!Typed THEN Web!Typed[n] ELSE headers[n]
  BY DEF Web!Over
<1> HIDE DEF S, c, base
<1>6. /\ all \in Seq(S) /\ Web!Names(all) = Web!Names(c) \cup Web!Names(server)
      /\ \A n \in Web!Names(server) : Web!PutAll(base, all)[n] = Web!PutAll(base, server)[n]
      /\ \A n \in Web!Names(c) \ Web!Names(server) : Web!PutAll(base, all)[n] = Web!PutAll(base, c)[n]
  <2>1. c \in Seq(S) /\ server \in Seq(S)
    BY <1>2, <1>3
  <2> QED
    BY <2>1, PutBehind
<1> HIDE DEF all
<1>7. /\ DOMAIN headers' = DOMAIN base \cup Web!Names(all)
      /\ \A n \in DOMAIN base : n \notin Web!Names(all) => headers'[n] = base[n]
  BY <1>1, OthersStay
<1>8. ASSUME NEW n \in Web!Names(server) PROVE headers'[n] \in Says(server, n)
  <2>1. PICK i \in DOMAIN server : /\ NameAt(server, i) = n
                                   /\ \A j \in DOMAIN server : NameAt(server, j) = n => j <= i
    BY <1>3, LastExists
  <2>2. Web!PutAll(base, server)[n] = server[i][2]
    BY <1>3, <2>1, LastGives
  <2>3. server[i][2] \in Says(server, n)
    BY <2>1 DEF Says, NameAt
  <2> QED
    BY <1>1, <1>6, <2>2, <2>3
<1>9. ASSUME NEW n \in Web!Names(c) \ Web!Names(server) PROVE headers'[n] = Web!Last(cookies)
  <2>1. n = "set-cookie" /\ cookies # <<>>
    BY <1>2
  <2> QED
    BY <1>1, <1>2, <1>6, <2>1
<1>10. ASSUME NEW n \in DOMAIN base, n \notin Web!Names(c), n \notin Web!Names(server)
       PROVE  headers'[n] = IF n \in DOMAIN Web!Typed THEN Web!Typed[n] ELSE headers[n]
  BY <1>5, <1>6, <1>7, <1>10
<1>11. /\ "content-type" \in DOMAIN Web!Typed
       /\ \A n \in DOMAIN Web!Typed : Lower[n] = n
       /\ answer = "preflight" => Allows(Web!Typed, {})
       /\ answer \in {"plain", "error"} => DOMAIN Web!Typed = {"content-type"}
       /\ answer = "response" =>
              /\ DOMAIN Web!Typed = {"content-type"} \cup Web!Names(ownHeaders)
              /\ \A n \in Web!Names(ownHeaders) : Web!Typed[n] \in Says(ownHeaders, n)
  BY <1>1, TypedIs
<1>12. AnswerTypes'
  <2>1. \A n \in Web!Names(all) : Lower[n] = n
    BY <1>4, <1>6, NamesAreLower
  <2>2. \A n \in DOMAIN headers : Lower[n] = n
    BY DEF AnswerInv, AnswerTypes, Web!TypeOK
  <2>3. \A n \in DOMAIN headers' : Lower[n] = n
    BY <1>5, <1>7, <1>11, <2>1, <2>2
  <2> QED
    BY <1>1, <2>3 DEF AnswerInv, AnswerTypes, Web!TypeOK
<1>13. AnswerStages'
  BY <1>1 DEF AnswerInv, AnswerStages, Web!AccessControlHeaders, Web!AllowedOrigin,
              Web!RouteTuples, Web!Vary, Web!Credentials
<1>14. Web!LastWordIsKept'
  <2>1. "content-type" \in DOMAIN headers'
    BY <1>5, <1>7, <1>11
  <2>2. ASSUME NEW n \in DOMAIN headers', n \notin Web!Names(server), n \notin Web!Names(c),
               answer = "response", n \in Web!Names(ownHeaders)
        PROVE  headers'[n] \in Says(ownHeaders, n)
    <3>1. n \in DOMAIN Web!Typed /\ n \in DOMAIN base
      BY <1>5, <1>11, <2>2
    <3> QED
      BY <1>10, <1>11, <2>2, <3>1
  <2>3. c' = c /\ Web!Last(cookies)' = Web!Last(cookies)
    BY <1>1 DEF c, Web!CookieHeader, Web!Last
  <2>4. /\ Web!Names(server)' = Web!Names(server)
        /\ Web!Names(ownHeaders)' = Web!Names(ownHeaders)
        /\ Web!Names(c)' = Web!Names(c)
    BY <1>1, <2>3 DEF Web!Names
  <2>5. ASSUME NEW n \in DOMAIN headers'
        PROVE  IF n \in Web!Names(server)' THEN headers'[n] \in Says(server, n)'
               ELSE IF n \in Web!Names(c)' THEN headers'[n] = Web!Last(cookies)'
               ELSE answer' = "response" /\ n \in Web!Names(ownHeaders)'
                    => headers'[n] \in Says(ownHeaders, n)'
    <3>1. Says(server, n)' = Says(server, n) /\ Says(ownHeaders, n)' = Says(ownHeaders, n)
      BY <1>1 DEF Says
    <3> QED
      BY <1>1, <1>8, <1>9, <2>2, <2>3, <2>4, <3>1
  <2> QED
    BY <2>1, <2>5 DEF Web!LastWordIsKept, Says, c
<1>15. Web!OriginIsToldTheSame'
  <2> DEFINE but == Web!Overridden
  <2> SUFFICES ASSUME policy # NoPolicy, asked.method # "OPTIONS" \/ answer = "preflight"
               PROVE  Web!OriginIsToldTheSame'
    BY <1>1 DEF Web!OriginIsToldTheSame
  <2>1. but = Web!Names(server) \cup (IF answer = "response" THEN Web!Names(ownHeaders) ELSE {})
    BY <1>1 DEF Web!Overridden
  <2> HIDE DEF but
  <2> DEFINE told3 == {"access-control-allow-origin", "vary", "access-control-allow-credentials"}
  <2>2. ASSUME NEW n \in told3, n \in DOMAIN base, n \notin but PROVE n \in DOMAIN headers' /\ headers'[n] = base[n]
    BY <1>2, <1>6, <1>7, <2>1, <2>2
  <2>3. Allows(base, but)
    <3>1. CASE answer = "preflight"
      BY <1>5, <1>11, <3>1 DEF Allows
    <3>2. CASE answer # "preflight"
      <4>1. Allows(headers, {})
        BY <1>1, <3>2 DEF AnswerInv, AnswerStages
      <4>2. answer \in {"response", "plain", "error"}
        BY <1>1, <3>2 DEF AnswerInv, AnswerTypes, Web!TypeOK
      <4>3. \A n \in told3 : n \notin but => n \notin DOMAIN Web!Typed
        BY <1>11, <2>1, <4>2
      <4> QED
        BY <1>5, <4>1, <4>3 DEF Allows
    <3> QED
      BY <3>1, <3>2
  <2>4. Allows(headers', but)
    BY <2>2, <2>3 DEF Allows
  <2>5. LET these == <<<<"access-control-allow-origin", Web!AllowedOrigin>>>> \o Web!Vary \o Web!Credentials
        IN  \A i \in DOMAIN these :
                Lower[these[i][1]] \notin but => headers'[Lower[these[i][1]]] = these[i][2]
    BY <2>4, AllowsTells
  <2>6. /\ Web!AllowedOrigin' = Web!AllowedOrigin /\ Web!Vary' = Web!Vary
        /\ Web!Credentials' = Web!Credentials /\ Web!Overridden' = but
    BY <1>1 DEF Web!AllowedOrigin, Web!Vary, Web!Credentials, Web!Overridden, Web!Names, but
  <2> QED
    BY <2>5, <2>6 DEF Web!OriginIsToldTheSame
<1> QED
  BY <1>12, <1>13, <1>14, <1>15 DEF AnswerInv

\* The body of a response fails.
LEMMA AnswerFails == AnswerInv /\ Web!BodyFails => AnswerInv'
<1> SUFFICES ASSUME AnswerInv, Web!BodyFails PROVE AnswerInv'
  OBVIOUS
<1>1. /\ stage = "answering" /\ answer' = "bare"
      /\ UNCHANGED <<policy, asked, server, stage, ownHeaders, cookies, headers>>
  BY DEF Web!BodyFails, Web!given
<1>2. AnswerTypes'
  BY <1>1 DEF AnswerInv, AnswerTypes, Web!TypeOK
<1>3. AnswerStages'
  BY <1>1 DEF AnswerInv, AnswerStages, Allows, Web!AllowedOrigin
<1> QED
  BY <1>1, <1>2, <1>3, AnswerIsMade

\* What never reaches send() is ended with the headers of the validator.
LEMMA AnswerEnds == AnswerInv /\ Web!EndsBare => AnswerInv'
<1> SUFFICES ASSUME AnswerInv, Web!EndsBare PROVE AnswerInv'
  OBVIOUS
<1>1. /\ stage = "answering" /\ answer = "bare" /\ stage' = "sent"
      /\ UNCHANGED <<policy, asked, server, answer, ownHeaders, cookies, headers>>
  BY DEF Web!EndsBare, Web!given
<1>2. AnswerTypes'
  BY <1>1 DEF AnswerInv, AnswerTypes, Web!TypeOK
<1>3. AnswerStages'
  BY <1>1 DEF AnswerStages
<1>4. Web!LastWordIsKept'
  BY <1>1 DEF Web!LastWordIsKept
<1>5. Web!OriginIsToldTheSame'
  <2> SUFFICES ASSUME policy # NoPolicy, asked.method # "OPTIONS"
               PROVE  Web!OriginIsToldTheSame'
    BY <1>1 DEF Web!OriginIsToldTheSame
  <2>1. Allows(headers, {})
    BY <1>1 DEF AnswerInv, AnswerStages
  <2> DEFINE but == Web!Overridden
  <2>0. but = {}
    BY <1>1 DEF Web!Overridden
  <2> HIDE DEF but
  <2>2. LET these == <<<<"access-control-allow-origin", Web!AllowedOrigin>>>> \o Web!Vary \o Web!Credentials
        IN  \A i \in DOMAIN these :
                Lower[these[i][1]] \notin but => headers[Lower[these[i][1]]] = these[i][2]
    <3>1. Allows(headers, but)
      BY <2>0, <2>1
    <3> QED
      BY <3>1, AllowsTells
  <2>3. /\ Web!AllowedOrigin' = Web!AllowedOrigin /\ Web!Vary' = Web!Vary
        /\ Web!Credentials' = Web!Credentials /\ Web!Overridden' = but /\ headers' = headers
    BY <1>1, <2>0 DEF Web!AllowedOrigin, Web!Vary, Web!Credentials, Web!Overridden
  <2> QED
    BY <2>2, <2>3 DEF Web!OriginIsToldTheSame
<1> QED
  BY <1>2, <1>3, <1>4, <1>5 DEF AnswerInv

\* A step of any kind keeps the invariant.
LEMMA AnswerGoesOn == AnswerInv /\ [Web!Next]_(Web!vars) => AnswerInv'
<1> SUFFICES ASSUME AnswerInv, [Web!Next]_(Web!vars) PROVE AnswerInv'
  OBVIOUS
<1>1. CASE UNCHANGED Web!vars
  <2>1. UNCHANGED <<policy, asked, server, stage, answer, ownHeaders, cookies, headers>>
    BY <1>1 DEF Web!vars, Web!given
  <2>2. /\ Web!AccessControlHeaders' = Web!AccessControlHeaders
        /\ Web!AllowedOrigin' = Web!AllowedOrigin /\ Web!Vary' = Web!Vary
        /\ Web!Credentials' = Web!Credentials /\ Web!Overridden' = Web!Overridden
        /\ Web!CookieHeader' = Web!CookieHeader
    BY <2>1 DEF Web!AccessControlHeaders, Web!AllowedOrigin, Web!RouteTuples, Web!Vary,
                Web!Credentials, Web!Overridden, Web!Names, Web!CookieHeader, Web!Last
  <2>3. AnswerTypes' /\ AnswerStages'
    BY <2>1, <2>2 DEF AnswerInv, AnswerTypes, AnswerStages, Web!TypeOK, Allows
  <2>4. Web!OriginIsToldTheSame'
    BY <2>1, <2>2 DEF AnswerInv, Web!OriginIsToldTheSame
  <2>5. Web!LastWordIsKept'
    BY <2>1, <2>2 DEF AnswerInv, Web!LastWordIsKept, Web!Names, Web!Last
  <2> QED
    BY <2>3, <2>4, <2>5 DEF AnswerInv
<1>2. CASE Web!Next
  BY <1>2, AnswerPreflight, AnswerValidated, AnswerActs, AnswerSetsCookie, AnswerFails, AnswerSends,
     AnswerEnds DEF Web!Next
<1> QED
  BY <1>1, <1>2

\* Whoever makes the answer, the origin is told the same, and where Responder.send() writes
\* it, of those who name the same header the one with the last word has it
\* (packages/web: CorsValidation, Responder).
THEOREM HeadersStayKept == Web!Spec => []HeadersAreKept
<1>1. AnswerInv => HeadersAreKept
  BY DEF AnswerInv, AnswerTypes, HeadersAreKept
<1> QED
  BY <1>1, AnswerBegins, AnswerGoesOn, PTL DEF Web!Spec


================================================================================
