--------------------------------- MODULE Logger --------------------------------
(***************************************************************************)
(* The logger of @bunt/util: a process-wide list of transports, the writes *)
(* that are under way on them, and reset(), by which dispose() and set()   *)
(* let them go.                                                            *)
(*                                                                         *)
(* Severities run from 0 (emergency) to 7 (debug).  A transport is the     *)
(* program's: it may take its time to write or to close, and fail at both. *)
(***************************************************************************)
EXTENDS Naturals, Sequences, FiniteSets, SequencesExt

CONSTANTS
    Transports,
    Severities,     \* those that the program logs at and sets
    Accepts,        \* transport -> the severities that its test() lets through
    Disposers,      \* callers of dispose()
    MaxLogs,        \* bound on the messages that are logged
    MaxAdds         \* bound on the calls of add()

VARIABLES
    severity,       \* Logger.severity
    attached,       \* the transport of each call of add() so far; its place stands for
                    \* that call, as a transport may be attached more than once
    transports,     \* the list of transports, by the calls that attached them
    writers,        \* the list of writers, likewise
    called,         \* the calls whose transport reset() has called close() for
    closing,        \* those of them whose close() has not settled
    writes,         \* the writes that have not settled: [log, to]
    writing,        \* those that Logger.writing holds
    logged,         \* the messages so far
    disposer        \* caller -> [stage, since, writes, closes]: what its dispose()
                    \* waits for, and how much had been logged when it was called

vars == <<severity, attached, transports, writers, called, closing, writes, writing,
          logged, disposer>>

Write(n, k) == [log |-> n, to |-> k]
Idle == [stage |-> "idle", since |-> 0, writes |-> {}, closes |-> {}]
Added(ts) == [i \in DOMAIN ts |-> Len(attached) + i]

------------------------------------------------------------------------------
\* add(): no check whether the transport is attached already, or closed.
Add(t) ==
    /\ Len(attached) < MaxAdds
    /\ attached' = Append(attached, t)
    /\ transports' = transports \o Added(<<t>>)
    /\ writers' = writers \o Added(<<t>>)
    /\ UNCHANGED <<severity, called, closing, writes, writing, logged, disposer>>

SetSeverity(s) ==
    /\ severity' = s
    /\ UNCHANGED <<attached, transports, writers, called, closing, writes, writing, logged, disposer>>

\* A writer notes the promise that its transport's write() returns.
Noted(begun) == writing \cup begun

\* A message at a severity that is on goes to every writer.  One whose transport is not
\* writable skips it, and a transport whose test() refuses it, or that throws, is done
\* with it at once; a message at another severity goes nowhere.
Log(s) ==
    /\ Len(logged) < MaxLogs
    /\ \E took \in SUBSET {k \in ToSet(writers) : s <= severity /\ s \in Accepts[attached[k]]} :
           LET begun == {Write(Len(logged) + 1, k) : k \in took}
           IN  writes' = writes \cup begun /\ writing' = Noted(begun)
    /\ logged' = Append(logged, s)
    /\ UNCHANGED <<severity, attached, transports, writers, called, closing, disposer>>

\* A write resolves or rejects; either way the set forgets it, and makeSafe() keeps a
\* rejection from the program.
WriteSettles(w) ==
    /\ w \in writes
    /\ writes' = writes \ {w}
    /\ writing' = writing \ {w}
    /\ UNCHANGED <<severity, attached, transports, writers, called, closing, logged, disposer>>

------------------------------------------------------------------------------
\* Mutant: reset() waits for the transports alone.
ResetOfCloses(closes) ==
    [stage |-> "waits", since |-> Len(logged), writes |-> {}, closes |-> closes]

\* Promise.allSettled() over the writes under way and the closes.
ResetOf(closes) ==
    [stage |-> "waits", since |-> Len(logged), writes |-> writing, closes |-> closes]

FirstOf(n) == ToSet(SubSeq(transports, 1, n))

\* The effects of reset() up to its first await, but for the lists, which it empties:
\* close() is called for the first n attached, before the writes on them have settled,
\* and where the last of these calls throws, only those before it are under way.
Closes(n, begun) ==
    /\ called' = called \cup FirstOf(n)
    /\ closing' = closing \cup FirstOf(begun)

Emptied == transports' = <<>> /\ writers' = <<>>

Dispose(d) ==
    /\ disposer[d].stage = "idle"
    /\ Emptied /\ Closes(Len(transports), Len(transports))
    /\ disposer' = [disposer EXCEPT ![d] = ResetOf(ToSet(transports))]
    /\ UNCHANGED <<severity, attached, writes, writing, logged>>

\* Where a close() throws at once, those behind it are never called, and the call fails.
DisposeThrows(d) ==
    /\ disposer[d].stage = "idle"
    /\ Emptied
    /\ \E n \in DOMAIN transports : Closes(n, n - 1)
    /\ disposer' = [disposer EXCEPT ![d].stage = "rejected"]
    /\ UNCHANGED <<severity, attached, writes, writing, logged>>

\* set(): reset(), whose promise it does not wait for, then add() of each; where a
\* close() throws, nothing is added.
SetTo(ts) ==
    /\ Len(attached) + Len(ts) <= MaxAdds
    /\ Closes(Len(transports), Len(transports))
    /\ attached' = attached \o ts
    /\ transports' = Added(ts)
    /\ writers' = Added(ts)
    /\ UNCHANGED <<severity, writes, writing, logged, disposer>>

SetThrows ==
    /\ Emptied
    /\ \E n \in DOMAIN transports : Closes(n, n - 1)
    /\ UNCHANGED <<severity, attached, writes, writing, logged, disposer>>

CloseSettles(k) ==
    /\ k \in closing
    /\ closing' = closing \ {k}
    /\ UNCHANGED <<severity, attached, transports, writers, called, writes, writing, logged, disposer>>

DisposeResolves(d) ==
    /\ disposer[d].stage = "waits"
    /\ disposer[d].writes \cap writes = {}
    /\ disposer[d].closes \cap closing = {}
    /\ disposer' = [disposer EXCEPT ![d].stage = "resolved"]
    /\ UNCHANGED <<severity, attached, transports, writers, called, closing, writes, writing, logged>>

------------------------------------------------------------------------------
Init ==
    /\ severity = 6 /\ attached = <<>> /\ transports = <<>> /\ writers = <<>>
    /\ called = {} /\ closing = {}
    /\ writes = {} /\ writing = {} /\ logged = <<>>
    /\ disposer = [d \in Disposers |-> Idle]

\* What set() is given: nothing, a transport, or two.
Given == {<<>>} \cup {<<t>> : t \in Transports} \cup (Transports \X Transports)

Next ==
    \/ \E t \in Transports : Add(t)
    \/ \E ts \in Given : SetTo(ts)
    \/ \E s \in Severities : SetSeverity(s) \/ Log(s)
    \/ SetThrows
    \/ \E k \in closing : CloseSettles(k)
    \/ \E w \in writes : WriteSettles(w)
    \/ \E d \in Disposers : Dispose(d) \/ DisposeThrows(d) \/ DisposeResolves(d)

Spec == Init /\ [][Next]_vars

------------------------------------------------------------------------------
\* Whatever is added, set, disposed of or fails to close, there is one writer for each
\* attached transport, and none that outlives the close() of its transport: what reset()
\* has let go of is not written to, unless it is attached again.  add() does not ask
\* whether a transport has been closed, and a message goes to it again.
WritersAreOpen == writers = transports /\ ToSet(writers) \cap called = {}

\* A dispose() that resolves leaves no write behind: each one that was begun before the
\* call has settled, on the transports of an earlier reset too, however many messages
\* are logged meanwhile and whoever disposes as well.
DisposeWaits ==
    [][\A d \in Disposers :
          disposer[d].stage = "waits" /\ disposer'[d].stage = "resolved" =>
              /\ \A w \in writes : w.log > disposer[d].since
              /\ disposer[d].closes \cap closing = {}]_vars

TypeOK ==
    /\ writing \subseteq writes
    /\ attached \in Seq(Transports)
    /\ ToSet(transports) \cup called \subseteq DOMAIN attached
    /\ closing \subseteq called
    /\ \A d \in Disposers : disposer[d].stage \in {"idle", "waits", "resolved", "rejected"}
================================================================================
