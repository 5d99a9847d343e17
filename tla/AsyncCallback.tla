---------------------------- MODULE AsyncCallback ----------------------------
(***************************************************************************)
(* AsyncCallback of @bunt/async: callbacks on one side, an async iterator  *)
(* on the other.  It is what a WebSocket connection is read with.          *)
(*                                                                         *)
(* Values are numbered in the order they are emitted.  Falsy are those of  *)
(* them an if takes for none (an empty text, null, 0, false).              *)
(***************************************************************************)
EXTENDS Naturals, FiniteSets, SequencesExt

CONSTANTS
    Pullers,    \* callers of next(), each of which awaits one call at a time
    MaxEmitted, \* bound: values emitted
    Falsy       \* the values that are falsy

CallbackAssumption == MaxEmitted \in Nat /\ Falsy \subseteq 1..MaxEmitted

VARIABLES
    emitted,    \* how many values have been emitted
    queue,      \* #queue
    puller,     \* of each caller: how far it is, and what it was given
    listens,    \* whether the listener of link() is attached
    linked,     \* whether what link() returned is among #disposables
    dropped     \* history: values that were shifted and not given

vars == <<emitted, queue, puller, listens, linked, dropped>>

\* #pipeline
Pipeline == {c \in Pullers : puller[c].pc = "waiting"}

TypeOK ==
    /\ emitted \in 0..MaxEmitted
    /\ queue \in Seq(1..MaxEmitted)
    /\ puller \in [Pullers -> [pc : {"idle", "waiting", "done", "left"},
                               got : Seq(1..MaxEmitted)]]
    /\ listens \in BOOLEAN
    /\ linked \in BOOLEAN
    /\ dropped \subseteq 1..MaxEmitted

Gets(r, v) == [pc |-> "idle", got |-> Append(r.got, v)]

\* push(): all who wait are given the value, by pipe(), or it is queued.
Emit ==
    /\ listens
    /\ emitted < MaxEmitted
    /\ emitted' = emitted + 1
    /\ puller' = [c \in Pullers |->
                    IF c \in Pipeline THEN Gets(puller[c], emitted + 1) ELSE puller[c]]
    /\ queue' = IF Pipeline = {} THEN Append(queue, emitted + 1) ELSE queue
    /\ UNCHANGED <<listens, linked, dropped>>

\* What two shifts at most find: pull() tries once, and sync() once again.
Shifts == {n \in 0..2 : n <= Len(queue) /\ \A i \in 1..n : queue[i] \in Falsy}
Found(n) == n < 2 /\ n < Len(queue) /\ queue[n + 1] \notin Falsy

PullFinds(c) ==
    \E n \in Shifts :
        /\ puller[c].pc = "idle"
        /\ Found(n)
        /\ puller' = [puller EXCEPT ![c] = Gets(@, queue[n + 1])]
        /\ queue' = SubSeq(queue, n + 2, Len(queue))
        /\ dropped' = dropped \cup {queue[i] : i \in 1..n}
        /\ UNCHANGED <<emitted, listens, linked>>

\* Two falsy values are dropped, whatever lies behind them, and the caller waits.
PullWaits(c) ==
    /\ puller[c].pc = "idle"
    /\ \A n \in Shifts : ~Found(n)
    /\ \E n \in Shifts :
           /\ \A m \in Shifts : m <= n
           /\ queue' = SubSeq(queue, n + 1, Len(queue))
           /\ dropped' = dropped \cup {queue[i] : i \in 1..n}
    /\ puller' = [puller EXCEPT ![c].pc = "waiting"]
    /\ UNCHANGED <<emitted, listens, linked>>

\* The promise of link() has settled: its disposer is known.
Linked ==
    /\ ~linked
    /\ linked' = TRUE
    /\ UNCHANGED <<emitted, queue, puller, listens, dropped>>

\* dispose(): pipe() ends the calls that wait, and the disposer, if it is there
\* already, detaches the listener.
Dispose ==
    /\ listens' = (listens /\ ~linked)
    /\ UNCHANGED <<emitted, queue, linked, dropped>>

DisposeOutside ==
    /\ Dispose
    /\ puller' = [c \in Pullers |->
                    IF c \in Pipeline THEN [puller[c] EXCEPT !.pc = "done"] ELSE puller[c]]

\* return() or throw() of the iterator.
Return(c) ==
    /\ puller[c].pc = "idle"
    /\ Dispose
    /\ puller' = [d \in Pullers |->
                    IF d \in Pipeline THEN [puller[d] EXCEPT !.pc = "done"]
                    ELSE IF d = c THEN [puller[d] EXCEPT !.pc = "left"] ELSE puller[d]]

Init ==
    /\ emitted = 0
    /\ queue = <<>>
    /\ puller = [c \in Pullers |-> [pc |-> "idle", got |-> <<>>]]
    /\ listens = TRUE
    /\ linked = FALSE
    /\ dropped = {}

Pull(c) == PullFinds(c) \/ PullWaits(c)

Next ==
    \/ Emit \/ Linked \/ DisposeOutside
    \/ \E c \in Pullers : Pull(c) \/ Return(c)

Spec == Init /\ [][Next]_vars /\ WF_vars(Linked)

------------------------------------------------------------------------------
Given == UNION {Range(puller[c].got) : c \in Pullers}

\* Every value is queued, was given to who waited for it, or is a falsy one that
\* was dropped.  As long as fewer than two were dropped, each caller is given
\* values in their order, and none waits beside a queue.
CallbackDelivery ==
    /\ 1..emitted = Range(queue) \cup Given \cup dropped
    /\ Range(queue) \cap (Given \cup dropped) = {}
    /\ dropped \subseteq Falsy
    /\ Cardinality(dropped) < 2 =>
        /\ Pipeline # {} => queue = <<>>
        /\ \A c \in Pullers :
            \A i, j \in DOMAIN puller[c].got :
                i < j => puller[c].got[i] < puller[c].got[j]

==============================================================================
