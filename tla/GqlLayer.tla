------------------------------- MODULE GqlLayer -------------------------------
(***************************************************************************)
(* GQLProtoLayer and GQLProtoHandle of @bunt/ws over one connection: the   *)
(* loop that reads the client's operations, the subscriptions it starts    *)
(* and does not wait for, and the connection that may close under both.    *)
(*                                                                         *)
(* A subscription enters the map when #subscribe() has settled, some time  *)
(* after its operation was read; what is read or happens in between finds  *)
(* no entry.  What the connection has received is read on after it has     *)
(* closed.  The iterators are the application's, and so is what they yield *)
(* or throw: not all of it can be made a text.                             *)
(***************************************************************************)
EXTENDS Naturals, FiniteSets, SequencesExt

CONSTANTS
    Ids,            \* ids of the client's operations
    Reuse,          \* a client may use an id again
    MaxMessages,    \* bound: how many operations a client sends
    MaxCalls        \* bound: how many of them are to subscribe

ASSUME LayerAssumption == Reuse \in BOOLEAN /\ MaxMessages \in Nat /\ MaxCalls \in Nat

VARIABLES
    conn,           \* readyState; "closed" once the close event was emitted
    inbox,          \* #queue of the AsyncCallback that run() iterates over, behind what it
                    \* has given to run() already
    received,       \* history: the operations received
    reader,         \* how far run() is with an operation
    sub,            \* the calls of createSubscription(), in order
    subscriptions,  \* #subscriptions: the call an id stands for, or None
    inited          \* history: how many calls of initialize() have succeeded

vars == <<conn, inbox, received, reader, sub, subscriptions, inited>>

None == 0
Open == conn = "open"
SubIds == DOMAIN sub
Received(type) == Cardinality({k \in DOMAIN received : received[k].type = type})

\* Operations of a client: init and ping have no id; falsy is null, false, 0 or an empty
\* text, bad is any other message.  Text that cannot be parsed is left out: the listener
\* throws.
Operations ==
    [type : {"subscribe", "complete"}, id : Ids] \cup
    [type : {"init", "ping", "falsy", "bad"}, id : {None}]

------------------------------------------------------------------------------
(***************************************************************************)
(* The connection                                                          *)
(***************************************************************************)

\* push(): an operation goes to run(), if that waits for one, or is queued.
Receive(m) ==
    /\ Open
    /\ reader # "failed"
    /\ Len(received) < MaxMessages
    /\ m.type = "subscribe" => Received("subscribe") < MaxCalls
    /\ m.type = "subscribe" /\ ~Reuse => ~ \E i \in DOMAIN received : received[i] = m
    /\ received' = Append(received, m)
    /\ LET o == [op |-> m, inits |-> Received("init")]
       IN  IF reader = "waiting" THEN inbox' = <<o>> \o inbox /\ reader' = "given"
           ELSE inbox' = Append(inbox, o) /\ UNCHANGED reader
    /\ UNCHANGED <<conn, sub, subscriptions, inited>>

Closing ==
    /\ Open
    /\ conn' = "closing"
    /\ UNCHANGED <<inbox, received, reader, sub, subscriptions, inited>>

\* return() of an iterator that has a call of next() under way.
Returned(i) == IF sub[i].iter = "live" THEN [sub[i] EXCEPT !.iter = "stopping"] ELSE sub[i]

UnsubscribeAll ==
    /\ subscriptions' = [id \in Ids |-> None]
    /\ sub' = [i \in SubIds |-> IF subscriptions[sub[i].id] = i THEN Returned(i) ELSE sub[i]]

\* The close event.
CloseEvent ==
    /\ conn = "closing"
    /\ conn' = "closed"
    /\ UnsubscribeAll
    /\ UNCHANGED <<inbox, received, reader, inited>>

------------------------------------------------------------------------------
(***************************************************************************)
(* run() and handle()                                                      *)
(***************************************************************************)

\* handle() rejects, the loop disposes of the connection's iterator, run()
\* rejects, and the server closes the connection.
ReaderFails ==
    /\ reader' = "failed"
    /\ inbox' = <<>>
    /\ conn' = IF Open THEN "closing" ELSE conn

\* The loop calls next().  pull() shifts once and sync() once more: what is falsy is dropped,
\* and after two such the loop waits, whatever is left in the queue.
Pull ==
    /\ reader = "next"
    /\ \E n \in {k \in 0..2 : k <= Len(inbox)} :
        /\ \A k \in 1..n : inbox[k].op.type = "falsy"
        /\ inbox' = SubSeq(inbox, n + 1, Len(inbox))
        /\ \/ n \in {2, Len(inbox)} /\ reader' = "waiting"
           \/ n < 2 /\ n < Len(inbox) /\ inbox[n + 1].op.type # "falsy" /\ reader' = "given"
    /\ UNCHANGED <<conn, received, sub, subscriptions, inited>>

Reads(type) ==
    /\ reader = "given"
    /\ Head(inbox).op.type = type

Call(id, inits) ==
    [id |-> id, inits |-> inits, pc |-> "opening", iter |-> "none", nth |-> 0,
     told |-> FALSE, late |-> FALSE]

ReadSubscribe ==
    /\ Reads("subscribe")
    /\ sub' = Append(sub, Call(Head(inbox).op.id, Head(inbox).inits))
    /\ inbox' = Tail(inbox)
    /\ reader' = "next"
    /\ UNCHANGED <<conn, received, subscriptions, inited>>

\* Mutant: the entry is deleted and the iterator goes on.
ReadCompleteForgets ==
    /\ Reads("complete")
    /\ subscriptions' = [subscriptions EXCEPT ![Head(inbox).op.id] = None]
    /\ inbox' = Tail(inbox)
    /\ reader' = "next"
    /\ UNCHANGED <<conn, received, sub, inited>>

\* unsubscribe(): what is not in the map yet is not stopped.
ReadComplete ==
    /\ Reads("complete")
    /\ LET id == Head(inbox).op.id
           i == subscriptions[id]
       IN  /\ sub' = IF i = None THEN sub ELSE [sub EXCEPT ![i] = Returned(i)]
           /\ subscriptions' = [subscriptions EXCEPT ![id] = None]
    /\ inbox' = Tail(inbox)
    /\ reader' = "next"
    /\ UNCHANGED <<conn, received, inited>>

ReadInit ==
    /\ Reads("init")
    /\ reader' = "init"
    /\ inbox' = Tail(inbox)
    /\ UNCHANGED <<conn, received, sub, subscriptions, inited>>

\* initialize() settles; an acknowledgement that cannot be sent rejects.
Initialized ==
    /\ reader = "init"
    /\ inited' = inited + 1
    /\ IF Open
       THEN reader' = "replying" /\ UNCHANGED <<inbox, conn>>
       ELSE ReaderFails
    /\ UNCHANGED <<received, sub, subscriptions>>

InitThrows ==
    /\ reader = "init"
    /\ ReaderFails
    /\ UNCHANGED <<received, sub, subscriptions, inited>>

\* A pong is sent at once.
ReadPing ==
    /\ Reads("ping")
    /\ IF Open
       THEN reader' = "replying" /\ inbox' = Tail(inbox) /\ UNCHANGED conn
       ELSE ReaderFails
    /\ UNCHANGED <<received, sub, subscriptions, inited>>

\* A falsy message that run() waited for is a wrong one.
ReadBad ==
    /\ Reads("bad") \/ Reads("falsy")
    /\ ReaderFails
    /\ UNCHANGED <<received, sub, subscriptions, inited>>

\* The promise of send().
ReplySent ==
    /\ reader = "replying"
    /\ \/ reader' = "next" /\ UNCHANGED <<inbox, conn>>
       \/ ~Open /\ ReaderFails
    /\ UNCHANGED <<received, sub, subscriptions, inited>>

------------------------------------------------------------------------------
(***************************************************************************)
(* createSubscription()                                                    *)
(***************************************************************************)

Goes(i, pc) == sub' = [sub EXCEPT ![i].pc = pc]

Registered(i) ==
    sub' = [sub EXCEPT ![i].pc = "pulling", ![i].iter = "live",
                       ![i].nth = 1 + Cardinality({j \in SubIds : sub[j].nth # 0}),
                       ![i].late = (conn = "closed")]

\* #subscribe() settles with an iterator, of which next() is called.
SubscribeReturns(i) ==
    /\ sub[i].pc = "opening"
    /\ Registered(i)
    /\ subscriptions' = [subscriptions EXCEPT ![sub[i].id] = i]
    /\ UNCHANGED <<conn, inbox, received, reader, inited>>

\* The error is sent where that is possible.  An object that is no Error is sent as it is;
\* if no text can be made of it that fails at once, and nothing else is sent.
Throws(i) ==
    /\ \E pc \in IF Open THEN {"erring", "untellable"} ELSE {"ended"} :
        \/ sub[i].pc = "opening" /\ Goes(i, pc)
        \/ /\ sub[i].pc = "pulling" /\ sub[i].iter \in {"live", "stopping"}
           /\ sub' = [sub EXCEPT ![i].iter = "done", ![i].pc = pc]
    /\ UNCHANGED <<conn, inbox, received, reader, subscriptions, inited>>

\* Mutant: send() does not look at the state of the connection.
YieldsOn(i) ==
    /\ sub[i].pc = "pulling"
    /\ sub[i].iter \in {"live", "stopping"}
    /\ sub' = [sub EXCEPT ![i].iter = IF @ = "live" THEN "live" ELSE "stopped",
                          ![i].pc = "sending"]
    /\ UNCHANGED <<conn, inbox, received, reader, subscriptions, inited>>

\* A value, which an iterator may still have when it is told to return.  If it cannot be
\* sent, or made a text, the loop calls return().
Yields(i) ==
    /\ sub[i].pc = "pulling"
    /\ sub[i].iter \in {"live", "stopping"}
    /\ \E sent \in {Open, FALSE} :
        sub' = [sub EXCEPT ![i].iter = IF sent /\ @ = "live" THEN "live" ELSE "stopped",
                           ![i].pc = IF sent THEN "sending" ELSE "leaving"]
    /\ UNCHANGED <<conn, inbox, received, reader, subscriptions, inited>>

Sent(i) ==
    /\ sub[i].pc = "sending"
    /\ \/ Goes(i, "pulling")
       \/ /\ ~Open
          /\ sub' = [sub EXCEPT ![i].iter = "stopped", ![i].pc = "leaving"]
    /\ UNCHANGED <<conn, inbox, received, reader, subscriptions, inited>>

\* return() of the loop has settled.  What send() threw is an Error, which is sent where
\* that is possible.
Left(i) ==
    /\ sub[i].pc = "leaving"
    /\ sub' = [sub EXCEPT ![i].iter = "done", ![i].pc = IF Open THEN "erring" ELSE "ended"]
    /\ UNCHANGED <<conn, inbox, received, reader, subscriptions, inited>>

Done(i) ==
    /\ sub[i].pc = "pulling"
    /\ sub' = [sub EXCEPT ![i].iter = "done", ![i].pc = IF Open THEN "completing" ELSE "ended"]
    /\ UNCHANGED <<conn, inbox, received, reader, subscriptions, inited>>

\* Mutant: an error is the last thing that is sent.
ErrorSentLast(i) ==
    /\ sub[i].pc = "erring"
    /\ Goes(i, "ended")
    /\ UNCHANGED <<conn, inbox, received, reader, subscriptions, inited>>

ErrorSent(i) ==
    /\ sub[i].pc = "erring"
    /\ Goes(i, IF Open THEN "completing" ELSE "ended")
    /\ UNCHANGED <<conn, inbox, received, reader, subscriptions, inited>>

\* Sent, or failed, with nobody left to be told.
CompleteSent(i) ==
    /\ sub[i].pc = "completing"
    /\ \/ sub' = [sub EXCEPT ![i].pc = "ended", ![i].told = TRUE]
       \/ ~Open /\ Goes(i, "ended")
    /\ UNCHANGED <<conn, inbox, received, reader, subscriptions, inited>>

------------------------------------------------------------------------------
Init ==
    /\ conn = "open"
    /\ inbox = <<>>
    /\ received = <<>>
    /\ reader = "next"
    /\ sub = <<>>
    /\ subscriptions = [id \in Ids |-> None]
    /\ inited = 0

ReaderStep ==
    \/ Pull \/ ReadSubscribe \/ ReadComplete \/ ReadInit \/ Initialized \/ InitThrows
    \/ ReadPing \/ ReadBad \/ ReplySent

IteratorStep(i) == SubscribeReturns(i) \/ Throws(i) \/ Yields(i) \/ Done(i)
SendStep(i) == Sent(i) \/ Left(i) \/ ErrorSent(i) \/ CompleteSent(i)

Next ==
    \/ \E m \in Operations : Receive(m)
    \/ Closing \/ CloseEvent
    \/ ReaderStep
    \/ \E i \in SubIds : IteratorStep(i) \/ SendStep(i)

Spec == Init /\ [][Next]_vars

(***************************************************************************)
(* What is received is read, sends settle, a closing connection closes,    *)
(* and the application's iterators have a next value or an end.            *)
(***************************************************************************)
Fairness ==
    /\ WF_vars(ReaderStep)
    /\ WF_vars(CloseEvent)
    /\ \A i \in 1..MaxMessages :
        /\ WF_vars(i \in SubIds /\ IteratorStep(i))
        /\ WF_vars(i \in SubIds /\ SendStep(i))

FairSpec == Spec /\ Fairness

------------------------------------------------------------------------------
(***************************************************************************)
(* Properties                                                              *)
(***************************************************************************)

Calls == [id : Ids, inits : Nat, nth : Nat, told : BOOLEAN, late : BOOLEAN,
          pc : {"opening", "pulling", "sending", "leaving", "completing", "erring", "ended",
                "untellable"},
          iter : {"none", "live", "stopping", "stopped", "done"}]

\* What each variable of the layer may hold.
TypeOK ==
    /\ conn \in {"open", "closing", "closed"}
    /\ inbox \in Seq([op : Operations, inits : Nat])
    /\ reader = "given" => inbox # <<>>
    /\ received \in Seq(Operations)
    /\ reader \in {"next", "waiting", "given", "init", "replying", "failed"}
    /\ sub \in Seq(Calls)
    /\ subscriptions \in [Ids -> SubIds \cup {None}]
    /\ inited \in Nat

\* A later call has taken the place of call i in the map.
Replaced(i) == \E j \in SubIds : sub[j].id = sub[i].id /\ sub[j].nth > sub[i].nth

\* An iterator that has not been told to return is in the map, where complete
\* and close find it, unless its client has used the id again; once the
\* connection has closed, only one that came too late for the close event is
\* left there.
CloseStopsAll ==
    \A i \in SubIds : sub[i].iter = "live" =>
        \/ Replaced(i)
        \/ /\ subscriptions[sub[i].id] = i
           /\ conn = "closed" => sub[i].late

\* A subscription is started only when every initialize() that the client asked
\* for before it has succeeded, unless the client sent two falsy messages: what it sends
\* after these may be read before what it sent earlier.
InitializedFirst ==
    Received("falsy") < 2 => \A i \in SubIds : sub[i].inits <= inited

\* A client that is still there is told of the end of every subscription, but of one whose
\* error no text can be made of.
EndIsTold == \A i \in SubIds : Open /\ sub[i].pc = "ended" => sub[i].told

\* A client that is still there is told of the end of every subscription whose error can be
\* sent, and none is started before what the client asked for first, its initialization, has
\* succeeded, as long as the client sends proper messages.
ClientIsTold == TypeOK /\ EndIsTold /\ InitializedFirst

\* With the connection everything ends that it has started, what the close
\* event has missed included: its next value cannot be sent.
AllEnd == conn = "closed" ~> \A i \in SubIds : sub[i].pc \in {"ended", "untellable"}

\* run() comes to its end with the connection, and calls finish().  No step
\* leads there: the iterator of a connection is done only after its own
\* return(), which nobody but the loop calls, when it fails.
RunEnds == conn = "closed" ~> reader \in {"failed", "finished"}

==============================================================================
