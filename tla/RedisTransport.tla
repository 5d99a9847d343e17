--------------------------- MODULE RedisTransport ---------------------------
(***************************************************************************)
(* A RedisTransport with the plain queue lists registered with it, the     *)
(* Queue in front of it and the Dispatcher in front of the queue: sending, *)
(* reading with BRPOP, handling, and the nested disposal of the four.      *)
(*                                                                         *)
(* The transport sends over its own connection; each list's reader blocks  *)
(* on a duplicate.  Messages carry one channel, so the lists compete for   *)
(* them, and one is handled at a time (the default concurrency; QueueList  *)
(* has the others).  A connection may break: the client connects again and *)
(* sends again whatever the server did not answer, so a push may happen    *)
(* twice, and what BRPOP popped with the lost answer is gone.              *)
(*                                                                         *)
(* dispose() walks a list of disposables one after the other, going into   *)
(* each before it turns to the next, and skips what some dispose() has     *)
(* begun already.  `agenda' is what each caller has left to walk.          *)
(***************************************************************************)
EXTENDS Naturals, Integers, FiniteSets, Sequences, SequencesExt

CONSTANTS
    Main,           \* the transport's own connection
    Lists,          \* the subscriptions, each with the connection of its reader
    MaxSent,        \* bound: messages sent
    Malformed,      \* those whose text the reader cannot decode
    Tasks,          \* those whose handler's result is sent back
    MaxBreaks,      \* bound: connections broken, or failing to connect
    Callers,        \* the invocations of dispose()
    Asked           \* what each caller disposes of: Dispatcher or Queue

\* What is disposed of, or waited for, is a kind with the connection, or the
\* list, it is about.
Dispatcher == <<"dispatcher", Main>>
Queue == <<"queue", Main>>

TransportAssumption ==
    /\ Main \notin Lists
    /\ \A c \in Callers : Asked[c] \in {Dispatcher, Queue}
    /\ MaxSent \in Nat /\ MaxBreaks \in Nat
    /\ Malformed \subseteq 1 .. MaxSent /\ Tasks \subseteq 1 .. MaxSent

VARIABLES
    conn,           \* the state of each connection
    connected,      \* the connections that raised "connect"
    closed,         \* the connections that raised "close": #clients has the others
    breaks,         \* failures so far
    order,          \* the lists, in the order they were subscribed
    sent,           \* the messages sent so far: 1 .. sent
    outbox,         \* the pushes the main connection has no answer to
    arrived,        \* how many of them the server has executed
    pushes,         \* the messages pushed to the channel, all of them
    store,          \* the places in pushes of those still in the channel
    loop,           \* listen() of each list: where it is, and with which push
    subscribed,     \* #subscribed of each list
    watched,        \* the dispatcher's watcher is on the list
    agenda,         \* what each dispose() has left to do
    visited,        \* the WeakSet of what is, or was, disposed of
    inTime,         \* history: the lists the transport found when it was disposed
    heard,          \* history: the pushes each list's handler was started with
    told            \* history: the verdicts each list's watcher was told

netVars == <<conn, connected, closed, breaks>>
sendVars == <<sent, outbox, arrived>>
listVars == <<order, loop, subscribed, watched, heard, told>>
disposeVars == <<agenda, visited, inTime>>
vars == <<netVars, sendVars, pushes, store, listVars, disposeVars>>

Connections == {Main} \cup Lists

Idle(pc) == [pc |-> pc, push |-> 0]

\* The transport's counter: up when a connection connects, down when it
\* closes, each counted once per connection.
ConnectionCount == Cardinality(connected) - Cardinality(closed)

------------------------------------------------------------------------------
(***************************************************************************)
(* Connections, and what the client does for the pushes                    *)
(***************************************************************************)

Connect(c) ==
    /\ conn[c] \in {"connecting", "waiting"}
    /\ conn' = [conn EXCEPT ![c] = "open"]
    /\ connected' = connected \cup {c}
    /\ UNCHANGED <<closed, breaks, sendVars, pushes, store, listVars, disposeVars>>

\* Whatever BRPOP popped for a reader that is no longer there is lost; the
\* command itself is sent again.
Forgotten(c) ==
    [l \in Lists |-> IF l = c /\ loop[l].pc = "popped" THEN Idle("asked") ELSE loop[l]]

\* The connection cannot be made, or breaks: "close", and the client waits
\* to connect again.  The pushes with no answer will be made again.
Break(c) ==
    /\ conn[c] \in {"connecting", "open"}
    /\ breaks < MaxBreaks
    /\ breaks' = breaks + 1
    /\ conn' = [conn EXCEPT ![c] = "waiting"]
    /\ closed' = closed \cup {c}
    /\ loop' = Forgotten(c)
    /\ arrived' = IF c = Main THEN 0 ELSE arrived
    /\ UNCHANGED <<connected, sent, outbox, pushes, store, order, subscribed, watched, heard,
                   told, disposeVars>>

\* What the watchers of list l were told when its operation ends with ok.
Told(l, ok) == IF watched[l] THEN told[l] \cup {<<loop[l].push, ok>>} ELSE told[l]

\* A push is settled: if it is a reply, the operation is committed or rolled
\* back, and the watcher is told.
Settled(x, ok) ==
    IF x[1] = "message" THEN UNCHANGED <<loop, told>>
    ELSE /\ loop' = [loop EXCEPT ![x[2]] = Idle("done")]
         /\ told' = [told EXCEPT ![x[2]] = Told(x[2], ok)]

Replying(l) == <<"reply", l>> \in ToSet(outbox)

\* disconnect() has taken effect: "close", everything pending is rejected.
Close(c) ==
    /\ conn[c] = "closing"
    /\ conn' = [conn EXCEPT ![c] = "ended"]
    /\ closed' = closed \cup {c}
    /\ IF c = Main
       THEN /\ loop' = [l \in Lists |-> IF Replying(l) THEN Idle("done") ELSE loop[l]]
            /\ told' = [l \in Lists |-> IF Replying(l) THEN Told(l, FALSE) ELSE told[l]]
            /\ outbox' = <<>>
            /\ arrived' = 0
       ELSE /\ loop' = Forgotten(c)
            /\ UNCHANGED <<told, outbox, arrived>>
    /\ UNCHANGED <<connected, breaks, sent, pushes, store, order, subscribed, watched, heard,
                   disposeVars>>

\* The server executes the next LPUSH.
Push ==
    /\ conn[Main] \in {"open", "closing"}
    /\ arrived < Len(outbox)
    /\ arrived' = arrived + 1
    /\ LET x == outbox[arrived + 1] IN
       IF x[1] = "message"
       THEN /\ pushes' = Append(pushes, x[2])
            /\ store' = <<Len(pushes) + 1>> \o store
       ELSE UNCHANGED <<pushes, store>>
    /\ UNCHANGED <<netVars, sent, outbox, listVars, disposeVars>>

\* The server's answer is read.
Acknowledged ==
    /\ conn[Main] \in {"open", "closing"}
    /\ arrived > 0
    /\ arrived' = arrived - 1
    /\ outbox' = Tail(outbox)
    /\ Settled(Head(outbox), TRUE)
    /\ UNCHANGED <<netVars, sent, pushes, store, order, subscribed, watched, heard, disposeVars>>

\* send(): at once rejected when the connection has ended.
Send ==
    /\ sent < MaxSent
    /\ sent' = sent + 1
    /\ outbox' = IF conn[Main] = "ended" THEN outbox
                                         ELSE Append(outbox, <<"message", sent + 1>>)
    /\ UNCHANGED <<netVars, arrived, pushes, store, listVars, disposeVars>>

------------------------------------------------------------------------------
(***************************************************************************)
(* A subscription                                                          *)
(***************************************************************************)

\* Dispatcher.subscribe(): the reader's connection and the list are created,
\* registered with the transport, the list with the dispatcher as well, and
\* the loop asks for a message.
Subscribe(l) ==
    /\ conn[l] = "none"
    /\ conn' = [conn EXCEPT ![l] = "connecting"]
    /\ order' = Append(order, l)
    /\ loop' = [loop EXCEPT ![l] = Idle("asked")]
    /\ subscribed' = [subscribed EXCEPT ![l] = TRUE]
    /\ watched' = [watched EXCEPT ![l] = TRUE]
    /\ UNCHANGED <<connected, closed, breaks, sendVars, pushes, store, heard, told, disposeVars>>

\* Mutant: the newest message is popped.
PopNewest(l) ==
    /\ loop[l].pc = "asked" /\ conn[l] = "open" /\ store # <<>>
    /\ loop' = [loop EXCEPT ![l] = [pc |-> "popped", push |-> Head(store)]]
    /\ store' = Tail(store)
    /\ UNCHANGED <<netVars, sendVars, pushes, order, subscribed, watched, heard, told,
                   disposeVars>>

\* The server answers BRPOP with the oldest message.
Pop(l) ==
    /\ loop[l].pc = "asked" /\ conn[l] = "open" /\ store # <<>>
    /\ loop' = [loop EXCEPT ![l] = [pc |-> "popped", push |-> Last(store)]]
    /\ store' = Front(store)
    /\ UNCHANGED <<netVars, sendVars, pushes, order, subscribed, watched, heard, told,
                   disposeVars>>

\* The while loop's condition.
Again(l) == IF subscribed[l] THEN Idle("asked") ELSE Idle("ended")

\* read() resolves with what was popped and the handler starts; what cannot
\* be decoded is skipped.
Read(l) ==
    /\ loop[l].pc = "popped" /\ conn[l] \in {"open", "closing"}
    /\ LET p == loop[l].push IN
       IF pushes[p] \in Malformed
       THEN /\ loop' = [loop EXCEPT ![l] = Again(l)]
            /\ UNCHANGED heard
       ELSE /\ loop' = [loop EXCEPT ![l].pc = "handling"]
            /\ heard' = [heard EXCEPT ![l] = Append(@, p)]
    /\ UNCHANGED <<netVars, sendVars, pushes, store, order, subscribed, watched, told,
                   disposeVars>>

\* read() resolves with nothing: the wait ran out, or the connection ended.
ReadNothing(l) ==
    /\ loop[l].pc = "asked" /\ conn[l] \in {"open", "ended"}
    /\ loop' = [loop EXCEPT ![l] = Again(l)]
    /\ UNCHANGED <<netVars, sendVars, pushes, store, order, subscribed, watched, heard, told,
                   disposeVars>>

\* The handler settles with nothing to send; the watcher is told.
HandlerSettles(l) ==
    /\ loop[l].pc = "handling"
    /\ loop' = [loop EXCEPT ![l] = Idle("done")]
    /\ \E ok \in BOOLEAN : told' = [told EXCEPT ![l] = Told(l, ok)]
    /\ UNCHANGED <<netVars, sendVars, pushes, store, order, subscribed, watched, heard,
                   disposeVars>>

\* The handler of a task returned: its reply is sent over the main
\* connection, and if that has ended the operation is rolled back.
HandlerReplies(l) ==
    /\ loop[l].pc = "handling"
    /\ pushes[loop[l].push] \in Tasks
    /\ IF conn[Main] = "ended"
       THEN /\ Settled(<<"reply", l>>, FALSE)
            /\ UNCHANGED outbox
       ELSE /\ loop' = [loop EXCEPT ![l].pc = "replying"]
            /\ outbox' = Append(outbox, <<"reply", l>>)
            /\ UNCHANGED told
    /\ UNCHANGED <<netVars, sent, arrived, pushes, store, order, subscribed, watched, heard,
                   disposeVars>>

\* The concurrency queue lets the loop go on.
GoesOn(l) ==
    /\ loop[l].pc = "done"
    /\ loop' = [loop EXCEPT ![l] = Again(l)]
    /\ UNCHANGED <<netVars, sendVars, pushes, store, order, subscribed, watched, heard, told,
                   disposeVars>>

------------------------------------------------------------------------------
(***************************************************************************)
(* dispose()                                                               *)
(***************************************************************************)

\* Caller c takes n off its agenda and goes through ns first.
Walks(c, n, ns) ==
    /\ agenda[c] # <<>> /\ Head(agenda[c]) = n /\ n \notin visited
    /\ agenda' = [agenda EXCEPT ![c] = ns \o Tail(@)]
    /\ visited' = visited \cup {n}

\* What no step of a disposal changes by itself.
othersVars == <<connected, closed, breaks, sendVars, pushes, store, order, loop, heard, told>>

\* dispose() is called for the dispatcher or the queue.
CallDispose(c) ==
    /\ agenda[c] = <<>> /\ <<"called", c>> \notin visited
    /\ agenda' = [agenda EXCEPT ![c] = <<Asked[c]>>]
    /\ visited' = visited \cup {<<"called", c>>}
    /\ UNCHANGED <<othersVars, conn, subscribed, watched, inTime>>

\* Disposed of already, or being disposed of by another caller: dispose()
\* returns without waiting.
Skips(c) ==
    /\ agenda[c] # <<>> /\ Head(agenda[c]) \in visited
    /\ agenda' = [agenda EXCEPT ![c] = Tail(@)]
    /\ UNCHANGED <<visited, othersVars, conn, subscribed, watched, inTime>>

\* The dispatcher's heartbeat goes first, and finds the dispatcher begun.
DisposeDispatcher(c) ==
    /\ Walks(c, Dispatcher, <<Queue>> \o [i \in DOMAIN order |-> <<"list", order[i]>>])
    /\ UNCHANGED <<othersVars, conn, subscribed, watched, inTime>>

DisposeQueue(c) ==
    Walks(c, Queue, <<<<"transport", Main>>>>) /\ UNCHANGED <<othersVars, conn, subscribed, watched, inTime>>

Disconnected(x) == [conn EXCEPT ![x] = IF @ = "ended" THEN @ ELSE "closing"]

\* The main connection first, and what is registered when it has closed.
DisposeTransport(c) ==
    /\ Walks(c, <<"transport", Main>>, <<<<"closed", Main>>, <<"registered", Main>>>>)
    /\ conn' = Disconnected(Main)
    /\ UNCHANGED <<othersVars, subscribed, watched, inTime>>

\* The state of a connection is waited for unless it is forgotten: that is
\* at the first close, which may be that of a break.
AwaitClosed(c, x) ==
    /\ x \in closed
    /\ Walks(c, <<"closed", x>>, <<>>)
    /\ UNCHANGED <<othersVars, conn, subscribed, watched, inTime>>

\* The readers and the lists, in the order of their registration: each reader
\* right before its list.
Registered ==
    [i \in 1 .. 2 * Len(order) |->
        <<IF i % 2 = 1 THEN "reader" ELSE "list", order[(i + 1) \div 2]>>]

DisposeRegistered(c) ==
    /\ Walks(c, <<"registered", Main>>, Registered)
    /\ inTime' = ToSet(order)
    /\ UNCHANGED <<othersVars, conn, subscribed, watched>>

DisposeReader(c, l) ==
    /\ Walks(c, <<"reader", l>>, <<<<"closed", l>>>>)
    /\ conn' = Disconnected(l)
    /\ UNCHANGED <<othersVars, subscribed, watched, inTime>>

\* Mutant: the watchers are reset before the loop has ended.
DisposeListResets(c, l) ==
    /\ Walks(c, <<"list", l>>, <<<<"reader", l>>, <<"reset", l>>, <<"unsubscribe", l>>>>)
    /\ UNCHANGED <<othersVars, conn, subscribed, watched, inTime>>

DisposeList(c, l) ==
    /\ Walks(c, <<"list", l>>, <<<<"reader", l>>, <<"unsubscribe", l>>, <<"reset", l>>>>)
    /\ UNCHANGED <<othersVars, conn, subscribed, watched, inTime>>

\* cancel() does nothing: the loop is told to end, and waited for.
Unsubscribe(c, l) ==
    /\ Walks(c, <<"unsubscribe", l>>, <<<<"loop", l>>>>)
    /\ subscribed' = [subscribed EXCEPT ![l] = FALSE]
    /\ UNCHANGED <<othersVars, conn, watched, inTime>>

AwaitLoop(c, l) ==
    /\ loop[l].pc = "ended"
    /\ Walks(c, <<"loop", l>>, <<>>)
    /\ UNCHANGED <<othersVars, conn, subscribed, watched, inTime>>

Reset(c, l) ==
    /\ Walks(c, <<"reset", l>>, <<>>)
    /\ watched' = [watched EXCEPT ![l] = FALSE]
    /\ UNCHANGED <<othersVars, conn, subscribed, inTime>>

------------------------------------------------------------------------------
Init ==
    /\ conn = [c \in Connections |-> IF c = Main THEN "connecting" ELSE "none"]
    /\ connected = {} /\ closed = {} /\ breaks = 0
    /\ order = <<>> /\ sent = 0 /\ outbox = <<>> /\ arrived = 0
    /\ pushes = <<>> /\ store = <<>>
    /\ loop = [l \in Lists |-> Idle("none")]
    /\ subscribed = [l \in Lists |-> FALSE] /\ watched = [l \in Lists |-> FALSE]
    /\ agenda = [c \in Callers |-> <<>>]
    /\ visited = {} /\ inTime = {}
    /\ heard = [l \in Lists |-> <<>>] /\ told = [l \in Lists |-> {}]

DisposeStep(c) ==
    \/ Skips(c) \/ DisposeDispatcher(c) \/ DisposeQueue(c) \/ DisposeTransport(c)
    \/ DisposeRegistered(c)
    \/ \E x \in Connections : AwaitClosed(c, x)
    \/ \E l \in Lists : \/ DisposeReader(c, l) \/ DisposeList(c, l) \/ Unsubscribe(c, l)
                        \/ AwaitLoop(c, l) \/ Reset(c, l)

LoopStep(l) ==
    Read(l) \/ ReadNothing(l) \/ HandlerSettles(l) \/ HandlerReplies(l) \/ GoesOn(l)

ServerStep == Push \/ Acknowledged \/ \E c \in Connections : Connect(c) \/ Close(c)

Next ==
    \/ ServerStep \/ Send
    \/ \E c \in Connections : Break(c)
    \/ \E l \in Lists : Subscribe(l) \/ Pop(l) \/ LoopStep(l)
    \/ \E c \in Callers : CallDispose(c) \/ DisposeStep(c)

\* The server answers, connections close when they are told to, handlers
\* settle, and what an await waited for goes on.
Fairness ==
    /\ WF_vars(ServerStep)
    /\ \A l \in Lists : WF_vars(LoopStep(l))
    /\ \A c \in Callers : WF_vars(DisposeStep(c))

Spec == Init /\ [][Next]_vars
FairSpec == Spec /\ Fairness

------------------------------------------------------------------------------
\* Every push is given to at most one handler, at most once, each list hears
\* its messages in the order they were pushed, and none that cannot be
\* decoded: connections that break and pushes made again change nothing in
\* that.
HandledInOrder ==
    /\ \A l \in Lists : /\ \A i, j \in DOMAIN heard[l] : i < j => heard[l][i] < heard[l][j]
                        /\ \A i \in DOMAIN heard[l] : pushes[heard[l][i]] \notin Malformed
    /\ \A k, l \in Lists : k # l => ToSet(heard[k]) \cap ToSet(heard[l]) = {}

\* The dispatcher's watcher leaves a list only after it was told the verdict
\* on every message the list handled, even those handled while the transport
\* was going down.
VerdictsAreHeard ==
    \A l \in ToSet(order) :
        ~watched[l] => ToSet(heard[l]) = {v[1] : v \in told[l]}

Returned(c) == <<"called", c>> \in visited /\ agenda[c] = <<>>

\* When every dispose() that was called has returned, and the transport was
\* among what they disposed of, the lists it found have ended and so have
\* their connections, those aside that had broken before: their state is
\* forgotten, and nobody waits for it.
DisposedIsDone ==
    /\ \A c \in Callers : agenda[c] = <<>>
    /\ <<"registered", Main>> \in visited
    => \A l \in inTime : /\ loop[l].pc = "ended" /\ ~watched[l]
                         /\ conn[l] = "ended" \/ breaks > 0

\* A shutdown leaves nothing behind unheard or open.
ShutdownIsClean == VerdictsAreHeard /\ DisposedIsDone

\* Every dispose() returns.
DisposeReturns ==
    \A c \in Callers : <<"called", c>> \in visited ~> agenda[c] = <<>>
=============================================================================
