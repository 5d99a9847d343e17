---------------------------- MODULE WebSocketServer ----------------------------
(***************************************************************************)
(* WebSocketServer of @bunt/ws: upgrades of requests to connections, the   *)
(* limit of connections, keep-alive, and disposal together with the web    *)
(* server that lends the sockets.                                          *)
(*                                                                         *)
(* A request and the connection it becomes are one element of Requests.    *)
(* Each route has a ws.Server of its own, made when it is first asked for. *)
(* Time is kept as the age of what is in the ping queue; timers may be     *)
(* late.  A client that still answers does so within pingTimeout.          *)
(***************************************************************************)
EXTENDS Naturals, FiniteSets, SequencesExt

CONSTANTS
    Requests,
    Routes,
    RouteOf,        \* the route of a request, or NoRoute
    NoRoute,
    Payloads,       \* routes whose payload is validated, which takes a while
    Unsupported,    \* requests for a protocol the route does not speak
    MaxConnections, \* maxConnections
    PingTimeout     \* pingTimeout, in ticks

SocketsAssumption ==
    /\ IsFiniteSet(Requests)
    /\ NoRoute \notin Routes
    /\ RouteOf \in [Requests -> Routes \cup {NoRoute}]
    /\ MaxConnections \in Nat \ {0} /\ PingTimeout \in Nat \ {0}

VARIABLES
    acceptor,   \* whether the web server knows the acceptor
    servers,    \* #servers: the state of the ws.Server of a route
    step,       \* how far handleUpgrade(), and then handle(), of a request is
    socket,     \* the state of its connection
    alive,      \* alive: who has answered since the last ping
    queue,      \* queue of a route: the connections to ping, and for how long they have waited
    mute,       \* clients that have ceased to answer
    web,        \* the web server
    disposing,  \* how far dispose() is
    awaited     \* the servers that dispose() closes and waits for

serverVars == <<servers, alive, queue>>
disposalVars == <<acceptor, web, disposing, awaited>>
vars == <<serverVars, disposalVars, step, socket, mute>>

Connected == {r \in Requests : socket[r] \in {"open", "closing"}}
\* clients of a ws.Server: whoever has shaken hands and not closed.
Clients(s) == {r \in Connected : RouteOf[r] = s}
Accepted(s) == {r \in Clients(s) : step[r] = "running"}

TypeOK ==
    /\ acceptor \in BOOLEAN
    /\ servers \in [Routes -> {"none", "running", "closing", "closed"}]
    /\ step \in [Requests -> {"none", "validating", "loading", "running", "over", "refused"}]
    /\ socket \in [Requests -> {"none", "open", "closing", "closed"}]
    /\ alive \subseteq Requests
    /\ queue \in [Routes -> Seq([conn : Requests, age : 0..PingTimeout])]
    /\ mute \subseteq Requests
    /\ web \in {"listening", "closing", "closed"}
    /\ disposing \in {"none", "servers", "web", "done"}
    /\ awaited \subseteq Routes

------------------------------------------------------------------------------
(***************************************************************************)
(* handleUpgrade()                                                         *)
(***************************************************************************)

\* getWebSocketServer() makes a server if there is none; one that has been
\* closed answers 503.
ShakesHands(r) ==
    LET s == RouteOf[r]
    IN  IF servers[s] \in {"none", "running"}
        THEN /\ servers' = [servers EXCEPT ![s] = "running"]
             /\ step' = [step EXCEPT ![r] = "loading"]
             /\ socket' = [socket EXCEPT ![r] = "open"]
        ELSE /\ step' = [step EXCEPT ![r] = "refused"]
             /\ UNCHANGED <<servers, socket>>

Refuses(r) ==
    /\ step' = [step EXCEPT ![r] = "refused"]
    /\ UNCHANGED <<servers, socket>>

\* The web server hands an upgrade to the acceptor, which resolves its route.  Connections
\* that are still open may ask for one while the web server is closing.
Upgrade(r) ==
    /\ step[r] = "none"
    /\ web # "closed"
    /\ IF ~acceptor \/ RouteOf[r] = NoRoute THEN Refuses(r)
       ELSE IF RouteOf[r] \in Payloads
            THEN /\ step' = [step EXCEPT ![r] = "validating"]
                 /\ UNCHANGED <<servers, socket>>
            ELSE ShakesHands(r)
    /\ UNCHANGED <<alive, queue, disposalVars, mute>>

Validated(r) ==
    /\ step[r] = "validating"
    /\ ShakesHands(r) \/ Refuses(r)
    /\ UNCHANGED <<alive, queue, disposalVars, mute>>

Closing(r) ==
    IF socket[r] = "open" THEN [socket EXCEPT ![r] = "closing"] ELSE socket

\* Mutant: the limit is not looked at.
AcceptAll(r) ==
    LET s == RouteOf[r]
    IN  /\ step[r] = "loading"
        /\ step' = [step EXCEPT ![r] = "running"]
        /\ alive' = alive \cup {r}
        /\ queue' = [queue EXCEPT ![s] = Append(@, [conn |-> r, age |-> 0])]
        /\ UNCHANGED <<servers, socket, disposalVars, mute>>

\* The action is loaded.  The connection has been one of the clients since it
\* shook hands; it may have closed since.
Accept(r) ==
    LET s == RouteOf[r]
    IN  /\ step[r] = "loading"
        /\ IF r \in Unsupported \/ Cardinality(Clients(s)) >= MaxConnections
           THEN /\ step' = [step EXCEPT ![r] = "over"]
                /\ socket' = Closing(r)
                /\ UNCHANGED <<alive, queue>>
           ELSE /\ step' = [step EXCEPT ![r] = "running"]
                /\ alive' = alive \cup {r}
                /\ queue' = [queue EXCEPT ![s] = Append(@, [conn |-> r, age |-> 0])]
                /\ UNCHANGED socket
        /\ UNCHANGED <<servers, disposalVars, mute>>

\* handle(): the action ends, or throws, and the connection is closed.
ActionEnds(r) ==
    /\ step[r] = "running"
    /\ step' = [step EXCEPT ![r] = "over"]
    /\ socket' = Closing(r)
    /\ UNCHANGED <<serverVars, disposalVars, mute>>

------------------------------------------------------------------------------
(***************************************************************************)
(* Connections                                                             *)
(***************************************************************************)

\* What follows when connections have gone: a ws.Server that is closing and has no
\* client left is closed, which ends its interval.
Left(sockets) ==
    /\ socket' = sockets
    /\ mute' = {r \in mute : sockets[r] # "closed"}
    /\ servers' = [s \in Routes |->
                    IF servers[s] = "closing"
                       /\ \A r \in Requests :
                            RouteOf[r] = s => sockets[r] \notin {"open", "closing"}
                    THEN "closed" ELSE servers[s]]

\* The socket has closed: by the client, or some time after close() on either side.
Closed(r) ==
    /\ socket[r] \in {"open", "closing"}
    /\ Left([socket EXCEPT ![r] = "closed"])
    /\ alive' = alive \ {r}
    /\ UNCHANGED <<step, queue, disposalVars>>

Mute(r) ==
    /\ socket[r] = "open"
    /\ step[r] = "running"
    /\ r \notin mute
    /\ mute' = mute \cup {r}
    /\ UNCHANGED <<serverVars, disposalVars, step, socket>>

Pong(r) ==
    /\ socket[r] = "open"
    /\ step[r] = "running"
    /\ r \notin mute
    /\ alive' = alive \cup {r}
    /\ UNCHANGED <<servers, queue, disposalVars, step, socket, mute>>

Due(s, i) == i \in DOMAIN queue[s] /\ queue[s][i].age >= PingTimeout
Answered(s, i) == queue[s][i].conn \in alive
Pinged(es) == [i \in DOMAIN es |-> [es[i] EXCEPT !.age = 0]]
Conns(es) == {es[i].conn : i \in DOMAIN es}

\* Mutant: who is pinged has no time to answer.
KeepAliveSoon(s) ==
    LET dead == {queue[s][i].conn : i \in {j \in DOMAIN queue[s] : ~Answered(s, j)}}
    IN  /\ servers[s] \in {"running", "closing"}
        /\ queue[s] # <<>>
        /\ alive' = alive \ Conns(queue[s])
        /\ queue' = [queue EXCEPT ![s] = SelectSeq(@, LAMBDA e : e.conn \in alive)]
        /\ Left([r \in Requests |-> IF r \in dead THEN "closed" ELSE socket[r]])
        /\ UNCHANGED <<step, disposalVars>>

\* Mutant: who has been pinged is not queued again.
KeepAliveOnce(s) ==
    /\ servers[s] \in {"running", "closing"}
    /\ Due(s, 1)
    /\ alive' = alive \ {queue[s][1].conn}
    /\ queue' = [queue EXCEPT ![s] = Tail(@)]
    /\ Left(socket)
    /\ UNCHANGED <<step, disposalVars>>

\* #keepAlive(): from the front, n that are due and have answered are pinged and
\* queued again.  The walk ends at one that is not due, or has not answered: that
\* one is terminated, and those behind wait for the next interval.
KeepAlive(s) ==
    /\ servers[s] \in {"running", "closing"}
    /\ Due(s, 1)
    /\ \E n \in 0..Len(queue[s]) :
        LET silent == Due(s, n + 1)
            pinged == SubSeq(queue[s], 1, n)
            rest == SubSeq(queue[s], IF silent THEN n + 2 ELSE n + 1, Len(queue[s]))
        IN  /\ \A i \in 1..n : Due(s, i) /\ Answered(s, i)
            /\ silent => ~Answered(s, n + 1)
            /\ alive' = alive \ Conns(pinged)
            /\ queue' = [queue EXCEPT ![s] = rest \o Pinged(pinged)]
            /\ Left(IF silent THEN [socket EXCEPT ![queue[s][n + 1].conn] = "closed"]
                    ELSE socket)
    /\ UNCHANGED <<step, disposalVars>>

\* Somebody whose answer is due answers first.
Unanswered ==
    \E s \in Routes : \E i \in DOMAIN queue[s] :
        /\ queue[s][i].age = PingTimeout - 1
        /\ queue[s][i].conn \notin alive \cup mute
        /\ socket[queue[s][i].conn] = "open"
        /\ step[queue[s][i].conn] = "running"

TimePasses ==
    /\ ~Unanswered
    /\ queue' = [s \in Routes |->
                    [i \in DOMAIN queue[s] |->
                        [queue[s][i] EXCEPT !.age = IF @ < PingTimeout THEN @ + 1 ELSE @]]]
    /\ queue' # queue
    /\ UNCHANGED <<servers, alive, disposalVars, step, socket, mute>>

------------------------------------------------------------------------------
(***************************************************************************)
(* dispose()                                                               *)
(***************************************************************************)

\* The acceptor goes, and every server is closed: nobody new, until all have left.
Dispose ==
    /\ disposing = "none"
    /\ acceptor' = FALSE
    /\ disposing' = "servers"
    /\ awaited' = {s \in Routes : servers[s] # "none"}
    /\ servers' = [s \in Routes |->
                    IF servers[s] # "running" THEN servers[s]
                    ELSE IF Clients(s) = {} THEN "closed" ELSE "closing"]
    /\ UNCHANGED <<alive, queue, web, step, socket, mute>>

\* super.dispose() disposes of the web server, or finds that somebody does.
ServersClosed ==
    /\ disposing = "servers"
    /\ \A s \in awaited : servers[s] = "closed"
    /\ IF web = "listening" THEN web' = "closing" /\ disposing' = "web"
       ELSE disposing' = "done" /\ UNCHANGED web
    /\ UNCHANGED <<serverVars, acceptor, awaited, step, socket, mute>>

\* The web server is disposed of by its own heartbeat.
WebDisposed ==
    /\ web = "listening"
    /\ web' = "closing"
    /\ UNCHANGED <<serverVars, acceptor, disposing, awaited, step, socket, mute>>

\* http.Server closes when the last socket has gone, the upgraded ones included.
WebClosed ==
    /\ web = "closing"
    /\ Connected = {}
    /\ \A r \in Requests : step[r] # "validating"
    /\ web' = "closed"
    /\ UNCHANGED <<serverVars, acceptor, disposing, awaited, step, socket, mute>>

Disposed ==
    /\ disposing = "web"
    /\ web = "closed"
    /\ disposing' = "done"
    /\ UNCHANGED <<serverVars, acceptor, web, awaited, step, socket, mute>>

Init ==
    /\ acceptor = TRUE
    /\ servers = [s \in Routes |-> "none"]
    /\ step = [r \in Requests |-> "none"]
    /\ socket = [r \in Requests |-> "none"]
    /\ alive = {}
    /\ queue = [s \in Routes |-> <<>>]
    /\ mute = {}
    /\ web = "listening"
    /\ disposing = "none"
    /\ awaited = {}

Next ==
    \/ \E r \in Requests :
        \/ Upgrade(r) \/ Validated(r) \/ Accept(r) \/ ActionEnds(r)
        \/ Closed(r) \/ Mute(r) \/ Pong(r)
    \/ \E s \in Routes : KeepAlive(s)
    \/ TimePasses \/ Dispose \/ ServersClosed \/ WebDisposed \/ WebClosed \/ Disposed

\* What settles by itself, each at most once, so that fairness to all of it is
\* fairness to each: promises, callbacks, and a connection that one side has closed
\* (ws waits 30 s at most).
Settles ==
    \/ \E r \in Requests : Validated(r) \/ Accept(r) \/ (socket[r] = "closing" /\ Closed(r))
    \/ ServersClosed \/ WebClosed \/ Disposed

\* The interval fires, time goes on, and clients that answer answer.  Nothing makes
\* a client close, or an action end.
Fairness ==
    /\ WF_vars(Settles)
    /\ WF_vars(\E r \in Requests : Pong(r))
    /\ WF_vars(\E s \in Routes : KeepAlive(s))
    /\ WF_vars(TimePasses)

Spec == Init /\ [][Next]_vars
FairSpec == Spec /\ Fairness

------------------------------------------------------------------------------
\* A route runs fewer actions than the limit, though it looks at the limit only
\* after it has shaken hands and loaded: the connection counts itself, and others
\* that are still loading.
ConnectionsAreLimited ==
    \A s \in Routes : Cardinality(Accepted(s)) < MaxConnections

\* Keep-alive terminates nobody who answers, however late its interval is and
\* however many it has to ping.
AnsweringAreKept ==
    [][\A r \in Requests :
        socket[r] = "open" /\ socket'[r] = "closed" /\ queue' # queue => r \in mute]_vars

\* A client that has ceased to answer is disconnected in the end, although each
\* interval disconnects one at most.
MuteAreDropped ==
    \A r \in Requests :
        r \in mute /\ step[r] = "running" ~> socket[r] = "closed"

\* When dispose() is over, the servers it knew are closed, with their intervals,
\* and nobody is connected to them; and where it disposed of the web server
\* itself, nobody is connected at all, not even by an upgrade that it overtook.
DisposedIsClosed ==
    disposing = "done" =>
        /\ ~acceptor
        /\ \A s \in awaited : servers[s] = "closed" /\ Clients(s) = {}
        /\ web = "closed" => Connected = {}

\* dispose() asks no client to leave: it ends if, and only if, all leave.
DisposeEnds ==
    <>[](Connected = {}) => (disposing = "servers" ~> disposing = "done")

==============================================================================
