------------------------------- MODULE WebSockets -------------------------------
(***************************************************************************)
(* The two halves of @bunt/ws side by side: a connection that speaks the   *)
(* GraphQL protocol (GqlLayer), and the server that accepts, pings and     *)
(* closes connections (Sockets).                                           *)
(***************************************************************************)
EXTENDS GqlLayer

CONSTANTS
    Requests, Routes, RouteOf, NoRoute, Payloads, Unsupported, MaxConnections, PingTimeout

VARIABLES
    acceptor, servers, step, socket, alive, queue, mute, web, disposing, awaited

socketVars == <<acceptor, servers, step, socket, alive, queue, mute, web, disposing, awaited>>

Sockets == INSTANCE WebSocketServer

ASSUME WebSocketsAssumption == Sockets!SocketsAssumption

\* A route runs fewer actions than maxConnections, and a server that was disposed of has
\* closed what it knew.
ServerIsLimited == Sockets!TypeOK /\ Sockets!ConnectionsAreLimited /\ Sockets!DisposedIsClosed

\* Keep-alive terminates nobody who answers, however late its interval is.
AnsweringAreKept == Sockets!AnsweringAreKept

\* Whoever has ceased to answer is disconnected in the end, and dispose() of the server
\* ends if all its clients leave.
ServerSettles == Sockets!MuteAreDropped /\ Sockets!DisposeEnds
================================================================================
