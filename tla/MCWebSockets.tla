------------------------------ MODULE MCWebSockets ------------------------------
(***************************************************************************)
(* The two halves of @bunt/ws in one run: `part' says which of them a      *)
(* behaviour is about.                                                     *)
(***************************************************************************)
EXTENDS WebSockets

CONSTANTS orders, users, r1, r2, route

\* Two requests for the one route, whose payload is validated, and as many connections
\* as may be: one is accepted.
MCRouteOf == [r \in {r1, r2} |-> route]

VARIABLE part

mcVars == <<part, vars, socketVars>>

MCInit == part \in {"layer", "server"} /\ Init /\ Sockets!Init

MCNext ==
    \/ part = "layer" /\ Next /\ UNCHANGED <<part, socketVars>>
    \/ part = "server" /\ Sockets!Next /\ UNCHANGED <<part, vars>>

\* The fairness of each part, while it is the one.
MCFairness ==
    /\ WF_vars(part = "layer" /\ ReaderStep)
    /\ WF_vars(part = "layer" /\ CloseEvent)
    /\ \A i \in 1..MaxMessages :
        /\ WF_vars(part = "layer" /\ i \in SubIds /\ IteratorStep(i))
        /\ WF_vars(part = "layer" /\ i \in SubIds /\ SendStep(i))
    /\ WF_socketVars(part = "server" /\ Sockets!Settles)
    /\ WF_socketVars(part = "server" /\ \E r \in Requests : Sockets!Pong(r))
    /\ WF_socketVars(part = "server" /\ \E s \in Routes : Sockets!KeepAlive(s))
    /\ WF_socketVars(part = "server" /\ Sockets!TimePasses)

MCSpec == MCInit /\ [][MCNext]_mcVars /\ MCFairness
================================================================================
