----------------------------- MODULE ListTransport -----------------------------
(***************************************************************************)
(* A RedisTransport of @bunt/queue, what stands in front of it and the     *)
(* lists registered with it, and what they promise together.               *)
(***************************************************************************)
CONSTANTS
    Main, Lists, MaxSent, Malformed, Tasks, MaxBreaks, DisposeCalls, Disposed

VARIABLES
    conn, connected, closed, breaks, order, sent, outbox, arrived, pushes, store,
    loop, subscribed, watched, agenda, visited, inTime, heard, told

transportVars == <<conn, connected, closed, breaks, order, sent, outbox, arrived, pushes, store,
                   loop, subscribed, watched, agenda, visited, inTime, heard, told>>

Transport == INSTANCE RedisTransport WITH Callers <- DisposeCalls, Asked <- Disposed

ASSUME ListTransportAssumption == Transport!TransportAssumption

------------------------------------------------------------------------------
\* Two lists on one channel never handle a message twice, nor in another order.
HandledInOrder == Transport!HandledInOrder

\* When a dispatcher, its queue and its transport are disposed of, by whomever and
\* however they overlap, every verdict has been told and what the transport found has
\* ended.
ShutdownIsClean == Transport!ShutdownIsClean
================================================================================
