------------------------------- MODULE MCQueues -------------------------------
(***************************************************************************)
(* What waits in @bunt/queue and @bunt/async, checked in one run: a list   *)
(* over any reader, the two limiters of a queue, a transport with a plain  *)
(* list, and a pool that a factory fills.  `part' says which of them a     *)
(* behaviour is about; the others stay in their initial states.            *)
(***************************************************************************)
EXTENDS QueueList, Limiters, TLC

CONSTANTS m1, m2, l1, l2, u1, d, c1, c2, c3, mail, report, bill, main, q1, app, p1, p2, end, none

MCTwoMessages == {m1, m2}
MCTasks == {m1}
MCLoops == {l1, l2}
MCCalls == {u1, d}
MCRateCallers == {c1, c2, c3}
MCWindowCallers == {mail, report, bill}

VARIABLES
    part,
    conn, connected, closed, breaks, order, sent, outbox, arrived, pushes, store,
    listening, listed, watched, agenda, visited, inTime, heard, verdicts,
    offered, pushed, buffer, pooled, reader, factory, disposer, poolAlive

transportVars == <<conn, connected, closed, breaks, order, sent, outbox, arrived, pushes, store,
                   listening, listed, watched, agenda, visited, inTime, heard, verdicts>>
poolVars == <<offered, pushed, buffer, pooled, reader, factory, disposer, poolAlive>>
mcVars == <<part, vars, rateVars, windowVars, transportVars, poolVars>>

Transport == INSTANCE RedisTransport
    WITH Main <- main, Lists <- {q1}, MaxSent <- 1, Malformed <- {}, Tasks <- {1},
         MaxBreaks <- 1, Callers <- {app}, Asked <- app :> <<"dispatcher", main>>,
         loop <- listening, subscribed <- listed, told <- verdicts
Pool == INSTANCE AsyncPool WITH Consumers <- {p1, p2}, MaxBuffer <- 2, MaxPushed <- 3,
                                End <- end, None <- none, pending <- pooled, alive <- poolAlive

ASSUME MCAssumption == Transport!TransportAssumption /\ Pool!PoolAssumption

MCInit ==
    /\ Init
    /\ Rate!Init
    /\ Window!Init
    /\ part \in {"list", "rate", "window", "transport", "pool"}
    /\ Transport!Init
    /\ Pool!Init

MCNext ==
    \/ part = "list" /\ Next /\ UNCHANGED <<part, rateVars, windowVars, transportVars, poolVars>>
    \/ part = "rate" /\ Rate!Next /\ UNCHANGED <<part, vars, windowVars, transportVars, poolVars>>
    \/ part = "window" /\ Window!Next /\ UNCHANGED <<part, vars, rateVars, transportVars, poolVars>>
    \/ part = "transport" /\ Transport!Next /\ UNCHANGED <<part, vars, rateVars, windowVars, poolVars>>
    \/ part = "pool" /\ Pool!Next /\ UNCHANGED <<part, vars, rateVars, windowVars, transportVars>>

\* The fairness of each part, while it is the one.
MCFairness ==
    /\ \A l \in Loops : WF_vars(part = "list" /\ LoopStep(l))
    /\ \A m \in Messages : WF_vars(part = "list" /\ HandleStep(m))
    /\ \A c \in Calls : WF_vars(part = "list" /\ CallStep(c))
    /\ WF_vars(part = "list" /\ DisposeStep)
    /\ WF_rateVars(part = "rate" /\ (Rate!Refresh \/ Rate!RefreshThrows))
    /\ \A c \in RateCallers : /\ WF_rateVars(part = "rate" /\ Rate!Start(c))
                              /\ WF_rateVars(part = "rate" /\ Rate!JobEnds(c))
                              /\ WF_rateVars(part = "rate" /\ Rate!Flushed(c))
    /\ WF_windowVars(part = "window" /\ Window!Tick)
    /\ \A c \in WindowCallers : WF_windowVars(part = "window" /\ Window!LooksAgain(c))
    /\ WF_transportVars(part = "transport" /\ Transport!ServerStep)
    /\ \A l \in {q1} : WF_transportVars(part = "transport" /\ Transport!LoopStep(l))
    /\ WF_transportVars(part = "transport" /\ Transport!DisposeStep(app))
    /\ WF_poolVars(part = "pool" /\ Pool!Ends) /\ WF_poolVars(part = "pool" /\ Pool!Fails)
    /\ \A c \in {p1, p2} : WF_poolVars(part = "pool" /\ Pool!Pull(c))

MCSpec == MCInit /\ [][MCNext]_mcVars /\ MCFairness

------------------------------------------------------------------------------
\* Whoever waits goes on: for unsubscribe() and dispose() of a list and the verdict on
\* what it has read, for a slot of a limiter, for a transport that is disposed of, for a
\* pool whose factory has settled.
WaitersGoOn ==
    /\ UnsubscribeResolves /\ DisposeEnds /\ EveryReadSettles
    /\ Rate!ThrottledGoOn /\ Window!SomeoneGoesOn
    /\ Transport!DisposeReturns /\ Pool!WaitersAreTold
================================================================================
