------------------------------ MODULE QueueList ------------------------------
(***************************************************************************)
(* One subscription of @bunt/queue: QueueListAbstract with the             *)
(* ConcurrencyQueue it feeds, over any reader and any transport.           *)
(*                                                                         *)
(* A list runs listen(): read a message, hand it to the concurrency queue, *)
(* read the next one.  The queue starts the handler at once and makes the  *)
(* loop wait for everything that is running when the limit is reached.     *)
(* The program is one JavaScript event loop, so an action below is what    *)
(* runs between two awaits.  The interleavings come from the points where  *)
(* listen(), handle(), unsubscribe() and dispose() are suspended.          *)
(*                                                                         *)
(* The reader is left open: a read resolves with any message not read yet  *)
(* or with nothing, a commit may fail.  RedisQ2 closes it.                 *)
(***************************************************************************)
EXTENDS Naturals, FiniteSets

CONSTANTS
    Messages,       \* what the reader can deliver, each once
    Tasks,          \* the messages that are TaskAbstract: their handler's result is sent
    Loops,          \* the invocations of listen(), over all restarts
    FirstLoop,      \* the one the constructor starts
    Calls,          \* the calls of unsubscribe()
    DisposeCall,    \* the one dispose() makes
    Concurrency,    \* the message type's static concurrency
    Overlap,        \* TRUE: callers subscribe again without awaiting unsubscribe()
    WatchersThrow   \* TRUE: a watcher of the list may throw

ASSUME QueueListAssumption ==
    /\ IsFiniteSet(Messages)
    /\ Tasks \subseteq Messages
    /\ FirstLoop \in Loops
    /\ DisposeCall \in Calls
    /\ Concurrency \in Nat
    /\ Overlap \in BOOLEAN
    /\ WatchersThrow \in BOOLEAN

VARIABLES
    alive,          \* the process runs
    subscribed,     \* #subscribed
    state,          \* #state: the invocation of listen() it holds
    loop,           \* the invocations of listen(): where each is, what it waits for
    call,           \* the calls of unsubscribe(), and the loop each waits for
    disposing,      \* how far dispose() is
    phase,          \* how far handle() is with each message
    succeeded,      \* history: messages whose handler, and reply, went through
    told            \* history: the statuses the watchers were given

loopVars == <<subscribed, state, loop, call, disposing>>
workVars == <<phase, succeeded, told>>
vars == <<alive, loopVars, workVars>>

LoopStates == {"none", "reading", "flushing", "draining", "ended", "killed"}
LiveStates == {"reading", "flushing", "draining"}
CallStates == {"none", "cancelling", "waiting", "resolved"}
ActivePhases == {"handling", "replying", "committing", "rolling"}
Phases == ActivePhases \cup {"unread", "released", "rejected", "lost"}
DisposeStates == {"no", "closing", "closed", "unsubscribing", "disposed"}

\* The promises in ConcurrencyQueue's set.
RunningIn(ph) == {m \in Messages : ph[m] \in ActivePhases}
Running == RunningIn(phase)

Live == {l \in Loops : loop[l].pc \in LiveStates}

Idle(pc) == [pc |-> pc, batch |-> {}]

------------------------------------------------------------------------------
(***************************************************************************)
(* ConcurrencyQueue and listen()                                           *)
(***************************************************************************)

\* Mutant: the loop is left without the flush that follows it.
ContinueUnflushed(run) ==
    IF subscribed THEN Idle("reading") ELSE Idle("ended")

\* Mutant: the loop never looks at subscribed.
ContinueForever(run) == Idle("reading")

\* The condition of the while loop, evaluated with run in the queue: read
\* again, or leave the loop and flush.
Continue(run) ==
    IF subscribed THEN Idle("reading") ELSE [pc |-> "draining", batch |-> run]

\* Mutant: the limit is exceeded before the loop waits.
EnqueuedAbove(run) ==
    IF Cardinality(run) > Concurrency THEN [pc |-> "flushing", batch |-> run]
                                      ELSE Continue(run)

\* enqueue(): the queue holds run, the new promise included.  At the limit
\* the loop waits for all of run, else it goes on.
Enqueued(run) ==
    IF Cardinality(run) >= Concurrency THEN [pc |-> "flushing", batch |-> run]
                                       ELSE Continue(run)

\* read() resolved with a message: subscribed is not looked at again, the
\* handler starts.
ReadMessage(l, m) ==
    /\ alive
    /\ disposing \in {"no", "closing"}
    /\ loop[l].pc = "reading"
    /\ phase[m] = "unread"
    /\ phase' = [phase EXCEPT ![m] = "handling"]
    /\ loop' = [loop EXCEPT ![l] = Enqueued(RunningIn(phase'))]
    /\ UNCHANGED <<alive, subscribed, state, call, disposing, succeeded, told>>

\* Mutant: a read that yields nothing ends the loop.
ReadNothingLeaves(l) ==
    /\ alive
    /\ loop[l].pc = "reading"
    /\ loop' = [loop EXCEPT ![l] = [pc |-> "draining", batch |-> Running]]
    /\ UNCHANGED <<alive, subscribed, state, call, disposing, workVars>>

\* read() resolved with undefined: the wait ran out, the message could not
\* be decoded, or the reader is closed.
ReadNothing(l) ==
    /\ alive
    /\ loop[l].pc = "reading"
    /\ loop' = [loop EXCEPT ![l] = Continue(Running)]
    /\ UNCHANGED <<alive, subscribed, state, call, disposing, workVars>>

\* allSettled() over the batch resolved.
Flushed(l) ==
    /\ alive
    /\ loop[l].pc \in {"flushing", "draining"}
    /\ loop[l].batch \cap Running = {}
    /\ loop' = [loop EXCEPT ![l] = IF @.pc = "flushing" THEN Continue(Running)
                                                         ELSE Idle("ended")]
    /\ UNCHANGED <<alive, subscribed, state, call, disposing, workVars>>

------------------------------------------------------------------------------
(***************************************************************************)
(* handle()                                                                *)
(***************************************************************************)

Moves(m, from, to) ==
    /\ alive
    /\ phase[m] = from
    /\ phase' = [phase EXCEPT ![m] = to]

\* The handler resolved without a reply to send: commit() is called.
HandlerReturns(m) ==
    /\ Moves(m, "handling", "committing")
    /\ succeeded' = succeeded \cup {m}
    /\ UNCHANGED <<alive, loopVars, told>>

HandlerReplies(m) ==
    /\ m \in Tasks
    /\ Moves(m, "handling", "replying")
    /\ UNCHANGED <<alive, loopVars, succeeded, told>>

HandlerThrows(m) ==
    /\ Moves(m, "handling", "rolling")
    /\ UNCHANGED <<alive, loopVars, succeeded, told>>

ReplySent(m) ==
    /\ Moves(m, "replying", "committing")
    /\ succeeded' = succeeded \cup {m}
    /\ UNCHANGED <<alive, loopVars, told>>

ReplyFails(m) ==
    /\ Moves(m, "replying", "rolling")
    /\ UNCHANGED <<alive, loopVars, succeeded, told>>

\* The watchers are there until dispose() has reset them.
Throws == WatchersThrow /\ disposing # "disposed"

\* commit() settled and the watchers are told.  fire() is inside the try: a
\* watcher that throws sends a committed message to rollback().
Committed(m, ok) ==
    /\ told' = [told EXCEPT ![m] = @ \cup {ok}]
    /\ \/ Moves(m, "committing", "released")
       \/ Throws /\ Moves(m, "committing", "rolling")
    /\ UNCHANGED <<alive, loopVars, succeeded>>

\* rollback() settled and the watchers are told.
RolledBack(m) ==
    /\ Moves(m, "rolling", "released")
    /\ told' = [told EXCEPT ![m] = @ \cup {FALSE}]
    /\ UNCHANGED <<alive, loopVars, succeeded>>

\* A watcher throws on the failure: nothing catches it.  handle() rejects,
\* and the promise enqueue() derives with finally() has no handler, which
\* ends a Node.js process.
RollbackThrows(m) ==
    /\ Throws
    /\ Moves(m, "rolling", "rejected")
    /\ told' = [told EXCEPT ![m] = @ \cup {FALSE}]
    /\ alive' = FALSE
    /\ UNCHANGED <<loopVars, succeeded>>

------------------------------------------------------------------------------
(***************************************************************************)
(* subscribe(), unsubscribe(), dispose()                                   *)
(***************************************************************************)

\* A caller that awaits unsubscribe() before it subscribes again finds every
\* call resolved.
Awaited == \A c \in Calls : call[c].pc \in {"none", "resolved"}

\* Nobody subscribes to a list that is being disposed: its reader would
\* answer undefined at once, for ever.
Subscribe(l) ==
    /\ alive
    /\ ~subscribed
    /\ disposing = "no"
    /\ Overlap \/ Awaited
    /\ loop[l].pc = "none"
    /\ subscribed' = TRUE
    /\ state' = l
    /\ loop' = [loop EXCEPT ![l] = Idle("reading")]
    /\ UNCHANGED <<alive, call, disposing, workVars>>

CallUnsubscribe(c) ==
    /\ alive
    /\ call[c].pc = "none"
    /\ subscribed' = FALSE
    /\ call' = [call EXCEPT ![c].pc = "cancelling"]

Unsubscribe(c) ==
    /\ c # DisposeCall
    /\ CallUnsubscribe(c)
    /\ UNCHANGED <<alive, state, loop, disposing, workVars>>

\* cancel() settled; only now finally() reads #state.
Cancelled(c) ==
    /\ alive
    /\ call[c].pc = "cancelling"
    /\ call' = [call EXCEPT ![c] = [pc |-> "waiting", on |-> state]]
    /\ UNCHANGED <<alive, subscribed, state, loop, disposing, workVars>>

Unsubscribed(c) ==
    /\ alive
    /\ call[c].pc = "waiting"
    /\ loop[call[c].on].pc = "ended"
    /\ call' = [call EXCEPT ![c].pc = "resolved"]
    /\ UNCHANGED <<alive, subscribed, state, loop, disposing, workVars>>

\* dispose() runs what onDispose() was given in order: the reader, then
\* unsubscribe(), then reset().
Dispose ==
    /\ alive
    /\ disposing = "no"
    /\ disposing' = "closing"
    /\ UNCHANGED <<alive, subscribed, state, loop, call, workVars>>

ReaderClosed ==
    /\ alive
    /\ disposing = "closing"
    /\ disposing' = "closed"
    /\ UNCHANGED <<alive, subscribed, state, loop, call, workVars>>

DisposeUnsubscribes ==
    /\ disposing = "closed"
    /\ disposing' = "unsubscribing"
    /\ CallUnsubscribe(DisposeCall)
    /\ UNCHANGED <<alive, state, loop, workVars>>

Disposed ==
    /\ alive
    /\ disposing = "unsubscribing"
    /\ call[DisposeCall].pc = "resolved"
    /\ disposing' = "disposed"
    /\ UNCHANGED <<alive, subscribed, state, loop, call, workVars>>

------------------------------------------------------------------------------
(***************************************************************************)
(* Crash and restart.  Nothing of the list survives; a new process builds  *)
(* a new one.                                                              *)
(***************************************************************************)

Crash ==
    /\ alive
    /\ alive' = FALSE
    /\ UNCHANGED <<loopVars, workVars>>

Restart(l) ==
    /\ ~alive
    /\ loop[l].pc = "none"
    /\ alive' = TRUE
    /\ subscribed' = TRUE
    /\ state' = l
    /\ loop' = [k \in Loops |-> IF k = l THEN Idle("reading")
                                ELSE IF loop[k].pc = "none" THEN loop[k]
                                ELSE Idle("killed")]
    /\ call' = [c \in Calls |-> [pc |-> "none", on |-> l]]
    /\ disposing' = "no"
    /\ phase' = [m \in Messages |-> IF m \in Running THEN "lost" ELSE phase[m]]
    /\ UNCHANGED <<succeeded, told>>

------------------------------------------------------------------------------
Init ==
    /\ alive = TRUE
    /\ subscribed = TRUE
    /\ state = FirstLoop
    /\ loop = [l \in Loops |-> Idle(IF l = FirstLoop THEN "reading" ELSE "none")]
    /\ call = [c \in Calls |-> [pc |-> "none", on |-> FirstLoop]]
    /\ disposing = "no"
    /\ phase = [m \in Messages |-> "unread"]
    /\ succeeded = {}
    /\ told = [m \in Messages |-> {}]

HandleStep(m) ==
    \/ HandlerReturns(m)
    \/ HandlerReplies(m)
    \/ HandlerThrows(m)
    \/ ReplySent(m)
    \/ ReplyFails(m)
    \/ \E ok \in BOOLEAN : Committed(m, ok)
    \/ RolledBack(m)
    \/ RollbackThrows(m)

LoopStep(l) ==
    \/ \E m \in Messages : ReadMessage(l, m)
    \/ ReadNothing(l)
    \/ Flushed(l)

CallStep(c) == Cancelled(c) \/ Unsubscribed(c)

DisposeStep == ReaderClosed \/ DisposeUnsubscribes \/ Disposed

Next ==
    \/ \E l \in Loops : LoopStep(l) \/ Subscribe(l) \/ Restart(l)
    \/ \E m \in Messages : HandleStep(m)
    \/ \E c \in Calls : CallStep(c) \/ Unsubscribe(c)
    \/ Dispose \/ DisposeStep \/ Crash

Spec == Init /\ [][Next]_vars

(***************************************************************************)
(* A read ends because it has a timeout, a handler because the application *)
(* ends it; everything else is a promise that is settled already.  Nothing *)
(* makes a caller subscribe, unsubscribe or dispose.                       *)
(***************************************************************************)
Fairness ==
    /\ \A l \in Loops : WF_vars(LoopStep(l))
    /\ \A m \in Messages : WF_vars(HandleStep(m))
    /\ \A c \in Calls : WF_vars(CallStep(c))
    /\ WF_vars(DisposeStep)

FairSpec == Spec /\ Fairness

------------------------------------------------------------------------------
(***************************************************************************)
(* Properties                                                              *)
(***************************************************************************)

\* What each variable of a list may hold, #state always an invocation of
\* listen().
TypeOK ==
    /\ alive \in BOOLEAN
    /\ subscribed \in BOOLEAN
    /\ state \in Loops
    /\ loop \in [Loops -> [pc : LoopStates, batch : SUBSET Messages]]
    /\ call \in [Calls -> [pc : CallStates, on : Loops]]
    /\ disposing \in DisposeStates
    /\ phase \in [Messages -> Phases]
    /\ succeeded \in SUBSET Messages
    /\ told \in [Messages -> SUBSET BOOLEAN]

\* The limit a type's concurrency sets; 0 is as good as 1, the loop waits
\* after every message.
Limit == IF Concurrency = 0 THEN 1 ELSE Concurrency

Flushing == {l \in Loops : loop[l].pc = "flushing"}

\* How many handlers run at once: one less than the limit, and one for every
\* loop that waits at it.  With one loop that is the limit itself; loops that
\* overlap, which a list gets when it is subscribed before unsubscribe() has
\* resolved, share ConcurrencyQueue's set and exceed the limit by one each.
WithinConcurrency ==
    Cardinality(Running) =< (Limit - 1) + Cardinality(Flushing)

\* unsubscribe() resolves when the list is quiet: no loop that could still
\* take a message, no handler running, until the next subscribe().
Quiescent ==
    \A c \in Calls :
        call[c].pc = "resolved" /\ call[c].on = state /\ ~subscribed
            => Live = {} /\ Running = {}

\* unsubscribe() resolves, whatever the loop was doing when it was called.
UnsubscribeResolves ==
    \A c \in Calls :
        call[c].pc = "cancelling" ~> call[c].pc = "resolved" \/ ~alive

\* dispose() resolves although it closes the reader under a loop that is
\* reading, and under handlers that are running.
DisposeEnds == disposing = "closing" ~> disposing = "disposed" \/ ~alive

\* What was read is settled, with the watchers told, unless the process ends.
EveryReadSettles ==
    \A m \in Messages :
        m \in Running ~> \/ phase[m] = "released" /\ told[m] # {}
                         \/ ~alive

==============================================================================
