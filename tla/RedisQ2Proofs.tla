---------------------------- MODULE RedisQ2Proofs ----------------------------
(***************************************************************************)
(* Theorems about QueueList and RedisQ2, for any messages, any of them     *)
(* malformed, any number of crashes and restarts, and watchers that throw. *)
(*                                                                         *)
(* The first part is about a list whose callers await unsubscribe() before *)
(* they subscribe again: its inductive invariant says how that discipline  *)
(* keeps one loop alive, and what that loop covers.                        *)
(*                                                                         *)
(* The second is about the default of the transaction queue: a type with   *)
(* concurrency 1 (or 0), callers that await unsubscribe(), and a           *)
(* connection that loses no reply.  Then one message at most is being      *)
(* worked on, no read is under way meanwhile, and the left end of the      *)
(* backup is that message's entry.                                         *)
(*                                                                         *)
(* The third is about where RedisQ2 keeps its messages.  It begins with    *)
(* what holds of every transaction queue, with any concurrency, over       *)
(* crashes, restarts and lost replies: a message is in one place, and the  *)
(* channel is a queue.  It goes on with the default, where commits and     *)
(* rollbacks hit the entry they are meant for: the verdicts are true, and  *)
(* MessageLedger is implemented.  The last is again about every queue,     *)
(* with watchers that do not throw: as many messages are gone as are done. *)
(***************************************************************************)
EXTENDS RedisQ2, FiniteSetTheorems, SequenceTheorems, TLAPS

\* #state is the only loop that is alive.
OneLoop == Live \subseteq {state}

\* A call waits for #state; the loop of a resolved call has ended.
Waiters ==
    \A c \in Calls :
        /\ call[c].pc = "waiting" => call[c].on = state
        /\ call[c].pc = "resolved" => loop[call[c].on].pc = "ended"

\* When nobody is subscribed and no call is under way, no loop is left.
Stopping == ~subscribed /\ Awaited => Live = {}

\* Handlers run under a loop, and one that waits for its batch waits for all.
Covered ==
    /\ Live = {} => Running = {}
    /\ \A l \in Loops :
        loop[l].pc \in {"flushing", "draining"} => Running \subseteq loop[l].batch

\* At the limit a loop is waiting; below it none need be.
Bounded ==
    /\ Cardinality(Running) =< Limit
    /\ Flushing = {} => Cardinality(Running) < Limit

IInv == TypeOK /\ OneLoop /\ Waiters /\ Stopping /\ Covered /\ Bounded

------------------------------------------------------------------------------
(***************************************************************************)
(* Types                                                                   *)
(***************************************************************************)

\* The condition of listen()'s loop yields a state of the loop.
LEMMA ContinueType ==
    ASSUME NEW run \in SUBSET Messages
    PROVE  Continue(run) \in [pc : LoopStates, batch : SUBSET Messages]
BY DEF Continue, Idle, LoopStates

\* So does enqueue().
LEMMA EnqueuedType ==
    ASSUME NEW run \in SUBSET Messages
    PROVE  Enqueued(run) \in [pc : LoopStates, batch : SUBSET Messages]
BY ContinueType DEF Enqueued, LoopStates

\* Every variable of the list keeps its type, through crashes and restarts.
THEOREM TypeCorrect == Spec => []TypeOK
<1>1. Init => TypeOK
  BY QueueListAssumption
  DEF Init, TypeOK, Idle, LoopStates, CallStates, DisposeStates, Phases
<1>2. TypeOK /\ [Next]_vars => TypeOK'
  <2> SUFFICES ASSUME TypeOK, [Next]_vars PROVE TypeOK'
    OBVIOUS
  <2> USE DEF TypeOK
  <2>1. ASSUME NEW l \in Loops, LoopStep(l) PROVE TypeOK'
    <3>1. CASE \E m \in Messages : ReadMessage(l, m)
      <4> PICK m \in Messages : ReadMessage(l, m)
        BY <3>1
      <4>1. phase' \in [Messages -> Phases]
        BY DEF ReadMessage, Phases, ActivePhases
      <4>2. loop' \in [Loops -> [pc : LoopStates, batch : SUBSET Messages]]
        BY EnqueuedType DEF ReadMessage, RunningIn
      <4> QED
        BY <4>1, <4>2 DEF ReadMessage
    <3>2. CASE ReadNothing(l)
      BY <3>2, ContinueType DEF ReadNothing, workVars, Running, RunningIn
    <3>3. CASE Flushed(l)
      BY <3>3, ContinueType
      DEF Flushed, workVars, Running, RunningIn, Idle, LoopStates
    <3> QED
      BY <2>1, <3>1, <3>2, <3>3 DEF LoopStep
  <2>2. ASSUME NEW l \in Loops, Subscribe(l) PROVE TypeOK'
    BY <2>2 DEF Subscribe, workVars, Idle, LoopStates
  <2>3. ASSUME NEW l \in Loops, Restart(l) PROVE TypeOK'
    BY <2>3 DEF Restart, Idle, LoopStates, CallStates, DisposeStates, Phases
  <2>4. ASSUME NEW m \in Messages, HandleStep(m) PROVE TypeOK'
    <3> USE DEF Moves, loopVars, Phases, ActivePhases
    <3>1. CASE HandlerReturns(m) \/ HandlerReplies(m) \/ HandlerThrows(m)
      BY <3>1 DEF HandlerReturns, HandlerReplies, HandlerThrows
    <3>2. CASE ReplySent(m) \/ ReplyFails(m)
      BY <3>2 DEF ReplySent, ReplyFails
    <3>3. ASSUME NEW ok \in BOOLEAN, Committed(m, ok) PROVE TypeOK'
      BY <3>3 DEF Committed
    <3>4. CASE RolledBack(m) \/ RollbackThrows(m)
      <4>1. PICK no \in BOOLEAN : told' = [told EXCEPT ![m] = @ \cup {no}]
        BY <3>4 DEF RolledBack, RollbackThrows
      <4>2. phase' \in [Messages -> Phases] /\ succeeded' = succeeded
        BY <3>4 DEF RolledBack, RollbackThrows
      <4>3. /\ alive' \in BOOLEAN
            /\ UNCHANGED <<subscribed, state, loop, call, disposing>>
        BY <3>4 DEF RolledBack, RollbackThrows
      <4> QED
        BY <4>1, <4>2, <4>3
    <3> QED
      BY <2>4, <3>1, <3>2, <3>3, <3>4 DEF HandleStep
  <2>5. ASSUME NEW c \in Calls, CallStep(c) \/ Unsubscribe(c) PROVE TypeOK'
    <3> USE DEF workVars, CallStates
    <3>1. CASE Cancelled(c)
      BY <3>1 DEF Cancelled
    <3>2. CASE Unsubscribed(c)
      <4>1. /\ call' = [call EXCEPT ![c].pc = "resolved"]
            /\ UNCHANGED <<alive, subscribed, state, loop, disposing, phase, succeeded, told>>
        BY <3>2 DEF Unsubscribed
      <4>2. call' \in [Calls -> [pc : CallStates, on : Loops]]
        BY <4>1
      <4> QED
        BY <4>1, <4>2
    <3>3. CASE Unsubscribe(c)
      <4>1. /\ subscribed' = FALSE
            /\ call' = [call EXCEPT ![c].pc = "cancelling"]
            /\ UNCHANGED <<alive, state, loop, disposing, phase, succeeded, told>>
        BY <3>3 DEF Unsubscribe, CallUnsubscribe
      <4>2. call' \in [Calls -> [pc : CallStates, on : Loops]]
        BY <4>1
      <4> QED
        BY <4>1, <4>2
    <3> QED
      BY <2>5, <3>1, <3>2, <3>3 DEF CallStep
  <2>6. CASE Dispose \/ DisposeStep
    BY <2>6, QueueListAssumption
    DEF Dispose, DisposeStep, ReaderClosed, DisposeUnsubscribes, Disposed,
        CallUnsubscribe, workVars, CallStates, DisposeStates
  <2>7. CASE Crash
    BY <2>7 DEF Crash, loopVars, workVars
  <2>8. CASE UNCHANGED vars
    BY <2>8 DEF vars, loopVars, workVars
  <2> QED
    BY <2>1, <2>2, <2>3, <2>4, <2>5, <2>6, <2>7, <2>8 DEF Next
<1> QED
  BY <1>1, <1>2, PTL DEF Spec

------------------------------------------------------------------------------
(***************************************************************************)
(* One loop                                                                *)
(***************************************************************************)

\* A set of messages has a size, and one message more makes it larger by one.
LEMMA RunningSize ==
    ASSUME NEW run \in SUBSET Messages
    PROVE  /\ Cardinality(run) \in Nat
           /\ \A sub \in SUBSET run : Cardinality(sub) =< Cardinality(run)
           /\ \A m \in Messages \ run : Cardinality(run \cup {m}) = Cardinality(run) + 1
           /\ run = {} => Cardinality(run) = 0
<1>1. IsFiniteSet(run)
  BY QueueListAssumption, FS_Subset
<1>2. \A sub \in SUBSET run : Cardinality(sub) =< Cardinality(run)
  BY <1>1, FS_Subset
<1> QED
  BY <1>1, <1>2, FS_CardinalityType, FS_AddElement, FS_EmptySet

\* The limit is a positive number and not below the concurrency.
LEMMA LimitPositive == Limit \in Nat /\ Limit > 0 /\ Concurrency =< Limit
BY QueueListAssumption DEF Limit

\* A step of handle() leaves the loops alone and starts no handler.
LEMMA HandleStepKeeps ==
    ASSUME TypeOK, NEW m \in Messages, HandleStep(m)
    PROVE  UNCHANGED loopVars /\ Running' \subseteq Running
<1> USE DEF TypeOK, Moves, Running, RunningIn, ActivePhases
<1>1. CASE HandlerReturns(m) \/ HandlerReplies(m) \/ HandlerThrows(m)
  BY <1>1 DEF HandlerReturns, HandlerReplies, HandlerThrows
<1>2. CASE ReplySent(m) \/ ReplyFails(m)
  BY <1>2 DEF ReplySent, ReplyFails
<1>3. ASSUME NEW ok \in BOOLEAN, Committed(m, ok)
      PROVE  UNCHANGED loopVars /\ Running' \subseteq Running
  BY <1>3 DEF Committed
<1>4. CASE RolledBack(m) \/ RollbackThrows(m)
  BY <1>4 DEF RolledBack, RollbackThrows
<1> QED
  BY <1>1, <1>2, <1>3, <1>4 DEF HandleStep

\* A step of the loop l, alive before it, that leaves it with a batch that
\* covers what runs, or reading, or ended with nothing running, and waiting
\* when the limit is reached.
LEMMA LoopMoves ==
    ASSUME IInv, TypeOK', NEW l \in Loops, NEW next,
           l \in Live, loop' = [loop EXCEPT ![l] = next],
           UNCHANGED <<subscribed, state, call>>,
           Cardinality(Running') =< Limit,
           \/ next.pc \in {"flushing", "draining"} /\ Running' \subseteq next.batch
           \/ next.pc = "reading"
           \/ next.pc = "ended" /\ Running' = {},
           next.pc = "flushing" \/ Cardinality(Running') < Limit
    PROVE  IInv'
<1> USE DEF IInv
<1>1. l = state /\ \A k \in Loops \ {l} : loop[k].pc \notin LiveStates
  BY DEF OneLoop, Live
<1>2. loop'[l] = next /\ \A k \in Loops \ {l} : loop'[k] = loop[k]
  BY DEF TypeOK
<1>3. OneLoop'
  BY <1>1, <1>2 DEF OneLoop, Live
<1>4. Waiters'
  BY <1>2 DEF Waiters, Live, LiveStates, TypeOK
<1>5. Stopping'
  BY DEF Stopping, Awaited
<1>6. Covered'
  <2>1. next.pc # "ended" => l \in Live'
    BY <1>2 DEF Live, LiveStates
  <2>2. \A k \in Loops \ {l} : loop'[k].pc \notin {"flushing", "draining"}
    BY <1>1, <1>2 DEF LiveStates
  <2> QED
    BY <1>2, <2>1, <2>2 DEF Covered
<1>7. Bounded'
  BY <1>2 DEF Bounded, Flushing
<1> QED
  BY <1>3, <1>4, <1>5, <1>6, <1>7

\* The invariant holds in the list the constructor builds.
LEMMA InitIInv == Init => IInv
<1> SUFFICES ASSUME Init PROVE IInv
  OBVIOUS
<1>1. TypeOK
  BY QueueListAssumption
  DEF Init, TypeOK, Idle, LoopStates, CallStates, DisposeStates, Phases
<1>2. Live = {FirstLoop} /\ Running = {}
  BY QueueListAssumption
  DEF Init, Live, LiveStates, Idle, Running, RunningIn, ActivePhases
<1>3. OneLoop /\ Waiters /\ Stopping /\ Covered
  BY <1>2 DEF Init, OneLoop, Waiters, Stopping, Covered, Idle
<1>4. Bounded
  BY <1>2, RunningSize, LimitPositive DEF Bounded
<1> QED
  BY <1>1, <1>3, <1>4 DEF IInv

\* Every step of a list whose callers await unsubscribe() keeps it.
LEMMA StepIInv ==
    ASSUME Overlap = FALSE, IInv, TypeOK', [Next]_vars
    PROVE  IInv'
<1> USE DEF IInv
<1>1. ASSUME NEW l \in Loops, NEW m \in Messages, ReadMessage(l, m)
      PROVE  IInv'
  <2> USE <1>1 DEF ReadMessage
  <2>1. l \in Live
    BY DEF Live, LiveStates
  <2>2. Running' = Running \cup {m} /\ m \notin Running
    BY DEF Running, RunningIn, ActivePhases, TypeOK
  <2>3. Cardinality(Running') = Cardinality(Running) + 1
    BY <2>2, RunningSize DEF Running, RunningIn
  <2>4. Cardinality(Running') \in Nat /\ Cardinality(Running') =< Limit
    <3>1. Flushing = {}
      BY DEF OneLoop, Flushing, Live, LiveStates
    <3>2. Cardinality(Running) \in Nat
      BY RunningSize DEF Running, RunningIn
    <3> QED
      BY <2>3, <3>1, <3>2, LimitPositive DEF Bounded
  <2>5. loop' = [loop EXCEPT ![l] = Enqueued(Running')]
    BY DEF Running
  <2>6. \/ /\ Enqueued(Running').pc \in {"flushing", "draining"}
           /\ Running' \subseteq Enqueued(Running').batch
        \/ Enqueued(Running').pc = "reading"
    BY QueueListAssumption DEF Enqueued, Continue, Idle
  <2>7. \/ Enqueued(Running').pc = "flushing"
        \/ Cardinality(Running') < Limit
    BY <2>4, LimitPositive, QueueListAssumption DEF Enqueued, Continue, Idle
  <2> QED
    BY <2>1, <2>4, <2>5, <2>6, <2>7, LoopMoves
<1>2. ASSUME NEW l \in Loops, ReadNothing(l)
      PROVE  IInv'
  <2> USE <1>2 DEF ReadNothing
  <2>1. l \in Live /\ Running' = Running
    BY DEF Live, LiveStates, workVars, Running
  <2>2. Cardinality(Running) < Limit /\ Cardinality(Running) =< Limit
    BY DEF Bounded, OneLoop, Flushing, Live, LiveStates
  <2>3. \/ Continue(Running).pc = "reading"
        \/ /\ Continue(Running).pc = "draining"
           /\ Running \subseteq Continue(Running).batch
    BY DEF Continue, Idle
  <2> QED
    BY <2>1, <2>2, <2>3, LoopMoves
<1>3. ASSUME NEW l \in Loops, Flushed(l)
      PROVE  IInv'
  <2> USE <1>3 DEF Flushed
  <2> DEFINE next == IF loop[l].pc = "flushing" THEN Continue(Running)
                                                ELSE Idle("ended")
  <2>1. l \in Live /\ Running' = Running
    BY DEF Live, LiveStates, workVars, Running
  <2>2. Running = {}
    BY DEF Covered
  <2>3. Cardinality(Running') =< Limit /\ Cardinality(Running') < Limit
    BY <2>1, <2>2, FS_EmptySet, LimitPositive
  <2>4. loop' = [loop EXCEPT ![l] = next]
    OBVIOUS
  <2>5. \/ next.pc = "reading"
        \/ next.pc = "draining" /\ next.batch = Running
        \/ next.pc = "ended"
    BY DEF Continue, Idle
  <2> HIDE DEF next
  <2> QED
    BY <2>1, <2>2, <2>3, <2>4, <2>5, LoopMoves
<1>4. ASSUME NEW l \in Loops, Subscribe(l)
      PROVE  IInv'
  <2> USE <1>4 DEF Subscribe
  <2>1. Live = {} /\ Awaited
    BY DEF Stopping
  <2>2. Running = {} /\ Running' = {}
    BY <2>1 DEF Covered, workVars, Running
  <2>3. loop'[l] = Idle("reading") /\ \A k \in Loops \ {l} : loop'[k] = loop[k]
    BY DEF TypeOK
  <2>4. Live' = {l}
    BY <2>1, <2>3 DEF Live, LiveStates, Idle
  <2>5. OneLoop' /\ Stopping'
    BY <2>4 DEF OneLoop, Stopping
  <2>6. Waiters'
    BY <2>1, <2>3 DEF Waiters, Awaited, TypeOK
  <2>7. Covered' /\ Bounded'
    BY <2>2, <2>4, RunningSize, LimitPositive DEF Covered, Bounded, Flushing
  <2> QED
    BY <2>5, <2>6, <2>7
<1>5. ASSUME NEW l \in Loops, Restart(l)
      PROVE  IInv'
  <2> USE <1>5 DEF Restart
  <2>1. Running' = {}
    BY DEF Running, RunningIn, ActivePhases
  <2>2. Live' = {l}
    BY DEF Live, LiveStates, Idle
  <2>3. OneLoop' /\ Waiters' /\ Stopping'
    BY <2>2 DEF OneLoop, Waiters, Stopping
  <2>4. Covered' /\ Bounded'
    BY <2>1, <2>2, RunningSize, LimitPositive DEF Covered, Bounded, Flushing
  <2> QED
    BY <2>3, <2>4
<1>6. ASSUME NEW m \in Messages, HandleStep(m)
      PROVE  IInv'
  <2>1. UNCHANGED loopVars /\ Running' \subseteq Running
    BY <1>6, HandleStepKeeps
  <2>2. Live' = Live
    BY <2>1 DEF Live, loopVars
  <2>3. OneLoop' /\ Waiters' /\ Stopping'
    BY <2>1, <2>2 DEF OneLoop, Waiters, Stopping, Awaited, loopVars
  <2>4. Covered'
    BY <2>1, <2>2 DEF Covered, loopVars
  <2>5. /\ Cardinality(Running') \in Nat /\ Cardinality(Running) \in Nat
        /\ Cardinality(Running') =< Cardinality(Running)
    BY <2>1, RunningSize DEF Running, RunningIn
  <2>6. Bounded'
    BY <2>1, <2>5, LimitPositive DEF Bounded, Flushing, loopVars
  <2> QED
    BY <2>3, <2>4, <2>6
<1>7. ASSUME NEW c \in Calls, CallUnsubscribe(c), UNCHANGED <<state, loop, workVars>>
      PROVE  IInv'
  <2> USE <1>7 DEF CallUnsubscribe
  <2>1. Live' = Live /\ Running' = Running
    BY DEF Live, Running, workVars
  <2>2. call'[c].pc = "cancelling" /\ \A k \in Calls \ {c} : call'[k] = call[k]
    BY DEF TypeOK
  <2>3. OneLoop' /\ Waiters' /\ Stopping'
    BY <2>1, <2>2 DEF OneLoop, Waiters, Stopping, Awaited
  <2>4. Covered' /\ Bounded'
    BY <2>1 DEF Covered, Bounded, Flushing
  <2> QED
    BY <2>3, <2>4
<1>8. ASSUME NEW c \in Calls, Cancelled(c)
      PROVE  IInv'
  <2> USE <1>8 DEF Cancelled
  <2>1. Live' = Live /\ Running' = Running
    BY DEF Live, Running, workVars
  <2>2. /\ call'[c] = [pc |-> "waiting", on |-> state]
        /\ \A k \in Calls \ {c} : call'[k] = call[k]
    BY DEF TypeOK
  <2>3. OneLoop' /\ Waiters' /\ Stopping'
    BY <2>1, <2>2 DEF OneLoop, Waiters, Stopping, Awaited
  <2>4. Covered' /\ Bounded'
    BY <2>1 DEF Covered, Bounded, Flushing
  <2> QED
    BY <2>3, <2>4
<1>9. ASSUME NEW c \in Calls, Unsubscribed(c)
      PROVE  IInv'
  <2> USE <1>9 DEF Unsubscribed
  <2>1. Live' = Live /\ Running' = Running
    BY DEF Live, Running, workVars
  <2>2. /\ call'[c].pc = "resolved" /\ call'[c].on = call[c].on
        /\ \A k \in Calls \ {c} : call'[k] = call[k]
    BY DEF TypeOK
  <2>3. Live = {}
    BY DEF OneLoop, Waiters, Live, LiveStates
  <2>4. OneLoop' /\ Waiters' /\ Stopping'
    BY <2>1, <2>2, <2>3 DEF OneLoop, Waiters, Stopping
  <2>5. Covered' /\ Bounded'
    BY <2>1 DEF Covered, Bounded, Flushing
  <2> QED
    BY <2>4, <2>5
<1>10. CASE UNCHANGED <<subscribed, state, loop, call, workVars>>
  <2>1. Live' = Live /\ Running' = Running
    BY <1>10 DEF Live, Running, workVars
  <2> QED
    BY <1>10, <2>1 DEF OneLoop, Waiters, Stopping, Awaited, Covered, Bounded, Flushing
<1>11. CASE Dispose \/ ReaderClosed \/ Disposed \/ Crash
  BY <1>10, <1>11 DEF Dispose, ReaderClosed, Disposed, Crash, loopVars
<1>12. CASE UNCHANGED vars
  BY <1>10, <1>12 DEF vars, loopVars
<1>13. CASE DisposeUnsubscribes
  BY <1>7, <1>13, QueueListAssumption DEF DisposeUnsubscribes
<1>14. ASSUME NEW c \in Calls, Unsubscribe(c)
       PROVE  IInv'
  BY <1>7, <1>14 DEF Unsubscribe
<1> QED
  BY <1>1, <1>2, <1>3, <1>4, <1>5, <1>6, <1>8, <1>9, <1>11, <1>12, <1>13, <1>14
  DEF Next, LoopStep, CallStep, DisposeStep

\* While callers await unsubscribe(), the list has one loop at most, and what
\* runs is covered by it.
THEOREM SerialInvariant == Overlap = FALSE /\ Spec => []IInv
<1>1. Overlap = FALSE /\ IInv /\ TypeOK' /\ [Next]_vars => IInv'
  BY StepIInv
<1>2. Overlap = FALSE => [](Overlap = FALSE)
  OBVIOUS
<1> QED
  BY <1>1, <1>2, InitIInv, TypeCorrect, PTL DEF Spec

\* unsubscribe() of such a list resolves when the list is quiet.
THEOREM UnsubscribeIsQuiet == Overlap = FALSE /\ Spec => []Quiescent
<1>1. IInv => Quiescent
  <2> SUFFICES ASSUME IInv, NEW c \in Calls,
                      call[c].pc = "resolved", call[c].on = state
               PROVE  Live = {} /\ Running = {}
    BY DEF Quiescent
  <2>1. Live = {}
    BY DEF IInv, OneLoop, Waiters, Live, LiveStates
  <2> QED
    BY <2>1 DEF IInv, Covered
<1> QED
  BY <1>1, SerialInvariant, PTL

\* Such a list never runs more handlers than the type's concurrency allows,
\* and one less while its loop is not waiting at the limit.
THEOREM HandlersAreBounded == Overlap = FALSE /\ Spec => []WithinConcurrency
<1>1. IInv => WithinConcurrency
  <2> SUFFICES ASSUME IInv PROVE WithinConcurrency
    OBVIOUS
  <2>1. Flushing \subseteq {state}
    BY DEF IInv, OneLoop, Flushing, Live, LiveStates
  <2>2. Cardinality(Running) \in Nat
    BY RunningSize DEF Running, RunningIn
  <2>3. CASE Flushing = {}
    BY <2>2, <2>3, FS_EmptySet, LimitPositive DEF IInv, Bounded, WithinConcurrency
  <2>4. CASE Flushing = {state}
    <3>1. Cardinality(Flushing) = 1
      BY <2>4, FS_Singleton
    <3> QED
      BY <2>2, <3>1, LimitPositive DEF IInv, Bounded, WithinConcurrency
  <2> QED
    BY <2>1, <2>3, <2>4
<1> QED
  BY <1>1, SerialInvariant, PTL

------------------------------------------------------------------------------
OneAtATime == Overlap = FALSE /\ Concurrency =< 1 /\ MaxDrops = 0

\* The pipe holds one command at most: what the list is waiting for.
Pipe ==
    \/ pipe = <<>>
    \/ \E l \in Loops : loop[l].pc = "reading" /\ pipe = <<NextCmd(l)>>
    \/ \E m \in Messages : phase[m] = "committing" /\ pipe = <<CommitCmd(m)>>
    \/ \E m \in Messages : phase[m] = "rolling" /\ pipe = <<RollbackCmd(m)>>

\* The message being worked on is at the left end of the backup.
OnRecord ==
    alive => \A m \in Messages :
        phase[m] \in {"handling", "replying", "committing"}
            => backup # <<>> /\ Last(backup) = m

\* Only what succeeded is committed.
CommitsSucceeded == \A m \in Messages : phase[m] = "committing" => m \in succeeded

RedisInv == Pipe /\ OnRecord /\ CommitsSucceeded /\ NoLoss

------------------------------------------------------------------------------
(***************************************************************************)
(* Sequences and their elements                                            *)
(***************************************************************************)

\* Append adds one element, at the left end of a list.
LEMMA AppendElements ==
    ASSUME NEW S, NEW s \in Seq(S), NEW e \in S
    PROVE  /\ Append(s, e) \in Seq(S)
           /\ Append(s, e) # <<>>
           /\ ToSet(Append(s, e)) = ToSet(s) \cup {e}
           /\ Last(Append(s, e)) = e
<1>1. DOMAIN s = 1..Len(s) /\ Len(s) \in Nat
  OBVIOUS
<1>2. DOMAIN Append(s, e) = 1..Len(s)+1 /\ Len(Append(s, e)) = Len(s) + 1
  BY AppendProperties
<1>3. \A i \in 1..Len(s) : Append(s, e)[i] = s[i]
  BY AppendProperties
<1>4. Append(s, e)[Len(s)+1] = e
  BY AppendProperties
<1>5. ToSet(Append(s, e)) = ToSet(s) \cup {e}
  BY <1>1, <1>2, <1>3, <1>4 DEF ToSet
<1> QED
  BY <1>2, <1>4, <1>5, AppendProperties DEF Last

\* Head and Tail split off the element at the right end.
LEMMA TailElements ==
    ASSUME NEW S, NEW s \in Seq(S), s # <<>>
    PROVE  /\ Head(s) \in S
           /\ Tail(s) \in Seq(S)
           /\ ToSet(s) = {Head(s)} \cup ToSet(Tail(s))
<1>1. Len(s) \in Nat /\ Len(s) > 0 /\ DOMAIN s = 1..Len(s)
  BY EmptySeq
<1>2. /\ Head(s) = s[1]
      /\ Tail(s) \in Seq(S)
      /\ DOMAIN Tail(s) = 1..Len(s)-1
      /\ \A i \in 1..Len(s)-1 : Tail(s)[i] = s[i+1]
  BY HeadTailProperties
<1>3. \A i \in 1..Len(s) : i = 1 \/ (i-1 \in 1..Len(s)-1 /\ s[i] = Tail(s)[i-1])
  BY <1>1, <1>2
<1>4. \A i \in 1..Len(s)-1 : i+1 \in 1..Len(s)
  BY <1>1
<1>5. ToSet(s) = {Head(s)} \cup ToSet(Tail(s))
  <2>1. ASSUME NEW i \in 1..Len(s) PROVE s[i] \in {Head(s)} \cup ToSet(Tail(s))
    <3>1. CASE i = 1
      BY <1>2, <3>1
    <3>2. CASE i-1 \in 1..Len(s)-1 /\ s[i] = Tail(s)[i-1]
      BY <1>2, <3>2 DEF ToSet
    <3> QED
      BY <1>3, <3>1, <3>2
  <2>2. ASSUME NEW i \in 1..Len(s)-1 PROVE Tail(s)[i] \in ToSet(s)
    BY <1>1, <1>2, <1>4 DEF ToSet
  <2>3. Head(s) \in ToSet(s)
    BY <1>1, <1>2 DEF ToSet
  <2>4. ToSet(s) \subseteq {Head(s)} \cup ToSet(Tail(s))
    BY <1>1, <2>1 DEF ToSet
  <2>5. ToSet(Tail(s)) \subseteq ToSet(s)
    BY <1>2, <2>2 DEF ToSet
  <2> QED
    BY <2>3, <2>4, <2>5
<1> QED
  BY <1>2, <1>5, HeadTailProperties

\* Front and Last split off the element at the left end.
LEMMA FrontElements ==
    ASSUME NEW S, NEW s \in Seq(S), s # <<>>
    PROVE  /\ Front(s) \in Seq(S)
           /\ ToSet(s) = ToSet(Front(s)) \cup {Last(s)}
<1>1. Len(s) \in Nat /\ Len(s) > 0 /\ DOMAIN s = 1..Len(s)
  BY EmptySeq
<1>2. \A i \in 1..Len(s)-1 : s[i] \in S
  BY <1>1
<1>3. /\ Front(s) \in Seq(S)
      /\ Len(Front(s)) = Len(s)-1
      /\ \A i \in 1..Len(s)-1 : Front(s)[i] = s[i]
  <2>1. 1 \in Int /\ Len(s)-1 \in Int /\ Front(s) = SubSeq(s, 1, Len(s)-1)
    BY <1>1 DEF Front
  <2>2. /\ SubSeq(s, 1, Len(s)-1) \in Seq(S)
        /\ Len(SubSeq(s, 1, Len(s)-1)) = IF 1 <= Len(s)-1 THEN (Len(s)-1)-1+1 ELSE 0
        /\ \A i \in 1..(Len(s)-1)-1+1 : SubSeq(s, 1, Len(s)-1)[i] = s[1+i-1]
    BY <1>2, <2>1, SubSeqProperties
  <2> QED
    BY <1>1, <2>1, <2>2
<1>4. DOMAIN Front(s) = 1..Len(s)-1
  BY <1>3
<1>5. ToSet(s) = ToSet(Front(s)) \cup {s[Len(s)]}
  BY <1>1, <1>3, <1>4 DEF ToSet
<1> QED
  BY <1>3, <1>5 DEF Last

------------------------------------------------------------------------------
(***************************************************************************)
(* Types                                                                   *)
(***************************************************************************)

\* A command keeps the lists lists of messages.
LEMMA ExecuteType ==
    ASSUME Q2TypeOK, NEW cmd, Execute(cmd)
    PROVE  /\ channel' \in Seq(Messages)
           /\ backup' \in Seq(Messages)
           /\ fallback' \in Seq(Messages)
<1> USE DEF Q2TypeOK
<1>1. CASE MoveNext
  <2>1. CASE channel = <<>>
    BY <1>1, <2>1 DEF MoveNext, lists
  <2>2. CASE channel # <<>>
    <3>1. Head(channel) \in Messages /\ Tail(channel) \in Seq(Messages)
      BY <2>2, TailElements
    <3> QED
      <4>1. /\ channel' = Tail(channel)
            /\ backup' = Append(backup, Head(channel))
            /\ fallback' = fallback
        BY <1>1, <2>2 DEF MoveNext
      <4> QED
        BY <3>1, <4>1, AppendElements
  <2> QED
    BY <2>1, <2>2
<1>2. CASE DropLatest
  BY <1>2, FrontElements, EmptySeq DEF DropLatest
<1>3. CASE MoveOldest
  <2>1. CASE backup = <<>>
    BY <1>3, <2>1 DEF MoveOldest, lists
  <2>2. CASE backup # <<>>
    <3>1. Head(backup) \in Messages /\ Tail(backup) \in Seq(Messages)
      BY <2>2, TailElements
    <3> QED
      <4>1. /\ backup' = Tail(backup)
            /\ fallback' = Append(fallback, Head(backup))
            /\ channel' = channel
        BY <1>3, <2>2 DEF MoveOldest
      <4> QED
        BY <3>1, <4>1, AppendElements
  <2> QED
    BY <2>1, <2>2
<1> QED
  BY <1>1, <1>2, <1>3 DEF Execute

\* What a step issues keeps the pipe a sequence of commands.
LEMMA IssuesType ==
    ASSUME Q2TypeOK, NEW rest \in Seq(Commands), NEW cmds \in Seq(Commands),
           Issues(rest, cmds)
    PROVE  /\ pipe' \in Seq(Commands)
           /\ sent' \in Seq(Messages)
           /\ drops' \in 0..MaxDrops
BY EmptySeq, ConcatProperties DEF Issues, Q2TypeOK

\* One command, or none, is a sequence of commands.
LEMMA CommandTypes ==
    /\ <<>> \in Seq(Commands)
    /\ \A l \in Loops : <<NextCmd(l)>> \in Seq(Commands) /\ Reads(l) \in Seq(Commands)
    /\ \A m \in Messages : /\ <<CommitCmd(m)>> \in Seq(Commands)
                            /\ <<RollbackCmd(m)>> \in Seq(Commands)
                            /\ Undoes(m) \in Seq(Commands)
<1>1. \A l \in Loops : NextCmd(l) \in Commands
  BY DEF NextCmd, Commands
<1>2. \A m \in Messages : CommitCmd(m) \in Commands /\ RollbackCmd(m) \in Commands
  BY DEF CommitCmd, RollbackCmd, Commands
<1> QED
  BY <1>1, <1>2 DEF Reads, Undoes

\* The Redis lists and the connection keep their types.
LEMMA Q2TypeStep ==
    ASSUME Q2TypeOK, [Q2Next]_q2vars
    PROVE  Q2TypeOK'
<1> USE DEF Q2TypeOK
<1>1. pipe # <<>> => Tail(pipe) \in Seq(Commands)
  BY TailElements
<1>2. ASSUME NEW l \in Loops, Q2LoopStep(l) PROVE Q2TypeOK'
  <2>1. CASE NextReplied(l)
    BY <1>1, <2>1, ExecuteType, IssuesType, CommandTypes DEF NextReplied, Replied
  <2>2. CASE NextRejected(l) \/ BatchFlushed(l)
    BY <2>2, IssuesType, CommandTypes DEF NextRejected, BatchFlushed, lists
  <2> QED
    BY <1>2, <2>1, <2>2 DEF Q2LoopStep
<1>3. ASSUME NEW l \in Loops, SubscriptionReads(l) \/ ProcessRestart(l) PROVE Q2TypeOK'
  BY <1>3, IssuesType, CommandTypes DEF SubscriptionReads, ProcessRestart, lists
<1>4. ASSUME NEW m \in Messages, Q2HandleStep(m) PROVE Q2TypeOK'
  <2>1. CASE HandlerSettles(m)
    <3>1. PICK cmds \in Seq(Commands) : Issues(pipe, cmds)
      BY <2>1, CommandTypes DEF HandlerSettles
    <3> QED
      BY <2>1, <3>1, IssuesType DEF HandlerSettles, lists
  <2>2. CASE CommitReplied(m) \/ RollbackReplied(m)
    <3>1. PICK cmds \in Seq(Commands) : pipe # <<>> /\ Issues(Tail(pipe), cmds)
      BY <2>2, CommandTypes DEF CommitReplied, RollbackReplied, Replied
    <3>2. PICK cmd : Execute(cmd)
      BY <2>2 DEF CommitReplied, RollbackReplied, Replied
    <3> QED
      BY <1>1, <3>1, <3>2, ExecuteType, IssuesType
  <2>3. CASE CommitRejected(m) \/ RollbackRejected(m)
    BY <2>3, IssuesType, CommandTypes DEF CommitRejected, RollbackRejected, lists
  <2> QED
    BY <1>4, <2>1, <2>2, <2>3 DEF Q2HandleStep
<1>5. ASSUME NEW m \in Messages, Send(m) PROVE Q2TypeOK'
  BY <1>5, AppendElements DEF Send
<1>6. ASSUME NEW c \in Calls, CallMoves(c) PROVE Q2TypeOK'
  BY <1>6 DEF CallMoves, lists
<1>7. CASE DisposeMoves \/ ConnectionClosed
  BY <1>7, EmptySeq DEF DisposeMoves, ConnectionClosed, lists
<1>8. CASE ReplyLost
  BY <1>8, ExecuteType, RedisQ2Assumption DEF ReplyLost
<1>9. CASE ProcessCrash
  BY <1>9, ExecuteType, EmptySeq DEF ProcessCrash, lists
<1>10. CASE UNCHANGED q2vars
  BY <1>10 DEF q2vars, lists
<1> QED
  BY <1>2, <1>3, <1>4, <1>5, <1>6, <1>7, <1>8, <1>9, <1>10 DEF Q2Next

\* Every variable of the transaction queue keeps its type, over any number of
\* crashes and lost replies.
THEOREM Q2TypeCorrect == Q2Spec => []Q2TypeOK
<1>1. Q2Init => Q2TypeOK
  BY CommandTypes, QueueListAssumption, RedisQ2Assumption, EmptySeq DEF Q2Init, Q2TypeOK
<1>2. Q2TypeOK /\ [Q2Next]_q2vars => Q2TypeOK'
  BY Q2TypeStep
<1> QED
  BY <1>1, <1>2, PTL DEF Q2Spec

------------------------------------------------------------------------------
(***************************************************************************)
(* The list over Redis is a list                                           *)
(***************************************************************************)

\* Every step over Redis is a step of the list or leaves the list alone.
LEMMA ListStep ==
    ASSUME Q2TypeOK, [Q2Next]_q2vars
    PROVE  [Next]_vars
<1>1. ASSUME NEW l \in Loops, Q2LoopStep(l) PROVE LoopStep(l)
  <2>1. CASE NextReplied(l)
    <3>1. channel # <<>> => Head(channel) \in Messages
      BY TailElements DEF Q2TypeOK
    <3> QED
      BY <2>1, <3>1 DEF NextReplied, LoopStep
  <2>2. CASE NextRejected(l) \/ BatchFlushed(l)
    BY <2>2 DEF NextRejected, BatchFlushed, LoopStep
  <2> QED
    BY <1>1, <2>1, <2>2 DEF Q2LoopStep
<1>2. ASSUME NEW l \in Loops, SubscriptionReads(l) \/ ProcessRestart(l)
      PROVE  Subscribe(l) \/ Restart(l)
  BY <1>2 DEF SubscriptionReads, ProcessRestart
<1>3. ASSUME NEW m \in Messages, Q2HandleStep(m) PROVE HandleStep(m)
  <2>1. CASE HandlerSettles(m)
    BY <2>1 DEF HandlerSettles, HandleStep
  <2>2. CASE CommitReplied(m) \/ CommitRejected(m)
    BY <2>2 DEF CommitReplied, CommitRejected, HandleStep
  <2>3. CASE RollbackReplied(m) \/ RollbackRejected(m)
    BY <2>3 DEF RollbackReplied, RollbackRejected, HandleStep
  <2> QED
    BY <1>3, <2>1, <2>2, <2>3 DEF Q2HandleStep
<1>4. ASSUME NEW c \in Calls, CallMoves(c) PROVE CallStep(c) \/ Unsubscribe(c)
  BY <1>4 DEF CallMoves
<1>5. CASE DisposeMoves \/ ConnectionClosed
  BY <1>5 DEF DisposeMoves, ConnectionClosed, DisposeStep, Next
<1>6. CASE ProcessCrash
  BY <1>6 DEF ProcessCrash, Next
<1>7. CASE ReplyLost \/ (\E m \in Messages : Send(m)) \/ UNCHANGED q2vars
  BY <1>7 DEF ReplyLost, Send, q2vars
<1> QED
  BY <1>1, <1>2, <1>3, <1>4, <1>5, <1>6, <1>7 DEF Q2Next, Next

\* The transaction queue implements QueueList: what holds of every list holds
\* of this one, whatever Redis does.
THEOREM ImplementsQueueList == Q2Spec => Spec
<1>1. Q2Init => Init
  BY DEF Q2Init
<1>2. Q2TypeOK /\ [Q2Next]_q2vars => [Next]_vars
  BY ListStep
<1> QED
  BY <1>1, <1>2, Q2TypeCorrect, PTL DEF Q2Spec, Spec

------------------------------------------------------------------------------
(***************************************************************************)
(* Nothing is lost, one at a time                                          *)
(***************************************************************************)

\* With a limit of one, no two messages are being worked on, and none is
\* while a loop reads.
LEMMA OnlyOneRuns ==
    ASSUME OneAtATime, IInv
    PROVE  /\ \A m, n \in Running : m = n
           /\ \A l \in Loops : loop[l].pc = "reading" => Running = {}
<1>1. Limit = 1
  BY QueueListAssumption DEF OneAtATime, Limit
<1>2. Running \in SUBSET Messages
  BY DEF Running, RunningIn
<1>3. ASSUME NEW m \in Running
      PROVE  Cardinality({m}) = 1 /\ Cardinality({m}) =< Cardinality(Running)
  <2>1. Cardinality({m}) = 1
    BY FS_Singleton
  <2>2. {m} \in SUBSET Running
    OBVIOUS
  <2> QED
    BY <1>2, <2>1, <2>2, RunningSize
<1>4. ASSUME NEW m \in Running, NEW n \in Running, m # n PROVE FALSE
  <2>1. Cardinality({m} \cup {n}) = 2
    <3>1. {m} \in SUBSET Messages /\ n \in Messages \ {m}
      BY <1>2, <1>4
    <3>2. Cardinality({m} \cup {n}) = Cardinality({m}) + 1
      BY <3>1, RunningSize
    <3> QED
      BY <1>3, <3>2
  <2>2. Cardinality({m} \cup {n}) =< Cardinality(Running)
    <3>1. {m} \cup {n} \in SUBSET Running
      OBVIOUS
    <3> QED
      BY <1>2, <3>1, RunningSize
  <2>3. Cardinality(Running) =< 1 /\ Cardinality(Running) \in Nat
    BY <1>1, <1>2, RunningSize DEF IInv, Bounded
  <2> QED
    BY <2>1, <2>2, <2>3
<1>5. ASSUME NEW l \in Loops, loop[l].pc = "reading" PROVE Running = {}
  <2>1. Flushing = {}
    BY <1>5 DEF IInv, OneLoop, Flushing, Live, LiveStates
  <2>2. Cardinality(Running) = 0
    BY <1>1, <1>2, <2>1, RunningSize DEF IInv, Bounded
  <2>3. ASSUME NEW m \in Running PROVE FALSE
    <3>1. Cardinality({m}) = 1 /\ Cardinality({m}) =< Cardinality(Running)
      BY <1>3
    <3> QED
      BY <2>2, <3>1
  <2> QED
    BY <2>3
<1> QED
  BY <1>4, <1>5

\* What each command makes the server do.
LEMMA CommandMeaning ==
    /\ \A l \in Loops : Execute(NextCmd(l)) => MoveNext
    /\ \A m \in Messages : Execute(CommitCmd(m)) => DropLatest
    /\ \A m \in Messages : Execute(RollbackCmd(m)) => MoveOldest
BY DEF Execute, NextCmd, CommitCmd, RollbackCmd

\* A read and a rollback move an entry from one list to another.
LEMMA MovesKeepStored ==
    ASSUME Q2TypeOK, MoveNext \/ MoveOldest
    PROVE  Stored' = Stored
<1> USE DEF Q2TypeOK, Stored
<1>1. CASE MoveNext /\ channel # <<>>
  <2>1. /\ channel' = Tail(channel)
        /\ backup' = Append(backup, Head(channel))
        /\ fallback' = fallback
    BY <1>1 DEF MoveNext
  <2>2. /\ Head(channel) \in Messages
        /\ ToSet(channel) = {Head(channel)} \cup ToSet(channel')
    BY <1>1, <2>1, TailElements
  <2>3. ToSet(backup') = ToSet(backup) \cup {Head(channel)}
    BY <2>1, <2>2, AppendElements
  <2> QED
    BY <2>1, <2>2, <2>3
<1>2. CASE MoveOldest /\ backup # <<>>
  <2>1. /\ backup' = Tail(backup)
        /\ fallback' = Append(fallback, Head(backup))
        /\ channel' = channel
    BY <1>2 DEF MoveOldest
  <2>2. /\ Head(backup) \in Messages
        /\ ToSet(backup) = {Head(backup)} \cup ToSet(backup')
    BY <1>2, <2>1, TailElements
  <2>3. ToSet(fallback') = ToSet(fallback) \cup {Head(backup)}
    BY <2>1, <2>2, AppendElements
  <2> QED
    BY <2>1, <2>2, <2>3
<1>3. CASE UNCHANGED lists
  BY <1>3 DEF lists
<1> QED
  BY <1>1, <1>2, <1>3 DEF MoveNext, MoveOldest

\* A commit drops the entry at the left end of the backup and no other.
LEMMA DropLosesLatest ==
    ASSUME Q2TypeOK, DropLatest, backup # <<>>
    PROVE  Stored \subseteq Stored' \cup {Last(backup)}
<1>1. /\ ToSet(backup) = ToSet(backup') \cup {Last(backup)}
      /\ UNCHANGED <<channel, fallback>>
  BY FrontElements DEF DropLatest, Q2TypeOK
<1> QED
  BY <1>1 DEF Stored

\* A command is the only one in the pipe, and a closed connection has none.
LEMMA IssuesOne ==
    ASSUME NEW cmds \in Seq(Commands), Issues(<<>>, cmds)
    PROVE  pipe' = cmds \/ pipe' = <<>>
BY ConcatEmptySeq DEF Issues

\* The pipe is empty unless a loop reads or a message is being settled.
LEMMA PipeEmpty ==
    ASSUME OneAtATime, IInv, Pipe
    PROVE  /\ pipe # <<>> => Tail(pipe) = <<>>
           /\ Running = {} /\ (\A l \in Loops : loop[l].pc # "reading") => pipe = <<>>
           /\ \A m \in Messages : phase[m] \in {"handling", "replying"} => pipe = <<>>
<1>1. \A m \in Messages : phase[m] \in ActivePhases => m \in Running
  BY DEF Running, RunningIn
<1>2. ASSUME pipe # <<>> PROVE Tail(pipe) = <<>>
  <2>1. PICK cmd : pipe = <<cmd>>
    BY <1>2 DEF Pipe
  <2>2. Tail(<<cmd>>) = <<>>
    OBVIOUS
  <2> QED
    BY <2>1, <2>2
<1>3. Running = {} /\ (\A l \in Loops : loop[l].pc # "reading") => pipe = <<>>
  BY <1>1 DEF Pipe, ActivePhases
<1>4. ASSUME NEW m \in Messages, phase[m] \in {"handling", "replying"}
      PROVE  pipe = <<>>
  <2>1. \A n \in Messages : phase[n] \notin {"committing", "rolling"}
    BY <1>1, <1>4, OnlyOneRuns DEF ActivePhases
  <2>2. \A l \in Loops : loop[l].pc # "reading"
    BY <1>1, <1>4, OnlyOneRuns DEF ActivePhases
  <2> QED
    BY <2>1, <2>2 DEF Pipe
<1> QED
  BY <1>2, <1>3, <1>4

\* A step that moves entries, or drops one that succeeded, loses nothing.
LEMMA NothingLost ==
    ASSUME NoLoss, sent' = sent, succeeded \subseteq succeeded',
           Stored \subseteq Stored' \cup succeeded'
    PROVE  NoLoss'
BY DEF NoLoss

\* A step that leaves the lists and the messages alone keeps the rest, if it
\* keeps the pipe.
LEMMA Untouched ==
    ASSUME RedisInv, Pipe', UNCHANGED <<lists, sent, phase, succeeded>>, alive' => alive
    PROVE  RedisInv'
<1>1. Stored' = Stored
  BY DEF lists, Stored
<1> QED
  BY <1>1 DEF RedisInv, OnRecord, CommitsSucceeded, NoLoss, lists

\* The steps of the loops.
LEMMA LoopStepRedisInv ==
    ASSUME OneAtATime, IInv, Q2TypeOK, RedisInv, NEW l \in Loops, Q2LoopStep(l)
    PROVE  RedisInv'
<1> USE DEF RedisInv
<1>1. loop'[l].pc = "reading" => Reads(l) = <<NextCmd(l)>>
  BY DEF Reads
<1>2. loop'[l].pc # "reading" => Reads(l) = <<>>
  BY DEF Reads
<1>3. ASSUME NextReplied(l) PROVE RedisInv'
  <2>1. loop[l].pc = "reading" /\ Running = {}
    BY <1>3, OnlyOneRuns DEF NextReplied, ReadMessage, ReadNothing
  <2>2. MoveNext /\ Stored' = Stored
    BY <1>3, CommandMeaning, MovesKeepStored DEF NextReplied, Replied
  <2>3. sent' = sent /\ succeeded' = succeeded
    BY <1>3 DEF NextReplied, Issues, ReadMessage, ReadNothing, workVars
  <2>4. Pipe'
    <3>1. Issues(<<>>, Reads(l))
      BY <1>3, PipeEmpty DEF NextReplied, Replied
    <3>2. pipe' = Reads(l) \/ pipe' = <<>>
      BY <3>1, IssuesOne, CommandTypes
    <3> QED
      BY <1>1, <1>2, <3>2 DEF Pipe, NextCmd
  <2>5. CASE ReadMessage(l, Head(channel)) /\ channel # <<>>
    <3>1. /\ Head(channel) \in Messages
          /\ backup' = Append(backup, Head(channel))
          /\ phase' = [phase EXCEPT ![Head(channel)] = "handling"]
      BY <2>2, <2>5, TailElements DEF MoveNext, ReadMessage, Q2TypeOK
    <3>2. \A m \in Messages : phase'[m] \in ActivePhases => m = Head(channel)
      BY <2>1, <3>1 DEF Running, RunningIn, IInv, TypeOK
    <3>3. backup' # <<>> /\ Last(backup') = Head(channel)
      <4>1. backup \in Seq(Messages)
        BY DEF Q2TypeOK
      <4> QED
        BY <3>1, <4>1, AppendElements
    <3>4. phase'[Head(channel)] = "handling"
      BY <3>1 DEF IInv, TypeOK
    <3>5. OnRecord' /\ CommitsSucceeded'
      BY <3>2, <3>3, <3>4 DEF OnRecord, CommitsSucceeded, ActivePhases
    <3> QED
      BY <2>2, <2>3, <2>4, <3>5, NothingLost
  <2>6. CASE ReadNothing(l)
    <3>1. \A m \in Messages : phase'[m] \notin ActivePhases
      BY <2>1, <2>6 DEF ReadNothing, workVars, Running, RunningIn
    <3>2. OnRecord' /\ CommitsSucceeded'
      BY <3>1 DEF OnRecord, CommitsSucceeded, ActivePhases
    <3> QED
      BY <2>2, <2>3, <2>4, <3>2, NothingLost
  <2> QED
    BY <1>3, <2>5, <2>6 DEF NextReplied
<1>4. ASSUME NextRejected(l) PROVE RedisInv'
  <2>1. Pipe'
    BY <1>4 DEF NextRejected, Issues, Pipe
  <2> QED
    BY <1>4, <2>1, Untouched DEF NextRejected, Issues, ReadNothing, workVars
<1>5. ASSUME BatchFlushed(l) PROVE RedisInv'
  <2>1. Running = {}
    BY <1>5 DEF BatchFlushed, Flushed, IInv, Covered
  <2>2. \A k \in Loops : loop[k].pc # "reading"
    BY <1>5 DEF BatchFlushed, Flushed, IInv, OneLoop, Live, LiveStates
  <2>3. Issues(<<>>, Reads(l))
    BY <1>5, <2>1, <2>2, PipeEmpty DEF BatchFlushed
  <2>4. pipe' = Reads(l) \/ pipe' = <<>>
    BY <2>3, IssuesOne, CommandTypes
  <2>5. Pipe'
    BY <1>1, <1>2, <2>4 DEF Pipe, NextCmd
  <2> QED
    BY <1>5, <2>3, <2>5, Untouched DEF BatchFlushed, Flushed, Issues, workVars
<1> QED
  BY <1>3, <1>4, <1>5 DEF Q2LoopStep

\* The steps of handle().
LEMMA HandleStepRedisInv ==
    ASSUME OneAtATime, IInv, Q2TypeOK, RedisInv, NEW m \in Messages, Q2HandleStep(m)
    PROVE  RedisInv'
<1> USE DEF RedisInv
<1>1. \A n \in Messages : phase[n] \in ActivePhases => n \in Running
  BY DEF Running, RunningIn
<1>2. ASSUME phase[m] \in ActivePhases
      PROVE  \A n \in Messages \ {m} : phase[n] \notin ActivePhases
  BY <1>1, <1>2, OnlyOneRuns
<1>3. ASSUME HandlerSettles(m) PROVE RedisInv'
  <2>1. phase[m] \in {"handling", "replying"} /\ pipe = <<>>
    BY <1>3, PipeEmpty
    DEF HandlerSettles, HandlerReturns, HandlerReplies, HandlerThrows, ReplySent,
        ReplyFails, Moves
  <2>2. phase \in [Messages -> Phases] /\ succeeded \subseteq Messages
    BY DEF IInv, TypeOK
  <2>3. PICK to \in {"replying", "committing", "rolling"} :
        /\ phase' = [phase EXCEPT ![m] = to]
        /\ succeeded' = IF to = "committing" THEN succeeded \cup {m} ELSE succeeded
        /\ UNCHANGED <<alive, lists, sent>>
        /\ to = "replying" => Issues(<<>>, <<>>)
        /\ to = "committing" => Issues(<<>>, <<CommitCmd(m)>>)
        /\ to = "rolling" => Issues(<<>>, <<RollbackCmd(m)>>)
    BY <1>3, <2>1
    DEF HandlerSettles, HandlerReturns, HandlerReplies, HandlerThrows, ReplySent,
        ReplyFails, Moves, Issues
  <2>4. /\ phase'[m] = to
        /\ \A n \in Messages \ {m} : phase'[n] = phase[n]
    BY <2>2, <2>3
  <2>5. Pipe'
    BY <2>3, <2>4, IssuesOne, CommandTypes DEF Pipe
  <2>6. OnRecord' /\ CommitsSucceeded'
    BY <1>2, <2>1, <2>3, <2>4 DEF OnRecord, CommitsSucceeded, ActivePhases, lists
  <2>7. NoLoss'
    BY <2>3, NothingLost DEF lists, Stored
  <2> QED
    BY <2>5, <2>6, <2>7
<1>4. ASSUME alive, phase[m] \in {"committing", "rolling"},
             phase'[m] \notin {"handling", "replying", "committing"},
             \A n \in Messages \ {m} : phase'[n] = phase[n]
      PROVE  OnRecord' /\ CommitsSucceeded'
  BY <1>2, <1>4 DEF OnRecord, CommitsSucceeded, ActivePhases
<1>5. ASSUME CommitReplied(m) \/ CommitRejected(m)
      PROVE  /\ alive
             /\ phase[m] = "committing"
             /\ phase'[m] \in {"released", "rolling"}
             /\ \A n \in Messages \ {m} : phase'[n] = phase[n]
             /\ UNCHANGED <<sent, succeeded>>
  BY <1>5
  DEF CommitReplied, CommitRejected, Committed, Moves, Issues, IInv, TypeOK
<1>6. ASSUME RollbackReplied(m) \/ RollbackRejected(m)
      PROVE  /\ alive
             /\ phase[m] = "rolling"
             /\ phase'[m] \in {"released", "rejected"}
             /\ \A n \in Messages \ {m} : phase'[n] = phase[n]
             /\ UNCHANGED <<sent, succeeded>>
  BY <1>6
  DEF RollbackReplied, RollbackRejected, RolledBack, RollbackThrows, Moves, Issues,
      IInv, TypeOK
<1>7. ASSUME CommitReplied(m) PROVE RedisInv'
  <2>1. OnRecord' /\ CommitsSucceeded'
    BY <1>4, <1>5, <1>7
  <2>2. Pipe'
    <3>1. Issues(<<>>, Undoes(m))
      BY <1>7, PipeEmpty DEF CommitReplied, Replied
    <3>2. pipe' = Undoes(m) \/ pipe' = <<>>
      BY <3>1, IssuesOne, CommandTypes
    <3> QED
      BY <3>2 DEF Pipe, Undoes
  <2>3. DropLatest
    BY <1>7, CommandMeaning DEF CommitReplied, Replied
  <2>4. backup # <<>> /\ Last(backup) = m /\ m \in succeeded
    BY <1>5, <1>7 DEF OnRecord, CommitsSucceeded
  <2>5. Stored \subseteq Stored' \cup succeeded'
    BY <1>5, <1>7, <2>3, <2>4, DropLosesLatest
  <2> QED
    BY <1>5, <1>7, <2>1, <2>2, <2>5, NothingLost
<1>8. ASSUME RollbackReplied(m) PROVE RedisInv'
  <2>1. OnRecord' /\ CommitsSucceeded'
    BY <1>4, <1>6, <1>8
  <2>2. Issues(<<>>, <<>>)
    BY <1>8, PipeEmpty DEF RollbackReplied, Replied
  <2>3. Pipe'
    BY <2>2, IssuesOne, CommandTypes DEF Pipe
  <2>4. Stored' = Stored
    BY <1>8, CommandMeaning, MovesKeepStored DEF RollbackReplied, Replied
  <2> QED
    BY <1>6, <1>8, <2>1, <2>3, <2>4, NothingLost
<1>9. ASSUME CommitRejected(m) \/ RollbackRejected(m) PROVE RedisInv'
  <2>1. OnRecord' /\ CommitsSucceeded'
    BY <1>4, <1>5, <1>6, <1>9
  <2>2. Pipe'
    BY <1>9 DEF CommitRejected, RollbackRejected, Issues, Pipe
  <2>3. Stored' = Stored
    BY <1>9 DEF CommitRejected, RollbackRejected, lists, Stored
  <2> QED
    BY <1>5, <1>6, <1>9, <2>1, <2>2, <2>3, NothingLost
<1> QED
  BY <1>3, <1>7, <1>8, <1>9 DEF Q2HandleStep

\* The steps of the callers, the network and the process.
LEMMA OtherStepRedisInv ==
    ASSUME OneAtATime, IInv, Q2TypeOK, RedisInv, [Q2Next]_q2vars,
           \A l \in Loops : ~Q2LoopStep(l),
           \A m \in Messages : ~Q2HandleStep(m)
    PROVE  RedisInv'
<1> USE DEF RedisInv
<1>1. ASSUME NEW l \in Loops, SubscriptionReads(l) PROVE RedisInv'
  <2>1. Live = {}
    BY <1>1 DEF SubscriptionReads, Subscribe, OneAtATime, IInv, Stopping
  <2>2. Running = {} /\ \A k \in Loops : loop[k].pc # "reading"
    BY <2>1 DEF IInv, Covered, Live, LiveStates
  <2>3. pipe = <<>>
    BY <2>2, PipeEmpty
  <2>4. pipe' = Reads(l) \/ pipe' = <<>>
    BY <1>1, <2>3, IssuesOne, CommandTypes DEF SubscriptionReads
  <2>5. Pipe'
    BY <2>4 DEF Pipe, Reads
  <2> QED
    BY <1>1, <2>5, Untouched DEF SubscriptionReads, Subscribe, Issues, workVars
<1>2. ASSUME NEW l \in Loops, ProcessRestart(l) PROVE RedisInv'
  <2>1. pipe' = <<NextCmd(l)>> /\ loop'[l].pc = "reading"
    BY <1>2 DEF ProcessRestart, Restart, Idle
  <2>2. \A m \in Messages : phase'[m] \notin ActivePhases
    BY <1>2 DEF ProcessRestart, Restart, Running, RunningIn, ActivePhases
  <2>3. Pipe' /\ OnRecord' /\ CommitsSucceeded'
    BY <2>1, <2>2 DEF Pipe, OnRecord, CommitsSucceeded, ActivePhases
  <2>4. NoLoss'
    BY <1>2, NothingLost DEF ProcessRestart, Restart, lists, Stored
  <2> QED
    BY <2>3, <2>4
<1>3. ASSUME NEW m \in Messages, Send(m) PROVE RedisInv'
  <2>1. /\ ToSet(sent') = ToSet(sent) \cup {m}
        /\ ToSet(channel') = ToSet(channel) \cup {m}
    BY <1>3, AppendElements DEF Send, Q2TypeOK
  <2>2. NoLoss'
    BY <1>3, <2>1 DEF Send, NoLoss, Stored, vars, workVars
  <2>3. Pipe' /\ OnRecord' /\ CommitsSucceeded'
    BY <1>3 DEF Send, Pipe, OnRecord, CommitsSucceeded, vars, workVars, loopVars
  <2> QED
    BY <2>2, <2>3
<1>4. ASSUME NEW c \in Calls, CallMoves(c) PROVE RedisInv'
  <2>1. UNCHANGED <<alive, loop, workVars, lists, sent, pipe>>
    BY <1>4
    DEF CallMoves, CallStep, Unsubscribe, CallUnsubscribe, Cancelled, Unsubscribed
  <2>2. Pipe'
    BY <2>1 DEF Pipe, workVars
  <2> QED
    BY <2>1, <2>2, Untouched DEF workVars
<1>5. CASE DisposeMoves \/ ConnectionClosed
  <2>1. /\ UNCHANGED <<alive, loop, workVars, lists, sent>>
        /\ pipe' = pipe \/ pipe' = <<>>
    BY <1>5
    DEF DisposeMoves, ConnectionClosed, Dispose, DisposeUnsubscribes, Disposed,
        ReaderClosed, CallUnsubscribe
  <2>2. Pipe'
    BY <2>1 DEF Pipe, workVars
  <2> QED
    BY <2>1, <2>2, Untouched DEF workVars
<1>6. CASE ReplyLost
  BY <1>6 DEF ReplyLost, OneAtATime, Q2TypeOK
<1>7. CASE ProcessCrash
  <2>1. /\ alive /\ alive' = FALSE /\ pipe' = <<>>
        /\ UNCHANGED <<sent, phase, succeeded>>
    BY <1>7 DEF ProcessCrash, Crash, workVars
  <2>2. Pipe' /\ OnRecord' /\ CommitsSucceeded'
    BY <2>1 DEF Pipe, OnRecord, CommitsSucceeded
  <2>3. Stored \subseteq Stored' \cup succeeded
    <3>1. CASE UNCHANGED lists
      BY <3>1 DEF lists, Stored
    <3>2. CASE pipe # <<>> /\ Execute(Head(pipe))
      <4>1. CASE \E l \in Loops : pipe = <<NextCmd(l)>>
        BY <3>2, <4>1, CommandMeaning, MovesKeepStored
      <4>2. CASE \E m \in Messages : phase[m] = "rolling" /\ pipe = <<RollbackCmd(m)>>
        BY <3>2, <4>2, CommandMeaning, MovesKeepStored
      <4>3. ASSUME NEW m \in Messages, phase[m] = "committing", pipe = <<CommitCmd(m)>>
            PROVE  Stored \subseteq Stored' \cup succeeded
        <5>1. DropLatest
          BY <3>2, <4>3, CommandMeaning
        <5>2. backup # <<>> /\ Last(backup) = m /\ m \in succeeded
          BY <2>1, <4>3 DEF OnRecord, CommitsSucceeded
        <5> QED
          BY <5>1, <5>2, DropLosesLatest
      <4> QED
        BY <3>2, <4>1, <4>2, <4>3 DEF Pipe
    <3> QED
      BY <1>7, <3>1, <3>2 DEF ProcessCrash
  <2> QED
    BY <2>1, <2>2, <2>3, NothingLost
<1>8. CASE UNCHANGED q2vars
  BY <1>8, Untouched DEF q2vars, vars, workVars, loopVars, Pipe
<1> QED
  BY <1>1, <1>2, <1>3, <1>4, <1>5, <1>6, <1>7, <1>8 DEF Q2Next

\* One at a time: the pipe holds what the list waits for, and the left end of the
\* backup is the entry of the message being worked on.  The inductive invariant
\* of the next theorem, and what the others about one message at a time rest on.
THEOREM OneAtATimeInvariant == OneAtATime /\ Q2Spec => []RedisInv
<1>1. Q2Init => RedisInv
  <2> SUFFICES ASSUME Q2Init PROVE RedisInv
    OBVIOUS
  <2>1. Pipe
    BY QueueListAssumption DEF Q2Init, Init, Idle, Pipe
  <2>2. OnRecord /\ CommitsSucceeded
    BY DEF Q2Init, Init, OnRecord, CommitsSucceeded
  <2>3. ToSet(sent) = {}
    BY DEF Q2Init, ToSet
  <2> QED
    BY <2>1, <2>2, <2>3 DEF RedisInv, NoLoss
<1>2. OneAtATime /\ IInv /\ Q2TypeOK /\ RedisInv /\ [Q2Next]_q2vars => RedisInv'
  BY LoopStepRedisInv, HandleStepRedisInv, OtherStepRedisInv
<1>3. OneAtATime => [](OneAtATime)
  BY DEF OneAtATime
<1>4. OneAtATime => Overlap = FALSE
  BY DEF OneAtATime
<1>5. OneAtATime /\ Q2Spec => []IInv
  BY <1>4, SerialInvariant, ImplementsQueueList, PTL
<1> QED
  BY <1>1, <1>2, <1>3, <1>5, <1>5, Q2TypeCorrect, PTL DEF Q2Spec

\* A transaction queue that works on one message at a time loses none: what is
\* in none of its lists has been handled to the end, over crashes at any
\* point, messages that cannot be decoded and watchers that throw.
THEOREM NothingIsLost == OneAtATime /\ Q2Spec => []NoLoss
<1>1. RedisInv => NoLoss
  BY DEF RedisInv
<1> QED
  BY <1>1, OneAtATimeInvariant, PTL

\* The calls of unsubscribe() of a transaction queue resolve when it is quiet.
THEOREM Q2UnsubscribeIsQuiet == Overlap = FALSE /\ Q2Spec => []Quiescent
BY UnsubscribeIsQuiet, ImplementsQueueList, PTL

------------------------------------------------------------------------------
\* The three lists repeat nothing and share nothing, and what is in them was
\* sent, once.
Apart ==
    /\ IsInjective(sent) /\ IsInjective(channel)
    /\ IsInjective(backup) /\ IsInjective(fallback)
    /\ ToSet(channel) \cap ToSet(backup) = {}
    /\ ToSet(channel) \cap ToSet(fallback) = {}
    /\ ToSet(backup) \cap ToSet(fallback) = {}
    /\ Stored \subseteq ToSet(sent)

\* The channel is the end of what was sent.
InOrder ==
    /\ Len(channel) =< Len(sent)
    /\ \A i \in 1..Len(channel) : channel[i] = sent[Len(sent) - Len(channel) + i]

PlacesInv == Apart /\ InOrder

------------------------------------------------------------------------------
(***************************************************************************)
(* Sequences without repetitions                                           *)
(***************************************************************************)

\* Such a sequence is as long as the set of its elements is large.
LEMMA InjectiveSize ==
    ASSUME NEW S, NEW s \in Seq(S), IsInjective(s)
    PROVE  IsFiniteSet(ToSet(s)) /\ Cardinality(ToSet(s)) = Len(s)
<1>1. s \in [1..Len(s) -> S] /\ DOMAIN s = 1..Len(s) /\ Len(s) \in Nat
  BY LenProperties
<1>2. s \in Bijection(1..Len(s), ToSet(s))
  BY <1>1 DEF Bijection, Injection, Surjection, IsInjective, ToSet
<1>3. IsFiniteSet(1..Len(s)) /\ Cardinality(1..Len(s)) = Len(s)
  <2>1. 1 \in Int /\ Len(s) \in Int
    BY <1>1
  <2>2. IsFiniteSet(1..Len(s)) /\ Cardinality(1..Len(s)) = IF 1 > Len(s) THEN 0 ELSE Len(s)-1+1
    BY <2>1, FS_Interval
  <2> QED
    BY <1>1, <2>2
<1> QED
  BY <1>2, <1>3, FS_Bijection DEF ExistsBijection

\* A new element does not repeat anything.
LEMMA AppendOnce ==
    ASSUME NEW S, NEW s \in Seq(S), IsInjective(s), NEW e \in S \ ToSet(s)
    PROVE  IsInjective(Append(s, e))
<1>1. DOMAIN s = 1..Len(s) /\ Len(s) \in Nat
  BY LenProperties
<1>2. DOMAIN Append(s, e) = 1..Len(s)+1
  BY AppendProperties, LenProperties
<1>3. \A i \in 1..Len(s) : Append(s, e)[i] = s[i] /\ s[i] # e
  BY <1>1, AppendProperties DEF ToSet
<1>4. Append(s, e)[Len(s)+1] = e
  BY AppendProperties
<1>5. \A i \in 1..Len(s)+1 : i \in 1..Len(s) \/ i = Len(s)+1
  BY <1>1
<1> QED
  BY <1>1, <1>2, <1>3, <1>4, <1>5 DEF IsInjective

\* Without its first element it repeats nothing, that element included.
LEMMA TailOnce ==
    ASSUME NEW S, NEW s \in Seq(S), IsInjective(s), s # <<>>
    PROVE  IsInjective(Tail(s)) /\ Head(s) \notin ToSet(Tail(s))
<1>1. Len(s) \in Nat /\ Len(s) > 0 /\ DOMAIN s = 1..Len(s) /\ Head(s) = s[1]
  BY EmptySeq, LenProperties
<1>2. DOMAIN Tail(s) = 1..Len(s)-1 /\ \A i \in 1..Len(s)-1 : Tail(s)[i] = s[i+1]
  BY HeadTailProperties, LenProperties
<1>3. \A i \in 1..Len(s)-1 : i+1 \in 1..Len(s) /\ i+1 # 1
  BY <1>1
<1>4. \A i, j \in 1..Len(s) : s[i] = s[j] => i = j
  BY <1>1 DEF IsInjective
<1>5. IsInjective(Tail(s))
  <2> SUFFICES ASSUME NEW i \in 1..Len(s)-1, NEW j \in 1..Len(s)-1,
                      Tail(s)[i] = Tail(s)[j]
               PROVE  i = j
    BY <1>2 DEF IsInjective
  <2>1. i+1 = j+1
    BY <1>2, <1>3, <1>4
  <2> QED
    BY <2>1
<1>6. \A i \in 1..Len(s)-1 : Tail(s)[i] # Head(s)
  <2> SUFFICES ASSUME NEW i \in 1..Len(s)-1, s[i+1] = s[1] PROVE FALSE
    BY <1>1, <1>2
  <2> QED
    BY <1>1, <1>3, <1>4
<1> QED
  BY <1>2, <1>5, <1>6 DEF ToSet

\* Nor without its last.
LEMMA FrontOnce ==
    ASSUME NEW S, NEW s \in Seq(S), IsInjective(s), s # <<>>
    PROVE  IsInjective(Front(s)) /\ Last(s) \notin ToSet(Front(s))
<1>1. Len(s) \in Nat /\ Len(s) > 0 /\ DOMAIN s = 1..Len(s)
  BY EmptySeq, LenProperties
<1>2. \A i \in 1..Len(s)-1 : s[i] \in S
  BY <1>1
<1>3. 1 \in Int /\ Len(s)-1 \in Int /\ Front(s) = SubSeq(s, 1, Len(s)-1)
  BY <1>1 DEF Front
<1>4. /\ Front(s) \in Seq(S)
      /\ Len(Front(s)) = Len(s)-1
      /\ \A i \in 1..Len(s)-1 : Front(s)[i] = s[i]
  <2>1. /\ SubSeq(s, 1, Len(s)-1) \in Seq(S)
        /\ Len(SubSeq(s, 1, Len(s)-1)) = IF 1 <= Len(s)-1 THEN (Len(s)-1)-1+1 ELSE 0
        /\ \A i \in 1..(Len(s)-1)-1+1 : SubSeq(s, 1, Len(s)-1)[i] = s[1+i-1]
    BY <1>2, <1>3, SubSeqProperties
  <2> QED
    BY <1>1, <1>3, <2>1
<1>5. DOMAIN Front(s) = 1..Len(s)-1
  BY <1>4, LenProperties
<1>6. \A i, j \in 1..Len(s) : s[i] = s[j] => i = j
  BY <1>1 DEF IsInjective
<1>7. IsInjective(Front(s))
  BY <1>1, <1>4, <1>5, <1>6 DEF IsInjective
<1>8. \A i \in 1..Len(s)-1 : Front(s)[i] # s[Len(s)]
  <2> SUFFICES ASSUME NEW i \in 1..Len(s)-1, s[i] = s[Len(s)] PROVE FALSE
    BY <1>4
  <2>1. i \in Int /\ 1 =< i /\ i =< Len(s)-1 /\ Len(s) \in Int /\ Len(s) > 0
    BY <1>1
  <2>2. i \in 1..Len(s) /\ Len(s) \in 1..Len(s) /\ i # Len(s)
    BY <2>1
  <2> QED
    BY <1>6, <2>2
<1> QED
  BY <1>5, <1>7, <1>8 DEF ToSet, Last

\* A sequence whose places are the last places of another is its suffix.
LEMMA SuffixByPlaces ==
    ASSUME NEW S, NEW s \in Seq(S), NEW t \in Seq(S), Len(s) =< Len(t),
           \A i \in 1..Len(s) : s[i] = t[Len(t) - Len(s) + i]
    PROVE  IsSuffix(s, t)
<1>1. Len(s) \in Nat /\ Len(t) \in Nat
  BY LenProperties
<1>2. ASSUME NEW u \in Seq(S)
      PROVE  /\ Reverse(u) \in Seq(S)
             /\ Len(Reverse(u)) = Len(u)
             /\ \A i \in 1..Len(u) : Reverse(u)[i] = u[Len(u) - i + 1]
  <2>1. Len(u) \in Nat /\ u \in [1..Len(u) -> S]
    BY LenProperties
  <2>2. Reverse(u) = [i \in 1..Len(u) |-> u[Len(u) - i + 1]]
    BY DEF Reverse
  <2>3. \A i \in 1..Len(u) : Len(u) - i + 1 \in 1..Len(u)
    BY <2>1
  <2>4. Reverse(u) \in [1..Len(u) -> S]
    BY <2>1, <2>2, <2>3
  <2>5. Reverse(u) \in Seq(S)
    BY <2>1, <2>4, SeqDef
  <2> QED
    BY <2>1, <2>2, <2>4, <2>5, LenProperties
<1>3. \A i \in 1..Len(s) : Reverse(s)[i] = Reverse(t)[i]
  <2> SUFFICES ASSUME NEW i \in 1..Len(s) PROVE Reverse(s)[i] = Reverse(t)[i]
    OBVIOUS
  <2>1. Len(s) - i + 1 \in 1..Len(s) /\ i \in 1..Len(t)
    BY <1>1
  <2>2. Len(t) - Len(s) + (Len(s) - i + 1) = Len(t) - i + 1
    BY <1>1
  <2>3. s[Len(s) - i + 1] = t[Len(t) - Len(s) + (Len(s) - i + 1)]
    BY <2>1
  <2>4. Reverse(s)[i] = s[Len(s) - i + 1] /\ Reverse(t)[i] = t[Len(t) - i + 1]
    BY <1>2, <2>1
  <2> QED
    BY <2>2, <2>3, <2>4
<1>4. ASSUME NEW u \in {Reverse(s), Reverse(t)}
      PROVE  /\ SubSeq(u, 1, Len(s)) \in Seq(S)
             /\ Len(SubSeq(u, 1, Len(s))) = Len(s)
             /\ \A i \in 1..Len(s) : SubSeq(u, 1, Len(s))[i] = u[i]
  <2>1. u \in Seq(S) /\ Len(s) =< Len(u) /\ Len(u) \in Nat
    BY <1>1, <1>2
  <2>2. \A i \in 1..Len(s) : u[i] \in S
    BY <1>1, <2>1
  <2>3. 1 \in Int /\ Len(s) \in Int
    BY <1>1
  <2>4. /\ SubSeq(u, 1, Len(s)) \in Seq(S)
        /\ Len(SubSeq(u, 1, Len(s))) = IF 1 <= Len(s) THEN Len(s)-1+1 ELSE 0
        /\ \A i \in 1..Len(s)-1+1 : SubSeq(u, 1, Len(s))[i] = u[1+i-1]
    BY <2>2, <2>3, SubSeqProperties
  <2> QED
    BY <1>1, <2>4
<1>5. SubSeq(Reverse(s), 1, Len(s)) = SubSeq(Reverse(t), 1, Len(s))
  BY <1>3, <1>4, SeqEqual
<1> QED
  BY <1>2, <1>5 DEF IsSuffix, IsPrefix

------------------------------------------------------------------------------
(***************************************************************************)
(* One place, and in order                                                 *)
(***************************************************************************)

\* A command moves an entry, or drops one, and disturbs nothing else.
LEMMA ExecuteKeepsPlaces ==
    ASSUME Q2TypeOK, PlacesInv, NEW cmd, Execute(cmd), sent' = sent
    PROVE  PlacesInv'
<1> USE DEF Q2TypeOK, PlacesInv, Apart, Stored
<1>1. CASE MoveNext /\ channel # <<>>
  <2> DEFINE m == Head(channel)
  <2>1. channel' = Tail(channel) /\ backup' = Append(backup, m) /\ fallback' = fallback
    BY <1>1 DEF MoveNext
  <2>2. /\ m \in Messages
        /\ ToSet(channel) = {m} \cup ToSet(channel')
        /\ IsInjective(channel') /\ m \notin ToSet(channel')
    BY <1>1, <2>1, TailElements, TailOnce
  <2>3. m \notin ToSet(backup) /\ m \notin ToSet(fallback)
    BY <2>2
  <2>4. ToSet(backup') = ToSet(backup) \cup {m} /\ IsInjective(backup')
    BY <2>1, <2>2, <2>3, AppendElements, AppendOnce
  <2>5. Apart'
    BY <2>1, <2>2, <2>3, <2>4
  <2>6. InOrder'
    <3>1. /\ Len(channel) \in Nat /\ Len(channel) > 0 /\ Len(sent) \in Nat
          /\ Len(channel') = Len(channel)-1
          /\ \A i \in 1..Len(channel)-1 : channel'[i] = channel[i+1]
      BY <1>1, <2>1, EmptySeq, LenProperties, HeadTailProperties
    <3> SUFFICES ASSUME NEW i \in 1..Len(channel')
                 PROVE  channel'[i] = sent[Len(sent) - Len(channel') + i]
      BY <3>1 DEF InOrder
    <3>2. i+1 \in 1..Len(channel) /\ i \in 1..Len(channel)-1
      BY <3>1
    <3>3. Len(sent) - Len(channel) + (i+1) = Len(sent) - Len(channel') + i
      BY <3>1
    <3> QED
      BY <3>1, <3>2, <3>3 DEF InOrder
  <2> QED
    BY <2>5, <2>6
<1>2. CASE DropLatest /\ backup # <<>>
  <2>1. backup' = Front(backup) /\ UNCHANGED <<channel, fallback>>
    BY <1>2 DEF DropLatest
  <2>2. ToSet(backup) = ToSet(backup') \cup {Last(backup)} /\ IsInjective(backup')
    BY <1>2, <2>1, FrontElements, FrontOnce
  <2> QED
    BY <2>1, <2>2 DEF InOrder
<1>3. CASE MoveOldest /\ backup # <<>>
  <2> DEFINE m == Head(backup)
  <2>1. backup' = Tail(backup) /\ fallback' = Append(fallback, m) /\ channel' = channel
    BY <1>3 DEF MoveOldest
  <2>2. /\ m \in Messages
        /\ ToSet(backup) = {m} \cup ToSet(backup')
        /\ IsInjective(backup') /\ m \notin ToSet(backup')
    BY <1>3, <2>1, TailElements, TailOnce
  <2>3. m \notin ToSet(fallback)
    BY <2>2
  <2>4. ToSet(fallback') = ToSet(fallback) \cup {m} /\ IsInjective(fallback')
    BY <2>1, <2>2, <2>3, AppendElements, AppendOnce
  <2> QED
    BY <2>1, <2>2, <2>4 DEF InOrder
<1>4. CASE UNCHANGED lists
  BY <1>4 DEF lists, InOrder
<1> QED
  <2>1. DropLatest /\ backup = <<>> => UNCHANGED lists
    BY DEF DropLatest, lists
  <2> QED
    BY <1>1, <1>2, <1>3, <1>4, <2>1 DEF Execute, MoveNext, MoveOldest

\* send() puts a new message behind the others.
LEMMA SendKeepsPlaces ==
    ASSUME Q2TypeOK, PlacesInv, NEW m \in Messages, Send(m)
    PROVE  PlacesInv'
<1> USE DEF Q2TypeOK, PlacesInv, Apart, Stored
<1>1. /\ m \notin ToSet(sent) /\ m \notin ToSet(channel)
      /\ sent' = Append(sent, m) /\ channel' = Append(channel, m)
      /\ UNCHANGED <<backup, fallback>>
  BY DEF Send
<1>2. /\ ToSet(sent') = ToSet(sent) \cup {m} /\ IsInjective(sent')
      /\ ToSet(channel') = ToSet(channel) \cup {m} /\ IsInjective(channel')
  BY <1>1, AppendElements, AppendOnce
<1>3. m \notin ToSet(backup) /\ m \notin ToSet(fallback)
  BY <1>1
<1>4. Apart'
  BY <1>1, <1>2, <1>3
<1>5. InOrder'
  <2>1. /\ Len(channel) \in Nat /\ Len(sent) \in Nat
        /\ Len(channel') = Len(channel)+1 /\ Len(sent') = Len(sent)+1
        /\ \A i \in 1..Len(channel) : channel'[i] = channel[i]
        /\ \A i \in 1..Len(sent) : sent'[i] = sent[i]
        /\ channel'[Len(channel)+1] = m /\ sent'[Len(sent)+1] = m
    BY <1>1, LenProperties, AppendProperties
  <2> SUFFICES ASSUME NEW i \in 1..Len(channel')
               PROVE  channel'[i] = sent'[Len(sent') - Len(channel') + i]
    BY <2>1 DEF InOrder
  <2>2. Len(sent') - Len(channel') + i = Len(sent) - Len(channel) + i
    BY <2>1
  <2>3. CASE i = Len(channel)+1
    <3>1. Len(sent) - Len(channel) + i = Len(sent)+1
      BY <2>1, <2>3
    <3> QED
      BY <2>1, <2>2, <2>3, <3>1
  <2>4. CASE i \in 1..Len(channel)
    <3>1. Len(sent) - Len(channel) + i \in 1..Len(sent)
      BY <2>1, <2>4 DEF InOrder
    <3> QED
      BY <2>1, <2>2, <2>4, <3>1 DEF InOrder
  <2> QED
    BY <2>1, <2>3, <2>4
<1> QED
  BY <1>4, <1>5

\* Every other step leaves what was sent alone, and the lists alone or to a command.
LEMMA PlacesStep ==
    ASSUME Q2TypeOK, PlacesInv, [Q2Next]_q2vars
    PROVE  PlacesInv'
<1>1. CASE \E m \in Messages : Send(m)
  BY <1>1, SendKeepsPlaces
<1>2. ASSUME NEW cmd, Execute(cmd), sent' = sent PROVE PlacesInv'
  BY <1>2, ExecuteKeepsPlaces
<1>3. CASE UNCHANGED <<lists, sent>>
  BY <1>3 DEF PlacesInv, Apart, InOrder, Stored, lists
<1>4. ASSUME NEW l \in Loops, Q2LoopStep(l) \/ SubscriptionReads(l) \/ ProcessRestart(l)
      PROVE  sent' = sent /\ (UNCHANGED lists \/ \E cmd : Execute(cmd))
  BY <1>4
  DEF Q2LoopStep, NextReplied, NextRejected, BatchFlushed, SubscriptionReads,
      ProcessRestart, Replied, Issues
<1>5. ASSUME NEW m \in Messages, Q2HandleStep(m)
      PROVE  sent' = sent /\ (UNCHANGED lists \/ \E cmd : Execute(cmd))
  BY <1>5
  DEF Q2HandleStep, HandlerSettles, CommitReplied, CommitRejected, RollbackReplied,
      RollbackRejected, Replied, Issues
<1>6. ASSUME (\E c \in Calls : CallMoves(c)) \/ DisposeMoves \/ ConnectionClosed
      PROVE  UNCHANGED <<lists, sent>>
  BY <1>6 DEF CallMoves, DisposeMoves, ConnectionClosed
<1>7. ASSUME ReplyLost \/ ProcessCrash
      PROVE  sent' = sent /\ (UNCHANGED lists \/ \E cmd : Execute(cmd))
  BY <1>7 DEF ReplyLost, ProcessCrash
<1>8. CASE UNCHANGED q2vars
  BY <1>3, <1>8 DEF q2vars
<1> QED
  BY <1>1, <1>2, <1>3, <1>4, <1>5, <1>6, <1>7, <1>8 DEF Q2Next

\* Wherever a message is, it is nowhere else, and the channel is the end of what
\* was sent: the inductive invariant of the next two theorems.
THEOREM PlacesInvariant == Q2Spec => []PlacesInv
<1>1. Q2Init => PlacesInv
  <2> SUFFICES ASSUME Q2Init PROVE PlacesInv
    OBVIOUS
  <2>1. channel = <<>> /\ backup = <<>> /\ fallback = <<>> /\ sent = <<>>
    BY DEF Q2Init
  <2>2. ToSet(<<>>) = {} /\ IsInjective(<<>>) /\ Len(<<>>) = 0
    BY DEF ToSet, IsInjective
  <2> QED
    BY <2>1, <2>2 DEF PlacesInv, Apart, InOrder, Stored
<1>2. Q2TypeOK /\ PlacesInv /\ [Q2Next]_q2vars => PlacesInv'
  BY PlacesStep
<1> QED
  BY <1>1, <1>2, Q2TypeCorrect, PTL DEF Q2Spec

\* The sizes of sets that share nothing add up.
LEMMA DisjointSize ==
    ASSUME NEW S, IsFiniteSet(S), NEW T, IsFiniteSet(T), \A x \in S : x \notin T
    PROVE  IsFiniteSet(S \cup T) /\ Cardinality(S \cup T) = Cardinality(S) + Cardinality(T)
<1>1. Cardinality(S \cup T) = Cardinality(S) + Cardinality(T) - Cardinality(S \cap T)
  BY FS_Union
<1>2. Cardinality(S) \in Nat /\ Cardinality(T) \in Nat /\ Cardinality(S \cap T) = 0
  <2>1. S \cap T = {}
    OBVIOUS
  <2> QED
    BY <2>1, FS_CardinalityType, FS_EmptySet
<1>3. IsFiniteSet(S \cup T)
  BY FS_Union
<1> QED
  BY <1>1, <1>2, <1>3

\* Whatever is lost, resent or rolled back, no message is in two places, nor twice
\* in one: the lengths of the lists add up to the number of the messages in them.
THEOREM MessagesAreInOnePlace == Q2Spec => []OnePlace
<1>1. ASSUME Q2TypeOK, PlacesInv PROVE OnePlace
  <2>1. /\ IsFiniteSet(ToSet(channel)) /\ Cardinality(ToSet(channel)) = Len(channel)
        /\ IsFiniteSet(ToSet(backup)) /\ Cardinality(ToSet(backup)) = Len(backup)
        /\ IsFiniteSet(ToSet(fallback)) /\ Cardinality(ToSet(fallback)) = Len(fallback)
    BY <1>1, InjectiveSize DEF Q2TypeOK, PlacesInv, Apart
  <2>2. /\ Len(channel) \in Nat /\ Len(backup) \in Nat /\ Len(fallback) \in Nat
    BY <1>1, LenProperties DEF Q2TypeOK
  <2>3. /\ \A m \in ToSet(channel) : m \notin ToSet(backup)
        /\ \A m \in ToSet(channel) \cup ToSet(backup) : m \notin ToSet(fallback)
    BY <1>1 DEF PlacesInv, Apart
  <2>4. /\ IsFiniteSet(ToSet(channel) \cup ToSet(backup))
        /\ Cardinality(ToSet(channel) \cup ToSet(backup)) = Len(channel) + Len(backup)
    <3>1. /\ IsFiniteSet(ToSet(channel)) /\ IsFiniteSet(ToSet(backup))
          /\ \A m \in ToSet(channel) : m \notin ToSet(backup)
      BY <2>1, <2>3
    <3>2. /\ IsFiniteSet(ToSet(channel) \cup ToSet(backup))
          /\ Cardinality(ToSet(channel) \cup ToSet(backup))
                 = Cardinality(ToSet(channel)) + Cardinality(ToSet(backup))
      BY <3>1, DisjointSize
    <3> QED
      BY <2>1, <3>2
  <2>5. Cardinality((ToSet(channel) \cup ToSet(backup)) \cup ToSet(fallback))
            = Cardinality(ToSet(channel) \cup ToSet(backup)) + Cardinality(ToSet(fallback))
    BY <2>1, <2>3, <2>4, DisjointSize
  <2>6. Stored = (ToSet(channel) \cup ToSet(backup)) \cup ToSet(fallback)
    BY DEF Stored
  <2>7. Cardinality(Stored) = (Len(channel) + Len(backup)) + Len(fallback)
    BY <2>1, <2>4, <2>5, <2>6
  <2> QED
    BY <2>2, <2>7 DEF OnePlace
<1> QED
  BY <1>1, PlacesInvariant, Q2TypeCorrect, PTL

\* The channel stays first in, first out: what is left of it is the end of what
\* was sent.
THEOREM ChannelIsFifo == Q2Spec => []Fifo
<1>1. ASSUME Q2TypeOK, PlacesInv PROVE Fifo
  BY <1>1, SuffixByPlaces DEF Q2TypeOK, PlacesInv, InOrder, Fifo
<1> QED
  BY <1>1, PlacesInvariant, Q2TypeCorrect, PTL

------------------------------------------------------------------------------
(***************************************************************************)
(* One message at a time: what a step does to the lists                    *)
(***************************************************************************)

\* A step that moves a message, or drops the one that is being committed.
Drops(m) ==
    /\ phase[m] = "committing"
    /\ backup # <<>> /\ Last(backup) = m
    /\ DropLatest

\* Every step of a queue that works on one message at a time sends a message,
\* leaves the lists alone, moves the head of the channel or the oldest entry of
\* the backup, or drops the entry of the message being committed.
LEMMA ListsStep ==
    ASSUME OneAtATime, IInv, Q2TypeOK, RedisInv, [Q2Next]_q2vars
    PROVE  \/ \E m \in Messages : Send(m)
           \/ UNCHANGED <<lists, sent>>
           \/ /\ \/ channel # <<>> /\ MoveNext
                 \/ backup # <<>> /\ MoveOldest
                 \/ \E m \in Messages : Drops(m)
              /\ UNCHANGED <<sent, succeeded>>
<1> DEFINE Goal == \/ UNCHANGED <<lists, sent>>
                   \/ /\ \/ channel # <<>> /\ MoveNext
                         \/ backup # <<>> /\ MoveOldest
                         \/ \E m \in Messages : Drops(m)
                      /\ UNCHANGED <<sent, succeeded>>
<1>1. MoveNext \/ MoveOldest =>
        \/ channel # <<>> /\ MoveNext
        \/ backup # <<>> /\ MoveOldest
        \/ UNCHANGED lists
  BY DEF MoveNext, MoveOldest
<1>2. ASSUME NEW m \in Messages, alive, phase[m] = "committing", DropLatest
      PROVE  Drops(m)
  BY <1>2 DEF RedisInv, OnRecord, Drops
<1>3. ASSUME NEW l \in Loops, Q2LoopStep(l) PROVE Goal
  <2>1. CASE NextReplied(l)
    <3>1. MoveNext
      BY <2>1, CommandMeaning DEF NextReplied, Replied
    <3>2. UNCHANGED <<sent, succeeded>>
      BY <2>1 DEF NextReplied, Issues, ReadMessage, ReadNothing, workVars
    <3> QED
      BY <1>1, <3>1, <3>2
  <2>2. CASE NextRejected(l) \/ BatchFlushed(l)
    BY <2>2 DEF NextRejected, BatchFlushed, Issues
  <2> QED
    BY <1>3, <2>1, <2>2 DEF Q2LoopStep
<1>4. ASSUME NEW m \in Messages, Q2HandleStep(m) PROVE Goal
  <2>1. CASE CommitReplied(m)
    <3>1. alive /\ phase[m] = "committing" /\ UNCHANGED <<sent, succeeded>>
      BY <2>1 DEF CommitReplied, Committed, Moves, Issues
    <3>2. DropLatest
      BY <2>1, CommandMeaning DEF CommitReplied, Replied
    <3> QED
      BY <1>2, <3>1, <3>2
  <2>2. CASE RollbackReplied(m)
    <3>1. UNCHANGED <<sent, succeeded>>
      BY <2>2 DEF RollbackReplied, RolledBack, RollbackThrows, Issues
    <3>2. MoveOldest
      BY <2>2, CommandMeaning DEF RollbackReplied, Replied
    <3> QED
      BY <1>1, <3>1, <3>2
  <2>3. CASE HandlerSettles(m) \/ CommitRejected(m) \/ RollbackRejected(m)
    BY <2>3 DEF HandlerSettles, CommitRejected, RollbackRejected, Issues
  <2> QED
    BY <1>4, <2>1, <2>2, <2>3 DEF Q2HandleStep
<1>5. CASE ProcessCrash
  <2>1. alive /\ UNCHANGED <<sent, succeeded>>
    BY <1>5 DEF ProcessCrash, Crash, workVars
  <2>2. CASE UNCHANGED lists
    BY <2>1, <2>2
  <2>3. CASE pipe # <<>> /\ Execute(Head(pipe))
    <3>1. MoveNext \/ MoveOldest \/ \E m \in Messages : phase[m] = "committing" /\ DropLatest
      <4>1. PICK cmd : pipe = <<cmd>> /\
                \/ \E l \in Loops : cmd = NextCmd(l)
                \/ \E m \in Messages : phase[m] = "committing" /\ cmd = CommitCmd(m)
                \/ \E m \in Messages : cmd = RollbackCmd(m)
        BY <2>3 DEF RedisInv, Pipe
      <4>2. Execute(cmd)
        BY <2>3, <4>1
      <4> QED
        BY <4>1, <4>2, CommandMeaning
    <3> QED
      BY <1>1, <1>2, <2>1, <3>1
  <2> QED
    BY <1>5, <2>2, <2>3 DEF ProcessCrash
<1>6. ~ReplyLost
  BY DEF ReplyLost, OneAtATime, Q2TypeOK
<1>7. CASE \E l \in Loops : SubscriptionReads(l) \/ ProcessRestart(l)
  BY <1>7 DEF SubscriptionReads, ProcessRestart, Issues
<1>8. CASE (\E c \in Calls : CallMoves(c)) \/ DisposeMoves \/ ConnectionClosed
  BY <1>8 DEF CallMoves, DisposeMoves, ConnectionClosed
<1>9. CASE UNCHANGED q2vars
  BY <1>9 DEF q2vars
<1> QED
  BY <1>3, <1>4, <1>5, <1>6, <1>7, <1>8, <1>9 DEF Q2Next

\* A read takes its message from the channel to the backup, and no other moves.
LEMMA TakeMoves ==
    ASSUME Q2TypeOK, PlacesInv, channel # <<>>, MoveNext, sent' = sent
    PROVE  /\ Head(channel) \in Messages
           /\ PlaceOf[Head(channel)] = "channel"
           /\ PlaceOf' = [PlaceOf EXCEPT ![Head(channel)] = "backup"]
           /\ Stored' = Stored
<1> DEFINE m == Head(channel)
<1>1. channel' = Tail(channel) /\ backup' = Append(backup, m) /\ fallback' = fallback
  BY DEF MoveNext
<1>2. /\ m \in Messages
      /\ ToSet(channel) = {m} \cup ToSet(channel')
      /\ m \notin ToSet(channel')
  BY <1>1, TailElements, TailOnce DEF Q2TypeOK, PlacesInv, Apart
<1>3. ToSet(backup') = ToSet(backup) \cup {m}
  BY <1>1, <1>2, AppendElements DEF Q2TypeOK
<1>4. Stored' = Stored
  BY <1>1, <1>2, <1>3 DEF Stored
<1> QED
  BY <1>1, <1>2, <1>3, <1>4 DEF PlaceOf

\* A rollback takes its entry from the backup to the fallback.
LEMMA DivertMoves ==
    ASSUME Q2TypeOK, PlacesInv, backup # <<>>, MoveOldest, sent' = sent
    PROVE  /\ Head(backup) \in Messages
           /\ PlaceOf[Head(backup)] = "backup"
           /\ PlaceOf' = [PlaceOf EXCEPT ![Head(backup)] = "fallback"]
           /\ Stored' = Stored
<1> DEFINE m == Head(backup)
<1>1. backup' = Tail(backup) /\ fallback' = Append(fallback, m) /\ channel' = channel
  BY DEF MoveOldest
<1>2. /\ m \in Messages
      /\ ToSet(backup) = {m} \cup ToSet(backup')
      /\ m \notin ToSet(backup') /\ m \notin ToSet(channel)
  BY <1>1, TailElements, TailOnce DEF Q2TypeOK, PlacesInv, Apart
<1>3. ToSet(fallback') = ToSet(fallback) \cup {m}
  BY <1>1, <1>2, AppendElements DEF Q2TypeOK
<1>4. Stored' = Stored
  BY <1>1, <1>2, <1>3 DEF Stored
<1> QED
  BY <1>1, <1>2, <1>3, <1>4 DEF PlaceOf

\* A commit drops the message it is for, and that message is in no list then.
LEMMA ForgetMoves ==
    ASSUME Q2TypeOK, PlacesInv, NEW m \in Messages, Drops(m), sent' = sent
    PROVE  /\ PlaceOf[m] = "backup"
           /\ PlaceOf' = [PlaceOf EXCEPT ![m] = "gone"]
           /\ Stored' = Stored \ {m}
<1>1. backup' = Front(backup) /\ channel' = channel /\ fallback' = fallback
  BY DEF Drops, DropLatest
<1>2. /\ ToSet(backup) = ToSet(backup') \cup {m}
      /\ m \notin ToSet(backup')
  BY <1>1, FrontElements, FrontOnce DEF Q2TypeOK, PlacesInv, Apart, Drops
<1>3. m \notin ToSet(channel) /\ m \notin ToSet(fallback) /\ m \in ToSet(sent)
  BY <1>2 DEF PlacesInv, Apart, Stored
<1>4. Stored' = Stored \ {m}
  BY <1>1, <1>2, <1>3 DEF Stored
<1> QED
  BY <1>1, <1>2, <1>3, <1>4 DEF PlaceOf

\* A message that is sent was nowhere, and is in the channel.
LEMMA SendMoves ==
    ASSUME Q2TypeOK, PlacesInv, NEW m \in Messages, Send(m)
    PROVE  /\ PlaceOf[m] = "unsent"
           /\ PlaceOf' = [PlaceOf EXCEPT ![m] = "channel"]
           /\ Stored' = Stored \cup {m}
           /\ ToSet(sent') = ToSet(sent) \cup {m}
<1>1. /\ m \notin ToSet(sent) /\ m \notin Stored
      /\ sent' = Append(sent, m) /\ channel' = Append(channel, m)
      /\ UNCHANGED <<backup, fallback>>
  BY DEF Send, PlacesInv, Apart
<1>2. /\ ToSet(sent') = ToSet(sent) \cup {m}
      /\ ToSet(channel') = ToSet(channel) \cup {m}
  BY <1>1, AppendElements DEF Q2TypeOK
<1> QED
  BY <1>1, <1>2 DEF PlaceOf, Stored

------------------------------------------------------------------------------
(***************************************************************************)
(* One message at a time: the queue implements MessageLedger               *)
(***************************************************************************)

\* What the proofs below know of every state.
Known == OneAtATime /\ IInv /\ Q2TypeOK /\ RedisInv /\ PlacesInv

\* It holds throughout.
LEMMA AlwaysKnown == OneAtATime /\ Q2Spec => []Known
<1>1. OneAtATime => [](OneAtATime)
  BY DEF OneAtATime
<1>2. OneAtATime => Overlap = FALSE
  BY DEF OneAtATime
<1>3. OneAtATime /\ Q2Spec => []IInv
  BY <1>2, SerialInvariant, ImplementsQueueList, PTL
<1> QED
  BY <1>1, <1>3, OneAtATimeInvariant, PlacesInvariant, Q2TypeCorrect, PTL DEF Known

\* Work that ends well ends while its message is on record in the backup.
LEMMA SucceedsOnRecord ==
    ASSUME Known, [Q2Next]_q2vars, succeeded' # succeeded
    PROVE  \E m \in Messages :
                /\ PlaceOf[m] = "backup"
                /\ succeeded' = succeeded \cup {m}
                /\ UNCHANGED <<lists, sent>>
<1>1. ASSUME NEW l \in Loops PROVE ~Q2LoopStep(l) /\ ~SubscriptionReads(l) /\ ~ProcessRestart(l)
  <2>1. ~NextReplied(l) /\ ~NextRejected(l) /\ ~BatchFlushed(l)
    BY DEF NextReplied, NextRejected, BatchFlushed, ReadMessage, ReadNothing, Flushed, workVars
  <2> QED
    BY <2>1 DEF Q2LoopStep, SubscriptionReads, Subscribe, ProcessRestart, Restart, workVars
<1>2. ASSUME NEW c \in Calls PROVE ~CallMoves(c)
  BY DEF CallMoves, CallStep, Unsubscribe, Cancelled, Unsubscribed, workVars
<1>3. ~DisposeMoves /\ ~ConnectionClosed /\ ~ReplyLost /\ ~ProcessCrash
  BY DEF DisposeMoves, Dispose, DisposeUnsubscribes, Disposed, ConnectionClosed, ReaderClosed,
         ReplyLost, ProcessCrash, Crash, vars, workVars
<1>4. PICK m \in Messages : Q2HandleStep(m) \/ Send(m)
  BY <1>1, <1>2, <1>3 DEF Q2Next, q2vars, vars, workVars
<1>5. ~CommitReplied(m) /\ ~CommitRejected(m) /\ ~RollbackReplied(m) /\ ~RollbackRejected(m)
  BY DEF CommitReplied, CommitRejected, Committed, RollbackReplied, RollbackRejected,
         RolledBack, RollbackThrows
<1>6. HandlerSettles(m)
  BY <1>4, <1>5 DEF Q2HandleStep, Send, vars, workVars
<1>7. /\ alive
      /\ phase[m] \in {"handling", "replying"}
      /\ succeeded' = succeeded \cup {m}
      /\ UNCHANGED <<lists, sent>>
  BY <1>6
  DEF HandlerSettles, HandlerReturns, HandlerReplies, HandlerThrows, ReplySent, ReplyFails,
      Moves, Issues
<1>8. backup # <<>> /\ Last(backup) = m
  BY <1>7 DEF Known, RedisInv, OnRecord
<1>9. m \in ToSet(backup)
  BY <1>8, FrontElements DEF Known, Q2TypeOK
<1>10. m \notin ToSet(channel)
  BY <1>9 DEF Known, PlacesInv, Apart
<1>11. PlaceOf[m] = "backup"
  BY <1>9, <1>10 DEF PlaceOf
<1> QED
  BY <1>7, <1>11

\* Every step of the queue is a step of the ledger, or is not seen there.
LEMMA LedgerStep ==
    ASSUME Known, [Q2Next]_q2vars
    PROVE  [Ledger!Next]_(Ledger!vars)
<1> USE DEF Ledger!Next, Ledger!vars, Ledger!Moves
<1>1. UNCHANGED <<lists, sent>> => PlaceOf' = PlaceOf
  BY DEF lists, PlaceOf
<1>2. CASE succeeded' # succeeded
  BY <1>1, <1>2, SucceedsOnRecord DEF Ledger!Succeed
<1>3. CASE succeeded' = succeeded
  <2>1. ASSUME NEW m \in Messages, Send(m) PROVE Ledger!Send(m)
    BY <1>3, <2>1, SendMoves DEF Ledger!Send, Known
  <2>2. CASE UNCHANGED <<lists, sent>>
    BY <1>1, <1>3, <2>2
  <2>3. CASE channel # <<>> /\ MoveNext /\ sent' = sent
    <3>1. Head(channel) \in Messages /\ Ledger!Take(Head(channel))
      BY <1>3, <2>3, TakeMoves DEF Ledger!Take, Known
    <3> QED
      BY <3>1
  <2>4. CASE backup # <<>> /\ MoveOldest /\ sent' = sent
    <3>1. Head(backup) \in Messages /\ Ledger!Divert(Head(backup))
      BY <1>3, <2>4, DivertMoves DEF Ledger!Divert, Known
    <3> QED
      BY <3>1
  <2>5. ASSUME NEW m \in Messages, Drops(m), sent' = sent PROVE Ledger!Forget(m)
    <3>1. m \in succeeded
      BY <2>5 DEF Drops, Known, RedisInv, CommitsSucceeded
    <3> QED
      BY <1>3, <2>5, <3>1, ForgetMoves DEF Ledger!Forget, Known
  <2> QED
    BY <2>1, <2>2, <2>3, <2>4, <2>5, ListsStep DEF Known
<1> QED
  BY <1>2, <1>3

\* The transaction queue, one message at a time, implements MessageLedger: a
\* message is forgotten only after the work on it went through, and nothing
\* brings it back into the channel, whatever crashes and whoever throws.
THEOREM ImplementsLedger == OneAtATime /\ Q2Spec => LedgerSpec
<1>1. Q2Init => Ledger!Init
  <2>1. ToSet(<<>>) = {}
    BY DEF ToSet
  <2> QED
    BY <2>1 DEF Q2Init, Init, Ledger!Init, PlaceOf
<1>2. Known /\ [Q2Next]_q2vars => [Ledger!Next]_(Ledger!vars)
  BY LedgerStep
<1> QED
  BY <1>1, <1>2, AlwaysKnown, PTL DEF Q2Spec, LedgerSpec, Ledger!Spec

------------------------------------------------------------------------------
(***************************************************************************)
(* One message at a time: the watchers are told the truth                  *)
(***************************************************************************)

\* Nothing is told before the commit or the rollback has settled, nor of what was
\* never sent; and a rollback nobody was told of finds its message in Redis.
NotTold ==
    \A m \in Messages :
        /\ phase[m] # "unread" => m \in ToSet(sent)
        /\ phase[m] \in {"unread", "handling", "replying", "committing"} => told[m] = {}
        /\ phase[m] = "rolling" /\ told[m] = {} => m \in Stored

VerdictInv == NotTold /\ VerdictIsTrue

\* What a step leaves in Redis: all that was there, less the message that is
\* being committed, and one more if it is sent.
LEMMA StoredStep ==
    ASSUME Known, [Q2Next]_q2vars
    PROVE  \/ \E m \in Messages : Send(m)
           \/ Stored' = Stored /\ sent' = sent
           \/ \E m \in Messages : Drops(m) /\ Stored' = Stored \ {m} /\ sent' = sent
<1>1. UNCHANGED <<lists, sent>> => Stored' = Stored
  BY DEF lists, Stored
<1>2. channel # <<>> /\ MoveNext /\ sent' = sent => Stored' = Stored
  BY TakeMoves DEF Known
<1>3. backup # <<>> /\ MoveOldest /\ sent' = sent => Stored' = Stored
  BY DivertMoves DEF Known
<1>4. \A m \in Messages : Drops(m) /\ sent' = sent => Stored' = Stored \ {m}
  BY ForgetMoves DEF Known
<1> QED
  BY <1>1, <1>2, <1>3, <1>4, ListsStep DEF Known

\* A step that tells nobody keeps the verdicts true, if it starts no rollback of
\* what is not there.
LEMMA NobodyIsTold ==
    ASSUME Known, VerdictInv, [Q2Next]_q2vars, told' = told, \A m \in Messages : ~Send(m),
           \A m \in Messages :
                \/ phase'[m] = phase[m]
                \/ phase[m] \in ActivePhases /\ phase'[m] = "lost"
                \/ /\ phase[m] = "unread" /\ phase'[m] = "handling"
                   /\ m \in Stored
                \/ /\ phase[m] \in {"handling", "replying"}
                   /\ phase'[m] \in {"replying", "committing", "rolling"}
                   /\ m \in Stored'
    PROVE  VerdictInv'
<1> USE DEF VerdictInv, VerdictIsTrue, NotTold
<1>1. sent' = sent /\ Stored \subseteq ToSet(sent)
  BY StoredStep DEF Known, PlacesInv, Apart
<1>2. \A m \in Messages : m \in Stored' => m \in Stored
  BY StoredStep
<1>3. \A m \in Messages : m \in Stored /\ m \notin Stored' => phase[m] = "committing"
  BY StoredStep DEF Drops
<1>4. ASSUME NEW m \in Messages
      PROVE  /\ phase'[m] # "unread" => m \in ToSet(sent')
             /\ phase'[m] \in {"unread", "handling", "replying", "committing"} => told'[m] = {}
             /\ phase'[m] = "rolling" /\ told'[m] = {} => m \in Stored'
             /\ TRUE \in told'[m] => m \notin Stored'
             /\ told'[m] = {FALSE} => m \in Stored'
  BY <1>1, <1>2, <1>3 DEF ActivePhases
<1> QED
  BY <1>4

\* A message in the backup is in Redis.
LEMMA RecordIsStored ==
    ASSUME Known, NEW m \in Messages, alive,
           phase[m] \in {"handling", "replying", "committing"}
    PROVE  m \in Stored /\ backup # <<>> /\ Last(backup) = m
<1>1. backup # <<>> /\ Last(backup) = m
  BY DEF Known, RedisInv, OnRecord
<1> QED
  BY <1>1, FrontElements DEF Known, Q2TypeOK, Stored

\* The steps of handle() tell the truth.
LEMMA HandleStepVerdict ==
    ASSUME Known, VerdictInv, [Q2Next]_q2vars, NEW m \in Messages, Q2HandleStep(m)
    PROVE  VerdictInv'
<1> USE DEF VerdictInv, VerdictIsTrue, NotTold
<1>1. /\ phase \in [Messages -> Phases]
      /\ told \in [Messages -> SUBSET BOOLEAN]
  BY DEF Known, IInv, TypeOK
<1>2. CASE HandlerSettles(m)
  <2>1. /\ alive /\ phase[m] \in {"handling", "replying"}
        /\ \E to \in {"replying", "committing", "rolling"} : phase' = [phase EXCEPT ![m] = to]
        /\ UNCHANGED <<told, lists, sent>>
    BY <1>2
    DEF HandlerSettles, HandlerReturns, HandlerReplies, HandlerThrows, ReplySent, ReplyFails,
        Moves, Issues
  <2>2. m \in Stored /\ Stored' = Stored
    BY <2>1, RecordIsStored DEF lists, Stored
  <2>3. \A n \in Messages : ~Send(n)
    BY <2>1, AppendElements DEF Send, Known, Q2TypeOK
  <2>4. /\ phase'[m] \in {"replying", "committing", "rolling"}
        /\ \A n \in Messages \ {m} : phase'[n] = phase[n]
    BY <1>1, <2>1
  <2> QED
    BY <2>1, <2>2, <2>3, <2>4, NobodyIsTold
<1>3. CASE CommitReplied(m)
  <2>1. /\ alive /\ phase[m] = "committing"
        /\ \E to \in {"released", "rolling"} : phase' = [phase EXCEPT ![m] = to]
        /\ told' = [told EXCEPT ![m] = @ \cup {TRUE}]
        /\ sent' = sent
    BY <1>3 DEF CommitReplied, Committed, Moves, Issues
  <2>2. DropLatest
    BY <1>3, CommandMeaning DEF CommitReplied, Replied
  <2>3. Stored' = Stored \ {m}
    BY <2>1, <2>2, RecordIsStored, ForgetMoves DEF Known, Drops
  <2>4. told'[m] = {TRUE} /\ \A n \in Messages \ {m} : told'[n] = told[n]
    BY <1>1, <2>1
  <2>5. phase'[m] \in {"released", "rolling"} /\ \A n \in Messages \ {m} : phase'[n] = phase[n]
    BY <1>1, <2>1
  <2> QED
    BY <2>1, <2>3, <2>4, <2>5
<1>4. CASE CommitRejected(m)
  <2>1. /\ alive /\ phase[m] = "committing"
        /\ \E to \in {"released", "rolling"} : phase' = [phase EXCEPT ![m] = to]
        /\ told' = [told EXCEPT ![m] = @ \cup {FALSE}]
        /\ UNCHANGED <<lists, sent>>
    BY <1>4 DEF CommitRejected, Committed, Moves, Issues
  <2>2. m \in Stored /\ Stored' = Stored
    BY <2>1, RecordIsStored DEF lists, Stored
  <2>3. told'[m] = {FALSE} /\ \A n \in Messages \ {m} : told'[n] = told[n]
    BY <1>1, <2>1
  <2>4. phase'[m] \in {"released", "rolling"} /\ \A n \in Messages \ {m} : phase'[n] = phase[n]
    BY <1>1, <2>1
  <2> QED
    BY <2>1, <2>2, <2>3, <2>4
<1>5. CASE RollbackReplied(m) \/ RollbackRejected(m)
  <2>1. /\ phase[m] = "rolling"
        /\ \E to \in {"released", "rejected"} : phase' = [phase EXCEPT ![m] = to]
        /\ told' = [told EXCEPT ![m] = @ \cup {FALSE}]
        /\ sent' = sent
    BY <1>5
    DEF RollbackReplied, RollbackRejected, RolledBack, RollbackThrows, Moves, Issues
  <2>2. Stored' = Stored
    BY <1>5, CommandMeaning, MovesKeepStored
    DEF RollbackReplied, RollbackRejected, Replied, lists, Stored, Known
  <2>3. told'[m] = told[m] \cup {FALSE} /\ \A n \in Messages \ {m} : told'[n] = told[n]
    BY <1>1, <2>1
  <2>4. phase'[m] \in {"released", "rejected"} /\ \A n \in Messages \ {m} : phase'[n] = phase[n]
    BY <1>1, <2>1
  <2>5. told'[m] = {FALSE} => told[m] = {} \/ told[m] = {FALSE}
    BY <1>1, <2>3
  <2> QED
    BY <2>1, <2>2, <2>3, <2>4, <2>5
<1> QED
  BY <1>2, <1>3, <1>4, <1>5 DEF Q2HandleStep

\* So do all other steps.
LEMMA VerdictStep ==
    ASSUME Known, VerdictInv, [Q2Next]_q2vars
    PROVE  VerdictInv'
<1>1. CASE \E m \in Messages : Q2HandleStep(m)
  BY <1>1, HandleStepVerdict
<1>2. ASSUME NEW m \in Messages, Send(m) PROVE VerdictInv'
  <2>1. Stored' = Stored \cup {m} /\ ToSet(sent') = ToSet(sent) \cup {m} /\ m \notin ToSet(sent)
    BY <1>2, SendMoves DEF Known, Send
  <2>2. phase' = phase /\ told' = told
    BY <1>2 DEF Send, vars, workVars
  <2>3. told[m] = {}
    BY <2>1 DEF VerdictInv, NotTold
  <2> QED
    BY <2>1, <2>2, <2>3 DEF VerdictInv, NotTold, VerdictIsTrue
<1>3. CASE ~(\E m \in Messages : Q2HandleStep(m) \/ Send(m))
  <2>1. ASSUME NEW l \in Loops, Q2LoopStep(l) PROVE VerdictInv'
    <3>1. CASE NextReplied(l) /\ channel # <<>> /\ ReadMessage(l, Head(channel))
      <4>1. /\ phase[Head(channel)] = "unread"
            /\ phase' = [phase EXCEPT ![Head(channel)] = "handling"]
            /\ told' = told
        BY <3>1 DEF ReadMessage
      <4>2. Head(channel) \in Messages /\ Head(channel) \in Stored
        BY <3>1, TailElements DEF Known, Q2TypeOK, Stored
      <4>3. /\ phase'[Head(channel)] = "handling"
            /\ \A n \in Messages \ {Head(channel)} : phase'[n] = phase[n]
        BY <4>1, <4>2 DEF Known, IInv, TypeOK
      <4> QED
        BY <1>3, <4>1, <4>2, <4>3, NobodyIsTold
    <3>2. CASE ReadNothing(l) \/ BatchFlushed(l)
      <4>1. UNCHANGED <<phase, told>>
        BY <3>2 DEF ReadNothing, BatchFlushed, Flushed, workVars
      <4> QED
        BY <1>3, <4>1, NobodyIsTold
    <3> QED
      BY <2>1, <3>1, <3>2 DEF Q2LoopStep, NextReplied, NextRejected
  <2>2. ASSUME NEW l \in Loops, ProcessRestart(l) PROVE VerdictInv'
    <3>1. /\ phase' = [m \in Messages |-> IF m \in Running THEN "lost" ELSE phase[m]]
          /\ told' = told
      BY <2>2 DEF ProcessRestart, Restart
    <3>2. \A m \in Messages : \/ phase'[m] = phase[m]
                              \/ phase[m] \in ActivePhases /\ phase'[m] = "lost"
      BY <3>1 DEF Running, RunningIn
    <3> QED
      BY <1>3, <3>1, <3>2, NobodyIsTold
  <2>3. CASE UNCHANGED <<phase, told>>
    BY <1>3, <2>3, NobodyIsTold
  <2>4. (\E l \in Loops : SubscriptionReads(l)) => UNCHANGED <<phase, told>>
    BY DEF SubscriptionReads, Subscribe, workVars
  <2>5. (\E c \in Calls : CallMoves(c)) => UNCHANGED <<phase, told>>
    BY DEF CallMoves, CallStep, Unsubscribe, Cancelled, Unsubscribed, workVars
  <2>6. DisposeMoves \/ ConnectionClosed => UNCHANGED <<phase, told>>
    BY DEF DisposeMoves, Dispose, DisposeUnsubscribes, Disposed, ConnectionClosed, ReaderClosed,
           workVars
  <2>7. ReplyLost \/ ProcessCrash \/ UNCHANGED q2vars => UNCHANGED <<phase, told>>
    BY DEF ReplyLost, ProcessCrash, Crash, q2vars, vars, workVars
  <2> QED
    BY <1>3, <2>1, <2>2, <2>3, <2>4, <2>5, <2>6, <2>7 DEF Q2Next
<1> QED
  BY <1>1, <1>2, <1>3

\* What the watchers of a transaction queue that works on one message at a time
\* are told is true: a message reported as done is out of Redis, and one that was
\* only ever reported as failed is still there.
THEOREM VerdictsAreTrue == OneAtATime /\ Q2Spec => []VerdictIsTrue
<1>1. Q2Init => VerdictInv
  BY DEF Q2Init, Init, VerdictInv, NotTold, VerdictIsTrue
<1>2. Known /\ VerdictInv /\ [Q2Next]_q2vars => VerdictInv'
  BY VerdictStep
<1>3. VerdictInv => VerdictIsTrue
  BY DEF VerdictInv
<1> QED
  BY <1>1, <1>2, <1>3, AlwaysKnown, PTL DEF Q2Spec

------------------------------------------------------------------------------
(***************************************************************************)
(* Any concurrency: what is in the pipe, and what handle() has done        *)
(***************************************************************************)

\* No command is in the pipe twice, and each is one that somebody waits for.
Awaiting ==
    /\ IsInjective(pipe)
    /\ \A l \in Loops : NextCmd(l) \in ToSet(pipe) => loop[l].pc = "reading"
    /\ \A m \in Messages :
        /\ CommitCmd(m) \in ToSet(pipe) => phase[m] = "committing"
        /\ RollbackCmd(m) \in ToSet(pipe) => phase[m] = "rolling"

\* Nothing is told of a message before its commit or rollback has settled, and
\* only what succeeded is committed.
Early ==
    \A m \in Messages :
        /\ phase[m] \in {"unread", "handling", "replying", "committing"} => told[m] = {}
        /\ phase[m] = "committing" => m \in succeeded

WorkInv == Awaiting /\ Early

\* The commands of a message and of a loop are those of no other.
LEMMA CommandsDiffer ==
    /\ \A l, k \in Loops : NextCmd(l) = NextCmd(k) => l = k
    /\ \A m, n \in Messages : /\ CommitCmd(m) = CommitCmd(n) => m = n
                              /\ RollbackCmd(m) = RollbackCmd(n) => m = n
                              /\ CommitCmd(m) # RollbackCmd(n)
    /\ \A l \in Loops, m \in Messages : NextCmd(l) # CommitCmd(m) /\ NextCmd(l) # RollbackCmd(m)
BY DEF NextCmd, CommitCmd, RollbackCmd

\* After a command was replied to, the rest of the pipe is without it; what is
\* issued then is new.
LEMMA PipeMoves ==
    ASSUME NEW rest \in Seq(Commands), IsInjective(rest),
           NEW cmds, cmds = <<>> \/ \E c \in Commands \ ToSet(rest) : cmds = <<c>>,
           Issues(rest, cmds)
    PROVE  /\ IsInjective(pipe')
           /\ \A c \in ToSet(pipe') : c \in ToSet(rest) \/ cmds = <<c>>
<1>1. IsInjective(<<>>) /\ ToSet(<<>>) = {}
  BY DEF IsInjective, ToSet
<1>2. CASE cmds = <<>>
  <2>1. pipe' = rest \/ pipe' = <<>>
    BY <1>2, ConcatEmptySeq DEF Issues
  <2> QED
    BY <1>1, <2>1
<1>3. ASSUME NEW c \in Commands \ ToSet(rest), cmds = <<c>>
      PROVE  /\ IsInjective(pipe')
             /\ \A d \in ToSet(pipe') : d \in ToSet(rest) \/ cmds = <<d>>
  <2>1. pipe' = Append(rest, c) \/ pipe' = <<>>
    BY <1>3, AppendIsConcat DEF Issues
  <2>2. IsInjective(Append(rest, c)) /\ ToSet(Append(rest, c)) = ToSet(rest) \cup {c}
    BY AppendOnce, AppendElements
  <2> QED
    BY <1>1, <1>3, <2>1, <2>2
<1> QED
  BY <1>2, <1>3

\* The steps of a loop.
LEMMA LoopStepWork ==
    ASSUME TypeOK, Q2TypeOK, WorkInv, NEW l \in Loops,
           Q2LoopStep(l) \/ SubscriptionReads(l) \/ ProcessRestart(l)
    PROVE  WorkInv'
<1> USE DEF WorkInv, Awaiting, Early
<1>1. /\ NextCmd(l) \in Commands
      /\ Reads(l) = <<>> \/ (Reads(l) = <<NextCmd(l)>> /\ loop'[l].pc = "reading")
  BY DEF NextCmd, Commands, Reads
<1>2. CASE NextReplied(l)
  <2>1. /\ loop[l].pc = "reading"
        /\ \A k \in Loops \ {l} : loop'[k] = loop[k]
        /\ pipe # <<>> /\ Head(pipe) = NextCmd(l)
        /\ Issues(Tail(pipe), Reads(l))
        /\ UNCHANGED <<succeeded, told>>
    BY <1>2 DEF NextReplied, Replied, ReadMessage, ReadNothing, workVars, TypeOK
  <2>2. /\ Tail(pipe) \in Seq(Commands)
        /\ IsInjective(Tail(pipe))
        /\ NextCmd(l) \notin ToSet(Tail(pipe))
        /\ ToSet(pipe) = {NextCmd(l)} \cup ToSet(Tail(pipe))
    BY <2>1, TailElements, TailOnce DEF Q2TypeOK
  <2>3. /\ IsInjective(pipe')
        /\ \A c \in ToSet(pipe') : c \in ToSet(Tail(pipe)) \/ Reads(l) = <<c>>
    BY <1>1, <2>1, <2>2, PipeMoves
  <2>4. \A m \in Messages : \/ phase'[m] = phase[m]
                            \/ phase[m] = "unread" /\ phase'[m] = "handling"
    BY <1>2 DEF NextReplied, ReadMessage, ReadNothing, workVars, TypeOK
  <2>5. \A c \in ToSet(pipe') : c \in ToSet(Tail(pipe)) \/ (c = NextCmd(l) /\ loop'[l].pc = "reading")
    BY <1>1, <2>3
  <2>6. \A k \in Loops : NextCmd(k) \in ToSet(pipe') => loop'[k].pc = "reading"
    BY <2>1, <2>2, <2>5, CommandsDiffer
  <2>7. \A m \in Messages :
            /\ CommitCmd(m) \in ToSet(pipe') => phase'[m] = "committing"
            /\ RollbackCmd(m) \in ToSet(pipe') => phase'[m] = "rolling"
    BY <2>2, <2>4, <2>5, CommandsDiffer
  <2>8. Early'
    BY <2>1, <2>4
  <2> QED
    BY <2>3, <2>6, <2>7, <2>8
<1>3. CASE NextRejected(l)
  <2>1. pipe' = <<>> /\ UNCHANGED workVars
    BY <1>3 DEF NextRejected, Issues, ReadNothing
  <2>2. IsInjective(<<>>) /\ ToSet(<<>>) = {}
    BY DEF IsInjective, ToSet
  <2> QED
    BY <2>1, <2>2 DEF workVars
<1>4. CASE BatchFlushed(l) \/ SubscriptionReads(l)
  <2>1. /\ loop[l].pc # "reading"
        /\ \A k \in Loops \ {l} : loop'[k] = loop[k]
        /\ Issues(pipe, Reads(l))
        /\ UNCHANGED <<phase, succeeded, told>>
    BY <1>4 DEF BatchFlushed, Flushed, SubscriptionReads, Subscribe, workVars, TypeOK
  <2>2. NextCmd(l) \notin ToSet(pipe) /\ pipe \in Seq(Commands)
    BY <2>1 DEF Q2TypeOK
  <2>3. /\ IsInjective(pipe')
        /\ \A c \in ToSet(pipe') : c \in ToSet(pipe) \/ Reads(l) = <<c>>
    BY <1>1, <2>1, <2>2, PipeMoves
  <2>4. \A c \in ToSet(pipe') : c \in ToSet(pipe) \/ (c = NextCmd(l) /\ loop'[l].pc = "reading")
    BY <1>1, <2>3
  <2>5. \A k \in Loops : NextCmd(k) \in ToSet(pipe') => loop'[k].pc = "reading"
    BY <2>1, <2>2, <2>4, CommandsDiffer
  <2>6. \A m \in Messages :
            /\ CommitCmd(m) \in ToSet(pipe') => phase'[m] = "committing"
            /\ RollbackCmd(m) \in ToSet(pipe') => phase'[m] = "rolling"
    BY <2>1, <2>4, CommandsDiffer
  <2> QED
    BY <2>1, <2>3, <2>5, <2>6
<1>5. CASE ProcessRestart(l)
  <2>1. /\ pipe' = <<NextCmd(l)>> /\ loop'[l].pc = "reading"
        /\ phase' = [m \in Messages |-> IF m \in Running THEN "lost" ELSE phase[m]]
        /\ UNCHANGED <<succeeded, told>>
    BY <1>5 DEF ProcessRestart, Restart, Idle
  <2>2. IsInjective(<<NextCmd(l)>>) /\ ToSet(<<NextCmd(l)>>) = {NextCmd(l)}
    BY DEF IsInjective, ToSet
  <2> QED
    BY <2>1, <2>2, CommandsDiffer
<1> QED
  BY <1>2, <1>3, <1>4, <1>5 DEF Q2LoopStep

\* The steps of handle().
LEMMA HandleStepWork ==
    ASSUME TypeOK, Q2TypeOK, WorkInv, NEW m \in Messages, Q2HandleStep(m)
    PROVE  WorkInv'
<1> USE DEF WorkInv, Awaiting, Early
<1>1. CommitCmd(m) \in Commands /\ RollbackCmd(m) \in Commands
  BY DEF CommitCmd, RollbackCmd, Commands
<1>2. loop' = loop
  BY DEF Q2HandleStep, HandlerSettles, HandlerReturns, HandlerReplies, HandlerThrows, ReplySent,
         ReplyFails, CommitReplied, CommitRejected, Committed, RollbackReplied, RollbackRejected,
         RolledBack, RollbackThrows, loopVars
<1>3. CASE HandlerSettles(m)
  <2>1. PICK to, cmds :
        /\ to \in {"replying", "committing", "rolling"}
        /\ phase[m] \in {"handling", "replying"}
        /\ phase' = [phase EXCEPT ![m] = to]
        /\ succeeded' = IF to = "committing" THEN succeeded \cup {m} ELSE succeeded
        /\ told' = told
        /\ Issues(pipe, cmds)
        /\ to = "replying" => cmds = <<>>
        /\ to = "committing" => cmds = <<CommitCmd(m)>>
        /\ to = "rolling" => cmds = <<RollbackCmd(m)>>
    BY <1>3
    DEF HandlerSettles, HandlerReturns, HandlerReplies, HandlerThrows, ReplySent, ReplyFails, Moves
  <2>2. phase'[m] = to /\ \A n \in Messages \ {m} : phase'[n] = phase[n]
    BY <2>1 DEF TypeOK
  <2>3. CommitCmd(m) \notin ToSet(pipe) /\ RollbackCmd(m) \notin ToSet(pipe)
    BY <2>1
  <2>4. /\ IsInjective(pipe')
        /\ \A c \in ToSet(pipe') : c \in ToSet(pipe) \/ cmds = <<c>>
    BY <1>1, <2>1, <2>3, PipeMoves DEF Q2TypeOK
  <2>5. \A c \in ToSet(pipe') :
            \/ c \in ToSet(pipe)
            \/ to = "committing" /\ c = CommitCmd(m)
            \/ to = "rolling" /\ c = RollbackCmd(m)
    BY <2>1, <2>4
  <2>6. \A k \in Loops : NextCmd(k) \in ToSet(pipe') => loop'[k].pc = "reading"
    BY <1>2, <2>5, CommandsDiffer
  <2>7. \A n \in Messages :
            /\ CommitCmd(n) \in ToSet(pipe') => phase'[n] = "committing"
            /\ RollbackCmd(n) \in ToSet(pipe') => phase'[n] = "rolling"
    <3>1. ASSUME NEW n \in Messages \ {m}
          PROVE  /\ CommitCmd(n) \in ToSet(pipe') => CommitCmd(n) \in ToSet(pipe)
                 /\ RollbackCmd(n) \in ToSet(pipe') => RollbackCmd(n) \in ToSet(pipe)
      <4>1. /\ CommitCmd(n) \notin {CommitCmd(m), RollbackCmd(m)}
            /\ RollbackCmd(n) \notin {CommitCmd(m), RollbackCmd(m)}
        BY DEF CommitCmd, RollbackCmd
      <4> QED
        BY <2>5, <4>1
    <3>2. /\ CommitCmd(m) \in ToSet(pipe') => phase'[m] = "committing"
          /\ RollbackCmd(m) \in ToSet(pipe') => phase'[m] = "rolling"
      BY <2>2, <2>3, <2>5, CommandsDiffer
    <3> QED
      BY <2>2, <3>1, <3>2
  <2>8. Early'
    BY <2>1, <2>2
  <2> QED
    BY <2>4, <2>6, <2>7, <2>8
<1>4. ASSUME CommitReplied(m) \/ CommitRejected(m) \/ RollbackReplied(m) \/ RollbackRejected(m)
      PROVE  /\ phase'[m] \in {"released", "rolling", "rejected"}
             /\ \A n \in Messages \ {m} : phase'[n] = phase[n] /\ told'[n] = told[n]
             /\ succeeded' = succeeded
  BY <1>4
  DEF CommitReplied, CommitRejected, Committed, RollbackReplied, RollbackRejected, RolledBack,
      RollbackThrows, Moves, TypeOK
<1>5. CASE CommitReplied(m) \/ RollbackReplied(m)
  <2>1. PICK cmd, cmds :
        /\ cmd \in {CommitCmd(m), RollbackCmd(m)}
        /\ cmds = <<>> \/ (cmds = <<RollbackCmd(m)>> /\ cmd = CommitCmd(m) /\ phase'[m] = "rolling")
        /\ cmd = CommitCmd(m) => phase[m] = "committing"
        /\ cmd = RollbackCmd(m) => phase[m] = "rolling"
        /\ pipe # <<>> /\ Head(pipe) = cmd
        /\ Issues(Tail(pipe), cmds)
    <3>1. CASE CommitReplied(m)
      <4>1. /\ phase[m] = "committing"
            /\ Undoes(m) = <<>> \/ (Undoes(m) = <<RollbackCmd(m)>> /\ phase'[m] = "rolling")
            /\ pipe # <<>> /\ Head(pipe) = CommitCmd(m)
            /\ Issues(Tail(pipe), Undoes(m))
        BY <3>1 DEF CommitReplied, Replied, Undoes, Committed, Moves
      <4> QED
        BY <4>1, CommandsDiffer
    <3>2. CASE RollbackReplied(m)
      <4>1. /\ phase[m] = "rolling"
            /\ pipe # <<>> /\ Head(pipe) = RollbackCmd(m)
            /\ Issues(Tail(pipe), <<>>)
        BY <3>2 DEF RollbackReplied, Replied, RolledBack, RollbackThrows, Moves
      <4> QED
        BY <4>1, CommandsDiffer
    <3> QED
      BY <1>5, <3>1, <3>2
  <2>2. /\ Tail(pipe) \in Seq(Commands)
        /\ IsInjective(Tail(pipe))
        /\ cmd \notin ToSet(Tail(pipe))
        /\ ToSet(pipe) = {cmd} \cup ToSet(Tail(pipe))
    BY <2>1, TailElements, TailOnce DEF Q2TypeOK
  <2>3. CommitCmd(m) \notin ToSet(Tail(pipe)) /\ RollbackCmd(m) \notin ToSet(Tail(pipe))
    BY <2>1, <2>2, CommandsDiffer
  <2>4. cmds = <<>> \/ \E c \in Commands \ ToSet(Tail(pipe)) : cmds = <<c>>
    BY <1>1, <2>1, <2>3
  <2>5. /\ IsInjective(pipe')
        /\ \A c \in ToSet(pipe') : c \in ToSet(Tail(pipe)) \/ cmds = <<c>>
    BY <2>1, <2>2, <2>4, PipeMoves
  <2>6. \A c \in ToSet(pipe') :
            \/ c \in ToSet(Tail(pipe))
            \/ c = RollbackCmd(m) /\ phase'[m] = "rolling"
    BY <2>1, <2>5
  <2>7. \A k \in Loops : NextCmd(k) \in ToSet(pipe') => loop'[k].pc = "reading"
    BY <1>2, <2>2, <2>6, CommandsDiffer
  <2>8. \A n \in Messages :
            /\ CommitCmd(n) \in ToSet(pipe') => phase'[n] = "committing"
            /\ RollbackCmd(n) \in ToSet(pipe') => phase'[n] = "rolling"
    <3>1. ASSUME NEW n \in Messages \ {m}
          PROVE  /\ CommitCmd(n) \in ToSet(pipe') => CommitCmd(n) \in ToSet(pipe)
                 /\ RollbackCmd(n) \in ToSet(pipe') => RollbackCmd(n) \in ToSet(pipe)
      <4>1. /\ CommitCmd(n) \notin {CommitCmd(m), RollbackCmd(m)}
            /\ RollbackCmd(n) \notin {CommitCmd(m), RollbackCmd(m)}
        BY DEF CommitCmd, RollbackCmd
      <4> QED
        BY <2>2, <2>6, <4>1
    <3>2. /\ CommitCmd(m) \in ToSet(pipe') => phase'[m] = "committing"
          /\ RollbackCmd(m) \in ToSet(pipe') => phase'[m] = "rolling"
      BY <2>2, <2>3, <2>6, CommandsDiffer
    <3> QED
      BY <1>4, <1>5, <2>2, <3>1, <3>2
  <2> QED
    BY <1>4, <1>5, <2>5, <2>7, <2>8
<1>6. CASE CommitRejected(m) \/ RollbackRejected(m)
  <2>1. pipe' = <<>>
    BY <1>6 DEF CommitRejected, RollbackRejected, Issues
  <2>2. IsInjective(<<>>) /\ ToSet(<<>>) = {}
    BY DEF IsInjective, ToSet
  <2> QED
    BY <1>4, <1>6, <2>1, <2>2
<1> QED
  BY <1>3, <1>5, <1>6 DEF Q2HandleStep

\* The pipe holds what is waited for, once, and nothing is told too early, in
\* every transaction queue.
THEOREM WorkInvariant == Q2Spec => []WorkInv
<1>1. Q2Init => WorkInv
  <2> SUFFICES ASSUME Q2Init PROVE WorkInv
    OBVIOUS
  <2>1. pipe = <<NextCmd(FirstLoop)>> /\ loop[FirstLoop].pc = "reading"
    BY QueueListAssumption DEF Q2Init, Init, Idle
  <2>2. IsInjective(<<NextCmd(FirstLoop)>>) /\ ToSet(<<NextCmd(FirstLoop)>>) = {NextCmd(FirstLoop)}
    BY DEF IsInjective, ToSet
  <2>3. Awaiting
    BY <2>1, <2>2, CommandsDiffer, QueueListAssumption DEF Awaiting
  <2>4. Early
    BY DEF Early, Q2Init, Init
  <2> QED
    BY <2>3, <2>4 DEF WorkInv
<1>2. TypeOK /\ Q2TypeOK /\ WorkInv /\ [Q2Next]_q2vars => WorkInv'
  <2> SUFFICES ASSUME TypeOK, Q2TypeOK, WorkInv, [Q2Next]_q2vars PROVE WorkInv'
    OBVIOUS
  <2>1. CASE UNCHANGED <<loop, phase, succeeded, told, pipe>>
    BY <2>1 DEF WorkInv, Awaiting, Early
  <2>2. CASE UNCHANGED <<loop, phase, succeeded, told>> /\ pipe' = <<>>
    <3>1. IsInjective(<<>>) /\ ToSet(<<>>) = {}
      BY DEF IsInjective, ToSet
    <3> QED
      BY <2>2, <3>1 DEF WorkInv, Awaiting, Early
  <2>3. ProcessCrash \/ ConnectionClosed =>
            UNCHANGED <<loop, phase, succeeded, told>> /\ pipe' = <<>>
    BY DEF ProcessCrash, Crash, ConnectionClosed, ReaderClosed, loopVars, workVars
  <2>4. ReplyLost \/ (\E m \in Messages : Send(m)) \/ UNCHANGED q2vars =>
            UNCHANGED <<loop, phase, succeeded, told, pipe>>
    BY DEF ReplyLost, Send, q2vars, vars, loopVars, workVars
  <2>5. (\E c \in Calls : CallMoves(c)) => UNCHANGED <<loop, phase, succeeded, told, pipe>>
    BY DEF CallMoves, CallStep, Unsubscribe, Cancelled, Unsubscribed, workVars
  <2>6. DisposeMoves => UNCHANGED <<loop, phase, succeeded, told, pipe>>
    BY DEF DisposeMoves, Dispose, DisposeUnsubscribes, Disposed, workVars
  <2> QED
    BY <2>1, <2>2, <2>3, <2>4, <2>5, <2>6, LoopStepWork, HandleStepWork DEF Q2Next
<1>3. Q2Spec => []TypeOK
  BY TypeCorrect, ImplementsQueueList, PTL
<1> QED
  BY <1>1, <1>2, <1>3, Q2TypeCorrect, PTL DEF Q2Spec

------------------------------------------------------------------------------
(***************************************************************************)
(* Any concurrency: as many are gone as were done                          *)
(***************************************************************************)

\* How many messages Redis holds no more.
Gone == Len(sent) - Len(channel) - Len(backup) - Len(fallback)

\* The messages reported as done, and those that may be gone all the same: what a
\* crash kept from being reported.
Done == {m \in Messages : TRUE \in told[m]}
Unreported ==
    {m \in succeeded : phase[m] = "lost" \/ (~alive /\ phase[m] \in ActivePhases)}

\* As long as no reply was lost, every message being worked on has an entry of the
\* backup to drop or to divert, its own or another's.
CountInv ==
    drops = 0 =>
        /\ alive => Cardinality(Running) =< Len(backup)
        /\ Cardinality(Done) =< Gone
        /\ Gone =< Cardinality(Done) + Cardinality(Unreported)

\* The sizes of the lists are numbers.
LEMMA Lengths ==
    ASSUME Q2TypeOK
    PROVE  /\ Len(channel) \in Nat /\ Len(backup) \in Nat
           /\ Len(fallback) \in Nat /\ Len(sent) \in Nat
BY LenProperties DEF Q2TypeOK

\* The sizes of the sets are numbers, and so is what is gone.
LEMMA Counts ==
    ASSUME TypeOK, Q2TypeOK
    PROVE  /\ Running \in SUBSET Messages /\ Cardinality(Running) \in Nat
           /\ Done \in SUBSET Messages /\ Cardinality(Done) \in Nat
           /\ Unreported \in SUBSET Messages /\ Cardinality(Unreported) \in Nat
           /\ Gone \in Int
<1>1. Running \in SUBSET Messages /\ Done \in SUBSET Messages /\ Unreported \in SUBSET Messages
  BY DEF Running, RunningIn, Done, Unreported, TypeOK
<1>2. Gone \in Int
  BY Lengths DEF Gone
<1> QED
  BY <1>1, <1>2, RunningSize

\* What a command does to the numbers: a read moves one entry into the backup, a
\* rollback moves one out of it, a commit drops one.
LEMMA ExecuteCounts ==
    ASSUME Q2TypeOK, sent' = sent
    PROVE  /\ MoveNext /\ channel # <<>> => Len(backup') = Len(backup) + 1 /\ Gone' = Gone
           /\ MoveNext /\ channel = <<>> => Len(backup') = Len(backup) /\ Gone' = Gone
           /\ MoveOldest => Len(backup') >= Len(backup) - 1 /\ Gone' = Gone
           /\ DropLatest /\ backup # <<>> => Len(backup') = Len(backup) - 1 /\ Gone' = Gone + 1
           /\ DropLatest /\ backup = <<>> => Len(backup') = Len(backup) /\ Gone' = Gone
<1>1. ASSUME MoveNext, channel # <<>> PROVE Len(backup') = Len(backup) + 1 /\ Gone' = Gone
  <2>1. channel' = Tail(channel) /\ backup' = Append(backup, Head(channel)) /\ fallback' = fallback
    BY <1>1 DEF MoveNext
  <2>2. Len(channel') = Len(channel) - 1
    BY <1>1, <2>1, HeadTailProperties DEF Q2TypeOK
  <2>3. Len(backup') = Len(backup) + 1
    BY <1>1, <2>1, AppendProperties, TailElements DEF Q2TypeOK
  <2>4. UNCHANGED <<fallback, sent>>
    BY <2>1
  <2> QED
    BY <2>2, <2>3, <2>4, Lengths DEF Gone
<1>2. ASSUME MoveNext, channel = <<>> PROVE Len(backup') = Len(backup) /\ Gone' = Gone
  BY <1>2 DEF MoveNext, lists, Gone
<1>3. ASSUME MoveOldest PROVE Len(backup') >= Len(backup) - 1 /\ Gone' = Gone
  <2>1. CASE backup = <<>>
    BY <1>3, <2>1, Lengths DEF MoveOldest, lists, Gone
  <2>2. CASE backup # <<>>
    <3>1. backup' = Tail(backup) /\ fallback' = Append(fallback, Head(backup)) /\ channel' = channel
      BY <1>3, <2>2 DEF MoveOldest
    <3>2. Len(backup') = Len(backup) - 1
      BY <2>2, <3>1, HeadTailProperties DEF Q2TypeOK
    <3>3. Len(fallback') = Len(fallback) + 1
      BY <2>2, <3>1, AppendProperties, TailElements DEF Q2TypeOK
    <3>4. UNCHANGED <<channel, sent>>
      BY <3>1
    <3> QED
      BY <3>2, <3>3, <3>4, Lengths DEF Gone
  <2> QED
    BY <2>1, <2>2
<1>4. ASSUME DropLatest, backup # <<>> PROVE Len(backup') = Len(backup) - 1 /\ Gone' = Gone + 1
  <2>1. backup' = SubSeq(backup, 1, Len(backup)-1) /\ UNCHANGED <<channel, fallback>>
    BY <1>4 DEF DropLatest, Front
  <2>2. Len(backup) > 0
    BY <1>4, EmptySeq, Lengths DEF Q2TypeOK
  <2>3. /\ 1 \in Int /\ Len(backup)-1 \in Int
        /\ \A k \in 1..Len(backup)-1 : backup[k] \in Messages
    BY Lengths DEF Q2TypeOK
  <2>4. Len(SubSeq(backup, 1, Len(backup)-1)) = IF 1 =< Len(backup)-1 THEN (Len(backup)-1)-1+1 ELSE 0
    BY <2>3, SubSeqProperties
  <2>5. Len(backup') = IF 1 =< Len(backup)-1 THEN (Len(backup)-1)-1+1 ELSE 0
    BY <2>1, <2>4
  <2>6. Len(backup') = Len(backup) - 1
    <3>1. Len(backup) \in Nat
      BY Lengths
    <3> QED
      BY <2>2, <2>5, <3>1
  <2>7. UNCHANGED <<channel, fallback, sent>>
    BY <2>1
  <2> QED
    BY <2>6, <2>7, Lengths DEF Gone
<1>5. ASSUME DropLatest, backup = <<>> PROVE Len(backup') = Len(backup) /\ Gone' = Gone
  BY <1>5 DEF DropLatest, Gone
<1> QED
  BY <1>1, <1>2, <1>3, <1>4, <1>5

\* What the proofs below know of a step of a queue whose watchers do not throw.
Counted ==
    /\ WatchersThrow = FALSE
    /\ TypeOK /\ Q2TypeOK /\ WorkInv /\ CountInv

\* A step that drops nothing and reports nothing as done keeps the numbers.
LEMMA NothingDropped ==
    ASSUME Counted, TypeOK', Q2TypeOK', drops = 0,
           alive' => Cardinality(Running') =< Len(backup'),
           Done' = Done, Gone' = Gone, Unreported \subseteq Unreported'
    PROVE  CountInv'
<1>1. Cardinality(Unreported) =< Cardinality(Unreported')
  <2>1. Unreported' \in SUBSET Messages
    BY DEF Unreported, TypeOK
  <2> QED
    BY <2>1, RunningSize
<1>2. /\ Cardinality(Unreported) \in Nat /\ Cardinality(Unreported') \in Nat
      /\ Cardinality(Done) \in Nat /\ Gone \in Int
  <2>1. Unreported' \in SUBSET Messages
    BY DEF Unreported, TypeOK
  <2> QED
    BY <2>1, Counts, RunningSize DEF Counted
<1>3. Gone >= Cardinality(Done) /\ Gone =< Cardinality(Done) + Cardinality(Unreported)
  BY DEF Counted, CountInv
<1>4. Gone =< Cardinality(Done) + Cardinality(Unreported')
  BY <1>1, <1>2, <1>3
<1> QED
  BY <1>2, <1>3, <1>4 DEF CountInv

\* A step of the process that leaves the lists alone and settles some work.
LEMMA ListsAlone ==
    ASSUME Counted, TypeOK', Q2TypeOK', drops = 0, alive, alive',
           UNCHANGED <<lists, sent>>,
           \A m \in Messages : \/ phase'[m] = phase[m]
                               \/ phase[m] \in ActivePhases /\ phase'[m] # "unread",
           succeeded \subseteq succeeded', Done' = Done
    PROVE  CountInv'
<1>1. Running' \subseteq Running
  BY DEF Running, RunningIn, ActivePhases
<1>2. Cardinality(Running') =< Cardinality(Running) /\ Cardinality(Running') \in Nat
  <2>1. Running \in SUBSET Messages /\ Running' \in SUBSET Messages
    BY DEF Running, RunningIn
  <2> QED
    BY <1>1, <2>1, RunningSize
<1>3. Cardinality(Running) =< Len(backup) /\ Cardinality(Running) \in Nat /\ Len(backup) \in Nat
  BY Counts, Lengths DEF Counted, CountInv
<1>4. Cardinality(Running') =< Len(backup') /\ Gone' = Gone
  <2>1. backup' = backup /\ channel' = channel /\ fallback' = fallback /\ sent' = sent
    BY DEF lists
  <2>2. Gone' = Gone
    BY <2>1 DEF Gone
  <2>3. Cardinality(Running') =< Len(backup)
    BY <1>2, <1>3
  <2> QED
    BY <2>1, <2>2, <2>3
<1>5. Unreported \subseteq Unreported'
  BY DEF Unreported, ActivePhases, Counted, TypeOK
<1> QED
  BY <1>4, <1>5, NothingDropped

\* A message that is settled is one less to be worked on.
LEMMA OneLess ==
    ASSUME TypeOK, NEW m \in Messages, phase[m] \in ActivePhases,
           phase'[m] \notin ActivePhases, \A n \in Messages \ {m} : phase'[n] = phase[n]
    PROVE  Cardinality(Running) = Cardinality(Running') + 1 /\ Cardinality(Running') \in Nat
<1>1. Running = Running' \cup {m} /\ m \notin Running' /\ Running' \in SUBSET Messages
  BY DEF Running, RunningIn
<1> QED
  BY <1>1, RunningSize

\* The steps of handle().
LEMMA HandleStepCounts ==
    ASSUME Counted, TypeOK', Q2TypeOK', drops = 0, NEW m \in Messages, Q2HandleStep(m)
    PROVE  CountInv'
<1>1. CASE HandlerSettles(m)
  <2>1. /\ alive /\ alive' /\ phase[m] \in ActivePhases
        /\ \E to \in {"replying", "committing", "rolling"} : phase' = [phase EXCEPT ![m] = to]
        /\ succeeded \subseteq succeeded'
        /\ UNCHANGED <<told, lists, sent>>
    BY <1>1
    DEF HandlerSettles, HandlerReturns, HandlerReplies, HandlerThrows, ReplySent, ReplyFails,
        Moves, Issues, ActivePhases
  <2>2. phase'[m] # "unread" /\ \A n \in Messages \ {m} : phase'[n] = phase[n]
    BY <2>1 DEF Counted, TypeOK
  <2>3. Done' = Done
    BY <2>1 DEF Done
  <2> QED
    BY <2>1, <2>2, <2>3, ListsAlone
<1>2. CASE CommitReplied(m)
  <2>1. /\ alive /\ alive' /\ phase[m] = "committing"
        /\ phase' = [phase EXCEPT ![m] = "released"]
        /\ told' = [told EXCEPT ![m] = @ \cup {TRUE}]
        /\ UNCHANGED <<succeeded, sent>>
    BY <1>2 DEF CommitReplied, Committed, Moves, Issues, Throws, Counted
  <2>2. phase'[m] = "released" /\ \A n \in Messages \ {m} : phase'[n] = phase[n]
    BY <2>1 DEF Counted, TypeOK
  <2>3. Cardinality(Running) = Cardinality(Running') + 1 /\ Cardinality(Running') \in Nat
    BY <2>1, <2>2, OneLess DEF Counted, ActivePhases
  <2>4. Cardinality(Running) =< Len(backup) /\ Len(backup) \in Nat
    BY <2>1, Lengths DEF Counted, CountInv
  <2>5. backup # <<>>
    <3>1. Len(backup) # 0
      BY <2>3, <2>4
    <3> QED
      BY <3>1, EmptySeq
  <2>6. Len(backup') = Len(backup) - 1 /\ Gone' = Gone + 1
    <3>1. DropLatest
      BY <1>2, CommandMeaning DEF CommitReplied, Replied
    <3> QED
      BY <2>1, <2>5, <3>1, ExecuteCounts DEF Counted
  <2>7. Done' = Done \cup {m} /\ m \notin Done
    <3>1. told[m] = {}
      BY <2>1 DEF Counted, WorkInv, Early
    <3>2. told'[m] = {TRUE} /\ \A n \in Messages \ {m} : told'[n] = told[n]
      BY <2>1, <3>1 DEF Counted, TypeOK
    <3> QED
      BY <3>1, <3>2 DEF Done
  <2>8. Cardinality(Done') = Cardinality(Done) + 1 /\ Cardinality(Done) \in Nat
    BY <2>7, RunningSize, Counts DEF Counted
  <2>9. Unreported' = Unreported
    BY <2>1, <2>2 DEF Unreported, ActivePhases, Counted, TypeOK
  <2>10. /\ Cardinality(Done) =< Gone /\ Gone =< Cardinality(Done) + Cardinality(Unreported)
         /\ Gone \in Int /\ Cardinality(Unreported) \in Nat
    BY Counts DEF Counted, CountInv
  <2>11. Cardinality(Running') =< Len(backup')
    BY <2>3, <2>4, <2>6
  <2>12. Cardinality(Done') =< Gone' /\ Gone' =< Cardinality(Done') + Cardinality(Unreported)
    BY <2>6, <2>8, <2>10
  <2> QED
    BY <2>9, <2>11, <2>12 DEF CountInv
<1>3. ASSUME CommitRejected(m) \/ RollbackReplied(m) \/ RollbackRejected(m)
      PROVE  /\ alive /\ alive' /\ phase[m] \in ActivePhases
             /\ phase'[m] = "released" /\ \A n \in Messages \ {m} : phase'[n] = phase[n]
             /\ Done' = Done
             /\ UNCHANGED <<succeeded, sent>>
  <2>1. /\ alive /\ alive' /\ phase[m] \in ActivePhases
        /\ phase' = [phase EXCEPT ![m] = "released"]
        /\ told' = [told EXCEPT ![m] = @ \cup {FALSE}]
        /\ UNCHANGED <<succeeded, sent>>
    <3>1. ~Throws
      BY DEF Throws, Counted
    <3>2. CASE CommitRejected(m)
      BY <3>1, <3>2 DEF CommitRejected, Committed, Moves, Issues, ActivePhases
    <3>3. CASE RollbackReplied(m) \/ RollbackRejected(m)
      <4>1. RolledBack(m) /\ UNCHANGED sent
        BY <3>1, <3>3 DEF RollbackReplied, RollbackRejected, RollbackThrows, Issues
      <4> QED
        BY <4>1 DEF RolledBack, Moves, ActivePhases
    <3> QED
      BY <1>3, <3>2, <3>3
  <2>2. phase'[m] = "released" /\ \A n \in Messages \ {m} : phase'[n] = phase[n]
    BY <2>1 DEF Counted, TypeOK
  <2>3. \A n \in Messages : TRUE \in told'[n] <=> TRUE \in told[n]
    BY <2>1 DEF Counted, TypeOK
  <2> QED
    BY <2>1, <2>2, <2>3 DEF Done
<1>4. CASE CommitRejected(m) \/ RollbackRejected(m)
  <2>1. UNCHANGED <<lists, sent>>
    BY <1>4 DEF CommitRejected, RollbackRejected, Issues
  <2> QED
    BY <1>3, <1>4, <2>1, ListsAlone
<1>5. CASE RollbackReplied(m)
  <2>1. Cardinality(Running) = Cardinality(Running') + 1 /\ Cardinality(Running') \in Nat
    BY <1>3, <1>5, OneLess DEF Counted, ActivePhases
  <2>2. Cardinality(Running) =< Len(backup) /\ Len(backup) \in Nat /\ Len(backup') \in Nat
    BY <1>3, <1>5, Lengths DEF Counted, CountInv, Q2TypeOK
  <2>3. Len(backup') >= Len(backup) - 1 /\ Gone' = Gone
    <3>1. MoveOldest
      BY <1>5, CommandMeaning DEF RollbackReplied, Replied
    <3> QED
      BY <1>3, <1>5, <3>1, ExecuteCounts DEF Counted
  <2>4. Cardinality(Running') =< Len(backup')
    BY <2>1, <2>2, <2>3
  <2>5. Unreported' = Unreported
    BY <1>3, <1>5 DEF Unreported, ActivePhases, Counted, TypeOK
  <2> QED
    BY <1>3, <1>5, <2>3, <2>4, <2>5, NothingDropped
<1> QED
  BY <1>1, <1>2, <1>4, <1>5 DEF Q2HandleStep

\* The steps of the loops.
LEMMA LoopStepCounts ==
    ASSUME Counted, TypeOK', Q2TypeOK', drops = 0, NEW l \in Loops,
           Q2LoopStep(l) \/ SubscriptionReads(l) \/ ProcessRestart(l)
    PROVE  CountInv'
<1>1. Cardinality(Running) \in Nat /\ Len(backup) \in Nat
  BY Counts, Lengths DEF Counted
<1>2. CASE NextReplied(l)
  <2>1. /\ alive /\ alive' /\ MoveNext
        /\ UNCHANGED <<succeeded, told, sent>>
    BY <1>2, CommandMeaning DEF NextReplied, Replied, ReadMessage, ReadNothing, Issues, workVars
  <2>2. Cardinality(Running) =< Len(backup) /\ Done' = Done
    BY <2>1 DEF Counted, CountInv, Done
  <2>3. CASE channel # <<>> /\ ReadMessage(l, Head(channel))
    <3>1. /\ phase[Head(channel)] = "unread"
          /\ phase' = [phase EXCEPT ![Head(channel)] = "handling"]
      BY <2>3 DEF ReadMessage
    <3>2. Head(channel) \in Messages
      BY <2>3, TailElements DEF Counted, Q2TypeOK
    <3>3. Running' = Running \cup {Head(channel)} /\ Head(channel) \notin Running
      BY <3>1, <3>2 DEF Running, RunningIn, ActivePhases, Counted, TypeOK
    <3>4. Cardinality(Running') = Cardinality(Running) + 1
      BY <3>2, <3>3, RunningSize, Counts DEF Counted
    <3>5. Len(backup') = Len(backup) + 1 /\ Gone' = Gone
      BY <2>1, <2>3, ExecuteCounts DEF Counted
    <3>6. Cardinality(Running') =< Len(backup')
      BY <1>1, <2>2, <3>4, <3>5
    <3>7. Unreported' = Unreported
      BY <2>1, <3>1, <3>2 DEF Unreported, ActivePhases, Counted, TypeOK
    <3> QED
      BY <2>2, <3>5, <3>6, <3>7, NothingDropped
  <2>4. CASE ReadNothing(l)
    <3>1. phase' = phase
      BY <2>4 DEF ReadNothing, workVars
    <3>2. Running' = Running /\ Unreported' = Unreported
      BY <2>1, <3>1 DEF Running, RunningIn, Unreported
    <3>3. Len(backup') >= Len(backup) /\ Gone' = Gone
      BY <1>1, <2>1, ExecuteCounts DEF Counted
    <3>4. Cardinality(Running') =< Len(backup')
      <4>1. Len(backup') \in Nat
        BY LenProperties DEF Q2TypeOK
      <4> QED
        BY <1>1, <2>2, <3>2, <3>3, <4>1
    <3> QED
      BY <2>2, <3>2, <3>3, <3>4, NothingDropped
  <2> QED
    BY <1>2, <2>3, <2>4 DEF NextReplied
<1>3. CASE NextRejected(l) \/ BatchFlushed(l) \/ SubscriptionReads(l)
  <2>1. alive /\ alive' /\ UNCHANGED <<lists, sent, phase, succeeded, told>>
    BY <1>3
    DEF NextRejected, ReadNothing, BatchFlushed, Flushed, SubscriptionReads, Subscribe, Issues,
        workVars
  <2>2. Done' = Done
    BY <2>1 DEF Done
  <2> QED
    BY <2>1, <2>2, ListsAlone
<1>4. CASE ProcessRestart(l)
  <2>1. /\ ~alive /\ alive'
        /\ phase' = [m \in Messages |-> IF m \in Running THEN "lost" ELSE phase[m]]
        /\ UNCHANGED <<lists, sent, succeeded, told>>
    BY <1>4 DEF ProcessRestart, Restart
  <2>2. Running' = {}
    BY <2>1 DEF Running, RunningIn, ActivePhases
  <2>3. Cardinality(Running') =< Len(backup')
    <3>1. Cardinality(Running') = 0
      BY <2>2, FS_EmptySet
    <3>2. Len(backup') \in Nat
      BY LenProperties DEF Q2TypeOK
    <3> QED
      BY <3>1, <3>2
  <2>4. Done' = Done /\ Gone' = Gone
    BY <2>1 DEF Done, Gone, lists
  <2>5. Unreported \subseteq Unreported'
    BY <2>1 DEF Unreported, Running, RunningIn, Counted, TypeOK
  <2> QED
    BY <2>3, <2>4, <2>5, NothingDropped
<1> QED
  BY <1>2, <1>3, <1>4 DEF Q2LoopStep

\* The end of the process: a commit the server had executed is not reported.
LEMMA CrashCounts ==
    ASSUME Counted, TypeOK', Q2TypeOK', drops = 0, ProcessCrash
    PROVE  CountInv'
<1>1. alive /\ ~alive' /\ UNCHANGED <<phase, succeeded, told, sent>>
  BY DEF ProcessCrash, Crash, workVars, Counted, TypeOK
<1>2. Done' = Done /\ Unreported \subseteq Unreported'
  BY <1>1 DEF Done, Unreported
<1>3. CASE Gone' = Gone
  BY <1>1, <1>2, <1>3, NothingDropped
<1>4. CASE Gone' = Gone + 1 /\ \E m \in Messages : phase[m] = "committing"
  <2>1. PICK m \in Messages : phase[m] = "committing"
    BY <1>4
  <2>2. m \in succeeded
    BY <2>1 DEF Counted, WorkInv, Early
  <2>3. m \notin Unreported /\ Unreported \cup {m} \subseteq Unreported'
    BY <1>1, <1>2, <2>1, <2>2 DEF Unreported, ActivePhases
  <2>4. Unreported \in SUBSET Messages /\ Unreported' \in SUBSET Messages
    BY DEF Unreported, TypeOK, Counted
  <2>5. /\ Cardinality(Unreported \cup {m}) = Cardinality(Unreported) + 1
        /\ Cardinality(Unreported \cup {m}) =< Cardinality(Unreported')
        /\ Cardinality(Unreported') \in Nat
    BY <2>3, <2>4, RunningSize
  <2>6. /\ Cardinality(Done) =< Gone /\ Gone =< Cardinality(Done) + Cardinality(Unreported)
        /\ Gone \in Int /\ Cardinality(Unreported) \in Nat /\ Cardinality(Done) \in Nat
    BY Counts DEF Counted, CountInv
  <2>7. /\ Cardinality(Done) =< Gone'
        /\ Gone' =< Cardinality(Done) + Cardinality(Unreported')
    BY <1>4, <2>5, <2>6
  <2> QED
    BY <1>1, <1>2, <2>7 DEF CountInv
<1>5. CASE UNCHANGED lists
  <2>1. Gone' = Gone
    BY <1>1, <1>5 DEF lists, Gone
  <2> QED
    BY <1>3, <2>1
<1>6. CASE pipe # <<>> /\ Execute(Head(pipe))
  <2>1. Head(pipe) \in ToSet(pipe) /\ Head(pipe) \in Commands
    BY <1>6, TailElements DEF Counted, Q2TypeOK
  <2>2. \/ \E l \in Loops : Head(pipe) = NextCmd(l)
        \/ \E m \in Messages : Head(pipe) = CommitCmd(m) \/ Head(pipe) = RollbackCmd(m)
    BY <2>1 DEF Commands, NextCmd, CommitCmd, RollbackCmd
  <2>3. MoveNext \/ MoveOldest \/ \E m \in Messages : phase[m] = "committing" /\ DropLatest
    BY <1>6, <2>1, <2>2, CommandMeaning DEF Counted, WorkInv, Awaiting
  <2>4. Gone' = Gone \/ (Gone' = Gone + 1 /\ \E m \in Messages : phase[m] = "committing")
    BY <1>1, <2>3, ExecuteCounts DEF Counted
  <2> QED
    BY <1>3, <1>4, <2>4
<1> QED
  BY <1>5, <1>6 DEF ProcessCrash

\* Commits take any entry, but each takes one: with handlers side by side, over
\* crashes and rejected commits, as many messages are gone as were reported done,
\* and those of them a crash kept from being reported.
THEOREM NumbersAreRight == WatchersThrow = FALSE /\ Q2Spec => []AsManyGoneAsDone
<1>1. Q2Init => CountInv
  <2> SUFFICES ASSUME Q2Init PROVE CountInv
    OBVIOUS
  <2>1. Gone = 0 /\ Len(backup) = 0
    <3>1. /\ Len(sent) = 0 /\ Len(channel) = 0
          /\ Len(backup) = 0 /\ Len(fallback) = 0
      BY EmptySeq DEF Q2Init
    <3> QED
      BY <3>1 DEF Gone
  <2>2. Running = {} /\ Done = {} /\ Unreported = {}
    BY DEF Q2Init, Init, Running, RunningIn, ActivePhases, Done, Unreported
  <2>3. Cardinality(Running) = 0 /\ Cardinality(Done) = 0 /\ Cardinality(Unreported) = 0
    BY <2>2, FS_EmptySet
  <2> QED
    BY <2>1, <2>3 DEF CountInv
<1>2. Counted /\ TypeOK' /\ Q2TypeOK' /\ [Q2Next]_q2vars => CountInv'
  <2> SUFFICES ASSUME Counted, TypeOK', Q2TypeOK', [Q2Next]_q2vars PROVE CountInv'
    OBVIOUS
  <2>1. CASE drops # 0
    <3>1. drops' = drops \/ ReplyLost
      <4>1. (\E l \in Loops : Q2LoopStep(l)) => drops' = drops
        BY DEF Q2LoopStep, NextReplied, NextRejected, BatchFlushed, Issues
      <4>2. (\E m \in Messages : Q2HandleStep(m)) => drops' = drops
        BY DEF Q2HandleStep, HandlerSettles, CommitReplied, CommitRejected, RollbackReplied,
               RollbackRejected, Issues
      <4>3. (\E l \in Loops : SubscriptionReads(l) \/ ProcessRestart(l)) => drops' = drops
        BY DEF SubscriptionReads, ProcessRestart, Issues
      <4>4. (\E m \in Messages : Send(m)) \/ (\E c \in Calls : CallMoves(c)) => drops' = drops
        BY DEF Send, CallMoves
      <4>5. DisposeMoves \/ ConnectionClosed \/ ProcessCrash => drops' = drops
        BY DEF DisposeMoves, ConnectionClosed, ProcessCrash
      <4> QED
        BY <4>1, <4>2, <4>3, <4>4, <4>5 DEF Q2Next, q2vars
    <3>2. drops' # 0
      BY <2>1, <3>1, RedisQ2Assumption DEF ReplyLost, Counted, Q2TypeOK
    <3> QED
      BY <3>2 DEF CountInv
  <2>2. CASE drops = 0
    <3>1. CASE UNCHANGED <<alive, lists, sent, phase, succeeded, told, drops>>
      <4>1. Running' = Running /\ Done' = Done /\ Unreported' = Unreported
        BY <3>1 DEF Running, RunningIn, Done, Unreported
      <4>2. Gone' = Gone /\ backup' = backup
        BY <3>1 DEF lists, Gone
      <4> QED
        BY <3>1, <4>1, <4>2 DEF Counted, CountInv
    <3>2. ASSUME NEW m \in Messages, Send(m) PROVE CountInv'
      <4>1. Running' = Running /\ Done' = Done /\ Unreported' = Unreported
        BY <3>2 DEF Send, vars, workVars, Running, RunningIn, Done, Unreported
      <4>2. /\ sent' = Append(sent, m) /\ channel' = Append(channel, m)
            /\ UNCHANGED <<alive, backup, fallback>>
        BY <3>2 DEF Send, vars
      <4>3. Len(sent') = Len(sent) + 1 /\ Len(channel') = Len(channel) + 1
        BY <4>2, AppendProperties DEF Counted, Q2TypeOK
      <4>4. UNCHANGED <<backup, fallback>>
        BY <4>2
      <4>5. Gone' = Gone
        BY <4>3, <4>4, Lengths DEF Gone, Counted
      <4> QED
        BY <2>2, <4>1, <4>2, <4>5 DEF Counted, CountInv
    <3>3. ReplyLost => drops' # 0
      BY <2>2 DEF ReplyLost
    <3>4. (\E c \in Calls : CallMoves(c)) =>
                UNCHANGED <<alive, lists, sent, phase, succeeded, told, drops>>
      BY DEF CallMoves, CallStep, Unsubscribe, Cancelled, Unsubscribed, workVars
    <3>5. DisposeMoves \/ ConnectionClosed =>
                UNCHANGED <<alive, lists, sent, phase, succeeded, told, drops>>
      BY DEF DisposeMoves, Dispose, DisposeUnsubscribes, Disposed, ConnectionClosed, ReaderClosed,
             workVars
    <3>6. UNCHANGED q2vars => UNCHANGED <<alive, lists, sent, phase, succeeded, told, drops>>
      BY DEF q2vars, vars, workVars
    <3>7. drops' # 0 => CountInv'
      BY DEF CountInv
    <3> QED
      BY <2>2, <3>1, <3>2, <3>3, <3>4, <3>5, <3>6, <3>7, LoopStepCounts, HandleStepCounts,
         CrashCounts
      DEF Q2Next
  <2> QED
    BY <2>1, <2>2
<1>3. Q2Spec => []TypeOK
  BY TypeCorrect, ImplementsQueueList, PTL
<1>4. WatchersThrow = FALSE => [](WatchersThrow = FALSE)
  OBVIOUS
<1>5. TypeOK /\ Q2TypeOK /\ CountInv => AsManyGoneAsDone
  <2> SUFFICES ASSUME TypeOK, Q2TypeOK, CountInv, alive, drops = 0 PROVE AsManyGoneAsDone
    BY DEF AsManyGoneAsDone
  <2>1. Unreported = {m \in succeeded : phase[m] = "lost"}
    BY DEF Unreported
  <2>2. /\ Cardinality(Done) =< Gone /\ Gone =< Cardinality(Done) + Cardinality(Unreported)
        /\ Gone \in Int /\ Cardinality(Unreported) \in Nat /\ Cardinality(Done) \in Nat
    BY Counts DEF CountInv
  <2>3. Gone \in Cardinality(Done) .. Cardinality(Done) + Cardinality(Unreported)
    BY <2>2
  <2> QED
    BY <2>1, <2>3 DEF AsManyGoneAsDone, Done, Gone
<1> QED
  BY <1>1, <1>2, <1>3, <1>4, <1>5, WorkInvariant, Q2TypeCorrect, PTL DEF Q2Spec, Counted
==============================================================================
