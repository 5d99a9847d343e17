--------------------------- MODULE WebSocketsProofs ---------------------------
(***************************************************************************)
(* Theorems about both halves of @bunt/ws.                                 *)
(*                                                                         *)
(* The first part is about GqlLayer, for any ids that are used once or     *)
(* again, any number of operations, and a connection that closes between   *)
(* any two steps of its loop and of the subscriptions the loop has         *)
(* started.  The second is about WebSocketServer, for any requests and     *)
(* routes, any limit, and an interval that may be late.                    *)
(***************************************************************************)
EXTENDS WebSockets, FiniteSetTheorems, SequenceTheorems, TLAPS

(***************************************************************************)
(* The inductive invariant                                                 *)
(***************************************************************************)

\* The calls that have entered the map are numbered as they came.
Entered == {j \in SubIds : sub[j].nth # 0}

EntriesAreNumbered ==
    \A i \in SubIds : /\ sub[i].pc = "opening" => sub[i].nth = 0 /\ sub[i].iter = "none"
                      /\ sub[i].nth <= Cardinality(Entered)

\* A client that has sent two falsy messages may be read out of order.
Proper == Received("falsy") < 2

\* Of a proper client there is one falsy message at most, and run() waits only for what
\* has not been received.
ReadInOrder ==
    /\ reader = "waiting" => inbox = <<>>
    /\ \A j, k \in DOMAIN inbox :
        inbox[j].op.type = "falsy" /\ inbox[k].op.type = "falsy" => j = k /\ Received("falsy") # 0

\* Each operation bears the number of initializations asked for before it: the first is
\* behind those that run() has begun, and those that are received stand behind the last.
Begun == IF reader = "init" THEN inited + 1 ELSE inited
After(entry) == IF entry.op.type = "init" THEN entry.inits + 1 ELSE entry.inits

InitsAreCounted ==
    /\ reader = "failed" => inbox = <<>>
    /\ reader # "failed" /\ Proper =>
        /\ ReadInOrder
        /\ inbox # <<>> => inbox[1].inits = Begun
        /\ \A k \in DOMAIN inbox : k + 1 \in DOMAIN inbox => inbox[k + 1].inits = After(inbox[k])
        /\ Received("init") = IF inbox = <<>> THEN Begun ELSE After(inbox[Len(inbox)])

LayerInv ==
    /\ TypeOK /\ EntriesAreNumbered /\ InitsAreCounted
    /\ EndIsTold /\ InitializedFirst /\ CloseStopsAll

------------------------------------------------------------------------------
(***************************************************************************)
(* The calls of createSubscription()                                       *)
(***************************************************************************)

\* The map and the calls, and what the layer knows of them.
CallsOK ==
    /\ sub \in Seq(Calls)
    /\ subscriptions \in [Ids -> SubIds \cup {None}]
    /\ inited \in Nat
CallsInv ==
    /\ CallsOK /\ EntriesAreNumbered
    /\ EndIsTold /\ InitializedFirst /\ CloseStopsAll

\* What is initialized and received stays, and the connection neither opens nor, but for its close
\* event, closes.
Elsewhere ==
    /\ inited' \in Nat /\ inited <= inited'
    /\ Proper' => Proper
    /\ conn' = "open" => conn = "open"
    /\ conn' = "closed" => conn = "closed"

\* A set of calls is finite.
LEMMA CallsAreFinite ==
    ASSUME NEW s \in Seq(Calls), NEW T, T \subseteq DOMAIN s
    PROVE  IsFiniteSet(T) /\ Cardinality(T) \in Nat
<1>1. DOMAIN s = 1..Len(s) /\ 1 \in Int /\ Len(s) \in Int
  OBVIOUS
<1>2. IsFiniteSet(DOMAIN s)
  BY <1>1, FS_Interval
<1> QED
  BY <1>2, FS_Subset, FS_CardinalityType

\* One call of a sequence of calls is updated.
LEMMA CallUpdated ==
    ASSUME NEW s \in Seq(Calls), NEW i \in DOMAIN s, NEW c \in Calls
    PROVE  /\ [s EXCEPT ![i] = c] \in Seq(Calls)
           /\ DOMAIN [s EXCEPT ![i] = c] = DOMAIN s
           /\ [s EXCEPT ![i] = c][i] = c
           /\ \A j \in DOMAIN s : j # i => [s EXCEPT ![i] = c][j] = s[j]
OBVIOUS

\* The fields of a call.
LEMMA CallFields ==
    ASSUME NEW c \in Calls
    PROVE  /\ c.id \in Ids /\ c.inits \in Nat /\ c.nth \in Nat /\ c.told \in BOOLEAN
           /\ c.late \in BOOLEAN
           /\ c.pc \in {"opening", "pulling", "sending", "leaving", "completing", "erring", "ended",
                       "untellable"}
           /\ c.iter \in {"none", "live", "stopping", "stopped", "done"}
BY DEF Calls

\* The calls and the map stay as they are while the rest goes on.
LEMMA CallsStay ==
    ASSUME CallsInv, Elsewhere, UNCHANGED <<sub, subscriptions>>
    PROVE  CallsInv'
<1>1. CallsOK'
  BY DEF CallsInv, CallsOK, Elsewhere, SubIds
<1>2. EntriesAreNumbered'
  BY DEF CallsInv, EntriesAreNumbered, Entered, SubIds
<1>3. EndIsTold'
  BY DEF CallsInv, EndIsTold, Elsewhere, SubIds, Open
<1>4. InitializedFirst'
  <2>1. \A i \in SubIds : sub[i].inits \in Nat
    BY CallFields DEF CallsInv, CallsOK, SubIds
  <2> QED
    BY <2>1 DEF CallsInv, CallsOK, InitializedFirst, Proper, Elsewhere, SubIds
<1>5. CloseStopsAll'
  BY DEF CallsInv, CloseStopsAll, Replaced, Elsewhere, SubIds
<1> QED
  BY <1>1, <1>2, <1>3, <1>4, <1>5 DEF CallsInv

\* A call goes on without entering the map.
Moved(i) ==
    /\ sub' \in Seq(Calls) /\ DOMAIN sub' = SubIds
    /\ \A j \in SubIds : j # i => sub'[j] = sub[j]
    /\ sub'[i].id = sub[i].id /\ sub'[i].inits = sub[i].inits /\ sub'[i].nth = sub[i].nth
    /\ sub'[i].late = sub[i].late
    /\ sub'[i].iter = "live" => sub[i].iter = "live"
    /\ sub'[i].pc # "opening"
    /\ sub'[i].pc = "ended" /\ Open => sub'[i].told
    /\ UNCHANGED <<conn, received, subscriptions, inited>>

\* It keeps the invariant.
LEMMA MovedKeeps ==
    ASSUME CallsInv, NEW i \in SubIds, Moved(i)
    PROVE  CallsInv'
<1>1. /\ SubIds' = SubIds
      /\ \A j \in SubIds : /\ sub'[j].id = sub[j].id /\ sub'[j].inits = sub[j].inits
                           /\ sub'[j].nth = sub[j].nth /\ sub'[j].late = sub[j].late
                           /\ sub'[j].iter = "live" => sub[j].iter = "live"
      /\ \A j \in SubIds : j # i => sub'[j] = sub[j]
  BY DEF Moved, SubIds
<1>2. CallsOK'
  BY <1>1 DEF CallsInv, CallsOK, Moved
<1>3. EntriesAreNumbered'
  <2>1. Entered' = Entered
    BY <1>1 DEF Entered
  <2> QED
    BY <1>1, <2>1 DEF CallsInv, EntriesAreNumbered, Moved
<1>4. EndIsTold'
  BY <1>1 DEF CallsInv, EndIsTold, Moved, Open
<1>5. InitializedFirst'
  BY <1>1 DEF CallsInv, InitializedFirst, Received, Moved
<1>6. CloseStopsAll'
  BY <1>1 DEF CallsInv, CloseStopsAll, Replaced, Moved
<1> QED
  BY <1>2, <1>3, <1>4, <1>5, <1>6 DEF CallsInv

\* How far a call is, and its iterator.
Places == {"opening", "pulling", "sending", "leaving", "completing", "erring", "ended", "untellable"}
Iterators == {"none", "live", "stopping", "stopped", "done"}

\* The steps of a call, but for its entry.
LEMMA CallMoves ==
    ASSUME CallsInv, NEW i \in SubIds,
           Throws(i) \/ Yields(i) \/ Done(i) \/ Sent(i) \/ Left(i) \/ ErrorSent(i) \/ CompleteSent(i)
    PROVE  Moved(i)
<1>1. sub \in Seq(Calls) /\ SubIds = DOMAIN sub /\ sub[i] \in Calls
  BY DEF CallsInv, CallsOK, SubIds
<1>2. UNCHANGED <<conn, received, subscriptions, inited>>
  BY DEF Throws, Yields, Done, Sent, Left, ErrorSent, CompleteSent
<1>3. ASSUME NEW c \in Calls, sub' = [sub EXCEPT ![i] = c],
             c.id = sub[i].id, c.inits = sub[i].inits, c.nth = sub[i].nth, c.late = sub[i].late,
             c.iter = "live" => sub[i].iter = "live",
             c.pc # "opening", c.pc = "ended" /\ Open => c.told
      PROVE  Moved(i)
  BY <1>1, <1>2, <1>3, CallUpdated DEF Moved
<1>4. ASSUME NEW pc \in Places, Goes(i, pc), pc # "opening", pc = "ended" => ~Open
      PROVE  Moved(i)
  <2>1. sub' = [sub EXCEPT ![i] = [sub[i] EXCEPT !.pc = pc]]
    BY <1>4 DEF Goes
  <2>2. PICK c : c = [sub[i] EXCEPT !.pc = pc]
    OBVIOUS
  <2>3. /\ c \in Calls /\ c.pc = pc /\ c.iter = sub[i].iter
        /\ c.id = sub[i].id /\ c.inits = sub[i].inits /\ c.nth = sub[i].nth /\ c.late = sub[i].late
    BY <1>1, <2>2 DEF Calls, Places
  <2> QED
    BY <1>3, <1>4, <2>1, <2>2, <2>3
<1>5. ASSUME NEW pc \in Places, NEW iter \in Iterators,
             sub' = [sub EXCEPT ![i].iter = iter, ![i].pc = pc],
             iter = "live" => sub[i].iter = "live",
             pc # "opening", pc = "ended" => ~Open
      PROVE  Moved(i)
  <2>1. PICK c : c = [sub[i] EXCEPT !.iter = iter, !.pc = pc]
    OBVIOUS
  <2>2. sub' = [sub EXCEPT ![i] = c]
    BY <1>1, <1>5, <2>1
  <2>3. /\ c \in Calls /\ c.pc = pc /\ c.iter = iter
        /\ c.id = sub[i].id /\ c.inits = sub[i].inits /\ c.nth = sub[i].nth /\ c.late = sub[i].late
    BY <1>1, <2>1 DEF Calls, Places, Iterators
  <2> QED
    BY <1>3, <1>5, <2>2, <2>3
<1>6. CASE Throws(i)
  <2>1. PICK pc \in {"erring", "untellable", "ended"} :
          /\ pc = "ended" => ~Open
          /\ \/ Goes(i, pc)
             \/ /\ sub[i].iter \in {"live", "stopping"}
                /\ sub' = [sub EXCEPT ![i].iter = "done", ![i].pc = pc]
    BY <1>6 DEF Throws
  <2>2. pc \in Places /\ "done" \in Iterators /\ pc # "opening"
    BY DEF Places, Iterators
  <2>3. CASE Goes(i, pc)
    BY <1>4, <2>1, <2>2, <2>3
  <2>4. CASE sub' = [sub EXCEPT ![i].iter = "done", ![i].pc = pc]
    BY <1>5, <2>1, <2>2, <2>4
  <2> QED
    BY <2>1, <2>3, <2>4
<1>7. CASE Yields(i)
  <2>1. PICK sent \in {Open, FALSE} :
          sub' = [sub EXCEPT ![i].iter = IF sent /\ @ = "live" THEN "live" ELSE "stopped",
                             ![i].pc = IF sent THEN "sending" ELSE "leaving"]
    BY <1>7 DEF Yields
  <2>2. PICK pc \in {"sending", "leaving"} : pc = IF sent THEN "sending" ELSE "leaving"
    OBVIOUS
  <2>3. PICK iter \in {"live", "stopped"} :
          iter = IF sent /\ sub[i].iter = "live" THEN "live" ELSE "stopped"
    OBVIOUS
  <2>4. sub' = [sub EXCEPT ![i].iter = iter, ![i].pc = pc]
    BY <1>1, <2>1, <2>2, <2>3
  <2>5. pc \in Places /\ iter \in Iterators /\ pc \notin {"opening", "ended"}
    BY DEF Places, Iterators
  <2>6. iter = "live" => sub[i].iter = "live"
    BY <2>3
  <2> QED
    BY <1>5, <2>4, <2>5, <2>6
<1>8. CASE Done(i)
  <2>1. PICK pc \in {"completing", "ended"} : pc = IF Open THEN "completing" ELSE "ended"
    OBVIOUS
  <2>2. pc \in Places /\ "done" \in Iterators
    BY DEF Places, Iterators
  <2>3. sub' = [sub EXCEPT ![i].iter = "done", ![i].pc = pc]
    BY <1>8, <2>1 DEF Done
  <2> QED
    BY <1>5, <2>1, <2>2, <2>3
<1>9. CASE Sent(i)
  <2>1. {"pulling", "leaving"} \subseteq Places /\ "stopped" \in Iterators
    BY DEF Places, Iterators
  <2> QED
    BY <1>4, <1>5, <1>9, <2>1 DEF Sent
<1>10. CASE Left(i)
  <2>1. PICK pc \in {"erring", "ended"} : pc = IF Open THEN "erring" ELSE "ended"
    OBVIOUS
  <2>2. pc \in Places /\ "done" \in Iterators
    BY DEF Places, Iterators
  <2>3. sub' = [sub EXCEPT ![i].iter = "done", ![i].pc = pc]
    BY <1>10, <2>1 DEF Left
  <2> QED
    BY <1>5, <2>1, <2>2, <2>3
<1>11. CASE ErrorSent(i)
  <2>1. PICK pc \in {"completing", "ended"} : pc = IF Open THEN "completing" ELSE "ended"
    OBVIOUS
  <2>2. pc \in Places
    BY DEF Places
  <2> QED
    BY <1>4, <1>11, <2>1, <2>2 DEF ErrorSent
<1>12. CASE CompleteSent(i)
  <2>1. CASE sub' = [sub EXCEPT ![i].pc = "ended", ![i].told = TRUE]
    <3>1. PICK c : c = [sub[i] EXCEPT !.pc = "ended", !.told = TRUE]
      OBVIOUS
    <3>2. sub' = [sub EXCEPT ![i] = c]
      BY <1>1, <2>1, <3>1
    <3>3. /\ c \in Calls /\ c.pc = "ended" /\ c.told /\ c.iter = sub[i].iter
          /\ c.id = sub[i].id /\ c.inits = sub[i].inits /\ c.nth = sub[i].nth /\ c.late = sub[i].late
      BY <1>1, <3>1 DEF Calls
    <3> QED
      BY <1>3, <3>2, <3>3
  <2>2. CASE ~Open /\ Goes(i, "ended")
    BY <1>4, <2>2 DEF Places
  <2> QED
    BY <1>12, <2>1, <2>2 DEF CompleteSent
<1> QED
  BY <1>6, <1>7, <1>8, <1>9, <1>10, <1>11, <1>12

\* Iterators return, all that are asked to, and their entries go.
Stopped(out) ==
    /\ sub' \in Seq(Calls) /\ DOMAIN sub' = SubIds
    /\ \A i \in SubIds : sub'[i] = IF i \in out THEN Returned(i) ELSE sub[i]
    /\ subscriptions' \in [Ids -> SubIds \cup {None}]
    /\ inited' = inited /\ received' = received
    /\ conn' = "open" => conn = "open"

\* It keeps the invariant, if what is left running keeps its entry and, where the
\* connection has closed, is left by a close event it came too late for.
LEMMA StoppedKeeps ==
    ASSUME CallsInv, NEW out \in SUBSET SubIds, Stopped(out),
           \A i \in SubIds \ out : sub[i].iter = "live" =>
               \/ Replaced(i)
               \/ /\ subscriptions'[sub[i].id] = i
                  /\ conn' = "closed" => sub[i].late
    PROVE  CallsInv'
<1>1. /\ SubIds' = SubIds
      /\ \A i \in SubIds : sub[i] \in Calls
  BY DEF Stopped, SubIds, CallsInv, CallsOK
<1>2. \A i \in SubIds : /\ sub'[i].id = sub[i].id /\ sub'[i].inits = sub[i].inits
                        /\ sub'[i].nth = sub[i].nth /\ sub'[i].late = sub[i].late
                        /\ sub'[i].pc = sub[i].pc /\ sub'[i].told = sub[i].told
                        /\ sub'[i].iter = "live" => sub[i].iter = "live" /\ i \notin out
                        /\ sub'[i].iter # sub[i].iter => sub[i].iter = "live"
  <2> SUFFICES ASSUME NEW i \in SubIds
               PROVE  /\ sub'[i].id = sub[i].id /\ sub'[i].inits = sub[i].inits
                      /\ sub'[i].nth = sub[i].nth /\ sub'[i].late = sub[i].late
                      /\ sub'[i].pc = sub[i].pc /\ sub'[i].told = sub[i].told
                      /\ sub'[i].iter = "live" => sub[i].iter = "live" /\ i \notin out
                      /\ sub'[i].iter # sub[i].iter => sub[i].iter = "live"
    OBVIOUS
  <2>1. CASE i \notin out \/ sub[i].iter # "live"
    BY <2>1 DEF Stopped, Returned
  <2>2. CASE i \in out /\ sub[i].iter = "live"
    <3>1. sub'[i] = [sub[i] EXCEPT !.iter = "stopping"]
      BY <2>2 DEF Stopped, Returned
    <3> QED
      BY <1>1, <2>2, <3>1 DEF Calls
  <2> QED
    BY <2>1, <2>2
<1>3. CallsOK'
  BY <1>1 DEF CallsInv, CallsOK, Stopped
<1>4. EntriesAreNumbered'
  <2>1. Entered' = Entered
    BY <1>1, <1>2 DEF Entered
  <2> QED
    BY <1>1, <1>2, <2>1 DEF CallsInv, EntriesAreNumbered
<1>5. EndIsTold'
  BY <1>1, <1>2 DEF CallsInv, EndIsTold, Stopped, Open
<1>6. InitializedFirst'
  BY <1>1, <1>2 DEF CallsInv, InitializedFirst, Received, Stopped
<1>7. CloseStopsAll'
  <2> SUFFICES ASSUME NEW i \in SubIds, sub'[i].iter = "live"
               PROVE  \/ Replaced(i)'
                      \/ /\ subscriptions'[sub'[i].id] = i
                         /\ conn' = "closed" => sub'[i].late
    BY <1>1 DEF CloseStopsAll
  <2>1. i \notin out /\ sub[i].iter = "live"
    BY <1>2
  <2>2. Replaced(i) => Replaced(i)'
    BY <1>1, <1>2 DEF Replaced
  <2> QED
    BY <1>2, <2>1, <2>2
<1> QED
  BY <1>3, <1>4, <1>5, <1>6, <1>7 DEF CallsInv

\* A call whose iterator returns is a call.
LEMMA ReturnedIs ==
    ASSUME CallsInv, NEW i \in SubIds
    PROVE  Returned(i) \in Calls
<1>1. sub[i] \in Calls
  BY DEF CallsInv, CallsOK, SubIds
<1> QED
  BY <1>1 DEF Returned, Calls

\* A complete stops the call that its id stands for.
LEMMA CompleteKeeps ==
    ASSUME CallsInv, NEW id \in Ids,
           sub' = IF subscriptions[id] = None THEN sub
                  ELSE [sub EXCEPT ![subscriptions[id]] = Returned(subscriptions[id])],
           subscriptions' = [subscriptions EXCEPT ![id] = None],
           UNCHANGED <<conn, received, inited>>
    PROVE  CallsInv'
<1>1. /\ sub \in Seq(Calls) /\ subscriptions \in [Ids -> SubIds \cup {None}]
      /\ SubIds = DOMAIN sub /\ DOMAIN sub \subseteq Nat \ {0}
      /\ \A j \in SubIds : sub[j] \in Calls
  BY DEF CallsInv, CallsOK, SubIds
<1>2. PICK i : i = subscriptions[id]
  OBVIOUS
<1>3. i \in SubIds \cup {None}
  BY <1>1, <1>2
<1>4. PICK out \in SUBSET SubIds : out = {i} \ {None}
  BY <1>3
<1>5. subscriptions' \in [Ids -> SubIds \cup {None}]
  BY <1>1
<1>6. /\ sub' \in Seq(Calls) /\ DOMAIN sub' = SubIds
      /\ \A j \in SubIds : sub'[j] = IF j \in out THEN Returned(j) ELSE sub[j]
  <2>1. CASE i = None
    <3>1. sub' = sub /\ out = {}
      BY <1>2, <1>4, <2>1
    <3> QED
      BY <1>1, <3>1
  <2>2. CASE i # None
    <3>1. i \in SubIds /\ out = {i} /\ sub' = [sub EXCEPT ![i] = Returned(i)]
      BY <1>2, <1>3, <1>4, <2>2
    <3>2. Returned(i) \in Calls
      BY <3>1, ReturnedIs
    <3> QED
      BY <1>1, <3>1, <3>2, CallUpdated
  <2> QED
    BY <2>1, <2>2
<1>7. Stopped(out)
  BY <1>5, <1>6 DEF Stopped
<1>8. ASSUME NEW j \in SubIds \ out, sub[j].iter = "live"
      PROVE  \/ Replaced(j)
             \/ /\ subscriptions'[sub[j].id] = j
                /\ conn' = "closed" => sub[j].late
  <2>1. CASE sub[j].id = id
    <3>1. j # 0 /\ j # i
      BY <1>1, <1>3, <1>4 DEF None
    <3> QED
      BY <1>2, <1>8, <2>1, <3>1 DEF CallsInv, CloseStopsAll
  <2>2. CASE sub[j].id # id
    <3>1. sub[j].id \in Ids
      BY <1>1, CallFields
    <3>2. subscriptions'[sub[j].id] = subscriptions[sub[j].id]
      BY <1>1, <2>2, <3>1
    <3> QED
      BY <1>8, <3>2 DEF CallsInv, CloseStopsAll
  <2> QED
    BY <2>1, <2>2
<1> QED
  BY <1>7, <1>8, StoppedKeeps

\* The close event stops what is in the map.
LEMMA CloseKeeps ==
    ASSUME CallsInv, CloseEvent
    PROVE  CallsInv'
<1>1. /\ sub \in Seq(Calls) /\ SubIds = DOMAIN sub /\ DOMAIN sub = 1..Len(sub) /\ Len(sub) \in Nat
      /\ \A j \in SubIds : sub[j] \in Calls
  BY DEF CallsInv, CallsOK, SubIds
<1>2. /\ conn = "closing" /\ conn' = "closed" /\ inited' = inited /\ received' = received
      /\ subscriptions' = [id \in Ids |-> None]
      /\ sub' = [i \in SubIds |-> IF subscriptions[sub[i].id] = i THEN Returned(i) ELSE sub[i]]
  BY DEF CloseEvent, UnsubscribeAll
<1>3. PICK out \in SUBSET SubIds : out = {i \in SubIds : subscriptions[sub[i].id] = i}
  OBVIOUS
<1>4. \A i \in SubIds : Returned(i) \in Calls
  BY ReturnedIs
<1>5. /\ sub' \in Seq(Calls) /\ DOMAIN sub' = SubIds
      /\ \A i \in SubIds : sub'[i] = IF i \in out THEN Returned(i) ELSE sub[i]
  <2>1. sub' \in [1..Len(sub) -> Calls]
    BY <1>1, <1>2, <1>4
  <2> QED
    BY <1>1, <1>2, <1>3, <2>1
<1>6. Stopped(out)
  BY <1>2, <1>5 DEF Stopped
<1>7. \A i \in SubIds \ out : sub[i].iter = "live" => Replaced(i)
  BY <1>3 DEF CallsInv, CloseStopsAll
<1> QED
  BY <1>6, <1>7, StoppedKeeps


\* There is one call more; what was asked for before it is initialized.
LEMMA OneMoreKeeps ==
    ASSUME CallsInv, NEW n \in Nat \ SubIds, NEW c \in Calls,
           c.pc = "opening", c.nth = 0, c.iter = "none", Proper => c.inits <= inited,
           sub' \in Seq(Calls), SubIds' = SubIds \cup {n}, sub'[n] = c,
           \A j \in SubIds : sub'[j] = sub[j],
           UNCHANGED <<conn, received, subscriptions, inited>>
    PROVE  CallsInv'
<1>1. CallsOK'
  BY DEF CallsInv, CallsOK
<1>2. EntriesAreNumbered'
  <2>1. Entered' = Entered
    BY DEF Entered
  <2>2. Cardinality(Entered) \in Nat
    BY CallsAreFinite DEF Entered, CallsInv, CallsOK, SubIds
  <2>3. c.nth <= Cardinality(Entered)
    BY <2>2
  <2> QED
    BY <2>1, <2>3 DEF CallsInv, EntriesAreNumbered
<1>3. EndIsTold'
  BY DEF CallsInv, EndIsTold, Open
<1>4. InitializedFirst'
  BY DEF CallsInv, InitializedFirst, Proper, Received
<1>5. CloseStopsAll'
  <2>1. \A i \in SubIds : Replaced(i) => Replaced(i)'
    BY DEF Replaced
  <2>2. \A i \in SubIds' : sub'[i].iter = "live" => i \in SubIds /\ sub[i].iter = "live"
    OBVIOUS
  <2> QED
    BY <2>1, <2>2 DEF CallsInv, CloseStopsAll
<1> QED
  BY <1>1, <1>2, <1>3, <1>4, <1>5 DEF CallsInv

\* An operation starts a call.
LEMMA AppendKeeps ==
    ASSUME CallsInv, NEW c \in Calls, sub' = Append(sub, c),
           c.pc = "opening", c.nth = 0, c.iter = "none", Proper => c.inits <= inited,
           UNCHANGED <<conn, received, subscriptions, inited>>
    PROVE  CallsInv'
<1>1. sub \in Seq(Calls) /\ SubIds = DOMAIN sub /\ SubIds' = DOMAIN sub'
  BY DEF CallsInv, CallsOK, SubIds
<1>2. PICK n \in Nat : n = Len(sub) + 1
  BY <1>1
<1>3. /\ sub' \in Seq(Calls) /\ SubIds' = SubIds \cup {n} /\ n \notin SubIds
      /\ sub'[n] = c /\ \A j \in SubIds : sub'[j] = sub[j]
  <2>1. ASSUME NEW s \in Seq(Calls), NEW m, m = Len(s) + 1
        PROVE  /\ Append(s, c) \in Seq(Calls) /\ DOMAIN Append(s, c) = DOMAIN s \cup {m}
               /\ m \notin DOMAIN s /\ Append(s, c)[m] = c
               /\ \A j \in DOMAIN s : Append(s, c)[j] = s[j]
    BY <2>1
  <2> QED
    BY <1>1, <1>2, <2>1
<1> QED
  BY <1>2, <1>3, OneMoreKeeps

\* A call enters the map, behind all that have.
LEMMA EntryKeeps ==
    ASSUME CallsInv, NEW i \in SubIds, SubscribeReturns(i)
    PROVE  CallsInv'
<1>1. /\ sub \in Seq(Calls) /\ SubIds = DOMAIN sub /\ SubIds' = DOMAIN sub'
      /\ \A j \in SubIds : sub[j] \in Calls
      /\ subscriptions \in [Ids -> SubIds \cup {None}] /\ inited \in Nat
  BY DEF CallsInv, CallsOK, SubIds
<1>2. /\ sub[i].pc = "opening" /\ UNCHANGED <<conn, received, inited>>
      /\ subscriptions' = [subscriptions EXCEPT ![sub[i].id] = i]
  BY DEF SubscribeReturns
<1>3. PICK n : n = Cardinality(Entered)
  OBVIOUS
<1>4. n \in Nat /\ IsFiniteSet(Entered)
  BY <1>1, <1>3, CallsAreFinite DEF Entered
<1>5. PICK late \in BOOLEAN : late = (conn = "closed")
  OBVIOUS
<1>6. PICK c : c = [sub[i] EXCEPT !.pc = "pulling", !.iter = "live", !.nth = 1 + n, !.late = late]
  OBVIOUS
<1>7. sub' = [sub EXCEPT ![i] = c]
  BY <1>1, <1>3, <1>5, <1>6 DEF SubscribeReturns, Registered, Entered
<1>8. /\ c \in Calls /\ c.id = sub[i].id /\ c.inits = sub[i].inits /\ c.nth = 1 + n
      /\ c.pc = "pulling" /\ c.iter = "live" /\ c.late = late
  <2>1. PICK d \in Calls : d = sub[i]
    BY <1>1
  <2>2. PICK k \in Nat : k = 1 + n
    BY <1>4
  <2>3. c = [d EXCEPT !.pc = "pulling", !.iter = "live", !.nth = k, !.late = late]
    BY <1>6, <2>1, <2>2
  <2>4. /\ c \in Calls /\ c.id = d.id /\ c.inits = d.inits /\ c.nth = k
        /\ c.pc = "pulling" /\ c.iter = "live" /\ c.late = late
    BY <2>3 DEF Calls
  <2> QED
    BY <2>1, <2>2, <2>4
<1>9. /\ sub' \in Seq(Calls) /\ SubIds' = SubIds /\ sub'[i] = c
      /\ \A j \in SubIds : j # i => sub'[j] = sub[j]
  BY <1>1, <1>7, <1>8, CallUpdated
<1>10. sub[i].id \in Ids
  BY <1>1, CallFields
<1>11. CallsOK'
  BY <1>1, <1>2, <1>9, <1>10 DEF CallsOK
<1>12. sub[i].nth = 0 /\ \A j \in SubIds : sub[j].nth \in Nat /\ sub[j].nth <= n
  BY <1>1, <1>2, <1>3, CallFields DEF CallsInv, EntriesAreNumbered
<1>13. EntriesAreNumbered'
  <2>1. Entered' = Entered \cup {i} /\ i \notin Entered
    BY <1>4, <1>8, <1>9, <1>12 DEF Entered
  <2>2. Cardinality(Entered') = n + 1
    BY <1>3, <1>4, <2>1, FS_AddElement
  <2> QED
    BY <1>4, <1>8, <1>9, <1>12, <2>2 DEF CallsInv, EntriesAreNumbered
<1>14. EndIsTold'
  BY <1>2, <1>8, <1>9 DEF CallsInv, EndIsTold, Open
<1>15. InitializedFirst'
  BY <1>2, <1>8, <1>9 DEF CallsInv, InitializedFirst, Received
<1>16. CloseStopsAll'
  <2> SUFFICES ASSUME NEW j \in SubIds, sub'[j].iter = "live"
               PROVE  \/ Replaced(j)'
                      \/ /\ subscriptions'[sub'[j].id] = j
                         /\ conn' = "closed" => sub'[j].late
    BY <1>9 DEF CloseStopsAll
  <2>1. CASE j = i
    BY <1>1, <1>2, <1>5, <1>8, <1>9, <1>10, <2>1
  <2>2. CASE j # i /\ sub[j].id = sub[i].id
    <3>1. sub'[i].id = sub'[j].id /\ sub'[i].nth > sub'[j].nth
      BY <1>4, <1>8, <1>9, <1>12, <2>2
    <3> QED
      BY <1>9, <3>1 DEF Replaced
  <2>3. CASE j # i /\ sub[j].id # sub[i].id
    <3>1. sub'[j] = sub[j] /\ subscriptions'[sub[j].id] = subscriptions[sub[j].id]
      BY <1>1, <1>2, <1>9, <1>10, <2>3, CallFields
    <3>2. Replaced(j) => Replaced(j)'
      BY <1>9, <2>3, <3>1 DEF Replaced
    <3> QED
      BY <1>2, <3>1, <3>2 DEF CallsInv, CloseStopsAll
  <2> QED
    BY <2>1, <2>2, <2>3
<1> QED
  BY <1>11, <1>13, <1>14, <1>15, <1>16 DEF CallsInv

------------------------------------------------------------------------------
(***************************************************************************)
(* The loop of run()                                                       *)
(***************************************************************************)

Entries == [op : Operations, inits : Nat]

\* What is received and read, and what run() knows of it.
ReaderOK ==
    /\ conn \in {"open", "closing", "closed"}
    /\ inbox \in Seq(Entries)
    /\ reader = "given" => inbox # <<>>
    /\ received \in Seq(Operations)
    /\ reader \in {"next", "waiting", "given", "init", "replying", "failed"}
    /\ inited \in Nat
ReaderInv == ReaderOK /\ InitsAreCounted

\* A sequence of operations that is received.
LEMMA EntryAppended ==
    ASSUME NEW s \in Seq(Entries), NEW e \in Entries
    PROVE  /\ Append(s, e) \in Seq(Entries) /\ Append(s, e) # <<>>
           /\ Len(Append(s, e)) = Len(s) + 1 /\ Append(s, e)[Len(s) + 1] = e
           /\ \A k \in DOMAIN s : Append(s, e)[k] = s[k]
           /\ DOMAIN Append(s, e) = 1..(Len(s) + 1)
           /\ DOMAIN s = 1..Len(s) /\ Len(s) \in Nat
           /\ s = <<>> <=> Len(s) = 0
OBVIOUS

\* A sequence of operations of which the first is read.
LEMMA EntryRead ==
    ASSUME NEW s \in Seq(Entries), s # <<>>
    PROVE  /\ Tail(s) \in Seq(Entries) /\ Len(s) \in Nat \ {0} /\ DOMAIN s = 1..Len(s)
           /\ Head(s) = s[1] /\ s[1] \in Entries
           /\ Len(Tail(s)) = Len(s) - 1 /\ DOMAIN Tail(s) = 1..(Len(s) - 1)
           /\ \A k \in 1..(Len(s) - 1) : Tail(s)[k] = s[k + 1]
           /\ Tail(s) = <<>> <=> Len(s) = 1
<1>1. /\ Tail(s) \in Seq(Entries) /\ Len(s) \in Nat \ {0} /\ DOMAIN s = 1..Len(s)
      /\ Head(s) = s[1] /\ s[1] \in Entries
      /\ Len(Tail(s)) = Len(s) - 1 /\ DOMAIN Tail(s) = 1..(Len(s) - 1)
      /\ \A k \in 1..(Len(s) - 1) : Tail(s)[k] = s[k + 1]
  OBVIOUS
<1>2. \A t \in Seq(Entries) : t = <<>> <=> Len(t) = 0
  OBVIOUS
<1>3. PICK t \in Seq(Entries) : t = Tail(s)
  BY <1>1
<1>4. t = <<>> <=> Len(s) = 1
  <2>1. PICK n \in Nat : n = Len(s)
    BY <1>1
  <2>2. Len(t) = n - 1
    BY <1>1, <1>3, <2>1
  <2>3. t = <<>> <=> n = 1
    BY <1>2, <2>2
  <2> QED
    BY <2>1, <2>3
<1> QED
  BY <1>1, <1>3, <1>4

\* Another operation that is received adds to those of its type.
LEMMA TypesAppended ==
    ASSUME received \in Seq(Operations), NEW m \in Operations, received' = Append(received, m),
           NEW type
    PROVE  /\ Received(type) \in Nat
           /\ Received(type)' = IF m.type = type THEN Received(type) + 1 ELSE Received(type)
<1> DEFINE I(s) == {k \in DOMAIN s : s[k].type = type}
<1>1. ASSUME NEW s \in Seq(Operations)
      PROVE  /\ DOMAIN Append(s, m) = DOMAIN s \cup {Len(s) + 1} /\ Len(s) + 1 \notin DOMAIN s
             /\ Append(s, m)[Len(s) + 1] = m
             /\ \A k \in DOMAIN s : Append(s, m)[k] = s[k]
  OBVIOUS
<1>2. ASSUME NEW s \in Seq(Operations)
      PROVE  IsFiniteSet(I(s))
  <2>1. DOMAIN s = 1..Len(s) /\ 1 \in Int /\ Len(s) \in Int
    OBVIOUS
  <2>2. IsFiniteSet(DOMAIN s)
    BY <2>1, FS_Interval
  <2> QED
    BY <2>2, FS_Subset
<1>3. ASSUME NEW s \in Seq(Operations)
      PROVE  /\ Cardinality(I(s)) \in Nat
             /\ Cardinality(I(Append(s, m))) =
                    IF m.type = type THEN Cardinality(I(s)) + 1 ELSE Cardinality(I(s))
  <2>1. IsFiniteSet(I(s)) /\ Cardinality(I(s)) \in Nat
    BY <1>2, FS_CardinalityType
  <2>2. CASE m.type = type
    <3>1. I(Append(s, m)) = I(s) \cup {Len(s) + 1} /\ Len(s) + 1 \notin I(s)
      BY <1>1, <2>2
    <3> QED
      BY <2>1, <2>2, <3>1, FS_AddElement
  <2>3. CASE m.type # type
    <3>1. I(Append(s, m)) = I(s)
      BY <1>1, <2>3
    <3> QED
      BY <2>1, <2>3, <3>1
  <2> QED
    BY <2>1, <2>2, <2>3
<1>4. /\ Received(type) = Cardinality(I(received))
      /\ Received(type)' = Cardinality(I(Append(received, m)))
  BY DEF Received
<1> HIDE DEF I
<1> QED
  BY <1>3, <1>4

\* An operation is handed to a loop that waits for one, and is queued otherwise.
LEMMA Handed ==
    ASSUME ReaderInv, NEW e \in Entries, NEW r,
           IF reader = "waiting" THEN inbox' = <<e>> \o inbox /\ r = "given"
           ELSE inbox' = Append(inbox, e) /\ r = reader
    PROVE  /\ inbox' \in Seq(Entries) /\ inbox' # <<>>
           /\ reader # "failed" /\ Proper => inbox' = Append(inbox, e)
<1>1. inbox \in Seq(Entries)
  BY DEF ReaderInv, ReaderOK
<1>2. CASE reader = "waiting"
  <2>1. inbox' = <<e>> \o inbox /\ <<e>> \in Seq(Entries) /\ Len(<<e>>) = 1
    BY <1>2
  <2>2. /\ <<e>> \o inbox \in Seq(Entries) /\ Len(<<e>> \o inbox) = 1 + Len(inbox)
        /\ Len(inbox) \in Nat
    BY <1>1, <2>1
  <2>3. inbox' \in Seq(Entries) /\ inbox' # <<>>
    BY <2>1, <2>2
  <2>4. ASSUME Proper PROVE inbox' = Append(inbox, e)
    <3>1. inbox = <<>>
      BY <1>2, <2>4 DEF ReaderInv, InitsAreCounted, ReadInOrder
    <3>2. <<e>> \o <<>> = Append(<<>>, e)
      OBVIOUS
    <3> QED
      BY <2>1, <3>1, <3>2
  <2> QED
    BY <2>3, <2>4
<1>3. CASE reader # "waiting"
  BY <1>1, <1>3, EntryAppended
<1> QED
  BY <1>2, <1>3

\* An operation is received.
LEMMA ReceiveKeeps ==
    ASSUME ReaderInv, NEW m \in Operations, Receive(m)
    PROVE  ReaderInv' /\ (Proper' => Proper)
<1>1. /\ inbox \in Seq(Entries) /\ received \in Seq(Operations) /\ reader # "failed"
      /\ received' = Append(received, m)
      /\ UNCHANGED <<conn, inited>>
      /\ conn \in {"open", "closing", "closed"} /\ inited \in Nat
      /\ reader \in {"next", "waiting", "given", "init", "replying"}
  BY DEF ReaderInv, ReaderOK, Receive
<1>2. /\ Received("init") \in Nat
      /\ Received("init")' = IF m.type = "init" THEN Received("init") + 1 ELSE Received("init")
  BY <1>1, TypesAppended
<1>3. /\ Received("falsy") \in Nat
      /\ Received("falsy")' = IF m.type = "falsy" THEN Received("falsy") + 1 ELSE Received("falsy")
  BY <1>1, TypesAppended
<1>4. PICK e \in Entries :
         /\ e = [op |-> m, inits |-> Received("init")] /\ e.inits = Received("init") /\ e.op = m
  <2>1. ASSUME NEW i \in Nat
        PROVE  [op |-> m, inits |-> i] \in Entries
    BY DEF Entries
  <2> QED
    BY <1>2, <2>1
<1>5. IF reader = "waiting" THEN inbox' = <<e>> \o inbox /\ reader' = "given"
      ELSE inbox' = Append(inbox, e) /\ reader' = reader
  BY <1>4 DEF Receive
<1>6. /\ inbox' \in Seq(Entries) /\ inbox' # <<>>
      /\ reader # "failed" /\ Proper => inbox' = Append(inbox, e)
  BY <1>5, Handed
<1>7. /\ reader' \in {"next", "given", "init", "replying"}
      /\ reader' = "init" <=> reader = "init"
  BY <1>1, <1>5
<1>8. ReaderOK'
  BY <1>1, <1>6, <1>7 DEF ReaderOK
<1>9. Proper' => Proper
  BY <1>3 DEF Proper
<1>10. ASSUME Proper' PROVE InitsAreCounted'
  <2>1. inbox' = Append(inbox, e) /\ Proper
    BY <1>1, <1>6, <1>9, <1>10
  <2>2. PICK n \in Nat : n = Len(inbox)
    BY <1>1
  <2>3. /\ Len(inbox') = n + 1 /\ inbox'[n + 1] = e
        /\ \A k \in 1..n : inbox'[k] = inbox[k]
        /\ DOMAIN inbox' = 1..(n + 1) /\ DOMAIN inbox = 1..n
        /\ inbox = <<>> <=> n = 0
    BY <1>1, <2>1, <2>2, EntryAppended
  <2>4. /\ n # 0 => inbox[1].inits = Begun
        /\ \A k \in 1..n : k + 1 \in 1..n => inbox[k + 1].inits = After(inbox[k])
        /\ Received("init") = IF n = 0 THEN Begun ELSE After(inbox[n])
        /\ \A j, k \in 1..n : inbox[j].op.type = "falsy" /\ inbox[k].op.type = "falsy" =>
               j = k /\ Received("falsy") # 0
    <3>1. /\ ReadInOrder
          /\ inbox # <<>> => inbox[1].inits = Begun
          /\ \A k \in DOMAIN inbox : k + 1 \in DOMAIN inbox => inbox[k + 1].inits = After(inbox[k])
          /\ Received("init") = IF inbox = <<>> THEN Begun ELSE After(inbox[Len(inbox)])
      BY <1>1, <2>1 DEF ReaderInv, InitsAreCounted
    <3>2. \A j, k \in DOMAIN inbox : inbox[j].op.type = "falsy" /\ inbox[k].op.type = "falsy" =>
               j = k /\ Received("falsy") # 0
      BY <3>1 DEF ReadInOrder
    <3>3. /\ n # 0 => inbox[1].inits = Begun
          /\ Received("init") = IF n = 0 THEN Begun ELSE After(inbox[n])
      BY <2>2, <2>3, <3>1
    <3>4. \A k \in 1..n : k + 1 \in 1..n => inbox[k + 1].inits = After(inbox[k])
      BY <2>3, <3>1
    <3>5. \A j, k \in 1..n : inbox[j].op.type = "falsy" /\ inbox[k].op.type = "falsy" =>
               j = k /\ Received("falsy") # 0
      BY <2>3, <3>2
    <3> QED
      BY <3>3, <3>4, <3>5
  <2>5. Begun' = Begun
    BY <1>1, <1>7 DEF Begun
  <2>6. \A k \in 1..n : After(inbox[k])' = After(inbox[k])
    BY <2>3 DEF After
  <2>7. inbox'[1].inits = Begun'
    BY <1>4, <2>3, <2>4, <2>5
  <2>8. \A k \in 1..(n + 1) : k + 1 \in 1..(n + 1) => inbox'[k + 1].inits = After(inbox[k])'
    <3> SUFFICES ASSUME NEW k \in 1..n PROVE inbox'[k + 1].inits = After(inbox[k])'
      OBVIOUS
    <3>1. CASE k = n
      BY <1>4, <2>3, <2>4, <2>6, <3>1
    <3>2. CASE k # n
      BY <2>3, <2>4, <2>6, <3>2
    <3> QED
      BY <3>1, <3>2
  <2>9. Received("init")' = After(inbox'[n + 1])
    BY <1>2, <1>4, <2>3 DEF After
  <2>10. ASSUME NEW j \in 1..(n + 1), NEW k \in 1..(n + 1),
                inbox'[j].op.type = "falsy", inbox'[k].op.type = "falsy"
         PROVE  j = k /\ Received("falsy")' # 0
    <3>1. CASE m.type = "falsy"
      <4>1. Received("falsy") = 0
        BY <1>3, <1>10, <3>1 DEF Proper
      <4>2. j = n + 1 /\ k = n + 1
        BY <2>3, <2>4, <2>10, <4>1
      <4> QED
        BY <1>3, <3>1, <4>2
    <3>2. CASE m.type # "falsy"
      <4>1. j \in 1..n /\ k \in 1..n
        BY <1>4, <2>3, <2>10, <3>2
      <4> QED
        BY <1>3, <2>3, <2>4, <2>10, <3>2, <4>1
    <3> QED
      BY <3>1, <3>2
  <2>11. ReadInOrder'
    BY <1>7, <2>3, <2>10 DEF ReadInOrder
  <2> QED
    BY <1>6, <1>7, <2>3, <2>7, <2>8, <2>9, <2>11 DEF InitsAreCounted, After
<1>11. InitsAreCounted'
  <2>1. CASE Proper'
    BY <1>10, <2>1
  <2>2. CASE ~Proper'
    BY <1>7, <2>2 DEF InitsAreCounted
  <2> QED
    BY <2>1, <2>2
<1> QED
  BY <1>8, <1>9, <1>11 DEF ReaderInv

\* The first operation is read, or dropped.
LEMMA ReadKeeps ==
    ASSUME ReaderInv, reader \in {"next", "given"}, inbox # <<>>, inbox' = Tail(inbox),
           reader' \in {"next", "waiting", "given", "init", "replying"},
           UNCHANGED <<conn, received, inited>>,
           reader' = "init" <=> Head(inbox).op.type = "init",
           reader' = "waiting" => Tail(inbox) = <<>>,
           reader' = "given" => Tail(inbox) # <<>>
    PROVE  ReaderInv' /\ Head(inbox) \in Entries /\ (Proper => Head(inbox).inits = inited)
<1>1. /\ inbox \in Seq(Entries) /\ received \in Seq(Operations) /\ inited \in Nat
      /\ reader \notin {"failed", "init", "waiting"} /\ reader' # "failed"
  BY DEF ReaderInv, ReaderOK
<1>2. PICK n \in Nat : n = Len(inbox)
  BY <1>1
<1>3. /\ inbox' \in Seq(Entries) /\ n # 0 /\ DOMAIN inbox = 1..n
      /\ Head(inbox) = inbox[1] /\ inbox[1] \in Entries
      /\ Len(inbox') = n - 1 /\ DOMAIN inbox' = 1..(n - 1)
      /\ \A k \in 1..(n - 1) : inbox'[k] = inbox[k + 1]
      /\ inbox' = <<>> <=> n = 1
  BY <1>1, <1>2, EntryRead
<1>4. ReaderOK'
  BY <1>3 DEF ReaderInv, ReaderOK
<1>5. ASSUME Proper PROVE InitsAreCounted' /\ Head(inbox).inits = inited
  <2>1. /\ inbox[1].inits = Begun
        /\ \A k \in 1..n : k + 1 \in 1..n => inbox[k + 1].inits = After(inbox[k])
        /\ Received("init") = After(inbox[n])
    BY <1>1, <1>2, <1>3, <1>5 DEF ReaderInv, InitsAreCounted
  <2>2. inbox[1].inits = inited
    BY <1>1, <2>1 DEF Begun
  <2>3. Begun' = After(inbox[1])
    BY <1>3, <2>2 DEF Begun, After
  <2>4. Received("init")' = Received("init") /\ Received("falsy")' = Received("falsy")
    BY DEF Received
  <2>5. n # 1 => inbox'[1].inits = Begun'
    BY <1>3, <2>1, <2>3
  <2>6. \A k \in 1..(n - 1) : k + 1 \in 1..(n - 1) => inbox'[k + 1].inits = After(inbox'[k])
    BY <1>3, <2>1
  <2>7. Received("init")' = IF n = 1 THEN Begun' ELSE After(inbox'[n - 1])
    BY <1>3, <2>1, <2>3, <2>4
  <2>8. ReadInOrder'
    <3>1. ASSUME NEW j \in 1..(n - 1), NEW k \in 1..(n - 1),
                 inbox'[j].op.type = "falsy", inbox'[k].op.type = "falsy"
          PROVE  j = k /\ Received("falsy")' # 0
      <4>1. /\ j + 1 \in 1..n /\ k + 1 \in 1..n
            /\ inbox[j + 1].op.type = "falsy" /\ inbox[k + 1].op.type = "falsy"
        BY <1>3, <3>1
      <4>2. j + 1 = k + 1 /\ Received("falsy") # 0
        <5>1. ReadInOrder
          BY <1>1, <1>5 DEF ReaderInv, InitsAreCounted
        <5>2. j + 1 \in DOMAIN inbox /\ k + 1 \in DOMAIN inbox
          BY <1>3, <4>1
        <5> QED
          BY <4>1, <5>1, <5>2 DEF ReadInOrder
      <4> QED
        BY <2>4, <4>2
    <3>2. \A j, k \in DOMAIN inbox' :
              inbox'[j].op.type = "falsy" /\ inbox'[k].op.type = "falsy" =>
                  j = k /\ Received("falsy")' # 0
      <4>1. DOMAIN inbox' = 1..(n - 1)
        BY <1>3
      <4> QED
        BY <3>1, <4>1, Zenon
    <3>3. reader' = "waiting" => inbox' = <<>>
      OBVIOUS
    <3> QED
      BY <3>2, <3>3, Zenon DEF ReadInOrder
  <2>9. InitsAreCounted'
    BY <1>1, <1>3, <2>5, <2>6, <2>7, <2>8 DEF InitsAreCounted, After
  <2> QED
    BY <1>3, <2>2, <2>9
<1>6. CASE Proper
  BY <1>3, <1>4, <1>5, <1>6 DEF ReaderInv
<1>7. CASE ~Proper
  <2>1. ~Proper'
    BY <1>7 DEF Proper, Received
  <2>2. InitsAreCounted'
    BY <1>1, <2>1 DEF InitsAreCounted
  <2> QED
    BY <1>3, <1>4, <1>7, <2>2 DEF ReaderInv
<1> QED
  BY <1>6, <1>7

\* The loop fails.
LEMMA FailureKeeps ==
    ASSUME ReaderInv, ReaderFails, inited' \in Nat, received' = received
    PROVE  ReaderInv' /\ conn' \in {"closing", conn}
BY DEF ReaderInv, ReaderOK, InitsAreCounted, ReaderFails

\* What the loop has begun goes on.
LEMMA LoopGoesOn ==
    ASSUME ReaderInv, reader # "failed", reader' \in {"next", "waiting", "given", "init", "replying"},
           conn' \in {"open", "closing", "closed"}, inited' \in Nat, Begun' = Begun,
           reader' = "waiting" => inbox = <<>>, reader' = "given" => inbox # <<>>,
           UNCHANGED <<inbox, received>>
    PROVE  ReaderInv'
<1>1. Received("init")' = Received("init") /\ Received("falsy")' = Received("falsy")
      /\ Proper' = Proper
  BY DEF Received, Proper
<1>2. InitsAreCounted'
  BY <1>1 DEF ReaderInv, InitsAreCounted, ReadInOrder, After
<1> QED
  BY <1>2 DEF ReaderInv, ReaderOK

\* The loop is left alone.
LEMMA ReaderStays ==
    ASSUME ReaderInv, conn' \in {"open", "closing", "closed"},
           UNCHANGED <<inbox, received, reader, inited>>
    PROVE  ReaderInv' /\ Proper' = Proper
<1>1. ReaderOK'
  BY DEF ReaderInv, ReaderOK
<1>2. Received("init")' = Received("init") /\ Received("falsy")' = Received("falsy")
      /\ Proper' = Proper
  BY DEF Received, Proper
<1>3. InitsAreCounted'
  BY <1>2 DEF ReaderInv, InitsAreCounted, ReadInOrder, Begun, After
<1> QED
  BY <1>1, <1>2, <1>3 DEF ReaderInv

\* What is falsy is dropped, and then the loop has an operation or waits.
LEMMA PullKeeps ==
    ASSUME ReaderInv, Pull
    PROVE  ReaderInv'
<1>1. /\ inbox \in Seq(Entries) /\ conn \in {"open", "closing", "closed"} /\ inited \in Nat
      /\ received \in Seq(Operations)
      /\ reader = "next" /\ UNCHANGED <<conn, received, inited>>
  BY DEF ReaderInv, ReaderOK, Pull
<1>2. PICK l \in Nat : l = Len(inbox)
  BY <1>1
<1>3. PICK n \in 0..2 :
         /\ n <= l
         /\ \A k \in 1..n : inbox[k].op.type = "falsy"
         /\ inbox' = SubSeq(inbox, n + 1, l)
         /\ \/ n \in {2, l} /\ reader' = "waiting"
            \/ n < 2 /\ n < l /\ inbox[n + 1].op.type # "falsy" /\ reader' = "given"
  BY <1>2 DEF Pull
<1>4. DOMAIN inbox = 1..l /\ (inbox = <<>> <=> l = 0)
  BY <1>1, <1>2, EntryAppended
<1>5. /\ inbox' \in Seq(Entries) /\ Len(inbox') = l - n
      /\ \A k \in 1..(l - n) : inbox'[k] = inbox[n + k]
  <2>1. n + 1 \in 1..(l + 1) /\ l \in n..l
    BY <1>3
  <2>2. \A k \in (n + 1)..l : inbox[k] \in Entries
    BY <1>1, <1>3, <1>4
  <2>3. /\ SubSeq(inbox, n + 1, l) \in Seq(Entries)
        /\ Len(SubSeq(inbox, n + 1, l)) = IF n + 1 <= l THEN l - (n + 1) + 1 ELSE 0
        /\ \A k \in 1..(l - (n + 1) + 1) : SubSeq(inbox, n + 1, l)[k] = inbox[n + 1 + k - 1]
    BY <1>1, <1>2, <2>1, <2>2
  <2> QED
    BY <1>3, <2>3
<1>6. CASE n = 0
  <2>1. inbox' = inbox
    BY <1>1, <1>2, <1>4, <1>5, <1>6
  <2>2. Begun' = Begun
    BY <1>1, <1>3 DEF Begun
  <2> QED
    BY <1>1, <1>3, <1>4, <1>6, <2>1, <2>2, LoopGoesOn
<1>7. CASE n = 1
  <2>1. inbox # <<>> /\ l # 0
    BY <1>3, <1>4, <1>7
  <2>2. inbox' = Tail(inbox)
    <3>1. /\ Tail(inbox) \in Seq(Entries) /\ Len(Tail(inbox)) = l - 1
          /\ \A k \in 1..(l - 1) : Tail(inbox)[k] = inbox[k + 1]
      BY <1>1, <1>2, <2>1, EntryRead
    <3>2. \A s, t \in Seq(Entries) : Len(s) = Len(t) /\ (\A k \in 1..Len(s) : s[k] = t[k]) => s = t
      OBVIOUS
    <3>3. Len(inbox') = Len(Tail(inbox)) /\ \A k \in 1..Len(inbox') : inbox'[k] = Tail(inbox)[k]
      BY <1>5, <1>7, <3>1
    <3> QED
      BY <1>5, <3>1, <3>2, <3>3
  <2>3. Head(inbox) = inbox[1] /\ (Tail(inbox) = <<>> <=> l = 1)
    BY <1>1, <1>2, <2>1, EntryRead
  <2>4. Head(inbox).op.type = "falsy"
    BY <1>3, <1>7, <2>3
  <2>5. /\ reader' \in {"waiting", "given"}
        /\ reader' = "waiting" => Tail(inbox) = <<>>
        /\ reader' = "given" => Tail(inbox) # <<>>
    BY <1>3, <1>7, <2>3
  <2> QED
    BY <1>1, <2>1, <2>2, <2>4, <2>5, ReadKeeps
<1>8. CASE n = 2
  <2>1. reader' = "waiting"
    BY <1>3, <1>8
  <2>2. /\ 1 \in DOMAIN inbox /\ inbox[1].op.type = "falsy"
        /\ 2 \in DOMAIN inbox /\ inbox[2].op.type = "falsy"
    BY <1>3, <1>4, <1>8
  <2>3. ~Proper
    BY <1>1, <2>2 DEF ReaderInv, InitsAreCounted, ReadInOrder
  <2>4. ~Proper'
    BY <1>1, <2>3 DEF Proper, Received
  <2> QED
    BY <1>1, <1>5, <2>1, <2>4 DEF ReaderInv, ReaderOK, InitsAreCounted
<1> QED
  BY <1>6, <1>7, <1>8

\* Each step of the loop keeps the invariant.
LEMMA ReaderStepKeeps ==
    ASSUME CallsInv, ReaderInv, ReaderStep
    PROVE  CallsInv' /\ ReaderInv'
<1>1. /\ inited \in Nat /\ conn \in {"open", "closing", "closed"}
      /\ reader \in {"next", "waiting", "given", "init", "replying", "failed"}
      /\ reader = "given" => inbox # <<>>
  BY DEF ReaderInv, ReaderOK
<1>2. ASSUME ReaderFails, inited' \in Nat, inited <= inited', received' = received,
             UNCHANGED <<sub, subscriptions>>
      PROVE  CallsInv' /\ ReaderInv'
  <2>1. ReaderInv' /\ conn' \in {"closing", conn}
    BY <1>2, FailureKeeps
  <2>2. Elsewhere
    BY <1>1, <1>2, <2>1 DEF Elsewhere, Proper, Received
  <2> QED
    BY <1>2, <2>1, <2>2, CallsStay
<1>3. CASE ReadSubscribe
  <2>1. /\ reader = "given" /\ inbox # <<>> /\ inbox' = Tail(inbox) /\ reader' = "next"
        /\ Head(inbox).op.type = "subscribe"
        /\ sub' = Append(sub, Call(Head(inbox).op.id, Head(inbox).inits))
        /\ UNCHANGED <<conn, received, subscriptions, inited>>
    BY <1>1, <1>3 DEF ReadSubscribe, Reads
  <2>2. ReaderInv' /\ Head(inbox) \in Entries /\ (Proper => Head(inbox).inits = inited)
    BY <2>1, ReadKeeps
  <2>3. Head(inbox).op.id \in Ids
    BY <2>1, <2>2 DEF Entries, Operations
  <2>4. PICK c : c = Call(Head(inbox).op.id, Head(inbox).inits)
    OBVIOUS
  <2>5. /\ c \in Calls /\ c.pc = "opening" /\ c.nth = 0 /\ c.iter = "none"
        /\ Proper => c.inits <= inited
    <3>1. PICK id \in Ids : id = Head(inbox).op.id
      BY <2>3
    <3>2. PICK inits \in Nat : inits = Head(inbox).inits
      BY <2>2 DEF Entries
    <3>3. c = Call(id, inits)
      BY <2>4, <3>1, <3>2
    <3>4. /\ c \in Calls /\ c.pc = "opening" /\ c.nth = 0 /\ c.iter = "none" /\ c.inits = inits
      BY <3>3 DEF Call, Calls
    <3>5. Proper => inits <= inited
      BY <1>1, <2>2, <3>2
    <3> QED
      BY <3>4, <3>5
  <2> QED
    BY <2>1, <2>2, <2>4, <2>5, AppendKeeps
<1>4. CASE ReadComplete
  <2>1. /\ reader = "given" /\ inbox # <<>> /\ inbox' = Tail(inbox) /\ reader' = "next"
        /\ Head(inbox).op.type = "complete"
        /\ UNCHANGED <<conn, received, inited>>
    BY <1>1, <1>4 DEF ReadComplete, Reads
  <2>2. ReaderInv' /\ Head(inbox) \in Entries
    BY <2>1, ReadKeeps
  <2>3. PICK id \in Ids : id = Head(inbox).op.id
    BY <2>1, <2>2 DEF Entries, Operations
  <2>4. /\ sub' = IF subscriptions[id] = None THEN sub
                  ELSE [sub EXCEPT ![subscriptions[id]] = Returned(subscriptions[id])]
        /\ subscriptions' = [subscriptions EXCEPT ![id] = None]
    BY <1>4, <2>3 DEF ReadComplete
  <2> QED
    BY <2>1, <2>2, <2>4, CompleteKeeps
<1>5. CASE ReadInit
  <2>1. /\ reader = "given" /\ inbox # <<>> /\ inbox' = Tail(inbox) /\ reader' = "init"
        /\ Head(inbox).op.type = "init"
        /\ UNCHANGED <<conn, received, inited, sub, subscriptions>>
    BY <1>1, <1>5 DEF ReadInit, Reads
  <2>2. ReaderInv'
    BY <2>1, ReadKeeps
  <2>3. Elsewhere
    BY <1>1, <2>1 DEF Elsewhere, Proper, Received
  <2> QED
    BY <2>1, <2>2, <2>3, CallsStay
<1>6. CASE Initialized
  <2>1. /\ reader = "init" /\ inited' = inited + 1 /\ UNCHANGED <<received, sub, subscriptions>>
        /\ ReaderFails \/ (reader' = "replying" /\ UNCHANGED <<inbox, conn>>)
    BY <1>6 DEF Initialized
  <2>2. inited' \in Nat /\ inited <= inited'
    BY <1>1, <2>1
  <2>3. CASE reader' = "replying" /\ UNCHANGED <<inbox, conn>>
    <3>1. Begun' = Begun
      BY <2>1, <2>3 DEF Begun
    <3>2. ReaderInv'
      BY <1>1, <2>1, <2>2, <2>3, <3>1, LoopGoesOn
    <3>3. Elsewhere
      BY <2>1, <2>2, <2>3 DEF Elsewhere, Proper, Received
    <3> QED
      BY <2>1, <3>2, <3>3, CallsStay
  <2> QED
    BY <1>2, <2>1, <2>2, <2>3
<1>7. CASE InitThrows \/ ReadBad
  BY <1>1, <1>2, <1>7 DEF InitThrows, ReadBad
<1>8. CASE ReadPing
  <2>1. /\ reader = "given" /\ inbox # <<>> /\ Head(inbox).op.type = "ping"
        /\ UNCHANGED <<received, sub, subscriptions, inited>>
        /\ ReaderFails \/ (reader' = "replying" /\ inbox' = Tail(inbox) /\ UNCHANGED conn)
    BY <1>1, <1>8 DEF ReadPing, Reads
  <2>2. CASE reader' = "replying" /\ inbox' = Tail(inbox) /\ UNCHANGED conn
    <3>1. ReaderInv'
      BY <2>1, <2>2, ReadKeeps
    <3>2. Elsewhere
      BY <1>1, <2>1, <2>2 DEF Elsewhere, Proper, Received
    <3> QED
      BY <2>1, <3>1, <3>2, CallsStay
  <2> QED
    BY <1>1, <1>2, <2>1, <2>2
<1>9. CASE ReplySent
  <2>1. /\ reader = "replying" /\ UNCHANGED <<received, sub, subscriptions, inited>>
        /\ ReaderFails \/ (reader' = "next" /\ UNCHANGED <<inbox, conn>>)
    BY <1>9 DEF ReplySent
  <2>2. CASE reader' = "next" /\ UNCHANGED <<inbox, conn>>
    <3>1. Begun' = Begun
      BY <2>1, <2>2 DEF Begun
    <3>2. ReaderInv'
      BY <1>1, <2>1, <2>2, <3>1, LoopGoesOn
    <3>3. Elsewhere
      BY <1>1, <2>1, <2>2 DEF Elsewhere, Proper, Received
    <3> QED
      BY <2>1, <3>2, <3>3, CallsStay
  <2> QED
    BY <1>1, <1>2, <2>1, <2>2
<1>10. CASE Pull
  <2>1. UNCHANGED <<conn, received, sub, subscriptions, inited>>
    BY <1>10 DEF Pull
  <2>2. ReaderInv'
    BY <1>10, PullKeeps
  <2>3. Elsewhere
    BY <1>1, <2>1 DEF Elsewhere, Proper, Received
  <2> QED
    BY <2>1, <2>2, <2>3, CallsStay
<1> QED
  BY <1>3, <1>4, <1>5, <1>6, <1>7, <1>8, <1>9, <1>10 DEF ReaderStep

------------------------------------------------------------------------------
(***************************************************************************)
(* The theorems                                                            *)
(***************************************************************************)

\* The invariant has two halves.
LEMMA Halves ==
    LayerInv <=> CallsInv /\ ReaderInv
<1>1. TypeOK <=> CallsOK /\ ReaderOK
  BY DEF TypeOK, CallsOK, ReaderOK, Entries
<1> QED
  BY <1>1 DEF LayerInv, CallsInv, ReaderInv

\* It holds of a connection that has just been opened.
LEMMA LayerInit ==
    Init => LayerInv
<1> SUFFICES ASSUME Init PROVE LayerInv
  OBVIOUS
<1>1. SubIds = {} /\ DOMAIN received = {}
  BY DEF Init, SubIds
<1>2. TypeOK
  BY <1>1 DEF Init, TypeOK
<1>3. Received("init") = 0
  BY <1>1, FS_EmptySet DEF Received
<1>4. InitsAreCounted
  <2>1. inbox = <<>> /\ DOMAIN inbox = {} /\ reader = "next" /\ inited = 0
    BY DEF Init
  <2>2. ReadInOrder /\ Begun = 0
    BY <2>1 DEF ReadInOrder, Begun
  <2> QED
    BY <1>3, <2>1, <2>2 DEF InitsAreCounted
<1>5. EntriesAreNumbered /\ EndIsTold /\ InitializedFirst /\ CloseStopsAll
  BY <1>1 DEF EntriesAreNumbered, EndIsTold, InitializedFirst, CloseStopsAll
<1> QED
  BY <1>2, <1>4, <1>5 DEF LayerInv

\* Every step keeps it.
LEMMA LayerKept ==
    LayerInv /\ [Next]_vars => LayerInv'
<1> SUFFICES ASSUME CallsInv, ReaderInv, [Next]_vars
             PROVE  CallsInv' /\ ReaderInv'
  <2>1. LayerInv' <=> CallsInv' /\ ReaderInv'
    BY Halves, PTL
  <2> QED
    BY <2>1, Halves
<1>1. inited \in Nat /\ conn \in {"open", "closing", "closed"}
  BY DEF ReaderInv, ReaderOK
<1>2. CASE \E m \in Operations : Receive(m)
  <2>1. PICK m \in Operations : Receive(m)
    BY <1>2
  <2>2. ReaderInv' /\ (Proper' => Proper)
    BY <2>1, ReceiveKeeps
  <2>3. Elsewhere /\ UNCHANGED <<sub, subscriptions>>
    BY <1>1, <2>1, <2>2 DEF Receive, Elsewhere
  <2> QED
    BY <2>2, <2>3, CallsStay
<1>3. CASE Closing \/ UNCHANGED vars
  <2>1. /\ conn' \in {"open", "closing", "closed"}
        /\ conn' = "open" => conn = "open"
        /\ conn' = "closed" => conn = "closed"
        /\ UNCHANGED <<sub, subscriptions, inbox, received, reader, inited>>
    BY <1>1, <1>3 DEF Closing, vars
  <2>2. ReaderInv' /\ Proper' = Proper
    BY <2>1, ReaderStays
  <2>3. Elsewhere
    BY <1>1, <2>1, <2>2 DEF Elsewhere
  <2> QED
    BY <2>1, <2>2, <2>3, CallsStay
<1>4. CASE CloseEvent
  <2>1. conn' = "closed" /\ UNCHANGED <<inbox, received, reader, inited>>
    BY <1>4 DEF CloseEvent
  <2> QED
    BY <1>4, <2>1, ReaderStays, CloseKeeps
<1>5. CASE ReaderStep
  BY <1>5, ReaderStepKeeps
<1>6. CASE \E i \in SubIds : IteratorStep(i) \/ SendStep(i)
  <2>1. PICK i \in SubIds : IteratorStep(i) \/ SendStep(i)
    BY <1>6
  <2>2. UNCHANGED <<conn, inbox, received, reader, inited>>
    BY <2>1 DEF IteratorStep, SendStep, SubscribeReturns, Throws, Yields, Done, Sent, Left,
                ErrorSent, CompleteSent
  <2>3. ReaderInv'
    BY <1>1, <2>2, ReaderStays
  <2>4. CASE SubscribeReturns(i)
    BY <2>3, <2>4, EntryKeeps
  <2>5. CASE ~SubscribeReturns(i)
    <3>1. \/ Throws(i) \/ Yields(i) \/ Done(i) \/ Sent(i) \/ Left(i) \/ ErrorSent(i)
          \/ CompleteSent(i)
      BY <2>1, <2>5 DEF IteratorStep, SendStep
    <3>2. Moved(i)
      BY <3>1, CallMoves
    <3> QED
      BY <2>3, <3>2, MovedKeeps
  <2> QED
    BY <2>4, <2>5
<1> QED
  BY <1>2, <1>3, <1>4, <1>5, <1>6 DEF Next

\* The inductive invariant.
THEOREM LayerInvariant == Spec => []LayerInv
BY LayerInit, LayerKept, PTL DEF Spec

\* An iterator that runs on is in the map, where a complete or the close event finds it,
\* unless its client has used its id again or it came too late for the close event.
THEOREM CloseFindsAll == Spec => []CloseStopsAll
<1>1. LayerInv => CloseStopsAll
  BY DEF LayerInv
<1> QED
  BY <1>1, LayerInvariant, PTL

\* A client that is still there is told of the end of every subscription whose error can be
\* sent, and none is started before what the client asked for first, its initialization, has
\* succeeded, unless the client has sent two falsy messages.
THEOREM ClientsAreTold == Spec => []ClientIsTold
<1>1. LayerInv => ClientIsTold
  BY DEF LayerInv, ClientIsTold
<1> QED
  BY <1>1, LayerInvariant, PTL


------------------------------------------------------------------------------
(***************************************************************************)
(* The server                                                              *)
(***************************************************************************)

\* A connection stands in the ping queue of its route, once, from when its action began.
Queued ==
    /\ \A s \in Routes : \A i \in DOMAIN queue[s] :
        /\ RouteOf[queue[s][i].conn] = s
        /\ step[queue[s][i].conn] \in {"running", "over"}
        /\ \A j \in DOMAIN queue[s] : queue[s][i].conn = queue[s][j].conn => i = j
    /\ \A r \in Requests : step[r] = "over" => socket[r] # "open"

\* Who was pinged, has not answered and has not ceased to, has time left.
TimeIsLeft ==
    \A s \in Routes : \A i \in DOMAIN queue[s] :
        socket[queue[s][i].conn] = "open" /\ queue[s][i].conn \notin alive \cup mute
            => queue[s][i].age < PingTimeout

\* What is closed has no clients; dispose() goes on when what it waits for is closed.
ClosedIsEmpty ==
    /\ \A s \in Routes : servers[s] = "closed" => Sockets!Clients(s) = {}
    /\ web = "closed" => Sockets!Connected = {} /\ \A r \in Requests : step[r] # "validating"
    /\ disposing # "none" => ~acceptor
    /\ disposing \in {"web", "done"} => \A s \in awaited : servers[s] = "closed"

ServerInv ==
    Sockets!TypeOK /\ Queued /\ TimeIsLeft /\ ClosedIsEmpty /\ Sockets!ConnectionsAreLimited


\* The instance has the operators of the standard module.
LEMMA ServerCounts ==
    ASSUME NEW S
    PROVE  /\ Sockets!IsFiniteSet(S) <=> IsFiniteSet(S)
           /\ Sockets!Cardinality(S) = Cardinality(S)
<1>1. Sockets!IsFiniteSet(S) <=> IsFiniteSet(S)
  BY DEF Sockets!IsFiniteSet, IsFiniteSet
<1>2. Sockets!Cardinality(S) = Cardinality(S)
  BY Zenon DEF Sockets!Cardinality, Cardinality
<1> QED
  BY <1>1, <1>2

\* A walk of the keep-alive leaves the k that are behind it in their order, and then those
\* that were pinged.
LEMMA WalkedQueue ==
    ASSUME NEW S, NEW q \in Seq(S), NEW n \in Nat, NEW m \in Nat, NEW k \in Nat, Len(q) = m + k,
           NEW f \in Seq(S), Len(f) = n, NEW w, w = SubSeq(q, m + 1, Len(q)) \o f
    PROVE  /\ w \in Seq(S)
           /\ DOMAIN w = 1..(k + n)
           /\ \A i \in 1..k : w[i] = q[m + i]
           /\ \A i \in 1..n : w[k + i] = f[i]
<1> DEFINE rest == SubSeq(q, m + 1, Len(q))
<1>0. w = rest \o f
  OBVIOUS
<1>1. /\ rest \in Seq(S)
      /\ Len(rest) = k
      /\ \A i \in 1..k : rest[i] = q[m + i]
  <2>1. m + 1 \in 1..(Len(q) + 1) /\ Len(q) \in m..Len(q)
    OBVIOUS
  <2>2. /\ rest \in Seq(S)
        /\ Len(rest) = IF m + 1 <= Len(q) THEN Len(q) - (m + 1) + 1 ELSE 0
        /\ \A i \in 1..(Len(q) - (m + 1) + 1) : rest[i] = q[m + 1 + i - 1]
    BY <2>1, SubSeqProperties
  <2> HIDE DEF rest
  <2>3. ASSUME NEW i \in 1..k PROVE rest[i] = q[m + i]
    BY <2>2
  <2>4. Len(rest) = k
    BY <2>2
  <2> QED
    BY <2>2, <2>3, <2>4
<1> HIDE DEF rest
<1>2. /\ rest \o f \in Seq(S)
      /\ Len(rest \o f) = Len(rest) + Len(f)
      /\ \A i \in 1..(Len(rest) + Len(f)) :
            (rest \o f)[i] = IF i =< Len(rest) THEN rest[i] ELSE f[i - Len(rest)]
  <2>1. rest \in Seq(S) /\ f \in Seq(S)
    BY <1>1
  <2> QED
    BY <2>1, ConcatProperties
<1>3. w \in Seq(S) /\ Len(w) = k + n
  BY <1>0, <1>1, <1>2
<1>4. DOMAIN w = 1..(k + n)
  BY <1>3, LenProperties
<1>5. ASSUME NEW i \in 1..k PROVE w[i] = q[m + i]
  <2>1. i \in 1..(Len(rest) + Len(f)) /\ i =< Len(rest)
    BY <1>1
  <2>2. (rest \o f)[i] = rest[i]
    BY <1>2, <2>1
  <2> QED
    BY <1>0, <1>1, <2>2
<1>6. ASSUME NEW i \in 1..n PROVE w[k + i] = f[i]
  <2> DEFINE j == k + i
  <2>1. j \in 1..(Len(rest) + Len(f)) /\ ~(j =< Len(rest)) /\ j - Len(rest) = i
    BY <1>1
  <2> HIDE DEF j
  <2>2. (rest \o f)[j] = f[i]
    BY <1>2, <2>1
  <2> QED
    BY <1>0, <2>2 DEF j
<1> QED
  BY <1>3, <1>4, <1>5, <1>6

Pings == [conn : Requests, age : 0..PingTimeout]

\* What one call of the keep-alive does: n are pinged, and those before m are over.
Walks(s, n, m) ==
    /\ n \in 0..Len(queue[s]) /\ m \in n..Len(queue[s])
    /\ \A i \in 1..n : queue[s][i].age >= PingTimeout /\ queue[s][i].conn \in alive
    /\ m # n => /\ m = n + 1
                /\ queue[s][m].age >= PingTimeout
                /\ queue[s][m].conn \notin alive
    /\ alive' = alive \ {queue[s][i].conn : i \in 1..n}
    /\ queue' = [queue EXCEPT ![s] = SubSeq(queue[s], m + 1, Len(queue[s]))
                                        \o [i \in 1..n |-> [queue[s][i] EXCEPT !.age = 0]]]
    /\ socket' = IF m = n THEN socket ELSE [socket EXCEPT ![queue[s][m].conn] = "closed"]

\* A call of the keep-alive is such a walk.
LEMMA KeepAliveWalks ==
    ASSUME Sockets!TypeOK, NEW s \in Routes, Sockets!KeepAlive(s)
    PROVE  \E n, m \in Nat : Walks(s, n, m)
<1>1. queue[s] \in Seq(Pings) /\ Len(queue[s]) \in Nat /\ DOMAIN queue[s] = 1..Len(queue[s])
  BY LenProperties DEF Sockets!TypeOK, Pings
<1>2. PICK n \in 0..Len(queue[s]) :
        LET silent == Sockets!Due(s, n + 1)
            pinged == SubSeq(queue[s], 1, n)
            rest == SubSeq(queue[s], IF silent THEN n + 2 ELSE n + 1, Len(queue[s]))
        IN  /\ \A i \in 1..n : Sockets!Due(s, i) /\ Sockets!Answered(s, i)
            /\ silent => ~Sockets!Answered(s, n + 1)
            /\ alive' = alive \ Sockets!Conns(pinged)
            /\ queue' = [queue EXCEPT ![s] = rest \o Sockets!Pinged(pinged)]
            /\ Sockets!Left(IF silent THEN [socket EXCEPT ![queue[s][n + 1].conn] = "closed"]
                            ELSE socket)
  BY DEF Sockets!KeepAlive
<1> DEFINE silent == Sockets!Due(s, n + 1)
           m == IF silent THEN n + 1 ELSE n
           pinged == SubSeq(queue[s], 1, n)
<1>3. n \in Nat /\ n <= Len(queue[s])
  BY <1>1
<1>4. m \in n..Len(queue[s]) /\ m \in Nat
  BY <1>1, <1>3 DEF Sockets!Due
<1>5. pinged \in Seq(Pings) /\ Len(pinged) = n /\ \A i \in 1..n : pinged[i] = queue[s][i]
  BY <1>1, <1>3, SubSeqProperties
<1>6. DOMAIN pinged = 1..n
  BY <1>5, LenProperties
<1> HIDE DEF pinged
<1>7. Sockets!Conns(pinged) = {queue[s][i].conn : i \in 1..n}
  BY <1>5, <1>6 DEF Sockets!Conns
<1>8. Sockets!Pinged(pinged) = [i \in 1..n |-> [queue[s][i] EXCEPT !.age = 0]]
  BY <1>5, <1>6 DEF Sockets!Pinged
<1>9. (IF silent THEN n + 2 ELSE n + 1) = m + 1
  BY <1>3
<1>10. \A i \in 1..n : queue[s][i].age >= PingTimeout /\ queue[s][i].conn \in alive
  BY <1>2 DEF Sockets!Due, Sockets!Answered
<1>11. m # n => m = n + 1 /\ queue[s][m].age >= PingTimeout /\ queue[s][m].conn \notin alive
  BY <1>2 DEF Sockets!Due, Sockets!Answered
<1>12. socket' = IF m = n THEN socket ELSE [socket EXCEPT ![queue[s][m].conn] = "closed"]
  <2>1. socket' = IF silent THEN [socket EXCEPT ![queue[s][n + 1].conn] = "closed"] ELSE socket
    BY <1>2 DEF Sockets!Left
  <2> HIDE DEF silent
  <2>2. CASE silent
    <3>1. m = n + 1 /\ m # n
      BY <1>3, <2>2
    <3> QED
      BY <2>1, <2>2, <3>1
  <2>3. CASE ~silent
    BY <2>1, <2>3
  <2> QED
    BY <2>2, <2>3
<1>13. queue' = [queue EXCEPT ![s] = SubSeq(queue[s], m + 1, Len(queue[s]))
                                        \o [i \in 1..n |-> [queue[s][i] EXCEPT !.age = 0]]]
  BY <1>2, <1>8, <1>9 DEF pinged
<1>14. alive' = alive \ {queue[s][i].conn : i \in 1..n}
  BY <1>2, <1>7 DEF pinged
<1> HIDE DEF m
<1>15. Walks(s, n, m)
  BY <1>4, <1>10, <1>11, <1>12, <1>13, <1>14 DEF Walks
<1> QED
  BY <1>3, <1>4, <1>15

\* What such a walk leaves in the queue: the k it has not come to, and what it has pinged.
Leaves(s, n, m, k) ==
    /\ Len(queue[s]) = m + k
    /\ queue' \in [Routes -> Seq(Pings)]
    /\ \A t \in Routes \ {s} : queue'[t] = queue[t]
    /\ DOMAIN queue'[s] = 1..(k + n)
    /\ \A i \in 1..k : queue'[s][i] = queue[s][m + i]
    /\ \A i \in 1..n : queue'[s][k + i] = [queue[s][i] EXCEPT !.age = 0]

\* So it does.
LEMMA WalkLeaves ==
    ASSUME Sockets!TypeOK, NEW s \in Routes, NEW n \in Nat, NEW m \in Nat, Walks(s, n, m)
    PROVE  \E k \in Nat : Leaves(s, n, m, k)
<1> DEFINE q == queue[s]
           f == [i \in 1..n |-> [q[i] EXCEPT !.age = 0]]
           w == SubSeq(q, m + 1, Len(q)) \o f
           k == Len(q) - m
<1>1. queue \in [Routes -> Seq(Pings)] /\ PingTimeout \in Nat
  BY WebSocketsAssumption DEF Sockets!TypeOK, Pings, Sockets!SocketsAssumption
<1>2. q \in Seq(Pings) /\ Len(q) \in Nat /\ n <= m /\ m <= Len(q)
  BY <1>1, LenProperties DEF Walks
<1>3. queue' = [queue EXCEPT ![s] = w]
  BY DEF Walks
<1>4. queue'[s] = w /\ \A t \in Routes \ {s} : queue'[t] = queue[t]
  BY <1>1, <1>3
<1>5. k \in Nat /\ Len(q) = m + k
  BY <1>2
<1> HIDE DEF q, k
<1>6. \A i \in 1..Len(q) : q[i] \in Pings
  BY <1>2, ElementOfSeq
<1>7. \A e \in Pings : [e EXCEPT !.age = 0] \in Pings
  BY <1>1 DEF Pings
<1>8. f \in Seq(Pings) /\ Len(f) = n /\ \A i \in 1..n : f[i] = [q[i] EXCEPT !.age = 0]
  BY <1>2, <1>6, <1>7
<1> HIDE DEF f
<1>9. w = SubSeq(q, m + 1, Len(q)) \o f
  OBVIOUS
<1> HIDE DEF w
<1>10. /\ w \in Seq(Pings)
       /\ DOMAIN w = 1..(k + n)
       /\ \A i \in 1..k : w[i] = q[m + i]
       /\ \A i \in 1..n : w[k + i] = f[i]
  <2>1. /\ q \in Seq(Pings) /\ k \in Nat /\ Len(q) = m + k /\ f \in Seq(Pings) /\ Len(f) = n
        /\ w = SubSeq(q, m + 1, Len(q)) \o f
    BY <1>2, <1>5, <1>8, <1>9
  <2>2. w \in Seq(Pings)
    BY <2>1, WalkedQueue
  <2>3. DOMAIN w = 1..(k + n)
    BY <2>1, WalkedQueue
  <2>4. ASSUME NEW i \in 1..k PROVE w[i] = q[m + i]
    BY <2>1, WalkedQueue
  <2>5. ASSUME NEW i \in 1..n PROVE w[k + i] = f[i]
    BY <2>1, WalkedQueue
  <2> QED
    BY <2>2, <2>3, <2>4, <2>5
<1>11. queue' \in [Routes -> Seq(Pings)]
  BY <1>1, <1>3, <1>10
<1>12. /\ DOMAIN queue'[s] = 1..(k + n)
       /\ \A i \in 1..k : queue'[s][i] = q[m + i]
  BY <1>4, <1>10
<1>13. ASSUME NEW i \in 1..n PROVE queue'[s][k + i] = [q[i] EXCEPT !.age = 0]
  BY <1>4, <1>8, <1>10
<1> QED
  BY <1>4, <1>5, <1>11, <1>12, <1>13 DEF q, Leaves

\* The state has its type in every step.
LEMMA ServerTypes ==
    ASSUME Sockets!TypeOK, Sockets!Next
    PROVE  Sockets!TypeOK'
<1> DEFINE Rest ==
        /\ acceptor \in BOOLEAN
        /\ servers \in [Routes -> {"none", "running", "closing", "closed"}]
        /\ step \in [Requests -> {"none", "validating", "loading", "running", "over", "refused"}]
        /\ socket \in [Requests -> {"none", "open", "closing", "closed"}]
        /\ alive \subseteq Requests
        /\ mute \subseteq Requests
        /\ web \in {"listening", "closing", "closed"}
        /\ disposing \in {"none", "servers", "web", "done"}
        /\ awaited \subseteq Routes
<1>1. Rest /\ queue \in [Routes -> Seq(Pings)]
  BY DEF Sockets!TypeOK, Pings
<1>2. ASSUME Rest', queue' \in [Routes -> Seq(Pings)] PROVE Sockets!TypeOK'
  BY <1>2 DEF Sockets!TypeOK, Pings
<1>3. RouteOf \in [Requests -> Routes \cup {NoRoute}] /\ PingTimeout \in Nat \ {0}
  BY WebSocketsAssumption DEF Sockets!SocketsAssumption
<1>4. ASSUME NEW r \in Requests, Sockets!Upgrade(r) \/ Sockets!Validated(r)
      PROVE  Rest' /\ queue' = queue
  BY <1>1, <1>3, <1>4 DEF Sockets!Upgrade, Sockets!Validated, Sockets!Refuses,
                          Sockets!ShakesHands, Sockets!disposalVars
<1>5. ASSUME NEW r \in Requests, Sockets!Accept(r)
      PROVE  Rest' /\ queue' \in [Routes -> Seq(Pings)]
  <2>1. [conn |-> r, age |-> 0] \in Pings
    BY <1>3 DEF Pings
  <2>2. \A q \in Seq(Pings) : Append(q, [conn |-> r, age |-> 0]) \in Seq(Pings)
    BY <2>1, AppendProperties
  <2>3. queue' \in [Routes -> Seq(Pings)]
    <3>1. \/ queue' = queue
          \/ queue' = [queue EXCEPT ![RouteOf[r]] = Append(@, [conn |-> r, age |-> 0])]
      BY <1>5 DEF Sockets!Accept
    <3>2. \A s \in Routes : queue[s] \in Seq(Pings)
      BY <1>1
    <3>3. CASE RouteOf[r] \in Routes
      <4>1. Append(queue[RouteOf[r]], [conn |-> r, age |-> 0]) \in Seq(Pings)
        BY <2>2, <3>2, <3>3
      <4> QED
        BY <1>1, <3>1, <4>1
    <3>4. CASE RouteOf[r] \notin Routes
      BY <1>1, <3>1, <3>4
    <3> QED
      BY <3>3, <3>4
  <2>4. /\ UNCHANGED <<acceptor, servers, mute, web, disposing, awaited>>
        /\ alive' \subseteq Requests
    BY <1>1, <1>5 DEF Sockets!Accept, Sockets!disposalVars
  <2>5. step' \in [Requests -> {"none", "validating", "loading", "running", "over", "refused"}]
    <3>1. \/ step' = [step EXCEPT ![r] = "over"]
          \/ step' = [step EXCEPT ![r] = "running"]
      BY <1>5 DEF Sockets!Accept
    <3> QED
      BY <1>1, <3>1
  <2>6. socket' \in [Requests -> {"none", "open", "closing", "closed"}]
    <3>1. socket' = socket \/ socket' = Sockets!Closing(r)
      BY <1>5 DEF Sockets!Accept
    <3> QED
      BY <1>1, <3>1 DEF Sockets!Closing
  <2> QED
    BY <1>1, <2>3, <2>4, <2>5, <2>6
<1>6. ASSUME NEW r \in Requests,
             Sockets!ActionEnds(r) \/ Sockets!Closed(r) \/ Sockets!Mute(r) \/ Sockets!Pong(r)
      PROVE  Rest' /\ queue' = queue
  BY <1>1, <1>6 DEF Sockets!ActionEnds, Sockets!Closing, Sockets!Closed, Sockets!Left,
                    Sockets!Mute, Sockets!Pong, Sockets!disposalVars, Sockets!serverVars
<1>7. ASSUME NEW s \in Routes, Sockets!KeepAlive(s)
      PROVE  Rest' /\ queue' \in [Routes -> Seq(Pings)]
  <2>1. PICK n \in Nat, m \in Nat : Walks(s, n, m)
    BY <1>7, KeepAliveWalks
  <2>2. queue' \in [Routes -> Seq(Pings)]
    BY <2>1, WalkLeaves DEF Leaves
  <2>3. /\ servers' \in [Routes -> {"none", "running", "closing", "closed"}]
        /\ mute' \subseteq Requests
    BY <1>1, <1>7 DEF Sockets!KeepAlive, Sockets!Left
  <2>4. socket' \in [Requests -> {"none", "open", "closing", "closed"}]
    BY <1>1, <2>1 DEF Walks
  <2>5. alive' \subseteq Requests
    BY <1>1, <2>1 DEF Walks
  <2> QED
    BY <1>1, <1>7, <2>2, <2>3, <2>4, <2>5 DEF Sockets!KeepAlive, Sockets!disposalVars
<1>8. ASSUME Sockets!TimePasses
      PROVE  Rest' /\ queue' \in [Routes -> Seq(Pings)]
  <2>1. ASSUME NEW s \in Routes PROVE queue'[s] \in Seq(Pings)
    <3>1. queue'[s] = [i \in DOMAIN queue[s] |->
                        [queue[s][i] EXCEPT !.age = IF @ < PingTimeout THEN @ + 1 ELSE @]]
      BY <1>8 DEF Sockets!TimePasses
    <3>2. Len(queue[s]) \in Nat /\ DOMAIN queue[s] = 1..Len(queue[s])
      BY <1>1, LenProperties
    <3>3. \A i \in 1..Len(queue[s]) : queue[s][i] \in Pings
      BY <1>1, ElementOfSeq
    <3>4. \A e \in Pings :
            [e EXCEPT !.age = IF @ < PingTimeout THEN @ + 1 ELSE @] \in Pings
      BY <1>3 DEF Pings
    <3>5. queue'[s] \in [1..Len(queue[s]) -> Pings]
      BY <3>1, <3>2, <3>3, <3>4
    <3> QED
      BY <3>2, <3>5, IsASeq
  <2>2. queue' \in [Routes -> Seq(Pings)]
    BY <1>8, <2>1 DEF Sockets!TimePasses
  <2> QED
    BY <1>1, <1>8, <2>2 DEF Sockets!TimePasses, Sockets!disposalVars
<1>9. ASSUME Sockets!Dispose \/ Sockets!ServersClosed \/ Sockets!WebDisposed
             \/ Sockets!WebClosed \/ Sockets!Disposed
      PROVE  Rest' /\ queue' = queue
  <2>1. CASE Sockets!Dispose
    BY <1>1, <2>1 DEF Sockets!Dispose, Sockets!serverVars
  <2>2. CASE Sockets!ServersClosed
    BY <1>1, <2>2 DEF Sockets!ServersClosed, Sockets!serverVars
  <2>3. CASE Sockets!WebDisposed
    BY <1>1, <2>3 DEF Sockets!WebDisposed, Sockets!serverVars
  <2>4. CASE Sockets!WebClosed
    BY <1>1, <2>4 DEF Sockets!WebClosed, Sockets!serverVars
  <2>5. CASE Sockets!Disposed
    BY <1>1, <2>5 DEF Sockets!Disposed, Sockets!serverVars
  <2> QED
    BY <1>9, <2>1, <2>2, <2>3, <2>4, <2>5
<1> HIDE DEF Rest
<1> QED
  BY <1>1, <1>2, <1>4, <1>5, <1>6, <1>7, <1>8, <1>9 DEF Sockets!Next

\* Each entry that such a walk leaves was one before: k places further on, or pinged.
LEMMA WalkOrigins ==
    ASSUME Sockets!TypeOK, NEW s \in Routes, NEW n \in Nat, NEW m \in Nat, Walks(s, n, m)
    PROVE  \E k \in Nat : \A i \in DOMAIN queue'[s] :
            \E o \in DOMAIN queue[s] :
                /\ queue'[s][i].conn = queue[s][o].conn
                /\ \/ o = m + i /\ o > m /\ queue'[s][i].age = queue[s][o].age
                   \/ i = k + o /\ o <= n /\ i > k /\ queue'[s][i].age = 0
<1>0. PICK k \in Nat : Leaves(s, n, m, k)
  BY WalkLeaves
<1>1. /\ Len(queue[s]) = m + k
      /\ DOMAIN queue'[s] = 1..(k + n)
      /\ \A i \in 1..k : queue'[s][i] = queue[s][m + i]
      /\ \A i \in 1..n : queue'[s][k + i] = [queue[s][i] EXCEPT !.age = 0]
  BY <1>0 DEF Leaves
<1>2. queue[s] \in Seq(Pings) /\ n <= m
  <2>1. queue[s] \in Seq(Pings)
    BY DEF Sockets!TypeOK, Pings
  <2>2. Len(queue[s]) \in Nat
    BY <2>1, LenProperties
  <2> QED
    BY <2>1, <2>2 DEF Walks
<1>3. DOMAIN queue[s] = 1..(m + k) /\ \A o \in 1..(m + k) : queue[s][o] \in Pings
  BY <1>1, <1>2, LenProperties, ElementOfSeq
<1>4. ASSUME NEW i \in 1..(k + n)
      PROVE  \E o \in DOMAIN queue[s] :
                /\ queue'[s][i].conn = queue[s][o].conn
                /\ \/ o = m + i /\ o > m /\ queue'[s][i].age = queue[s][o].age
                   \/ i = k + o /\ o <= n /\ i > k /\ queue'[s][i].age = 0
  <2>1. CASE i <= k
    <3>1. m + i \in DOMAIN queue[s] /\ m + i > m /\ i \in 1..k
      BY <1>3, <2>1
    <3>2. queue'[s][i] = queue[s][m + i]
      BY <1>1, <3>1
    <3> QED
      BY <3>1, <3>2
  <2>2. CASE ~(i <= k)
    <3>1. PICK o \in Nat : o = i - k
      BY <2>2
    <3>2. o \in 1..n /\ i = k + o /\ i > k
      BY <2>2, <3>1
    <3>3. o \in DOMAIN queue[s] /\ queue[s][o] \in Pings
      BY <1>2, <1>3, <3>2
    <3>4. queue'[s][i] = [queue[s][o] EXCEPT !.age = 0]
      BY <1>1, <3>2
    <3>5. queue'[s][i].conn = queue[s][o].conn /\ queue'[s][i].age = 0
      BY <3>3, <3>4 DEF Pings
    <3> QED
      BY <3>2, <3>3, <3>5
  <2> QED
    BY <2>1, <2>2
<1> QED
  BY <1>1, <1>4

\* Time leaves the entries where they are.
LEMMA TimeKeepsQueues ==
    ASSUME Sockets!TypeOK, Sockets!TimePasses, NEW s \in Routes
    PROVE  /\ DOMAIN queue'[s] = DOMAIN queue[s]
           /\ \A i \in DOMAIN queue[s] :
                /\ queue'[s][i].conn = queue[s][i].conn
                /\ queue[s][i].age \in Nat
                /\ queue'[s][i].age = IF queue[s][i].age < PingTimeout
                                      THEN queue[s][i].age + 1 ELSE queue[s][i].age
<1>1. queue[s] \in Seq(Pings) /\ PingTimeout \in Nat
  BY WebSocketsAssumption DEF Sockets!TypeOK, Pings, Sockets!SocketsAssumption
<1>2. queue'[s] = [i \in DOMAIN queue[s] |->
                        [queue[s][i] EXCEPT !.age = IF @ < PingTimeout THEN @ + 1 ELSE @]]
  BY DEF Sockets!TimePasses
<1>3. ASSUME NEW i \in DOMAIN queue[s]
      PROVE  /\ queue'[s][i].conn = queue[s][i].conn
             /\ queue[s][i].age \in Nat
             /\ queue'[s][i].age = IF queue[s][i].age < PingTimeout
                                   THEN queue[s][i].age + 1 ELSE queue[s][i].age
  <2>1. queue[s][i] \in Pings
    BY <1>1, ElementOfSeq, LenProperties
  <2> QED
    BY <1>1, <1>2, <2>1 DEF Pings
<1> QED
  BY <1>2, <1>3

\* Entries stay those of connections whose action has begun, once each.
LEMMA QueuedStays ==
    ASSUME Sockets!TypeOK, Queued, Sockets!Next
    PROVE  Queued'
<1>1. /\ step \in [Requests -> {"none", "validating", "loading", "running", "over", "refused"}]
      /\ socket \in [Requests -> {"none", "open", "closing", "closed"}]
      /\ queue \in [Routes -> Seq(Pings)]
      /\ RouteOf \in [Requests -> Routes \cup {NoRoute}] /\ NoRoute \notin Routes
  BY WebSocketsAssumption DEF Sockets!TypeOK, Sockets!SocketsAssumption, Pings
<1>2. \A s \in Routes : \A i \in DOMAIN queue[s] : queue[s][i].conn \in Requests
  <2>1. ASSUME NEW s \in Routes, NEW i \in DOMAIN queue[s] PROVE queue[s][i] \in Pings
    BY <1>1, ElementOfSeq, LenProperties
  <2> QED
    BY <2>1 DEF Pings
<1>3. ASSUME queue' = queue,
             \A r \in Requests : step[r] \in {"running", "over"} => step'[r] \in {"running", "over"},
             \A r \in Requests : step'[r] = "over" => socket'[r] # "open"
      PROVE  Queued'
  BY <1>2, <1>3 DEF Queued
<1>4. ASSUME NEW r \in Requests, Sockets!Upgrade(r) \/ Sockets!Validated(r) PROVE Queued'
  <2>1. queue' = queue
    BY <1>4 DEF Sockets!Upgrade, Sockets!Validated
  <2>2. \A q \in Requests :
            \/ step'[q] = step[q] /\ socket'[q] = socket[q]
            \/ step[q] \notin {"running", "over"} /\ step'[q] # "over"
    BY <1>1, <1>4 DEF Sockets!Upgrade, Sockets!Validated, Sockets!Refuses, Sockets!ShakesHands
  <2> QED
    BY <1>3, <2>1, <2>2 DEF Queued
<1>5. ASSUME NEW r \in Requests, Sockets!Accept(r) PROVE Queued'
  <2>1. step[r] = "loading" /\ step'[r] \in {"running", "over"}
        /\ \A q \in Requests \ {r} : step'[q] = step[q] /\ socket'[q] = socket[q]
    BY <1>1, <1>5 DEF Sockets!Accept, Sockets!Closing
  <2>2. step'[r] = "over" => socket'[r] # "open"
    BY <1>1, <1>5 DEF Sockets!Accept, Sockets!Closing
  <2>3. \A q \in Requests : step'[q] = "over" => socket'[q] # "open"
    BY <2>1, <2>2 DEF Queued
  <2>4. CASE queue' = queue
    BY <1>3, <2>1, <2>3, <2>4
  <2>5. CASE queue' # queue
    <3> DEFINE s == RouteOf[r]
               e == [conn |-> r, age |-> 0]
    <3>1. queue' = [queue EXCEPT ![s] = Append(@, e)]
      BY <1>5, <2>5 DEF Sockets!Accept
    <3>2. s \in Routes
      BY <1>1, <2>5, <3>1
    <3>3. queue'[s] = Append(queue[s], e) /\ \A t \in Routes \ {s} : queue'[t] = queue[t]
      BY <1>1, <3>1, <3>2
    <3>4. queue[s] \in Seq(Pings) /\ Len(queue[s]) \in Nat /\ DOMAIN queue[s] = 1..Len(queue[s])
      BY <1>1, <3>2, LenProperties
    <3>5. \A t \in Routes : \A i \in DOMAIN queue[t] : queue[t][i].conn # r
      BY <2>1 DEF Queued
    <3>6. /\ DOMAIN queue'[s] = 1..(Len(queue[s]) + 1)
          /\ \A i \in 1..Len(queue[s]) : queue'[s][i] = queue[s][i]
          /\ queue'[s][Len(queue[s]) + 1].conn = r
      BY <3>3, <3>4
    <3>7. ASSUME NEW i \in DOMAIN queue'[s]
          PROVE  \/ i \in DOMAIN queue[s] /\ queue'[s][i] = queue[s][i]
                 \/ i = Len(queue[s]) + 1 /\ queue'[s][i].conn = r
      BY <3>4, <3>6
    <3>8. \A i \in DOMAIN queue'[s] :
            /\ RouteOf[queue'[s][i].conn] = s
            /\ step'[queue'[s][i].conn] \in {"running", "over"}
            /\ \A j \in DOMAIN queue'[s] : queue'[s][i].conn = queue'[s][j].conn => i = j
      BY <1>2, <2>1, <3>2, <3>5, <3>7 DEF Queued
    <3>9. \A t \in Routes \ {s} : \A i \in DOMAIN queue'[t] :
            /\ RouteOf[queue'[t][i].conn] = t
            /\ step'[queue'[t][i].conn] \in {"running", "over"}
            /\ \A j \in DOMAIN queue'[t] : queue'[t][i].conn = queue'[t][j].conn => i = j
      BY <1>2, <2>1, <3>3, <3>5 DEF Queued
    <3> QED
      BY <2>3, <3>8, <3>9 DEF Queued
  <2> QED
    BY <2>4, <2>5
<1>6. ASSUME NEW r \in Requests,
             Sockets!ActionEnds(r) \/ Sockets!Closed(r) \/ Sockets!Mute(r) \/ Sockets!Pong(r)
      PROVE  Queued'
  <2>1. queue' = queue
    BY <1>6 DEF Sockets!ActionEnds, Sockets!Closed, Sockets!Mute, Sockets!Pong, Sockets!serverVars
  <2>2. \A q \in Requests :
            /\ step[q] \in {"running", "over"} => step'[q] \in {"running", "over"}
            /\ step'[q] = "over" => socket'[q] # "open"
    BY <1>1, <1>6 DEF Sockets!ActionEnds, Sockets!Closed, Sockets!Left, Sockets!Closing,
                      Sockets!Mute, Sockets!Pong, Queued
  <2> QED
    BY <1>3, <2>1, <2>2
<1>7. ASSUME NEW s \in Routes, Sockets!KeepAlive(s) PROVE Queued'
  <2>1. PICK n \in Nat, m \in Nat : Walks(s, n, m)
    BY <1>7, KeepAliveWalks
  <2>2. PICK k \in Nat : \A i \in DOMAIN queue'[s] :
            \E o \in DOMAIN queue[s] :
                /\ queue'[s][i].conn = queue[s][o].conn
                /\ \/ o = m + i /\ o > m /\ queue'[s][i].age = queue[s][o].age
                   \/ i = k + o /\ o <= n /\ i > k /\ queue'[s][i].age = 0
    BY <2>1, WalkOrigins
  <2>3. /\ step' = step
        /\ \A q \in Requests : socket'[q] = socket[q] \/ socket'[q] = "closed"
    BY <1>1, <1>7, <2>1 DEF Sockets!KeepAlive, Walks
  <2>4. n <= m /\ \A t \in Routes \ {s} : queue'[t] = queue[t]
    BY <1>1, <2>1, LenProperties DEF Walks
  <2>5. ASSUME NEW i \in DOMAIN queue'[s]
        PROVE  /\ RouteOf[queue'[s][i].conn] = s
               /\ step'[queue'[s][i].conn] \in {"running", "over"}
    BY <2>2, <2>3 DEF Queued
  <2>6. ASSUME NEW i \in DOMAIN queue'[s], NEW j \in DOMAIN queue'[s],
               queue'[s][i].conn = queue'[s][j].conn
        PROVE  i = j
    <3>1. PICK o \in DOMAIN queue[s] :
                /\ queue'[s][i].conn = queue[s][o].conn
                /\ (o = m + i /\ o > m) \/ (i = k + o /\ o <= n)
      BY <2>2
    <3>2. PICK p \in DOMAIN queue[s] :
                /\ queue'[s][j].conn = queue[s][p].conn
                /\ (p = m + j /\ p > m) \/ (j = k + p /\ p <= n)
      BY <2>2
    <3>3. o = p
      <4>1. queue[s][o].conn = queue[s][p].conn
        BY <2>6, <3>1, <3>2
      <4> QED
        BY <4>1 DEF Queued
    <3>4. DOMAIN queue'[s] \subseteq Nat /\ DOMAIN queue[s] \subseteq Nat
      <4>1. queue'[s] \in Seq(Pings)
        BY <2>1, WalkLeaves DEF Leaves
      <4> QED
        BY <1>1, <4>1, LenProperties
    <3> QED
      BY <2>4, <3>1, <3>2, <3>3, <3>4
  <2>7. \A t \in Routes \ {s} : \A i \in DOMAIN queue'[t] :
            /\ RouteOf[queue'[t][i].conn] = t
            /\ step'[queue'[t][i].conn] \in {"running", "over"}
            /\ \A j \in DOMAIN queue'[t] : queue'[t][i].conn = queue'[t][j].conn => i = j
    BY <2>3, <2>4 DEF Queued
  <2> QED
    BY <2>3, <2>5, <2>6, <2>7 DEF Queued
<1>8. ASSUME Sockets!TimePasses PROVE Queued'
  <2>1. step' = step /\ socket' = socket
    BY <1>8 DEF Sockets!TimePasses
  <2>2. \A s \in Routes :
            /\ DOMAIN queue'[s] = DOMAIN queue[s]
            /\ \A i \in DOMAIN queue[s] : queue'[s][i].conn = queue[s][i].conn
    BY <1>8, TimeKeepsQueues
  <2> QED
    BY <2>1, <2>2 DEF Queued
<1>9. ASSUME Sockets!Dispose \/ Sockets!ServersClosed \/ Sockets!WebDisposed
             \/ Sockets!WebClosed \/ Sockets!Disposed
      PROVE  Queued'
  <2>1. queue' = queue /\ step' = step /\ socket' = socket
    BY <1>9 DEF Sockets!Dispose, Sockets!ServersClosed, Sockets!WebDisposed,
                Sockets!WebClosed, Sockets!Disposed, Sockets!serverVars
  <2> QED
    BY <1>3, <2>1 DEF Queued
<1> QED
  BY <1>4, <1>5, <1>6, <1>7, <1>8, <1>9 DEF Sockets!Next


\* Whoever may still answer has time to.
LEMMA TimeStaysLeft ==
    ASSUME Sockets!TypeOK, Queued, TimeIsLeft, Sockets!Next
    PROVE  TimeIsLeft'
<1>1. /\ step \in [Requests -> {"none", "validating", "loading", "running", "over", "refused"}]
      /\ socket \in [Requests -> {"none", "open", "closing", "closed"}]
      /\ queue \in [Routes -> Seq(Pings)]
      /\ RouteOf \in [Requests -> Routes \cup {NoRoute}] /\ NoRoute \notin Routes
      /\ PingTimeout \in Nat \ {0}
  BY WebSocketsAssumption DEF Sockets!TypeOK, Sockets!SocketsAssumption, Pings
<1>2. \A s \in Routes : \A i \in DOMAIN queue[s] :
        queue[s][i].conn \in Requests /\ queue[s][i].age \in 0..PingTimeout
  <2>1. ASSUME NEW s \in Routes, NEW i \in DOMAIN queue[s] PROVE queue[s][i] \in Pings
    BY <1>1, ElementOfSeq, LenProperties
  <2> QED
    BY <2>1 DEF Pings
<1> DEFINE Silent(r) == socket[r] = "open" /\ r \notin alive \cup mute
           SilentNow(r) == socket'[r] = "open" /\ r \notin alive' \cup mute'
<1>3. ASSUME queue' = queue,
             \A r \in Requests : step[r] \in {"running", "over"} /\ SilentNow(r) => Silent(r)
      PROVE  TimeIsLeft'
  BY <1>2, <1>3 DEF TimeIsLeft, Queued
<1>4. ASSUME NEW r \in Requests, Sockets!Upgrade(r) \/ Sockets!Validated(r) PROVE TimeIsLeft'
  <2>1. queue' = queue /\ alive' = alive /\ mute' = mute
    BY <1>4 DEF Sockets!Upgrade, Sockets!Validated
  <2>2. \A q \in Requests : socket'[q] = socket[q] \/ step[q] \notin {"running", "over"}
    BY <1>1, <1>4 DEF Sockets!Upgrade, Sockets!Validated, Sockets!Refuses, Sockets!ShakesHands
  <2> QED
    BY <1>3, <2>1, <2>2
<1>5. ASSUME NEW r \in Requests, Sockets!Accept(r) PROVE TimeIsLeft'
  <2>1. step[r] = "loading" /\ mute' = mute
        /\ \A q \in Requests \ {r} : socket'[q] = socket[q] /\ (q \in alive' <=> q \in alive)
    BY <1>1, <1>5 DEF Sockets!Accept, Sockets!Closing
  <2>2. CASE queue' = queue
    BY <1>3, <2>1, <2>2
  <2>3. CASE queue' # queue
    <3> DEFINE s == RouteOf[r]
               e == [conn |-> r, age |-> 0]
    <3>1. queue' = [queue EXCEPT ![s] = Append(@, e)] /\ r \in alive'
      BY <1>5, <2>3 DEF Sockets!Accept
    <3>2. s \in Routes
      BY <1>1, <2>3, <3>1
    <3>3. queue'[s] = Append(queue[s], e) /\ \A t \in Routes \ {s} : queue'[t] = queue[t]
      BY <1>1, <3>1, <3>2
    <3>4. queue[s] \in Seq(Pings) /\ Len(queue[s]) \in Nat /\ DOMAIN queue[s] = 1..Len(queue[s])
      BY <1>1, <3>2, LenProperties
    <3>5. \A t \in Routes : \A i \in DOMAIN queue[t] : queue[t][i].conn # r
      BY <2>1 DEF Queued
    <3>6. ASSUME NEW i \in DOMAIN queue'[s]
          PROVE  \/ i \in DOMAIN queue[s] /\ queue'[s][i] = queue[s][i]
                 \/ queue'[s][i].conn = r
      <4>1. /\ DOMAIN queue'[s] = 1..(Len(queue[s]) + 1)
            /\ \A j \in 1..Len(queue[s]) : queue'[s][j] = queue[s][j]
            /\ queue'[s][Len(queue[s]) + 1].conn = r
        BY <3>3, <3>4
      <4> QED
        BY <3>4, <4>1
    <3>7. \A i \in DOMAIN queue'[s] :
            SilentNow(queue'[s][i].conn) => queue'[s][i].age < PingTimeout
      BY <1>2, <2>1, <3>1, <3>2, <3>5, <3>6 DEF TimeIsLeft
    <3>8. \A t \in Routes \ {s} : \A i \in DOMAIN queue'[t] :
            SilentNow(queue'[t][i].conn) => queue'[t][i].age < PingTimeout
      BY <1>2, <2>1, <3>3, <3>5 DEF TimeIsLeft
    <3> QED
      BY <3>7, <3>8 DEF TimeIsLeft
  <2> QED
    BY <2>2, <2>3
<1>6. ASSUME NEW r \in Requests,
             Sockets!ActionEnds(r) \/ Sockets!Closed(r) \/ Sockets!Mute(r) \/ Sockets!Pong(r)
      PROVE  TimeIsLeft'
  <2>1. queue' = queue
    BY <1>6 DEF Sockets!ActionEnds, Sockets!Closed, Sockets!Mute, Sockets!Pong, Sockets!serverVars
  <2>2. ASSUME NEW q \in Requests PROVE SilentNow(q) => Silent(q)
    BY <1>1, <1>6 DEF Sockets!ActionEnds, Sockets!Closed, Sockets!Left, Sockets!Closing,
                      Sockets!Mute, Sockets!Pong, Sockets!serverVars
  <2> QED
    BY <1>3, <2>1, <2>2
<1>7. ASSUME NEW s \in Routes, Sockets!KeepAlive(s) PROVE TimeIsLeft'
  <2>1. PICK n \in Nat, m \in Nat : Walks(s, n, m)
    BY <1>7, KeepAliveWalks
  <2>2. PICK k \in Nat : \A i \in DOMAIN queue'[s] :
            \E o \in DOMAIN queue[s] :
                /\ queue'[s][i].conn = queue[s][o].conn
                /\ \/ o = m + i /\ o > m /\ queue'[s][i].age = queue[s][o].age
                   \/ i = k + o /\ o <= n /\ i > k /\ queue'[s][i].age = 0
    BY <2>1, WalkOrigins
  <2>3. Len(queue[s]) \in Nat /\ DOMAIN queue[s] = 1..Len(queue[s])
    BY <1>1, LenProperties
  <2>4. n <= m /\ m <= Len(queue[s]) /\ \A t \in Routes \ {s} : queue'[t] = queue[t]
    BY <1>1, <2>1, <2>3 DEF Walks
  <2>5. \A q \in Requests :
            /\ socket'[q] = "open" => socket[q] = "open"
            /\ q \in mute /\ socket'[q] = "open" => q \in mute'
    BY <1>1, <1>7, <2>1 DEF Sockets!KeepAlive, Sockets!Left, Walks
  <2>6. alive' = alive \ {queue[s][i].conn : i \in 1..n}
    BY <2>1 DEF Walks
  <2>7. ASSUME NEW i \in DOMAIN queue'[s], SilentNow(queue'[s][i].conn)
        PROVE  queue'[s][i].age < PingTimeout
    <3>1. PICK o \in DOMAIN queue[s] :
                /\ queue'[s][i].conn = queue[s][o].conn
                /\ \/ o = m + i /\ o > m /\ queue'[s][i].age = queue[s][o].age
                   \/ i = k + o /\ o <= n /\ i > k /\ queue'[s][i].age = 0
      BY <2>2
    <3>2. CASE queue'[s][i].age = 0
      BY <1>1, <3>2
    <3>3. CASE o > m /\ queue'[s][i].age = queue[s][o].age
      <4>1. ASSUME NEW j \in 1..n PROVE queue[s][j].conn # queue[s][o].conn
        <5>1. j \in DOMAIN queue[s] /\ j # o
          BY <2>3, <2>4, <3>3
        <5> QED
          BY <5>1 DEF Queued
      <4>2. Silent(queue[s][o].conn)
        BY <1>2, <2>5, <2>6, <2>7, <3>1, <4>1
      <4> QED
        BY <3>3, <4>2 DEF TimeIsLeft
    <3> QED
      BY <3>1, <3>2, <3>3
  <2>8. ASSUME NEW t \in Routes \ {s}, NEW i \in DOMAIN queue'[t], SilentNow(queue'[t][i].conn)
        PROVE  queue'[t][i].age < PingTimeout
    <3>1. queue'[t] = queue[t]
      BY <2>4
    <3>2. ASSUME NEW j \in 1..n PROVE queue[s][j].conn # queue[t][i].conn
      <4>1. j \in DOMAIN queue[s]
        BY <2>3, <2>4
      <4>2. RouteOf[queue[s][j].conn] = s /\ RouteOf[queue[t][i].conn] = t
        BY <3>1, <4>1 DEF Queued
      <4> QED
        BY <4>2
    <3>3. Silent(queue[t][i].conn)
      BY <1>2, <2>5, <2>6, <2>8, <3>1, <3>2
    <3> QED
      BY <3>1, <3>3 DEF TimeIsLeft
  <2> QED
    BY <2>7, <2>8 DEF TimeIsLeft
<1>8. ASSUME Sockets!TimePasses PROVE TimeIsLeft'
  <2>1. socket' = socket /\ alive' = alive /\ mute' = mute /\ ~Sockets!Unanswered
    BY <1>8 DEF Sockets!TimePasses
  <2>2. ASSUME NEW s \in Routes, NEW i \in DOMAIN queue'[s], SilentNow(queue'[s][i].conn)
        PROVE  queue'[s][i].age < PingTimeout
    <3>1. /\ i \in DOMAIN queue[s]
          /\ queue'[s][i].conn = queue[s][i].conn
          /\ queue[s][i].age \in Nat
          /\ queue'[s][i].age = IF queue[s][i].age < PingTimeout
                                THEN queue[s][i].age + 1 ELSE queue[s][i].age
      BY <1>8, TimeKeepsQueues
    <3>2. Silent(queue[s][i].conn)
      BY <2>1, <2>2, <3>1
    <3>3. queue[s][i].age < PingTimeout
      BY <3>1, <3>2 DEF TimeIsLeft
    <3>4. step[queue[s][i].conn] = "running"
      BY <1>2, <3>1, <3>2 DEF Queued
    <3>5. queue[s][i].age # PingTimeout - 1
      BY <2>1, <3>1, <3>2, <3>4 DEF Sockets!Unanswered
    <3> QED
      BY <1>1, <3>1, <3>3, <3>5
  <2> QED
    BY <2>2 DEF TimeIsLeft
<1>9. ASSUME Sockets!Dispose \/ Sockets!ServersClosed \/ Sockets!WebDisposed
             \/ Sockets!WebClosed \/ Sockets!Disposed
      PROVE  TimeIsLeft'
  <2>1. queue' = queue /\ alive' = alive /\ mute' = mute /\ socket' = socket
    BY <1>9 DEF Sockets!Dispose, Sockets!ServersClosed, Sockets!WebDisposed,
                Sockets!WebClosed, Sockets!Disposed, Sockets!serverVars
  <2> QED
    BY <1>3, <2>1
<1> QED
  BY <1>4, <1>5, <1>6, <1>7, <1>8, <1>9 DEF Sockets!Next

\* A server that is closed stays without clients, a web server without connections, and
\* dispose() goes on only when what it waits for is closed.
LEMMA ClosedStaysEmpty ==
    ASSUME Sockets!TypeOK, ClosedIsEmpty, Sockets!Next
    PROVE  ClosedIsEmpty'
<1> DEFINE Shut == \A s \in Routes : servers[s] = "closed" =>
                        \A r \in Requests : RouteOf[r] = s => socket[r] \notin {"open", "closing"}
           Alone == web = "closed" => \A r \in Requests :
                        socket[r] \notin {"open", "closing"} /\ step[r] # "validating"
           Ends == /\ disposing # "none" => ~acceptor
                   /\ disposing \in {"web", "done"} => \A s \in awaited : servers[s] = "closed"
<1>1. /\ step \in [Requests -> {"none", "validating", "loading", "running", "over", "refused"}]
      /\ socket \in [Requests -> {"none", "open", "closing", "closed"}]
      /\ servers \in [Routes -> {"none", "running", "closing", "closed"}]
      /\ awaited \subseteq Routes
      /\ RouteOf \in [Requests -> Routes \cup {NoRoute}] /\ NoRoute \notin Routes
  BY WebSocketsAssumption DEF Sockets!TypeOK, Sockets!SocketsAssumption
<1>2. Shut /\ Alone /\ Ends
  BY DEF ClosedIsEmpty, Sockets!Clients, Sockets!Connected
<1>3. ASSUME Shut', Alone', Ends' PROVE ClosedIsEmpty'
  BY <1>3 DEF ClosedIsEmpty, Sockets!Clients, Sockets!Connected
<1>4. ASSUME NEW r \in Requests, Sockets!Upgrade(r) \/ Sockets!Validated(r)
      PROVE  Shut' /\ Alone' /\ Ends'
  <2>1. web' = web /\ web # "closed" /\ UNCHANGED <<acceptor, disposing, awaited>>
    BY <1>2, <1>4 DEF Sockets!Upgrade, Sockets!Validated, Sockets!disposalVars
  <2>2. \A s \in Routes : servers[s] = "closed" => servers'[s] = "closed"
    BY <1>1, <1>4 DEF Sockets!Upgrade, Sockets!Validated, Sockets!Refuses, Sockets!ShakesHands
  <2>3. Shut'
    BY <1>1, <1>2, <1>4 DEF Sockets!Upgrade, Sockets!Validated, Sockets!Refuses, Sockets!ShakesHands
  <2> QED
    BY <1>1, <1>2, <2>1, <2>2, <2>3
<1>5. ASSUME NEW r \in Requests,
             Sockets!Accept(r) \/ Sockets!ActionEnds(r) \/ Sockets!Mute(r) \/ Sockets!Pong(r)
      PROVE  Shut' /\ Alone' /\ Ends'
  <2>1. UNCHANGED <<servers, web, acceptor, disposing, awaited>>
    BY <1>5 DEF Sockets!Accept, Sockets!ActionEnds, Sockets!Mute, Sockets!Pong,
                Sockets!serverVars, Sockets!disposalVars
  <2>2. \A q \in Requests : /\ socket'[q] \in {"open", "closing"} => socket[q] \in {"open", "closing"}
                            /\ step'[q] = "validating" => step[q] = "validating"
    BY <1>1, <1>5 DEF Sockets!Accept, Sockets!ActionEnds, Sockets!Mute, Sockets!Pong, Sockets!Closing
  <2> QED
    BY <1>2, <2>1, <2>2
<1>6. ASSUME UNCHANGED <<web, acceptor, disposing, awaited, step>>, Sockets!Left(socket'),
             \A q \in Requests : socket'[q] \in {"open", "closing"} => socket[q] \in {"open", "closing"}
      PROVE  Shut' /\ Alone' /\ Ends'
  <2>1. \A s \in Routes : servers[s] = "closed" => servers'[s] = "closed"
    BY <1>6 DEF Sockets!Left
  <2>2. Shut'
    BY <1>2, <1>6 DEF Sockets!Left
  <2> QED
    BY <1>1, <1>2, <1>6, <2>1, <2>2
<1>7. ASSUME NEW r \in Requests, Sockets!Closed(r) PROVE Shut' /\ Alone' /\ Ends'
  <2>1. UNCHANGED <<web, acceptor, disposing, awaited, step>> /\ Sockets!Left(socket')
    BY <1>7 DEF Sockets!Closed, Sockets!Left, Sockets!disposalVars
  <2>2. \A q \in Requests : socket'[q] \in {"open", "closing"} => socket[q] \in {"open", "closing"}
    BY <1>1, <1>7 DEF Sockets!Closed, Sockets!Left
  <2> QED
    BY <1>6, <2>1, <2>2
<1>8. ASSUME NEW s \in Routes, Sockets!KeepAlive(s) PROVE Shut' /\ Alone' /\ Ends'
  <2>1. UNCHANGED <<web, acceptor, disposing, awaited, step>> /\ Sockets!Left(socket')
    BY <1>8 DEF Sockets!KeepAlive, Sockets!Left, Sockets!disposalVars
  <2>2. PICK n \in Nat, m \in Nat : Walks(s, n, m)
    BY <1>8, KeepAliveWalks
  <2>3. \A q \in Requests : socket'[q] \in {"open", "closing"} => socket[q] \in {"open", "closing"}
    BY <1>1, <2>2 DEF Walks
  <2> QED
    BY <1>6, <2>1, <2>3
<1>9. ASSUME Sockets!Dispose PROVE Shut' /\ Alone' /\ Ends'
  <2>1. Shut'
    BY <1>1, <1>2, <1>9 DEF Sockets!Dispose, Sockets!Clients, Sockets!Connected
  <2> QED
    BY <1>2, <1>9, <2>1 DEF Sockets!Dispose
<1>10. ASSUME Sockets!TimePasses \/ Sockets!ServersClosed \/ Sockets!WebDisposed
              \/ Sockets!WebClosed \/ Sockets!Disposed
       PROVE  Shut' /\ Alone' /\ Ends'
  <2>1. UNCHANGED <<servers, socket, step, acceptor, awaited>>
    BY <1>10 DEF Sockets!TimePasses, Sockets!ServersClosed, Sockets!WebDisposed,
                 Sockets!WebClosed, Sockets!Disposed, Sockets!serverVars, Sockets!disposalVars
  <2>2. web' = "closed" => web = "closed" \/ Sockets!WebClosed
    BY <1>10 DEF Sockets!TimePasses, Sockets!ServersClosed, Sockets!WebDisposed,
                 Sockets!WebClosed, Sockets!Disposed, Sockets!disposalVars
  <2>3. /\ disposing' # "none" => disposing # "none"
        /\ disposing' \in {"web", "done"} =>
            disposing \in {"web", "done"} \/ \A s \in awaited : servers[s] = "closed"
    BY <1>10 DEF Sockets!TimePasses, Sockets!ServersClosed, Sockets!WebDisposed,
                 Sockets!WebClosed, Sockets!Disposed, Sockets!disposalVars
  <2> QED
    BY <1>2, <2>1, <2>2, <2>3 DEF Sockets!WebClosed, Sockets!Connected
<1> HIDE DEF Shut, Alone, Ends
<1> QED
  BY <1>3, <1>4, <1>5, <1>7, <1>8, <1>9, <1>10 DEF Sockets!Next


\* Whoever is accepted was a client already, with all who are accepted: no more than are
\* counted are.
LEMMA LimitStays ==
    ASSUME Sockets!TypeOK, Sockets!ConnectionsAreLimited, Sockets!Next
    PROVE  Sockets!ConnectionsAreLimited'
<1> DEFINE Of(s) == {r \in Requests : socket[r] \in {"open", "closing"} /\ RouteOf[r] = s}
           Runs(s) == {r \in Of(s) : step[r] = "running"}
<1>1. /\ step \in [Requests -> {"none", "validating", "loading", "running", "over", "refused"}]
      /\ socket \in [Requests -> {"none", "open", "closing", "closed"}]
      /\ IsFiniteSet(Requests) /\ MaxConnections \in Nat
  BY WebSocketsAssumption, ServerCounts DEF Sockets!TypeOK, Sockets!SocketsAssumption
<1>2. \A s : /\ Sockets!Clients(s) = Of(s) /\ Sockets!Accepted(s) = Runs(s)
             /\ Sockets!Cardinality(Runs(s)) = Cardinality(Runs(s))
             /\ Sockets!Cardinality(Of(s)) = Cardinality(Of(s))
  BY ServerCounts DEF Sockets!Clients, Sockets!Accepted, Sockets!Connected
<1>3. \A s : /\ (Sockets!Accepted(s))' = Runs(s)'
             /\ (Sockets!Cardinality(Sockets!Accepted(s)))' = Cardinality(Runs(s)')
  BY ServerCounts DEF Sockets!Clients, Sockets!Accepted, Sockets!Connected
<1>4. ASSUME NEW s \in Routes, NEW S \in SUBSET Requests, NEW T \in SUBSET S,
             Cardinality(S) < MaxConnections
      PROVE  Cardinality(T) < MaxConnections
  <2>1. IsFiniteSet(S)
    BY <1>1, FS_Subset
  <2>2. Cardinality(T) \in Nat /\ Cardinality(S) \in Nat /\ Cardinality(T) <= Cardinality(S)
    BY <2>1, FS_Subset, FS_CardinalityType
  <2> QED
    BY <1>1, <1>4, <2>2
<1>5. ASSUME NEW s \in Routes, Runs(s)' \subseteq Runs(s) \/
                (Runs(s)' \subseteq Of(s) /\ Cardinality(Of(s)) < MaxConnections)
      PROVE  Cardinality(Runs(s)') < MaxConnections
  <2>1. Cardinality(Runs(s)) < MaxConnections
    BY <1>2 DEF Sockets!ConnectionsAreLimited
  <2>2. Of(s) \in SUBSET Requests /\ Runs(s) \in SUBSET Requests
    OBVIOUS
  <2> HIDE DEF Of, Runs
  <2> QED
    BY <1>4, <1>5, <2>1, <2>2
<1>6. ASSUME NEW s \in Routes
      PROVE  Runs(s)' \subseteq Runs(s)
                \/ (Runs(s)' \subseteq Of(s) /\ Cardinality(Of(s)) < MaxConnections)
  <2>1. ASSUME NEW r \in Requests, Sockets!Accept(r)
        PROVE  Runs(s)' \subseteq Runs(s)
                \/ (Runs(s)' \subseteq Of(s) /\ Cardinality(Of(s)) < MaxConnections)
    <3>1. Cardinality(Of(RouteOf[r])) \in Nat
      <4>1. IsFiniteSet(Of(RouteOf[r]))
        BY <1>1, FS_Subset
      <4> QED
        BY <4>1, FS_CardinalityType
    <3>2. \A q \in Requests \ {r} : step'[q] = step[q]
      BY <1>1, <2>1 DEF Sockets!Accept
    <3>3. \A q \in Requests : socket'[q] \in {"open", "closing"} => socket[q] \in {"open", "closing"}
      BY <1>1, <2>1 DEF Sockets!Accept, Sockets!Closing
    <3>4. CASE step'[r] = "running" /\ RouteOf[r] = s
      <4>1. Cardinality(Of(s)) < MaxConnections
        <5>1. ~(Sockets!Cardinality(Sockets!Clients(RouteOf[r])) >= MaxConnections)
          BY <1>1, <2>1, <3>4 DEF Sockets!Accept
        <5>2. Sockets!Cardinality(Sockets!Clients(RouteOf[r])) = Cardinality(Of(RouteOf[r]))
          BY <1>2
        <5> HIDE DEF Of
        <5> QED
          BY <1>1, <3>1, <3>4, <5>1, <5>2
      <4> QED
        BY <3>3, <4>1
    <3>5. CASE ~(step'[r] = "running" /\ RouteOf[r] = s)
      BY <3>2, <3>3, <3>5
    <3> QED
      BY <3>4, <3>5
  <2>2. ASSUME \A q \in Requests : step'[q] = "running" => step[q] = "running",
               \A q \in Requests : step'[q] = "running" /\ socket'[q] \in {"open", "closing"}
                    => socket[q] \in {"open", "closing"}
        PROVE  Runs(s)' \subseteq Runs(s)
    BY <2>2
  <2>3. ASSUME NEW r \in Requests,
               Sockets!Upgrade(r) \/ Sockets!Validated(r) \/ Sockets!ActionEnds(r)
               \/ Sockets!Closed(r) \/ Sockets!Mute(r) \/ Sockets!Pong(r)
        PROVE  Runs(s)' \subseteq Runs(s)
    <3>1. \A q \in Requests : /\ step'[q] = "running" => step[q] = "running"
                              /\ step'[q] = "running" /\ socket'[q] \in {"open", "closing"}
                                    => socket[q] \in {"open", "closing"}
      BY <1>1, <2>3 DEF Sockets!Upgrade, Sockets!Validated, Sockets!Refuses, Sockets!ShakesHands,
            Sockets!ActionEnds, Sockets!Closed, Sockets!Left, Sockets!Closing, Sockets!Mute,
            Sockets!Pong
    <3> QED
      BY <2>2, <3>1
  <2>4. ASSUME NEW t \in Routes, Sockets!KeepAlive(t) PROVE Runs(s)' \subseteq Runs(s)
    <3>1. PICK n \in Nat, m \in Nat : Walks(t, n, m)
      BY <2>4, KeepAliveWalks
    <3>2. step' = step /\ \A q \in Requests : socket'[q] # "closed" => socket'[q] = socket[q]
      BY <1>1, <2>4, <3>1 DEF Sockets!KeepAlive, Walks
    <3> QED
      BY <3>2
  <2>5. ASSUME Sockets!TimePasses \/ Sockets!Dispose \/ Sockets!ServersClosed
               \/ Sockets!WebDisposed \/ Sockets!WebClosed \/ Sockets!Disposed
        PROVE  Runs(s)' \subseteq Runs(s)
    <3>1. step' = step /\ socket' = socket
      BY <2>5 DEF Sockets!TimePasses, Sockets!Dispose, Sockets!ServersClosed,
                  Sockets!WebDisposed, Sockets!WebClosed, Sockets!Disposed
    <3> QED
      BY <3>1
  <2> HIDE DEF Of, Runs
  <2> QED
    BY <2>1, <2>3, <2>4, <2>5 DEF Sockets!Next
<1>7. ASSUME NEW s \in Routes PROVE (Sockets!Cardinality(Sockets!Accepted(s)))' < MaxConnections
  <2> HIDE DEF Of, Runs
  <2> QED
    BY <1>3, <1>5, <1>6
<1> QED
  BY <1>7 DEF Sockets!ConnectionsAreLimited

\* All that begins with a server that nobody has come to.
LEMMA ServerBegins ==
    ASSUME Sockets!Init
    PROVE  ServerInv
<1>1. Sockets!TypeOK
  BY DEF Sockets!Init, Sockets!TypeOK
<1>2. Queued /\ TimeIsLeft
  BY DEF Sockets!Init, Queued, TimeIsLeft
<1>3. ClosedIsEmpty
  BY DEF Sockets!Init, ClosedIsEmpty
<1>4. Sockets!ConnectionsAreLimited
  <2>1. ASSUME NEW s \in Routes PROVE Sockets!Cardinality(Sockets!Accepted(s)) = 0
    <3>1. Sockets!Accepted(s) = {}
      BY DEF Sockets!Init, Sockets!Accepted, Sockets!Clients, Sockets!Connected
    <3> QED
      BY <3>1, FS_EmptySet, ServerCounts
  <2>2. MaxConnections \in Nat \ {0}
    BY WebSocketsAssumption DEF Sockets!SocketsAssumption
  <2> QED
    BY <2>1, <2>2 DEF Sockets!ConnectionsAreLimited
<1> QED
  BY <1>1, <1>2, <1>3, <1>4 DEF ServerInv

\* Every step keeps all of it.
LEMMA ServerGoesOn ==
    ASSUME ServerInv, [Sockets!Next]_Sockets!vars
    PROVE  ServerInv'
<1>1. CASE Sockets!Next
  BY <1>1, ServerTypes, QueuedStays, TimeStaysLeft, ClosedStaysEmpty, LimitStays DEF ServerInv
<1>2. CASE UNCHANGED Sockets!vars
  <2>1. UNCHANGED <<acceptor, servers, step, socket, alive, queue, mute, web, disposing, awaited>>
    BY <1>2 DEF Sockets!vars, Sockets!serverVars, Sockets!disposalVars
  <2>2. Sockets!TypeOK'
    BY <2>1 DEF ServerInv, Sockets!TypeOK
  <2>4. Queued'
    BY <2>1 DEF ServerInv, Queued
  <2>5. TimeIsLeft'
    BY <2>1 DEF ServerInv, TimeIsLeft
  <2>3. ClosedIsEmpty' /\ Sockets!ConnectionsAreLimited'
    BY <2>1 DEF ServerInv, ClosedIsEmpty, Sockets!ConnectionsAreLimited, Sockets!Accepted,
                Sockets!Clients, Sockets!Connected
  <2> QED
    BY <2>2, <2>3, <2>4, <2>5 DEF ServerInv
<1> QED
  BY <1>1, <1>2

\* The inductive invariant of a WebSocket server: the ping queue has the connections whose
\* action has begun, each once and in time to answer, and what is closed is empty.
THEOREM ServerInvariant == Sockets!Spec => []ServerInv
  BY ServerBegins, ServerGoesOn, PTL DEF Sockets!Spec

\* For any requests, routes and limit, a route runs fewer actions than maxConnections
\* (WebSocketServer.ts, "ws.clients.size >= maxConnections"), though connections count before
\* they are accepted and the action is loaded in between; and when dispose() is over, what
\* it waited for is closed and empty.
THEOREM LimitIsKept == Sockets!Spec => []ServerIsLimited
<1>1. ServerInv => ServerIsLimited
  <2> SUFFICES ASSUME ServerInv PROVE ServerIsLimited
    OBVIOUS
  <2>1. awaited \subseteq Routes
    BY DEF ServerInv, Sockets!TypeOK
  <2>2. Sockets!DisposedIsClosed
    BY <2>1 DEF ServerInv, ClosedIsEmpty, Sockets!DisposedIsClosed
  <2> QED
    BY <2>2 DEF ServerInv, ServerIsLimited
<1> QED
  BY <1>1, ServerInvariant, PTL

\* A connection that a walk terminates has ceased to answer.
LEMMA SilentIsMute ==
    ASSUME ServerInv, Sockets!Next, NEW r \in Requests,
           socket[r] = "open", socket'[r] = "closed", queue' # queue
    PROVE  r \in mute
<1>1. socket \in [Requests -> {"none", "open", "closing", "closed"}] /\ PingTimeout \in Nat
  BY WebSocketsAssumption DEF ServerInv, Sockets!TypeOK, Sockets!SocketsAssumption
<1>2. ASSUME NEW q \in Requests,
             Sockets!Upgrade(q) \/ Sockets!Validated(q) \/ Sockets!ActionEnds(q)
             \/ Sockets!Closed(q) \/ Sockets!Mute(q) \/ Sockets!Pong(q)
      PROVE  queue' = queue
  BY <1>2 DEF Sockets!Upgrade, Sockets!Validated, Sockets!ActionEnds, Sockets!Closed,
              Sockets!Mute, Sockets!Pong, Sockets!serverVars
<1>3. ASSUME NEW q \in Requests, Sockets!Accept(q) PROVE socket'[r] # "closed"
  BY <1>1, <1>3 DEF Sockets!Accept, Sockets!Closing
<1>4. ASSUME NEW s \in Routes, Sockets!KeepAlive(s) PROVE r \in mute
  <2>1. Sockets!TypeOK
    BY DEF ServerInv
  <2>2. PICK n \in Nat, m \in Nat : Walks(s, n, m)
    BY <1>4, <2>1, KeepAliveWalks
  <2>3. queue[s] \in Seq(Pings)
    BY <2>1 DEF Sockets!TypeOK, Pings
  <2>4. Len(queue[s]) \in Nat /\ DOMAIN queue[s] = 1..Len(queue[s])
    BY <2>3, LenProperties
  <2>5. /\ m \in DOMAIN queue[s] /\ queue[s][m].conn = r
        /\ queue[s][m].age >= PingTimeout /\ queue[s][m].conn \notin alive
    <3>1. m # n /\ socket' = [socket EXCEPT ![queue[s][m].conn] = "closed"]
      BY <2>2 DEF Walks
    <3>2. queue[s][m].conn = r
      BY <1>1, <3>1
    <3>3. m \in n..Len(queue[s]) /\ n \in 0..Len(queue[s])
      BY <2>2 DEF Walks
    <3>4. m \in 1..Len(queue[s])
      BY <2>4, <3>1, <3>3
    <3>5. queue[s][m].age >= PingTimeout /\ queue[s][m].conn \notin alive
      BY <2>2, <3>1 DEF Walks
    <3> QED
      BY <2>4, <3>2, <3>4, <3>5
  <2>6. queue[s][m].age \in Nat
    <3>1. queue[s][m] \in Pings
      BY <2>3, <2>4, <2>5, ElementOfSeq
    <3> QED
      BY <1>1, <3>1 DEF Pings
  <2> QED
    BY <1>1, <2>5, <2>6 DEF ServerInv, TimeIsLeft
<1>5. ASSUME Sockets!TimePasses \/ Sockets!Dispose \/ Sockets!ServersClosed
             \/ Sockets!WebDisposed \/ Sockets!WebClosed \/ Sockets!Disposed
      PROVE  socket' = socket
  BY <1>5 DEF Sockets!TimePasses, Sockets!Dispose, Sockets!ServersClosed,
              Sockets!WebDisposed, Sockets!WebClosed, Sockets!Disposed
<1> QED
  BY <1>2, <1>3, <1>4, <1>5 DEF Sockets!Next

\* For any requests and routes, and an interval that is as late as it may be, the keep-alive
\* terminates only connections whose client has ceased to answer.
THEOREM AnswersAreEnough == Sockets!Spec => AnsweringAreKept
<1>1. ServerInv /\ [Sockets!Next]_Sockets!vars =>
        [\A r \in Requests :
            socket[r] = "open" /\ socket'[r] = "closed" /\ queue' # queue => r \in mute]_Sockets!vars
  BY SilentIsMute
<1> QED
  BY <1>1, ServerInvariant, PTL DEF Sockets!Spec, AnsweringAreKept, Sockets!AnsweringAreKept

================================================================================
