---------------------------- MODULE RuntimeProofs ----------------------------
(***************************************************************************)
(* Theorems about Runtime, for any tasks, objects, jobs and signals.       *)
(***************************************************************************)
EXTENDS Runtime, TLAPS

KillRecord == [pc : KillStates, waits : SUBSET Resources, rest : Seq(Disposables),
               code : {0, 1}]

\* The kills that have passed the tasks.
Past(k) == kill[k].pc \notin {"no", "starting"}

\* A kill goes on only when all tasks have settled.
PastTasks == \A k \in Kills : Past(k) => \A t \in Tasks : Settled(t)

------------------------------------------------------------------------------
(***************************************************************************)
(* Types                                                                   *)
(***************************************************************************)

\* A field of a kill is given another value of its type.
LEMMA FieldTypes ==
    ASSUME NEW f \in [Kills -> KillRecord], NEW k \in Kills
    PROVE  /\ \A pc \in KillStates : [f EXCEPT ![k].pc = pc] \in [Kills -> KillRecord]
           /\ \A waits \in SUBSET Resources :
                 [f EXCEPT ![k].waits = waits] \in [Kills -> KillRecord]
           /\ \A rest \in Seq(Disposables) :
                 [f EXCEPT ![k].rest = rest] \in [Kills -> KillRecord]
<1>1. ASSUME NEW pc \in KillStates PROVE [f[k] EXCEPT !.pc = pc] \in KillRecord
  BY DEF KillRecord
<1>2. ASSUME NEW waits \in SUBSET Resources PROVE [f[k] EXCEPT !.waits = waits] \in KillRecord
  BY DEF KillRecord
<1>3. ASSUME NEW rest \in Seq(Disposables) PROVE [f[k] EXCEPT !.rest = rest] \in KillRecord
  BY DEF KillRecord
<1> QED
  BY <1>1, <1>2, <1>3

\* What a kill waits for are resources.
LEMMA KillType ==
    ASSUME TypeOK, NEW k \in Kills, NEW pc \in KillStates, NEW waits \in SUBSET Resources
    PROVE  [kill EXCEPT ![k].pc = pc, ![k].waits = waits] \in [Kills -> KillRecord]
<1> DEFINE f == [kill EXCEPT ![k].pc = pc]
<1>1. f \in [Kills -> KillRecord]
  BY FieldTypes DEF TypeOK, KillRecord
<1>2. [f EXCEPT ![k].waits = waits] \in [Kills -> KillRecord]
  BY <1>1, FieldTypes
<1> QED
  BY <1>2

\* dispose() only takes states of a resource.
LEMMA DisposesType ==
    ASSUME TypeOK, NEW rs, Disposes(rs)
    PROVE  resource' \in [Resources -> {"live", "disposing", "disposed"}]
BY DEF TypeOK, Disposes

\* Every variable of the runtime keeps its type.
THEOREM RuntimeTypeCorrect == Spec => []TypeOK
<1>1. Init => TypeOK
  <2> SUFFICES ASSUME Init PROVE TypeOK
    OBVIOUS
  <2>1. NoKill \in KillRecord
    BY DEF NoKill, KillRecord, KillStates
  <2>2. kill \in [Kills -> KillRecord]
    BY <2>1 DEF Init
  <2>3. /\ life \in [Runnables -> {"none", "beats", "fulfilled", "rejected"}]
        /\ jobs \in [Runnables -> Nat]
        /\ task \in [Tasks -> {"pending", "fulfilled", "rejected"}]
        /\ resource \in [Resources -> {"live", "disposing", "disposed"}]
    BY DEF Init
  <2>4. /\ process \in {"running", "exited", "crashed"}
        /\ watch \in {"starting", "watching", "failed", "ended"}
    BY DEF Init
  <2>5. registered \in Seq(Disposables) /\ entered \in BOOLEAN
    <3>1. <<>> \in Seq(Disposables)
      OBVIOUS
    <3> QED
      BY <3>1 DEF Init
  <2> QED
    BY <2>2, <2>3, <2>4, <2>5 DEF TypeOK, KillRecord
<1>2. TypeOK /\ [Next]_vars => TypeOK'
  <2> SUFFICES ASSUME TypeOK, [Next]_vars PROVE TypeOK'
    OBVIOUS
  <2>1. ASSUME NEW t \in Tasks, TaskStarts(t) PROVE TypeOK'
    <3>1. registered' \in Seq(Disposables)
      BY <2>1 DEF TaskStarts, TypeOK
    <3>2. task' \in [Tasks -> {"pending", "fulfilled", "rejected"}]
      BY <2>1 DEF TaskStarts, TypeOK
    <3>3. life' \in [Runnables -> {"none", "beats", "fulfilled", "rejected"}]
      BY <2>1 DEF TaskStarts, TypeOK
    <3>4. jobs' \in [Runnables -> Nat]
      BY <2>1, RuntimeAssumption DEF TaskStarts, TypeOK
    <3> QED
      BY <2>1, <3>1, <3>2, <3>3, <3>4 DEF TaskStarts, TypeOK
  <2>2. ASSUME NEW t \in Tasks, TaskFails(t) PROVE TypeOK'
    BY <2>2 DEF TaskFails, TypeOK
  <2>3. ASSUME NEW t \in Tasks, JobEnds(t) PROVE TypeOK'
    <3>1. jobs' \in [Runnables -> Nat]
      BY <2>3 DEF JobEnds, TypeOK
    <3>2. life' \in [Runnables -> {"none", "beats", "fulfilled", "rejected"}]
      BY <2>3 DEF JobEnds, TypeOK
    <3> QED
      BY <2>3, <3>1, <3>2 DEF JobEnds, TypeOK
  <2>4. ASSUME NEW t \in Tasks, JobFails(t) PROVE TypeOK'
    <3>1. /\ life' \in [Runnables -> {"none", "beats", "fulfilled", "rejected"}]
          /\ process' \in {"running", "exited", "crashed"}
      BY <2>4 DEF JobFails, TypeOK
    <3>2. jobs' \in [Runnables -> Nat]
      BY <2>4 DEF JobFails, TypeOK
    <3> QED
      BY <2>4, <3>1, <3>2 DEF JobFails, TypeOK
  <2>5. ASSUME NEW k \in Kills, NEW code \in {0, 1}, Killed(k, code)
        PROVE  kill' \in [Kills -> KillRecord]
    <3>1. kill' = [kill EXCEPT ![k].pc = "starting", ![k].code = code]
      BY <2>5 DEF Killed
    <3>2. kill \in [Kills -> KillRecord]
      BY DEF TypeOK, KillRecord
    <3> DEFINE next == [kill[k] EXCEPT !.pc = "starting", !.code = code]
    <3>3. next \in KillRecord
      BY <3>2 DEF KillRecord, KillStates
    <3>4. kill' = [kill EXCEPT ![k] = next]
      BY <3>1
    <3> HIDE DEF next
    <3> QED
      BY <3>2, <3>3, <3>4
  <2>6. Watcher \in Kills
    BY DEF Kills
  <2>7. CASE WatchStarted
    <3>1. UNCHANGED kill \/ Killed(Watcher, 1)
      BY <2>7 DEF WatchStarted
    <3>2. UNCHANGED kill => kill' \in [Kills -> KillRecord]
      BY DEF TypeOK, KillRecord
    <3>3. Killed(Watcher, 1) => kill' \in [Kills -> KillRecord]
      <4>1. 1 \in {0, 1}
        OBVIOUS
      <4> QED
        BY <2>5, <2>6, <4>1
    <3>4. kill' \in [Kills -> KillRecord]
      BY <3>1, <3>2, <3>3
    <3> QED
      BY <2>7, <3>4 DEF WatchStarted, TypeOK, KillRecord
  <2>8. CASE WatchEnds
    <3>1. kill' \in [Kills -> KillRecord]
      BY <2>5, <2>6, <2>8 DEF WatchEnds
    <3> QED
      BY <2>8, <3>1 DEF WatchEnds, TypeOK, KillRecord
  <2>9. ASSUME NEW s \in Signals, Signal(s) PROVE TypeOK'
    <3>1. kill' \in [Kills -> KillRecord]
      BY <2>5, <2>9 DEF Signal, Kills
    <3> QED
      BY <2>9, <3>1 DEF Signal, TypeOK, KillRecord
  <2>10. ASSUME NEW k \in Kills, KillHeartbeats(k) PROVE TypeOK'
    <3> DEFINE beating == {t \in Runnables : life[t] = "beats"}
    <3>1. Live(beating) \in SUBSET Resources
      BY DEF Live, Resources
    <3>2. /\ kill' = [kill EXCEPT ![k].pc = "beats", ![k].waits = Live(beating)]
          /\ Disposes(Live(beating))
          /\ life' = [t \in Runnables |-> IF t \in beating THEN "fulfilled" ELSE life[t]]
      BY <2>10 DEF KillHeartbeats
    <3>3. "beats" \in KillStates
      BY DEF KillStates
    <3>4. life' \in [Runnables -> {"none", "beats", "fulfilled", "rejected"}]
      BY <3>2 DEF TypeOK
    <3>5. kill' \in [Kills -> KillRecord]
      BY <3>1, <3>2, <3>3, KillType
    <3> QED
      BY <2>10, <3>2, <3>4, <3>5, DisposesType DEF KillHeartbeats, TypeOK, KillRecord
  <2>11. ASSUME NEW k \in Kills, KillRuntime(k) PROVE TypeOK'
    <3> DEFINE rest == IF entered THEN <<>> ELSE registered
    <3>1. rest \in Seq(Disposables) /\ registered' \in Seq(Disposables)
      BY <2>11 DEF KillRuntime, TypeOK
    <3>2. kill' = [kill EXCEPT ![k].pc = "walking", ![k].waits = {}, ![k].rest = rest]
      BY <2>11 DEF KillRuntime
    <3> HIDE DEF rest
    <3>3. kill' \in [Kills -> KillRecord]
      <4> DEFINE f == [kill EXCEPT ![k].pc = "walking", ![k].waits = {}]
      <4>1. f \in [Kills -> KillRecord]
        BY KillType DEF KillStates
      <4>2. [f EXCEPT ![k].rest = rest] \in [Kills -> KillRecord]
        BY <3>1, <4>1, FieldTypes
      <4> QED
        BY <3>2, <4>2
    <3> QED
      BY <2>11, <3>1, <3>3 DEF KillRuntime, TypeOK, KillRecord
  <2>12. ASSUME NEW k \in Kills, KillWalks(k) PROVE TypeOK'
    <3> DEFINE next == Live({Head(kill[k].rest)})
    <3>1. kill[k].rest \in Seq(Disposables) /\ kill[k].rest # <<>>
      BY <2>12 DEF KillWalks, TypeOK
    <3>2. Head(kill[k].rest) \in Resources /\ Tail(kill[k].rest) \in Seq(Disposables)
      BY <3>1 DEF Resources
    <3>3. next \in SUBSET Resources
      BY <3>2 DEF Live
    <3>4. /\ kill' = [kill EXCEPT ![k].waits = next, ![k].rest = Tail(@)]
          /\ Disposes(next)
      BY <2>12 DEF KillWalks
    <3> HIDE DEF next
    <3>5. kill' \in [Kills -> KillRecord]
      <4> DEFINE f == [kill EXCEPT ![k].waits = next]
      <4>1. f \in [Kills -> KillRecord]
        BY <3>3, FieldTypes DEF TypeOK, KillRecord
      <4>2. [f EXCEPT ![k].rest = Tail(kill[k].rest)] \in [Kills -> KillRecord]
        BY <3>2, <4>1, FieldTypes
      <4>3. kill' = [f EXCEPT ![k].rest = Tail(kill[k].rest)]
        BY <3>4 DEF TypeOK, KillRecord
      <4> QED
        BY <4>2, <4>3
    <3> QED
      BY <2>12, <3>4, <3>5, DisposesType DEF KillWalks, TypeOK, KillRecord
  <2>13. ASSUME NEW k \in Kills, KillLogger(k) PROVE TypeOK'
    <3>1. Live({Logger}) \in SUBSET Resources
      BY DEF Live, Resources
    <3>2. kill' \in [Kills -> KillRecord]
      BY <2>13, <3>1, KillType DEF KillLogger, KillStates
    <3> QED
      BY <2>13, <3>2, DisposesType DEF KillLogger, TypeOK, KillRecord
  <2>14. ASSUME NEW k \in Kills, KillEnds(k) PROVE TypeOK'
    <3>1. kill' \in [Kills -> KillRecord]
      <4>1. kill \in [Kills -> KillRecord]
        BY DEF TypeOK, KillRecord
      <4>2. kill' = [kill EXCEPT ![k].pc = "done"] /\ "done" \in KillStates
        BY <2>14 DEF KillEnds, KillStates
      <4> QED
        BY <4>1, <4>2, FieldTypes
    <3> QED
      BY <2>14, <3>1 DEF KillEnds, TypeOK, KillRecord
  <2>15. ASSUME NEW r \in Resources, ResourceDisposed(r) PROVE TypeOK'
    BY <2>15 DEF ResourceDisposed, TypeOK
  <2>16. CASE UNCHANGED vars
    BY <2>16 DEF vars, TypeOK
  <2> QED
    BY <2>1, <2>2, <2>3, <2>4, <2>7, <2>8, <2>9, <2>10, <2>11, <2>12, <2>13, <2>14,
       <2>15, <2>16 DEF Next, TaskStep, KillStep
<1> QED
  BY <1>1, <1>2, PTL DEF Spec

------------------------------------------------------------------------------
(***************************************************************************)
(* Overlapping kills                                                       *)
(***************************************************************************)

\* A step leaves settled what has settled, and takes a kill past the tasks only
\* when they have.
LEMMA TasksSettle ==
    ASSUME TypeOK, PastTasks, [Next]_vars
    PROVE  /\ \A t \in Tasks : Settled(t) => Settled(t)'
           /\ PastTasks'
<1> USE DEF Settled
<1>1. \A t \in Tasks : Settled(t) => Settled(t)'
  BY DEF TypeOK, Next, TaskStep, TaskStarts, TaskFails, JobEnds, JobFails, WatchStarted,
         WatchEnds, Signal, KillStep, KillHeartbeats, KillRuntime, KillWalks, KillLogger,
         KillEnds, ResourceDisposed, vars
<1>2. ASSUME NEW k \in Kills, Past(k)' PROVE Past(k) \/ \A t \in Tasks : Settled(t)
  <2>1. CASE UNCHANGED kill
    BY <1>2, <2>1 DEF Past
  <2>2. ASSUME NEW j \in Kills, NEW code, Killed(j, code) PROVE Past(k)
    BY <1>2, <2>2 DEF Past, Killed, TypeOK
  <2>3. ASSUME NEW j \in Kills, KillStep(j)
        PROVE  Past(k) \/ \A t \in Tasks : Settled(t)
    <3>1. CASE k = j
      <4>1. Past(k) \/ KillHeartbeats(k)
        BY <2>3, <3>1 DEF Past, KillStep, KillRuntime, KillWalks, KillLogger, KillEnds
      <4> QED
        BY <4>1 DEF KillHeartbeats
    <3>2. CASE k # j
      <4>1. kill'[k] = kill[k]
        BY <2>3, <3>2 DEF TypeOK, KillStep, KillHeartbeats, KillRuntime, KillWalks,
                          KillLogger, KillEnds
      <4> QED
        BY <1>2, <4>1 DEF Past
    <3> QED
      BY <3>1, <3>2
  <2>4. \/ UNCHANGED kill
        \/ \E j \in Kills : \E code \in {0, 1} : Killed(j, code)
        \/ \E j \in Kills : KillStep(j)
    <3>1. Watcher \in Kills /\ Signals \subseteq Kills
      BY DEF Kills
    <3>2. CASE WatchStarted
      BY <3>1, <3>2 DEF WatchStarted
    <3>3. CASE WatchEnds
      BY <3>1, <3>3 DEF WatchEnds
    <3>4. CASE \E s \in Signals : Signal(s)
      BY <3>1, <3>4 DEF Signal
    <3>5. CASE \E t \in Tasks : TaskStep(t)
      BY <3>5 DEF TaskStep, TaskStarts, TaskFails, JobEnds, JobFails
    <3>6. CASE \E r \in Resources : ResourceDisposed(r)
      BY <3>6 DEF ResourceDisposed
    <3> QED
      BY <3>2, <3>3, <3>4, <3>5, <3>6 DEF Next, vars
  <2> QED
    BY <2>1, <2>2, <2>3, <2>4
<1> QED
  BY <1>1, <1>2 DEF PastTasks

\* Nothing is disposed of while a task is starting.
THEOREM NothingIsEarly == Spec => []NothingEarly
<1>1. Init => PastTasks /\ NothingEarly
  BY DEF Init, PastTasks, Past, NothingEarly, NoKill
<1>2. TypeOK /\ PastTasks /\ NothingEarly /\ [Next]_vars => (PastTasks /\ NothingEarly)'
  <2> SUFFICES ASSUME TypeOK, PastTasks, NothingEarly, [Next]_vars
               PROVE  PastTasks' /\ NothingEarly'
    OBVIOUS
  <2>1. PastTasks' /\ \A t \in Tasks : Settled(t) => Settled(t)'
    BY TasksSettle
  <2>2. ASSUME NEW r \in Resources, resource'[r] # "live"
        PROVE  \A t \in Tasks : Settled(t)
    <3>1. CASE resource[r] # "live"
      BY <3>1 DEF NothingEarly
    <3>2. ASSUME NEW k \in Kills, KillStep(k) PROVE \A t \in Tasks : Settled(t)
      <4>1. CASE KillHeartbeats(k)
        BY <4>1 DEF KillHeartbeats
      <4>2. CASE ~KillHeartbeats(k)
        <5>1. Past(k)
          BY <3>2, <4>2
          DEF KillStep, KillRuntime, KillWalks, KillLogger, KillEnds, Past
        <5> QED
          BY <5>1 DEF PastTasks
      <4> QED
        BY <4>1, <4>2
    <3>3. ASSUME NEW q \in Resources, ResourceDisposed(q) PROVE resource[r] # "live"
      BY <2>2, <3>3 DEF ResourceDisposed, TypeOK
    <3>4. CASE UNCHANGED resource
      BY <2>2, <3>1, <3>4
    <3> QED
      BY <3>1, <3>2, <3>3, <3>4
      DEF Next, vars, TaskStep, TaskStarts, TaskFails, JobEnds, JobFails, WatchStarted,
          WatchEnds, Signal
  <2> QED
    BY <2>1, <2>2 DEF NothingEarly
<1> QED
  BY <1>1, <1>2, RuntimeTypeCorrect, PTL DEF Spec

\* No object is disposed of a second time.
THEOREM DisposalIsOnce == Spec => DisposedOnce
<1>1. TypeOK /\ [Next]_vars
        => [\A r \in Resources :
              resource[r] # "live" /\ resource'[r] # resource[r] => resource'[r] = "disposed"]_vars
  <2> SUFFICES ASSUME TypeOK, Next, NEW r \in Resources, resource[r] # "live",
                      resource'[r] # resource[r]
               PROVE  resource'[r] = "disposed"
    BY DEF vars
  <2>1. ASSUME NEW rs, Disposes(Live(rs)) PROVE resource'[r] = "disposed"
    BY <2>1 DEF Disposes, Live
  <2>2. ASSUME NEW q \in Resources, ResourceDisposed(q) PROVE resource'[r] = "disposed"
    BY <2>2 DEF ResourceDisposed, TypeOK
  <2>3. ASSUME NEW k \in Kills, KillStep(k) PROVE resource'[r] = "disposed"
    <3>1. UNCHANGED resource \/ \E rs : Disposes(Live(rs))
      BY <2>3 DEF KillStep, KillHeartbeats, KillRuntime, KillWalks, KillLogger, KillEnds
    <3> QED
      BY <2>1, <3>1
  <2> QED
    BY <2>2, <2>3 DEF Next, TaskStep, TaskStarts, TaskFails, JobEnds, JobFails,
                      WatchStarted, WatchEnds, Signal
<1> QED
  BY <1>1, RuntimeTypeCorrect, PTL DEF Spec, DisposedOnce

------------------------------------------------------------------------------
(***************************************************************************)
(* A single kill                                                           *)
(***************************************************************************)

Pc == kill[Watcher].pc

\* watch() has killed when it is past the heartbeats, and only then.
WatchedOnce == Pc = "no" <=> watch \in {"starting", "watching"}

\* Before the kill has passed the tasks nothing is disposed of.
Untouched == ~Past(Watcher) => \A r \in Resources : resource[r] = "live"

\* The logger comes last.
LoggerLast == Pc \notin {"logger", "done"} => resource[Logger] = "live"

\* What is being disposed of is waited for.
Held == \A r \in Resources : resource[r] = "disposing" => r \in kill[Watcher].waits

\* The runtime's list has every object that has started, until it is taken.
Listed ==
    /\ entered <=> Pc \in {"walking", "logger", "done"}
    /\ ~entered => Started \subseteq ToSet(registered)

\* An object that has not been given to dispose() is still to come.
Walked ==
    Pc = "walking"
        => \A r \in Started : r \in ToSet(kill[Watcher].rest) \/ resource[r] # "live"

\* All that has started is gone before the logger.
Gone ==
    /\ Pc \in {"logger", "done"} => \A r \in Started : resource[r] = "disposed"
    /\ Pc = "logger" => resource[Logger] # "live"
    /\ Pc = "done" => resource[Logger] = "disposed"

CleanInv ==
    /\ WatchedOnce /\ Untouched /\ LoggerLast /\ Held /\ Listed /\ Walked /\ Gone

\* A list with an element put behind it has the element and what it had.
LEMMA AppendHas ==
    ASSUME NEW S, NEW s \in Seq(S), NEW e \in S
    PROVE  ToSet(s) \cup {e} \subseteq ToSet(Append(s, e))
<1>1. \A i \in DOMAIN s : i \in DOMAIN Append(s, e) /\ Append(s, e)[i] = s[i]
  OBVIOUS
<1>2. Len(s) + 1 \in DOMAIN Append(s, e) /\ Append(s, e)[Len(s) + 1] = e
  OBVIOUS
<1> QED
  BY <1>1, <1>2 DEF ToSet

\* What a list has is its head or in its tail.
LEMMA TailHas ==
    ASSUME NEW S, NEW s \in Seq(S), s # <<>>
    PROVE  ToSet(s) \subseteq {Head(s)} \cup ToSet(Tail(s))
<1>1. ASSUME NEW i \in DOMAIN s, i # 1
      PROVE  i - 1 \in DOMAIN Tail(s) /\ Tail(s)[i - 1] = s[i]
  BY <1>1
<1>2. s[1] = Head(s)
  OBVIOUS
<1>3. ASSUME NEW i \in DOMAIN s PROVE s[i] \in {Head(s)} \cup ToSet(Tail(s))
  <2>1. CASE i = 1
    BY <1>2, <2>1
  <2>2. CASE i # 1
    BY <1>1, <2>2 DEF ToSet
  <2> QED
    BY <2>1, <2>2
<1> QED
  BY <1>3 DEF ToSet

\* A kill that has begun is never forgotten: if there has been no signal after a
\* step, there was none before.
LEMMA NoSignalBefore ==
    ASSUME TypeOK, Next, NoSignal'
    PROVE  NoSignal /\ \A s \in Signals : ~Signal(s)
<1> SUFFICES ASSUME NEW s \in Signals PROVE kill[s].pc = "no" /\ ~Signal(s)
  BY DEF NoSignal
<1>1. s \in Kills /\ kill'[s].pc = "no"
  BY DEF NoSignal, Kills
<1>2. ~Signal(s)
  BY <1>1 DEF Signal, Killed, TypeOK
<1>3. ASSUME NEW k \in Kills, NEW code, Killed(k, code) PROVE kill[s].pc = "no"
  BY <1>1, <1>3 DEF Killed, TypeOK
<1>4. ASSUME NEW k \in Kills, KillStep(k) PROVE kill[s].pc = "no"
  <2>1. k # s
    <3>1. CASE KillHeartbeats(k)
      BY <1>1, <3>1 DEF KillHeartbeats, TypeOK
    <3>2. CASE KillRuntime(k)
      BY <1>1, <3>2 DEF KillRuntime, TypeOK
    <3>3. CASE KillWalks(k)
      BY <1>1, <3>3 DEF KillWalks, TypeOK
    <3>4. CASE KillLogger(k)
      BY <1>1, <3>4 DEF KillLogger, TypeOK
    <3>5. CASE KillEnds(k)
      BY <1>1, <3>5 DEF KillEnds, TypeOK
    <3> QED
      BY <1>4, <3>1, <3>2, <3>3, <3>4, <3>5 DEF KillStep
  <2>2. kill'[s] = kill[s]
    BY <1>1, <1>4, <2>1
    DEF KillStep, KillHeartbeats, KillRuntime, KillWalks, KillLogger, KillEnds, TypeOK
  <2> QED
    BY <1>1, <2>2
<1>5. Watcher \in Kills /\ Signals \subseteq Kills
  BY DEF Kills
<1>6. WatchStarted \/ WatchEnds => UNCHANGED kill \/ \E code \in {0, 1} : Killed(Watcher, code)
  BY DEF WatchStarted, WatchEnds
<1>7. \A q \in Signals : Signal(q) => Killed(q, 0)
  BY DEF Signal
<1>8. (\E t \in Tasks : TaskStep(t)) \/ (\E r \in Resources : ResourceDisposed(r)) => UNCHANGED kill
  BY DEF TaskStep, TaskStarts, TaskFails, JobEnds, JobFails, ResourceDisposed
<1>9. UNCHANGED kill => kill[s].pc = "no"
  BY <1>1
<1> QED
  BY <1>2, <1>3, <1>4, <1>5, <1>6, <1>7, <1>8, <1>9 DEF Next

\* A single kill keeps track of all it has to dispose of.
LEMMA CleanStep ==
    ASSUME TypeOK, PastTasks, CleanInv, Next, NoSignal'
    PROVE  CleanInv'
<1> DEFINE Frame == UNCHANGED <<kill, resource, entered, registered, watch>>
<1>0. /\ Watcher \in Kills /\ Logger \in Resources
      /\ \A k \in Kills : k # Watcher => kill[k].pc = "no"
  BY NoSignalBefore DEF Kills, Resources, NoSignal
<1>1. ASSUME Frame, UNCHANGED task PROVE CleanInv'
  BY <1>1 DEF CleanInv, WatchedOnce, Untouched, LoggerLast, Held, Listed, Walked, Gone,
              Started, Past, Pc
<1>2. ASSUME NEW t \in Tasks, TaskStarts(t) PROVE CleanInv'
  <2>1. ~Past(Watcher)
    BY <1>0, <1>2 DEF TaskStarts, PastTasks
  <2>2. UNCHANGED <<kill, resource, entered, watch>>
    BY <1>2 DEF TaskStarts
  <2>3. Started' \subseteq Started \cup ({t} \cap Disposables)
    BY <1>2 DEF TaskStarts, Started, TypeOK
  <2>4. Started \subseteq ToSet(registered)
    BY <2>1 DEF CleanInv, Listed, Past, Pc
  <2>5. Started' \subseteq ToSet(registered')
    <3>1. CASE t \in Disposables
      BY <1>2, <2>3, <2>4, <3>1, AppendHas DEF TaskStarts, TypeOK
    <3>2. CASE t \notin Disposables
      BY <1>2, <2>3, <2>4, <3>2 DEF TaskStarts
    <3> QED
      BY <3>1, <3>2
  <2> QED
    BY <2>1, <2>2, <2>5
    DEF CleanInv, WatchedOnce, Untouched, LoggerLast, Held, Listed, Walked, Gone, Past, Pc
<1>3. ASSUME NEW t \in Tasks, TaskFails(t) PROVE CleanInv'
  <2>1. Started' \subseteq Started
    BY <1>3 DEF TaskFails, Started, TypeOK
  <2> QED
    BY <1>3, <2>1
    DEF TaskFails, CleanInv, WatchedOnce, Untouched, LoggerLast, Held, Listed, Walked, Gone,
        Past, Pc
<1>4. ASSUME NEW code, Killed(Watcher, code), watch' \notin {"starting", "watching"},
             Pc = "no", UNCHANGED <<task, resource, entered, registered>>
      PROVE  CleanInv'
  <2>1. Pc' = "starting" /\ kill'[Watcher].waits = kill[Watcher].waits
    BY <1>0, <1>4 DEF Killed, TypeOK, Pc
  <2> QED
    BY <1>4, <2>1
    DEF CleanInv, WatchedOnce, Untouched, LoggerLast, Held, Listed, Walked, Gone, Started,
        Past, Pc
<1>5. CASE WatchStarted
  <2>1. CASE watch' = "watching" /\ UNCHANGED kill
    BY <1>5, <2>1
    DEF WatchStarted, CleanInv, WatchedOnce, Untouched, LoggerLast, Held, Listed, Walked,
        Gone, Started, Past, Pc
  <2>2. CASE watch' = "failed" /\ Killed(Watcher, 1)
    BY <1>4, <1>5, <2>2 DEF WatchStarted, CleanInv, WatchedOnce
  <2> QED
    BY <1>5, <2>1, <2>2 DEF WatchStarted
<1>6. CASE WatchEnds
  BY <1>4, <1>6 DEF WatchEnds, CleanInv, WatchedOnce
<1>7. CASE KillHeartbeats(Watcher)
  <2> DEFINE rs == Live({t \in Runnables : life[t] = "beats"})
  <2>1. Disposes(rs) /\ UNCHANGED <<task, watch, registered, entered>>
    BY <1>7 DEF KillHeartbeats
  <2>2. Pc' = "beats" /\ kill'[Watcher].waits = rs /\ Pc = "starting"
    BY <1>0, <1>7 DEF KillHeartbeats, TypeOK, Pc
  <2>3. Logger \notin rs
    BY RuntimeAssumption DEF Live
  <2> HIDE DEF rs
  <2>4. \A r \in Resources : resource'[r] = IF r \in rs THEN "disposing" ELSE "live"
    BY <2>1, <2>2 DEF Disposes, CleanInv, Untouched, Past, Pc
  <2> QED
    BY <1>0, <2>1, <2>2, <2>3, <2>4
    DEF CleanInv, WatchedOnce, Untouched, LoggerLast, Held, Listed, Walked, Gone, Started,
        Past, Pc
<1>8. CASE KillRuntime(Watcher)
  <2>1. UNCHANGED <<task, watch, resource>> /\ Pc = "beats" /\ entered'
    BY <1>8 DEF KillRuntime, Pc
  <2>2. ~entered
    BY <2>1 DEF CleanInv, Listed
  <2>3. Pc' = "walking" /\ kill'[Watcher].waits = {} /\ kill'[Watcher].rest = registered
    BY <1>0, <1>8, <2>2 DEF KillRuntime, TypeOK, Pc
  <2>4. \A r \in Resources : resource[r] # "disposing"
    BY <1>8 DEF KillRuntime, Waited, CleanInv, Held
  <2> QED
    BY <2>1, <2>2, <2>3, <2>4
    DEF CleanInv, WatchedOnce, Untouched, LoggerLast, Held, Listed, Walked, Gone, Started,
        Past, Pc
<1>9. CASE KillWalks(Watcher)
  <2> DEFINE rest == kill[Watcher].rest
             next == Live({Head(rest)})
  <2>1. UNCHANGED <<task, watch, registered, entered>> /\ Pc = "walking" /\ Disposes(next)
    BY <1>9 DEF KillWalks, Pc
  <2>2. Pc' = "walking" /\ kill'[Watcher].waits = next /\ kill'[Watcher].rest = Tail(rest)
    BY <1>0, <1>9 DEF KillWalks, TypeOK, Pc
  <2>3. rest \in Seq(Disposables) /\ rest # <<>>
    BY <1>0, <1>9 DEF KillWalks, TypeOK
  <2>4. \A r \in Resources : resource[r] # "disposing"
    BY <1>9 DEF KillWalks, Waited, CleanInv, Held
  <2>5. Logger \notin next
    BY <2>3, RuntimeAssumption DEF Live
  <2>6. \A r \in Started : r \in ToSet(rest) => r = Head(rest) \/ r \in ToSet(Tail(rest))
    BY <2>3, TailHas
  <2>7. Started \subseteq Resources
    BY DEF Started, Resources
  <2>8. \A r \in Resources : resource'[r] = IF r \in next THEN "disposing" ELSE resource[r]
    BY <2>1 DEF Disposes
  <2>9. \A r \in Resources : r = Head(rest) => r \in next \/ resource[r] # "live"
    BY DEF Live
  <2> HIDE DEF next, rest
  <2>10. \A r \in Started : r \in ToSet(rest) \/ resource[r] # "live"
    BY <2>1 DEF CleanInv, Walked, rest
  <2>11. Walked'
    BY <2>1, <2>2, <2>6, <2>7, <2>8, <2>9, <2>10 DEF Walked, Started
  <2> QED
    BY <1>0, <2>1, <2>2, <2>4, <2>5, <2>8, <2>11
    DEF CleanInv, WatchedOnce, Untouched, LoggerLast, Held, Listed, Gone, Started, Past, Pc
<1>10. CASE KillLogger(Watcher)
  <2>1. /\ UNCHANGED <<task, watch, registered, entered>>
        /\ Pc = "walking"
        /\ kill[Watcher].rest = <<>>
        /\ Disposes(Live({Logger}))
    BY <1>10 DEF KillLogger, Pc
  <2>2. Pc' = "logger" /\ kill'[Watcher].waits = Live({Logger})
    BY <1>0, <1>10 DEF KillLogger, TypeOK, Pc
  <2>3. \A r \in Resources : resource[r] # "disposing"
    BY <1>10 DEF KillLogger, Waited, CleanInv, Held
  <2>4. Live({Logger}) = {Logger}
    BY <1>0, <2>1 DEF CleanInv, LoggerLast, Live
  <2>5. \A r \in Resources : resource'[r] = IF r = Logger THEN "disposing" ELSE resource[r]
    BY <2>1, <2>4 DEF Disposes
  <2>6. Started \subseteq Resources /\ Logger \notin Started
    BY RuntimeAssumption DEF Started, Resources
  <2>7. \A r \in Started : resource[r] = "disposed"
    <3>1. \A r \in Started : r \notin ToSet(<<>>)
      BY DEF ToSet
    <3> QED
      BY <2>1, <2>3, <2>6, <3>1 DEF CleanInv, Walked, TypeOK
  <2>8. Gone'
    BY <1>0, <2>1, <2>2, <2>5, <2>6, <2>7 DEF Gone, Started
  <2> QED
    BY <1>0, <2>1, <2>2, <2>3, <2>4, <2>5, <2>8
    DEF CleanInv, WatchedOnce, Untouched, LoggerLast, Held, Listed, Walked, Past, Pc, Started
<1>11. CASE KillEnds(Watcher)
  <2>1. UNCHANGED <<task, watch, registered, entered, resource>> /\ Pc = "logger"
    BY <1>11 DEF KillEnds, Pc
  <2>2. Pc' = "done" /\ kill'[Watcher].waits = kill[Watcher].waits
    BY <1>0, <1>11 DEF KillEnds, TypeOK, Pc
  <2>3. resource[Logger] = "disposed"
    BY <1>0, <1>11, <2>1 DEF KillEnds, Waited, CleanInv, Held, Gone, TypeOK
  <2> QED
    BY <2>1, <2>2, <2>3
    DEF CleanInv, WatchedOnce, Untouched, LoggerLast, Held, Listed, Walked, Gone, Started,
        Past, Pc
<1>12. ASSUME NEW r \in Resources, ResourceDisposed(r) PROVE CleanInv'
  <2>1. /\ UNCHANGED <<task, watch, registered, entered, kill>>
        /\ resource[r] = "disposing"
        /\ \A q \in Resources : resource'[q] = IF q = r THEN "disposed" ELSE resource[q]
    BY <1>12 DEF ResourceDisposed, TypeOK
  <2>2. Started \subseteq Resources
    BY DEF Started, Resources
  <2> QED
    BY <1>0, <2>1, <2>2
    DEF CleanInv, WatchedOnce, Untouched, LoggerLast, Held, Listed, Walked, Gone, Started,
        Past, Pc
<1>13. ASSUME NEW k \in Kills, KillStep(k) PROVE CleanInv'
  <2>1. kill[k].pc # "no"
    BY <1>13 DEF KillStep, KillHeartbeats, KillRuntime, KillWalks, KillLogger, KillEnds
  <2>2. k = Watcher
    BY <1>0, <2>1
  <2> QED
    BY <1>7, <1>8, <1>9, <1>10, <1>11, <1>13, <2>2 DEF KillStep
<1>14. ASSUME NEW t \in Tasks, JobEnds(t) \/ JobFails(t) PROVE CleanInv'
  BY <1>1, <1>14 DEF JobEnds, JobFails
<1> QED
  BY <1>2, <1>3, <1>5, <1>6, <1>12, <1>13, <1>14, NoSignalBefore DEF Next, TaskStep

\* As long as no signal comes, the process exits only after everything has been
\* disposed of.
THEOREM SingleKillIsClean == Spec => []KillIsClean
<1> DEFINE Inv == PastTasks /\ (NoSignal => CleanInv)
<1>1. Init => Inv
  <2> SUFFICES ASSUME Init PROVE PastTasks /\ CleanInv
    OBVIOUS
  <2>1. Watcher \in Kills /\ Logger \in Resources
    BY DEF Kills, Resources
  <2>2. Pc = "no" /\ Started = {}
    BY <2>1, RuntimeAssumption DEF Init, Pc, NoKill, Started
  <2> QED
    BY <2>1, <2>2
    DEF Init, NoKill, PastTasks, Past, CleanInv, WatchedOnce, Untouched, LoggerLast, Held,
        Listed, Walked, Gone, Pc
<1>2. TypeOK /\ Inv /\ [Next]_vars => Inv'
  <2> SUFFICES ASSUME TypeOK, PastTasks, NoSignal => CleanInv, [Next]_vars
               PROVE  PastTasks' /\ (NoSignal' => CleanInv')
    OBVIOUS
  <2>1. CASE UNCHANGED vars
    BY <2>1 DEF vars, PastTasks, CleanInv, WatchedOnce, Untouched, LoggerLast, Held, Listed,
                Walked, Gone, Started, Past, Pc, Settled, NoSignal
  <2>2. CASE Next
    BY <2>2, TasksSettle, NoSignalBefore, CleanStep
  <2> QED
    BY <2>1, <2>2
<1>3. Inv => KillIsClean
  <2> SUFFICES ASSUME NoSignal, CleanInv, NEW k \in Kills, kill[k].pc = "done"
               PROVE  /\ \A r \in Started : resource[r] = "disposed"
                      /\ resource[Logger] = "disposed"
    BY DEF KillIsClean, KillDisposes
  <2>1. k = Watcher
    BY DEF NoSignal, Kills
  <2> QED
    BY <2>1 DEF CleanInv, Gone, Pc
<1> QED
  BY <1>1, <1>2, <1>3, RuntimeTypeCorrect, PTL DEF Spec

------------------------------------------------------------------------------
(***************************************************************************)
(* The exit code                                                           *)
(***************************************************************************)

\* What watch() found when it killed is still so, since what has settled stays
\* settled; and somebody has killed a process that exited.
CodeInv ==
    /\ watch = "starting" \/ watch = "watching" => Pc = "no"
    /\ watch \in {"watching", "ended"} => \A t \in Tasks : task[t] = "fulfilled"
    /\ watch = "failed" =>
        kill[Watcher].code = 1 /\ \E t \in Tasks : task[t] = "rejected"
    /\ watch = "ended" =>
        IF kill[Watcher].code = 0 THEN \A t \in Runnables : life[t] = "fulfilled"
                                  ELSE \E t \in Runnables : life[t] = "rejected"
    /\ process = "exited" => \E k \in Kills : kill[k].pc = "done"

\* A kill only gets on with itself, and keeps its code.
LEMMA KillGoesOn ==
    ASSUME TypeOK, NEW k \in Kills, KillStep(k)
    PROVE  /\ UNCHANGED <<task, watch>>
           /\ kill[k].pc # "no"
           /\ \A j \in Kills : /\ kill'[j].code = kill[j].code
                               /\ kill'[j].pc = "no" <=> kill[j].pc = "no"
                               /\ kill[j].pc = "done" => kill'[j].pc = "done"
           /\ \A t \in Runnables : life[t] # "beats" => life'[t] = life[t]
           /\ process' = process \/ kill'[k].pc = "done"
<1>1. CASE KillHeartbeats(k)
  BY <1>1 DEF KillHeartbeats, TypeOK
<1>2. CASE KillRuntime(k)
  BY <1>2 DEF KillRuntime, TypeOK
<1>3. CASE KillWalks(k)
  BY <1>3 DEF KillWalks, TypeOK
<1>4. CASE KillLogger(k)
  BY <1>4 DEF KillLogger, TypeOK
<1>5. CASE KillEnds(k)
  BY <1>5 DEF KillEnds, TypeOK
<1> QED
  BY <1>1, <1>2, <1>3, <1>4, <1>5 DEF KillStep

\* Every step keeps it.
LEMMA CodeStep ==
    ASSUME TypeOK, CodeInv, [Next]_vars
    PROVE  CodeInv'
<1> USE DEF CodeInv, Pc
<1>1. Watcher \in Kills /\ Signals \subseteq Kills \ {Watcher}
  BY RuntimeAssumption DEF Kills
<1>2. ASSUME UNCHANGED <<task, watch, kill>>, process' # "exited",
             \A t \in Runnables : life[t] # "beats" => life'[t] = life[t]
      PROVE  CodeInv'
  BY <1>2
<1>3. ASSUME NEW t \in Tasks, TaskStarts(t) PROVE CodeInv'
  <2>1. /\ UNCHANGED <<watch, kill, process>> /\ task[t] = "pending"
        /\ task' = [task EXCEPT ![t] = "fulfilled"]
    BY <1>3 DEF TaskStarts, Settled, TypeOK
  <2>2. watch \in {"starting", "failed"}
    BY <2>1 DEF TypeOK
  <2>3. \A u \in Tasks : task[u] = "rejected" => task'[u] = "rejected"
    BY <2>1 DEF TypeOK
  <2> QED
    BY <2>1, <2>2, <2>3
<1>4. ASSUME NEW t \in Tasks, TaskFails(t) PROVE CodeInv'
  <2>1. /\ UNCHANGED <<watch, kill, process>> /\ task[t] = "pending"
        /\ task' = [task EXCEPT ![t] = "rejected"]
    BY <1>4 DEF TaskFails, Settled, TypeOK
  <2>2. watch \in {"starting", "failed"}
    BY <2>1 DEF TypeOK
  <2>3. \A u \in Tasks : task[u] = "rejected" => task'[u] = "rejected"
    BY <2>1 DEF TypeOK
  <2> QED
    BY <2>1, <2>2, <2>3
<1>5. ASSUME NEW t \in Tasks, JobEnds(t) \/ JobFails(t) PROVE CodeInv'
  <2>1. UNCHANGED <<task, watch, kill>> /\ process' # "exited"
    BY <1>5 DEF JobEnds, JobFails, Alive
  <2>2. \A u \in Runnables : life[u] # "beats" => life'[u] = life[u]
    BY <1>5 DEF JobEnds, JobFails, TypeOK
  <2> QED
    BY <1>2, <2>1, <2>2
<1>6. CASE WatchStarted
  <2>1. Alive /\ process' = process /\ watch = "starting" /\ UNCHANGED <<task, life>>
    BY <1>6 DEF WatchStarted
  <2>2. CASE (\A t \in Tasks : task[t] = "fulfilled") /\ watch' = "watching" /\ UNCHANGED kill
    BY <2>1, <2>2 DEF Alive
  <2>3. CASE (\E t \in Tasks : task[t] = "rejected") /\ watch' = "failed" /\ Killed(Watcher, 1)
    <3>1. kill'[Watcher].code = 1
      BY <1>1, <2>3 DEF Killed, TypeOK
    <3> QED
      BY <2>1, <2>3, <3>1 DEF Alive
  <2> QED
    BY <1>6, <2>2, <2>3 DEF WatchStarted
<1>7. CASE WatchEnds
  <2>1. /\ Alive /\ process' = process /\ watch = "watching" /\ watch' = "ended"
        /\ UNCHANGED <<task, life>>
    BY <1>7 DEF WatchEnds
  <2>2. PICK code \in {0, 1} :
        /\ Killed(Watcher, code)
        /\ IF code = 0 THEN \A t \in Runnables : life[t] = "fulfilled"
                       ELSE \E t \in Runnables : life[t] = "rejected"
    BY <1>7 DEF WatchEnds
  <2>3. kill'[Watcher].code = code
    BY <1>1, <2>2 DEF Killed, TypeOK
  <2> QED
    BY <2>1, <2>2, <2>3 DEF Alive
<1>8. ASSUME NEW s \in Signals, Signal(s) PROVE CodeInv'
  <2>1. kill'[Watcher] = kill[Watcher] /\ Alive /\ UNCHANGED <<process, task, life, watch>>
    BY <1>1, <1>8 DEF Signal, Killed, TypeOK
  <2> QED
    BY <2>1 DEF Alive
<1>9. ASSUME NEW k \in Kills, KillStep(k) PROVE CodeInv'
  <2>1. process' = "exited" => \E j \in Kills : kill'[j].pc = "done"
    BY <1>9, KillGoesOn
  <2>2. /\ kill'[Watcher].code = kill[Watcher].code /\ (Pc' = "no" <=> Pc = "no")
        /\ UNCHANGED <<task, watch>>
    BY <1>1, <1>9, KillGoesOn
  <2>3. \A t \in Runnables : life[t] # "beats" => life'[t] = life[t]
    BY <1>9, KillGoesOn
  <2> QED
    BY <2>1, <2>2, <2>3
<1>10. CASE (\E r \in Resources : ResourceDisposed(r)) \/ UNCHANGED vars
  BY <1>10 DEF ResourceDisposed, vars
<1> QED
  BY <1>3, <1>4, <1>5, <1>6, <1>7, <1>8, <1>9, <1>10 DEF Next, TaskStep

\* Without a signal the exit code tells the truth, whatever was disposed of or
\* failed in the meantime: 0 exactly when every task started and every heartbeat
\* stopped by itself.
THEOREM ExitCodeTellsTheTruth == Spec => []ExitCodeIsTrue
<1>1. Init => CodeInv
  <2>1. Watcher \in Kills
    BY DEF Kills
  <2> QED
    BY <2>1 DEF Init, NoKill, CodeInv, Pc
<1>2. TypeOK /\ CodeInv /\ [Next]_vars => CodeInv'
  BY CodeStep
<1>3. TypeOK /\ CodeInv => ExitCodeIsTrue
  <2> SUFFICES ASSUME TypeOK, CodeInv, process = "exited", NoSignal PROVE ExitCodeIsTrue
    BY DEF ExitCodeIsTrue
  <2>1. PICK k \in Kills : kill[k].pc = "done"
    BY DEF CodeInv
  <2>2. k = Watcher
    BY <2>1 DEF NoSignal, Kills
  <2>3. watch \in {"failed", "ended"}
    BY <2>1, <2>2 DEF CodeInv, Pc, TypeOK
  <2> QED
    BY <2>3 DEF CodeInv, ExitCodeIsTrue
<1> QED
  BY <1>1, <1>2, <1>3, RuntimeTypeCorrect, PTL DEF Spec

=============================================================================
