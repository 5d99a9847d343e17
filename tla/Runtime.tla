------------------------------- MODULE Runtime -------------------------------
(***************************************************************************)
(* Runtime of @bunt/unit, the heartbeats it watches, and disposal: how a   *)
(* process starts its tasks, notices that they have ended, and ends.       *)
(*                                                                         *)
(* A task that starts may return an object: one that is runnable has a     *)
(* heartbeat, which beats until its jobs have ended, one has failed, or it *)
(* is disposed; one that is disposable is put on the runtime's list.  The  *)
(* runtime is killed by watch(), when every heartbeat has stopped or       *)
(* something failed, and by every signal.  Nothing keeps two kills apart   *)
(* but the guard of dispose(), which lets the second caller through        *)
(* without waiting for the first.                                          *)
(***************************************************************************)
EXTENDS Naturals, FiniteSets, SequencesExt

CONSTANTS
    Tasks,          \* the tasks of Runtime.run(), and the objects they return
    Runnables,      \* those with a heartbeat
    Disposables,    \* those with dispose()
    JobCount,       \* how many jobs each heartbeat is given
    Logger,
    Watcher,        \* the kill() of watch()
    Signals         \* the kill() of each signal that may come

ASSUME RuntimeAssumption ==
    /\ Runnables \subseteq Tasks
    /\ Disposables \subseteq Tasks
    /\ JobCount \in [Runnables -> Nat]
    /\ Logger \notin Tasks
    /\ Watcher \notin Signals

VARIABLES
    process,        \* running, exited, or ended by an unhandled rejection
    task,           \* #pending: the promises of handle()
    life,           \* the deferred of each heartbeat
    jobs,           \* how many jobs each heartbeat has in #running
    watch,          \* how far watch() is
    registered,     \* #disposables of the runtime, the heartbeats left out
    entered,        \* dispose() has been called for the runtime
    kill,           \* the calls of kill()
    resource        \* what dispose() has done to each object

vars == <<process, task, life, jobs, watch, registered, entered, kill, resource>>
objectVars == <<task, life, jobs, watch>>

Kills == {Watcher} \cup Signals
Resources == Runnables \cup Disposables \cup {Logger}

KillStates == {"no", "starting", "beats", "walking", "logger", "done"}

NoKill == [pc |-> "no", waits |-> {}, rest |-> <<>>, code |-> 0]

Alive == process = "running"
Settled(t) == task[t] # "pending"
Waited(k) == \A r \in kill[k].waits : resource[r] = "disposed"

------------------------------------------------------------------------------
(***************************************************************************)
(* Tasks and heartbeats                                                    *)
(***************************************************************************)

\* handle(): the task returns its object, whose heartbeat is created with its
\* jobs.
TaskStarts(t) ==
    /\ Alive
    /\ ~Settled(t)
    /\ task' = [task EXCEPT ![t] = "fulfilled"]
    /\ IF t \in Runnables
       THEN /\ life' = [life EXCEPT ![t] = "beats"]
            /\ jobs' = [jobs EXCEPT ![t] = JobCount[t]]
       ELSE UNCHANGED <<life, jobs>>
    /\ registered' = IF t \in Disposables THEN Append(registered, t) ELSE registered
    /\ UNCHANGED <<process, watch, entered, kill, resource>>

TaskFails(t) ==
    /\ Alive
    /\ ~Settled(t)
    /\ task' = [task EXCEPT ![t] = "rejected"]
    /\ UNCHANGED <<process, life, jobs, watch, registered, entered, kill, resource>>

\* finalize(): the last job that ends stops the heartbeat.
JobEnds(t) ==
    /\ Alive
    /\ t \in Runnables
    /\ jobs[t] > 0
    /\ jobs' = [jobs EXCEPT ![t] = @ - 1]
    /\ life' = IF jobs[t] = 1 /\ life[t] = "beats"
               THEN [life EXCEPT ![t] = "fulfilled"] ELSE life
    /\ UNCHANGED <<process, task, watch, registered, entered, kill, resource>>

\* reject(): a job that fails clears the jobs and rejects the life.  Before
\* watch() has come to the heartbeats nobody handles that rejection.
JobFails(t) ==
    /\ Alive
    /\ t \in Runnables
    /\ jobs[t] > 0
    /\ jobs' = [jobs EXCEPT ![t] = 0]
    /\ IF life[t] = "beats"
       THEN /\ life' = [life EXCEPT ![t] = "rejected"]
            /\ process' = IF watch \in {"starting", "failed"} THEN "crashed" ELSE process
       ELSE UNCHANGED <<life, process>>
    /\ UNCHANGED <<task, watch, registered, entered, kill, resource>>

------------------------------------------------------------------------------
(***************************************************************************)
(* watch() and signals                                                     *)
(***************************************************************************)

Killed(k, code) ==
    kill' = [kill EXCEPT ![k].pc = "starting", ![k].code = code]

\* All tasks have started, or one has failed.
WatchStarted ==
    /\ Alive
    /\ watch = "starting"
    /\ \/ /\ \A t \in Tasks : task[t] = "fulfilled"
          /\ watch' = "watching"
          /\ UNCHANGED kill
       \/ /\ \E t \in Tasks : task[t] = "rejected"
          /\ watch' = "failed"
          /\ Killed(Watcher, 1)
    /\ UNCHANGED <<process, task, life, jobs, registered, entered, resource>>

\* Mutant: one heartbeat that has stopped ends the wait for all.
WatchEndsFirst ==
    /\ Alive
    /\ watch = "watching"
    /\ watch' = "ended"
    /\ \E t \in Runnables : \/ life[t] = "fulfilled" /\ Killed(Watcher, 0)
                            \/ life[t] = "rejected" /\ Killed(Watcher, 1)
    /\ UNCHANGED <<process, task, life, jobs, registered, entered, resource>>

\* Mutant: the heartbeats are awaited outside the try.
WatchEndsUncaught ==
    /\ Alive
    /\ watch = "watching"
    /\ watch' = "ended"
    /\ \A t \in Runnables : life[t] = "fulfilled"
    /\ Killed(Watcher, 0)
    /\ UNCHANGED <<process, task, life, jobs, registered, entered, resource>>

\* All heartbeats have stopped, or one has failed.
WatchEnds ==
    /\ Alive
    /\ watch = "watching"
    /\ watch' = "ended"
    /\ \/ /\ \A t \in Runnables : life[t] = "fulfilled"
          /\ Killed(Watcher, 0)
       \/ /\ \E t \in Runnables : life[t] = "rejected"
          /\ Killed(Watcher, 1)
    /\ UNCHANGED <<process, task, life, jobs, registered, entered, resource>>

Signal(s) ==
    /\ Alive
    /\ kill[s].pc = "no"
    /\ Killed(s, 0)
    /\ UNCHANGED <<process, task, life, jobs, watch, registered, entered, resource>>

------------------------------------------------------------------------------
(***************************************************************************)
(* kill() and dispose()                                                    *)
(***************************************************************************)

\* Mutant: dispose() has no guard.
LiveOrNot(rs) == rs

\* dispose() of what has not been given to it before.
Live(rs) == {r \in rs : resource[r] = "live"}

Disposes(rs) == resource' = [r \in Resources |-> IF r \in rs THEN "disposing" ELSE resource[r]]

\* Mutant: the heartbeats are disposed without awaiting it.
KillHeartbeatsUnawaited(k) ==
    /\ Alive
    /\ kill[k].pc = "starting"
    /\ \A t \in Tasks : Settled(t)
    /\ LET beating == {t \in Runnables : life[t] = "beats"}
       IN  /\ life' = [t \in Runnables |-> IF t \in beating THEN "fulfilled" ELSE life[t]]
           /\ Disposes(Live(beating))
           /\ kill' = [kill EXCEPT ![k].pc = "beats"]
    /\ UNCHANGED <<process, task, jobs, watch, registered, entered>>

\* The tasks have settled.  The heartbeats that beat are disposed, all at
\* once, and dispose of their objects; the others do nothing.
KillHeartbeats(k) ==
    /\ Alive
    /\ kill[k].pc = "starting"
    /\ \A t \in Tasks : Settled(t)
    /\ LET beating == {t \in Runnables : life[t] = "beats"}
       IN  /\ life' = [t \in Runnables |-> IF t \in beating THEN "fulfilled" ELSE life[t]]
           /\ Disposes(Live(beating))
           /\ kill' = [kill EXCEPT ![k].pc = "beats", ![k].waits = Live(beating)]
    /\ UNCHANGED <<process, task, jobs, watch, registered, entered>>

\* dispose() of the runtime takes its list, once.
KillRuntime(k) ==
    /\ Alive
    /\ kill[k].pc = "beats"
    /\ Waited(k)
    /\ entered' = TRUE
    /\ registered' = IF entered THEN registered ELSE <<>>
    /\ kill' = [kill EXCEPT ![k].pc = "walking", ![k].waits = {},
                            ![k].rest = IF entered THEN <<>> ELSE registered]
    /\ UNCHANGED <<process, task, life, jobs, watch, resource>>

\* safeMap() awaits one after the other.
KillWalks(k) ==
    /\ Alive
    /\ kill[k].pc = "walking"
    /\ Waited(k)
    /\ kill[k].rest # <<>>
    /\ LET next == Live({Head(kill[k].rest)})
       IN  /\ Disposes(next)
           /\ kill' = [kill EXCEPT ![k].waits = next, ![k].rest = Tail(@)]
    /\ UNCHANGED <<process, task, life, jobs, watch, registered, entered>>

KillLogger(k) ==
    /\ Alive
    /\ kill[k].pc = "walking"
    /\ Waited(k)
    /\ kill[k].rest = <<>>
    /\ Disposes(Live({Logger}))
    /\ kill' = [kill EXCEPT ![k].pc = "logger", ![k].waits = Live({Logger})]
    /\ UNCHANGED <<process, task, life, jobs, watch, registered, entered>>

\* The process exits, whatever else is under way.
KillEnds(k) ==
    /\ Alive
    /\ kill[k].pc = "logger"
    /\ Waited(k)
    /\ kill' = [kill EXCEPT ![k].pc = "done"]
    /\ process' = "exited"
    /\ UNCHANGED <<task, life, jobs, watch, registered, entered, resource>>

\* dispose() of an object ends or throws, which is logged.
ResourceDisposed(r) ==
    /\ Alive
    /\ resource[r] = "disposing"
    /\ resource' = [resource EXCEPT ![r] = "disposed"]
    /\ UNCHANGED <<process, task, life, jobs, watch, registered, entered, kill>>

------------------------------------------------------------------------------
Init ==
    /\ process = "running"
    /\ task = [t \in Tasks |-> "pending"]
    /\ life = [t \in Runnables |-> "none"]
    /\ jobs = [t \in Runnables |-> 0]
    /\ watch = "starting"
    /\ registered = <<>>
    /\ entered = FALSE
    /\ kill = [k \in Kills |-> NoKill]
    /\ resource = [r \in Resources |-> "live"]

TaskStep(t) == TaskStarts(t) \/ TaskFails(t) \/ JobEnds(t) \/ JobFails(t)

KillStep(k) ==
    \/ KillHeartbeats(k) \/ KillRuntime(k) \/ KillWalks(k) \/ KillLogger(k) \/ KillEnds(k)

Next ==
    \/ \E t \in Tasks : TaskStep(t)
    \/ WatchStarted \/ WatchEnds
    \/ \E s \in Signals : Signal(s)
    \/ \E k \in Kills : KillStep(k)
    \/ \E r \in Resources : ResourceDisposed(r)

Spec == Init /\ [][Next]_vars

(***************************************************************************)
(* Promises that have settled are heard of, and dispose() of an object     *)
(* ends.  Nothing is assumed of tasks, jobs and signals.                   *)
(***************************************************************************)
Fairness ==
    /\ WF_vars(WatchStarted)
    /\ WF_vars(WatchEnds)
    /\ \A k \in Kills : WF_vars(KillStep(k))
    /\ \A r \in Resources : WF_vars(ResourceDisposed(r))

FairSpec == Spec /\ Fairness

------------------------------------------------------------------------------
(***************************************************************************)
(* Properties                                                              *)
(***************************************************************************)

\* What each variable of the runtime may hold.
TypeOK ==
    /\ process \in {"running", "exited", "crashed"}
    /\ task \in [Tasks -> {"pending", "fulfilled", "rejected"}]
    /\ life \in [Runnables -> {"none", "beats", "fulfilled", "rejected"}]
    /\ jobs \in [Runnables -> Nat]
    /\ watch \in {"starting", "watching", "failed", "ended"}
    /\ registered \in Seq(Disposables)
    /\ entered \in BOOLEAN
    /\ kill \in [Kills -> [pc : KillStates, waits : SUBSET Resources,
                           rest : Seq(Disposables), code : {0, 1}]]
    /\ resource \in [Resources -> {"live", "disposing", "disposed"}]

\* The objects that were registered with the runtime.
Started == {t \in Disposables : task[t] = "fulfilled"}

\* When a kill() has come to its end, what the tasks returned has been disposed
\* of.
KillDisposes ==
    \A k \in Kills : kill[k].pc = "done" => \A r \in Started : resource[r] = "disposed"

NoSignal == \A s \in Signals : kill[s].pc = "no"

\* Without a signal it has, and the log has been written.
KillIsClean ==
    NoSignal =>
        /\ KillDisposes
        /\ \A k \in Kills : kill[k].pc = "done" => resource[Logger] = "disposed"

\* Nothing is disposed of while a task is starting that may use it.
NothingEarly ==
    \A r \in Resources : resource[r] # "live" => \A t \in Tasks : Settled(t)

\* Without a signal the process exits with code 0 exactly when every task
\* started and every heartbeat stopped by itself.
ExitCodeIsTrue ==
    process = "exited" /\ NoSignal =>
        (kill[Watcher].code = 0) <=> /\ \A t \in Tasks : task[t] = "fulfilled"
                                    /\ \A t \in Runnables : life[t] = "fulfilled"

\* No object is disposed of a second time, however many kills there are, and
\* although an object is known to its heartbeat and to the runtime.
DisposedOnce ==
    [][\A r \in Resources :
        resource[r] # "live" /\ resource'[r] # resource[r] => resource'[r] = "disposed"]_vars

\* A process that was told to end, by a signal or by watch(), ends, unless a task never
\* settles.
KillsEnd ==
    \A k \in Kills : kill[k].pc # "no" ~> ~Alive \/ \E t \in Tasks : ~Settled(t)

\* So does one whose heartbeats have all stopped, or failed: watch() notices.
WatchKills ==
    (\A t \in Tasks : Settled(t)) /\ (\A t \in Runnables : life[t] \notin {"beats"}) ~> ~Alive

\* Every kill ends the process or waits for a task that starts, and a process whose
\* heartbeats have all ended is killed by watch().
ProcessEnds == KillsEnd /\ WatchKills

==============================================================================
