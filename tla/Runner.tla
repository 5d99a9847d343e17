-------------------------------- MODULE Runner --------------------------------
(***************************************************************************)
(* Runner of @bunt/task: one #process() for each registered configuration, *)
(* the iterators it polls, the tasks it starts and does not wait for, the  *)
(* ConcurrencyLimiters that hold it up, and what the disposer of the       *)
(* configuration writes back when a task has been run.                     *)
(*                                                                         *)
(* While the heartbeat beats a process takes one task of an iterator and   *)
(* sleeps; once it has stopped a process takes all that is left.  Where    *)
(* the tasks are kept is the user's: Claims says whether a poll marks what *)
(* it hands out as running, which the states of ITask are made for and the *)
(* store of the package's tests does not do.                               *)
(***************************************************************************)
EXTENDS Naturals, FiniteSets, SequencesExt

CONSTANTS
    Processes,      \* the registered configurations
    Tasks,          \* the tasks in the store
    Source,         \* the tasks the iterators of each process poll
    Limiters,       \* instances of ConcurrencyLimiter
    LimitersOf,     \* those in the options of each process
    Limit,          \* #limit of each
    Retries,        \* options.retries.max of each process, 0 without the option
    Polling,        \* config.polling is not false
    Claims,         \* a poll marks the task it hands out as running
    Faults,         \* what may throw: "factory", "poll", "close", "write"
    MaxAgain,       \* bound: how often an action asks to be run again
    MaxRuns         \* bound: how many runs there are at most

ASSUME RunnerAssumption ==
    /\ IsFiniteSet(Processes)
    /\ Source \in [Processes -> SUBSET Tasks]
    /\ LimitersOf \in [Processes -> SUBSET Limiters]
    /\ Limit \in [Limiters -> Nat \ {0}]
    /\ Retries \in [Processes -> Nat]
    /\ Polling \in BOOLEAN /\ Claims \in BOOLEAN
    /\ Faults \subseteq {"factory", "poll", "close", "write"}
    /\ MaxAgain \in Nat /\ MaxRuns \in Nat

VARIABLES
    alive,          \* no rejection was left unhandled
    beats,          \* the heartbeat has not been disposed
    pc,             \* how far each #process() is
    waits,          \* the runs each waits for in its limiters
    open,           \* iterators made less calls of their dispose(), of each
    store,          \* the task records: state, fails, and whether runAt is past
    run,            \* the calls of enqueue(), in the order they were made
    failures,       \* history: how often the action threw, of each task
    again           \* history: how often it asked to be run again

vars == <<alive, beats, pc, waits, open, store, run, failures, again>>
procVars == <<pc, waits, open>>
taskVars == <<store, run, failures, again>>

RunIds == DOMAIN run
Settled(i) == run[i].phase = "settled"
InFlight(p) == {i \in RunIds : run[i].proc = p /\ ~Settled(i)}

\* #queue of a limiter: every process that has it enqueues all its runs.
Queue(l) == {i \in RunIds : l \in LimitersOf[run[i].proc] /\ ~Settled(i)}

Due(p) == {t \in Source[p] : store[t].state = "READY" /\ store[t].due}

Fails(p) ==
    /\ pc' = [pc EXCEPT ![p] = "failed"]
    /\ UNCHANGED <<alive, beats, waits, open, store, run, failures, again>>

------------------------------------------------------------------------------
(***************************************************************************)
(* #process()                                                              *)
(***************************************************************************)

FactoryReturns(p) ==
    /\ alive
    /\ pc[p] = "factory"
    /\ pc' = [pc EXCEPT ![p] = "polling"]
    /\ open' = [open EXCEPT ![p] = @ + 1]
    /\ UNCHANGED <<alive, beats, waits>>
    /\ UNCHANGED taskVars

FactoryThrows(p) ==
    /\ alive
    /\ "factory" \in Faults
    /\ pc[p] = "factory"
    /\ Fails(p)

\* Mutant: the loop is left without return() of the iterator.
OnwardLeaves(p) ==
    /\ pc' = [pc EXCEPT ![p] = IF beats THEN "closing" ELSE "polling"]
    /\ UNCHANGED open

\* The end of the loop's body: break, which calls return(), or the next poll.
Onward(p) ==
    IF beats
    THEN /\ pc' = [pc EXCEPT ![p] = "closing"]
         /\ open' = [open EXCEPT ![p] = @ - 1]
    ELSE /\ pc' = [pc EXCEPT ![p] = "polling"]
         /\ UNCHANGED open

\* Mutant: the limiter lets one more through.
HeldLate(p, i) ==
    UNION {Queue(l) \cup {i} :
           l \in {m \in LimitersOf[p] : Cardinality(Queue(m)) + 1 > Limit[m]}}

\* What limit() of the full limiters waits for when run i has been added.
Held(p, i) ==
    UNION {Queue(l) \cup {i} :
           l \in {m \in LimitersOf[p] : Cardinality(Queue(m)) + 1 >= Limit[m]}}

\* The run starts before any limiter is asked.
PollTakes(p) ==
    /\ alive
    /\ pc[p] = "polling"
    /\ Len(run) < MaxRuns
    /\ \E t \in Due(p) :
        /\ store' = IF Claims THEN [store EXCEPT ![t].state = "RUNNING"] ELSE store
        /\ run' = Append(run, [proc |-> p, task |-> t, phase |-> "running",
                               next |-> [store[t] EXCEPT !.state = "DONE"]])
    /\ IF LimitersOf[p] = {}
       THEN Onward(p) /\ UNCHANGED waits
       ELSE /\ pc' = [pc EXCEPT ![p] = "limited"]
            /\ waits' = [waits EXCEPT ![p] = Held(p, Len(run) + 1)]
            /\ UNCHANGED open
    /\ UNCHANGED <<alive, beats, failures, again>>

\* next() of the iterator calls return(), which disposes of it.
PollEmpty(p) ==
    /\ alive
    /\ pc[p] = "polling"
    /\ Due(p) = {}
    /\ pc' = [pc EXCEPT ![p] = "closing"]
    /\ open' = [open EXCEPT ![p] = @ - 1]
    /\ UNCHANGED <<alive, beats, waits>>
    /\ UNCHANGED taskVars

PollThrows(p) ==
    /\ alive
    /\ "poll" \in Faults
    /\ pc[p] = "polling"
    /\ Fails(p)

Admitted(p) ==
    /\ alive
    /\ pc[p] = "limited"
    /\ \A i \in waits[p] : Settled(i)
    /\ Onward(p)
    /\ waits' = [waits EXCEPT ![p] = {}]
    /\ UNCHANGED <<alive, beats>>
    /\ UNCHANGED taskVars

\* Mutant: the loop does not end.
ClosedOn(p) ==
    /\ alive
    /\ pc[p] = "closing"
    /\ pc' = [pc EXCEPT ![p] = IF beats THEN "sleeping" ELSE "factory"]
    /\ UNCHANGED <<alive, beats, waits, open>>
    /\ UNCHANGED taskVars

Closed(p) ==
    /\ alive
    /\ pc[p] = "closing"
    /\ pc' = [pc EXCEPT ![p] = IF Polling /\ beats THEN "sleeping" ELSE "draining"]
    /\ UNCHANGED <<alive, beats, waits, open>>
    /\ UNCHANGED taskVars

CloseThrows(p) ==
    /\ alive
    /\ "close" \in Faults
    /\ pc[p] = "closing"
    /\ Fails(p)

Slept(p) ==
    /\ alive
    /\ pc[p] = "sleeping"
    /\ pc' = [pc EXCEPT ![p] = IF beats THEN "factory" ELSE "draining"]
    /\ UNCHANGED <<alive, beats, waits, open>>
    /\ UNCHANGED taskVars

\* Mutant: what is under way is not awaited.
DrainedAtOnce(p) ==
    /\ alive
    /\ pc[p] = "draining"
    /\ pc' = [pc EXCEPT ![p] = "ended"]
    /\ UNCHANGED <<alive, beats, waits, open>>
    /\ UNCHANGED taskVars

Drained(p) ==
    /\ alive
    /\ pc[p] = "draining"
    /\ InFlight(p) = {}
    /\ pc' = [pc EXCEPT ![p] = "ended"]
    /\ UNCHANGED <<alive, beats, waits, open>>
    /\ UNCHANGED taskVars

------------------------------------------------------------------------------
(***************************************************************************)
(* enqueue()                                                               *)
(***************************************************************************)

Moves(i, phase, next) ==
    run' = [run EXCEPT ![i] = [@ EXCEPT !.phase = phase, !.next = next]]

\* getTaskUpgradeState(): done, rejected by the action itself, or to be run
\* again at a date, with the fails it had.
RunReturns(i) ==
    /\ alive
    /\ run[i].phase = "running"
    /\ LET t == run[i].task
           next == run[i].next
       IN  \/ Moves(i, "writing", next) /\ UNCHANGED again
           \/ Moves(i, "writing", [next EXCEPT !.state = "REJECTED"]) /\ UNCHANGED again
           \/ /\ again[t] < MaxAgain
              /\ again' = [again EXCEPT ![t] = @ + 1]
              /\ Moves(i, "writing", [next EXCEPT !.state = "READY", !.due = FALSE])
    /\ UNCHANGED <<alive, beats, store, failures>>
    /\ UNCHANGED procVars

\* Mutant: the count is lost when the task is scheduled again.
RetriedForgets(p, next) ==
    LET fails == next.fails + 1
    IN  IF fails <= Retries[p]
        THEN [state |-> "READY", fails |-> 0, due |-> FALSE]
        ELSE [next EXCEPT !.state = "REJECTED", !.fails = fails]

Retried(p, next) ==
    LET fails == next.fails + 1
    IN  IF fails <= Retries[p]
        THEN [state |-> "READY", fails |-> fails, due |-> FALSE]
        ELSE [next EXCEPT !.state = "REJECTED", !.fails = fails]

RunThrows(i) ==
    /\ alive
    /\ run[i].phase = "running"
    /\ Moves(i, "writing", Retried(run[i].proc, run[i].next))
    /\ failures' = [failures EXCEPT ![run[i].task] = @ + 1]
    /\ UNCHANGED <<alive, beats, store, again>>
    /\ UNCHANGED procVars

\* The disposer has written the record, and the promise of the run resolves.
Written(i) ==
    /\ alive
    /\ run[i].phase = "writing"
    /\ store' = [store EXCEPT ![run[i].task] = run[i].next]
    /\ Moves(i, "settled", run[i].next)
    /\ UNCHANGED <<alive, beats, failures, again>>
    /\ UNCHANGED procVars

\* The promises that finally() has derived from the run are rejected, and
\* nobody handles them.
WriteThrows(i) ==
    /\ alive
    /\ "write" \in Faults
    /\ run[i].phase = "writing"
    /\ alive' = FALSE
    /\ UNCHANGED <<beats, taskVars>>
    /\ UNCHANGED procVars

------------------------------------------------------------------------------
\* dispose(): the heartbeat stops, and nothing is awaited.
Stop ==
    /\ alive
    /\ beats
    /\ beats' = FALSE
    /\ UNCHANGED <<alive, taskVars>>
    /\ UNCHANGED procVars

\* runAt of a task has come.
TimePasses(t) ==
    /\ alive
    /\ ~store[t].due
    /\ store' = [store EXCEPT ![t].due = TRUE]
    /\ UNCHANGED <<alive, beats, run, failures, again>>
    /\ UNCHANGED procVars

Init ==
    /\ alive = TRUE
    /\ beats = TRUE
    /\ pc = [p \in Processes |-> "factory"]
    /\ waits = [p \in Processes |-> {}]
    /\ open = [p \in Processes |-> 0]
    /\ store = [t \in Tasks |-> [state |-> "READY", fails |-> 0, due |-> TRUE]]
    /\ run = <<>>
    /\ failures = [t \in Tasks |-> 0]
    /\ again = [t \in Tasks |-> 0]

ProcessStep(p) ==
    \/ FactoryReturns(p) \/ FactoryThrows(p)
    \/ PollTakes(p) \/ PollEmpty(p) \/ PollThrows(p)
    \/ Admitted(p) \/ Closed(p) \/ CloseThrows(p) \/ Slept(p) \/ Drained(p)

RunStep(i) == RunReturns(i) \/ RunThrows(i) \/ Written(i) \/ WriteThrows(i)

Next ==
    \/ \E p \in Processes : ProcessStep(p)
    \/ \E i \in RunIds : RunStep(i)
    \/ \E t \in Tasks : TimePasses(t)
    \/ Stop

Spec == Init /\ [][Next]_vars

(***************************************************************************)
(* Promises are heard of, timers fire, the store answers, an action ends.  *)
(* Nobody has to call dispose().                                           *)
(***************************************************************************)
Fairness ==
    /\ \A p \in Processes : WF_vars(ProcessStep(p))
    /\ \A i \in 1..MaxRuns : WF_vars(i \in RunIds /\ RunStep(i))
    /\ \A t \in Tasks : WF_vars(TimePasses(t))

FairSpec == Spec /\ Fairness

------------------------------------------------------------------------------
(***************************************************************************)
(* Properties                                                              *)
(***************************************************************************)

Records == [state : {"READY", "RUNNING", "REJECTED", "DONE"}, fails : Nat, due : BOOLEAN]

\* What each variable of the runner may hold.
TypeOK ==
    /\ alive \in BOOLEAN
    /\ beats \in BOOLEAN
    /\ pc \in [Processes -> {"factory", "polling", "limited", "closing", "sleeping",
                             "draining", "ended", "failed"}]
    /\ waits \in [Processes -> SUBSET RunIds]
    /\ open \in [Processes -> Nat]
    /\ store \in [Tasks -> Records]
    /\ run \in Seq([proc : Processes, task : Tasks, next : Records,
                    phase : {"running", "writing", "settled"}])
    /\ failures \in [Tasks -> Nat]
    /\ again \in [Tasks -> Nat]

\* The promise of handle().
Handle ==
    CASE \E p \in Processes : pc[p] = "failed" -> "rejected"
      [] \A p \in Processes : pc[p] = "ended"  -> "fulfilled"
      [] OTHER                                 -> "pending"

\* When handle() resolves, every run has ended and has been written back, and
\* no task is left marked as running.
HandleIsComplete ==
    Handle = "fulfilled" =>
        /\ \A i \in RunIds : Settled(i)
        /\ \A t \in Tasks : store[t].state # "RUNNING"

\* Each iterator is disposed of once, whether it ran dry or was left by break,
\* before the next one is made; but one whose poll has thrown is not.
IteratorsAreReleased ==
    \A p \in Processes :
        /\ pc[p] \in {"polling", "limited"} => open[p] = 1
        /\ pc[p] = "failed" => open[p] \in {0, 1}
        /\ pc[p] \notin {"polling", "limited", "failed"} => open[p] = 0

\* A limiter lets as many runs go on as its limit, and one more for each
\* further process that shares it: a run is started before it is counted.
WithinLimit ==
    \A l \in Limiters :
        Cardinality(Queue(l)) + 1 <=
            Limit[l] + Cardinality({p \in Processes : l \in LimitersOf[p]})

\* A task whose poll marks it is in the hands of one run exactly as long as it
\* is marked.
OneRunPerTask ==
    \A t \in Tasks :
        Cardinality({i \in RunIds : run[i].task = t /\ ~Settled(i)}) =
            IF store[t].state = "RUNNING" THEN 1 ELSE 0

\* The action of a task throws once more than retries.max at most, and as often
\* before the task is given up, unless the action itself gives it up.
RetriesAreCounted ==
    \A p \in Processes : \A t \in Source[p] :
        /\ failures[t] <= Retries[p] + 1
        /\ failures[t] = Retries[p] + 1 =>
            \/ store[t].state = "REJECTED"
            \/ \E i \in RunIds : run[i].task = t /\ run[i].phase = "writing"
        /\ store[t].state = "READY" => failures[t] <= Retries[p]
        /\ store[t].fails + Cardinality({i \in RunIds : /\ run[i].task = t
                                                        /\ run[i].phase = "writing"
                                                        /\ run[i].next.fails # store[t].fails})
           = failures[t]

\* After dispose(), and without polling at once, handle() settles.
HandleSettles == ~beats \/ ~Polling ~> Handle # "pending" \/ ~alive

\* A task that is ready, or will be, is taken by and by, whatever else is
\* polled, runs, is retried or holds up a limiter.
EveryTaskIsTaken ==
    \A p \in Processes : \A t \in Source[p] :
        store[t].state = "READY" ~> store[t].state # "READY" \/ ~beats \/ ~alive

\* A task that is marked is in the hands of one run, and is given up after as many
\* failures as its configuration allows.
RunsAreCounted == OneRunPerTask /\ RetriesAreCounted

\* handle() settles when it should, and every task is taken.
RunnerGoesOn == HandleSettles /\ EveryTaskIsTaken

==============================================================================
