----------------------------- MODULE RunnerProofs -----------------------------
(***************************************************************************)
(* Theorems about Runner, for any configurations, tasks, limiters, retries *)
(* and faults, with polling or without.  The last theorem is about stores  *)
(* that mark the task they hand out, to one configuration; the others hold *)
(* whatever the store marks.                                               *)
(***************************************************************************)
EXTENDS Runner, FiniteSetTheorems, TLAPS

Phases == {"running", "writing", "settled"}
Runs == [proc : Processes, task : Tasks, next : Records, phase : Phases]

PcStates ==
    {"factory", "polling", "limited", "closing", "sleeping", "draining", "ended", "failed"}

------------------------------------------------------------------------------
(***************************************************************************)
(* The calls of enqueue()                                                  *)
(***************************************************************************)

\* A call that goes on remains a call, of the same process and task, and leaves
\* the others alone.
LEMMA RunGoesOn ==
    ASSUME run \in Seq(Runs), NEW i \in RunIds, NEW phase \in Phases, NEW next \in Records,
           Moves(i, phase, next)
    PROVE  /\ run' \in Seq(Runs)
           /\ RunIds' = RunIds
           /\ run'[i].phase = phase
           /\ run'[i].next = next
           /\ \A j \in RunIds : j # i => run'[j] = run[j]
           /\ \A j \in RunIds : run'[j].proc = run[j].proc /\ run'[j].task = run[j].task
<1>1. run[i] \in Runs
  BY DEF RunIds
<1>2. [run[i] EXCEPT !.phase = phase, !.next = next] \in Runs
  BY <1>1 DEF Runs
<1>3. /\ DOMAIN run' = DOMAIN run
      /\ run'[i] = [run[i] EXCEPT !.phase = phase, !.next = next]
      /\ \A j \in RunIds : j # i => run'[j] = run[j]
  BY DEF RunIds, Moves
<1>4. run' \in Seq(Runs)
  BY <1>2 DEF RunIds, Moves
<1>5. /\ run'[i].proc = run[i].proc
      /\ run'[i].task = run[i].task
      /\ run'[i].phase = phase
      /\ run'[i].next = next
  BY <1>1, <1>3 DEF Runs
<1> QED
  BY <1>3, <1>4, <1>5 DEF RunIds

\* What a call is made of.
LEMMA RunType ==
    ASSUME TypeOK, NEW i \in RunIds
    PROVE  /\ run[i] \in Runs
           /\ run[i].proc \in Processes
           /\ run[i].task \in Tasks
           /\ run[i].next \in Records
           /\ run[i].phase \in Phases
<1>1. run \in Seq(Runs)
  BY DEF TypeOK, Runs, Phases
<1>2. run[i] \in Runs
  BY <1>1 DEF RunIds
<1> QED
  BY <1>2 DEF Runs

\* The numbers of the calls.
LEMMA CountableRuns ==
    ASSUME TypeOK
    PROVE  RunIds = 1..Len(run) /\ Len(run) \in Nat /\ Len(run) + 1 \notin RunIds
<1>1. run \in Seq(Runs)
  BY DEF TypeOK, Runs, Phases
<1> QED
  BY <1>1 DEF RunIds

\* A call is added, and the others remain as they are.
LEMMA RunAdded ==
    ASSUME run \in Seq(Runs), NEW r \in Runs, run' = Append(run, r)
    PROVE  /\ run' \in Seq(Runs)
           /\ RunIds' = RunIds \cup {Len(run) + 1}
           /\ run'[Len(run) + 1] = r
           /\ \A j \in RunIds : run'[j] = run[j]
BY DEF RunIds

\* What a run that throws writes is a record, and no run writes that its task
\* is running.
LEMMA RetriedRecord ==
    ASSUME NEW p \in Processes, NEW next \in Records
    PROVE  /\ Retried(p, next) \in Records
           /\ Retried(p, next).state \in {"READY", "REJECTED"}
<1>1. /\ next.fails + 1 \in Nat
      /\ Retries[p] \in Nat
  BY RunnerAssumption DEF Records
<1>2. CASE next.fails + 1 <= Retries[p]
  <2>1. Retried(p, next) = [state |-> "READY", fails |-> next.fails + 1, due |-> FALSE]
    BY <1>1, <1>2 DEF Retried
  <2>2. FALSE \in BOOLEAN
    OBVIOUS
  <2> QED
    BY <1>1, <2>1, <2>2 DEF Records
<1>3. CASE ~(next.fails + 1 <= Retries[p])
  <2>1. Retried(p, next) = [next EXCEPT !.state = "REJECTED", !.fails = next.fails + 1]
    BY <1>1, <1>3 DEF Retried
  <2> QED
    BY <1>1, <2>1 DEF Records
<1> QED
  BY <1>2, <1>3

\* What becomes of the calls in each step.
LEMMA StepOfRuns ==
    ASSUME TypeOK, [Next]_vars
    PROVE  \/ UNCHANGED run
           \/ \E i \in RunIds, phase \in Phases, next \in Records :
                 /\ Moves(i, phase, next)
                 /\ next.state = "RUNNING" => next = run[i].next
                 /\ phase = "running" => run[i].phase = "running"
                 /\ run[i].phase # "settled"
           \/ \E r \in Runs : /\ run' = Append(run, r)
                              /\ r.phase = "running"
                              /\ r.next.state = "DONE"
<1>1. run \in Seq(Runs)
  BY DEF TypeOK, Runs, Phases
<1>2. ASSUME NEW i \in RunIds PROVE run[i] \in Runs
  BY <1>1 DEF RunIds
<1>3. ASSUME NEW i \in RunIds
      PROVE  /\ run[i].next \in Records
             /\ run[i].proc \in Processes
  BY <1>2 DEF Runs
<1>4. /\ "writing" \in Phases
      /\ "settled" \in Phases
  BY DEF Phases
<1>5. ASSUME NEW p \in Processes, PollTakes(p)
      PROVE  \E r \in Runs : /\ run' = Append(run, r)
                             /\ r.phase = "running"
                             /\ r.next.state = "DONE"
  <2>1. PICK t \in Due(p) :
           run' = Append(run, [proc |-> p, task |-> t, phase |-> "running",
                               next |-> [store[t] EXCEPT !.state = "DONE"]])
    BY <1>5 DEF PollTakes
  <2>2. t \in Tasks
    BY RunnerAssumption DEF Due
  <2>3. store[t] \in Records
    BY <2>2 DEF TypeOK
  <2>4. /\ [store[t] EXCEPT !.state = "DONE"] \in Records
        /\ [store[t] EXCEPT !.state = "DONE"].state = "DONE"
    BY <2>3 DEF Records
  <2> DEFINE r == [proc |-> p, task |-> t, phase |-> "running",
                   next |-> [store[t] EXCEPT !.state = "DONE"]]
  <2>5. r \in Runs
    BY <2>2, <2>4 DEF Runs, Phases
  <2> QED
    BY <2>1, <2>4, <2>5
<1>6. ASSUME NEW i \in RunIds, RunReturns(i)
      PROVE  \E next \in Records : /\ Moves(i, "writing", next)
                                   /\ next.state = "RUNNING" => next = run[i].next
                                   /\ run[i].phase = "running"
  <2>1. CASE Moves(i, "writing", run[i].next)
    BY <1>3, <1>6, <2>1 DEF RunReturns
  <2>2. CASE Moves(i, "writing", [run[i].next EXCEPT !.state = "REJECTED"])
    <3>1. /\ [run[i].next EXCEPT !.state = "REJECTED"] \in Records
          /\ [run[i].next EXCEPT !.state = "REJECTED"].state = "REJECTED"
      BY <1>3 DEF Records
    <3> QED
      BY <1>6, <2>2, <3>1 DEF RunReturns
  <2>3. CASE Moves(i, "writing", [run[i].next EXCEPT !.state = "READY", !.due = FALSE])
    <3>1. FALSE \in BOOLEAN
      OBVIOUS
    <3>2. /\ [run[i].next EXCEPT !.state = "READY", !.due = FALSE] \in Records
          /\ [run[i].next EXCEPT !.state = "READY", !.due = FALSE].state = "READY"
      BY <1>3, <3>1 DEF Records
    <3> QED
      BY <1>6, <2>3, <3>2 DEF RunReturns
  <2> QED
    BY <1>6, <2>1, <2>2, <2>3 DEF RunReturns
<1>7. ASSUME NEW i \in RunIds, RunThrows(i)
      PROVE  \E next \in Records : /\ Moves(i, "writing", next)
                                   /\ next.state # "RUNNING"
                                   /\ run[i].phase = "running"
  <2>1. /\ Retried(run[i].proc, run[i].next) \in Records
        /\ Retried(run[i].proc, run[i].next).state \in {"READY", "REJECTED"}
    BY <1>3, RetriedRecord
  <2> QED
    BY <1>7, <2>1 DEF RunThrows
<1>8. ASSUME NEW i \in RunIds, Written(i)
      PROVE  /\ Moves(i, "settled", run[i].next)
             /\ run[i].phase = "writing"
  BY <1>8 DEF Written
<1>9. ASSUME NEW i \in RunIds, RunStep(i)
      PROVE  \/ UNCHANGED run
             \/ \E phase \in Phases, next \in Records :
                  /\ Moves(i, phase, next)
                  /\ next.state = "RUNNING" => next = run[i].next
                  /\ phase = "running" => run[i].phase = "running"
                  /\ run[i].phase # "settled"
  <2>1. CASE RunReturns(i)
    BY <1>4, <1>6, <2>1
  <2>2. CASE RunThrows(i)
    BY <1>4, <1>7, <2>2
  <2>3. CASE Written(i)
    BY <1>3, <1>4, <1>8, <2>3
  <2>4. CASE WriteThrows(i)
    BY <2>4 DEF WriteThrows, taskVars
  <2> QED
    BY <1>9, <2>1, <2>2, <2>3, <2>4 DEF RunStep
<1>10. ASSUME NEW p \in Processes, ProcessStep(p)
       PROVE  UNCHANGED run \/ PollTakes(p)
  BY <1>10 DEF ProcessStep, FactoryReturns, FactoryThrows, PollEmpty, PollThrows, Admitted,
               Closed, CloseThrows, Slept, Drained, Fails, taskVars
<1>11. ASSUME (\E t \in Tasks : TimePasses(t)) \/ Stop \/ UNCHANGED vars
       PROVE  UNCHANGED run
  BY <1>11 DEF TimePasses, Stop, vars, taskVars
<1> QED
  BY <1>5, <1>9, <1>10, <1>11 DEF Next

\* Calls are never forgotten, and keep their types.
LEMMA RunsType ==
    ASSUME TypeOK, [Next]_vars
    PROVE  run' \in Seq(Runs) /\ RunIds \subseteq RunIds'
<1>1. run \in Seq(Runs)
  BY DEF TypeOK, Runs, Phases
<1>2. CASE UNCHANGED run
  BY <1>1, <1>2 DEF RunIds
<1>3. CASE \E i \in RunIds, phase \in Phases, next \in Records : Moves(i, phase, next)
  BY <1>1, <1>3, RunGoesOn
<1>4. CASE \E r \in Runs : run' = Append(run, r)
  BY <1>1, <1>4, RunAdded
<1> QED
  BY <1>2, <1>3, <1>4, StepOfRuns

------------------------------------------------------------------------------
(***************************************************************************)
(* Types                                                                   *)
(***************************************************************************)

\* What a step does to a process: no other is touched, and its state and its
\* iterators go together.
LEMMA ProcessMoves ==
    ASSUME TypeOK, IteratorsAreReleased, NEW p \in Processes, ProcessStep(p)
    PROVE  \E state \in PcStates, n \in Nat :
              /\ pc' = [pc EXCEPT ![p] = state]
              /\ open' = [open EXCEPT ![p] = n]
              /\ state \in {"polling", "limited"} => n = 1
              /\ state = "failed" => n \in {0, 1}
              /\ state \notin {"polling", "limited", "failed"} => n = 0
              /\ state = "ended" => InFlight(p) = {}
<1> USE DEF TypeOK, IteratorsAreReleased, PcStates
<1>1. CASE FactoryReturns(p)
  <2>1. open[p] = 0
    BY <1>1 DEF FactoryReturns
  <2>2. pc' = [pc EXCEPT ![p] = "polling"] /\ open' = [open EXCEPT ![p] = 1]
    BY <1>1, <2>1 DEF FactoryReturns
  <2> QED
    BY <2>2
<1>2. CASE FactoryThrows(p)
  <2>1. pc' = [pc EXCEPT ![p] = "failed"] /\ open' = [open EXCEPT ![p] = 0]
    BY <1>2 DEF FactoryThrows, Fails
  <2> QED
    BY <2>1
<1>3. ASSUME Onward(p), open[p] = 1
      PROVE  \/ pc' = [pc EXCEPT ![p] = "closing"] /\ open' = [open EXCEPT ![p] = 0]
             \/ pc' = [pc EXCEPT ![p] = "polling"] /\ open' = [open EXCEPT ![p] = 1]
  BY <1>3 DEF Onward
<1>4. CASE PollTakes(p)
  <2>1. open[p] = 1
    BY <1>4 DEF PollTakes
  <2>2. CASE Onward(p)
    BY <1>3, <2>1, <2>2
  <2>3. CASE ~Onward(p)
    <3>1. pc' = [pc EXCEPT ![p] = "limited"] /\ open' = [open EXCEPT ![p] = 1]
      BY <1>4, <2>1, <2>3 DEF PollTakes
    <3> QED
      BY <3>1
  <2> QED
    BY <2>2, <2>3
<1>5. CASE PollEmpty(p)
  <2>1. pc' = [pc EXCEPT ![p] = "closing"] /\ open' = [open EXCEPT ![p] = 0]
    <3>1. open[p] = 1
      BY <1>5 DEF PollEmpty
    <3> QED
      BY <1>5, <3>1 DEF PollEmpty
  <2> QED
    BY <2>1
<1>6. CASE PollThrows(p)
  <2>1. pc' = [pc EXCEPT ![p] = "failed"] /\ open' = [open EXCEPT ![p] = 1]
    BY <1>6 DEF PollThrows, Fails
  <2> QED
    BY <2>1
<1>7. CASE Admitted(p)
  BY <1>3, <1>7 DEF Admitted
<1>8. CASE Closed(p)
  <2>1. open' = [open EXCEPT ![p] = 0]
    BY <1>8 DEF Closed
  <2>2. \/ pc' = [pc EXCEPT ![p] = "sleeping"]
        \/ pc' = [pc EXCEPT ![p] = "draining"]
    BY <1>8 DEF Closed
  <2> QED
    BY <2>1, <2>2
<1>9. CASE CloseThrows(p)
  <2>1. pc' = [pc EXCEPT ![p] = "failed"] /\ open' = [open EXCEPT ![p] = 0]
    BY <1>9 DEF CloseThrows, Fails
  <2> QED
    BY <2>1
<1>10. CASE Slept(p)
  <2>1. open' = [open EXCEPT ![p] = 0]
    BY <1>10 DEF Slept
  <2>2. \/ pc' = [pc EXCEPT ![p] = "factory"]
        \/ pc' = [pc EXCEPT ![p] = "draining"]
    BY <1>10 DEF Slept
  <2> QED
    BY <2>1, <2>2
<1>11. CASE Drained(p)
  <2>1. pc' = [pc EXCEPT ![p] = "ended"] /\ open' = [open EXCEPT ![p] = 0]
    BY <1>11 DEF Drained
  <2> QED
    BY <1>11, <2>1 DEF Drained
<1> QED
  BY <1>1, <1>2, <1>4, <1>5, <1>6, <1>7, <1>8, <1>9, <1>10, <1>11 DEF ProcessStep

\* The states of the processes keep their type, and their iterators are made
\* and disposed of one after the other.
LEMMA ProcessesType ==
    ASSUME TypeOK, IteratorsAreReleased, [Next]_vars
    PROVE  /\ pc' \in [Processes -> PcStates]
           /\ open' \in [Processes -> Nat]
           /\ IteratorsAreReleased'
<1>1. CASE UNCHANGED <<pc, open>>
  BY <1>1 DEF TypeOK, PcStates, IteratorsAreReleased
<1>2. ASSUME NEW p \in Processes, ProcessStep(p)
      PROVE  /\ pc' \in [Processes -> PcStates]
             /\ open' \in [Processes -> Nat]
             /\ IteratorsAreReleased'
  <2>1. PICK state \in PcStates, n \in Nat :
           /\ pc' = [pc EXCEPT ![p] = state]
           /\ open' = [open EXCEPT ![p] = n]
           /\ state \in {"polling", "limited"} => n = 1
           /\ state = "failed" => n \in {0, 1}
           /\ state \notin {"polling", "limited", "failed"} => n = 0
    BY <1>2, ProcessMoves
  <2>2. /\ pc' \in [Processes -> PcStates]
        /\ open' \in [Processes -> Nat]
    BY <2>1 DEF TypeOK, PcStates
  <2>3. ASSUME NEW q \in Processes
        PROVE  /\ pc'[q] \in {"polling", "limited"} => open'[q] = 1
               /\ pc'[q] = "failed" => open'[q] \in {0, 1}
               /\ pc'[q] \notin {"polling", "limited", "failed"} => open'[q] = 0
    <3>1. CASE q = p
      BY <2>1, <3>1 DEF TypeOK
    <3>2. CASE q # p
      BY <2>1, <3>2 DEF TypeOK, IteratorsAreReleased
    <3> QED
      BY <3>1, <3>2
  <2> QED
    BY <2>2, <2>3 DEF IteratorsAreReleased
<1>3. UNCHANGED <<pc, open>> \/ \E p \in Processes : ProcessStep(p)
  BY DEF Next, RunStep, RunReturns, RunThrows, Written, WriteThrows, TimePasses, Stop,
         vars, procVars
<1> QED
  BY <1>1, <1>2, <1>3

\* What is waited for are calls.
LEMMA WaitsType ==
    ASSUME TypeOK, [Next]_vars
    PROVE  waits' \in [Processes -> SUBSET RunIds']
<1>1. RunIds \subseteq RunIds'
  BY RunsType
<1>2. CASE UNCHANGED waits
  BY <1>1, <1>2 DEF TypeOK
<1>3. ASSUME NEW p \in Processes, NEW held \in SUBSET RunIds',
             waits' = [waits EXCEPT ![p] = held]
      PROVE  waits' \in [Processes -> SUBSET RunIds']
  BY <1>1, <1>3 DEF TypeOK
<1>4. ASSUME NEW p \in Processes, PollTakes(p), ~UNCHANGED waits
      PROVE  waits' \in [Processes -> SUBSET RunIds']
  <2>1. waits' = [waits EXCEPT ![p] = Held(p, Len(run) + 1)]
    BY <1>4 DEF PollTakes
  <2>2. Len(run) + 1 \in RunIds'
    <3>1. run \in Seq(Runs)
      BY DEF TypeOK, Runs, Phases
    <3>2. PICK t \in Due(p) :
             run' = Append(run, [proc |-> p, task |-> t, phase |-> "running",
                                 next |-> [store[t] EXCEPT !.state = "DONE"]])
      BY <1>4 DEF PollTakes
    <3> QED
      BY <3>1, <3>2 DEF RunIds
  <2>3. Held(p, Len(run) + 1) \subseteq RunIds \cup {Len(run) + 1}
    BY DEF Held, Queue
  <2>4. Held(p, Len(run) + 1) \in SUBSET RunIds'
    BY <1>1, <2>2, <2>3
  <2> QED
    BY <1>3, <2>1, <2>4
<1>5. ASSUME NEW p \in Processes, Admitted(p)
      PROVE  waits' \in [Processes -> SUBSET RunIds']
  BY <1>3, <1>5 DEF Admitted
<1>6. \/ UNCHANGED waits
      \/ \E p \in Processes : PollTakes(p) \/ Admitted(p)
  BY DEF Next, ProcessStep, FactoryReturns, FactoryThrows, PollEmpty, PollThrows, Closed,
         CloseThrows, Slept, Drained, Fails, RunStep, RunReturns, RunThrows, Written,
         WriteThrows, TimePasses, Stop, vars, procVars
<1> QED
  BY <1>2, <1>4, <1>5, <1>6

\* What is kept of the tasks are records.
LEMMA StoreType ==
    ASSUME TypeOK, [Next]_vars
    PROVE  store' \in [Tasks -> Records]
<1>1. store \in [Tasks -> Records]
  BY DEF TypeOK
<1>2. ASSUME NEW p \in Processes, PollTakes(p) PROVE store' \in [Tasks -> Records]
  <2>1. PICK t \in Due(p) :
           store' = IF Claims THEN [store EXCEPT ![t].state = "RUNNING"] ELSE store
    BY <1>2 DEF PollTakes
  <2>2. t \in Tasks
    BY RunnerAssumption DEF Due
  <2>3. [store[t] EXCEPT !.state = "RUNNING"] \in Records
    BY <1>1, <2>2 DEF Records
  <2> QED
    BY <1>1, <2>1, <2>2, <2>3
<1>3. ASSUME NEW i \in RunIds, Written(i) PROVE store' \in [Tasks -> Records]
  <2>1. run[i].next \in Records
    BY RunType
  <2> QED
    BY <1>1, <1>3, <2>1 DEF Written
<1>4. ASSUME NEW t \in Tasks, TimePasses(t) PROVE store' \in [Tasks -> Records]
  <2>1. TRUE \in BOOLEAN
    OBVIOUS
  <2>2. [store[t] EXCEPT !.due = TRUE] \in Records
    BY <1>1, <2>1 DEF Records
  <2> QED
    BY <1>1, <1>4, <2>2 DEF TimePasses
<1>5. \/ UNCHANGED store
      \/ \E p \in Processes : PollTakes(p)
      \/ \E i \in RunIds : Written(i)
      \/ \E t \in Tasks : TimePasses(t)
  BY DEF Next, ProcessStep, FactoryReturns, FactoryThrows, PollEmpty, PollThrows, Admitted,
         Closed, CloseThrows, Slept, Drained, Fails, RunStep, RunReturns, RunThrows,
         WriteThrows, Stop, vars, taskVars
<1> QED
  BY <1>1, <1>2, <1>3, <1>4, <1>5

\* The histories are counts, and whoever is alive or beats does so or not.
LEMMA HistoryType ==
    ASSUME TypeOK, [Next]_vars
    PROVE  /\ failures' \in [Tasks -> Nat]
           /\ again' \in [Tasks -> Nat]
           /\ alive' \in BOOLEAN
           /\ beats' \in BOOLEAN
<1>1. ASSUME NEW i \in RunIds PROVE run[i].task \in Tasks
  BY RunType
<1>2. /\ UNCHANGED failures \/ \E i \in RunIds : failures' = [failures EXCEPT ![run[i].task] = @ + 1]
      /\ UNCHANGED again \/ \E i \in RunIds : again' = [again EXCEPT ![run[i].task] = @ + 1]
  BY DEF Next, ProcessStep, FactoryReturns, FactoryThrows, PollTakes, PollEmpty, PollThrows,
         Admitted, Closed, CloseThrows, Slept, Drained, Fails, RunStep, RunReturns, RunThrows,
         Written, WriteThrows, TimePasses, Stop, vars, taskVars
<1>3. /\ UNCHANGED alive \/ alive' = FALSE
      /\ UNCHANGED beats \/ beats' = FALSE
  BY DEF Next, ProcessStep, FactoryReturns, FactoryThrows, PollTakes, PollEmpty, PollThrows,
         Admitted, Closed, CloseThrows, Slept, Drained, Fails, RunStep, RunReturns, RunThrows,
         Written, WriteThrows, TimePasses, Stop, vars
<1>4. failures' \in [Tasks -> Nat]
  <2>1. CASE UNCHANGED failures
    BY <2>1 DEF TypeOK
  <2>2. ASSUME NEW i \in RunIds, failures' = [failures EXCEPT ![run[i].task] = @ + 1]
        PROVE  failures' \in [Tasks -> Nat]
    <3>1. run[i].task \in Tasks /\ failures \in [Tasks -> Nat]
      BY <1>1 DEF TypeOK
    <3> QED
      BY <2>2, <3>1
  <2> QED
    BY <1>2, <2>1, <2>2
<1>5. again' \in [Tasks -> Nat]
  <2>1. CASE UNCHANGED again
    BY <2>1 DEF TypeOK
  <2>2. ASSUME NEW i \in RunIds, again' = [again EXCEPT ![run[i].task] = @ + 1]
        PROVE  again' \in [Tasks -> Nat]
    <3>1. run[i].task \in Tasks /\ again \in [Tasks -> Nat]
      BY <1>1 DEF TypeOK
    <3> QED
      BY <2>2, <3>1
  <2> QED
    BY <1>2, <2>1, <2>2
<1>6. alive' \in BOOLEAN /\ beats' \in BOOLEAN
  BY <1>3 DEF TypeOK
<1> QED
  BY <1>4, <1>5, <1>6

\* The types, and each iterator disposed of once: the count of the one is a
\* number because of the other.
Iterating == TypeOK /\ IteratorsAreReleased

\* No step breaks them.
LEMMA IteratingKept ==
    ASSUME Iterating, [Next]_vars
    PROVE  Iterating'
<1>1. TypeOK /\ IteratorsAreReleased
  BY DEF Iterating
<1>2. run' \in Seq(Runs)
  BY <1>1, RunsType
<1>3. /\ pc' \in [Processes -> PcStates]
      /\ open' \in [Processes -> Nat]
      /\ IteratorsAreReleased'
  BY <1>1, ProcessesType
<1>4. waits' \in [Processes -> SUBSET RunIds']
  BY <1>1, WaitsType
<1>5. store' \in [Tasks -> Records]
  BY <1>1, StoreType
<1>6. /\ failures' \in [Tasks -> Nat]
      /\ again' \in [Tasks -> Nat]
      /\ alive' \in BOOLEAN
      /\ beats' \in BOOLEAN
  BY <1>1, HistoryType
<1> QED
  BY <1>2, <1>3, <1>4, <1>5, <1>6 DEF Iterating, TypeOK, Runs, Phases, PcStates

\* They hold from the start.
LEMMA IteratingHolds == Spec => []Iterating
<1>1. Init => Iterating
  <2> SUFFICES ASSUME Init PROVE Iterating
    OBVIOUS
  <2>1. [state |-> "READY", fails |-> 0, due |-> TRUE] \in Records
    <3>1. TRUE \in BOOLEAN
      OBVIOUS
    <3> QED
      BY <3>1 DEF Records
  <2>2. store \in [Tasks -> Records]
    BY <2>1 DEF Init
  <2>3. run \in Seq(Runs)
    <3>1. <<>> \in Seq(Runs)
      OBVIOUS
    <3> QED
      BY <3>1 DEF Init
  <2>4. /\ pc \in [Processes -> PcStates]
        /\ waits \in [Processes -> SUBSET RunIds]
        /\ open \in [Processes -> Nat]
        /\ failures \in [Tasks -> Nat]
        /\ again \in [Tasks -> Nat]
    BY DEF Init, PcStates
  <2>5. alive \in BOOLEAN /\ beats \in BOOLEAN
    BY DEF Init
  <2>6. IteratorsAreReleased
    BY DEF Init, IteratorsAreReleased
  <2> QED
    BY <2>2, <2>3, <2>4, <2>5, <2>6 DEF Iterating, TypeOK, Runs, Phases, PcStates
<1>2. Iterating /\ [Next]_vars => Iterating'
  BY IteratingKept
<1> QED
  BY <1>1, <1>2, PTL DEF Spec

\* Every variable of a runner keeps its type.
THEOREM RunnerTypeCorrect == Spec => []TypeOK
BY IteratingHolds, PTL DEF Iterating

\* Whatever throws, each iterator is disposed of once and before the next one is
\* made, except one whose poll has thrown.
THEOREM IteratorsAreDisposedOnce == Spec => []IteratorsAreReleased
BY IteratingHolds, PTL DEF Iterating

------------------------------------------------------------------------------
(***************************************************************************)
(* The end of handle()                                                     *)
(***************************************************************************)

\* A process that has ended has nothing under way.
EndedIsQuiet == \A p \in Processes : pc[p] = "ended" => InFlight(p) = {}

\* No run writes that its task is running, and every task that is marked as
\* running has a run that will write.
MarksAreHeld ==
    /\ \A i \in RunIds : run[i].next.state # "RUNNING"
    /\ \A t \in Tasks : store[t].state = "RUNNING" =>
          \E i \in RunIds : run[i].task = t /\ ~Settled(i)

\* The inductive invariant behind HandleIsComplete.
EndInv == Iterating /\ EndedIsQuiet /\ MarksAreHeld

\* It says all that HandleIsComplete does.
LEMMA EndInvIsEnough ==
    ASSUME EndInv
    PROVE  HandleIsComplete
<1> SUFFICES ASSUME Handle = "fulfilled"
             PROVE  /\ \A i \in RunIds : Settled(i)
                    /\ \A t \in Tasks : store[t].state # "RUNNING"
  BY DEF HandleIsComplete
<1>1. \A p \in Processes : pc[p] = "ended"
  BY DEF Handle
<1>2. \A i \in RunIds : run[i].proc \in Processes
  BY RunType DEF EndInv, Iterating
<1>3. \A i \in RunIds : Settled(i)
  BY <1>1, <1>2 DEF EndInv, EndedIsQuiet, InFlight
<1>4. \A t \in Tasks : store[t].state # "RUNNING"
  BY <1>3 DEF EndInv, MarksAreHeld
<1> QED
  BY <1>3, <1>4

\* A run that moves on leaves at most less under way.
LEMMA MoveOfRun ==
    ASSUME TypeOK, NEW i \in RunIds, RunStep(i)
    PROVE  /\ RunIds' = RunIds
           /\ ~Settled(i)
           /\ \A j \in RunIds : run'[j].proc = run[j].proc /\ run'[j].task = run[j].task
           /\ \A j \in RunIds : j # i => run'[j] = run[j]
           /\ ~Written(i) => ~Settled(i)'
<1>1. run \in Seq(Runs)
  BY DEF TypeOK, Runs, Phases
<1>2. run[i] \in Runs /\ run[i].next \in Records /\ run[i].proc \in Processes
  BY RunType
<1>3. "writing" \in Phases /\ "settled" \in Phases
  BY DEF Phases
<1>4. ASSUME NEW next \in Records, Moves(i, "writing", next), run[i].phase = "running"
      PROVE  /\ RunIds' = RunIds
             /\ ~Settled(i)
             /\ \A j \in RunIds : run'[j].proc = run[j].proc /\ run'[j].task = run[j].task
             /\ \A j \in RunIds : j # i => run'[j] = run[j]
             /\ ~Settled(i)'
  <2>1. /\ RunIds' = RunIds
        /\ run'[i].phase = "writing"
        /\ \A j \in RunIds : run'[j].proc = run[j].proc /\ run'[j].task = run[j].task
        /\ \A j \in RunIds : j # i => run'[j] = run[j]
    BY <1>1, <1>3, <1>4, RunGoesOn
  <2> QED
    BY <1>4, <2>1 DEF Settled
<1>5. CASE RunReturns(i)
  <2>1. /\ [run[i].next EXCEPT !.state = "REJECTED"] \in Records
        /\ [run[i].next EXCEPT !.state = "READY", !.due = FALSE] \in Records
    <3>1. FALSE \in BOOLEAN
      OBVIOUS
    <3> QED
      BY <1>2, <3>1 DEF Records
  <2>2. \E next \in Records : Moves(i, "writing", next)
    BY <1>2, <1>5, <2>1 DEF RunReturns
  <2>3. run[i].phase = "running"
    BY <1>5 DEF RunReturns
  <2> QED
    BY <1>4, <2>2, <2>3
<1>6. CASE RunThrows(i)
  <2>1. Retried(run[i].proc, run[i].next) \in Records
    BY <1>2, RetriedRecord
  <2>2. Moves(i, "writing", Retried(run[i].proc, run[i].next)) /\ run[i].phase = "running"
    BY <1>6 DEF RunThrows
  <2> QED
    BY <1>4, <2>1, <2>2
<1>7. CASE Written(i)
  <2>1. Moves(i, "settled", run[i].next) /\ run[i].phase = "writing"
    BY <1>7 DEF Written
  <2>2. /\ RunIds' = RunIds
        /\ \A j \in RunIds : run'[j].proc = run[j].proc /\ run'[j].task = run[j].task
        /\ \A j \in RunIds : j # i => run'[j] = run[j]
    BY <1>1, <1>2, <1>3, <2>1, RunGoesOn
  <2> QED
    BY <1>7, <2>1, <2>2 DEF Settled
<1>8. CASE WriteThrows(i)
  BY <1>8 DEF WriteThrows, taskVars, RunIds, Settled
<1> QED
  BY <1>5, <1>6, <1>7, <1>8 DEF RunStep

\* What a poll that finds a task does to the runs and the tasks.
LEMMA PollStartsRun ==
    ASSUME TypeOK, NEW p \in Processes, PollTakes(p)
    PROVE  \E t \in Tasks :
              /\ RunIds' = RunIds \cup {Len(run) + 1}
              /\ \A j \in RunIds : run'[j] = run[j]
              /\ run'[Len(run) + 1].proc = p
              /\ run'[Len(run) + 1].task = t
              /\ run'[Len(run) + 1].phase # "settled"
              /\ \A u \in Tasks : u # t => store'[u] = store[u]
              /\ UNCHANGED store \/ store'[t].state = "RUNNING"
              /\ pc'[p] # "ended"
              /\ \A q \in Processes : q # p => pc'[q] = pc[q]
<1>1. run \in Seq(Runs)
  BY DEF TypeOK, Runs, Phases
<1>2. PICK t \in Due(p) :
         /\ store' = IF Claims THEN [store EXCEPT ![t].state = "RUNNING"] ELSE store
         /\ run' = Append(run, [proc |-> p, task |-> t, phase |-> "running",
                                next |-> [store[t] EXCEPT !.state = "DONE"]])
  BY DEF PollTakes
<1>3. t \in Tasks /\ store[t] \in Records
  BY RunnerAssumption DEF Due, TypeOK
<1> DEFINE r == [proc |-> p, task |-> t, phase |-> "running",
                 next |-> [store[t] EXCEPT !.state = "DONE"]]
<1>4. r \in Runs
  <2>1. [store[t] EXCEPT !.state = "DONE"] \in Records
    BY <1>3 DEF Records
  <2> QED
    BY <1>3, <2>1 DEF Runs, Phases
<1>5. /\ RunIds' = RunIds \cup {Len(run) + 1}
      /\ run'[Len(run) + 1] = r
      /\ \A j \in RunIds : run'[j] = run[j]
  BY <1>1, <1>2, <1>4, RunAdded
<1>6. /\ \A u \in Tasks : u # t => store'[u] = store[u]
      /\ UNCHANGED store \/ store'[t].state = "RUNNING"
  <2>1. CASE Claims
    <3>1. [store[t] EXCEPT !.state = "RUNNING"].state = "RUNNING"
      BY <1>3 DEF Records
    <3> QED
      BY <1>2, <1>3, <2>1, <3>1 DEF TypeOK
  <2>2. CASE ~Claims
    BY <1>2, <2>2
  <2> QED
    BY <2>1, <2>2
<1>7. /\ pc'[p] # "ended"
      /\ \A q \in Processes : q # p => pc'[q] = pc[q]
  BY DEF PollTakes, Onward, TypeOK
<1>8. r.proc = p /\ r.task = t /\ r.phase = "running"
  OBVIOUS
<1> HIDE DEF r
<1>9. /\ run'[Len(run) + 1].proc = p
      /\ run'[Len(run) + 1].task = t
      /\ run'[Len(run) + 1].phase # "settled"
  BY <1>5, <1>8
<1> QED
  BY <1>3, <1>5, <1>6, <1>7, <1>9

\* Every step is one of these.
LEMMA StepsOfRunner ==
    ASSUME [Next]_vars
    PROVE  \/ \E p \in Processes : PollTakes(p)
           \/ \E p \in Processes : ProcessStep(p) /\ UNCHANGED <<run, store>>
           \/ \E i \in RunIds : RunStep(i) /\ UNCHANGED pc
           \/ \E t \in Tasks : TimePasses(t) /\ UNCHANGED <<run, pc>>
           \/ UNCHANGED <<run, store, pc>>
<1>1. ASSUME NEW p \in Processes, ProcessStep(p)
      PROVE  PollTakes(p) \/ UNCHANGED <<run, store>>
  BY <1>1 DEF ProcessStep, FactoryReturns, FactoryThrows, PollEmpty, PollThrows, Admitted,
              Closed, CloseThrows, Slept, Drained, Fails, taskVars
<1>2. ASSUME NEW i \in RunIds, RunStep(i)
      PROVE  UNCHANGED pc
  BY <1>2 DEF RunStep, RunReturns, RunThrows, Written, WriteThrows, procVars
<1>3. ASSUME NEW t \in Tasks, TimePasses(t)
      PROVE  UNCHANGED <<run, pc>>
  BY <1>3 DEF TimePasses, procVars
<1>4. ASSUME Stop \/ UNCHANGED vars
      PROVE  UNCHANGED <<run, store, pc>>
  BY <1>4 DEF Stop, vars, procVars, taskVars
<1> QED
  BY <1>1, <1>2, <1>3, <1>4 DEF Next

\* A process that has ended starts nothing more.
LEMMA EndedStaysQuiet ==
    ASSUME EndInv, [Next]_vars
    PROVE  EndedIsQuiet'
<1> USE DEF EndInv, Iterating, EndedIsQuiet
<1> SUFFICES ASSUME NEW q \in Processes, pc'[q] = "ended",
                    NEW j \in RunIds', run'[j].proc = q
             PROVE  run'[j].phase = "settled"
  BY DEF InFlight, Settled
<1>1. ASSUME NEW k \in RunIds, run[k].proc = q, pc[q] = "ended"
      PROVE  run[k].phase = "settled"
  BY <1>1 DEF InFlight, Settled
<1>2. ASSUME NEW p \in Processes, PollTakes(p)
      PROVE  run'[j].phase = "settled"
  <2>1. /\ RunIds' = RunIds \cup {Len(run) + 1}
        /\ \A k \in RunIds : run'[k] = run[k]
        /\ run'[Len(run) + 1].proc = p
        /\ pc'[p] # "ended"
        /\ \A r \in Processes : r # p => pc'[r] = pc[r]
    BY <1>2, PollStartsRun
  <2>2. q # p /\ pc[q] = "ended"
    BY <2>1
  <2>3. j \in RunIds
    BY <2>1, <2>2
  <2> QED
    BY <1>1, <2>1, <2>2, <2>3
<1>3. ASSUME NEW p \in Processes, ProcessStep(p), UNCHANGED run
      PROVE  run'[j].phase = "settled"
  <2>1. PICK state \in PcStates :
           /\ pc' = [pc EXCEPT ![p] = state]
           /\ state = "ended" => InFlight(p) = {}
    BY <1>3, ProcessMoves
  <2>2. j \in RunIds /\ run[j].proc = q
    BY <1>3 DEF RunIds
  <2>3. CASE q = p
    <3>1. InFlight(q) = {}
      BY <2>1, <2>3 DEF TypeOK
    <3> QED
      BY <1>3, <2>2, <3>1 DEF InFlight, Settled
  <2>4. CASE q # p
    <3>1. pc[q] = "ended"
      BY <2>1, <2>4 DEF TypeOK
    <3> QED
      BY <1>1, <1>3, <2>2, <3>1
  <2> QED
    BY <2>3, <2>4
<1>4. ASSUME NEW i \in RunIds, RunStep(i), UNCHANGED pc
      PROVE  run'[j].phase = "settled"
  <2>1. /\ RunIds' = RunIds
        /\ ~Settled(i)
        /\ \A k \in RunIds : run'[k].proc = run[k].proc
        /\ \A k \in RunIds : k # i => run'[k] = run[k]
    BY <1>4, MoveOfRun
  <2>2. j \in RunIds /\ run[j].proc = q /\ run[j].phase = "settled"
    BY <1>1, <1>4, <2>1
  <2>3. j # i
    BY <2>1, <2>2 DEF Settled
  <2> QED
    BY <2>1, <2>2, <2>3
<1>5. CASE UNCHANGED <<run, pc>>
  BY <1>1, <1>5 DEF RunIds
<1> QED
  BY <1>2, <1>3, <1>4, <1>5, StepsOfRunner

\* No run comes to write that its task is running.
LEMMA NoRunMarks ==
    ASSUME EndInv, [Next]_vars
    PROVE  \A i \in RunIds' : run'[i].next.state # "RUNNING"
<1>1. run \in Seq(Runs)
  BY DEF EndInv, Iterating, TypeOK, Runs, Phases
<1>2. \A i \in RunIds : run[i].next.state # "RUNNING"
  BY DEF EndInv, MarksAreHeld
<1>3. CASE UNCHANGED run
  BY <1>2, <1>3 DEF RunIds
<1>4. ASSUME NEW i \in RunIds, NEW phase \in Phases, NEW next \in Records,
             Moves(i, phase, next), next.state = "RUNNING" => next = run[i].next
      PROVE  \A j \in RunIds' : run'[j].next.state # "RUNNING"
  <2>1. /\ RunIds' = RunIds
        /\ run'[i].next = next
        /\ \A j \in RunIds : j # i => run'[j] = run[j]
    BY <1>1, <1>4, RunGoesOn
  <2> QED
    BY <1>2, <1>4, <2>1
<1>5. ASSUME NEW r \in Runs, run' = Append(run, r), r.next.state = "DONE"
      PROVE  \A j \in RunIds' : run'[j].next.state # "RUNNING"
  <2>1. /\ RunIds' = RunIds \cup {Len(run) + 1}
        /\ run'[Len(run) + 1] = r
        /\ \A j \in RunIds : run'[j] = run[j]
    BY <1>1, <1>5, RunAdded
  <2> QED
    BY <1>2, <1>5, <2>1
<1> QED
  BY <1>3, <1>4, <1>5, StepOfRuns DEF EndInv, Iterating

\* A task that is marked remains with a run that will write its record.
LEMMA MarksStayHeld ==
    ASSUME EndInv, [Next]_vars
    PROVE  MarksAreHeld'
<1> USE DEF EndInv, Iterating
<1>1. ASSUME NEW t \in Tasks, store[t].state = "RUNNING"
      PROVE  \E j \in RunIds : run[j].task = t /\ run[j].phase # "settled"
  BY <1>1 DEF MarksAreHeld, Settled
<1> SUFFICES ASSUME NEW t \in Tasks, store'[t].state = "RUNNING"
             PROVE  \E j \in RunIds' : run'[j].task = t /\ run'[j].phase # "settled"
  BY NoRunMarks DEF MarksAreHeld, Settled
<1>2. ASSUME NEW p \in Processes, PollTakes(p)
      PROVE  \E j \in RunIds' : run'[j].task = t /\ run'[j].phase # "settled"
  <2>1. PICK u \in Tasks :
           /\ RunIds' = RunIds \cup {Len(run) + 1}
           /\ \A j \in RunIds : run'[j] = run[j]
           /\ run'[Len(run) + 1].task = u
           /\ run'[Len(run) + 1].phase # "settled"
           /\ \A v \in Tasks : v # u => store'[v] = store[v]
    BY <1>2, PollStartsRun
  <2>2. CASE t = u
    BY <2>1, <2>2
  <2>3. CASE t # u
    BY <1>1, <2>1, <2>3
  <2> QED
    BY <2>2, <2>3
<1>3. ASSUME NEW i \in RunIds, RunStep(i)
      PROVE  \E j \in RunIds' : run'[j].task = t /\ run'[j].phase # "settled"
  <2>1. /\ RunIds' = RunIds
        /\ \A j \in RunIds : run'[j].task = run[j].task
        /\ \A j \in RunIds : j # i => run'[j] = run[j]
        /\ ~Written(i) => run'[i].phase # "settled"
    BY <1>3, MoveOfRun DEF Settled
  <2>2. CASE Written(i)
    <3>1. store' = [store EXCEPT ![run[i].task] = run[i].next]
      BY <2>2 DEF Written
    <3>2. run[i].next.state # "RUNNING"
      BY DEF MarksAreHeld
    <3>3. t # run[i].task /\ store[t].state = "RUNNING"
      BY <3>1, <3>2 DEF TypeOK
    <3>4. PICK j \in RunIds : run[j].task = t /\ run[j].phase # "settled"
      BY <1>1, <3>3
    <3> QED
      BY <2>1, <3>3, <3>4
  <2>3. CASE ~Written(i)
    <3>1. UNCHANGED store
      BY <1>3, <2>3 DEF RunStep, RunReturns, RunThrows, WriteThrows, taskVars
    <3>2. PICK j \in RunIds : run[j].task = t /\ run[j].phase # "settled"
      BY <1>1, <3>1
    <3> QED
      BY <2>1, <2>3, <3>2
  <2> QED
    BY <2>2, <2>3
<1>4. ASSUME NEW u \in Tasks, TimePasses(u), UNCHANGED run
      PROVE  \E j \in RunIds' : run'[j].task = t /\ run'[j].phase # "settled"
  <2>1. store' = [store EXCEPT ![u] = [store[u] EXCEPT !.due = TRUE]]
    BY <1>4 DEF TimePasses
  <2>2. store[u] \in Records
    BY DEF TypeOK
  <2>3. [store[u] EXCEPT !.due = TRUE].state = store[u].state
    BY <2>2 DEF Records
  <2>4. store[t].state = "RUNNING"
    BY <2>1, <2>3 DEF TypeOK
  <2> QED
    BY <1>1, <1>4, <2>4 DEF RunIds
<1>5. CASE UNCHANGED <<run, store>>
  BY <1>1, <1>5 DEF RunIds
<1> QED
  BY <1>2, <1>3, <1>4, <1>5, StepsOfRunner

\* When handle() resolves every run has ended and been written back, and no task
\* is left marked: EndInv is kept, because a process ends only when it has
\* nothing under way, only it starts runs of its own, and what a run writes is
\* never a mark.
THEOREM HandleCompletes == Spec => []HandleIsComplete
<1>1. Init => EndedIsQuiet /\ MarksAreHeld
  BY DEF Init, EndedIsQuiet, MarksAreHeld, RunIds
<1>2. EndInv /\ [Next]_vars => EndedIsQuiet' /\ MarksAreHeld'
  BY EndedStaysQuiet, MarksStayHeld
<1>3. EndInv => HandleIsComplete
  BY EndInvIsEnough
<1> QED
  BY <1>1, <1>2, <1>3, IteratingHolds, PTL DEF Spec, EndInv

------------------------------------------------------------------------------
(***************************************************************************)
(* Limiters                                                                *)
(***************************************************************************)

\* A set of numbers up to n has a greatest.
LEMMA Greatest ==
    ASSUME NEW n \in Nat, NEW S \in SUBSET (1..n), S # {}
    PROVE  \E m \in S : \A k \in S : k <= m
<1> DEFINE T == {k \in Nat : n - k \in S}
<1>1. T \subseteq Nat /\ T # {}
  <2>1. PICK s \in S : TRUE
    OBVIOUS
  <2>2. n - s \in Nat /\ n - (n - s) = s
    BY <2>1
  <2> QED
    BY <2>1, <2>2
<1>2. PICK x \in T : \A y \in T : ~(<<y, x>> \in OpToRel(<, Nat))
  BY <1>1, NatLessThanWellFounded, WFMin
<1>3. \A y \in T : ~(y < x)
  BY <1>1, <1>2 DEF OpToRel
<1>4. ASSUME NEW k \in S
      PROVE  k <= n - x
  <2>1. n - k \in Nat /\ n - (n - k) = k
    OBVIOUS
  <2>2. n - k \in T
    BY <2>1
  <2>3. ~(n - k < x)
    BY <1>3, <2>2
  <2> QED
    BY <2>1, <2>3
<1>5. n - x \in S
  OBVIOUS
<1> QED
  BY <1>4, <1>5

------------------------------------------------------------------------------
(***************************************************************************)
(* The runs a limiter counts, and the processes it holds up                *)
(***************************************************************************)

Sharing(l) == {p \in Processes : l \in LimitersOf[p]}

\* The runs of a limiter that have been started after the n-th, and the others.
Beyond(l, n) == {i \in Queue(l) : i > n}
UpTo(l, n) == {i \in Queue(l) : i <= n}

\* A process waits for what is left of the first m runs.
Stops(p, l, m) == UpTo(l, m) # {} /\ UpTo(l, m) \subseteq waits[p]

\* The processes that wait since after the n-th run.
Stopped(l, n) == {p \in Sharing(l) : \E m \in RunIds : m > n /\ Stops(p, l, m)}

\* Only a process that is held up waits for something.
OnlyLimitedWait == \A p \in Processes : pc[p] # "limited" => waits[p] = {}

\* The runs that were started since the n-th and go on are less than the limit,
\* but for one of each process that was held up since then and still is.
CountedSince ==
    \A l \in Limiters : \A n \in Nat :
        Cardinality(Beyond(l, n)) + 1 <= Limit[l] + Cardinality(Stopped(l, n))

\* The inductive invariant behind WithinLimit.
LimitInv == Iterating /\ OnlyLimitedWait /\ CountedSince

\* The sets that are counted are finite.
LEMMA Countable ==
    ASSUME TypeOK, NEW l \in Limiters, NEW n \in Nat
    PROVE  /\ Queue(l) \subseteq RunIds
           /\ RunIds = 1..Len(run) /\ Len(run) \in Nat
           /\ IsFiniteSet(Queue(l)) /\ Cardinality(Queue(l)) \in Nat
           /\ IsFiniteSet(Beyond(l, n)) /\ Cardinality(Beyond(l, n)) \in Nat
           /\ IsFiniteSet(Sharing(l)) /\ Cardinality(Sharing(l)) \in Nat
           /\ IsFiniteSet(Stopped(l, n)) /\ Cardinality(Stopped(l, n)) \in Nat
           /\ Limit[l] \in Nat /\ Limit[l] >= 1
<1>2. RunIds = 1..Len(run) /\ Len(run) \in Nat
  BY CountableRuns
<1>3. IsFiniteSet(RunIds)
  <2>1. 1 \in Int /\ Len(run) \in Int
    BY <1>2
  <2> QED
    BY <1>2, <2>1, FS_Interval
<1>4. Queue(l) \subseteq RunIds
  BY DEF Queue
<1>5. IsFiniteSet(Queue(l)) /\ Cardinality(Queue(l)) \in Nat
  BY <1>3, <1>4, FS_Subset, FS_CardinalityType
<1>6. Beyond(l, n) \subseteq Queue(l)
  BY DEF Beyond
<1>7. IsFiniteSet(Beyond(l, n)) /\ Cardinality(Beyond(l, n)) \in Nat
  BY <1>5, <1>6, FS_Subset, FS_CardinalityType
<1>8. Sharing(l) \subseteq Processes /\ Stopped(l, n) \subseteq Processes
  BY DEF Sharing, Stopped
<1>9. IsFiniteSet(Sharing(l)) /\ IsFiniteSet(Stopped(l, n))
  BY <1>8, RunnerAssumption, FS_Subset
<1>10. Cardinality(Sharing(l)) \in Nat /\ Cardinality(Stopped(l, n)) \in Nat
  BY <1>9, FS_CardinalityType
<1>11. Limit[l] \in Nat /\ Limit[l] >= 1
  BY RunnerAssumption
<1> QED
  BY <1>2, <1>4, <1>5, <1>7, <1>9, <1>10, <1>11

\* LimitInv says what WithinLimit does.
LEMMA LimitInvIsEnough ==
    ASSUME LimitInv
    PROVE  WithinLimit
<1> SUFFICES ASSUME NEW l \in Limiters
             PROVE  Cardinality(Queue(l)) + 1 <= Limit[l] + Cardinality(Sharing(l))
  BY DEF WithinLimit, Sharing
<1>1. TypeOK
  BY DEF LimitInv, Iterating
<1>2. Cardinality(Beyond(l, 0)) + 1 <= Limit[l] + Cardinality(Stopped(l, 0))
  BY DEF LimitInv, CountedSince
<1>3. Beyond(l, 0) = Queue(l)
  <2>1. Queue(l) \subseteq 1..Len(run) /\ Len(run) \in Nat
    BY <1>1, Countable
  <2>2. \A i \in Queue(l) : i > 0
    BY <2>1
  <2> QED
    BY <2>2 DEF Beyond
<1>4. Cardinality(Stopped(l, 0)) <= Cardinality(Sharing(l))
  <2>1. Stopped(l, 0) \subseteq Sharing(l)
    BY DEF Stopped
  <2>2. IsFiniteSet(Sharing(l))
    BY <1>1, Countable
  <2> QED
    BY <2>1, <2>2, FS_Subset
<1>5. /\ Cardinality(Queue(l)) \in Nat
      /\ Cardinality(Stopped(l, 0)) \in Nat
      /\ Cardinality(Sharing(l)) \in Nat
      /\ Limit[l] \in Nat
  BY <1>1, Countable
<1> QED
  BY <1>2, <1>3, <1>4, <1>5

------------------------------------------------------------------------------
(***************************************************************************)
(* What a step does to the runs a limiter counts                           *)
(***************************************************************************)

\* The run of a poll is counted by every limiter of its process.
LEMMA QueueGrows ==
    ASSUME TypeOK, NEW p \in Processes, PollTakes(p), NEW l \in Limiters
    PROVE  /\ RunIds' = RunIds \cup {Len(run) + 1}
           /\ Queue(l)' = IF l \in LimitersOf[p] THEN Queue(l) \cup {Len(run) + 1}
                                                 ELSE Queue(l)
<1>1. /\ RunIds' = RunIds \cup {Len(run) + 1}
      /\ \A j \in RunIds : run'[j] = run[j]
      /\ run'[Len(run) + 1].proc = p
      /\ run'[Len(run) + 1].phase # "settled"
  BY PollStartsRun
<1>2. Queue(l)' = {i \in RunIds' : l \in LimitersOf[run'[i].proc] /\ run'[i].phase # "settled"}
  BY DEF Queue, Settled
<1>3. Queue(l) = {i \in RunIds : l \in LimitersOf[run[i].proc] /\ run[i].phase # "settled"}
  BY DEF Queue, Settled
<1>4. Len(run) + 1 \notin RunIds
  BY CountableRuns
<1>5. ASSUME NEW i
      PROVE  i \in Queue(l)' <=> i \in Queue(l) \/ (i = Len(run) + 1 /\ l \in LimitersOf[p])
  <2>1. CASE i \in RunIds
    BY <1>1, <1>2, <1>3, <1>4, <2>1
  <2>2. CASE i = Len(run) + 1
    BY <1>1, <1>2, <1>3, <1>4, <2>2
  <2>3. CASE i \notin RunIds /\ i # Len(run) + 1
    BY <1>1, <1>2, <1>3, <2>3
  <2> QED
    BY <2>1, <2>2, <2>3
<1> QED
  BY <1>1, <1>5

\* A run is counted until it has been written.
LEMMA QueueShrinks ==
    ASSUME TypeOK, NEW i \in RunIds, RunStep(i), NEW l \in Limiters
    PROVE  /\ UNCHANGED <<pc, waits>> /\ RunIds' = RunIds
           /\ Queue(l)' = IF Written(i) THEN Queue(l) \ {i} ELSE Queue(l)
<1>1. /\ RunIds' = RunIds
      /\ run[i].phase # "settled"
      /\ \A j \in RunIds : run'[j].proc = run[j].proc
      /\ \A j \in RunIds : j # i => run'[j] = run[j]
      /\ ~Written(i) => run'[i].phase # "settled"
  BY MoveOfRun DEF Settled
<1>2. Written(i) => run'[i].phase = "settled"
  <2>1. run \in Seq(Runs) /\ run[i].next \in Records /\ "settled" \in Phases
    BY RunType DEF TypeOK, Runs, Phases
  <2>2. ASSUME Written(i)
        PROVE  run'[i].phase = "settled"
    <3>1. Moves(i, "settled", run[i].next)
      BY <2>2 DEF Written
    <3> QED
      BY <2>1, <3>1, RunGoesOn
  <2> QED
    BY <2>2
<1>3. Queue(l)' = {j \in RunIds' : l \in LimitersOf[run'[j].proc] /\ run'[j].phase # "settled"}
  BY DEF Queue, Settled
<1>4. Queue(l) = {j \in RunIds : l \in LimitersOf[run[j].proc] /\ run[j].phase # "settled"}
  BY DEF Queue, Settled
<1>5. UNCHANGED <<pc, waits>>
  BY DEF RunStep, RunReturns, RunThrows, Written, WriteThrows, procVars
<1> QED
  BY <1>1, <1>2, <1>3, <1>4, <1>5

\* The other steps of a process start no run.
LEMMA StepsOfLimiters ==
    ASSUME TypeOK, [Next]_vars
    PROVE  \/ \E p \in Processes : PollTakes(p)
           \/ \E i \in RunIds : RunStep(i)
           \/ \E p \in Processes : Admitted(p)
           \/ UNCHANGED <<run, waits>> /\ \A p \in Processes : pc'[p] = "limited" <=> pc[p] = "limited"
<1>1. ASSUME NEW p \in Processes, ProcessStep(p)
      PROVE  \/ PollTakes(p) \/ Admitted(p)
             \/ UNCHANGED <<run, waits>> /\ \A q \in Processes : pc'[q] = "limited" <=> pc[q] = "limited"
  BY <1>1 DEF ProcessStep, FactoryReturns, FactoryThrows, PollEmpty, PollThrows,
              Closed, CloseThrows, Slept, Drained, Fails, taskVars, TypeOK
<1>2. ASSUME (\E t \in Tasks : TimePasses(t)) \/ Stop \/ UNCHANGED vars
      PROVE  UNCHANGED <<run, waits, pc>>
  BY <1>2 DEF TimePasses, Stop, vars, procVars, taskVars
<1> QED
  BY <1>1, <1>2 DEF Next

\* A process waits for something only while it is held up.
LEMMA OnlyLimitedWaitKept ==
    ASSUME TypeOK, OnlyLimitedWait, [Next]_vars
    PROVE  OnlyLimitedWait'
<1> USE DEF OnlyLimitedWait, TypeOK
<1>1. ASSUME NEW p \in Processes, PollTakes(p)
      PROVE  OnlyLimitedWait'
  <2>1. CASE LimitersOf[p] = {}
    <3>1. UNCHANGED waits /\ pc[p] = "polling" /\ \A q \in Processes : q # p => pc'[q] = pc[q]
      BY <1>1, <2>1 DEF PollTakes, Onward
    <3> QED
      BY <3>1
  <2>2. CASE LimitersOf[p] # {}
    <3>1. /\ pc' = [pc EXCEPT ![p] = "limited"]
          /\ \A q \in Processes : q # p => waits'[q] = waits[q]
      BY <1>1, <2>2 DEF PollTakes
    <3> QED
      BY <3>1
  <2> QED
    BY <2>1, <2>2
<1>2. ASSUME NEW i \in RunIds, RunStep(i)
      PROVE  OnlyLimitedWait'
  BY <1>2 DEF RunStep, RunReturns, RunThrows, Written, WriteThrows, procVars
<1>3. ASSUME NEW p \in Processes, Admitted(p)
      PROVE  OnlyLimitedWait'
  <2>1. /\ waits' = [waits EXCEPT ![p] = {}]
        /\ \A q \in Processes : q # p => pc'[q] = pc[q]
    BY <1>3 DEF Admitted, Onward
  <2> QED
    BY <2>1
<1> QED
  BY <1>1, <1>2, <1>3, StepsOfLimiters

------------------------------------------------------------------------------
(***************************************************************************)
(* The count is kept                                                       *)
(***************************************************************************)

\* A poll: the run is one more, and so is its process when the limiter is full.
LEMMA PollIsCounted ==
    ASSUME LimitInv, NEW p \in Processes, PollTakes(p), NEW l \in Limiters, NEW n \in Nat
    PROVE  Cardinality(Beyond(l, n)') + 1 <= Limit[l] + Cardinality(Stopped(l, n)')
<1>0. PICK k : k = Len(run) + 1
  OBVIOUS
<1>1. TypeOK
  BY DEF LimitInv, Iterating
<1>2. /\ Queue(l) \subseteq 1..Len(run) /\ RunIds = 1..Len(run) /\ Len(run) \in Nat
      /\ IsFiniteSet(Queue(l)) /\ Cardinality(Queue(l)) \in Nat
      /\ IsFiniteSet(Beyond(l, n)) /\ Cardinality(Beyond(l, n)) \in Nat
      /\ IsFiniteSet(Stopped(l, n)) /\ Cardinality(Stopped(l, n)) \in Nat
      /\ Limit[l] \in Nat /\ Limit[l] >= 1
  BY <1>1, Countable
<1>3. /\ RunIds' = RunIds \cup {k}
      /\ Queue(l)' = IF l \in LimitersOf[p] THEN Queue(l) \cup {k} ELSE Queue(l)
  BY <1>0, <1>1, QueueGrows
<1>4. p \notin Stopped(l, n)
  <2>1. waits[p] = {}
    BY DEF LimitInv, OnlyLimitedWait, PollTakes
  <2> QED
    BY <2>1 DEF Stopped, Stops
<1>5. Stopped(l, n) \subseteq Stopped(l, n)'
  <2> SUFFICES ASSUME NEW q \in Stopped(l, n) PROVE q \in Stopped(l, n)'
    OBVIOUS
  <2>1. PICK m \in RunIds : m > n /\ Stops(q, l, m)
    BY DEF Stopped
  <2>2. q \in Sharing(l) /\ q # p
    BY <1>4 DEF Stopped
  <2>3. waits'[q] = waits[q]
    BY <1>1, <2>2 DEF PollTakes, TypeOK, Sharing
  <2>4. ~(k <= m)
    BY <1>0, <1>2, <2>1
  <2>5. UpTo(l, m)' = UpTo(l, m)
    BY <1>3, <2>4 DEF UpTo
  <2>6. Stops(q, l, m)'
    BY <2>1, <2>3, <2>5 DEF Stops
  <2> QED
    BY <1>3, <2>1, <2>2, <2>6 DEF Stopped, Sharing
<1>6. IsFiniteSet(Stopped(l, n)') /\ Cardinality(Stopped(l, n)') \in Nat
  <2>1. Stopped(l, n)' \subseteq Processes
    BY DEF Stopped, Sharing
  <2> QED
    BY <2>1, RunnerAssumption, FS_Subset, FS_CardinalityType
<1>7. Cardinality(Stopped(l, n)) <= Cardinality(Stopped(l, n)')
  BY <1>5, <1>6, FS_Subset
<1>8. Cardinality(Beyond(l, n)) + 1 <= Limit[l] + Cardinality(Stopped(l, n))
  BY DEF LimitInv, CountedSince
<1>9. CASE l \notin LimitersOf[p]
  <2>1. Beyond(l, n)' = Beyond(l, n)
    BY <1>3, <1>9 DEF Beyond
  <2> QED
    BY <1>2, <1>6, <1>7, <1>8, <2>1
<1>10. CASE l \in LimitersOf[p] /\ n >= k
  <2>1. \A i \in Queue(l)' : ~(i > n)
    BY <1>0, <1>2, <1>3, <1>10
  <2>2. Beyond(l, n)' = {}
    BY <2>1 DEF Beyond
  <2> QED
    BY <1>2, <1>6, <2>2, FS_EmptySet
<1>11. CASE l \in LimitersOf[p] /\ Cardinality(Queue(l)) + 1 < Limit[l]
  <2>1. Queue(l)' = Queue(l) \cup {k} /\ k \notin Queue(l)
    BY <1>0, <1>2, <1>3, <1>11
  <2>2. IsFiniteSet(Queue(l)') /\ Cardinality(Queue(l)') = Cardinality(Queue(l)) + 1
    BY <1>2, <2>1, FS_AddElement
  <2>3. Beyond(l, n)' \subseteq Queue(l)'
    BY DEF Beyond
  <2>4. /\ Cardinality(Beyond(l, n)') <= Cardinality(Queue(l)')
        /\ Cardinality(Beyond(l, n)') \in Nat
    BY <2>2, <2>3, FS_Subset, FS_CardinalityType
  <2> QED
    BY <1>2, <1>6, <1>11, <2>2, <2>4
<1>12. CASE l \in LimitersOf[p] /\ ~(n >= k) /\ ~(Cardinality(Queue(l)) + 1 < Limit[l])
  <2>1. /\ Queue(l)' = Queue(l) \cup {k}
        /\ Cardinality(Queue(l)) + 1 >= Limit[l]
        /\ k > n
    BY <1>0, <1>2, <1>3, <1>12
  <2>2. waits'[p] = Held(p, k)
    BY <1>0, <1>1, <1>12 DEF PollTakes, TypeOK
  <2>3. Queue(l) \cup {k} \subseteq Held(p, k)
    BY <1>12, <2>1 DEF Held
  <2>4. \A i \in Queue(l) \cup {k} : i <= k
    BY <1>0, <1>2
  <2>5. UpTo(l, k)' = Queue(l) \cup {k}
    BY <2>1, <2>4 DEF UpTo
  <2>6. Stops(p, l, k)'
    BY <2>2, <2>3, <2>5 DEF Stops
  <2>7. p \in Stopped(l, n)'
    BY <1>3, <1>12, <2>1, <2>6 DEF Stopped, Sharing
  <2>8. Stopped(l, n) \cup {p} \subseteq Stopped(l, n)'
    BY <1>5, <2>7
  <2>9. /\ IsFiniteSet(Stopped(l, n) \cup {p})
        /\ Cardinality(Stopped(l, n) \cup {p}) = Cardinality(Stopped(l, n)) + 1
    BY <1>2, <1>4, FS_AddElement
  <2>10. Cardinality(Stopped(l, n)) + 1 <= Cardinality(Stopped(l, n)')
    BY <1>6, <2>8, <2>9, FS_Subset
  <2>11. k \notin Beyond(l, n)
    BY <1>0, <1>2 DEF Beyond
  <2>12. /\ IsFiniteSet(Beyond(l, n) \cup {k})
         /\ Cardinality(Beyond(l, n) \cup {k}) = Cardinality(Beyond(l, n)) + 1
    BY <1>0, <1>2, <2>11, FS_AddElement
  <2>13. Beyond(l, n)' \subseteq Beyond(l, n) \cup {k}
    BY <2>1 DEF Beyond
  <2>14. /\ Cardinality(Beyond(l, n)') <= Cardinality(Beyond(l, n) \cup {k})
         /\ Cardinality(Beyond(l, n)') \in Nat
         /\ Cardinality(Beyond(l, n) \cup {k}) \in Nat
    BY <2>12, <2>13, FS_Subset, FS_CardinalityType
  <2>15. Cardinality(Beyond(l, n)') <= Cardinality(Beyond(l, n)) + 1
    BY <2>12, <2>14
  <2>16. /\ Cardinality(Beyond(l, n)) \in Nat /\ Cardinality(Stopped(l, n)) \in Nat
         /\ Cardinality(Beyond(l, n)') \in Nat /\ Cardinality(Stopped(l, n)') \in Nat
         /\ Limit[l] \in Nat
    BY <1>2, <1>6, <2>14
  <2> QED
    BY <1>8, <2>10, <2>15, <2>16
<1> QED
  BY <1>9, <1>10, <1>11, <1>12

\* A run that is written lets go of those for whom it was the last.  What they
\* waited for has gone, so the runs that are left were started after the last of
\* them was held up, and are counted by those that were held up since.
LEMMA WriteIsCounted ==
    ASSUME LimitInv, NEW i \in RunIds, RunStep(i), NEW l \in Limiters, NEW n \in Nat
    PROVE  Cardinality(Beyond(l, n)') + 1 <= Limit[l] + Cardinality(Stopped(l, n)')
<1> DEFINE Emptied == {m \in RunIds : UpTo(l, m) = {i}}
<1>1. TypeOK
  BY DEF LimitInv, Iterating
<1>2. /\ Queue(l) \subseteq 1..Len(run) /\ RunIds = 1..Len(run) /\ Len(run) \in Nat
      /\ Limit[l] \in Nat
  BY <1>1, Countable
<1>3. /\ RunIds' = RunIds /\ UNCHANGED waits
      /\ Queue(l)' = IF Written(i) THEN Queue(l) \ {i} ELSE Queue(l)
  BY <1>1, QueueShrinks
<1>4. ASSUME NEW c \in Nat, \A m \in Emptied : m <= c
      PROVE  Stopped(l, c) \subseteq Stopped(l, c)'
  <2> SUFFICES ASSUME NEW q \in Stopped(l, c) PROVE q \in Stopped(l, c)'
    OBVIOUS
  <2>1. PICK m \in RunIds : m > c /\ Stops(q, l, m)
    BY DEF Stopped
  <2>2. UpTo(l, m) # {i}
    BY <1>2, <1>4, <2>1
  <2>3. UpTo(l, m)' = IF Written(i) THEN UpTo(l, m) \ {i} ELSE UpTo(l, m)
    BY <1>3 DEF UpTo
  <2>4. UpTo(l, m) # {} /\ UpTo(l, m) \subseteq waits'[q]
    BY <1>3, <2>1 DEF Stops
  <2>5. Stops(q, l, m)'
    BY <2>2, <2>3, <2>4 DEF Stops
  <2> QED
    BY <1>3, <2>1, <2>5 DEF Stopped, Sharing
<1>5. ASSUME NEW c \in Nat, \A m \in Emptied : m <= c,
             Beyond(l, n)' \subseteq Beyond(l, c), c >= n
      PROVE  Cardinality(Beyond(l, n)') + 1 <= Limit[l] + Cardinality(Stopped(l, n)')
  <2>1. Cardinality(Beyond(l, c)) + 1 <= Limit[l] + Cardinality(Stopped(l, c))
    BY DEF LimitInv, CountedSince
  <2>2. /\ IsFiniteSet(Beyond(l, c)) /\ Cardinality(Beyond(l, c)) \in Nat
        /\ Cardinality(Stopped(l, c)) \in Nat
    BY <1>1, Countable
  <2>3. /\ Cardinality(Beyond(l, n)') <= Cardinality(Beyond(l, c))
        /\ Cardinality(Beyond(l, n)') \in Nat
    BY <1>5, <2>2, FS_Subset, FS_CardinalityType
  <2>4. Stopped(l, c)' \subseteq Stopped(l, n)'
    BY <1>2, <1>3, <1>5 DEF Stopped
  <2>5. Stopped(l, c) \subseteq Stopped(l, n)'
    BY <1>4, <1>5, <2>4
  <2>6. Stopped(l, n)' \subseteq Processes
    BY DEF Stopped, Sharing
  <2>7. IsFiniteSet(Stopped(l, n)') /\ Cardinality(Stopped(l, n)') \in Nat
    BY <2>6, RunnerAssumption, FS_Subset, FS_CardinalityType
  <2>8. Cardinality(Stopped(l, c)) <= Cardinality(Stopped(l, n)')
    BY <2>5, <2>7, FS_Subset
  <2>9. /\ Cardinality(Beyond(l, c)) \in Nat /\ Cardinality(Stopped(l, c)) \in Nat
        /\ Cardinality(Beyond(l, n)') \in Nat /\ Cardinality(Stopped(l, n)') \in Nat
        /\ Limit[l] \in Nat
    BY <1>2, <2>2, <2>3, <2>7
  <2>10. Cardinality(Beyond(l, n)') <= Cardinality(Beyond(l, c))
    BY <2>3
  <2> QED
    BY <2>1, <2>8, <2>9, <2>10
<1>6. Beyond(l, n)' \subseteq Beyond(l, n)
  BY <1>3 DEF Beyond
<1>7. CASE \A m \in Emptied : m <= n
  <2>1. n >= n
    OBVIOUS
  <2> QED
    BY <1>5, <1>6, <1>7, <2>1
<1>8. CASE ~(\A m \in Emptied : m <= n)
  <2>1. Emptied # {} /\ Emptied \subseteq 1..Len(run)
    BY <1>2, <1>8
  <2>2. PICK e \in Emptied : \A m \in Emptied : m <= e
    BY <1>2, <2>1, Greatest
  <2>3. e \in Nat /\ e >= n
    BY <1>2, <1>8, <2>2
  <2>4. CASE Written(i)
    <3>1. ASSUME NEW j \in Beyond(l, n)'
          PROVE  j \in Beyond(l, e)
      <4>1. j \in Queue(l) /\ j # i
        BY <1>3, <2>4, <3>1 DEF Beyond
      <4>2. j \notin UpTo(l, e)
        BY <2>2, <4>1
      <4>3. j > e
        BY <1>2, <2>3, <4>1, <4>2 DEF UpTo
      <4> QED
        BY <4>1, <4>3 DEF Beyond
    <3> QED
      BY <1>5, <2>2, <2>3, <3>1
  <2>5. CASE ~Written(i)
    <3>1. Queue(l)' = Queue(l) /\ UNCHANGED waits
      BY <1>3, <2>5
    <3>2. Beyond(l, n)' = Beyond(l, n) /\ \A m \in RunIds : UpTo(l, m)' = UpTo(l, m)
      BY <3>1 DEF Beyond, UpTo
    <3>3. Stopped(l, n)' = Stopped(l, n)
      BY <1>3, <3>1, <3>2 DEF Stopped, Sharing, Stops
    <3> QED
      BY <3>2, <3>3 DEF LimitInv, CountedSince
  <2> QED
    BY <2>4, <2>5
<1> QED
  BY <1>7, <1>8

\* Who is let go waited for nothing any more.
LEMMA AdmissionIsCounted ==
    ASSUME LimitInv, NEW p \in Processes, Admitted(p), NEW l \in Limiters, NEW n \in Nat
    PROVE  Cardinality(Beyond(l, n)') + 1 <= Limit[l] + Cardinality(Stopped(l, n)')
<1>1. TypeOK
  BY DEF LimitInv, Iterating
<1>2. UNCHANGED run /\ waits' = [waits EXCEPT ![p] = {}] /\ \A i \in waits[p] : Settled(i)
  BY DEF Admitted, taskVars
<1>3. Queue(l)' = Queue(l) /\ RunIds' = RunIds
  BY <1>2 DEF Queue, RunIds, Settled
<1>4. Beyond(l, n)' = Beyond(l, n) /\ \A m \in RunIds : UpTo(l, m)' = UpTo(l, m)
  BY <1>3 DEF Beyond, UpTo
<1>5. \A m \in RunIds : ~Stops(p, l, m) /\ ~Stops(p, l, m)'
  <2>1. \A m \in RunIds : \A i \in UpTo(l, m) : ~Settled(i)
    BY DEF UpTo, Queue
  <2>2. waits'[p] = {}
    BY <1>1, <1>2 DEF TypeOK
  <2> QED
    BY <1>2, <2>1, <2>2 DEF Stops
<1>6. \A q \in Processes : q # p => \A m \in RunIds : Stops(q, l, m)' <=> Stops(q, l, m)
  BY <1>1, <1>2, <1>4 DEF Stops, TypeOK
<1>7. Stopped(l, n)' = Stopped(l, n)
  BY <1>3, <1>5, <1>6 DEF Stopped, Sharing
<1> QED
  BY <1>4, <1>7 DEF LimitInv, CountedSince

\* The count is kept in every step.
LEMMA CountedSinceKept ==
    ASSUME LimitInv, [Next]_vars
    PROVE  CountedSince'
<1> SUFFICES ASSUME NEW l \in Limiters, NEW n \in Nat
             PROVE  Cardinality(Beyond(l, n)') + 1 <= Limit[l] + Cardinality(Stopped(l, n)')
  BY DEF CountedSince
<1>1. CASE UNCHANGED <<run, waits>>
  <2>1. Beyond(l, n)' = Beyond(l, n) /\ Stopped(l, n)' = Stopped(l, n)
    BY <1>1 DEF Beyond, Stopped, Sharing, Stops, UpTo, Queue, RunIds, Settled
  <2> QED
    BY <2>1 DEF LimitInv, CountedSince
<1> QED
  BY <1>1, PollIsCounted, WriteIsCounted, AdmissionIsCounted, StepsOfLimiters
  DEF LimitInv, Iterating

\* Nothing is counted at first.
LEMMA CountedAtFirst ==
    ASSUME Init
    PROVE  OnlyLimitedWait /\ CountedSince
<1>1. \A l \in Limiters : \A n \in Nat : Beyond(l, n) = {} /\ Stopped(l, n) = {}
  BY DEF Init, Beyond, Stopped, Queue, RunIds
<1>2. \A l \in Limiters : Limit[l] \in Nat /\ Limit[l] >= 1
  BY RunnerAssumption
<1>3. CountedSince
  <2>1. ASSUME NEW l \in Limiters, NEW n \in Nat
        PROVE  Cardinality(Beyond(l, n)) + 1 <= Limit[l] + Cardinality(Stopped(l, n))
    <3>1. Cardinality(Beyond(l, n)) = 0 /\ Cardinality(Stopped(l, n)) = 0
      BY <1>1, FS_EmptySet
    <3> QED
      BY <1>2, <3>1
  <2> QED
    BY <2>1 DEF CountedSince
<1> QED
  BY <1>3 DEF Init, OnlyLimitedWait

\* However many processes share a limiter, the runs that go on are fewer than its
\* limit and one for each of them: a run is started before it is counted, but its
\* process then waits for every run the limiter knows of.
THEOREM LimitersHold == Spec => []WithinLimit
<1>1. Init => OnlyLimitedWait /\ CountedSince
  BY CountedAtFirst
<1>2. LimitInv /\ [Next]_vars => OnlyLimitedWait' /\ CountedSince'
  BY OnlyLimitedWaitKept, CountedSinceKept DEF LimitInv, Iterating
<1>3. LimitInv => WithinLimit
  BY LimitInvIsEnough
<1> QED
  BY <1>1, <1>2, <1>3, IteratingHolds, PTL DEF Spec, LimitInv

------------------------------------------------------------------------------
(***************************************************************************)
(* Runs and retries, when a poll marks what it hands out                   *)
(***************************************************************************)

\* No two configurations poll the same task.
OwnTasks == \A p, q \in Processes : p # q => Source[p] \cap Source[q] = {}

\* The runs that have a task in hand.
InHand(t) == {i \in RunIds : run[i].task = t /\ run[i].phase # "settled"}

\* What a run that goes on knows of its task: the fails in the store, one more once
\* it has thrown, which is then what has happened.
KnowsFails(i, t) ==
    /\ run[i].next.fails = failures[t]
    /\ run[i].phase = "running" => failures[t] = store[t].fails
    /\ failures[t] \in {store[t].fails, store[t].fails + 1}
    /\ run[i].next.state # "RUNNING"
    /\ \/ run[i].next.fails <= Retries[run[i].proc]
       \/ /\ run[i].next.state = "REJECTED"
          /\ run[i].next.fails = Retries[run[i].proc] + 1

\* A marked task is in the hand of one run, of the process that polls it.
Marked(t) ==
    \E i \in RunIds : /\ InHand(t) = {i}
                      /\ t \in Source[run[i].proc]
                      /\ KnowsFails(i, t)

\* Whoever has not been given up may fail once more.
MayFail(t) ==
    \A p \in Processes : t \in Source[p] =>
        \/ store[t].fails <= Retries[p]
        \/ store[t].state = "REJECTED" /\ store[t].fails = Retries[p] + 1

TaskInv(t) ==
    /\ store[t].state = "RUNNING" => Marked(t)
    /\ store[t].state # "RUNNING" => InHand(t) = {} /\ failures[t] = store[t].fails
    /\ MayFail(t)

\* The inductive invariant behind RunsAreCounted.
CountInv == Iterating /\ \A t \in Tasks : TaskInv(t)

\* CountInv says what RunsAreCounted does.
LEMMA CountInvIsEnough ==
    ASSUME CountInv, OwnTasks
    PROVE  RunsAreCounted
<1> USE DEF CountInv, Iterating
<1>1. ASSUME NEW t \in Tasks
      PROVE  /\ store[t].fails \in Nat /\ failures[t] \in Nat
             /\ \A p \in Processes : Retries[p] \in Nat
  BY RunnerAssumption DEF TypeOK, Records
<1>2. OneRunPerTask
  <2> SUFFICES ASSUME NEW t \in Tasks
               PROVE  Cardinality(InHand(t)) = IF store[t].state = "RUNNING" THEN 1 ELSE 0
    BY DEF OneRunPerTask, InHand, Settled
  <2>1. CASE store[t].state = "RUNNING"
    <3>1. PICK i \in RunIds : InHand(t) = {i}
      BY <2>1 DEF TaskInv, Marked
    <3> QED
      BY <2>1, <3>1, FS_Singleton
  <2>2. CASE store[t].state # "RUNNING"
    BY <2>2, FS_EmptySet DEF TaskInv
  <2> QED
    BY <2>1, <2>2
<1>3. RetriesAreCounted
  <2> SUFFICES ASSUME NEW p \in Processes, NEW t \in Source[p]
               PROVE  /\ failures[t] <= Retries[p] + 1
                      /\ failures[t] = Retries[p] + 1 =>
                            \/ store[t].state = "REJECTED"
                            \/ \E i \in RunIds : run[i].task = t /\ run[i].phase = "writing"
                      /\ store[t].state = "READY" => failures[t] <= Retries[p]
                      /\ store[t].fails + Cardinality({i \in RunIds : /\ run[i].task = t
                                                        /\ run[i].phase = "writing"
                                                        /\ run[i].next.fails # store[t].fails})
                         = failures[t]
    BY DEF RetriesAreCounted
  <2> DEFINE Thrown == {i \in RunIds : /\ run[i].task = t
                                       /\ run[i].phase = "writing"
                                       /\ run[i].next.fails # store[t].fails}
  <2>1. t \in Tasks
    BY RunnerAssumption
  <2>2. MayFail(t)
    BY <2>1 DEF TaskInv
  <2>3. CASE store[t].state = "RUNNING"
    <3>1. PICK i \in RunIds : InHand(t) = {i} /\ t \in Source[run[i].proc] /\ KnowsFails(i, t)
      BY <2>1, <2>3 DEF TaskInv, Marked
    <3>2. run[i].task = t /\ run[i].phase # "settled" /\ run[i].phase \in Phases
      BY <3>1, RunType DEF InHand
    <3>3. store[t].fails <= Retries[p]
      BY <2>2, <2>3 DEF MayFail
    <3>4. \A j \in RunIds : run[j].task = t /\ run[j].phase = "writing" => j = i
      BY <3>1 DEF InHand
    <3>5. Thrown \subseteq {i}
      BY <3>4
    <3>6. CASE failures[t] = store[t].fails
      <4>1. i \notin Thrown
        BY <3>1, <3>6 DEF KnowsFails
      <4>2. Thrown = {}
        BY <3>5, <4>1
      <4>3. Cardinality(Thrown) = 0
        BY <4>2, FS_EmptySet
      <4> QED
        BY <1>1, <2>1, <2>3, <3>3, <3>6, <4>3
    <3>7. CASE failures[t] # store[t].fails
      <4>1. failures[t] = store[t].fails + 1 /\ run[i].next.fails # store[t].fails
        BY <3>1, <3>7 DEF KnowsFails
      <4>2. run[i].phase = "writing"
        BY <3>1, <3>2, <3>7 DEF KnowsFails, Phases
      <4>3. Thrown = {i}
        BY <3>2, <3>5, <4>1, <4>2
      <4>4. Cardinality(Thrown) = 1
        BY <4>3, FS_Singleton
      <4>5. \E j \in RunIds : run[j].task = t /\ run[j].phase = "writing"
        BY <3>2, <4>2
      <4> HIDE DEF Thrown
      <4>6. failures[t] <= Retries[p] + 1 /\ store[t].fails + Cardinality(Thrown) = failures[t]
        BY <1>1, <2>1, <3>3, <4>1, <4>4
      <4> QED
        BY <2>3, <4>5, <4>6 DEF Thrown
    <3> QED
      BY <3>6, <3>7
  <2>4. CASE store[t].state # "RUNNING"
    <3>1. InHand(t) = {} /\ failures[t] = store[t].fails
      BY <2>1, <2>4 DEF TaskInv
    <3>2. Thrown = {}
      BY <3>1 DEF InHand
    <3>3. Cardinality(Thrown) = 0
      BY <3>2, FS_EmptySet
    <3>4. \/ failures[t] <= Retries[p]
          \/ store[t].state = "REJECTED" /\ failures[t] = Retries[p] + 1
      BY <2>2, <3>1 DEF MayFail
    <3> HIDE DEF Thrown
    <3>5. store[t].fails + Cardinality(Thrown) = failures[t]
      BY <1>1, <2>1, <3>1, <3>3
    <3>6. /\ failures[t] <= Retries[p] + 1
          /\ failures[t] = Retries[p] + 1 => store[t].state = "REJECTED"
          /\ store[t].state = "READY" => failures[t] <= Retries[p]
      BY <1>1, <2>1, <3>4
    <3> QED
      BY <3>5, <3>6 DEF Thrown
  <2> QED
    BY <2>3, <2>4
<1> QED
  BY <1>2, <1>3 DEF RunsAreCounted

\* A task of which a step changes nothing that is counted.
LEMMA TaskUntouched ==
    ASSUME NEW t \in Tasks, TaskInv(t),
           InHand(t)' = InHand(t), RunIds \subseteq RunIds',
           \A i \in InHand(t) : run'[i] = run[i],
           store'[t].state = store[t].state, store'[t].fails = store[t].fails,
           failures'[t] = failures[t]
    PROVE  TaskInv(t)'
<1>1. MayFail(t)'
  BY DEF TaskInv, MayFail
<1>2. ASSUME store[t].state = "RUNNING"
      PROVE  Marked(t)'
  <2>1. PICK i \in RunIds : InHand(t) = {i} /\ t \in Source[run[i].proc] /\ KnowsFails(i, t)
    BY <1>2 DEF TaskInv, Marked
  <2>2. run'[i] = run[i] /\ i \in RunIds' /\ InHand(t)' = {i}
    BY <2>1
  <2>3. KnowsFails(i, t)'
    BY <2>1, <2>2 DEF KnowsFails
  <2> QED
    BY <2>1, <2>2, <2>3 DEF Marked
<1>3. ASSUME store[t].state # "RUNNING"
      PROVE  InHand(t)' = {} /\ failures'[t] = store'[t].fails
  BY <1>3 DEF TaskInv
<1> QED
  BY <1>1, <1>2, <1>3 DEF TaskInv

\* A poll marks the task it takes and puts it into the hand of its run.
LEMMA PollCounts ==
    ASSUME CountInv, Claims, NEW p \in Processes, PollTakes(p), NEW t \in Tasks
    PROVE  TaskInv(t)'
<1> USE DEF CountInv, Iterating
<1>0. PICK k : k = Len(run) + 1
  OBVIOUS
<1>1. run \in Seq(Runs) /\ k \notin RunIds
  <2>1. Len(run) + 1 \notin RunIds
    BY CountableRuns
  <2> QED
    BY <1>0, <2>1 DEF TypeOK, Runs, Phases
<1>2. PICK u \in Due(p) :
         /\ store' = [store EXCEPT ![u].state = "RUNNING"]
         /\ run' = Append(run, [proc |-> p, task |-> u, phase |-> "running",
                                next |-> [store[u] EXCEPT !.state = "DONE"]])
  BY DEF PollTakes
<1>3. u \in Tasks /\ u \in Source[p] /\ store[u] \in Records /\ store[u].state = "READY"
  BY RunnerAssumption DEF Due, TypeOK
<1> DEFINE r == [proc |-> p, task |-> u, phase |-> "running",
                 next |-> [store[u] EXCEPT !.state = "DONE"]]
<1>4. /\ r \in Runs
      /\ r.next.fails = store[u].fails /\ r.next.state = "DONE"
      /\ r.proc = p /\ r.task = u /\ r.phase = "running"
  <2>1. /\ [store[u] EXCEPT !.state = "DONE"] \in Records
        /\ [store[u] EXCEPT !.state = "DONE"].fails = store[u].fails
        /\ [store[u] EXCEPT !.state = "DONE"].state = "DONE"
    BY <1>3 DEF Records
  <2> QED
    BY <1>3, <2>1 DEF Runs, Phases
<1> HIDE DEF r
<1>5. /\ RunIds' = RunIds \cup {k}
      /\ run'[k] = r
      /\ \A j \in RunIds : run'[j] = run[j]
  BY <1>0, <1>1, <1>2, <1>4, RunAdded DEF r
<1>6. /\ store'[u].state = "RUNNING" /\ store'[u].fails = store[u].fails
      /\ \A v \in Tasks : v # u => store'[v] = store[v]
  BY <1>2, <1>3 DEF TypeOK, Records
<1>7. UNCHANGED failures
  BY DEF PollTakes
<1>8. ASSUME NEW v
      PROVE  InHand(v)' = IF v = u THEN InHand(v) \cup {k} ELSE InHand(v)
  <2>1. InHand(v)' = {i \in RunIds' : run'[i].task = v /\ run'[i].phase # "settled"}
    BY DEF InHand
  <2>2. \A i : i \in InHand(v)' <=> i \in InHand(v) \/ (i = k /\ v = u)
    BY <1>1, <1>4, <1>5, <2>1 DEF InHand
  <2> QED
    BY <2>2
<1>9. CASE t # u
  <2>1. InHand(t)' = InHand(t)
    BY <1>8, <1>9
  <2>2. \A i \in InHand(t) : run'[i] = run[i]
    BY <1>5 DEF InHand
  <2> QED
    BY <1>5, <1>6, <1>7, <1>9, <2>1, <2>2, TaskUntouched
<1>10. CASE t = u
  <2>1. InHand(u) = {} /\ failures[u] = store[u].fails /\ MayFail(u)
    BY <1>3 DEF TaskInv
  <2>2. InHand(u)' = {k}
    BY <1>8, <2>1
  <2>3. store[u].fails <= Retries[p]
    BY <1>3, <2>1 DEF MayFail
  <2>4. store[u].fails \in Nat /\ failures'[u] = store[u].fails
    BY <1>3, <1>7, <2>1 DEF Records
  <2>5. KnowsFails(k, u)'
    BY <1>4, <1>5, <1>6, <2>3, <2>4 DEF KnowsFails
  <2>6. Marked(u)'
    BY <1>3, <1>4, <1>5, <2>2, <2>5 DEF Marked
  <2>7. MayFail(u)'
    BY <1>3, <1>6, <2>1 DEF MayFail
  <2> QED
    BY <1>6, <1>10, <2>6, <2>7 DEF TaskInv
<1> QED
  BY <1>9, <1>10

\* A run that has ended, or has thrown, is still the one that has the task, and
\* knows what has happened.
LEMMA EndOfRunCounts ==
    ASSUME CountInv, NEW i \in RunIds, RunReturns(i) \/ RunThrows(i), NEW t \in Tasks
    PROVE  TaskInv(t)'
<1> USE DEF CountInv, Iterating
<1>1. /\ run \in Seq(Runs)
      /\ run[i].task \in Tasks /\ run[i].proc \in Processes /\ run[i].next \in Records
      /\ run[i].phase = "running" /\ "writing" \in Phases
      /\ UNCHANGED store
  BY RunType DEF TypeOK, Runs, Phases, RunReturns, RunThrows
<1> DEFINE u == run[i].task
<1>2. InHand(u) = {i} /\ u \in Source[run[i].proc] /\ KnowsFails(i, u)
  <2>1. i \in InHand(u)
    BY <1>1 DEF InHand
  <2>2. store[u].state = "RUNNING"
    BY <1>1, <2>1 DEF TaskInv
  <2>3. PICK j \in RunIds : InHand(u) = {j} /\ u \in Source[run[j].proc] /\ KnowsFails(j, u)
    BY <1>1, <2>2 DEF TaskInv, Marked
  <2> QED
    BY <2>1, <2>3
<1>3. /\ run[i].next.fails = store[u].fails /\ failures[u] = store[u].fails
      /\ store[u].fails \in Nat /\ Retries[run[i].proc] \in Nat
      /\ store[u].state = "RUNNING"
  <2>1. store[u].state = "RUNNING"
    BY <1>1, <1>2 DEF TaskInv
  <2> QED
    BY <1>1, <1>2, <2>1, RunnerAssumption DEF KnowsFails, TypeOK, Records
<1>4. store[u].fails <= Retries[run[i].proc]
  <2>1. MayFail(u)
    BY <1>1 DEF TaskInv
  <2> QED
    BY <1>1, <1>2, <1>3, <2>1 DEF MayFail
<1>5. PICK next \in Records :
         /\ Moves(i, "writing", next)
         /\ next.fails = failures'[u]
         /\ failures'[u] \in {store[u].fails, store[u].fails + 1}
         /\ next.state # "RUNNING"
         /\ \/ next.fails <= Retries[run[i].proc]
            \/ next.state = "REJECTED" /\ next.fails = Retries[run[i].proc] + 1
         /\ \A v \in Tasks : v # u => failures'[v] = failures[v]
  <2>1. CASE RunReturns(i)
    <3> DEFINE given == [run[i].next EXCEPT !.state = "REJECTED"]
               later == [run[i].next EXCEPT !.state = "READY", !.due = FALSE]
    <3>1. /\ given \in Records /\ given.fails = run[i].next.fails /\ given.state = "REJECTED"
          /\ later \in Records /\ later.fails = run[i].next.fails /\ later.state = "READY"
      <4>1. FALSE \in BOOLEAN
        OBVIOUS
      <4> QED
        BY <1>1, <4>1 DEF Records
    <3>2. run[i].next.state # "RUNNING"
      BY <1>2 DEF KnowsFails
    <3>3. \/ Moves(i, "writing", run[i].next)
          \/ Moves(i, "writing", given)
          \/ Moves(i, "writing", later)
      BY <2>1 DEF RunReturns
    <3>4. UNCHANGED failures
      BY <2>1 DEF RunReturns
    <3>5. PICK next \in {run[i].next, given, later} : Moves(i, "writing", next)
      BY <3>3
    <3>6. next \in Records /\ next.fails = store[u].fails /\ next.state # "RUNNING"
      BY <1>1, <1>3, <3>1, <3>2, <3>5
    <3>7. failures'[u] = store[u].fails
      BY <1>3, <3>4
    <3> HIDE DEF given, later
    <3> QED
      BY <1>4, <3>4, <3>5, <3>6, <3>7
  <2>2. CASE RunThrows(i)
    <3> DEFINE next == Retried(run[i].proc, run[i].next)
    <3>1. next \in Records /\ next.state \in {"READY", "REJECTED"}
      BY <1>1, RetriedRecord
    <3>2. /\ next.fails = store[u].fails + 1
          /\ \/ next.fails <= Retries[run[i].proc]
             \/ next.state = "REJECTED" /\ next.fails = Retries[run[i].proc] + 1
      <4>1. CASE run[i].next.fails + 1 <= Retries[run[i].proc]
        BY <1>3, <4>1 DEF Retried
      <4>2. CASE ~(run[i].next.fails + 1 <= Retries[run[i].proc])
        <5>1. next = [run[i].next EXCEPT !.state = "REJECTED", !.fails = run[i].next.fails + 1]
          BY <4>2 DEF Retried
        <5>2. next.state = "REJECTED" /\ next.fails = run[i].next.fails + 1
          BY <1>1, <5>1 DEF Records
        <5> QED
          BY <1>3, <1>4, <4>2, <5>2
      <4> QED
        BY <4>1, <4>2
    <3>3. /\ failures'[u] = store[u].fails + 1
          /\ \A v \in Tasks : v # u => failures'[v] = failures[v]
      BY <1>1, <1>3, <2>2 DEF RunThrows, TypeOK
    <3>4. Moves(i, "writing", next)
      BY <2>2 DEF RunThrows
    <3> HIDE DEF next
    <3> QED
      BY <1>3, <3>1, <3>2, <3>3, <3>4
  <2> QED
    BY <2>1, <2>2
<1>6. /\ RunIds' = RunIds
      /\ run'[i].phase = "writing" /\ run'[i].next = next
      /\ \A j \in RunIds : j # i => run'[j] = run[j]
      /\ \A j \in RunIds : run'[j].proc = run[j].proc /\ run'[j].task = run[j].task
  BY <1>1, <1>5, RunGoesOn
<1>7. InHand(t)' = InHand(t)
  BY <1>1, <1>6 DEF InHand
<1>8. CASE t # u
  <2>1. \A j \in InHand(t) : run'[j] = run[j]
    BY <1>6, <1>8 DEF InHand
  <2> QED
    BY <1>1, <1>5, <1>6, <1>7, <1>8, <2>1, TaskUntouched
<1>9. CASE t = u
  <2>1. KnowsFails(i, t)'
    BY <1>1, <1>5, <1>6, <1>9 DEF KnowsFails
  <2>2. Marked(t)'
    BY <1>2, <1>6, <1>7, <1>9, <2>1 DEF Marked
  <2>3. MayFail(t)'
    BY <1>1 DEF TaskInv, MayFail
  <2> QED
    BY <1>1, <1>3, <1>9, <2>2, <2>3 DEF TaskInv
<1> QED
  BY <1>8, <1>9

\* A run that is written gives its task back with what has happened.
LEMMA WriteCounts ==
    ASSUME CountInv, OwnTasks, NEW i \in RunIds, Written(i), NEW t \in Tasks
    PROVE  TaskInv(t)'
<1> USE DEF CountInv, Iterating
<1>1. /\ run \in Seq(Runs)
      /\ run[i].task \in Tasks /\ run[i].proc \in Processes /\ run[i].next \in Records
      /\ run[i].phase = "writing" /\ "settled" \in Phases
      /\ UNCHANGED failures
      /\ Moves(i, "settled", run[i].next)
      /\ store' = [store EXCEPT ![run[i].task] = run[i].next]
  BY RunType DEF TypeOK, Runs, Phases, Written
<1> DEFINE u == run[i].task
<1>2. InHand(u) = {i} /\ u \in Source[run[i].proc] /\ KnowsFails(i, u)
  <2>1. i \in InHand(u)
    BY <1>1 DEF InHand
  <2>2. store[u].state = "RUNNING"
    BY <1>1, <2>1 DEF TaskInv
  <2>3. PICK j \in RunIds : InHand(u) = {j} /\ u \in Source[run[j].proc] /\ KnowsFails(j, u)
    BY <1>1, <2>2 DEF TaskInv, Marked
  <2> QED
    BY <2>1, <2>3
<1>3. /\ RunIds' = RunIds
      /\ run'[i].phase = "settled"
      /\ \A j \in RunIds : j # i => run'[j] = run[j]
      /\ \A j \in RunIds : run'[j].proc = run[j].proc /\ run'[j].task = run[j].task
  BY <1>1, RunGoesOn
<1>4. store'[u] = run[i].next /\ \A v \in Tasks : v # u => store'[v] = store[v]
  BY <1>1 DEF TypeOK
<1>5. CASE t # u
  <2>1. InHand(t)' = InHand(t)
    BY <1>3, <1>5 DEF InHand
  <2>2. \A j \in InHand(t) : run'[j] = run[j]
    BY <1>3, <1>5 DEF InHand
  <2> QED
    BY <1>1, <1>3, <1>4, <1>5, <2>1, <2>2, TaskUntouched
<1>6. CASE t = u
  <2>1. InHand(t)' = {}
    <3>1. \A j \in RunIds : run[j].task = t /\ run[j].phase # "settled" => j = i
      BY <1>2, <1>6 DEF InHand
    <3> QED
      BY <1>3, <3>1 DEF InHand
  <2>2. store'[t].state # "RUNNING" /\ failures'[t] = store'[t].fails
    BY <1>1, <1>2, <1>4, <1>6 DEF KnowsFails
  <2>3. ASSUME NEW p \in Processes, t \in Source[p]
        PROVE  p = run[i].proc
    BY <1>1, <1>2, <1>6, <2>3 DEF OwnTasks
  <2>4. MayFail(t)'
    BY <1>2, <1>4, <1>6, <2>3 DEF MayFail, KnowsFails
  <2> QED
    BY <2>1, <2>2, <2>4 DEF TaskInv
<1> QED
  BY <1>5, <1>6

\* Every other step leaves alone what is counted.
LEMMA OtherStepsOfTasks ==
    ASSUME [Next]_vars
    PROVE  \/ \E p \in Processes : PollTakes(p)
           \/ \E i \in RunIds : RunReturns(i) \/ RunThrows(i) \/ Written(i)
           \/ \E u \in Tasks : TimePasses(u)
           \/ UNCHANGED <<run, store, failures>>
<1>1. ASSUME NEW p \in Processes, ProcessStep(p)
      PROVE  PollTakes(p) \/ UNCHANGED <<run, store, failures>>
  BY <1>1 DEF ProcessStep, FactoryReturns, FactoryThrows, PollEmpty, PollThrows, Admitted,
              Closed, CloseThrows, Slept, Drained, Fails, taskVars
<1>2. ASSUME NEW i \in RunIds, WriteThrows(i)
      PROVE  UNCHANGED <<run, store, failures>>
  BY <1>2 DEF WriteThrows, taskVars
<1>3. ASSUME Stop \/ UNCHANGED vars
      PROVE  UNCHANGED <<run, store, failures>>
  BY <1>3 DEF Stop, vars, taskVars
<1> QED
  BY <1>1, <1>2, <1>3 DEF Next, RunStep

\* Every step keeps what is known of the tasks.
LEMMA CountKept ==
    ASSUME CountInv, Claims, OwnTasks, [Next]_vars
    PROVE  \A t \in Tasks : TaskInv(t)'
<1> SUFFICES ASSUME NEW t \in Tasks
             PROVE  TaskInv(t)'
  OBVIOUS
<1>1. TaskInv(t) /\ TypeOK
  BY DEF CountInv, Iterating
<1>2. ASSUME UNCHANGED <<run, failures>>,
             store'[t].state = store[t].state, store'[t].fails = store[t].fails
      PROVE  TaskInv(t)'
  <2>1. /\ InHand(t)' = InHand(t) /\ RunIds \subseteq RunIds'
        /\ \A i \in InHand(t) : run'[i] = run[i]
    BY <1>2 DEF InHand, RunIds
  <2> QED
    BY <1>1, <1>2, <2>1, TaskUntouched
<1>3. ASSUME NEW u \in Tasks, TimePasses(u)
      PROVE  TaskInv(t)'
  <2>1. UNCHANGED <<run, failures>> /\ store' = [store EXCEPT ![u].due = TRUE]
    BY <1>3 DEF TimePasses
  <2>2. store'[t].state = store[t].state /\ store'[t].fails = store[t].fails
    BY <1>1, <2>1 DEF TypeOK, Records
  <2> QED
    BY <1>2, <2>1, <2>2
<1>4. CASE UNCHANGED <<run, store, failures>>
  BY <1>2, <1>4
<1> QED
  BY <1>3, <1>4, PollCounts, EndOfRunCounts, WriteCounts, OtherStepsOfTasks

\* When a poll marks what it hands out, and no two configurations poll the same
\* task, a task is run by one process at a time, its action throws once more than
\* its retries allow and no more, and it is given up then and not before.
THEOREM RetriesHold ==
    ASSUME Claims, OwnTasks
    PROVE  Spec => []RunsAreCounted
<1>1. Init => \A t \in Tasks : TaskInv(t)
  <2> SUFFICES ASSUME Init, NEW t \in Tasks
               PROVE  TaskInv(t)
    OBVIOUS
  <2>1. InHand(t) = {} /\ failures[t] = 0 /\ store[t].fails = 0 /\ store[t].state = "READY"
    BY DEF Init, InHand, RunIds
  <2> QED
    BY <2>1, RunnerAssumption DEF TaskInv, MayFail
<1>2. CountInv /\ [Next]_vars => (\A t \in Tasks : TaskInv(t))'
  BY CountKept
<1>3. CountInv => RunsAreCounted
  BY CountInvIsEnough
<1> QED
  BY <1>1, <1>2, <1>3, IteratingHolds, PTL DEF Spec, CountInv

=============================================================================
