----------------------------- MODULE RateLimited -----------------------------
(***************************************************************************)
(* RateLimitedQueue of @bunt/queue: enqueue() takes one of the slots of    *)
(* the window or waits for a refresh, and goes on as that of its base      *)
(* class, ConcurrencyQueue, which waits for all that runs when it is full. *)
(***************************************************************************)
EXTENDS Integers, FiniteSets, SequencesExt

CONSTANTS
    Callers,        \* each enqueues again when its last function has ended
    Concurrency,    \* #concurrency
    Limit           \* #limit

RateAssumption ==
    IsFiniteSet(Callers) /\ Concurrency \in Nat \ {0} /\ Limit \in Nat \ {0}

VARIABLES
    slots,      \* how many #slots there are
    pending,    \* #pending: who waits in #throttle(), in order
    caller,     \* how far the enqueue() of each is
    jobs,       \* #queue: whose function is running
    batch,      \* what flush() was given, of each that awaits it
    timer,      \* whether the interval runs
    alive,      \* the process
    started     \* history: functions let through since the last refresh

vars == <<slots, pending, caller, jobs, batch, timer, alive, started>>

TypeOK ==
    /\ slots \in 0..Limit
    /\ pending \in Seq(Callers)
    /\ caller \in [Callers -> {"idle", "throttled", "ready", "full"}]
    /\ jobs \subseteq Callers
    /\ batch \in [Callers -> SUBSET Callers]
    /\ timer \in BOOLEAN
    /\ alive \in BOOLEAN
    /\ started \in Nat

\* #throttle()
Throttle(c) ==
    /\ alive
    /\ caller[c] = "idle"
    /\ c \notin jobs
    /\ \/ /\ slots > 0
          /\ slots' = slots - 1
          /\ caller' = [caller EXCEPT ![c] = "ready"]
          /\ started' = started + 1
          /\ UNCHANGED pending
       \/ /\ slots = 0
          /\ pending' = Append(pending, c)
          /\ caller' = [caller EXCEPT ![c] = "throttled"]
          /\ UNCHANGED <<slots, started>>
    /\ UNCHANGED <<jobs, batch, timer, alive>>

\* super.enqueue(): the function starts, and the limit is looked at after.
Start(c) ==
    /\ alive
    /\ caller[c] = "ready"
    /\ jobs' = jobs \cup {c}
    /\ IF Cardinality(jobs') >= Concurrency
       THEN caller' = [caller EXCEPT ![c] = "full"] /\ batch' = [batch EXCEPT ![c] = jobs']
       ELSE caller' = [caller EXCEPT ![c] = "idle"] /\ UNCHANGED batch
    /\ UNCHANGED <<slots, pending, timer, alive, started>>

JobEnds(c) ==
    /\ alive
    /\ c \in jobs
    /\ jobs' = jobs \ {c}
    /\ batch' = [d \in Callers |-> batch[d] \ {c}]
    /\ UNCHANGED <<slots, pending, caller, timer, alive, started>>

Flushed(c) ==
    /\ alive
    /\ caller[c] = "full"
    /\ batch[c] = {}
    /\ caller' = [caller EXCEPT ![c] = "idle"]
    /\ UNCHANGED <<slots, pending, jobs, batch, timer, alive, started>>

Released == [c \in Callers |-> IF c \in Range(pending) THEN "ready" ELSE caller[c]]

\* Mutant: the slots are filled up without a look at who has waited.
RefreshFull ==
    /\ alive
    /\ timer
    /\ Len(pending) <= Limit
    /\ caller' = Released
    /\ pending' = <<>>
    /\ slots' = Limit
    /\ started' = Len(pending)
    /\ UNCHANGED <<jobs, batch, timer, alive>>

\* #refresh(): all who wait are let through, and take of the new window's slots.
Refresh ==
    /\ alive
    /\ timer
    /\ Len(pending) <= Limit
    /\ caller' = Released
    /\ pending' = <<>>
    /\ slots' = slots + (Limit - (slots + Len(pending)))
    /\ started' = Len(pending)
    /\ UNCHANGED <<jobs, batch, timer, alive>>

\* new Array() of a negative length throws in the timer's callback.
RefreshThrows ==
    /\ alive
    /\ timer
    /\ Len(pending) > Limit
    /\ alive' = FALSE
    /\ UNCHANGED <<slots, pending, caller, jobs, batch, timer, started>>

Dispose ==
    /\ alive
    /\ caller' = Released
    /\ pending' = <<>>
    /\ slots' = 0
    /\ timer' = FALSE
    /\ UNCHANGED <<jobs, batch, alive, started>>

Init ==
    /\ slots = Limit
    /\ pending = <<>>
    /\ caller = [c \in Callers |-> "idle"]
    /\ jobs = {}
    /\ batch = [c \in Callers |-> {}]
    /\ timer = TRUE
    /\ alive = TRUE
    /\ started = 0

Next ==
    \/ Refresh \/ RefreshThrows \/ Dispose
    \/ \E c \in Callers : Throttle(c) \/ Start(c) \/ JobEnds(c) \/ Flushed(c)

\* The interval fires, settled promises run what waits for them, and functions end.
Fairness ==
    /\ WF_vars(Refresh \/ RefreshThrows)
    /\ \A c \in Callers : WF_vars(Start(c)) /\ WF_vars(JobEnds(c)) /\ WF_vars(Flushed(c))

Spec == Init /\ [][Next]_vars /\ Fairness

------------------------------------------------------------------------------
\* From one refresh to the next no more functions are let through than the limit,
\* as long as the process lives and the queue has not been disposed of; and what
\* has been let through and what still may be make the limit.
RateIsKept == alive /\ timer => started + slots = Limit

\* Who waits for a slot is let through at a refresh, or at the disposal, unless
\* the process ends first: disposal forgets nobody who came before it.
ThrottledGoOn ==
    \A c \in Callers :
        caller[c] = "throttled" /\ timer ~> caller[c] # "throttled" \/ ~alive

==============================================================================
