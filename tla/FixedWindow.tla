------------------------------ MODULE FixedWindow ------------------------------
(***************************************************************************)
(* FixedWindowLimiter of @bunt/task, and the processes of a Runner that    *)
(* share one: each starts a task, counts it, and is held up while the      *)
(* frames of the window hold as many as the limit.                         *)
(*                                                                         *)
(* Time is kept as ages, so that it need not end: a frame and a start are  *)
(* as old as the time that has passed since, and none is told apart that   *)
(* is older than any test of the code.  Timers may fire late.              *)
(***************************************************************************)
EXTENDS Naturals, FiniteSets, SequencesExt

CONSTANTS
    Callers,    \* the processes that enqueue
    Window,     \* #windowMs, in ticks
    Limit,      \* #limit
    Lower       \* lower

WindowAssumption ==
    /\ Window \in Nat \ {0}
    /\ Limit \in Nat \ {0}
    /\ Lower \in Nat \ {0}
    /\ IsFiniteSet(Callers)

VARIABLES
    frames,     \* #frames, with the age of each
    timer,      \* what is left of the timeout each caller waits for, or Free
    starts      \* history: how many tasks have started, by age, within the window

vars == <<frames, timer, starts>>

\* #frame: windowMs / limit rounded up, and no less than lower.
Frame ==
    IF Window < Lower * Limit THEN Lower ELSE (Window + Limit - 1) \div Limit

Oldest == IF Window < Frame THEN Frame + 1 ELSE Window + 1
Free == Frame + 1

\* What the numbers f[i] make together, for all i of a set: so many there are to count.
Total(f, set) == Cardinality(UNION {{i} \X (1..f[i]) : i \in set})

Counts(fs) == [i \in DOMAIN fs |-> fs[i].count]
Counted(fs) == Total(Counts(fs), DOMAIN fs)

\* #recap(): where the first frame is older than the window, as many as are that old
\* are spliced off; a new one is begun when the last is older than a frame.
Kept(fs) ==
    LET old == {i \in DOMAIN fs : fs[i].age > Window}
    IN  IF 1 \in old THEN SubSeq(fs, Cardinality(old) + 1, Len(fs)) ELSE fs

Recap(fs) ==
    IF Kept(fs) = <<>> \/ Last(Kept(fs)).age > Frame
    THEN Append(Kept(fs), [age |-> 0, count |-> 0]) ELSE Kept(fs)

\* limit(): the caller goes on, or looks again when a frame has passed.
Limits(c, fs) ==
    /\ frames' = Recap(fs)
    /\ timer' = [timer EXCEPT ![c] = IF Counted(Recap(fs)) < Limit THEN Free ELSE Frame]

\* #increase(): the last frame counts the task, however old it is.
Increased == [frames EXCEPT ![Len(frames)].count = @ + 1]

\* enqueue() of a task that has just started.
Enqueue(c) ==
    /\ timer[c] = Free
    /\ starts' = [starts EXCEPT ![0] = @ + 1]
    /\ Limits(c, Increased)

LooksAgain(c) ==
    /\ timer[c] = 0
    /\ Limits(c, frames)
    /\ UNCHANGED starts

Older(age) == IF age < Oldest THEN age + 1 ELSE age

Tick ==
    /\ frames' = [i \in DOMAIN frames |-> [frames[i] EXCEPT !.age = Older(@)]]
    /\ timer' = [c \in Callers |-> IF timer[c] \in 1..Frame THEN timer[c] - 1 ELSE timer[c]]
    /\ starts' = [age \in DOMAIN starts |-> IF age = 0 THEN 0 ELSE starts[age - 1]]

Init ==
    /\ frames = <<[age |-> 0, count |-> 0]>>
    /\ timer = [c \in Callers |-> Free]
    /\ starts = [age \in 0..(Window - 1) |-> 0]

Next == Tick \/ \E c \in Callers : Enqueue(c) \/ LooksAgain(c)

Spec == Init /\ [][Next]_vars

\* Time goes on and timers fire.  Nobody has to enqueue.
Fairness == WF_vars(Tick) /\ \A c \in Callers : WF_vars(LooksAgain(c))

FairSpec == Spec /\ Fairness

------------------------------------------------------------------------------
(***************************************************************************)
(* Properties                                                              *)
(***************************************************************************)

\* What each variable of the limiter may hold; there is always a last frame.
TypeOK ==
    /\ frames \in Seq([age : 0..Oldest, count : Nat]) /\ frames # <<>>
    /\ timer \in [Callers -> 0..Free]
    /\ starts \in [0..(Window - 1) -> Nat]

StartsWithin(w) == Total(starts, {age \in DOMAIN starts : age < w})

\* How many tasks start within the window.  A task is counted with its frame,
\* which may be older, and is forgotten with it: what is limited is a window
\* shorter by one frame, there each caller may overshoot by the task it starts
\* before it is held up, and one start after a pause is lost with the frame it
\* was counted in.  In the whole window twice as many may start, all callers
\* overshooting twice: they find the limit reached, a frame is dropped, and they
\* find room all together.
StartsAreLimited ==
    /\ StartsWithin(Window) <= 2 * (Limit + Cardinality(Callers) - 1)
    /\ Window > Frame => StartsWithin(Window - Frame) <= Limit + Cardinality(Callers)

\* When all callers are held up, one of them goes on.
SomeoneGoesOn ==
    (\A c \in Callers : timer[c] # Free) ~> (\E c \in Callers : timer[c] = Free)

==============================================================================
