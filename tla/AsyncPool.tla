------------------------------ MODULE AsyncPool ------------------------------
(***************************************************************************)
(* AsyncPool of @bunt/async, and the iterator AsyncIteratorFactory makes   *)
(* of one: a factory pushes, and consumers call next().                    *)
(*                                                                         *)
(* The factory gets a control it may keep: it may push after its promise   *)
(* has settled.  Values are numbered in the order they are accepted.       *)
(***************************************************************************)
EXTENDS Deferred, FiniteSets, SequencesExt

CONSTANTS
    Consumers,  \* callers of next(), each of which awaits one call at a time
    MaxBuffer,  \* maxBufferSize
    MaxPushed,  \* bound: values the factory offers
    End,        \* undefined, which #format takes for the end
    None        \* null

PoolAssumption ==
    MaxBuffer \in Nat /\ MaxPushed \in Nat /\ End \notin Nat /\ None \notin Defers

VARIABLES
    offered,    \* how many values the factory has offered
    pushed,     \* history: what push() has accepted
    buffer,     \* #buffer
    pending,    \* #pending, or None
    reader,     \* of each consumer: how far it is, and what it was given
    factory,    \* running, returned or thrown until its then() runs, over
    disposer,   \* what on() was given: unset, set or called
    alive       \* the process

vars == <<offered, pushed, buffer, pending, reader, factory, disposer, alive>>

Values == 1..MaxPushed \cup {End}

Waiting == {c \in Consumers : reader[c].pc = "waiting"}

TypeOK ==
    /\ offered \in 0..MaxPushed
    /\ pushed \in Seq(Values)
    /\ buffer \in Seq(Values)
    /\ pending \in Defers \cup {None}
    /\ reader \in [Consumers -> [pc : {"idle", "waiting", "done", "failed", "left"},
                                 got : Seq(Values)]]
    /\ factory \in {"running", "returned", "thrown", "over"}
    /\ disposer \in {"unset", "set", "called"}
    /\ alive \in BOOLEAN

Settled == pending # None /\ IsSettled(pending)

\* #format: undefined is the end.
Given(r, v) == [pc |-> IF v = End THEN "done" ELSE "idle", got |-> Append(r.got, v)]

\* Mutant: a value is buffered even when somebody waits.
PushedBehind(v) ==
    /\ ~Settled
    /\ Len(buffer) < MaxBuffer
    /\ pushed' = Append(pushed, v)
    /\ buffer' = Append(buffer, v)
    /\ UNCHANGED <<pending, reader>>

\* push(): all who wait share one Defer, so all of them are given the value.
Pushed(v) ==
    /\ ~Settled
    /\ pushed' = Append(pushed, v)
    /\ \/ /\ pending # None
          /\ reader' = [c \in Consumers |->
                            IF c \in Waiting THEN Given(reader[c], v) ELSE reader[c]]
          /\ pending' = None
          /\ UNCHANGED buffer
       \/ /\ pending = None
          /\ Len(buffer) < MaxBuffer
          /\ buffer' = Append(buffer, v)
          /\ UNCHANGED <<pending, reader>>

\* The assertions of push() throw.
PushThrows ==
    \/ Settled
    \/ pending = None /\ Len(buffer) >= MaxBuffer

Push ==
    /\ alive
    /\ offered < MaxPushed
    /\ offered' = offered + 1
    /\ Pushed(offered + 1)
    /\ UNCHANGED <<factory, disposer, alive>>

\* A factory that does not catch what push() throws ends by it.
PushRefused ==
    /\ alive
    /\ offered < MaxPushed
    /\ PushThrows
    /\ offered' = offered + 1
    /\ factory' \in IF factory = "running" THEN {"running", "thrown"} ELSE {factory}
    /\ UNCHANGED <<pushed, buffer, pending, reader, disposer, alive>>

On ==
    /\ alive
    /\ disposer = "unset"
    /\ disposer' = "set"
    /\ UNCHANGED <<offered, pushed, buffer, pending, reader, factory, alive>>

FactorySettles ==
    /\ alive
    /\ factory = "running"
    /\ factory' \in {"returned", "thrown"}
    /\ UNCHANGED <<offered, pushed, buffer, pending, reader, disposer, alive>>

\* then(() => push(undefined)), and catch() for what that throws.
Ends ==
    /\ alive
    /\ factory = "returned"
    /\ IF PushThrows
       THEN factory' = "thrown" /\ UNCHANGED <<pushed, buffer, pending, reader>>
       ELSE factory' = "over" /\ Pushed(End)
    /\ UNCHANGED <<offered, disposer, alive>>

\* reject(): the rejected Defer stays, for every pull() to come.
Fails ==
    /\ alive
    /\ factory = "thrown"
    /\ factory' = "over"
    /\ pending' = Rejected(IF pending = None THEN NewDefer ELSE pending)
    /\ reader' = [c \in Consumers |->
                    IF c \in Waiting THEN [reader[c] EXCEPT !.pc = "failed"] ELSE reader[c]]
    /\ UNCHANGED <<offered, pushed, buffer, disposer, alive>>

\* Nobody waited for the rejected Defer before the turn of the loop was over.
Unhandled ==
    /\ alive
    /\ Settled
    /\ \A c \in Consumers : reader[c].pc # "failed"
    /\ alive' = FALSE
    /\ UNCHANGED <<offered, pushed, buffer, pending, reader, factory, disposer>>

PullBuffered(c) ==
    /\ alive
    /\ reader[c].pc = "idle"
    /\ buffer # <<>>
    /\ reader' = [reader EXCEPT ![c] = Given(@, Head(buffer))]
    /\ buffer' = Tail(buffer)
    /\ UNCHANGED <<offered, pushed, pending, factory, disposer, alive>>

PullRejected(c) ==
    /\ alive
    /\ reader[c].pc = "idle"
    /\ buffer = <<>>
    /\ Settled
    /\ reader' = [reader EXCEPT ![c].pc = "failed"]
    /\ UNCHANGED <<offered, pushed, buffer, pending, factory, disposer, alive>>

PullWaits(c) ==
    /\ alive
    /\ reader[c].pc = "idle"
    /\ buffer = <<>>
    /\ ~Settled
    /\ pending' = IF pending = None THEN NewDefer ELSE pending
    /\ reader' = [reader EXCEPT ![c].pc = "waiting"]
    /\ UNCHANGED <<offered, pushed, buffer, factory, disposer, alive>>

\* return() or throw(): a consumer leaves, and the disposer runs if there is one.
Return(c) ==
    /\ alive
    /\ reader[c].pc = "idle"
    /\ reader' = [reader EXCEPT ![c].pc = "left"]
    /\ disposer' = IF disposer = "unset" THEN "unset" ELSE "called"
    /\ UNCHANGED <<offered, pushed, buffer, pending, factory, alive>>

Init ==
    /\ offered = 0
    /\ pushed = <<>>
    /\ buffer = <<>>
    /\ pending = None
    /\ reader = [c \in Consumers |-> [pc |-> "idle", got |-> <<>>]]
    /\ factory = "running"
    /\ disposer = "unset"
    /\ alive = TRUE

Pull(c) == PullBuffered(c) \/ PullRejected(c) \/ PullWaits(c)

Next ==
    \/ Push \/ PushRefused \/ On \/ FactorySettles \/ Ends \/ Fails \/ Unhandled
    \/ \E c \in Consumers : Pull(c) \/ Return(c)

\* A settled promise runs what waits for it; consumers go on until they are told
\* the end.  The factory need not settle.
Fairness == WF_vars(Ends) /\ WF_vars(Fails) /\ \A c \in Consumers : WF_vars(Pull(c))

Spec == Init /\ [][Next]_vars /\ Fairness

------------------------------------------------------------------------------
\* What push() accepted is what consumers were given, in that order, and
\* behind it, untouched, the buffer; nobody waits, and nobody is told of a failure, beside a value.
Delivery ==
    LET taken == Len(pushed) - Len(buffer)
    IN  /\ taken >= 0
        /\ buffer = SubSeq(pushed, taken + 1, Len(pushed))
        /\ \A i \in 1..taken : \E c \in Consumers : pushed[i] \in Range(reader[c].got)
        /\ \A c \in Consumers :
            /\ \E at \in [DOMAIN reader[c].got -> 1..taken] :
                /\ \A i, j \in DOMAIN at : i < j => at[i] < at[j]
                /\ \A i \in DOMAIN at : reader[c].got[i] = pushed[at[i]]
            /\ reader[c].pc \in {"waiting", "failed"} => buffer = <<>>

\* Whoever waits when the factory settles learns of it, by the end or by the
\* failure, unless the process ends first.
WaitersAreTold ==
    \A c \in Consumers :
        reader[c].pc = "waiting" /\ factory \in {"returned", "thrown"}
            ~> reader[c].pc # "waiting" \/ ~alive

==============================================================================
