-------------------------------- MODULE Contexts -------------------------------
(***************************************************************************)
(* Contexts and their services (@bunt/unit): Unit.factory() applies a      *)
(* context, which resolves the services it refers to, one after the other. *)
(* Several units may be made of one context, or of contexts that share     *)
(* services, at the same time.                                             *)
(***************************************************************************)
EXTENDS Naturals, Sequences, FiniteSets, Functions, SequencesExt

CONSTANTS
    Units,          \* calls of Unit.factory()
    ContextOf,      \* the context each is called with
    Lineage,        \* the classes of a context, its own first, down to Context
    Declared,       \* the properties each class marks as references, each once
    Held,           \* what a context has under the properties that are set
    Services,       \* what contexts hold
    Plain,          \* those of them that are values already
    Disposable,     \* the services whose values can be disposed of
    NoUnit

VARIABLES
    step,           \* how far apply() of a unit is: the references it has resolved
    state,          \* "none", "waiting" for a service, "done", "failed"
    promise,        \* services: the promise of a service
    runs,           \* how often the resolver of a service was run
    values,         \* the values a unit has collected: which run each is of
    cache,          \* cache: whose result a context is cached with
    disposables     \* Context.disposables: services, by the run of their value

vars == <<step, state, promise, runs, values, cache, disposables>>

Contexts == Range(ContextOf)

\* The properties that the classes of a context refer to; a derived class may mark
\* one again.
Properties(class) == Declared[class]
References(c) == FlattenSeq([i \in DOMAIN Lineage[c] |-> Properties(Lineage[c][i])])

\* What a unit's context refers to: properties that are not set are passed over.
Refs(u) ==
    LET held == Held[ContextOf[u]]
        set == SelectSeq(References(ContextOf[u]), LAMBDA p : p \in DOMAIN held)
    IN  [i \in DOMAIN set |-> held[set[i]]]

\* The last says of SelectSeq() that what it leaves is set.
ContextsAssumption ==
    /\ NoUnit \notin Units
    /\ DOMAIN ContextOf = Units
    /\ Plain \subseteq Services
    /\ \A u \in Units : Range(Held[ContextOf[u]]) \subseteq Services
    /\ \A u \in Units : Refs(u) \in Seq(Services)

IsService(s) == s \notin Plain

TypeOK ==
    /\ step \in [Units -> Nat]
    /\ state \in [Units -> {"none", "waiting", "done", "failed"}]
    /\ promise \in [Services -> {"none", "pending", "resolved", "rejected"}]
    /\ runs \in [Services -> Nat]
    /\ cache \in [Contexts -> Units \cup {NoUnit}]
    /\ disposables \subseteq Services \X Nat

\* Mutant: the promise is not kept.
ResolveEach(s) ==
    /\ promise' = [promise EXCEPT ![s] = "pending"]
    /\ runs' = [runs EXCEPT ![s] = @ + 1]

\* Context.resolve(): the promise of a service is made once and kept, whatever
\* becomes of it; a value is itself.
Resolve(s) ==
    IF ~IsService(s) \/ promise[s] # "none" THEN UNCHANGED <<promise, runs>>
    ELSE /\ promise' = [promise EXCEPT ![s] = "pending"]
         /\ runs' = [runs EXCEPT ![s] = @ + 1]

\* Its resolve() throws before there is a promise: nothing is kept, and whoever asks next
\* runs it again.
Throws(s) ==
    /\ IsService(s) /\ promise[s] = "none"
    /\ runs' = [runs EXCEPT ![s] = @ + 1]
    /\ UNCHANGED promise

\* What getResolvedContext() does next: the next reference, or the context is whole
\* and is cached unless another one has been.
Proceed(u, n) ==
    IF n < Len(Refs(u))
    THEN /\ \/ Resolve(Refs(u)[n + 1]) /\ state' = [state EXCEPT ![u] = "waiting"]
            \/ Throws(Refs(u)[n + 1]) /\ state' = [state EXCEPT ![u] = "failed"]
         /\ UNCHANGED cache
    ELSE /\ state' = [state EXCEPT ![u] = "done"]
         /\ cache' = [cache EXCEPT ![ContextOf[u]] = IF @ = NoUnit THEN u ELSE @]
         /\ UNCHANGED <<promise, runs>>

\* apply(): the cached context, or one that is resolved now.
Apply(u) ==
    /\ state[u] = "none"
    /\ IF cache[ContextOf[u]] # NoUnit
       THEN /\ state' = [state EXCEPT ![u] = "done"]
            /\ values' = [values EXCEPT ![u] = values[cache[ContextOf[u]]]]
            /\ UNCHANGED <<promise, runs, cache>>
       ELSE /\ Proceed(u, 0)
            /\ UNCHANGED values
    /\ UNCHANGED <<step, disposables>>

\* A service has resolved: its value is collected, and noted if it is disposable.
Collect(u) ==
    /\ state[u] = "waiting"
    /\ LET s == Refs(u)[step[u] + 1]
       IN  /\ promise[s] = "resolved"
           /\ values' = [values EXCEPT ![u] = Append(@, <<s, runs[s]>>)]
           /\ disposables' = IF s \in Disposable THEN disposables \cup {<<s, runs[s]>>}
                             ELSE disposables
    /\ step' = [step EXCEPT ![u] = @ + 1]
    /\ Proceed(u, step[u] + 1)

\* It has been rejected: so are apply() and the factory.
Fail(u) ==
    /\ state[u] = "waiting"
    /\ promise[Refs(u)[step[u] + 1]] = "rejected"
    /\ state' = [state EXCEPT ![u] = "failed"]
    /\ UNCHANGED <<step, promise, runs, values, cache, disposables>>

\* resolve() of a service settles.
Settle(s) ==
    /\ promise[s] = "pending"
    /\ \E outcome \in {"resolved", "rejected"} : promise' = [promise EXCEPT ![s] = outcome]
    /\ UNCHANGED <<step, state, runs, values, cache, disposables>>

Init ==
    /\ step = [u \in Units |-> 0]
    /\ state = [u \in Units |-> "none"]
    /\ promise = [s \in Services |-> IF IsService(s) THEN "none" ELSE "resolved"]
    /\ runs = [s \in Services |-> 0]
    /\ values = [u \in Units |-> <<>>]
    /\ cache = [c \in Contexts |-> NoUnit]
    /\ disposables = {}

Next ==
    \/ \E u \in Units : Apply(u) \/ Collect(u) \/ Fail(u)
    \/ \E s \in Services : Settle(s)

Spec == Init /\ [][Next]_vars

------------------------------------------------------------------------------
\* Whoever resolves a context has every service it refers to, and contexts that share a
\* service share its value, however their resolutions interleave and whichever of them
\* has failed on the way.
ServicesAreShared ==
    \A u \in Units : state[u] = "done" =>
        /\ [i \in DOMAIN values[u] |-> values[u][i][1]] = Refs(u)
        /\ \A v \in Units : \A i \in DOMAIN values[u] : \A j \in DOMAIN values[v] :
            values[u][i][1] = values[v][j][1] => values[u][i] = values[v][j]

\* Every value that can be disposed of and that a context has collected is noted, in
\* contexts that were never finished too.
DisposablesAreNoted ==
    \A u \in Units : \A i \in DOMAIN values[u] :
        values[u][i][1] \in Disposable => values[u][i] \in disposables

================================================================================
