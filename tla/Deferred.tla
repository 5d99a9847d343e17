------------------------------- MODULE Deferred --------------------------------
(***************************************************************************)
(* Defer of @bunt/async: a promise, and a state shown of it, which an event *)
(* emitter settles separately.  Every listener is registered once().       *)
(***************************************************************************)
EXTENDS Naturals

Outcomes == {"pending", "fulfilled", "rejected"}
Defers == [state : Outcomes, promise : Outcomes, heard : SUBSET Outcomes]

NewDefer == [state |-> "pending", promise |-> "pending", heard |-> {}]

\* emit("resolve") or emit("reject"): the promise keeps its first outcome, the
\* state takes that of each event when it is heard for the first time.
Emitted(d, outcome) ==
    IF outcome \in d.heard THEN d
    ELSE [state |-> outcome,
          promise |-> IF d.promise = "pending" THEN outcome ELSE d.promise,
          heard |-> d.heard \cup {outcome}]

Resolved(d) == Emitted(d, "fulfilled")
Rejected(d) == Emitted(d, "rejected")

IsSettled(d) == d.state # "pending"
==============================================================================
