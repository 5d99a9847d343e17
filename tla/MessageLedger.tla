---------------------------- MODULE MessageLedger ----------------------------
(***************************************************************************)
(* What a transaction queue promises: where a message may be, and what     *)
(* lets it go.  A message is sent, taken out of the channel once, and from *)
(* then on kept in the backup until either the work on it has succeeded,   *)
(* and it may be forgotten, or it is diverted to the fallback for good.    *)
(* A crash forgets nothing.  RedisQ2 is shown to implement this.           *)
(***************************************************************************)
CONSTANT Messages

VARIABLES
    place,      \* where each message is
    succeeded   \* the messages on which the work went through

vars == <<place, succeeded>>

Places == {"unsent", "channel", "backup", "fallback", "gone"}

Init ==
    /\ place = [m \in Messages |-> "unsent"]
    /\ succeeded = {}

Moves(m, from, to) ==
    /\ place[m] = from
    /\ place' = [place EXCEPT ![m] = to]

Send(m) == Moves(m, "unsent", "channel") /\ UNCHANGED succeeded

Take(m) == Moves(m, "channel", "backup") /\ UNCHANGED succeeded

\* The work ends well while the message is still on record.
Succeed(m) ==
    /\ place[m] = "backup"
    /\ succeeded' = succeeded \cup {m}
    /\ UNCHANGED place

Forget(m) ==
    /\ m \in succeeded
    /\ Moves(m, "backup", "gone")
    /\ UNCHANGED succeeded

Divert(m) == Moves(m, "backup", "fallback") /\ UNCHANGED succeeded

Next == \E m \in Messages : Send(m) \/ Take(m) \/ Succeed(m) \/ Forget(m) \/ Divert(m)

Spec == Init /\ [][Next]_vars

==============================================================================
