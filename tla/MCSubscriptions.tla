---------------------------- MODULE MCSubscriptions ----------------------------
(* Subscriptions to two channels: three iterators share one, a fourth has another.  *)
(* A behaviour begins in one of four states.  In two of them messages are published *)
(* to the one channel, three or one listening already; in the others all messages   *)
(* were published before, and subscribing to two channels, or twice to one, is all  *)
(* there is.  Iterators that have no part in it have come and gone.                 *)
EXTENDS Subscriptions

CONSTANTS c1, c2, i1, i2, i3, i4

MCChannelOf == [i \in {i1, i2, i3, i4} |-> IF i = i4 THEN c2 ELSE c1]

\* One parser may throw on a message alone.
MCThrowing == {{}, {i2}}

\* The iterators of gone have come and gone; those of here listen to their channel since the
\* first of them was told that it is subscribed to.
Start(gone, here) ==
    /\ iter = [i \in Iterators |-> IF i \in gone THEN "destroyed"
                                   ELSE IF i \in ToSet(here) THEN "active" ELSE "none"]
    /\ pending = [i \in Iterators |-> IF i \in gone \/ (here # <<>> /\ i = here[1])
                                      THEN "resolved" ELSE "none"]
    /\ made = SetToSeq(gone) \o here
    /\ record = [c \in Channels |-> IF c = c1 /\ here # <<>> THEN here[1] ELSE None]
    /\ listeners = [c \in Channels |-> IF c = c1 THEN ToSet(here) ELSE {}]
    /\ server = {c \in Channels : record[c] # None}
    /\ acked = server
    /\ since = [i \in Iterators |-> IF i \in ToSet(here) THEN 0 ELSE None]
    /\ published = [c \in Channels |-> IF c = c1 /\ here # <<>> THEN 0 ELSE MaxPublished]

MCInit ==
    /\ alive = TRUE
    /\ \/ Start({i4}, <<i1, i2, i3>>)
       \/ Start({i3, i4}, <<i1>>)
       \/ Start({i2, i3}, <<>>)
       \/ Start({i3, i4}, <<>>)
    /\ emits = <<>> /\ reading = FALSE
    /\ watched = {}
    /\ conn = "online" /\ disposing = "no"
    /\ unreplied = <<>> /\ executed = 0 /\ wire = <<>>
    /\ received = [i \in Iterators |-> <<>>]
    /\ malformed = {} /\ stirred = {}
    /\ breaks = 0

MCSpec == MCInit /\ [][Next]_vars /\ Fairness

================================================================================
