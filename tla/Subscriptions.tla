---------------------------- MODULE Subscriptions ----------------------------
(***************************************************************************)
(* Publish and subscribe of @bunt/queue: SubscriptionManager over the      *)
(* connection RedisSubscriptionManager keeps in subscriber mode, and the   *)
(* iterators of Subscription that listen through it.                       *)
(*                                                                         *)
(* The manager has a record for every channel somebody listens to: the     *)
(* list of its listeners and a deferred that ensure() hands out.  The      *)
(* first listener makes it issue SUBSCRIBE, the last one to leave makes it *)
(* issue UNSUBSCRIBE; neither is awaited.  What the manager believes, what *)
(* the client has been told and what the server does are three states that *)
(* commands and replies in flight keep apart.                              *)
(*                                                                         *)
(* A message is handed to the listeners of a record by a loop of its own,  *)
(* which awaits after each of them: callers, and the loops of other        *)
(* messages, go on in between, in the order of the microtask queue.        *)
(*                                                                         *)
(* A record is known by the iterator that created it.  A command names its *)
(* record.  A promise that rejects with nobody waiting for it ends the     *)
(* Node.js process.                                                        *)
(***************************************************************************)
EXTENDS Naturals, FiniteSets, SequencesExt

CONSTANTS
    Channels,
    Iterators,      \* the async iterators that are ever made
    ChannelOf,      \* the channel of each
    None,           \* no record
    Throwing,       \* the sets of iterators whose parsers may throw on a message
    MaxPublished,   \* bound: messages published to a channel
    MaxBreaks       \* bound: how often the connection breaks

ASSUME SubscriptionsAssumption ==
    /\ ChannelOf \in [Iterators -> Channels]
    /\ None \notin Iterators
    /\ Throwing \subseteq SUBSET Iterators
    /\ MaxPublished \in Nat
    /\ MaxBreaks \in Nat

VARIABLES
    alive,          \* the process runs
    iter,           \* the iterators: not made yet, listening, destroyed
    record,         \* #subscriptions: the record of each channel
    listeners,      \* the SubscriptionList of each channel's record
    made,           \* the iterators in the order in which they were made
    emits,          \* the loops of emit() under way, in the order they go on
    reading,        \* the client is still with what one read of its socket brought
    pending,        \* the deferred of each record
    watched,        \* the records whose deferred somebody waits for
    conn,           \* the connection
    disposing,      \* how far dispose() is
    unreplied,      \* commands without a reply, in the order they were issued
    executed,       \* how many of them the server has executed
    wire,           \* replies and messages the client has not read
    server,         \* the channels the server has subscribed the connection to
    acked,          \* the channels the client knows it is subscribed to
    published,      \* history: how many messages each channel had
    received,       \* history: what each iterator was given
    since,          \* history: from which message on an iterator may count on them
    malformed,      \* history: the messages on which the parser of an iterator throws
    stirred,        \* history: the channels listeners left in the middle of a message
    breaks

managerVars == <<iter, record, listeners>>
deferVars == <<pending, watched>>
wireVars == <<unreplied, executed, wire, server, acked>>
emitVars == <<made, emits, reading>>
historyVars == <<published, received, since, malformed, stirred>>
vars == <<alive, managerVars, emitVars, deferVars, conn, disposing, wireVars, historyVars, breaks>>

Subscribe(r) == <<"subscribe", r>>
Unsubscribe(r) == <<"unsubscribe", r>>
Message(c, n) == <<"message", c, n>>

\* A reply is to the first command that has none.
Reply == <<"reply">>

Commands == {"subscribe", "unsubscribe"} \X Iterators
Messages == {"message"} \X Channels \X (1..MaxPublished)

Connected == conn \in {"online", "closing"}

\* An event of the connection finds that every loop has run out: promises go first.
Idle == emits = <<>>

------------------------------------------------------------------------------
(***************************************************************************)
(* Promises                                                                *)
(***************************************************************************)

\* Mutant: the deferred is told only when SUBSCRIBE succeeds.
RejectsSilently(cmds, heard) ==
    /\ watched' = heard
    /\ alive' = \A r \in Iterators : Unsubscribe(r) \notin cmds
    /\ UNCHANGED pending

\* The commands of cmds are rejected.  A SUBSCRIBE rejects the deferred of its
\* record; off() waits for no UNSUBSCRIBE.
Rejects(cmds, heard) ==
    LET failed == {r \in Iterators : /\ Subscribe(r) \in cmds
                                     /\ pending[r] \in {"none", "pending"}}
    IN  /\ pending' = [r \in Iterators |-> IF r \in failed THEN "rejected" ELSE pending[r]]
        /\ watched' = heard
        /\ alive' = /\ failed \subseteq heard
                    /\ \A r \in Iterators : Unsubscribe(r) \notin cmds

\* A command is issued, and rejected at once on a closed connection.
Issues(cmd, heard) ==
    IF conn = "closed"
    THEN Rejects({cmd}, heard) /\ UNCHANGED unreplied
    ELSE /\ unreplied' = Append(unreplied, cmd)
         /\ pending' = [pending EXCEPT ![cmd[2]] =
                            IF @ = "none" THEN "pending" ELSE @]
         /\ watched' = heard
         /\ UNCHANGED alive

------------------------------------------------------------------------------
(***************************************************************************)
(* SubscriptionManager and Subscription                                    *)
(***************************************************************************)

\* on(): the record of the channel, a new one if there is none.
RecordFor(i) == IF record[ChannelOf[i]] = None THEN i ELSE record[ChannelOf[i]]

\* An iterator of a Subscription is made, which calls on().  The caller may
\* call ensure() in the same turn.
Iterate(i, ensures) ==
    LET c == ChannelOf[i]
        heard == IF ensures THEN watched \cup {RecordFor(i)} ELSE watched
    IN  /\ alive
        /\ iter[i] = "none"
        /\ iter' = [iter EXCEPT ![i] = "active"]
        /\ record' = [record EXCEPT ![c] = RecordFor(i)]
        /\ listeners' = [listeners EXCEPT ![c] = @ \cup {i}]
        /\ made' = Append(made, i)
        /\ reading' = FALSE
        /\ IF listeners[c] = {} THEN Issues(Subscribe(RecordFor(i)), heard)
           ELSE watched' = heard /\ UNCHANGED <<alive, pending, unreplied>>
        /\ since' = IF conn = "online" /\ pending[RecordFor(i)] = "resolved"
                    THEN [since EXCEPT ![i] = published[c]] ELSE since
        /\ UNCHANGED <<emits, conn, disposing, executed, wire, server, acked, published, received,
                       malformed, stirred, breaks>>

Ensure(c) ==
    /\ alive
    /\ record[c] # None
    /\ watched' = watched \cup {record[c]}
    /\ reading' = FALSE
    /\ UNCHANGED <<alive, managerVars, made, emits, pending, conn, disposing, wireVars, historyVars,
                   breaks>>

\* The loops that hand a message to the listeners of channel c.
Loops(c) == {k \in DOMAIN emits : ChannelOf[emits[k].list] = c}

\* Somebody leaves channel c, perhaps in the middle of a message.
Stirs(c) == stirred' = IF Loops(c) = {} THEN stirred ELSE stirred \cup {c}

\* Mutant: off() keeps the record of a channel nobody listens to.
OffKeepsRecord(i) ==
    LET c == ChannelOf[i]
        left == listeners[c] \ {i}
    IN  /\ alive
        /\ iter[i] = "active"
        /\ iter' = [iter EXCEPT ![i] = "destroyed"]
        /\ listeners' = [listeners EXCEPT ![c] = left]
        /\ IF record[c] # None /\ left = {} THEN Issues(Unsubscribe(record[c]), watched)
           ELSE UNCHANGED <<alive, deferVars, unreplied>>
        /\ since' = [since EXCEPT ![i] = None]
        /\ reading' = FALSE
        /\ Stirs(c)
        /\ UNCHANGED <<record, made, emits, conn, disposing, executed, wire, server, acked, published,
                       received, malformed, breaks>>

\* destroy() of an iterator, as often as it is called, calls off().
Off(i) ==
    LET c == ChannelOf[i]
        left == listeners[c] \ {i}
    IN  /\ alive
        /\ iter[i] # "none"
        /\ iter' = [iter EXCEPT ![i] = "destroyed"]
        /\ listeners' = [listeners EXCEPT ![c] = left]
        /\ IF record[c] # None /\ left = {}
           THEN /\ record' = [record EXCEPT ![c] = None]
                /\ Issues(Unsubscribe(record[c]), watched)
           ELSE UNCHANGED <<alive, record, deferVars, unreplied>>
        /\ since' = [since EXCEPT ![i] = None]
        /\ reading' = FALSE
        /\ Stirs(c)
        /\ UNCHANGED <<made, emits, conn, disposing, executed, wire, server, acked, published,
                       received, malformed, breaks>>

\* The connection is told to end.  While the client waits to connect again
\* that only stops it from trying: nothing ends, nothing settles any more.
Dispose ==
    /\ alive
    /\ disposing = "no"
    /\ disposing' = "disconnecting"
    /\ \/ conn = "online" /\ conn' = "closing"
       \/ conn = "offline" /\ conn' \in {"ending", "stuck"}
    /\ reading' = FALSE
    /\ UNCHANGED <<alive, managerVars, made, emits, deferVars, wireVars, historyVars, breaks>>

\* The connection has ended: what has no reply is rejected, the UNSUBSCRIBE of
\* dispose() too.
ConnectionClosed ==
    /\ alive
    /\ Idle
    /\ conn \in {"closing", "ending"}
    /\ conn' = "closed"
    /\ disposing' = IF disposing = "waiting" THEN "disposed" ELSE disposing
    /\ server' = {}
    /\ wire' = <<>>
    /\ unreplied' = <<>>
    /\ executed' = 0
    /\ Rejects(ToSet(unreplied), watched)
    /\ UNCHANGED <<managerVars, emitVars, acked, historyVars, breaks>>

\* The manager's own dispose() waits for the end of the connection, but the
\* transport forgets about a connection when it first breaks.  The first
\* UNSUBSCRIBE of its loop is not sent any more, its rejection ends the loop:
\* one list is cleared, the records stay.
DisposeLists ==
    /\ alive
    /\ disposing = "disconnecting"
    /\ conn = "closed" \/ breaks > 0
    /\ \/ /\ \A c \in Channels : record[c] = None
          /\ disposing' = "disposed"
          /\ UNCHANGED <<listeners, stirred>>
       \/ \E c \in Channels :
            /\ record[c] # None
            /\ listeners' = [listeners EXCEPT ![c] = {}]
            /\ Stirs(c)
            /\ disposing' = IF conn = "closed" THEN "disposed" ELSE "waiting"
    /\ reading' = FALSE
    /\ UNCHANGED <<alive, iter, record, made, emits, deferVars, conn, wireVars, published, received,
                   since, malformed, breaks>>

------------------------------------------------------------------------------
(***************************************************************************)
(* The server and the connection                                           *)
(***************************************************************************)

\* The server executes a command.
Execute ==
    /\ alive
    /\ Connected
    /\ executed < Len(unreplied)
    /\ executed' = executed + 1
    /\ LET cmd == unreplied[executed + 1]
           c == ChannelOf[cmd[2]]
       IN  server' = IF cmd[1] = "subscribe" THEN server \cup {c} ELSE server \ {c}
    /\ wire' = Append(wire, Reply)
    /\ UNCHANGED <<alive, managerVars, emitVars, deferVars, conn, disposing, unreplied, acked,
                   historyVars, breaks>>

\* Somebody publishes a message, which the parsers of the iterators in bad throw on.
Publish(c, bad) ==
    /\ published[c] < MaxPublished
    /\ published' = [published EXCEPT ![c] = @ + 1]
    /\ wire' = IF c \in server THEN Append(wire, Message(c, published'[c])) ELSE wire
    /\ malformed' = malformed \cup {<<i, published'[c]>> : i \in {j \in bad : ChannelOf[j] = c}}
    /\ UNCHANGED <<alive, managerVars, emitVars, deferVars, conn, disposing, unreplied, executed,
                   server, acked, received, since, stirred, breaks>>

\* The reply to a SUBSCRIBE resolves the deferred of its record.
Subscribed(r) ==
    /\ acked' = acked \cup {ChannelOf[r]}
    /\ pending' = [pending EXCEPT ![r] = "resolved"]
    /\ since' = [i \in Iterators |->
                    IF record[ChannelOf[r]] = r /\ i \in listeners[ChannelOf[r]]
                    THEN published[ChannelOf[r]] ELSE since[i]]
    /\ UNCHANGED <<received, emits>>

Unsubscribed(r) ==
    /\ acked' = acked \ {ChannelOf[r]}
    /\ UNCHANGED <<pending, received, emits, since>>

\* The places, from the k-th on, where the loop over a record's listeners finds one that
\* can parse the message: those that left are gone, those that came are at the end.
Hearing(list, n, k) ==
    {p \in k + 1 .. Len(made) : /\ record[ChannelOf[list]] = list
                               /\ made[p] \in listeners[ChannelOf[list]]
                               /\ <<made[p], n>> \notin malformed}

\* Mutant: the loop awaits nothing and returns with its first listener.
GivesFirst(list, n, at, others) ==
    LET places == Hearing(list, n, at)
    IN  /\ emits' = others
        /\ \/ places = {} /\ UNCHANGED received
           \/ \E p \in places : /\ \A q \in places : p <= q
                               /\ received' = [received EXCEPT ![made[p]] = Append(@, n)]

\* The loop gives the message to its next listener and awaits: the other loops go first.
\* One whose parser throws is passed over at once.  After the last it ends.
Gives(list, n, at, others) ==
    LET places == Hearing(list, n, at)
    IN  \/ places = {} /\ emits' = others /\ UNCHANGED received
        \/ \E p \in places :
             /\ \A q \in places : p <= q
             /\ received' = [received EXCEPT ![made[p]] = Append(@, n)]
             /\ emits' = Append(others, [list |-> list, n |-> n, at |-> p])

\* emit() begins its loop, where the channel has a record.
Emit(c, n) ==
    /\ IF record[c] = None THEN UNCHANGED <<received, emits>> ELSE Gives(record[c], n, 0, emits)
    /\ UNCHANGED <<unreplied, executed, acked, pending, since>>

\* What the first loop has awaited is there.
HandOn ==
    /\ alive
    /\ emits # <<>>
    /\ LET e == Head(emits) IN Gives(e.list, e.n, e.at, Tail(emits))
    /\ reading' = FALSE
    /\ UNCHANGED <<alive, managerVars, made, deferVars, conn, disposing, wireVars, published, since,
                   malformed, stirred, breaks>>

\* The reply to the command that was sent first.
Replied ==
    /\ unreplied' = Tail(unreplied)
    /\ executed' = executed - 1
    /\ LET r == Head(unreplied)[2]
       IN  IF Head(unreplied)[1] = "subscribe" THEN Subscribed(r) ELSE Unsubscribed(r)

\* What has arrived is read: several replies and messages at once, and only then do the
\* loops that hand messages on, and callers, have their turn.
Read ==
    /\ alive
    /\ Connected
    /\ Idle \/ reading
    /\ wire # <<>>
    /\ \/ Head(wire) = Reply /\ Replied
       \/ \E c \in Channels, n \in 1..MaxPublished : Head(wire) = Message(c, n) /\ Emit(c, n)
    /\ wire' = Tail(wire)
    /\ reading' = (emits' # <<>>)
    /\ UNCHANGED <<alive, managerVars, made, watched, conn, disposing, server, published, malformed,
                   stirred, breaks>>

\* The connection breaks.  The client keeps what has no reply, to issue it
\* again.
Break ==
    /\ alive
    /\ Idle
    /\ conn = "online"
    /\ breaks < MaxBreaks
    /\ breaks' = breaks + 1
    /\ conn' = "offline"
    /\ server' = {}
    /\ wire' = <<>>
    /\ executed' = 0
    /\ since' = [i \in Iterators |-> None]
    /\ UNCHANGED <<alive, managerVars, emitVars, deferVars, disposing, unreplied, acked, published,
                   received, malformed, stirred>>

\* The client connects, subscribes to what it was subscribed to, and goes on.
Reconnect ==
    /\ alive
    /\ Idle
    /\ conn = "offline"
    /\ conn' = "online"
    /\ server' = acked
    /\ since' = [i \in Iterators |->
                    IF /\ i \in listeners[ChannelOf[i]]
                       /\ pending[record[ChannelOf[i]]] = "resolved"
                    THEN published[ChannelOf[i]] ELSE None]
    /\ UNCHANGED <<alive, managerVars, emitVars, deferVars, disposing, unreplied, executed, wire,
                   acked, published, received, malformed, stirred, breaks>>

\* After its last retry the client rejects what it could not send, and tries
\* on.
GiveUp ==
    /\ alive
    /\ Idle
    /\ conn = "offline"
    /\ unreplied # <<>>
    /\ unreplied' = <<>>
    /\ Rejects(ToSet(unreplied), watched)
    /\ UNCHANGED <<managerVars, emitVars, conn, disposing, executed, wire, server, acked, historyVars,
                   breaks>>

------------------------------------------------------------------------------
Init ==
    /\ alive = TRUE
    /\ iter = [i \in Iterators |-> "none"]
    /\ record = [c \in Channels |-> None]
    /\ listeners = [c \in Channels |-> {}]
    /\ made = <<>>
    /\ emits = <<>>
    /\ reading = FALSE
    /\ pending = [r \in Iterators |-> "none"]
    /\ watched = {}
    /\ conn = "online"
    /\ disposing = "no"
    /\ unreplied = <<>>
    /\ executed = 0
    /\ wire = <<>>
    /\ server = {}
    /\ acked = {}
    /\ published = [c \in Channels |-> 0]
    /\ received = [i \in Iterators |-> <<>>]
    /\ since = [i \in Iterators |-> None]
    /\ malformed = {}
    /\ stirred = {}
    /\ breaks = 0

Next ==
    \/ \E i \in Iterators : (\E ensures \in BOOLEAN : Iterate(i, ensures)) \/ Off(i)
    \/ \E c \in Channels : Ensure(c) \/ \E bad \in Throwing : Publish(c, bad)
    \/ Dispose \/ ConnectionClosed \/ DisposeLists
    \/ Execute \/ Read \/ HandOn
    \/ Break \/ Reconnect \/ GiveUp

Spec == Init /\ [][Next]_vars

(***************************************************************************)
(* The server executes what it is sent, the client reads what has arrived, *)
(* hands it on and connects again; dispose() is one chain of promises.     *)
(***************************************************************************)
Fairness ==
    /\ WF_vars(Execute)
    /\ WF_vars(Read)
    /\ WF_vars(HandOn)
    /\ WF_vars(Reconnect)
    /\ WF_vars(ConnectionClosed)
    /\ WF_vars(DisposeLists)

FairSpec == Spec /\ Fairness

------------------------------------------------------------------------------
(***************************************************************************)
(* Properties                                                              *)
(***************************************************************************)

\* What each variable of the manager and its connection may hold.
ManagerOK ==
    /\ alive \in BOOLEAN
    /\ iter \in [Iterators -> {"none", "active", "destroyed"}]
    /\ record \in [Channels -> Iterators \cup {None}]
    /\ listeners \in [Channels -> SUBSET Iterators]
    /\ pending \in [Iterators -> {"none", "pending", "resolved", "rejected"}]
    /\ watched \subseteq Iterators
    /\ conn \in {"online", "offline", "closing", "ending", "stuck", "closed"}
    /\ disposing \in {"no", "disconnecting", "waiting", "disposed"}
    /\ unreplied \in Seq(Commands)
    /\ executed \in 0..Len(unreplied)
    /\ wire \in Seq({Reply} \cup Messages)
    /\ server \subseteq Channels
    /\ acked \subseteq Channels
    /\ published \in [Channels -> 0..MaxPublished]
    /\ since \in [Iterators -> (0..MaxPublished) \cup {None}]
    /\ breaks \in 0..MaxBreaks

\* And those of the loops that hand messages on.
LoopsOK ==
    /\ received \in [Iterators -> Seq(1..MaxPublished)]
    /\ made \in Seq(Iterators)
    /\ emits \in Seq([list : Iterators, n : 1..MaxPublished, at : Nat])
    /\ reading \in BOOLEAN
    /\ malformed \subseteq Iterators \X (1..MaxPublished)
    /\ stirred \subseteq Channels

TypeOK == ManagerOK /\ LoopsOK

\* While ensure() is resolved the server is subscribed to the channel, and no
\* command on its way could change that: an UNSUBSCRIBE of an earlier record
\* has been overtaken by nothing.
EnsuredIsSubscribed ==
    \A c \in Channels :
        /\ conn = "online"
        /\ record[c] # None
        /\ pending[record[c]] = "resolved"
        => /\ c \in server
           /\ \A r \in Iterators : ChannelOf[r] = c => Unsubscribe(r) \notin ToSet(unreplied)

\* When all is replied to, the server is subscribed to what somebody listens
\* to and to nothing else, however calls, replies and breaks fell together.
SubscribedWhileHeard ==
    conn = "online" /\ unreplied = <<>>
        => server = {c \in Channels : record[c] # None /\ pending[record[c]] # "rejected"}

\* A loop that hands on message n has iterator i ahead of it.
Reaches(k, i, n) ==
    /\ emits[k].n = n /\ emits[k].list = record[ChannelOf[i]]
    /\ \E p \in emits[k].at + 1 .. Len(made) : made[p] = i

\* An iterator whose channel was ensured is given every message it can parse from then on,
\* as long as the connection stays, whoever comes and goes in the middle of a message.
NothingMissed ==
    \A i \in Iterators :
        conn = "online" /\ since[i] # None
            => \A n \in since[i] + 1 .. published[ChannelOf[i]] :
                \/ <<i, n>> \in malformed
                \/ n \in ToSet(received[i])
                \/ Message(ChannelOf[i], n) \in ToSet(wire)
                \/ \E k \in DOMAIN emits : Reaches(k, i, n)

\* No iterator is given a message twice, over any breaks.
NoneTwice ==
    \A i \in Iterators :
        \A j, k \in DOMAIN received[i] : j # k => received[i][j] # received[i][k]

\* The parsers of a channel's iterators throw on the same messages.
ParsedAlike(c) ==
    \A i, j \in Iterators : ChannelOf[i] = c /\ ChannelOf[j] = c =>
        \A n \in 1..MaxPublished : <<i, n>> \in malformed <=> <<j, n>> \in malformed

\* No iterator is given a message late, over any breaks, however the loops of several
\* messages fall together with callers that come.  A loop overtakes another only where a
\* listener between the two leaves, or throws on the later message alone.
InOrder ==
    \A i \in Iterators : ParsedAlike(ChannelOf[i]) /\ ChannelOf[i] \notin stirred =>
        \A j, k \in DOMAIN received[i] : j < k => received[i][j] < received[i][k]

\* Whoever called ensure() hears of it, unless the process ends or the
\* transport was disposed while the connection was down.
EnsureSettles ==
    \A r \in Iterators :
        r \in watched ~> \/ pending[r] \in {"resolved", "rejected"}
                         \/ ~alive \/ conn = "stuck"

\* dispose() settles, under the same provisos.
DisposeSettles ==
    disposing = "disconnecting" ~> \/ disposing = "disposed"
                                   \/ ~alive \/ conn = "stuck"

\* What the manager believes of its subscriptions the server does, while ensure() is
\* resolved and whenever all commands are replied to.
ServerFollows == TypeOK /\ EnsuredIsSubscribed /\ SubscribedWhileHeard

\* An iterator whose channel was ensured is given every message it can parse, each once,
\* and in order while nobody leaves in the middle of a message.
MessagesArrive == NothingMissed /\ NoneTwice /\ InOrder

\* ensure() and dispose() settle, unless the process ends or the connection is stuck.
CallsSettle == EnsureSettles /\ DisposeSettles

==============================================================================
