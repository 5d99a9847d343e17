-------------------------- MODULE SubscriptionsProofs --------------------------
(***************************************************************************)
(* Theorems about Subscriptions, for any channels and iterators, however   *)
(* often the connection breaks and however many messages are published.    *)
(***************************************************************************)
EXTENDS Subscriptions, FiniteSetTheorems, TLAPS

States == {"none", "pending", "resolved", "rejected"}

------------------------------------------------------------------------------
(***************************************************************************)
(* Commands, replies and messages                                          *)
(***************************************************************************)

\* A command is one or the other, of a record.
LEMMA CommandParts ==
    /\ \A r \in Iterators : Subscribe(r) \in Commands /\ Unsubscribe(r) \in Commands
    /\ \A r : Subscribe(r)[1] = "subscribe" /\ Subscribe(r)[2] = r
    /\ \A r : Unsubscribe(r)[1] = "unsubscribe" /\ Unsubscribe(r)[2] = r
    /\ \A cmd \in Commands :
          /\ cmd[2] \in Iterators
          /\ \/ cmd[1] = "subscribe" /\ cmd = Subscribe(cmd[2])
             \/ cmd[1] = "unsubscribe" /\ cmd = Unsubscribe(cmd[2])
BY DEF Subscribe, Unsubscribe, Commands

\* A message is of one channel, has one number, and is no reply.
LEMMA MessageParts ==
    /\ \A c \in Channels, n \in 1..MaxPublished : Message(c, n) \in Messages
    /\ \A c, n : Message(c, n)[1] = "message" /\ Message(c, n)[2] = c /\ Message(c, n)[3] = n
    /\ \A c, n : Message(c, n) # Reply
    /\ \A m \in Messages : \E c \in Channels, n \in 1..MaxPublished : m = Message(c, n)
<1>1. \A c, n : Message(c, n)[1] = "message" /\ Reply[1] = "reply"
  BY DEF Message, Reply
<1>2. \A m \in Messages : /\ m[2] \in Channels /\ m[3] \in 1..MaxPublished
                          /\ m = <<"message", m[2], m[3]>>
  BY DEF Messages
<1> QED
  BY <1>1, <1>2 DEF Message, Messages

\* A sequence to which something is added.
LEMMA Appended ==
    ASSUME NEW S, NEW s \in Seq(S), NEW e \in S
    PROVE  /\ Append(s, e) \in Seq(S)
           /\ Len(Append(s, e)) = Len(s) + 1 /\ Len(s) \in Nat
           /\ DOMAIN s = 1..Len(s) /\ DOMAIN Append(s, e) = 1..(Len(s) + 1)
           /\ \A k \in 1..Len(s) : Append(s, e)[k] = s[k]
           /\ Append(s, e)[Len(s) + 1] = e
OBVIOUS

\* A sequence whose first element is taken.
LEMMA Taken ==
    ASSUME NEW S, NEW s \in Seq(S), s # <<>>
    PROVE  /\ Tail(s) \in Seq(S) /\ Head(s) \in S
           /\ Len(Tail(s)) = Len(s) - 1 /\ Len(s) \in Nat /\ Len(s) >= 1
           /\ DOMAIN s = 1..Len(s) /\ DOMAIN Tail(s) = 1..(Len(s) - 1)
           /\ \A k \in 1..(Len(s) - 1) : Tail(s)[k] = s[k + 1]
           /\ Head(s) = s[1]
OBVIOUS

------------------------------------------------------------------------------
(***************************************************************************)
(* Types                                                                   *)
(***************************************************************************)

Replies == {k \in DOMAIN wire : wire[k] = Reply}

\* What the server has executed is what the client has not read the reply to.
RepliesCount == Cardinality(Replies) = executed

\* What commands that are rejected do.
LEMMA RejectsEffect ==
    ASSUME ManagerOK, NEW cmds, NEW heard \in SUBSET Iterators, Rejects(cmds, heard)
    PROVE  /\ pending' \in [Iterators -> States]
           /\ watched' \subseteq Iterators
           /\ alive' \in BOOLEAN
           /\ \A r \in Iterators :
                 pending'[r] = IF Subscribe(r) \in cmds /\ pending[r] \in {"none", "pending"}
                               THEN "rejected" ELSE pending[r]
           /\ alive' => \A r \in Iterators : Unsubscribe(r) \notin cmds
<1> DEFINE failed == {r \in Iterators : /\ Subscribe(r) \in cmds
                                        /\ pending[r] \in {"none", "pending"}}
<1>1. /\ pending' = [r \in Iterators |-> IF r \in failed THEN "rejected" ELSE pending[r]]
      /\ watched' = heard
      /\ alive' = (failed \subseteq heard /\ \A r \in Iterators : Unsubscribe(r) \notin cmds)
  BY Zenon DEF Rejects
<1>2. alive' \in BOOLEAN
  BY <1>1
<1>3. alive' => \A r \in Iterators : Unsubscribe(r) \notin cmds
  BY <1>1
<1>4. \A r \in Iterators :
         pending'[r] = IF Subscribe(r) \in cmds /\ pending[r] \in {"none", "pending"}
                       THEN "rejected" ELSE pending[r]
  BY <1>1
<1>5. pending' \in [Iterators -> States]
  BY <1>1 DEF ManagerOK, States
<1> QED
  BY <1>1, <1>2, <1>3, <1>4, <1>5

\* What a command that is issued does.
LEMMA IssuesEffect ==
    ASSUME ManagerOK, NEW cmd \in Commands, NEW heard \in SUBSET Iterators, Issues(cmd, heard)
    PROVE  /\ pending' \in [Iterators -> States]
           /\ watched' \subseteq Iterators
           /\ alive' \in BOOLEAN
           /\ unreplied' \in Seq(Commands) /\ Len(unreplied) <= Len(unreplied')
           /\ \A r \in Iterators : r # cmd[2] => pending'[r] = pending[r]
           /\ \A r \in Iterators : pending[r] \in {"resolved", "rejected"} => pending'[r] = pending[r]
           /\ conn # "closed" =>
                 /\ unreplied' = Append(unreplied, cmd)
                 /\ pending'[cmd[2]] = IF pending[cmd[2]] = "none" THEN "pending" ELSE pending[cmd[2]]
                 /\ UNCHANGED alive
           /\ conn = "closed" => UNCHANGED unreplied
<1>1. cmd[2] \in Iterators
  BY CommandParts
<1>2. CASE conn = "closed"
  <2>1. Rejects({cmd}, heard) /\ UNCHANGED unreplied
    BY <1>2 DEF Issues
  <2>2. \A r \in Iterators : Subscribe(r) \in {cmd} => r = cmd[2]
    BY CommandParts
  <2>3. /\ pending' \in [Iterators -> States]
        /\ watched' \subseteq Iterators
        /\ alive' \in BOOLEAN
        /\ \A r \in Iterators :
              pending'[r] = IF Subscribe(r) \in {cmd} /\ pending[r] \in {"none", "pending"}
                            THEN "rejected" ELSE pending[r]
    BY <2>1, RejectsEffect
  <2>4. \A r \in Iterators : r # cmd[2] => pending'[r] = pending[r]
    BY <2>2, <2>3
  <2>5. \A r \in Iterators : pending[r] \in {"resolved", "rejected"} => pending'[r] = pending[r]
    BY <2>3
  <2> QED
    BY <1>2, <2>1, <2>3, <2>4, <2>5 DEF ManagerOK
<1>3. CASE conn # "closed"
  <2>1. /\ unreplied' = Append(unreplied, cmd)
        /\ pending' = [pending EXCEPT ![cmd[2]] = IF @ = "none" THEN "pending" ELSE @]
        /\ watched' = heard
        /\ UNCHANGED alive
    BY <1>3 DEF Issues
  <2>2. unreplied' \in Seq(Commands) /\ Len(unreplied) <= Len(unreplied')
    BY <2>1, Appended DEF ManagerOK
  <2>3. pending' \in [Iterators -> States]
    BY <1>1, <2>1 DEF ManagerOK, States
  <2>4. /\ \A r \in Iterators : r # cmd[2] => pending'[r] = pending[r]
        /\ \A r \in Iterators : pending[r] \in {"resolved", "rejected"} => pending'[r] = pending[r]
        /\ pending'[cmd[2]] = IF pending[cmd[2]] = "none" THEN "pending" ELSE pending[cmd[2]]
    BY <1>1, <2>1 DEF ManagerOK
  <2> QED
    BY <1>3, <2>1, <2>2, <2>3, <2>4 DEF ManagerOK
<1> QED
  BY <1>2, <1>3

\* The replies that are on their way are counted.
LEMMA RepliesAre ==
    ASSUME ManagerOK
    PROVE  /\ wire \in Seq({Reply} \cup Messages)
           /\ Len(wire) \in Nat /\ DOMAIN wire = 1..Len(wire)
           /\ IsFiniteSet(Replies) /\ Cardinality(Replies) \in Nat
<1>1. wire \in Seq({Reply} \cup Messages)
  BY DEF ManagerOK
<1>2. Len(wire) \in Nat /\ DOMAIN wire = 1..Len(wire)
  BY <1>1
<1>3. IsFiniteSet(1..Len(wire))
  <2>1. 1 \in Int /\ Len(wire) \in Int
    BY <1>2
  <2> QED
    BY <2>1, FS_Interval
<1>4. Replies \subseteq 1..Len(wire)
  BY <1>2 DEF Replies
<1>5. IsFiniteSet(Replies) /\ Cardinality(Replies) \in Nat
  BY <1>3, <1>4, FS_Subset, FS_CardinalityType
<1> QED
  BY <1>1, <1>2, <1>5

\* Something is sent to the client.
LEMMA WireGrows ==
    ASSUME ManagerOK, NEW e \in {Reply} \cup Messages, wire' = Append(wire, e)
    PROVE  Cardinality(Replies') = IF e = Reply THEN Cardinality(Replies) + 1
                                   ELSE Cardinality(Replies)
<1>1. /\ wire \in Seq({Reply} \cup Messages)
      /\ Len(wire) \in Nat /\ DOMAIN wire = 1..Len(wire)
      /\ IsFiniteSet(Replies)
  BY RepliesAre
<1>2. /\ DOMAIN wire' = 1..(Len(wire) + 1)
      /\ \A k \in 1..Len(wire) : wire'[k] = wire[k]
      /\ wire'[Len(wire) + 1] = e
  BY <1>1, Appended
<1>3. Replies' = IF e = Reply THEN Replies \cup {Len(wire) + 1} ELSE Replies
  BY <1>1, <1>2 DEF Replies
<1>4. Len(wire) + 1 \notin Replies
  BY <1>1 DEF Replies
<1> QED
  BY <1>1, <1>3, <1>4, FS_AddElement

\* The client reads what was sent first.
LEMMA WireShrinks ==
    ASSUME ManagerOK, wire # <<>>, wire' = Tail(wire)
    PROVE  Cardinality(Replies) = IF Head(wire) = Reply THEN Cardinality(Replies') + 1
                                  ELSE Cardinality(Replies')
<1>1. /\ wire \in Seq({Reply} \cup Messages)
      /\ Len(wire) \in Nat /\ DOMAIN wire = 1..Len(wire)
      /\ IsFiniteSet(Replies)
  BY RepliesAre
<1>2. /\ DOMAIN wire' = 1..(Len(wire) - 1)
      /\ \A k \in 1..(Len(wire) - 1) : wire'[k] = wire[k + 1]
      /\ Head(wire) = wire[1]
      /\ Len(wire) >= 1
  BY <1>1, Taken
<1> DEFINE f == [k \in Replies' |-> k + 1]
<1>3. f \in Bijection(Replies', Replies \ {1})
  <2>1. ASSUME NEW k \in Replies'
        PROVE  k + 1 \in Replies \ {1}
    BY <1>1, <1>2 DEF Replies
  <2>2. \A j, k \in Replies' : f[j] = f[k] => j = k
    BY <1>2 DEF Replies
  <2>3. ASSUME NEW k \in Replies \ {1}
        PROVE  \E j \in Replies' : f[j] = k
    <3>1. k - 1 \in Replies' /\ (k - 1) + 1 = k
      BY <1>1, <1>2 DEF Replies
    <3> QED
      BY <3>1
  <2>4. f \in [Replies' -> Replies \ {1}]
    BY <2>1
  <2> HIDE DEF f
  <2>5. f \in Injection(Replies', Replies \ {1})
    BY <2>2, <2>4 DEF Injection, IsInjective
  <2>6. f \in Surjection(Replies', Replies \ {1})
    BY <2>3, <2>4 DEF Surjection
  <2> QED
    BY <2>5, <2>6 DEF Bijection
<1>4. IsFiniteSet(Replies \ {1}) /\ Cardinality(Replies \ {1}) =
         IF 1 \in Replies THEN Cardinality(Replies) - 1 ELSE Cardinality(Replies)
  BY <1>1, FS_RemoveElement
<1>5. ExistsBijection(Replies', Replies \ {1})
  BY <1>3 DEF ExistsBijection
<1>6. Cardinality(Replies') = Cardinality(Replies \ {1})
  <2>1. IsFiniteSet(Replies')
    <3>1. f \in Injection(Replies', Replies \ {1})
      BY <1>3 DEF Bijection
    <3> QED
      BY <1>4, <3>1, FS_Injection
  <2> QED
    BY <1>5, <2>1, FS_Bijection
<1>7. 1 \in Replies <=> Head(wire) = Reply
  BY <1>1, <1>2 DEF Replies
<1>8. Cardinality(Replies) \in Nat
  BY <1>1, FS_CardinalityType
<1> QED
  BY <1>4, <1>6, <1>7, <1>8

\* A reply that can be read is to a command.
LEMMA ReplyHasCommand ==
    ASSUME ManagerOK, RepliesCount, wire # <<>>, Head(wire) = Reply
    PROVE  /\ executed >= 1
           /\ unreplied # <<>>
           /\ Head(unreplied) \in Commands
           /\ Head(unreplied)[2] \in Iterators
<1>1. wire \in Seq({Reply} \cup Messages) /\ DOMAIN wire = 1..Len(wire) /\ Len(wire) \in Nat
      /\ IsFiniteSet(Replies) /\ Cardinality(Replies) \in Nat
  BY RepliesAre
<1>2. 1 \in Replies
  BY <1>1 DEF Replies
<1>3. Cardinality(Replies) # 0
  BY <1>1, <1>2, FS_EmptySet
<1>4. unreplied \in Seq(Commands) /\ executed \in 0..Len(unreplied) /\ Len(unreplied) \in Nat
  BY DEF ManagerOK
<1>5. executed >= 1
  BY <1>1, <1>3, <1>4 DEF RepliesCount
<1>6. unreplied # <<>>
  BY <1>4, <1>5
<1>7. Head(unreplied) \in Commands
  BY <1>4, <1>6
<1> QED
  BY <1>5, <1>6, <1>7, CommandParts

\* An iterator is made.
LEMMA IterateType ==
    ASSUME ManagerOK, RepliesCount, NEW i \in Iterators, NEW ensures \in BOOLEAN, Iterate(i, ensures)
    PROVE  ManagerOK' /\ RepliesCount'
<1> DEFINE c == ChannelOf[i]
           heard == IF ensures THEN watched \cup {RecordFor(i)} ELSE watched
<1>1. c \in Channels /\ RecordFor(i) \in Iterators
  BY SubscriptionsAssumption DEF RecordFor, ManagerOK
<1>2. heard \in SUBSET Iterators
  BY <1>1 DEF ManagerOK
<1>3. /\ pending' \in [Iterators -> States]
      /\ watched' \subseteq Iterators
      /\ alive' \in BOOLEAN
      /\ unreplied' \in Seq(Commands) /\ Len(unreplied) <= Len(unreplied')
  <2>1. CASE listeners[c] = {}
    <3>1. Issues(Subscribe(RecordFor(i)), heard)
      BY <2>1 DEF Iterate
    <3>2. Subscribe(RecordFor(i)) \in Commands
      BY <1>1, CommandParts
    <3> QED
      BY <1>2, <3>1, <3>2, IssuesEffect
  <2>2. CASE listeners[c] # {}
    <3>1. watched' = heard /\ UNCHANGED <<alive, pending, unreplied>>
      BY <2>2 DEF Iterate
    <3> QED
      BY <1>2, <3>1 DEF ManagerOK, States
  <2> QED
    BY <2>1, <2>2
<1>4. since' \in [Iterators -> (0..MaxPublished) \cup {None}]
  BY <1>1 DEF Iterate, ManagerOK
<1>5. /\ iter' \in [Iterators -> {"none", "active", "destroyed"}]
      /\ record' \in [Channels -> Iterators \cup {None}]
      /\ listeners' \in [Channels -> SUBSET Iterators]
  BY <1>1 DEF Iterate, ManagerOK
<1>6. executed' \in 0..Len(unreplied')
  BY <1>3 DEF Iterate, ManagerOK
<1>7. UNCHANGED <<conn, disposing, executed, wire, server, acked, published, breaks>>
  BY DEF Iterate
<1> QED
  BY <1>3, <1>4, <1>5, <1>6, <1>7 DEF ManagerOK, States, RepliesCount, Replies

\* An iterator is destroyed.
LEMMA OffType ==
    ASSUME ManagerOK, RepliesCount, NEW i \in Iterators, Off(i)
    PROVE  ManagerOK' /\ RepliesCount'
<1> DEFINE c == ChannelOf[i]
           left == listeners[c] \ {i}
<1>1. c \in Channels
  BY SubscriptionsAssumption
<1>2. /\ pending' \in [Iterators -> States]
      /\ watched' \subseteq Iterators
      /\ alive' \in BOOLEAN
      /\ unreplied' \in Seq(Commands) /\ Len(unreplied) <= Len(unreplied')
      /\ record' \in [Channels -> Iterators \cup {None}]
  <2>1. CASE record[c] # None /\ left = {}
    <3>1. record' = [record EXCEPT ![c] = None] /\ Issues(Unsubscribe(record[c]), watched)
      BY <2>1 DEF Off
    <3>2. Unsubscribe(record[c]) \in Commands
      BY <1>1, <2>1, CommandParts DEF ManagerOK
    <3>3. watched \in SUBSET Iterators
      BY DEF ManagerOK
    <3> QED
      BY <1>1, <3>1, <3>2, <3>3, IssuesEffect DEF ManagerOK
  <2>2. CASE ~(record[c] # None /\ left = {})
    <3>1. UNCHANGED <<alive, record, deferVars, unreplied>>
      BY <2>2 DEF Off
    <3> QED
      BY <3>1 DEF ManagerOK, States, deferVars
  <2> QED
    BY <2>1, <2>2
<1>3. since' \in [Iterators -> (0..MaxPublished) \cup {None}]
  BY DEF Off, ManagerOK
<1>4. /\ iter' \in [Iterators -> {"none", "active", "destroyed"}]
      /\ listeners' \in [Channels -> SUBSET Iterators]
  BY <1>1 DEF Off, ManagerOK
<1>5. executed' \in 0..Len(unreplied')
  BY <1>2 DEF Off, ManagerOK
<1>6. UNCHANGED <<conn, disposing, executed, wire, server, acked, published, breaks>>
  BY DEF Off
<1> QED
  BY <1>2, <1>3, <1>4, <1>5, <1>6 DEF ManagerOK, States, RepliesCount, Replies

\* The connection has ended: nothing is under way any more.
LEMMA ConnectionClosedType ==
    ASSUME ManagerOK, RepliesCount, ConnectionClosed
    PROVE  ManagerOK' /\ RepliesCount'
<1>1. /\ pending' \in [Iterators -> States]
      /\ watched' \subseteq Iterators
      /\ alive' \in BOOLEAN
  <2>1. watched \in SUBSET Iterators
    BY DEF ManagerOK
  <2> QED
    BY <2>1, RejectsEffect DEF ConnectionClosed
<1>2. /\ unreplied' = <<>> /\ executed' = 0 /\ wire' = <<>> /\ server' = {}
      /\ conn' = "closed"
      /\ disposing' \in {disposing, "disposed"}
      /\ UNCHANGED <<managerVars, acked, published, since, breaks>>
  BY DEF ConnectionClosed, historyVars
<1>3. Replies' = {}
  BY <1>2 DEF Replies
<1>4. RepliesCount'
  BY <1>2, <1>3, FS_EmptySet DEF RepliesCount
<1>5. unreplied' \in Seq(Commands) /\ wire' \in Seq({Reply} \cup Messages) /\ executed' \in 0..Len(unreplied')
  BY <1>2
<1> QED
  BY <1>1, <1>2, <1>4, <1>5 DEF ManagerOK, States, managerVars, historyVars

\* A command is executed: one more reply is on its way.
LEMMA ExecuteType ==
    ASSUME ManagerOK, RepliesCount, Execute
    PROVE  ManagerOK' /\ RepliesCount'
<1>1. /\ executed' = executed + 1 /\ executed < Len(unreplied)
      /\ wire' = Append(wire, Reply)
      /\ UNCHANGED <<alive, managerVars, deferVars, conn, disposing, unreplied, acked,
                     published, since, breaks>>
  BY DEF Execute, historyVars
<1>2. unreplied \in Seq(Commands) /\ Len(unreplied) \in Nat /\ executed \in Nat
  BY DEF ManagerOK
<1>3. unreplied[executed + 1] \in Commands
  BY <1>1, <1>2
<1>4. ChannelOf[unreplied[executed + 1][2]] \in Channels
  BY <1>3, CommandParts, SubscriptionsAssumption
<1>5. server' \subseteq Channels
  BY <1>4 DEF Execute, ManagerOK
<1>6. wire' \in Seq({Reply} \cup Messages)
  BY <1>1, RepliesAre, Appended
<1>7. RepliesCount'
  BY <1>1, <1>2, WireGrows DEF RepliesCount
<1>8. executed' \in 0..Len(unreplied')
  BY <1>1, <1>2
<1> QED
  BY <1>1, <1>5, <1>6, <1>7, <1>8 DEF ManagerOK, managerVars, deferVars, historyVars

\* A message is published.
LEMMA PublishType ==
    ASSUME ManagerOK, RepliesCount, NEW c \in Channels, NEW bad, Publish(c, bad)
    PROVE  ManagerOK' /\ RepliesCount'
<1>1. /\ published[c] < MaxPublished
      /\ published' = [published EXCEPT ![c] = @ + 1]
      /\ wire' = IF c \in server THEN Append(wire, Message(c, published'[c])) ELSE wire
      /\ UNCHANGED <<alive, managerVars, deferVars, conn, disposing, unreplied, executed,
                     server, acked, since, breaks>>
  BY DEF Publish
<1>2. published[c] \in 0..MaxPublished /\ MaxPublished \in Nat
  BY SubscriptionsAssumption DEF ManagerOK
<1>3. published'[c] = published[c] + 1 /\ published'[c] \in 1..MaxPublished
  BY <1>1, <1>2 DEF ManagerOK
<1>4. published' \in [Channels -> 0..MaxPublished]
  BY <1>1, <1>2 DEF ManagerOK
<1>5. Message(c, published'[c]) \in Messages /\ Message(c, published'[c]) # Reply
  BY <1>3, MessageParts
<1>6. wire' \in Seq({Reply} \cup Messages)
  BY <1>1, <1>5, RepliesAre, Appended
<1>7. RepliesCount'
  <2>1. CASE c \in server
    BY <1>1, <1>5, <2>1, WireGrows DEF RepliesCount
  <2>2. CASE c \notin server
    BY <1>1, <2>2 DEF RepliesCount, Replies
  <2> QED
    BY <2>1, <2>2
<1> QED
  BY <1>1, <1>4, <1>6, <1>7 DEF ManagerOK, managerVars, deferVars

\* What the client reads.
LEMMA ReadIs ==
    ASSUME ManagerOK, RepliesCount, Read
    PROVE  /\ wire # <<>> /\ wire' = Tail(wire) /\ alive
           /\ UNCHANGED <<alive, managerVars, watched, conn, disposing, server, published, breaks>>
           /\ \/ Head(wire) = Reply /\ Replied
              \/ \E c \in Channels, n \in 1..MaxPublished : Head(wire) = Message(c, n) /\ Emit(c, n)
BY DEF Read

\* What a reply does.
LEMMA RepliedIs ==
    ASSUME ManagerOK, RepliesCount, wire # <<>>, Head(wire) = Reply, Replied
    PROVE  \E r \in Iterators :
              /\ unreplied' = Tail(unreplied) /\ unreplied # <<>>
              /\ executed' = executed - 1 /\ executed >= 1
              /\ \/ Head(unreplied) = Subscribe(r) /\ Subscribed(r)
                 \/ Head(unreplied) = Unsubscribe(r) /\ Unsubscribed(r)
<1>1. /\ executed >= 1 /\ unreplied # <<>>
      /\ Head(unreplied) \in Commands /\ Head(unreplied)[2] \in Iterators
  BY ReplyHasCommand
<1>2. \/ Head(unreplied)[1] = "subscribe" /\ Head(unreplied) = Subscribe(Head(unreplied)[2])
      \/ Head(unreplied)[1] = "unsubscribe" /\ Head(unreplied) = Unsubscribe(Head(unreplied)[2])
  BY <1>1, CommandParts
<1>3. /\ unreplied' = Tail(unreplied)
      /\ executed' = executed - 1
      /\ IF Head(unreplied)[1] = "subscribe" THEN Subscribed(Head(unreplied)[2])
                                             ELSE Unsubscribed(Head(unreplied)[2])
  BY DEF Replied
<1> QED
  BY <1>1, <1>2, <1>3

\* The client reads a reply or a message.
LEMMA ReadType ==
    ASSUME ManagerOK, RepliesCount, Read
    PROVE  ManagerOK' /\ RepliesCount'
<1>1. /\ wire # <<>> /\ wire' = Tail(wire)
      /\ UNCHANGED <<alive, managerVars, watched, conn, disposing, server, published, breaks>>
  BY ReadIs
<1>2. wire' \in Seq({Reply} \cup Messages)
  BY <1>1, RepliesAre, Taken
<1>3. /\ unreplied \in Seq(Commands) /\ Len(unreplied) \in Nat
      /\ executed \in 0..Len(unreplied) /\ executed \in Nat
      /\ Cardinality(Replies) = executed
  BY DEF ManagerOK, RepliesCount
<1>4. /\ pending \in [Iterators -> States]
      /\ since \in [Iterators -> (0..MaxPublished) \cup {None}]
      /\ published \in [Channels -> 0..MaxPublished]
      /\ acked \subseteq Channels
  BY DEF ManagerOK, States
<1>5. Cardinality(Replies) = IF Head(wire) = Reply THEN Cardinality(Replies') + 1
                             ELSE Cardinality(Replies')
  BY <1>1, WireShrinks
<1>6. CASE Head(wire) = Reply /\ Replied
  <2>1. PICK r \in Iterators :
           /\ unreplied' = Tail(unreplied) /\ unreplied # <<>>
           /\ executed' = executed - 1 /\ executed >= 1
           /\ Subscribed(r) \/ Unsubscribed(r)
    BY <1>1, <1>6, RepliedIs
  <2>2. unreplied' \in Seq(Commands) /\ Len(unreplied') = Len(unreplied) - 1
    BY <1>3, <2>1, Taken
  <2>3. executed' \in 0..Len(unreplied')
    BY <1>3, <2>1, <2>2
  <2>4. ChannelOf[r] \in Channels
    BY SubscriptionsAssumption
  <2>5. /\ acked' \subseteq Channels
        /\ pending' \in [Iterators -> States]
        /\ since' \in [Iterators -> (0..MaxPublished) \cup {None}]
    BY <1>4, <2>1, <2>4 DEF Subscribed, Unsubscribed, States
  <2>6. Cardinality(Replies') \in Nat
    <3>1. IsFiniteSet(Replies')
      <4>1. DOMAIN wire' = 1..Len(wire') /\ Len(wire') \in Nat
        BY <1>2
      <4>2. IsFiniteSet(1..Len(wire'))
        <5>1. 1 \in Int /\ Len(wire') \in Int
          BY <4>1
        <5> QED
          BY <5>1, FS_Interval
      <4>3. Replies' \subseteq 1..Len(wire')
        BY <4>1 DEF Replies
      <4> QED
        BY <4>2, <4>3, FS_Subset
    <3> QED
      BY <3>1, FS_CardinalityType
  <2>7. RepliesCount'
    <3>1. executed' = executed - 1 /\ executed \in Nat /\ Cardinality(Replies) = executed
      BY <1>3, <2>1
    <3>2. Cardinality(Replies) = Cardinality(Replies') + 1
      BY <1>5, <1>6
    <3>3. Cardinality(Replies') = executed'
      BY <2>6, <3>1, <3>2
    <3> QED
      BY <3>3 DEF RepliesCount
  <2> QED
    BY <1>1, <1>2, <2>2, <2>3, <2>5, <2>7 DEF ManagerOK, States, managerVars
<1>7. ASSUME NEW c \in Channels, NEW n \in 1..MaxPublished,
             Head(wire) = Message(c, n), Emit(c, n)
      PROVE  ManagerOK' /\ RepliesCount'
  <2>1. UNCHANGED <<unreplied, executed, acked, pending, since>>
    BY <1>7 DEF Emit
  <2>3. RepliesCount'
    <3>1. Head(wire) # Reply
      BY <1>7, MessageParts
    <3> QED
      BY <1>3, <1>5, <2>1, <3>1 DEF RepliesCount
  <2> QED
    BY <1>1, <1>2, <2>1, <2>3 DEF ManagerOK, managerVars
<1> QED
  BY <1>6, <1>7, ReadIs

\* The client gives up what it could not send: nothing of it had been executed.
LEMMA GiveUpType ==
    ASSUME ManagerOK, RepliesCount, GiveUp, executed = 0
    PROVE  ManagerOK' /\ RepliesCount'
<1>1. /\ pending' \in [Iterators -> States]
      /\ watched' \subseteq Iterators
      /\ alive' \in BOOLEAN
  <2>1. watched \in SUBSET Iterators
    BY DEF ManagerOK
  <2> QED
    BY <2>1, RejectsEffect DEF GiveUp
<1>2. /\ unreplied' = <<>>
      /\ UNCHANGED <<managerVars, conn, disposing, executed, wire, server, acked, published, since,
                     breaks>>
  BY DEF GiveUp, historyVars
<1>3. unreplied' \in Seq(Commands) /\ executed' \in 0..Len(unreplied')
  BY <1>2
<1> QED
  BY <1>1, <1>2, <1>3 DEF ManagerOK, States, managerVars, historyVars, RepliesCount, Replies

\* The steps that touch only the connection, or what is listened to.
LEMMA OtherTypes ==
    ASSUME ManagerOK, RepliesCount,
           \/ \E c \in Channels : Ensure(c)
           \/ Dispose \/ DisposeLists \/ Break \/ Reconnect \/ HandOn \/ UNCHANGED vars
    PROVE  ManagerOK' /\ RepliesCount'
<1>1. ASSUME NEW c \in Channels, Ensure(c)
      PROVE  ManagerOK' /\ RepliesCount'
  <2>1. watched' \subseteq Iterators
    BY <1>1 DEF Ensure, ManagerOK
  <2>2. UNCHANGED <<alive, managerVars, pending, conn, disposing, wireVars, published, since, breaks>>
    BY <1>1 DEF Ensure, historyVars
  <2> QED
    BY <2>1, <2>2 DEF ManagerOK, managerVars, wireVars, historyVars, RepliesCount, Replies
<1>2. CASE Dispose
  <2>1. /\ conn' \in {"closing", "ending", "stuck"} /\ disposing' = "disconnecting"
        /\ UNCHANGED <<alive, managerVars, deferVars, wireVars, published, since, breaks>>
    BY <1>2 DEF Dispose, historyVars
  <2> QED
    BY <2>1 DEF ManagerOK, managerVars, deferVars, wireVars, historyVars, RepliesCount, Replies
<1>3. CASE DisposeLists
  <2>1. /\ UNCHANGED <<alive, iter, record, deferVars, conn, wireVars, published, since, breaks>>
        /\ disposing' \in {"disposed", "waiting"}
        /\ listeners' \in [Channels -> SUBSET Iterators]
    BY <1>3 DEF DisposeLists, ManagerOK
  <2> QED
    BY <2>1 DEF ManagerOK, deferVars, wireVars, historyVars, RepliesCount, Replies
<1>4. CASE Break
  <2>1. /\ conn' = "offline" /\ server' = {} /\ wire' = <<>> /\ executed' = 0
        /\ UNCHANGED <<alive, managerVars, deferVars, disposing, unreplied, acked, published>>
    BY <1>4 DEF Break
  <2>2. since' \in [Iterators -> (0..MaxPublished) \cup {None}] /\ breaks' \in 0..MaxBreaks
    BY <1>4, SubscriptionsAssumption DEF Break, ManagerOK
  <2>3. Replies' = {}
    BY <2>1 DEF Replies
  <2>4. RepliesCount'
    BY <2>1, <2>3, FS_EmptySet DEF RepliesCount
  <2>5. wire' \in Seq({Reply} \cup Messages) /\ executed' \in 0..Len(unreplied')
    <3>1. Len(unreplied) \in Nat
      BY DEF ManagerOK
    <3> QED
      BY <2>1, <3>1
  <2> QED
    BY <2>1, <2>2, <2>4, <2>5 DEF ManagerOK, managerVars, deferVars
<1>5. CASE Reconnect
  <2>1. /\ conn' = "online" /\ server' = acked
        /\ UNCHANGED <<alive, managerVars, deferVars, disposing, unreplied, executed, wire, acked,
                       published, breaks>>
    BY <1>5 DEF Reconnect
  <2>2. since' \in [Iterators -> (0..MaxPublished) \cup {None}]
    <3>1. \A i \in Iterators : published[ChannelOf[i]] \in 0..MaxPublished
      BY SubscriptionsAssumption DEF ManagerOK
    <3> QED
      BY <1>5, <3>1 DEF Reconnect
  <2> QED
    BY <2>1, <2>2 DEF ManagerOK, managerVars, deferVars, RepliesCount, Replies
<1>6. CASE UNCHANGED vars
  BY <1>6 DEF vars, ManagerOK, managerVars, deferVars, wireVars, historyVars, RepliesCount, Replies
<1>7. CASE HandOn
  <2>1. UNCHANGED <<alive, managerVars, deferVars, conn, disposing, wireVars, published, since, breaks>>
    BY <1>7 DEF HandOn
  <2> QED
    BY <2>1 DEF ManagerOK, managerVars, deferVars, wireVars, RepliesCount, Replies
<1> QED
  BY <1>1, <1>2, <1>3, <1>4, <1>5, <1>6, <1>7

------------------------------------------------------------------------------
(***************************************************************************)
(* The connection                                                          *)
(***************************************************************************)

\* A process ends, and a manager is disposed, only away from the server; and
\* there nothing is under way.
Apart ==
    /\ ~alive => conn \in {"offline", "closed"}
    /\ disposing # "no" => conn \notin {"online", "offline"}
    /\ conn \notin {"online", "closing"} => executed = 0 /\ wire = <<>> /\ server = {}

\* The types, and what the connection is worth.
Wired == ManagerOK /\ RepliesCount /\ Apart

\* No step ends a process, or disposes a manager, at the server.
LEMMA ApartKept ==
    ASSUME Wired, [Next]_vars
    PROVE  Apart'
<1> USE DEF Wired, Apart
<1>1. ASSUME NEW i \in Iterators, NEW ensures \in BOOLEAN, Iterate(i, ensures)
      PROVE  Apart'
  <2>1. UNCHANGED <<conn, disposing, executed, wire, server>>
    BY <1>1 DEF Iterate
  <2>2. conn # "closed" => UNCHANGED alive
    BY <1>1 DEF Iterate, Issues
  <2> QED
    BY <2>1, <2>2
<1>2. ASSUME NEW i \in Iterators, Off(i)
      PROVE  Apart'
  <2>1. UNCHANGED <<conn, disposing, executed, wire, server>>
    BY <1>2 DEF Off
  <2>2. conn # "closed" => UNCHANGED alive
    BY <1>2 DEF Off, Issues
  <2> QED
    BY <2>1, <2>2
<1>3. ASSUME NEW c \in Channels, Ensure(c)
      PROVE  Apart'
  BY <1>3 DEF Ensure, wireVars
<1>4. ASSUME NEW c \in Channels, NEW bad, Publish(c, bad)
      PROVE  Apart'
  BY <1>4 DEF Publish
<1>5. CASE Dispose
  BY <1>5 DEF Dispose, wireVars
<1>6. CASE ConnectionClosed
  BY <1>6 DEF ConnectionClosed
<1>7. CASE DisposeLists
  BY <1>7 DEF DisposeLists, wireVars, ManagerOK
<1>8. CASE Execute
  BY <1>8 DEF Execute, Connected
<1>9. CASE Read
  BY <1>9 DEF Read, Connected
<1>10. CASE Break
  BY <1>10 DEF Break
<1>11. CASE Reconnect
  BY <1>11 DEF Reconnect
<1>12. CASE GiveUp
  BY <1>12 DEF GiveUp
<1>13. CASE HandOn
  BY <1>13 DEF HandOn, wireVars
<1>14. CASE UNCHANGED vars
  BY <1>14 DEF vars, wireVars
<1> QED
  BY <1>1, <1>2, <1>3, <1>4, <1>5, <1>6, <1>7, <1>8, <1>9, <1>10, <1>11, <1>12, <1>13, <1>14
  DEF Next

\* The types, the count of replies and the state of the connection are kept.
LEMMA WiredKept ==
    ASSUME Wired, [Next]_vars
    PROVE  Wired'
<1>1. CASE GiveUp
  <2>1. executed = 0
    BY <1>1 DEF GiveUp, Wired, Apart
  <2> QED
    BY <1>1, <2>1, GiveUpType, ApartKept DEF Wired
<1> QED
  BY <1>1, ApartKept, IterateType, OffType, ConnectionClosedType, ExecuteType, PublishType,
     ReadType, OtherTypes DEF Wired, Next

\* They hold at first.
LEMMA WiredAtFirst ==
    ASSUME Init
    PROVE  Wired
<1>1. Replies = {}
  BY DEF Init, Replies
<1>2. RepliesCount
  BY <1>1, FS_EmptySet DEF Init, RepliesCount
<1>3. /\ unreplied \in Seq(Commands) /\ wire \in Seq({Reply} \cup Messages)
      /\ executed \in 0..Len(unreplied)
  BY DEF Init
<1>4. /\ published \in [Channels -> 0..MaxPublished] /\ breaks \in 0..MaxBreaks
  BY SubscriptionsAssumption DEF Init
<1>5. alive \in BOOLEAN
  BY DEF Init
<1>6. /\ iter \in [Iterators -> {"none", "active", "destroyed"}]
      /\ record \in [Channels -> Iterators \cup {None}]
      /\ listeners \in [Channels -> SUBSET Iterators]
      /\ pending \in [Iterators -> States]
      /\ since \in [Iterators -> (0..MaxPublished) \cup {None}]
  BY DEF Init, States
<1>7. ManagerOK
  BY <1>3, <1>4, <1>5, <1>6 DEF Init, ManagerOK, States
<1> QED
  BY <1>2, <1>7 DEF Init, Wired, Apart

------------------------------------------------------------------------------
(***************************************************************************)
(* The commands without a reply                                            *)
(***************************************************************************)

\* The channel of a command, and which of the two it is.
Topic(k) == ChannelOf[unreplied[k][2]]
Starts(k) == unreplied[k][1] = "subscribe"

\* No command, or the last one, is about the channel.
Quiet(c) == \A k \in DOMAIN unreplied : Topic(k) # c
IsLast(c, k) ==
    k \in DOMAIN unreplied /\ Topic(k) = c /\ \A j \in DOMAIN unreplied : j > k => Topic(j) # c

\* A command is issued after all others.
LEMMA QueueAppended ==
    ASSUME ManagerOK, NEW cmd \in Commands, unreplied' = Append(unreplied, cmd),
           NEW n, n = Len(unreplied) + 1
    PROVE  /\ n \in Nat /\ n \notin DOMAIN unreplied
           /\ DOMAIN unreplied \subseteq Nat
           /\ DOMAIN unreplied' = DOMAIN unreplied \cup {n}
           /\ \A k \in DOMAIN unreplied : /\ k < n /\ unreplied'[k] = unreplied[k]
                                          /\ Topic(k)' = Topic(k) /\ Starts(k)' = Starts(k)
           /\ unreplied'[n] = cmd /\ Topic(n)' = ChannelOf[cmd[2]]
           /\ Starts(n)' = (cmd[1] = "subscribe")
<1>1. /\ Len(unreplied) \in Nat
      /\ DOMAIN unreplied = 1..Len(unreplied) /\ DOMAIN unreplied' = 1..(Len(unreplied) + 1)
      /\ \A k \in 1..Len(unreplied) : unreplied'[k] = unreplied[k]
      /\ unreplied'[Len(unreplied) + 1] = cmd
  BY Appended DEF ManagerOK
<1>2. \A k \in DOMAIN unreplied : k < n /\ unreplied'[k] = unreplied[k]
  BY <1>1
<1>3. n \in Nat /\ n \notin DOMAIN unreplied /\ DOMAIN unreplied' = DOMAIN unreplied \cup {n}
  BY <1>1
<1>4. unreplied'[n] = cmd
  BY <1>1
<1>5. DOMAIN unreplied \subseteq Nat
  BY <1>1
<1> QED
  BY <1>2, <1>3, <1>4, <1>5 DEF Topic, Starts

\* The first command is replied to.
LEMMA QueueTaken ==
    ASSUME ManagerOK, unreplied # <<>>, unreplied' = Tail(unreplied)
    PROVE  /\ DOMAIN unreplied \subseteq Nat /\ DOMAIN unreplied' \subseteq Nat
           /\ 1 \in DOMAIN unreplied /\ unreplied[1] = Head(unreplied)
           /\ \A k \in DOMAIN unreplied : k >= 1
           /\ \A k \in DOMAIN unreplied' : k >= 1
           /\ \A k \in DOMAIN unreplied' :
                 /\ k + 1 \in DOMAIN unreplied /\ unreplied'[k] = unreplied[k + 1]
                 /\ Topic(k)' = Topic(k + 1) /\ Starts(k)' = Starts(k + 1)
           /\ \A k \in DOMAIN unreplied : k # 1 =>
                 /\ k - 1 \in DOMAIN unreplied' /\ unreplied'[k - 1] = unreplied[k]
                 /\ Topic(k - 1)' = Topic(k) /\ Starts(k - 1)' = Starts(k)
<1>1. /\ Len(unreplied) \in Nat /\ Len(unreplied) >= 1
      /\ DOMAIN unreplied = 1..Len(unreplied) /\ DOMAIN unreplied' = 1..(Len(unreplied) - 1)
      /\ \A k \in 1..(Len(unreplied) - 1) : unreplied'[k] = unreplied[k + 1]
      /\ Head(unreplied) = unreplied[1]
  BY Taken DEF ManagerOK
<1>2. ASSUME NEW k \in DOMAIN unreplied'
      PROVE  k + 1 \in DOMAIN unreplied /\ unreplied'[k] = unreplied[k + 1]
  BY <1>1
<1>3. ASSUME NEW k \in DOMAIN unreplied, k # 1
      PROVE  k - 1 \in DOMAIN unreplied' /\ unreplied'[k - 1] = unreplied[k]
  <2>1. k - 1 \in 1..(Len(unreplied) - 1) /\ (k - 1) + 1 = k
    BY <1>1, <1>3
  <2> QED
    BY <1>1, <2>1
<1>4. /\ DOMAIN unreplied \subseteq Nat /\ DOMAIN unreplied' \subseteq Nat
      /\ 1 \in DOMAIN unreplied
      /\ \A k \in DOMAIN unreplied : k >= 1
      /\ \A k \in DOMAIN unreplied' : k >= 1
  BY <1>1
<1> QED
  BY <1>1, <1>2, <1>3, <1>4 DEF Topic, Starts

\* A command is of an iterator, and one of the two.
LEMMA QueueType ==
    ASSUME ManagerOK, NEW k \in DOMAIN unreplied
    PROVE  /\ unreplied[k][2] \in Iterators
           /\ Topic(k) \in Channels
           /\ Starts(k) => unreplied[k] = Subscribe(unreplied[k][2])
           /\ ~Starts(k) => unreplied[k] = Unsubscribe(unreplied[k][2])
<1>1. unreplied[k] \in Commands
  BY DEF ManagerOK
<1>2. "subscribe" # "unsubscribe"
  OBVIOUS
<1> QED
  BY <1>1, <1>2, CommandParts, SubscriptionsAssumption DEF Topic, Starts

------------------------------------------------------------------------------
(***************************************************************************)
(* Records                                                                 *)
(***************************************************************************)

\* A record is of its channel, and is named by an iterator that has been made; so are
\* the listeners of the channel, and all commands.
RecordsAreMade ==
    /\ \A c \in Channels : record[c] # None => ChannelOf[record[c]] = c /\ iter[record[c]] # "none"
    /\ \A c \in Channels : \A i \in listeners[c] : ChannelOf[i] = c
    /\ \A i \in Iterators : iter[i] = "none" => pending[i] = "none"
    /\ \A k \in DOMAIN unreplied : iter[unreplied[k][2]] # "none"

\* A record is named by the iterator that creates it.
LEMMA IterateMakes ==
    ASSUME Wired, RecordsAreMade, NEW i \in Iterators, NEW ensures \in BOOLEAN, Iterate(i, ensures)
    PROVE  RecordsAreMade'
<1> DEFINE c == ChannelOf[i]
           heard == IF ensures THEN watched \cup {RecordFor(i)} ELSE watched
<1> USE DEF Wired
<1>1. c \in Channels /\ RecordFor(i) \in Iterators /\ ChannelOf[RecordFor(i)] = c
  BY SubscriptionsAssumption DEF RecordFor, ManagerOK, RecordsAreMade
<1>2. /\ iter' = [iter EXCEPT ![i] = "active"]
      /\ record' = [record EXCEPT ![c] = RecordFor(i)]
      /\ listeners' = [listeners EXCEPT ![c] = @ \cup {i}]
      /\ iter[i] = "none"
  BY DEF Iterate
<1>3. \A j \in Iterators : iter'[j] = "none" => iter[j] = "none" /\ j # i
  BY <1>2 DEF ManagerOK
<1>4. iter'[RecordFor(i)] # "none"
  <2>1. CASE RecordFor(i) = i
    BY <1>2, <2>1 DEF ManagerOK
  <2>2. CASE RecordFor(i) # i
    <3>1. record[c] # None /\ RecordFor(i) = record[c]
      BY <2>2 DEF RecordFor
    <3> QED
      BY <1>1, <1>3, <3>1 DEF RecordsAreMade, ManagerOK
  <2> QED
    BY <2>1, <2>2
<1>5. \A d \in Channels : record'[d] # None => ChannelOf[record'[d]] = d /\ iter'[record'[d]] # "none"
  BY <1>1, <1>2, <1>3, <1>4 DEF RecordsAreMade, ManagerOK
<1>6. \A d \in Channels : \A j \in listeners'[d] : ChannelOf[j] = d
  BY <1>1, <1>2 DEF RecordsAreMade, ManagerOK
<1>7. CASE listeners[c] = {}
  <2>1. Issues(Subscribe(RecordFor(i)), heard)
    BY <1>7 DEF Iterate
  <2>2. heard \in SUBSET Iterators /\ Subscribe(RecordFor(i)) \in Commands
        /\ Subscribe(RecordFor(i))[2] = RecordFor(i)
    BY <1>1, CommandParts DEF ManagerOK
  <2>3. /\ \A r \in Iterators : r # RecordFor(i) => pending'[r] = pending[r]
        /\ conn # "closed" => unreplied' = Append(unreplied, Subscribe(RecordFor(i)))
        /\ conn = "closed" => UNCHANGED unreplied
    BY <2>1, <2>2, IssuesEffect
  <2>4. \A j \in Iterators : iter'[j] = "none" => pending'[j] = "none"
    BY <1>3, <1>4, <2>3 DEF RecordsAreMade
  <2>5. \A k \in DOMAIN unreplied : iter'[unreplied[k][2]] # "none"
    BY <1>3, QueueType DEF RecordsAreMade
  <2>6. \A k \in DOMAIN unreplied' : iter'[unreplied'[k][2]] # "none"
    <3>1. CASE conn = "closed"
      BY <2>3, <2>5, <3>1
    <3>2. CASE conn # "closed"
      <4>1. PICK n : n = Len(unreplied) + 1
        OBVIOUS
      <4>2. /\ DOMAIN unreplied' = DOMAIN unreplied \cup {n}
            /\ \A k \in DOMAIN unreplied : unreplied'[k] = unreplied[k]
            /\ unreplied'[n] = Subscribe(RecordFor(i))
        BY <2>2, <2>3, <3>2, <4>1, QueueAppended
      <4> QED
        BY <1>4, <2>2, <2>5, <4>2
    <3> QED
      BY <3>1, <3>2
  <2> QED
    BY <1>5, <1>6, <2>4, <2>6 DEF RecordsAreMade
<1>8. CASE listeners[c] # {}
  <2>1. UNCHANGED <<pending, unreplied>>
    BY <1>8 DEF Iterate
  <2>2. \A k \in DOMAIN unreplied : iter'[unreplied[k][2]] # "none"
    BY <1>3, QueueType DEF RecordsAreMade
  <2> QED
    BY <1>3, <1>5, <1>6, <2>1, <2>2 DEF RecordsAreMade
<1> QED
  BY <1>7, <1>8

\* A record that is left names the command that ends it.
LEMMA OffMakes ==
    ASSUME Wired, RecordsAreMade, NEW i \in Iterators, Off(i)
    PROVE  RecordsAreMade'
<1> DEFINE c == ChannelOf[i]
           left == listeners[c] \ {i}
<1> USE DEF Wired
<1>1. c \in Channels
  BY SubscriptionsAssumption
<1>2. /\ iter' = [iter EXCEPT ![i] = "destroyed"]
      /\ listeners' = [listeners EXCEPT ![c] = left]
      /\ iter[i] # "none"
  BY DEF Off
<1>3. \A j \in Iterators : iter'[j] = "none" <=> iter[j] = "none"
  BY <1>2 DEF ManagerOK
<1>4. \A d \in Channels : \A j \in listeners'[d] : ChannelOf[j] = d
  BY <1>1, <1>2 DEF RecordsAreMade, ManagerOK
<1>5. CASE record[c] # None /\ left = {}
  <2>1. record' = [record EXCEPT ![c] = None] /\ Issues(Unsubscribe(record[c]), watched)
    BY <1>5 DEF Off
  <2>2. /\ watched \in SUBSET Iterators /\ Unsubscribe(record[c]) \in Commands
        /\ record[c] \in Iterators /\ Unsubscribe(record[c])[2] = record[c]
    BY <1>1, <1>5, CommandParts DEF ManagerOK
  <2>3. iter'[record[c]] # "none"
    BY <1>1, <1>3, <1>5, <2>2 DEF RecordsAreMade
  <2>4. /\ \A r \in Iterators : r # record[c] => pending'[r] = pending[r]
        /\ conn # "closed" => unreplied' = Append(unreplied, Unsubscribe(record[c]))
        /\ conn = "closed" => UNCHANGED unreplied
    BY <2>1, <2>2, IssuesEffect
  <2>5. \A j \in Iterators : iter'[j] = "none" => pending'[j] = "none"
    BY <1>3, <2>3, <2>4 DEF RecordsAreMade
  <2>6. \A d \in Channels : record'[d] # None => ChannelOf[record'[d]] = d /\ iter'[record'[d]] # "none"
    BY <1>1, <1>3, <2>1 DEF RecordsAreMade, ManagerOK
  <2>7. \A k \in DOMAIN unreplied : iter'[unreplied[k][2]] # "none"
    BY <1>3, QueueType DEF RecordsAreMade
  <2>8. \A k \in DOMAIN unreplied' : iter'[unreplied'[k][2]] # "none"
    <3>1. CASE conn = "closed"
      BY <2>4, <2>7, <3>1
    <3>2. CASE conn # "closed"
      <4>1. PICK n : n = Len(unreplied) + 1
        OBVIOUS
      <4>2. /\ DOMAIN unreplied' = DOMAIN unreplied \cup {n}
            /\ \A k \in DOMAIN unreplied : unreplied'[k] = unreplied[k]
            /\ unreplied'[n] = Unsubscribe(record[c])
        BY <2>2, <2>4, <3>2, <4>1, QueueAppended
      <4> QED
        BY <2>2, <2>3, <2>7, <4>2
    <3> QED
      BY <3>1, <3>2
  <2> QED
    BY <1>4, <2>5, <2>6, <2>8 DEF RecordsAreMade
<1>6. CASE ~(record[c] # None /\ left = {})
  <2>1. UNCHANGED <<record, pending, unreplied>>
    BY <1>6 DEF Off, deferVars
  <2>2. \A k \in DOMAIN unreplied : iter'[unreplied[k][2]] # "none"
    BY <1>3, QueueType DEF RecordsAreMade
  <2>3. \A d \in Channels : record[d] # None => iter'[record[d]] # "none"
    BY <1>3 DEF RecordsAreMade, ManagerOK
  <2> QED
    BY <1>3, <1>4, <2>1, <2>2, <2>3 DEF RecordsAreMade
<1> QED
  BY <1>5, <1>6

\* What is rejected was a command of an iterator that had been made.
LEMMA RejectionMakes ==
    ASSUME Wired, RecordsAreMade, ConnectionClosed \/ GiveUp
    PROVE  RecordsAreMade'
<1>1. /\ unreplied' = <<>> /\ UNCHANGED <<iter, record, listeners>>
      /\ Rejects(ToSet(unreplied), watched)
  BY DEF ConnectionClosed, GiveUp, managerVars
<1>2. \A r \in Iterators :
         pending'[r] = IF Subscribe(r) \in ToSet(unreplied) /\ pending[r] \in {"none", "pending"}
                       THEN "rejected" ELSE pending[r]
  <2>1. ManagerOK /\ watched \in SUBSET Iterators
    BY DEF Wired, ManagerOK
  <2> QED
    BY <1>1, <2>1, RejectsEffect
<1>3. \A r \in Iterators : iter[r] = "none" => Subscribe(r) \notin ToSet(unreplied)
  BY CommandParts DEF ToSet, RecordsAreMade
<1>4. \A r \in Iterators : iter'[r] = "none" => pending'[r] = "none"
  BY <1>1, <1>2, <1>3 DEF RecordsAreMade
<1>5. \A k \in DOMAIN unreplied' : iter'[unreplied'[k][2]] # "none"
  BY <1>1
<1> QED
  BY <1>1, <1>4, <1>5 DEF RecordsAreMade

\* A reply is to a command of an iterator that had been made.
LEMMA ReadMakes ==
    ASSUME Wired, RecordsAreMade, Read
    PROVE  RecordsAreMade'
<1> USE DEF Wired
<1>1. UNCHANGED <<iter, record, listeners>>
  BY ReadIs DEF managerVars
<1>2. ASSUME NEW c \in Channels, NEW n \in 1..MaxPublished, Emit(c, n)
      PROVE  RecordsAreMade'
  BY <1>1, <1>2 DEF Emit, RecordsAreMade
<1>3. CASE Head(wire) = Reply /\ Replied
  <2>1. PICK r \in Iterators :
           /\ unreplied' = Tail(unreplied) /\ unreplied # <<>>
           /\ \/ Head(unreplied) = Subscribe(r) /\ Subscribed(r)
              \/ Head(unreplied) = Unsubscribe(r) /\ Unsubscribed(r)
    BY <1>3, ReadIs, RepliedIs
  <2>2. /\ 1 \in DOMAIN unreplied /\ unreplied[1] = Head(unreplied)
        /\ \A k \in DOMAIN unreplied' : k + 1 \in DOMAIN unreplied /\ unreplied'[k] = unreplied[k + 1]
    BY <2>1, QueueTaken
  <2>3. Head(unreplied)[2] = r
    BY <2>1, CommandParts
  <2>4. iter[r] # "none"
    BY <2>2, <2>3 DEF RecordsAreMade
  <2>5. \A j \in Iterators : j # r => pending'[j] = pending[j]
    BY <2>1 DEF Subscribed, Unsubscribed, ManagerOK
  <2>6. \A k \in DOMAIN unreplied' : iter[unreplied'[k][2]] # "none"
    BY <2>2 DEF RecordsAreMade
  <2> QED
    BY <1>1, <2>4, <2>5, <2>6 DEF RecordsAreMade
<1> QED
  BY <1>2, <1>3, ReadIs

\* No step names a record by an iterator that was not made.
LEMMA RecordsKept ==
    ASSUME Wired, RecordsAreMade, [Next]_vars
    PROVE  RecordsAreMade'
<1>1. ASSUME \/ \E c \in Channels : Ensure(c) \/ \E bad \in Throwing : Publish(c, bad)
             \/ Dispose \/ Execute \/ Break \/ Reconnect \/ HandOn \/ UNCHANGED vars
      PROVE  RecordsAreMade'
  <2>1. UNCHANGED <<iter, record, listeners, pending, unreplied>>
    BY <1>1 DEF Ensure, Publish, Dispose, Execute, Break, Reconnect, HandOn, vars, managerVars,
                deferVars, wireVars
  <2> QED
    BY <2>1 DEF RecordsAreMade
<1>2. CASE DisposeLists
  <2>1. UNCHANGED <<iter, record, pending, unreplied>>
    BY <1>2 DEF DisposeLists, deferVars, wireVars
  <2>2. \A c \in Channels : listeners'[c] \subseteq listeners[c]
    BY <1>2 DEF DisposeLists, Wired, ManagerOK
  <2> QED
    BY <2>1, <2>2 DEF RecordsAreMade
<1> QED
  BY <1>1, <1>2, IterateMakes, OffMakes, RejectionMakes, ReadMakes DEF Next

------------------------------------------------------------------------------
(***************************************************************************)
(* What the manager believes                                               *)
(***************************************************************************)

\* The manager works: what it issues is sent, now or when the connection is back.
Live == alive /\ conn \in {"online", "offline"}

\* A channel has a record while it has listeners.
HeardWhileKept == \A c \in Channels : record[c] = None <=> listeners[c] = {}

\* The deferred of a SUBSCRIBE without a reply is not settled.
PendingWhileSent == \A k \in DOMAIN unreplied : Starts(k) => pending[unreplied[k][2]] = "pending"

\* A record subscribes once.
StartedOnce ==
    \A j, k \in DOMAIN unreplied : j < k /\ Starts(j) => unreplied[j] # unreplied[k]

\* Between two SUBSCRIBEs of a channel is an UNSUBSCRIBE of it.
Alternate ==
    \A j, k \in DOMAIN unreplied :
        j < k /\ Starts(j) /\ Starts(k) /\ Topic(j) = Topic(k)
            => \E m \in DOMAIN unreplied : j < m /\ m < k /\ Topic(m) = Topic(k) /\ ~Starts(m)

\* There is one, too, between a subscription the client knows of and the next SUBSCRIBE.
Follows ==
    \A k \in DOMAIN unreplied :
        Starts(k) /\ Topic(k) \in acked
            => \E m \in DOMAIN unreplied : m < k /\ Topic(m) = Topic(k) /\ ~Starts(m)

\* The last command of a channel is what its record asks for; where there is none the
\* client has been told what the record says.
Unwanted(c) ==
    \/ Quiet(c) /\ c \notin acked
    \/ \E k \in DOMAIN unreplied : IsLast(c, k) /\ ~Starts(k)
Wanted(c) ==
    \/ /\ pending[record[c]] = "pending"
       /\ \E k \in DOMAIN unreplied : IsLast(c, k) /\ unreplied[k] = Subscribe(record[c])
    \/ pending[record[c]] = "resolved" /\ Quiet(c) /\ c \in acked
    \/ pending[record[c]] = "rejected" /\ Quiet(c) /\ c \notin acked
Believed == \A c \in Channels : IF record[c] = None THEN Unwanted(c) ELSE Wanted(c)

Belief ==
    /\ HeardWhileKept
    /\ PendingWhileSent
    /\ StartedOnce
    /\ Alternate
    /\ Follows
    /\ Believed

\* What holds of every state, whether the manager works or not.
Based == Wired /\ RecordsAreMade

\* on() by the first iterator of a channel.
LEMMA SubscribeBelieves ==
    ASSUME Based, Live, Belief, NEW i \in Iterators, NEW ensures \in BOOLEAN, Iterate(i, ensures),
           listeners[ChannelOf[i]] = {}
    PROVE  Belief'
<1> USE DEF Based, Wired
<1> DEFINE c == ChannelOf[i]
           heard == IF ensures THEN watched \cup {RecordFor(i)} ELSE watched
<1>1. c \in Channels /\ record[c] = None /\ RecordFor(i) = i
  BY SubscriptionsAssumption DEF RecordFor, Belief, HeardWhileKept
<1>2. /\ record' = [record EXCEPT ![c] = i]
      /\ listeners' = [listeners EXCEPT ![c] = @ \cup {i}]
      /\ iter[i] = "none" /\ pending[i] = "none"
      /\ UNCHANGED acked
      /\ Issues(Subscribe(i), heard)
  BY <1>1 DEF Iterate, RecordsAreMade
<1>3. /\ heard \in SUBSET Iterators /\ Subscribe(i) \in Commands
      /\ Subscribe(i)[2] = i /\ Subscribe(i)[1] = "subscribe"
  BY <1>1, CommandParts DEF ManagerOK
<1>4. conn # "closed"
  BY DEF Live
<1>5. /\ unreplied' = Append(unreplied, Subscribe(i))
      /\ pending'[i] = "pending"
      /\ \A r \in Iterators : r # i => pending'[r] = pending[r]
  BY <1>2, <1>3, <1>4, IssuesEffect
<1>6. PICK n : n = Len(unreplied) + 1
  OBVIOUS
<1>7. /\ n \in Nat /\ n \notin DOMAIN unreplied
      /\ DOMAIN unreplied \subseteq Nat
      /\ DOMAIN unreplied' = DOMAIN unreplied \cup {n}
      /\ \A k \in DOMAIN unreplied : /\ k < n /\ unreplied'[k] = unreplied[k]
                                     /\ Topic(k)' = Topic(k) /\ Starts(k)' = Starts(k)
      /\ unreplied'[n] = Subscribe(i) /\ Topic(n)' = c
      /\ Starts(n)'
  <2>1. Subscribe(i) \in Commands /\ unreplied' = Append(unreplied, Subscribe(i))
    BY <1>3, <1>5
  <2> HIDE DEF c
  <2>2. /\ n \in Nat /\ n \notin DOMAIN unreplied
        /\ DOMAIN unreplied \subseteq Nat
        /\ DOMAIN unreplied' = DOMAIN unreplied \cup {n}
        /\ \A k \in DOMAIN unreplied : /\ k < n /\ unreplied'[k] = unreplied[k]
                                       /\ Topic(k)' = Topic(k) /\ Starts(k)' = Starts(k)
        /\ unreplied'[n] = Subscribe(i) /\ Topic(n)' = ChannelOf[Subscribe(i)[2]]
        /\ Starts(n)' = (Subscribe(i)[1] = "subscribe")
    BY <1>6, <2>1, QueueAppended, Zenon
  <2> QED
    BY <1>3, <2>2 DEF c
<1>8. \A k \in DOMAIN unreplied : unreplied[k][2] \in Iterators /\ unreplied[k][2] # i
  BY <1>2, QueueType DEF RecordsAreMade
<1>9. /\ record'[c] = i /\ listeners'[c] # {}
      /\ \A d \in Channels : d # c => record'[d] = record[d] /\ listeners'[d] = listeners[d]
      /\ \A d \in Channels : record[d] # None => record[d] # i /\ record[d] \in Iterators
  <2>1. c \in Channels /\ record \in [Channels -> Iterators \cup {None}]
        /\ listeners \in [Channels -> SUBSET Iterators]
    BY <1>1, SubscriptionsAssumption DEF ManagerOK
  <2>2. record' = [record EXCEPT ![c] = i] /\ listeners' = [listeners EXCEPT ![c] = @ \cup {i}]
    BY <1>1, <1>2
  <2> HIDE DEF c
  <2>3. record'[c] = i /\ listeners'[c] = listeners[c] \cup {i}
    BY <2>1, <2>2
  <2>4. \A d \in Channels : d # c => record'[d] = record[d] /\ listeners'[d] = listeners[d]
    BY <2>1, <2>2
  <2>5. \A d \in Channels : record[d] # None => record[d] # i /\ record[d] \in Iterators
    BY <1>2, <2>1 DEF RecordsAreMade
  <2> QED
    BY <2>3, <2>4, <2>5
<1>10. HeardWhileKept'
  BY <1>9, SubscriptionsAssumption DEF Belief, HeardWhileKept
<1>11. PendingWhileSent'
  BY <1>3, <1>5, <1>7, <1>8 DEF Belief, PendingWhileSent
<1>12. \A j, k \in DOMAIN unreplied' : j < k => j \in DOMAIN unreplied
  BY <1>7
<1>13. StartedOnce'
  BY <1>3, <1>7, <1>8, <1>12 DEF Belief, StartedOnce
<1>14. Unwanted(c)
  BY <1>1 DEF Belief, Believed
<1>15. \A j \in DOMAIN unreplied : Starts(j) /\ Topic(j) = c =>
          \E m \in DOMAIN unreplied : j < m /\ Topic(m) = c /\ ~Starts(m)
  <2> SUFFICES ASSUME NEW j \in DOMAIN unreplied, Starts(j), Topic(j) = c
               PROVE  \E m \in DOMAIN unreplied : j < m /\ Topic(m) = c /\ ~Starts(m)
    OBVIOUS
  <2>1. PICK m \in DOMAIN unreplied : IsLast(c, m) /\ ~Starts(m)
    BY <1>14 DEF Unwanted, Quiet
  <2>2. j # m /\ ~(m < j)
    BY <2>1 DEF IsLast
  <2>3. j < m
    BY <1>7, <2>2
  <2> QED
    BY <2>1, <2>3 DEF IsLast
<1>16. Alternate'
  <2> SUFFICES ASSUME NEW j \in DOMAIN unreplied', NEW k \in DOMAIN unreplied',
                      j < k, Starts(j)', Starts(k)', Topic(j)' = Topic(k)'
               PROVE  \E m \in DOMAIN unreplied' : j < m /\ m < k /\ Topic(m)' = Topic(k)' /\ ~Starts(m)'
    BY DEF Alternate
  <2>1. j \in DOMAIN unreplied
    BY <1>12
  <2>2. CASE k \in DOMAIN unreplied
    <3>1. \E m \in DOMAIN unreplied : j < m /\ m < k /\ Topic(m) = Topic(k) /\ ~Starts(m)
      BY <1>7, <2>1, <2>2 DEF Belief, Alternate
    <3> QED
      BY <1>7, <2>2, <3>1
  <2>3. CASE k \notin DOMAIN unreplied
    <3>1. k = n
      BY <1>7, <2>3
    <3>2. \E m \in DOMAIN unreplied : j < m /\ Topic(m) = c /\ ~Starts(m)
      BY <1>7, <1>15, <2>1, <3>1
    <3> QED
      BY <1>7, <3>1, <3>2
  <2> QED
    BY <2>2, <2>3
<1>17. Follows'
  <2> SUFFICES ASSUME NEW k \in DOMAIN unreplied', Starts(k)', Topic(k)' \in acked
               PROVE  \E m \in DOMAIN unreplied' : m < k /\ Topic(m)' = Topic(k)' /\ ~Starts(m)'
    BY <1>2 DEF Follows
  <2>1. CASE k \in DOMAIN unreplied
    <3>1. \E m \in DOMAIN unreplied : m < k /\ Topic(m) = Topic(k) /\ ~Starts(m)
      BY <1>7, <2>1 DEF Belief, Follows
    <3> QED
      BY <1>7, <2>1, <3>1
  <2>2. CASE k \notin DOMAIN unreplied
    <3>1. k = n /\ c \in acked
      BY <1>7, <2>2
    <3>2. \E m \in DOMAIN unreplied : IsLast(c, m) /\ ~Starts(m)
      BY <1>14, <3>1 DEF Unwanted
    <3> QED
      BY <1>7, <3>1, <3>2 DEF IsLast
  <2> QED
    BY <2>1, <2>2
<1>18. \A d \in Channels : d # c => (Quiet(d)' <=> Quiet(d))
  BY <1>7 DEF Quiet
<1>19. \A d \in Channels, k \in DOMAIN unreplied : d # c /\ IsLast(d, k) => IsLast(d, k)'
  BY <1>7 DEF IsLast
<1>20. Believed'
  <2>1. Wanted(c)'
    <3>1. IsLast(c, n)'
      BY <1>7 DEF IsLast
    <3> QED
      BY <1>5, <1>7, <1>9, <3>1 DEF Wanted
  <2>2. ASSUME NEW d \in Channels, d # c, record[d] = None
        PROVE  Unwanted(d)'
    <3>1. Unwanted(d)
      BY <2>2 DEF Belief, Believed
    <3> QED
      BY <1>2, <1>7, <1>18, <1>19, <2>2, <3>1 DEF Unwanted
  <2>3. ASSUME NEW d \in Channels, d # c, record[d] # None
        PROVE  Wanted(d)'
    <3>1. Wanted(d)
      BY <2>3 DEF Belief, Believed
    <3>2. record'[d] = record[d] /\ pending'[record[d]] = pending[record[d]]
      BY <1>5, <1>9, <2>3
    <3> QED
      BY <1>2, <1>7, <1>18, <1>19, <2>3, <3>1, <3>2 DEF Wanted
  <2>4. record'[c] # None
    BY <1>9, SubscriptionsAssumption
  <2> QED
    BY <1>9, <2>1, <2>2, <2>3, <2>4 DEF Believed
<1> QED
  BY <1>10, <1>11, <1>13, <1>16, <1>17, <1>20 DEF Belief

\* off() by the last iterator of a channel.
LEMMA UnsubscribeBelieves ==
    ASSUME Based, Live, Belief, NEW i \in Iterators, Off(i),
           record[ChannelOf[i]] # None, listeners[ChannelOf[i]] \ {i} = {}
    PROVE  Belief'
<1> USE DEF Based, Wired
<1> DEFINE c == ChannelOf[i]
           q == record[c]
<1>1. c \in Channels /\ q \in Iterators /\ ChannelOf[q] = c
  BY SubscriptionsAssumption DEF ManagerOK, RecordsAreMade
<1>2. /\ record' = [record EXCEPT ![c] = None]
      /\ listeners' = [listeners EXCEPT ![c] = {}]
      /\ UNCHANGED acked
      /\ Issues(Unsubscribe(q), watched)
  BY DEF Off
<1>3. /\ watched \in SUBSET Iterators /\ Unsubscribe(q) \in Commands
      /\ Unsubscribe(q)[2] = q /\ Unsubscribe(q)[1] = "unsubscribe"
  BY <1>1, CommandParts DEF ManagerOK
<1>4. conn # "closed" /\ Wanted(c)
  BY <1>1 DEF Live, Belief, Believed
<1>5. /\ unreplied' = Append(unreplied, Unsubscribe(q))
      /\ \A r \in Iterators : pending'[r] = pending[r]
  <2>1. pending[q] # "none"
    BY <1>4 DEF Wanted
  <2> HIDE DEF q
  <2> QED
    BY <1>1, <1>2, <1>3, <1>4, <2>1, IssuesEffect
<1>6. PICK n : n = Len(unreplied) + 1
  OBVIOUS
<1>7. /\ n \in Nat /\ n \notin DOMAIN unreplied
      /\ DOMAIN unreplied \subseteq Nat
      /\ DOMAIN unreplied' = DOMAIN unreplied \cup {n}
      /\ \A k \in DOMAIN unreplied : /\ k < n /\ unreplied'[k] = unreplied[k]
                                     /\ Topic(k)' = Topic(k) /\ Starts(k)' = Starts(k)
      /\ Topic(n)' = c /\ ~Starts(n)'
  <2>1. PICK x : x = q
    OBVIOUS
  <2>2. Unsubscribe(x) \in Commands /\ unreplied' = Append(unreplied, Unsubscribe(x))
    BY <1>3, <1>5, <2>1
  <2>3. /\ n \in Nat /\ n \notin DOMAIN unreplied
        /\ DOMAIN unreplied \subseteq Nat
        /\ DOMAIN unreplied' = DOMAIN unreplied \cup {n}
        /\ \A k \in DOMAIN unreplied : /\ k < n /\ unreplied'[k] = unreplied[k]
                                       /\ Topic(k)' = Topic(k) /\ Starts(k)' = Starts(k)
        /\ Topic(n)' = ChannelOf[Unsubscribe(x)[2]]
        /\ Starts(n)' = (Unsubscribe(x)[1] = "subscribe")
    BY <1>6, <2>2, QueueAppended, Zenon
  <2>4. Unsubscribe(x)[2] = x /\ Unsubscribe(x)[1] = "unsubscribe" /\ ChannelOf[x] = c
    BY <1>1, <1>3, <2>1
  <2> HIDE DEF c
  <2> QED
    BY <2>3, <2>4
<1>8. /\ record'[c] = None /\ listeners'[c] = {}
      /\ \A d \in Channels : d # c => record'[d] = record[d] /\ listeners'[d] = listeners[d]
  BY <1>1, <1>2 DEF ManagerOK
<1>9. HeardWhileKept'
  BY <1>8 DEF Belief, HeardWhileKept
<1>10. PendingWhileSent'
  BY <1>5, <1>7, QueueType DEF Belief, PendingWhileSent
<1>11. \A j, k \in DOMAIN unreplied' : j < k => j \in DOMAIN unreplied
  BY <1>7
<1>12. StartedOnce'
  <2> SUFFICES ASSUME NEW j \in DOMAIN unreplied', NEW k \in DOMAIN unreplied', j < k, Starts(j)'
               PROVE  unreplied'[j] # unreplied'[k]
    BY DEF StartedOnce
  <2>1. CASE k = n
    BY <1>7, <1>11, <2>1 DEF Starts
  <2>2. CASE k # n
    BY <1>7, <1>11, <2>2 DEF Belief, StartedOnce
  <2> QED
    BY <2>1, <2>2
<1>13. Alternate'
  <2> SUFFICES ASSUME NEW j \in DOMAIN unreplied', NEW k \in DOMAIN unreplied',
                      j < k, Starts(j)', Starts(k)', Topic(j)' = Topic(k)'
               PROVE  \E m \in DOMAIN unreplied' : j < m /\ m < k /\ Topic(m)' = Topic(k)' /\ ~Starts(m)'
    BY DEF Alternate
  <2>1. j \in DOMAIN unreplied /\ k \in DOMAIN unreplied
    BY <1>7, <1>11
  <2>2. \E m \in DOMAIN unreplied : j < m /\ m < k /\ Topic(m) = Topic(k) /\ ~Starts(m)
    BY <1>7, <2>1 DEF Belief, Alternate
  <2> QED
    BY <1>7, <2>1, <2>2
<1>14. Follows'
  <2> SUFFICES ASSUME NEW k \in DOMAIN unreplied', Starts(k)', Topic(k)' \in acked
               PROVE  \E m \in DOMAIN unreplied' : m < k /\ Topic(m)' = Topic(k)' /\ ~Starts(m)'
    BY <1>2 DEF Follows
  <2>1. k \in DOMAIN unreplied
    BY <1>7
  <2>2. \E m \in DOMAIN unreplied : m < k /\ Topic(m) = Topic(k) /\ ~Starts(m)
    BY <1>7, <2>1 DEF Belief, Follows
  <2> QED
    BY <1>7, <2>1, <2>2
<1>15. \A d \in Channels : d # c => (Quiet(d)' <=> Quiet(d))
  BY <1>7 DEF Quiet
<1>16. \A d \in Channels, k \in DOMAIN unreplied : d # c /\ IsLast(d, k) => IsLast(d, k)'
  BY <1>7 DEF IsLast
<1>17. Believed'
  <2>1. Unwanted(c)'
    BY <1>7 DEF Unwanted, IsLast
  <2>2. ASSUME NEW d \in Channels, d # c, record[d] = None
        PROVE  Unwanted(d)'
    <3>1. Unwanted(d)
      BY <2>2 DEF Belief, Believed
    <3> QED
      BY <1>2, <1>7, <1>15, <1>16, <2>2, <3>1 DEF Unwanted
  <2>3. ASSUME NEW d \in Channels, d # c, record[d] # None
        PROVE  Wanted(d)'
    <3>1. Wanted(d)
      BY <2>3 DEF Belief, Believed
    <3>2. record'[d] = record[d] /\ pending'[record[d]] = pending[record[d]]
      BY <1>5, <1>8, <2>3 DEF ManagerOK
    <3> QED
      BY <1>2, <1>7, <1>15, <1>16, <2>3, <3>1, <3>2 DEF Wanted
  <2> QED
    BY <1>8, <2>1, <2>2, <2>3 DEF Believed
<1> QED
  BY <1>9, <1>10, <1>12, <1>13, <1>14, <1>17 DEF Belief

\* A listener comes to others, or leaves others behind.
LEMMA OthersBelieve ==
    ASSUME Based, Live, Belief, NEW i \in Iterators,
           \/ /\ \E ensures \in BOOLEAN : Iterate(i, ensures)
              /\ listeners[ChannelOf[i]] # {}
           \/ /\ Off(i)
              /\ ~(record[ChannelOf[i]] # None /\ listeners[ChannelOf[i]] \ {i} = {})
    PROVE  Belief' /\ UNCHANGED <<record, pending, unreplied, acked>>
<1> USE DEF Based, Wired
<1> DEFINE c == ChannelOf[i]
<1>1. c \in Channels
  BY SubscriptionsAssumption
<1>2. /\ UNCHANGED <<record, pending, unreplied, acked>>
      /\ listeners' \in [Channels -> SUBSET Iterators]
      /\ \A d \in Channels : listeners'[d] = {} <=> listeners[d] = {}
  <2>1. ASSUME NEW ensures \in BOOLEAN, Iterate(i, ensures), listeners[c] # {}
        PROVE  /\ UNCHANGED <<record, pending, unreplied, acked>>
               /\ listeners' = [listeners EXCEPT ![c] = @ \cup {i}]
    <3>1. record[c] # None
      BY <1>1, <2>1 DEF Belief, HeardWhileKept
    <3>2. record' = record
      BY <1>1, <2>1, <3>1 DEF Iterate, RecordFor, ManagerOK
    <3> QED
      BY <2>1, <3>2 DEF Iterate
  <2>2. ASSUME Off(i), ~(record[c] # None /\ listeners[c] \ {i} = {})
        PROVE  /\ UNCHANGED <<record, pending, unreplied, acked>>
               /\ listeners' = [listeners EXCEPT ![c] = @ \ {i}]
               /\ listeners[c] \ {i} = {} => listeners[c] = {}
    <3>1. listeners[c] \ {i} = {} => listeners[c] = {}
      BY <1>1, <2>2 DEF Belief, HeardWhileKept
    <3> QED
      BY <2>2, <3>1 DEF Off, deferVars
  <2>3. CASE /\ \E ensures \in BOOLEAN : Iterate(i, ensures)
             /\ listeners[c] # {}
    <3>1. /\ UNCHANGED <<record, pending, unreplied, acked>>
          /\ listeners' = [listeners EXCEPT ![c] = @ \cup {i}]
      BY <2>1, <2>3
    <3> QED
      BY <1>1, <2>3, <3>1 DEF ManagerOK
  <2>4. CASE Off(i) /\ ~(record[c] # None /\ listeners[c] \ {i} = {})
    <3>1. /\ UNCHANGED <<record, pending, unreplied, acked>>
          /\ listeners' = [listeners EXCEPT ![c] = @ \ {i}]
          /\ listeners[c] \ {i} = {} => listeners[c] = {}
      BY <2>2, <2>4
    <3> QED
      BY <1>1, <3>1 DEF ManagerOK
  <2> QED
    BY <2>3, <2>4
<1>3. HeardWhileKept'
  BY <1>2 DEF Belief, HeardWhileKept
<1>4. /\ PendingWhileSent' /\ StartedOnce' /\ Alternate' /\ Follows' /\ Believed'
  BY <1>2 DEF Belief, PendingWhileSent, StartedOnce, Alternate, Follows, Believed, Starts, Topic,
              Wanted, Unwanted, Quiet, IsLast
<1> QED
  BY <1>2, <1>3, <1>4 DEF Belief

\* A command is replied to: the commands behind it move up.
LEMMA QueueBelieves ==
    ASSUME Based, Belief, unreplied # <<>>, unreplied' = Tail(unreplied)
    PROVE  StartedOnce' /\ Alternate'
<1>1. /\ DOMAIN unreplied \subseteq Nat /\ DOMAIN unreplied' \subseteq Nat
      /\ \A k \in DOMAIN unreplied' :
            /\ k + 1 \in DOMAIN unreplied /\ unreplied'[k] = unreplied[k + 1]
            /\ Topic(k)' = Topic(k + 1) /\ Starts(k)' = Starts(k + 1)
      /\ \A k \in DOMAIN unreplied' : k >= 1
      /\ \A k \in DOMAIN unreplied : k # 1 =>
            /\ k - 1 \in DOMAIN unreplied' /\ unreplied'[k - 1] = unreplied[k]
            /\ Topic(k - 1)' = Topic(k) /\ Starts(k - 1)' = Starts(k)
  <2>1. ManagerOK
    BY DEF Based, Wired
  <2> QED
    BY <2>1, QueueTaken
<1>2. \A j, k \in DOMAIN unreplied' : j < k => j + 1 < k + 1
  BY <1>1
<1>3. StartedOnce'
  <2> SUFFICES ASSUME NEW j \in DOMAIN unreplied', NEW k \in DOMAIN unreplied', j < k, Starts(j)'
               PROVE  unreplied'[j] # unreplied'[k]
    BY DEF StartedOnce
  <2>1. PICK a \in DOMAIN unreplied, b \in DOMAIN unreplied :
           /\ a < b /\ Starts(a)
           /\ unreplied'[j] = unreplied[a] /\ unreplied'[k] = unreplied[b]
    BY <1>1, <1>2
  <2> QED
    BY <2>1 DEF Belief, StartedOnce
<1>4. Alternate'
  <2> SUFFICES ASSUME NEW j \in DOMAIN unreplied', NEW k \in DOMAIN unreplied',
                      j < k, Starts(j)', Starts(k)', Topic(j)' = Topic(k)'
               PROVE  \E m \in DOMAIN unreplied' : j < m /\ m < k /\ Topic(m)' = Topic(k)' /\ ~Starts(m)'
    BY DEF Alternate
  <2>1. /\ j + 1 \in DOMAIN unreplied /\ k + 1 \in DOMAIN unreplied
        /\ Starts(j + 1) /\ Starts(k + 1) /\ Topic(j + 1) = Topic(k + 1)
        /\ Topic(k)' = Topic(k + 1) /\ j + 1 < k + 1
    BY <1>1, <1>2
  <2>2. PICK m \in DOMAIN unreplied :
           j + 1 < m /\ m < k + 1 /\ Topic(m) = Topic(k + 1) /\ ~Starts(m)
    BY <2>1 DEF Belief, Alternate
  <2>3. m # 1 /\ j < m - 1 /\ m - 1 < k
    BY <1>1, <2>2
  <2> QED
    BY <1>1, <2>1, <2>2, <2>3
<1> QED
  BY <1>3, <1>4

\* The reply to a SUBSCRIBE.
LEMMA SubscribedBelieves ==
    ASSUME Based, Live, Belief, NEW r \in Iterators, unreplied # <<>>,
           unreplied' = Tail(unreplied), Head(unreplied) = Subscribe(r), Subscribed(r),
           UNCHANGED <<record, listeners>>
    PROVE  Belief'
<1> USE DEF Based, Wired
<1>1. /\ DOMAIN unreplied \subseteq Nat /\ DOMAIN unreplied' \subseteq Nat
      /\ 1 \in DOMAIN unreplied /\ unreplied[1] = Subscribe(r)
      /\ \A k \in DOMAIN unreplied : k >= 1
      /\ \A k \in DOMAIN unreplied' : k >= 1
      /\ \A k \in DOMAIN unreplied' :
            /\ k + 1 \in DOMAIN unreplied /\ unreplied'[k] = unreplied[k + 1]
            /\ Topic(k)' = Topic(k + 1) /\ Starts(k)' = Starts(k + 1)
      /\ \A k \in DOMAIN unreplied : k # 1 =>
            /\ k - 1 \in DOMAIN unreplied' /\ unreplied'[k - 1] = unreplied[k]
            /\ Topic(k - 1)' = Topic(k) /\ Starts(k - 1)' = Starts(k)
  BY QueueTaken
<1>2. PICK c \in Channels : c = ChannelOf[r]
  BY SubscriptionsAssumption
<1>3. /\ Starts(1) /\ Topic(1) = c
      /\ acked' = acked \cup {c}
      /\ pending'[r] = "resolved"
      /\ \A q \in Iterators : q # r => pending'[q] = pending[q]
  BY <1>1, <1>2, CommandParts DEF Starts, Topic, Subscribed, ManagerOK
<1>4. \A k \in DOMAIN unreplied : k # 1 => 1 < k /\ unreplied[k] # Subscribe(r)
  <2>1. \A k \in DOMAIN unreplied : k # 1 => 1 < k
    BY <1>1
  <2> QED
    BY <1>1, <1>3, <2>1 DEF Belief, StartedOnce
<1>5. HeardWhileKept'
  BY DEF Belief, HeardWhileKept
<1>6. PendingWhileSent'
  <2> SUFFICES ASSUME NEW k \in DOMAIN unreplied', Starts(k)'
               PROVE  pending'[unreplied'[k][2]] = "pending"
    BY DEF PendingWhileSent
  <2>1. k + 1 \in DOMAIN unreplied /\ k + 1 # 1 /\ Starts(k + 1) /\ unreplied'[k] = unreplied[k + 1]
    BY <1>1
  <2>2. unreplied[k + 1] = Subscribe(unreplied[k + 1][2]) /\ unreplied[k + 1][2] \in Iterators
    BY <2>1, QueueType
  <2>3. unreplied[k + 1][2] # r
    BY <1>4, <2>1, <2>2
  <2>4. pending[unreplied[k + 1][2]] = "pending"
    BY <2>1 DEF Belief, PendingWhileSent
  <2> QED
    BY <1>3, <2>1, <2>2, <2>3, <2>4
<1>7. Follows'
  <2> SUFFICES ASSUME NEW k \in DOMAIN unreplied', Starts(k)', Topic(k)' \in acked'
               PROVE  \E m \in DOMAIN unreplied' : m < k /\ Topic(m)' = Topic(k)' /\ ~Starts(m)'
    BY DEF Follows
  <2>1. /\ k + 1 \in DOMAIN unreplied /\ 1 < k + 1 /\ Starts(k + 1) /\ Topic(k)' = Topic(k + 1)
        /\ k \in Nat
    BY <1>1
  <2>2. \E m \in DOMAIN unreplied : m < k + 1 /\ m # 1 /\ Topic(m) = Topic(k + 1) /\ ~Starts(m)
    <3>1. CASE Topic(k + 1) = c
      <4>1. \E m \in DOMAIN unreplied : 1 < m /\ m < k + 1 /\ Topic(m) = Topic(k + 1) /\ ~Starts(m)
        BY <1>1, <1>3, <2>1, <3>1 DEF Belief, Alternate
      <4> QED
        BY <4>1
    <3>2. CASE Topic(k + 1) # c
      <4>1. \E m \in DOMAIN unreplied : m < k + 1 /\ Topic(m) = Topic(k + 1) /\ ~Starts(m)
        BY <1>3, <2>1, <3>2 DEF Belief, Follows
      <4> QED
        BY <1>3, <3>2, <4>1
    <3> QED
      BY <3>1, <3>2
  <2>3. PICK m \in DOMAIN unreplied : m < k + 1 /\ m # 1 /\ Topic(m) = Topic(k + 1) /\ ~Starts(m)
    BY <2>2
  <2>4. m - 1 < k
    BY <1>1, <2>1, <2>3
  <2> QED
    BY <1>1, <2>1, <2>3, <2>4
<1>8. \A d \in Channels, k \in DOMAIN unreplied : IsLast(d, k) /\ k # 1 => IsLast(d, k - 1)'
  <2> SUFFICES ASSUME NEW d \in Channels, NEW k \in DOMAIN unreplied, IsLast(d, k), k # 1,
                      NEW j \in DOMAIN unreplied', j > k - 1
               PROVE  Topic(j)' # d
    BY <1>1 DEF IsLast
  <2>1. j + 1 > k
    BY <1>1
  <2> QED
    BY <1>1, <2>1 DEF IsLast
<1>9. \A d \in Channels : Quiet(d) => Quiet(d)' /\ d # c
  BY <1>1, <1>3 DEF Quiet
<1>10. IsLast(c, 1) => Quiet(c)'
  <2> SUFFICES ASSUME IsLast(c, 1), NEW j \in DOMAIN unreplied'
               PROVE  Topic(j)' # c
    BY DEF Quiet
  <2>1. j + 1 > 1
    BY <1>1
  <2> QED
    BY <1>1, <2>1 DEF IsLast
<1>11. ASSUME NEW d \in Channels, record[d] = None
       PROVE  Unwanted(d)'
  <2>1. Unwanted(d)
    BY <1>11 DEF Belief, Believed
  <2>2. CASE Quiet(d) /\ d \notin acked
    BY <1>3, <1>9, <2>2 DEF Unwanted
  <2>3. ASSUME NEW k \in DOMAIN unreplied, IsLast(d, k), ~Starts(k)
        PROVE  Unwanted(d)'
    BY <1>1, <1>3, <1>8, <2>3 DEF Unwanted
  <2> QED
    BY <2>1, <2>2, <2>3 DEF Unwanted
<1>12. ASSUME NEW d \in Channels, record[d] # None
       PROVE  Wanted(d)'
  <2>1. Wanted(d) /\ record[d] \in Iterators /\ ChannelOf[record[d]] = d
    BY <1>12 DEF Belief, Believed, ManagerOK, RecordsAreMade
  <2>2. ASSUME Quiet(d)
        PROVE  Quiet(d)' /\ d # c /\ pending'[record[d]] = pending[record[d]]
    BY <1>2, <1>3, <1>9, <2>1, <2>2
  <2>3. ASSUME NEW k \in DOMAIN unreplied, pending[record[d]] = "pending", IsLast(d, k),
               unreplied[k] = Subscribe(record[d])
        PROVE  Wanted(d)'
    <3>1. CASE k = 1
      <4>1. record[d] = r
        BY <1>1, <2>3, <3>1, CommandParts
      <4>2. d = c
        BY <1>2, <2>1, <4>1
      <4> QED
        BY <1>3, <1>10, <2>3, <3>1, <4>1, <4>2 DEF Wanted
    <3>2. CASE k # 1
      <4>1. record[d] # r
        BY <1>4, <2>3, <3>2
      <4>2. IsLast(d, k - 1)' /\ k - 1 \in DOMAIN unreplied' /\ unreplied'[k - 1] = Subscribe(record[d])
        BY <1>1, <1>8, <2>3, <3>2
      <4> QED
        BY <1>3, <2>1, <2>3, <4>1, <4>2 DEF Wanted
    <3> QED
      BY <3>1, <3>2
  <2> QED
    BY <1>3, <2>1, <2>2, <2>3 DEF Wanted
<1> QED
  BY <1>5, <1>6, <1>7, <1>11, <1>12, QueueBelieves DEF Belief, Believed

\* The reply to an UNSUBSCRIBE.
LEMMA UnsubscribedBelieves ==
    ASSUME Based, Live, Belief, NEW r \in Iterators, unreplied # <<>>,
           unreplied' = Tail(unreplied), Head(unreplied) = Unsubscribe(r), Unsubscribed(r),
           UNCHANGED <<record, listeners>>
    PROVE  Belief'
<1> USE DEF Based, Wired
<1>1. /\ DOMAIN unreplied \subseteq Nat /\ DOMAIN unreplied' \subseteq Nat
      /\ 1 \in DOMAIN unreplied /\ unreplied[1] = Unsubscribe(r)
      /\ \A k \in DOMAIN unreplied : k >= 1
      /\ \A k \in DOMAIN unreplied' : k >= 1
      /\ \A k \in DOMAIN unreplied' :
            /\ k + 1 \in DOMAIN unreplied /\ unreplied'[k] = unreplied[k + 1]
            /\ Topic(k)' = Topic(k + 1) /\ Starts(k)' = Starts(k + 1)
      /\ \A k \in DOMAIN unreplied : k # 1 =>
            /\ k - 1 \in DOMAIN unreplied' /\ unreplied'[k - 1] = unreplied[k]
            /\ Topic(k - 1)' = Topic(k) /\ Starts(k - 1)' = Starts(k)
  BY QueueTaken
<1>2. PICK c \in Channels : c = ChannelOf[r]
  BY SubscriptionsAssumption
<1>3. /\ ~Starts(1) /\ Topic(1) = c
      /\ acked' = acked \ {c}
      /\ pending' = pending
  BY <1>1, <1>2, CommandParts DEF Starts, Topic, Unsubscribed
<1>4. HeardWhileKept'
  BY DEF Belief, HeardWhileKept
<1>5. PendingWhileSent'
  BY <1>1, <1>3 DEF Belief, PendingWhileSent
<1>6. Follows'
  <2> SUFFICES ASSUME NEW k \in DOMAIN unreplied', Starts(k)', Topic(k)' \in acked'
               PROVE  \E m \in DOMAIN unreplied' : m < k /\ Topic(m)' = Topic(k)' /\ ~Starts(m)'
    BY DEF Follows
  <2>1. /\ k + 1 \in DOMAIN unreplied /\ Starts(k + 1) /\ Topic(k)' = Topic(k + 1)
        /\ k \in Nat /\ Topic(k + 1) # c /\ Topic(k + 1) \in acked
    BY <1>1, <1>3
  <2>2. PICK m \in DOMAIN unreplied : m < k + 1 /\ Topic(m) = Topic(k + 1) /\ ~Starts(m)
    BY <2>1 DEF Belief, Follows
  <2>3. m # 1
    BY <1>3, <2>1, <2>2
  <2>4. m - 1 < k
    BY <1>1, <2>1, <2>2
  <2> QED
    BY <1>1, <2>1, <2>2, <2>3, <2>4
<1>7. \A d \in Channels, k \in DOMAIN unreplied : IsLast(d, k) /\ k # 1 => IsLast(d, k - 1)'
  <2> SUFFICES ASSUME NEW d \in Channels, NEW k \in DOMAIN unreplied, IsLast(d, k), k # 1,
                      NEW j \in DOMAIN unreplied', j > k - 1
               PROVE  Topic(j)' # d
    BY <1>1 DEF IsLast
  <2>1. j + 1 > k
    BY <1>1
  <2> QED
    BY <1>1, <2>1 DEF IsLast
<1>8. \A d \in Channels : Quiet(d) => Quiet(d)' /\ d # c
  BY <1>1, <1>3 DEF Quiet
<1>9. \A d \in Channels : IsLast(d, 1) => Quiet(d)' /\ d = c
  <2> SUFFICES ASSUME NEW d \in Channels, IsLast(d, 1)
               PROVE  Quiet(d)' /\ d = c
    OBVIOUS
  <2>1. d = c
    BY <1>3 DEF IsLast
  <2>2. ASSUME NEW j \in DOMAIN unreplied'
        PROVE  Topic(j)' # d
    <3>1. j + 1 > 1
      BY <1>1
    <3> QED
      BY <1>1, <3>1 DEF IsLast
  <2> QED
    BY <2>1, <2>2 DEF Quiet
<1>10. ASSUME NEW d \in Channels, record[d] = None
       PROVE  Unwanted(d)'
  <2>1. Unwanted(d)
    BY <1>10 DEF Belief, Believed
  <2>2. CASE Quiet(d) /\ d \notin acked
    BY <1>3, <1>8, <2>2 DEF Unwanted
  <2>3. ASSUME NEW k \in DOMAIN unreplied, IsLast(d, k), ~Starts(k)
        PROVE  Unwanted(d)'
    <3>1. CASE k = 1
      BY <1>3, <1>9, <2>3, <3>1 DEF Unwanted
    <3>2. CASE k # 1
      BY <1>1, <1>7, <2>3, <3>2 DEF Unwanted
    <3> QED
      BY <3>1, <3>2
  <2> QED
    BY <2>1, <2>2, <2>3 DEF Unwanted
<1>11. ASSUME NEW d \in Channels, record[d] # None
       PROVE  Wanted(d)'
  <2>1. Wanted(d)
    BY <1>11 DEF Belief, Believed
  <2>2. ASSUME NEW k \in DOMAIN unreplied, pending[record[d]] = "pending", IsLast(d, k),
               unreplied[k] = Subscribe(record[d])
        PROVE  Wanted(d)'
    <3>1. k # 1
      BY <1>3, <2>2, CommandParts DEF Starts
    <3>2. IsLast(d, k - 1)' /\ k - 1 \in DOMAIN unreplied' /\ unreplied'[k - 1] = Subscribe(record[d])
      BY <1>1, <1>7, <2>2, <3>1
    <3> QED
      BY <1>3, <2>2, <3>2 DEF Wanted
  <2>3. CASE pending[record[d]] = "resolved" /\ Quiet(d) /\ d \in acked
    BY <1>3, <1>8, <2>3 DEF Wanted
  <2>4. CASE pending[record[d]] = "rejected" /\ Quiet(d) /\ d \notin acked
    BY <1>3, <1>8, <2>4 DEF Wanted
  <2> QED
    BY <2>1, <2>2, <2>3, <2>4 DEF Wanted
<1> QED
  BY <1>4, <1>5, <1>6, <1>10, <1>11, QueueBelieves DEF Belief, Believed

\* What could not be sent is rejected, and the process survives: it was no UNSUBSCRIBE.
LEMMA GiveUpBelieves ==
    ASSUME Based, Live, Belief, GiveUp, alive'
    PROVE  Belief'
<1> USE DEF Based, Wired
<1>1. /\ unreplied' = <<>> /\ UNCHANGED <<record, listeners, acked>>
      /\ Rejects(ToSet(unreplied), watched)
  BY DEF GiveUp, managerVars
<1>2. /\ \A q \in Iterators :
            pending'[q] = IF Subscribe(q) \in ToSet(unreplied) /\ pending[q] \in {"none", "pending"}
                          THEN "rejected" ELSE pending[q]
      /\ \A q \in Iterators : Unsubscribe(q) \notin ToSet(unreplied)
  <2>1. watched \in SUBSET Iterators
    BY DEF ManagerOK
  <2> QED
    BY <1>1, <2>1, RejectsEffect
<1>3. \A k \in DOMAIN unreplied : Starts(k)
  BY <1>2, QueueType DEF ToSet
<1>4. HeardWhileKept'
  BY <1>1 DEF Belief, HeardWhileKept
<1>5. DOMAIN unreplied' = {}
  BY <1>1
<1>6. PendingWhileSent' /\ StartedOnce' /\ Alternate' /\ Follows' /\ \A d \in Channels : Quiet(d)'
  BY <1>5 DEF PendingWhileSent, StartedOnce, Alternate, Follows, Quiet
<1>7. ASSUME NEW d \in Channels, record[d] = None
      PROVE  Unwanted(d)'
  BY <1>1, <1>3, <1>6, <1>7 DEF Belief, Believed, Unwanted
<1>8. ASSUME NEW d \in Channels, record[d] # None
      PROVE  Wanted(d)'
  <2>1. Wanted(d) /\ record[d] \in Iterators /\ ChannelOf[record[d]] = d
    BY <1>8 DEF Belief, Believed, ManagerOK, RecordsAreMade
  <2>2. ASSUME NEW k \in DOMAIN unreplied, pending[record[d]] = "pending", IsLast(d, k),
               unreplied[k] = Subscribe(record[d])
        PROVE  Wanted(d)'
    <3>1. pending'[record[d]] = "rejected"
      BY <1>2, <2>1, <2>2 DEF ToSet
    <3>2. d \notin acked
      BY <1>3, <2>2 DEF Belief, Follows, IsLast
    <3> QED
      BY <1>1, <1>6, <3>1, <3>2 DEF Wanted
  <2>3. CASE pending[record[d]] \in {"resolved", "rejected"}
    <3>1. pending'[record[d]] = pending[record[d]]
      BY <1>2, <2>1, <2>3
    <3> QED
      BY <1>1, <1>6, <2>1, <2>3, <3>1 DEF Wanted
  <2> QED
    BY <2>1, <2>2, <2>3 DEF Wanted
<1> QED
  BY <1>1, <1>4, <1>6, <1>7, <1>8 DEF Belief, Believed

\* No step of a manager that works makes its beliefs false.
LEMMA BeliefKept ==
    ASSUME Based, Live => Belief, [Next]_vars, Live'
    PROVE  Belief'
<1> USE DEF Based, Wired
<1>1. ASSUME UNCHANGED <<record, listeners, pending, unreplied, acked>>, Live
      PROVE  Belief'
  BY <1>1 DEF Belief, HeardWhileKept, PendingWhileSent, StartedOnce, Alternate, Follows, Believed,
              Starts, Topic, Wanted, Unwanted, Quiet, IsLast
<1>2. ASSUME NEW i \in Iterators, NEW ensures \in BOOLEAN, Iterate(i, ensures)
      PROVE  Belief'
  <2>1. Live
    BY <1>2 DEF Iterate, Live
  <2> QED
    BY <1>2, <2>1, SubscribeBelieves, OthersBelieve
<1>3. ASSUME NEW i \in Iterators, Off(i)
      PROVE  Belief'
  <2>1. Live
    BY <1>3 DEF Off, Live
  <2>2. CASE record[ChannelOf[i]] # None /\ listeners[ChannelOf[i]] \ {i} = {}
    BY <1>3, <2>1, <2>2, UnsubscribeBelieves
  <2>3. CASE ~(record[ChannelOf[i]] # None /\ listeners[ChannelOf[i]] \ {i} = {})
    BY <1>3, <2>1, <2>3, OthersBelieve
  <2> QED
    BY <2>2, <2>3
<1>4. ASSUME NEW c \in Channels, Ensure(c) \/ \E bad \in Throwing : Publish(c, bad)
      PROVE  Belief'
  <2>1. UNCHANGED <<record, listeners, pending, unreplied, acked, alive, conn>>
    BY <1>4 DEF Ensure, Publish, managerVars, deferVars, wireVars
  <2> QED
    BY <1>1, <2>1 DEF Live
<1>5. CASE Dispose
  BY <1>5 DEF Dispose, Live
<1>6. CASE ConnectionClosed
  BY <1>6 DEF ConnectionClosed, Live
<1>7. CASE DisposeLists
  BY <1>7 DEF DisposeLists, Live, Apart
<1>8. CASE Execute \/ Break \/ Reconnect
  <2>1. UNCHANGED <<record, listeners, pending, unreplied, acked>> /\ Live
    BY <1>8 DEF Execute, Break, Reconnect, managerVars, deferVars, Live
  <2> QED
    BY <1>1, <2>1
<1>9. CASE GiveUp
  <2>1. Live /\ alive'
    BY <1>9 DEF GiveUp, Live
  <2> QED
    BY <1>9, <2>1, GiveUpBelieves
<1>10. CASE Read
  <2>1. Live /\ wire # <<>> /\ UNCHANGED <<record, listeners>>
    BY <1>10, ReadIs DEF Live, managerVars
  <2>2. CASE \E c \in Channels, n \in 1..MaxPublished : Emit(c, n)
    BY <1>1, <2>1, <2>2 DEF Emit
  <2>3. CASE Head(wire) = Reply /\ Replied
    BY <2>1, <2>3, RepliedIs, SubscribedBelieves, UnsubscribedBelieves
  <2> QED
    BY <1>10, <2>2, <2>3, ReadIs
<1>11. CASE HandOn \/ UNCHANGED vars
  BY <1>1, <1>11 DEF HandOn, vars, managerVars, deferVars, wireVars, Live
<1> QED
  BY <1>2, <1>3, <1>4, <1>5, <1>6, <1>7, <1>8, <1>9, <1>10, <1>11 DEF Next

------------------------------------------------------------------------------
(***************************************************************************)
(* What the server does                                                    *)
(***************************************************************************)

\* What the client knows, corrected by what the server has executed since: the last
\* such command of a channel decides.
Started(c) ==
    \E k \in 1..executed : /\ Topic(k) = c /\ Starts(k)
                           /\ \A j \in 1..executed : j > k => Topic(j) # c
Served(c) == (c \in acked /\ \A k \in 1..executed : Topic(k) # c) \/ Started(c)

ServerIsTold == conn = "online" => \A c \in Channels : c \in server <=> Served(c)

\* A command that is executed decides for its channel.
LEMMA ExecuteTells ==
    ASSUME Wired, ServerIsTold, conn = "online", Execute
    PROVE  ServerIsTold'
<1> USE DEF Wired
<1>1. PICK n : n = executed + 1
  OBVIOUS
<1>2. /\ executed \in Nat /\ executed' = n /\ n \in DOMAIN unreplied
      /\ 1..n = (1..executed) \cup {n} /\ \A k \in 1..executed : n > k /\ k # n
      /\ n \in Nat
      /\ UNCHANGED <<conn, unreplied, acked>>
  BY <1>1 DEF Execute, ManagerOK
<1>3. PICK c \in Channels : c = Topic(n)
  BY <1>2, QueueType
<1>4. server' = IF Starts(n) THEN server \cup {c} ELSE server \ {c}
  BY <1>1, <1>3 DEF Execute, Starts, Topic
<1>5. \A k \in 1..n : Topic(k)' = Topic(k) /\ Starts(k)' = Starts(k)
  BY <1>2 DEF Topic, Starts
<1>6. ASSUME NEW d \in Channels, d # c
      PROVE  Served(d)' <=> Served(d)
  <2>1. Started(d)' <=> Started(d)
    <3>1. ASSUME NEW k \in 1..executed, Topic(k) = d, Starts(k),
                 \A j \in 1..executed : j > k => Topic(j) # d
          PROVE  Started(d)'
      BY <1>2, <1>3, <1>5, <1>6, <3>1 DEF Started
    <3>2. ASSUME NEW k \in 1..n, Topic(k) = d, Starts(k),
                 \A j \in 1..n : j > k => Topic(j) # d
          PROVE  Started(d)
      BY <1>2, <1>3, <1>6, <3>2 DEF Started
    <3> QED
      BY <1>2, <1>5, <3>1, <3>2 DEF Started
  <2>2. (\A k \in 1..executed' : Topic(k)' # d) <=> (\A k \in 1..executed : Topic(k) # d)
    BY <1>2, <1>3, <1>5, <1>6
  <2> QED
    BY <1>2, <2>1, <2>2 DEF Served
<1>7. Served(c)' <=> Starts(n)
  <2>1. n \in 1..n /\ \A k \in 1..n : ~(k > n) /\ (k = n \/ n > k)
    BY <1>2
  <2>2. Started(c)' <=> Starts(n)
    <3>1. ASSUME Starts(n)
          PROVE  Started(c)'
      BY <1>2, <1>3, <1>5, <2>1, <3>1 DEF Started
    <3>2. ASSUME NEW k \in 1..n, Topic(k) = c, Starts(k),
                 \A j \in 1..n : j > k => Topic(j) # c
          PROVE  Starts(n)
      BY <1>3, <2>1, <3>2
    <3> QED
      BY <1>2, <1>5, <3>1, <3>2 DEF Started
  <2> QED
    BY <1>2, <1>3, <1>5, <2>1, <2>2 DEF Served
<1> QED
  BY <1>2, <1>4, <1>6, <1>7 DEF ServerIsTold

\* A reply tells the client what the server knew.
LEMMA ReplyTells ==
    ASSUME Wired, ServerIsTold, conn = "online", NEW r \in Iterators, unreplied # <<>>,
           unreplied' = Tail(unreplied), executed' = executed - 1, executed >= 1,
           \/ Head(unreplied) = Subscribe(r) /\ acked' = acked \cup {ChannelOf[r]}
           \/ Head(unreplied) = Unsubscribe(r) /\ acked' = acked \ {ChannelOf[r]},
           UNCHANGED <<conn, server>>
    PROVE  ServerIsTold'
<1> USE DEF Wired
<1>1. /\ 1 \in DOMAIN unreplied /\ unreplied[1] = Head(unreplied)
      /\ \A k \in DOMAIN unreplied' : Topic(k)' = Topic(k + 1) /\ Starts(k)' = Starts(k + 1)
      /\ \A k \in DOMAIN unreplied : k # 1 =>
            /\ Topic(k - 1)' = Topic(k) /\ Starts(k - 1)' = Starts(k)
  BY QueueTaken
<1>2. /\ executed \in Nat /\ executed' \in Nat
      /\ 1..executed \subseteq DOMAIN unreplied
      /\ 1..executed' \subseteq DOMAIN unreplied'
  <2>1. /\ executed \in Nat /\ executed <= Len(unreplied) /\ Len(unreplied) \in Nat
        /\ DOMAIN unreplied = 1..Len(unreplied)
        /\ DOMAIN unreplied' = 1..(Len(unreplied) - 1)
    BY Taken DEF ManagerOK
  <2>2. executed' = executed - 1 /\ executed >= 1
    OBVIOUS
  <2> QED
    BY <2>1, <2>2
<1>3. PICK c \in Channels : c = ChannelOf[r]
  BY SubscriptionsAssumption
<1>4. /\ Topic(1) = c
      /\ acked' = IF Starts(1) THEN acked \cup {c} ELSE acked \ {c}
  BY <1>1, <1>3, CommandParts DEF Topic, Starts
<1>5. /\ \A k \in 1..executed : k = 1 \/ k > 1
      /\ \A k \in 1..executed : k # 1 => k - 1 \in 1..executed'
      /\ \A k \in 1..executed' : k + 1 \in 1..executed /\ k + 1 > 1 /\ k + 1 # 1
      /\ \A j, k \in 1..executed' : j > k <=> j + 1 > k + 1
      /\ \A k \in 1..executed : (k - 1) + 1 = k
      /\ 1 \in 1..executed
  BY <1>2
<1>6. \A k \in 1..executed' : Topic(k)' = Topic(k + 1) /\ Starts(k)' = Starts(k + 1)
  BY <1>1, <1>2
<1>7. ASSUME NEW d \in Channels
      PROVE  Started(d)' <=> \E k \in 1..executed : /\ k # 1 /\ Topic(k) = d /\ Starts(k)
                                                    /\ \A j \in 1..executed : j > k => Topic(j) # d
  <2>1. ASSUME NEW k \in 1..executed', Topic(k)' = d, Starts(k)',
               \A j \in 1..executed' : j > k => Topic(j)' # d
        PROVE  /\ k + 1 \in 1..executed /\ k + 1 # 1 /\ Topic(k + 1) = d /\ Starts(k + 1)
               /\ \A j \in 1..executed : j > k + 1 => Topic(j) # d
    <3>1. /\ k + 1 \in 1..executed /\ k + 1 # 1 /\ Topic(k + 1) = d /\ Starts(k + 1)
      BY <1>5, <1>6, <2>1
    <3>2. ASSUME NEW j \in 1..executed, j > k + 1
          PROVE  Topic(j) # d
      <4>1. j # 1 /\ j - 1 \in 1..executed' /\ j - 1 > k
        BY <1>2, <1>5, <3>1, <3>2
      <4> QED
        BY <1>5, <1>6, <2>1, <4>1
    <3> QED
      BY <3>1, <3>2
  <2>2. ASSUME NEW k \in 1..executed, k # 1, Topic(k) = d, Starts(k),
               \A j \in 1..executed : j > k => Topic(j) # d
        PROVE  Started(d)'
    <3>1. k - 1 \in 1..executed' /\ Topic(k - 1)' = d /\ Starts(k - 1)'
      BY <1>5, <1>6, <2>2
    <3>2. ASSUME NEW j \in 1..executed', j > k - 1
          PROVE  Topic(j)' # d
      <4>1. j + 1 \in 1..executed /\ j + 1 > k
        BY <1>2, <1>5, <3>1, <3>2
      <4> QED
        BY <1>6, <2>2, <4>1
    <3> QED
      BY <3>1, <3>2 DEF Started
  <2> QED
    BY <2>1, <2>2 DEF Started
<1>8. ASSUME NEW d \in Channels
      PROVE  (\A k \in 1..executed' : Topic(k)' # d) <=>
                (\A k \in 1..executed : k # 1 => Topic(k) # d)
  BY <1>5, <1>6
<1>9. ASSUME NEW d \in Channels, d # c
      PROVE  Served(d)' <=> Served(d)
  <2>1. Started(d)' <=> Started(d)
    BY <1>4, <1>7, <1>9 DEF Started
  <2>2. (\A k \in 1..executed' : Topic(k)' # d) <=> (\A k \in 1..executed : Topic(k) # d)
    BY <1>4, <1>8, <1>9
  <2> QED
    BY <1>4, <1>9, <2>1, <2>2 DEF Served
<1>10. Served(c)' <=> Served(c)
  <2>1. Served(c) <=> Started(c)
    BY <1>4, <1>5 DEF Served
  <2>2. CASE \A k \in 1..executed : k # 1 => Topic(k) # c
    <3>1. Started(c) <=> Starts(1)
      BY <1>4, <1>5, <2>2 DEF Started
    <3>2. ~Started(c)'
      BY <1>7, <2>2
    <3>3. \A k \in 1..executed' : Topic(k)' # c
      BY <1>8, <2>2
    <3>4. Served(c)' <=> c \in acked'
      BY <3>2, <3>3 DEF Served
    <3> QED
      BY <1>4, <2>1, <3>1, <3>4
  <2>3. CASE \E k \in 1..executed : k # 1 /\ Topic(k) = c
    <3>1. Started(c) <=> Started(c)'
      BY <1>5, <1>7, <2>3 DEF Started
    <3>2. Served(c)' <=> Started(c)'
      <4>1. ~(\A k \in 1..executed' : Topic(k)' # c)
        BY <1>8, <2>3
      <4> QED
        BY <4>1 DEF Served
    <3> QED
      BY <2>1, <3>1, <3>2
  <2> QED
    BY <2>2, <2>3
<1> QED
  BY <1>9, <1>10 DEF ServerIsTold

\* A command that is issued waits behind those executed.
LEMMA IssuedTells ==
    ASSUME Wired, ServerIsTold, UNCHANGED <<conn, executed, server, acked>>,
           \/ UNCHANGED unreplied
           \/ \E cmd \in Commands : unreplied' = Append(unreplied, cmd)
    PROVE  ServerIsTold'
<1>1. \A k \in 1..executed : Topic(k)' = Topic(k) /\ Starts(k)' = Starts(k)
  <2>1. 1..executed \subseteq DOMAIN unreplied /\ ManagerOK
    BY DEF Wired, ManagerOK
  <2>2. CASE UNCHANGED unreplied
    BY <2>2 DEF Topic, Starts
  <2>3. ASSUME NEW cmd \in Commands, unreplied' = Append(unreplied, cmd)
        PROVE  \A k \in 1..executed : Topic(k)' = Topic(k) /\ Starts(k)' = Starts(k)
    <3>1. PICK n : n = Len(unreplied) + 1
      OBVIOUS
    <3>2. \A k \in DOMAIN unreplied : Topic(k)' = Topic(k) /\ Starts(k)' = Starts(k)
      BY <2>1, <2>3, <3>1, QueueAppended
    <3> QED
      BY <2>1, <3>2
  <2> QED
    BY <2>2, <2>3
<1>2. \A c \in Channels : Served(c)' <=> Served(c)
  BY <1>1 DEF Served, Started
<1> QED
  BY <1>2 DEF ServerIsTold

\* Iterators issue commands, or none.
LEMMA CallsIssue ==
    ASSUME Based, conn # "closed", NEW i \in Iterators,
           (\E ensures \in BOOLEAN : Iterate(i, ensures)) \/ Off(i)
    PROVE  /\ \/ UNCHANGED unreplied
              \/ \E cmd \in Commands : unreplied' = Append(unreplied, cmd)
           /\ \A r \in Iterators : pending[r] = "resolved" => pending'[r] = "resolved"
<1> USE DEF Based, Wired
<1> DEFINE c == ChannelOf[i]
<1>1. c \in Channels /\ RecordFor(i) \in Iterators
  BY SubscriptionsAssumption DEF RecordFor, ManagerOK
<1>2. ASSUME NEW cmd \in Commands, NEW heard \in SUBSET Iterators, Issues(cmd, heard)
      PROVE  /\ unreplied' = Append(unreplied, cmd)
             /\ \A r \in Iterators : pending[r] = "resolved" => pending'[r] = "resolved"
  BY <1>2, IssuesEffect
<1>3. ASSUME NEW ensures \in BOOLEAN, Iterate(i, ensures)
      PROVE  \/ UNCHANGED <<unreplied, pending>>
             \/ \E cmd \in Commands, heard \in SUBSET Iterators : Issues(cmd, heard)
  <2> DEFINE heard == IF ensures THEN watched \cup {RecordFor(i)} ELSE watched
  <2>1. Subscribe(RecordFor(i)) \in Commands /\ heard \in SUBSET Iterators
    BY <1>1, CommandParts DEF ManagerOK
  <2>2. UNCHANGED <<unreplied, pending>> \/ Issues(Subscribe(RecordFor(i)), heard)
    BY <1>3 DEF Iterate
  <2> QED
    BY <2>1, <2>2
<1>4. ASSUME Off(i)
      PROVE  \/ UNCHANGED <<unreplied, pending>>
             \/ \E cmd \in Commands, heard \in SUBSET Iterators : Issues(cmd, heard)
  <2>1. CASE record[c] # None /\ listeners[c] \ {i} = {}
    <3>1. Unsubscribe(record[c]) \in Commands /\ watched \in SUBSET Iterators
      BY <1>1, <2>1, CommandParts DEF ManagerOK
    <3>2. Issues(Unsubscribe(record[c]), watched)
      BY <1>4, <2>1 DEF Off
    <3> QED
      BY <3>1, <3>2
  <2>2. CASE ~(record[c] # None /\ listeners[c] \ {i} = {})
    BY <1>4, <2>2 DEF Off, deferVars
  <2> QED
    BY <2>1, <2>2
<1> QED
  BY <1>2, <1>3, <1>4

\* The server is subscribed to what it was told of, step by step.
LEMMA ServerIsToldKept ==
    ASSUME Based, ServerIsTold, [Next]_vars
    PROVE  ServerIsTold'
<1> USE DEF Based, Wired
<1>1. CASE conn' # "online"
  BY <1>1 DEF ServerIsTold
<1>2. CASE conn = "offline" /\ conn' = "online"
  <2>1. Reconnect
    BY <1>2 DEF Next, Iterate, Off, Ensure, Publish, Dispose, ConnectionClosed, DisposeLists, Execute,
                Read, HandOn, Break, GiveUp, vars
  <2>2. executed = 0
    BY <1>2 DEF Apart
  <2>3. server' = acked /\ executed' = 0 /\ UNCHANGED acked
    BY <2>1, <2>2 DEF Reconnect
  <2>4. 1..executed' = {}
    BY <2>3
  <2>5. \A c \in Channels : Served(c)' <=> c \in acked'
    BY <2>4 DEF Served, Started
  <2> QED
    BY <2>3, <2>5 DEF ServerIsTold
<1>3. CASE conn = "online" /\ conn' = "online"
  <2>1. ASSUME NEW i \in Iterators, (\E ensures \in BOOLEAN : Iterate(i, ensures)) \/ Off(i)
        PROVE  ServerIsTold'
    <3>1. UNCHANGED <<conn, executed, server, acked>>
      BY <2>1 DEF Iterate, Off
    <3>2. conn # "closed"
      BY <1>3
    <3> QED
      BY <2>1, <3>1, <3>2, CallsIssue, IssuedTells
  <2>2. ASSUME NEW c \in Channels, Ensure(c) \/ \E bad \in Throwing : Publish(c, bad)
        PROVE  ServerIsTold'
    <3>1. UNCHANGED <<conn, executed, server, acked, unreplied>>
      BY <2>2 DEF Ensure, Publish, wireVars
    <3> QED
      BY <3>1, IssuedTells
  <2>3. CASE Execute
    BY <1>3, <2>3, ExecuteTells
  <2>4. CASE Read
    <3>1. wire # <<>> /\ UNCHANGED <<conn, server>>
      BY <2>4, ReadIs
    <3>2. CASE \E c \in Channels, n \in 1..MaxPublished : Emit(c, n)
      <4>1. UNCHANGED <<executed, acked, unreplied>>
        BY <3>2 DEF Emit
      <4> QED
        BY <3>1, <4>1, IssuedTells
    <3>3. CASE Head(wire) = Reply /\ Replied
      <4>1. PICK r \in Iterators :
               /\ unreplied' = Tail(unreplied) /\ unreplied # <<>>
               /\ executed' = executed - 1 /\ executed >= 1
               /\ \/ Head(unreplied) = Subscribe(r) /\ Subscribed(r)
                  \/ Head(unreplied) = Unsubscribe(r) /\ Unsubscribed(r)
        BY <3>1, <3>3, RepliedIs
      <4>2. \/ Head(unreplied) = Subscribe(r) /\ acked' = acked \cup {ChannelOf[r]}
            \/ Head(unreplied) = Unsubscribe(r) /\ acked' = acked \ {ChannelOf[r]}
        BY <4>1 DEF Subscribed, Unsubscribed
      <4> QED
        BY <1>3, <3>1, <4>1, <4>2, ReplyTells
    <3> QED
      BY <2>4, <3>2, <3>3, ReadIs
  <2>5. CASE Dispose \/ ConnectionClosed \/ Break \/ Reconnect \/ GiveUp
    BY <1>3, <2>5 DEF Dispose, ConnectionClosed, Break, Reconnect, GiveUp
  <2>6. CASE DisposeLists \/ HandOn \/ UNCHANGED vars
    <3>1. UNCHANGED <<conn, executed, server, acked, unreplied>>
      BY <2>6 DEF DisposeLists, HandOn, vars, wireVars
    <3> QED
      BY <3>1, IssuedTells
  <2> QED
    BY <2>1, <2>2, <2>3, <2>4, <2>5, <2>6 DEF Next
<1>4. conn' = "online" => conn \in {"online", "offline"}
  BY DEF Next, Iterate, Off, Ensure, Publish, Dispose, ConnectionClosed, DisposeLists, Execute,
         Read, HandOn, Break, Reconnect, GiveUp, vars
<1> QED
  BY <1>1, <1>2, <1>3, <1>4

------------------------------------------------------------------------------
(***************************************************************************)
(* Loops                                                                   *)
(***************************************************************************)

\* A loop, as the fields it is made of.
LoopType == [list : Iterators, n : 1..MaxPublished, at : Nat]

\* A turn of a loop: what it gives is of its message, and it stays a loop.
LEMMA TurnType ==
    ASSUME LoopsOK, NEW list \in Iterators, NEW n \in 1..MaxPublished, NEW at \in Nat,
           NEW others \in Seq(LoopType), Gives(list, n, at, others)
    PROVE  /\ received' \in [Iterators -> Seq(1..MaxPublished)]
           /\ emits' \in Seq(LoopType)
<1>1. /\ received \in [Iterators -> Seq(1..MaxPublished)]
      /\ made \in Seq(Iterators) /\ Len(made) \in Nat
  BY DEF LoopsOK
<1>2. CASE emits' = others /\ UNCHANGED received
  BY <1>1, <1>2
<1>3. ASSUME NEW p \in Hearing(list, n, at),
             received' = [received EXCEPT ![made[p]] = Append(@, n)],
             emits' = Append(others, [list |-> list, n |-> n, at |-> p])
      PROVE  /\ received' \in [Iterators -> Seq(1..MaxPublished)]
             /\ emits' \in Seq(LoopType)
  <2>1. p \in Nat /\ made[p] \in Iterators
    BY <1>1 DEF Hearing
  <2>2. Append(received[made[p]], n) \in Seq(1..MaxPublished)
    BY <1>1, <2>1, Appended
  <2>3. [list |-> list, n |-> n, at |-> p] \in LoopType
    BY <2>1 DEF LoopType
  <2>4. received' \in [Iterators -> Seq(1..MaxPublished)]
    BY <1>1, <1>3, <2>1, <2>2
  <2>5. emits' \in Seq(LoopType)
    BY <1>3, <2>3, Appended
  <2> QED
    BY <2>4, <2>5
<1> QED
  BY <1>2, <1>3 DEF Gives

\* The loops, what they have given and what they may meet keep their types.
LEMMA LoopsKept ==
    ASSUME ManagerOK, RepliesCount, LoopsOK, [Next]_vars
    PROVE  LoopsOK'
<1>1. /\ received \in [Iterators -> Seq(1..MaxPublished)]
      /\ made \in Seq(Iterators)
      /\ emits \in Seq(LoopType)
      /\ reading \in BOOLEAN
      /\ malformed \subseteq Iterators \X (1..MaxPublished)
      /\ stirred \subseteq Channels
  BY DEF LoopsOK, LoopType
<1>2. ASSUME NEW c \in Channels, Stirs(c)
      PROVE  stirred' \subseteq Channels
  BY <1>1, <1>2 DEF Stirs
<1>3. ASSUME NEW i \in Iterators, NEW ensures \in BOOLEAN, Iterate(i, ensures)
      PROVE  LoopsOK'
  <2>1. /\ made' = Append(made, i) /\ reading' = FALSE
        /\ UNCHANGED <<emits, received, malformed, stirred>>
    BY <1>3 DEF Iterate
  <2>2. made' \in Seq(Iterators)
    BY <1>1, <2>1, Appended
  <2> QED
    BY <1>1, <2>1, <2>2 DEF LoopsOK, LoopType
<1>4. ASSUME NEW i \in Iterators, Off(i)
      PROVE  LoopsOK'
  <2>1. /\ reading' = FALSE /\ UNCHANGED <<made, emits, received, malformed>>
        /\ Stirs(ChannelOf[i])
    BY <1>4 DEF Off
  <2> QED
    BY <1>1, <1>2, <2>1, SubscriptionsAssumption DEF LoopsOK, LoopType
<1>5. ASSUME NEW c \in Channels, NEW bad \in Throwing, Publish(c, bad)
      PROVE  LoopsOK'
  <2>1. /\ malformed' = malformed \cup {<<i, published'[c]>> : i \in {j \in bad : ChannelOf[j] = c}}
        /\ published[c] < MaxPublished /\ published' = [published EXCEPT ![c] = @ + 1]
        /\ UNCHANGED <<emitVars, received, stirred>>
    BY <1>5 DEF Publish
  <2>2. published[c] \in 0..MaxPublished /\ MaxPublished \in Nat
    BY SubscriptionsAssumption DEF ManagerOK
  <2>3. published'[c] \in 1..MaxPublished
    BY <2>1, <2>2 DEF ManagerOK
  <2>4. bad \subseteq Iterators
    BY SubscriptionsAssumption
  <2>5. malformed' \subseteq Iterators \X (1..MaxPublished)
    BY <1>1, <2>1, <2>3, <2>4
  <2> QED
    BY <1>1, <2>1, <2>5 DEF LoopsOK, LoopType, emitVars
<1>6. CASE DisposeLists
  <2>1. /\ reading' = FALSE /\ UNCHANGED <<made, emits, received, malformed>>
        /\ UNCHANGED stirred \/ \E c \in Channels : Stirs(c)
    BY <1>6 DEF DisposeLists
  <2> QED
    BY <1>1, <1>2, <2>1 DEF LoopsOK, LoopType
<1>7. CASE Read
  <2>1. UNCHANGED <<made, malformed, stirred>> /\ reading' \in BOOLEAN
    BY <1>7 DEF Read
  <2>2. CASE Head(wire) = Reply /\ Replied
    <3>1. UNCHANGED <<received, emits>>
      BY <2>2 DEF Replied, Subscribed, Unsubscribed
    <3> QED
      BY <1>1, <2>1, <3>1 DEF LoopsOK, LoopType
  <2>3. ASSUME NEW c \in Channels, NEW n \in 1..MaxPublished, Emit(c, n)
        PROVE  LoopsOK'
    <3>1. CASE record[c] = None
      <4>1. UNCHANGED <<received, emits>>
        BY <2>3, <3>1 DEF Emit
      <4> QED
        BY <1>1, <2>1, <4>1 DEF LoopsOK, LoopType
    <3>2. CASE record[c] # None
      <4>1. Gives(record[c], n, 0, emits) /\ record[c] \in Iterators /\ 0 \in Nat
        BY <2>3, <3>2 DEF Emit, ManagerOK
      <4>2. received' \in [Iterators -> Seq(1..MaxPublished)] /\ emits' \in Seq(LoopType)
        BY <1>1, <4>1, TurnType
      <4> QED
        BY <1>1, <2>1, <4>2 DEF LoopsOK, LoopType
    <3> QED
      BY <3>1, <3>2
  <2> QED
    BY <1>7, <2>2, <2>3 DEF Read
<1>8. CASE HandOn
  <2>1. /\ UNCHANGED <<made, malformed, stirred>> /\ reading' = FALSE /\ emits # <<>>
        /\ Gives(Head(emits).list, Head(emits).n, Head(emits).at, Tail(emits))
    BY <1>8 DEF HandOn
  <2>2. Head(emits) \in LoopType /\ Tail(emits) \in Seq(LoopType)
    BY <1>1, <2>1, Taken
  <2>3. /\ Head(emits).list \in Iterators /\ Head(emits).n \in 1..MaxPublished
        /\ Head(emits).at \in Nat
    BY <2>2 DEF LoopType
  <2>4. received' \in [Iterators -> Seq(1..MaxPublished)] /\ emits' \in Seq(LoopType)
    BY <2>1, <2>2, <2>3, TurnType
  <2> QED
    BY <1>1, <2>1, <2>4 DEF LoopsOK, LoopType
<1>9. ASSUME \/ \E c \in Channels : Ensure(c)
             \/ Dispose \/ ConnectionClosed \/ Execute \/ Break \/ Reconnect \/ GiveUp
             \/ UNCHANGED vars
      PROVE  LoopsOK'
  <2>1. UNCHANGED <<made, emits, received, malformed, stirred>> /\ reading' \in {reading, FALSE}
    BY <1>9 DEF Ensure, Dispose, ConnectionClosed, Execute, Break, Reconnect, GiveUp, vars, emitVars,
                historyVars
  <2> QED
    BY <1>1, <2>1 DEF LoopsOK, LoopType
<1> QED
  BY <1>3, <1>4, <1>5, <1>6, <1>7, <1>8, <1>9 DEF Next

------------------------------------------------------------------------------
(***************************************************************************)
(* The server follows                                                      *)
(***************************************************************************)

\* The inductive invariant of the commands.
CommandsInv == Based /\ LoopsOK /\ (Live => Belief) /\ ServerIsTold

\* A record whose deferred is resolved is served, and nothing on its way ends that.
LEMMA ResolvedIsServed ==
    ASSUME CommandsInv, conn = "online"
    PROVE  EnsuredIsSubscribed
<1> USE DEF CommandsInv, Based, Wired
<1>1. Live
  BY DEF Live, Apart, ManagerOK
<1> SUFFICES ASSUME NEW c \in Channels, record[c] # None, pending[record[c]] = "resolved"
             PROVE  /\ c \in server
                    /\ \A r \in Iterators : ChannelOf[r] = c => Unsubscribe(r) \notin ToSet(unreplied)
  BY DEF EnsuredIsSubscribed
<1>2. Quiet(c) /\ c \in acked
  BY <1>1 DEF Belief, Believed, Wanted
<1>3. 1..executed \subseteq DOMAIN unreplied
  BY DEF ManagerOK
<1>4. c \in server
  BY <1>2, <1>3 DEF ServerIsTold, Served, Quiet
<1>5. ASSUME NEW r \in Iterators, ChannelOf[r] = c, Unsubscribe(r) \in ToSet(unreplied)
      PROVE  FALSE
  <2>1. PICK k \in DOMAIN unreplied : unreplied[k] = Unsubscribe(r)
    BY <1>5 DEF ToSet
  <2>2. Topic(k) = c
    BY <1>5, <2>1, CommandParts DEF Topic
  <2> QED
    BY <1>2, <2>2 DEF Quiet
<1> QED
  BY <1>4, <1>5

\* The server follows the manager in every state of the invariant.
LEMMA CommandsFollow ==
    ASSUME CommandsInv
    PROVE  ServerFollows
<1> USE DEF CommandsInv, Based, Wired
<1>1. EnsuredIsSubscribed
  <2>1. CASE conn = "online"
    BY <2>1, ResolvedIsServed
  <2>2. CASE conn # "online"
    BY <2>2 DEF EnsuredIsSubscribed
  <2> QED
    BY <2>1, <2>2
<1>2. SubscribedWhileHeard
  <2> SUFFICES ASSUME conn = "online", unreplied = <<>>
               PROVE  server = {c \in Channels : record[c] # None /\ pending[record[c]] # "rejected"}
    BY DEF SubscribedWhileHeard
  <2>1. Live
    BY DEF Live, Apart, ManagerOK
  <2>2. executed = 0
    BY DEF ManagerOK
  <2>3. 1..executed = {} /\ DOMAIN unreplied = {}
    BY <2>2
  <2>4. \A c \in Channels : c \in server <=> c \in acked
    BY <2>3 DEF ServerIsTold, Served, Started
  <2>5. ASSUME NEW c \in Channels
        PROVE  c \in acked <=> record[c] # None /\ pending[record[c]] # "rejected"
    BY <2>1, <2>3 DEF Belief, Believed, Wanted, Unwanted
  <2>6. server \subseteq Channels
    BY DEF ManagerOK
  <2> QED
    BY <2>4, <2>5, <2>6
<1> QED
  BY <1>1, <1>2 DEF ServerFollows, TypeOK

\* The invariant at first.
LEMMA CommandsAtFirst ==
    ASSUME Init
    PROVE  CommandsInv
<1>1. Wired
  BY WiredAtFirst
<1>2. DOMAIN unreplied = {} /\ 1..executed = {}
  BY DEF Init
<1>3. RecordsAreMade
  BY <1>2 DEF Init, RecordsAreMade
<1>4. Belief
  BY <1>2 DEF Init, Belief, HeardWhileKept, PendingWhileSent, StartedOnce, Alternate, Follows,
              Believed, Unwanted, Quiet
<1>5. ServerIsTold
  BY <1>2 DEF Init, ServerIsTold, Served, Started
<1>6. LoopsOK
  <2>1. made \in Seq(Iterators) /\ emits \in Seq([list : Iterators, n : 1..MaxPublished, at : Nat])
    BY DEF Init
  <2>2. received \in [Iterators -> Seq(1..MaxPublished)]
    BY DEF Init
  <2> QED
    BY <2>1, <2>2 DEF Init, LoopsOK
<1> QED
  BY <1>1, <1>3, <1>4, <1>5, <1>6 DEF CommandsInv, Based

\* The invariant is kept.
LEMMA CommandsKept ==
    ASSUME CommandsInv, [Next]_vars
    PROVE  CommandsInv'
<1>1. Wired'
  BY WiredKept DEF CommandsInv, Based
<1>2. RecordsAreMade'
  BY RecordsKept DEF CommandsInv, Based
<1>3. (Live => Belief)'
  BY BeliefKept DEF CommandsInv
<1>4. ServerIsTold'
  BY ServerIsToldKept DEF CommandsInv
<1>5. LoopsOK'
  BY LoopsKept DEF CommandsInv, Based, Wired
<1> QED
  BY <1>1, <1>2, <1>3, <1>4, <1>5 DEF CommandsInv, Based

\* The invariant of the commands holds of every behaviour.
THEOREM CommandsInvariant == Spec => []CommandsInv
<1>1. Init => CommandsInv
  BY CommandsAtFirst
<1>2. CommandsInv /\ [Next]_vars => CommandsInv'
  BY CommandsKept
<1> QED
  BY <1>1, <1>2, PTL DEF Spec

\* While ensure() is resolved the server is subscribed and nothing on its way changes
\* that; when all commands are replied to, it is subscribed to what somebody listens to.
THEOREM ServerFollowsManager == Spec => []ServerFollows
<1>1. CommandsInv => ServerFollows
  BY CommandsFollow
<1> QED
  BY <1>1, CommandsInvariant, PTL

------------------------------------------------------------------------------
(***************************************************************************)
(* The loops of messages                                                   *)
(***************************************************************************)

\* The channel of a loop.
On(e) == ChannelOf[e.list]

\* What an iterator was given.
Given(i) == ToSet(received[i])

\* The messages of a channel that the client has begun to hand on.
Begun(c) ==
    {n \in 1..MaxPublished : \/ \E i \in Iterators : ChannelOf[i] = c /\ n \in Given(i)
                             \/ \E k \in DOMAIN emits : On(emits[k]) = c /\ emits[k].n = n}

\* Nobody left the channel in the middle of a message, and its parsers agree.
Calm(c) == c \notin stirred /\ ParsedAlike(c)

\* The messages of a channel on their way are in order, behind what the client has begun
\* to hand on, and no newer than the last one published; nor are those that parsers throw on.
WireIsPublished ==
    \A k \in DOMAIN wire, c \in Channels, n \in 1..MaxPublished :
        wire[k] = Message(c, n) => n <= published[c]
WireIsOrdered ==
    \A j, k \in DOMAIN wire, c \in Channels, m, n \in 1..MaxPublished :
        j < k /\ wire[j] = Message(c, m) /\ wire[k] = Message(c, n) => m < n
BegunBefore ==
    \A k \in DOMAIN wire, c \in Channels, n \in 1..MaxPublished :
        wire[k] = Message(c, n) => \A m \in Begun(c) : m < n
BegunIsPublished ==
    \A c \in Channels : \A n \in Begun(c) : n <= published[c]
MalformedIsPublished ==
    \A i \in Iterators, n \in 1..MaxPublished : <<i, n>> \in malformed => n <= published[ChannelOf[i]]

Order ==
    WireIsPublished /\ WireIsOrdered /\ BegunBefore /\ BegunIsPublished /\ MalformedIsPublished

\* An iterator that was made has one place.  Others do not listen, and were given nothing.
Placed ==
    /\ \A p, q \in DOMAIN made : made[p] = made[q] => p = q
    /\ \A i \in Iterators : i \in ToSet(made) => iter[i] # "none"
    /\ \A c \in Channels : listeners[c] \subseteq ToSet(made)
    /\ \A i \in Iterators : Given(i) # {} => i \in ToSet(made)

\* A loop has its message ahead: who was given it is behind its place, and, in a calm
\* channel, nobody beyond its place was given a later message.
Fits(e) ==
    /\ \A p \in DOMAIN made : ChannelOf[made[p]] = On(e) /\ e.n \in Given(made[p]) => p <= e.at
    /\ Calm(On(e)) =>
          /\ e.list = record[On(e)]
          /\ \A p \in DOMAIN made : ChannelOf[made[p]] = On(e) /\ p > e.at =>
                \A m \in Given(made[p]) : m < e.n

\* The place of a loop that awaits is that of a listener, while the channel is calm.
Rests(e) == Calm(On(e)) => e.at \in DOMAIN made /\ made[e.at] \in listeners[On(e)]

\* No listener is between two places.
NextTo(c, p, q) ==
    p < q /\ \A r \in DOMAIN made : made[r] \in listeners[c] => ~(p < r /\ r < q)

\* Two loops of a channel hand on different messages.  While the channel is calm, the one
\* that goes on first is at the place of the other, or, if its message is the later one, one
\* listener behind it.
Paired(e, f) ==
    On(e) = On(f) =>
        /\ e.n # f.n
        /\ Calm(On(e)) => IF e.n < f.n THEN e.at = f.at ELSE NextTo(On(e), e.at, f.at)

LoopsFit == \A k \in DOMAIN emits : Fits(emits[k]) /\ Rests(emits[k])
LoopsFollow == \A j, k \in DOMAIN emits : j < k => Paired(emits[j], emits[k])

\* While the client reads, the loops are all at the first listener.
Together ==
    reading => \A k \in DOMAIN emits : Calm(On(emits[k])) =>
                  \A q \in DOMAIN made : made[q] \in listeners[On(emits[k])] => emits[k].at <= q

Handing == Placed /\ LoopsFit /\ LoopsFollow /\ Together /\ NoneTwice /\ InOrder

------------------------------------------------------------------------------
(***************************************************************************)
(* Sequences                                                               *)
(***************************************************************************)

\* What is in a sequence after something is added.
LEMMA MembersAppended ==
    ASSUME NEW S, NEW s \in Seq(S), NEW e \in S
    PROVE  ToSet(Append(s, e)) = ToSet(s) \cup {e}
<1>1. /\ DOMAIN s = 1..Len(s) /\ DOMAIN Append(s, e) = 1..(Len(s) + 1) /\ Len(s) \in Nat
      /\ \A k \in 1..Len(s) : Append(s, e)[k] = s[k]
      /\ Append(s, e)[Len(s) + 1] = e
  BY Appended
<1>2. DOMAIN Append(s, e) = DOMAIN s \cup {Len(s) + 1}
  BY <1>1
<1>3. \A k \in DOMAIN s : Append(s, e)[k] = s[k]
  BY <1>1
<1> QED
  BY <1>1, <1>2, <1>3 DEF ToSet

\* The first element and those behind it are all there are.
LEMMA MembersTaken ==
    ASSUME NEW S, NEW s \in Seq(S), s # <<>>
    PROVE  ToSet(s) = ToSet(Tail(s)) \cup {Head(s)}
<1>1. /\ Len(s) \in Nat /\ Len(s) >= 1
      /\ DOMAIN s = 1..Len(s) /\ DOMAIN Tail(s) = 1..(Len(s) - 1)
      /\ \A k \in 1..(Len(s) - 1) : Tail(s)[k] = s[k + 1]
      /\ Head(s) = s[1]
  BY Taken
<1>2. ASSUME NEW k \in DOMAIN s, k # 1
      PROVE  s[k] \in ToSet(Tail(s))
  <2>1. k - 1 \in 1..(Len(s) - 1) /\ (k - 1) + 1 = k
    BY <1>1, <1>2
  <2>2. Tail(s)[k - 1] = s[k] /\ k - 1 \in DOMAIN Tail(s)
    BY <1>1, <2>1
  <2> QED
    BY <2>2 DEF ToSet
<1>3. ASSUME NEW k \in DOMAIN Tail(s)
      PROVE  Tail(s)[k] \in ToSet(s)
  <2>1. k + 1 \in DOMAIN s /\ Tail(s)[k] = s[k + 1]
    BY <1>1
  <2> QED
    BY <2>1 DEF ToSet
<1>4. Head(s) \in ToSet(s)
  BY <1>1 DEF ToSet
<1> QED
  BY <1>1, <1>2, <1>3, <1>4 DEF ToSet

\* Something new keeps the elements of a sequence apart.
LEMMA AppendedApart ==
    ASSUME NEW S, NEW s \in Seq(S), NEW e \in S, e \notin ToSet(s),
           \A j, k \in DOMAIN s : j # k => s[j] # s[k]
    PROVE  \A j, k \in DOMAIN Append(s, e) : j # k => Append(s, e)[j] # Append(s, e)[k]
<1>1. /\ DOMAIN s = 1..Len(s) /\ DOMAIN Append(s, e) = 1..(Len(s) + 1) /\ Len(s) \in Nat
      /\ \A k \in 1..Len(s) : Append(s, e)[k] = s[k]
      /\ Append(s, e)[Len(s) + 1] = e
  BY Appended
<1>2. DOMAIN Append(s, e) = DOMAIN s \cup {Len(s) + 1}
  BY <1>1
<1>3. \A k \in DOMAIN s : Append(s, e)[k] = s[k] /\ s[k] # e
  BY <1>1 DEF ToSet
<1> QED
  BY <1>1, <1>2, <1>3

\* Something greater keeps a sequence of numbers ascending.
LEMMA AppendedAscends ==
    ASSUME NEW M \in Nat, NEW s \in Seq(1..M), NEW e \in 1..M, \A m \in ToSet(s) : m < e,
           \A j, k \in DOMAIN s : j < k => s[j] < s[k]
    PROVE  \A j, k \in DOMAIN Append(s, e) : j < k => Append(s, e)[j] < Append(s, e)[k]
<1>1. /\ DOMAIN s = 1..Len(s) /\ DOMAIN Append(s, e) = 1..(Len(s) + 1) /\ Len(s) \in Nat
      /\ \A k \in 1..Len(s) : Append(s, e)[k] = s[k]
      /\ Append(s, e)[Len(s) + 1] = e
  BY Appended
<1>2. \A k \in DOMAIN s : s[k] < e
  BY DEF ToSet
<1> SUFFICES ASSUME NEW j \in DOMAIN Append(s, e), NEW k \in DOMAIN Append(s, e), j < k
             PROVE  Append(s, e)[j] < Append(s, e)[k]
  OBVIOUS
<1>3. j \in 1..Len(s) /\ Append(s, e)[j] = s[j]
  BY <1>1
<1>4. CASE k \in 1..Len(s)
  BY <1>1, <1>3, <1>4
<1>5. CASE k = Len(s) + 1
  BY <1>1, <1>2, <1>3, <1>5
<1> QED
  BY <1>1, <1>4, <1>5

------------------------------------------------------------------------------
(***************************************************************************)
(* Messages are begun in order                                             *)
(***************************************************************************)

\* Messages have numbers.
LEMMA BegunType ==
    ASSUME NEW c
    PROVE  \A m \in Begun(c) : m \in 1..MaxPublished /\ m \in Nat
BY SubscriptionsAssumption DEF Begun

\* Something is sent behind all that is on its way, a message if it is a new one.
LEMMA OrderSent ==
    ASSUME Based, Order, UNCHANGED <<received, emits>>, NEW e \in {Reply} \cup Messages,
           wire' = Append(wire, e),
           \A c \in Channels : published'[c] \in 0..MaxPublished /\ published[c] <= published'[c],
           \A c \in Channels, n \in 1..MaxPublished :
               e = Message(c, n) => published[c] < n /\ n <= published'[c],
           MalformedIsPublished'
    PROVE  Order'
<1> USE DEF Based, Wired
<1>1. /\ wire \in Seq({Reply} \cup Messages) /\ Len(wire) \in Nat /\ DOMAIN wire = 1..Len(wire)
  BY RepliesAre
<1>2. /\ \A c \in Channels : published[c] \in 0..MaxPublished
      /\ MaxPublished \in Nat
  BY SubscriptionsAssumption DEF ManagerOK
<1>3. \A c \in Channels : published[c] <= published'[c]
  OBVIOUS
<1>4. \A c : Begun(c)' = Begun(c)
  BY DEF Begun, Given
<1>5. BegunIsPublished'
  BY <1>2, <1>3, <1>4, BegunType DEF Order, BegunIsPublished
<1>6. PICK p : p = Len(wire) + 1
  OBVIOUS
<1>7. /\ DOMAIN wire' = DOMAIN wire \cup {p} /\ p \in Nat
      /\ \A k \in DOMAIN wire : wire'[k] = wire[k] /\ k < p /\ k \in Nat
      /\ wire'[p] = e
  <2>1. /\ DOMAIN wire' = 1..(Len(wire) + 1)
        /\ \A k \in 1..Len(wire) : wire'[k] = wire[k]
        /\ wire'[Len(wire) + 1] = e
    BY <1>1, Appended
  <2> QED
    BY <1>1, <1>6, <2>1
<1>8. WireIsPublished'
  BY <1>2, <1>3, <1>7 DEF Order, WireIsPublished
<1>9. WireIsOrdered'
  <2> SUFFICES ASSUME NEW j \in DOMAIN wire', NEW k \in DOMAIN wire', NEW c \in Channels,
                      NEW m \in 1..MaxPublished, NEW n \in 1..MaxPublished, j < k,
                      wire'[j] = Message(c, m), wire'[k] = Message(c, n)
               PROVE  m < n
    BY DEF WireIsOrdered
  <2>1. j \in DOMAIN wire
    BY <1>7
  <2>2. CASE k \in DOMAIN wire
    BY <1>7, <2>1, <2>2 DEF Order, WireIsOrdered
  <2>3. CASE k \notin DOMAIN wire
    <3>1. published[c] < n
      BY <1>7, <2>3
    <3>2. m <= published[c]
      BY <1>7, <2>1 DEF Order, WireIsPublished
    <3> QED
      BY <1>2, <3>1, <3>2
  <2> QED
    BY <2>2, <2>3
<1>10. BegunBefore'
  <2> SUFFICES ASSUME NEW k \in DOMAIN wire', NEW c \in Channels, NEW n \in 1..MaxPublished,
                      wire'[k] = Message(c, n), NEW m \in Begun(c)
               PROVE  m < n
    BY <1>4 DEF BegunBefore
  <2>1. CASE k \in DOMAIN wire
    BY <1>7, <2>1 DEF Order, BegunBefore
  <2>2. CASE k \notin DOMAIN wire
    <3>1. published[c] < n
      BY <1>7, <2>2
    <3>2. m <= published[c] /\ m \in Nat
      BY BegunType DEF Order, BegunIsPublished
    <3> QED
      BY <1>2, <3>1, <3>2
  <2> QED
    BY <2>1, <2>2
<1> QED
  BY <1>5, <1>8, <1>9, <1>10 DEF Order

\* Iterators are given numbers.
LEMMA GivenType ==
    ASSUME LoopsOK
    PROVE  \A i \in Iterators : \A m \in Given(i) : m \in 1..MaxPublished /\ m \in Nat
<1>1. ASSUME NEW S, NEW s \in Seq(S), NEW h \in DOMAIN s
      PROVE  s[h] \in S
  BY <1>1
<1>2. \A i \in Iterators : received[i] \in Seq(1..MaxPublished)
  BY DEF LoopsOK
<1> QED
  BY <1>1, <1>2, SubscriptionsAssumption DEF Given, ToSet

\* An iterator is given a message.
LEMMA GivesMore ==
    ASSUME LoopsOK, NEW j \in Iterators, NEW n \in 1..MaxPublished,
           received' = [received EXCEPT ![j] = Append(@, n)]
    PROVE  \A i \in Iterators : Given(i)' = IF i = j THEN Given(i) \cup {n} ELSE Given(i)
<1> DEFINE S == 1..MaxPublished
<1>1. received \in [Iterators -> Seq(S)] /\ n \in S
  BY DEF LoopsOK
<1> HIDE DEF S
<1>2. received'[j] = Append(received[j], n) /\ received[j] \in Seq(S)
  BY <1>1
<1>3. \A i \in Iterators : i # j => received'[i] = received[i]
  BY <1>1
<1>4. ToSet(Append(received[j], n)) = ToSet(received[j]) \cup {n}
  BY <1>1, <1>2, MembersAppended
<1>5. Given(j)' = Given(j) \cup {n}
  BY <1>2, <1>4 DEF Given
<1>6. \A i \in Iterators : i # j => Given(i)' = Given(i)
  BY <1>3 DEF Given
<1> QED
  BY <1>5, <1>6

\* What a turn of a loop begins is its own message, which its channel may know already.
LEMMA TurnBegins ==
    ASSUME LoopsOK, RecordsAreMade, NEW list \in Iterators, NEW n \in 1..MaxPublished, NEW at \in Nat,
           NEW others \in Seq(LoopType), Gives(list, n, at, others),
           NEW c \in Channels, NEW m \in Begun(c)'
    PROVE  \/ m = n /\ c = ChannelOf[list]
           \/ \E i \in Iterators : ChannelOf[i] = c /\ m \in Given(i)
           \/ \E k \in DOMAIN others : On(others[k]) = c /\ others[k].n = m
<1>1. /\ received \in [Iterators -> Seq(1..MaxPublished)]
      /\ made \in Seq(Iterators) /\ Len(made) \in Nat /\ DOMAIN made = 1..Len(made)
  BY DEF LoopsOK
<1>2. \/ \E i \in Iterators : ChannelOf[i] = c /\ m \in Given(i)'
      \/ \E k \in DOMAIN emits' : On(emits'[k]) = c /\ emits'[k].n = m
  BY DEF Begun, On
<1>3. CASE emits' = others /\ UNCHANGED received
  BY <1>2, <1>3 DEF Given
<1>4. ASSUME NEW p \in Hearing(list, n, at),
             received' = [received EXCEPT ![made[p]] = Append(@, n)],
             emits' = Append(others, [list |-> list, n |-> n, at |-> p])
      PROVE  \/ m = n /\ c = ChannelOf[list]
             \/ \E i \in Iterators : ChannelOf[i] = c /\ m \in Given(i)
             \/ \E k \in DOMAIN others : On(others[k]) = c /\ others[k].n = m
  <2>1. p \in DOMAIN made /\ p \in Nat /\ made[p] \in Iterators
    BY <1>1 DEF Hearing
  <2>2. ChannelOf[list] \in Channels /\ ChannelOf[made[p]] = ChannelOf[list]
    BY SubscriptionsAssumption DEF Hearing, RecordsAreMade
  <2>3. \A i \in Iterators : Given(i)' = IF i = made[p] THEN Given(i) \cup {n} ELSE Given(i)
    BY <1>4, <2>1, GivesMore
  <2>4. PICK f : f = [list |-> list, n |-> n, at |-> p]
    OBVIOUS
  <2>5. f \in LoopType /\ f.list = list /\ f.n = n
    BY <2>1, <2>4 DEF LoopType
  <2>6. /\ DOMAIN emits' = 1..(Len(others) + 1) /\ Len(others) \in Nat
        /\ DOMAIN others = 1..Len(others)
        /\ \A k \in 1..Len(others) : emits'[k] = others[k]
        /\ emits'[Len(others) + 1] = f
    BY <1>4, <2>4, <2>5, Appended
  <2>7. \A k \in DOMAIN emits' : (k \in DOMAIN others /\ emits'[k] = others[k]) \/ emits'[k] = f
    BY <2>6
  <2> QED
    BY <1>2, <2>2, <2>3, <2>5, <2>7 DEF On
<1> QED
  BY <1>3, <1>4 DEF Gives

\* A loop goes on: it begins nothing new.
LEMMA OrderHandedOn ==
    ASSUME Based, LoopsOK, Order, HandOn
    PROVE  Order'
<1>1. /\ UNCHANGED <<wire, published, malformed>> /\ emits # <<>>
      /\ Gives(Head(emits).list, Head(emits).n, Head(emits).at, Tail(emits))
  BY DEF HandOn, wireVars
<1>2. /\ Head(emits) \in LoopType /\ Tail(emits) \in Seq(LoopType)
      /\ ToSet(emits) = ToSet(Tail(emits)) \cup {Head(emits)}
  <2>1. emits \in Seq(LoopType)
    BY DEF LoopsOK, LoopType
  <2> QED
    BY <1>1, <2>1, Taken, MembersTaken
<1>3. PICK e, others : e = Head(emits) /\ others = Tail(emits)
  OBVIOUS
<1>4. /\ e \in LoopType /\ others \in Seq(LoopType) /\ Gives(e.list, e.n, e.at, others)
      /\ ToSet(emits) = ToSet(others) \cup {e}
      /\ e.list \in Iterators /\ e.n \in 1..MaxPublished /\ e.at \in Nat
  BY <1>1, <1>2, <1>3 DEF LoopType
<1>5. ASSUME NEW c \in Channels, NEW m \in Begun(c)'
      PROVE  m \in Begun(c)
  <2>1. m \in 1..MaxPublished
    BY DEF Begun
  <2>2. \/ m = e.n /\ c = ChannelOf[e.list]
        \/ \E i \in Iterators : ChannelOf[i] = c /\ m \in Given(i)
        \/ \E k \in DOMAIN others : On(others[k]) = c /\ others[k].n = m
    BY <1>4, TurnBegins DEF Based
  <2>3. ASSUME NEW f \in ToSet(emits), On(f) = c, f.n = m
        PROVE  m \in Begun(c)
    BY <2>1, <2>3 DEF Begun, ToSet
  <2>4. \A k \in DOMAIN others : others[k] \in ToSet(emits)
    BY <1>4 DEF ToSet
  <2>5. CASE m = e.n /\ c = ChannelOf[e.list]
    BY <1>4, <2>3, <2>5 DEF On
  <2>6. CASE \E i \in Iterators : ChannelOf[i] = c /\ m \in Given(i)
    BY <2>1, <2>6 DEF Begun
  <2>7. CASE \E k \in DOMAIN others : On(others[k]) = c /\ others[k].n = m
    BY <2>3, <2>4, <2>7
  <2> QED
    BY <2>2, <2>5, <2>6, <2>7
<1>6. WireIsPublished' /\ WireIsOrdered' /\ MalformedIsPublished'
  BY <1>1 DEF Order, WireIsPublished, WireIsOrdered, MalformedIsPublished
<1>7. BegunBefore' /\ BegunIsPublished'
  BY <1>1, <1>5 DEF Order, BegunBefore, BegunIsPublished
<1> QED
  BY <1>6, <1>7 DEF Order

\* A message that is read is begun in its own channel alone.
LEMMA EmitBegins ==
    ASSUME Based, LoopsOK, NEW c \in Channels, NEW n \in 1..MaxPublished, Emit(c, n),
           NEW d \in Channels, NEW m \in Begun(d)'
    PROVE  m \in Begun(d) \/ (m = n /\ d = c)
<1>1. m \in 1..MaxPublished
  BY DEF Begun
<1>2. CASE record[c] = None
  <2>1. UNCHANGED <<received, emits>>
    BY <1>2 DEF Emit
  <2> QED
    BY <2>1 DEF Begun, Given
<1>3. CASE record[c] # None
  <2>1. /\ Gives(record[c], n, 0, emits) /\ record[c] \in Iterators /\ 0 \in Nat
        /\ ChannelOf[record[c]] = c
    BY <1>3 DEF Emit, Based, Wired, ManagerOK, RecordsAreMade
  <2>2. PICK list, at : list = record[c] /\ at = 0
    OBVIOUS
  <2>3. /\ list \in Iterators /\ at \in Nat /\ Gives(list, n, at, emits) /\ ChannelOf[list] = c
        /\ emits \in Seq(LoopType)
    BY <2>1, <2>2 DEF LoopsOK, LoopType
  <2>4. \/ m = n /\ d = ChannelOf[list]
        \/ \E i \in Iterators : ChannelOf[i] = d /\ m \in Given(i)
        \/ \E k \in DOMAIN emits : On(emits[k]) = d /\ emits[k].n = m
    BY <2>3, TurnBegins DEF Based
  <2> QED
    BY <1>1, <2>3, <2>4 DEF Begun
<1> QED
  BY <1>2, <1>3

\* What was sent first is read, and begun if it is a message.
LEMMA OrderRead ==
    ASSUME Based, LoopsOK, Order, Read
    PROVE  Order'
<1> USE DEF Based, Wired
<1>1. /\ wire # <<>> /\ wire' = Tail(wire) /\ UNCHANGED <<published, malformed>>
      /\ wire \in Seq({Reply} \cup Messages)
  BY RepliesAre DEF Read
<1>2. /\ DOMAIN wire' \subseteq Nat
      /\ 1 \in DOMAIN wire /\ Head(wire) = wire[1]
      /\ \A k \in DOMAIN wire' : k + 1 \in DOMAIN wire /\ wire'[k] = wire[k + 1] /\ 1 < k + 1
  <2>1. /\ Len(wire) \in Nat /\ Len(wire) >= 1
        /\ DOMAIN wire = 1..Len(wire) /\ DOMAIN wire' = 1..(Len(wire) - 1)
        /\ \A k \in 1..(Len(wire) - 1) : wire'[k] = wire[k + 1]
        /\ Head(wire) = wire[1]
    BY <1>1, Taken
  <2> QED
    BY <2>1
<1>3. \A j, k \in DOMAIN wire' : j < k => j + 1 < k + 1
  BY <1>2
<1>4. WireIsPublished'
  BY <1>1, <1>2 DEF Order, WireIsPublished
<1>5. WireIsOrdered'
  BY <1>1, <1>2, <1>3 DEF Order, WireIsOrdered
<1>6. MalformedIsPublished'
  BY <1>1 DEF Order, MalformedIsPublished
<1>7. CASE UNCHANGED <<received, emits>>
  <2>1. \A c : Begun(c)' = Begun(c)
    BY <1>7 DEF Begun, Given
  <2>2. BegunBefore' /\ BegunIsPublished'
    BY <1>1, <1>2, <2>1 DEF Order, BegunBefore, BegunIsPublished
  <2> QED
    BY <1>4, <1>5, <1>6, <2>2 DEF Order
<1>8. ASSUME NEW c \in Channels, NEW n \in 1..MaxPublished, Head(wire) = Message(c, n), Emit(c, n)
      PROVE  Order'
  <2>1. \A d \in Channels : \A m \in Begun(d)' : m \in Begun(d) \/ (m = n /\ d = c)
    BY <1>8, EmitBegins
  <2>2. BegunBefore'
    <3> SUFFICES ASSUME NEW k \in DOMAIN wire', NEW d \in Channels, NEW l \in 1..MaxPublished,
                        wire'[k] = Message(d, l), NEW m \in Begun(d)'
                 PROVE  m < l
      BY DEF BegunBefore
    <3>1. k + 1 \in DOMAIN wire /\ wire[k + 1] = Message(d, l) /\ 1 < k + 1
      BY <1>2
    <3>2. CASE m \in Begun(d)
      BY <3>1, <3>2 DEF Order, BegunBefore
    <3>3. CASE m = n /\ d = c
      <4>1. wire[1] = Message(d, n)
        BY <1>2, <1>8, <3>3
      <4>2. n < l
        BY <1>2, <3>1, <4>1 DEF Order, WireIsOrdered
      <4> QED
        BY <3>3, <4>2
    <3> QED
      BY <2>1, <3>2, <3>3
  <2>3. BegunIsPublished'
    <3>1. n <= published[c]
      BY <1>2, <1>8 DEF Order, WireIsPublished
    <3> QED
      BY <1>1, <2>1, <3>1 DEF Order, BegunIsPublished
  <2> QED
    BY <1>4, <1>5, <1>6, <2>2, <2>3 DEF Order
<1>9. UNCHANGED <<received, emits>> \/ \E c \in Channels, n \in 1..MaxPublished :
                               Head(wire) = Message(c, n) /\ Emit(c, n)
  BY ReadIs DEF Replied, Subscribed, Unsubscribed
<1> QED
  BY <1>7, <1>8, <1>9

\* A message is published.
LEMMA OrderPublished ==
    ASSUME Based, LoopsOK, Order, NEW c \in Channels, NEW bad, Publish(c, bad),
           \A d \in Channels : published'[d] \in 0..MaxPublished
    PROVE  Order'
<1> USE DEF Based, Wired
<1>1. /\ published' = [published EXCEPT ![c] = @ + 1] /\ UNCHANGED <<received, emits>>
      /\ wire' = IF c \in server THEN Append(wire, Message(c, published'[c])) ELSE wire
      /\ malformed' = malformed \cup {<<i, published'[c]>> : i \in {j \in bad : ChannelOf[j] = c}}
  BY DEF Publish, emitVars
<1>2. \A d \in Channels : published[d] \in 0..MaxPublished
  BY DEF ManagerOK
<1>3. published'[c] = published[c] + 1 /\ \A d \in Channels : d # c => published'[d] = published[d]
  BY <1>1 DEF ManagerOK
<1>4. published'[c] \in 1..MaxPublished /\ \A d \in Channels : published[d] <= published'[d]
  BY <1>2, <1>3, SubscriptionsAssumption
<1>5. \A i \in Iterators : ChannelOf[i] \in Channels
  BY SubscriptionsAssumption
<1>6. MalformedIsPublished'
  <2> SUFFICES ASSUME NEW i \in Iterators, NEW n \in 1..MaxPublished, <<i, n>> \in malformed'
               PROVE  n <= published'[ChannelOf[i]]
    BY DEF MalformedIsPublished
  <2>1. CASE <<i, n>> \in malformed
    <3>1. n <= published[ChannelOf[i]]
      BY <2>1 DEF Order, MalformedIsPublished
    <3> QED
      BY <1>2, <1>4, <1>5, <3>1
  <2>2. CASE <<i, n>> \notin malformed
    <3>1. n = published'[c] /\ ChannelOf[i] = c
      BY <1>1, <2>2
    <3> QED
      BY <1>4, <3>1
  <2> QED
    BY <2>1, <2>2
<1>7. CASE c \in server
  <2>1. PICK e : e = Message(c, published'[c])
    OBVIOUS
  <2>2. e \in Messages /\ wire' = Append(wire, e)
    BY <1>1, <1>4, <1>7, <2>1, MessageParts
  <2>3. \A d \in Channels, n \in 1..MaxPublished : e = Message(d, n) => d = c /\ n = published'[c]
    BY <2>1 DEF Message
  <2>4. published[c] < published'[c]
    BY <1>2, <1>3
  <2>5. \A d \in Channels, n \in 1..MaxPublished : e = Message(d, n) => published[d] < n /\ n <= published'[d]
    BY <1>4, <2>3, <2>4
  <2> QED
    BY <1>1, <1>4, <1>6, <2>2, <2>5, OrderSent
<1>8. CASE c \notin server
  <2>1. wire' = wire
    BY <1>1, <1>8
  <2>2. \A d : Begun(d)' = Begun(d)
    BY <1>1 DEF Begun, Given
  <2>3. WireIsPublished'
    BY <1>2, <1>4, <2>1 DEF Order, WireIsPublished
  <2>4. BegunIsPublished'
    BY <1>2, <1>4, <2>2, BegunType DEF Order, BegunIsPublished
  <2> QED
    BY <1>6, <2>1, <2>2, <2>3, <2>4 DEF Order, WireIsOrdered, BegunBefore
<1> QED
  BY <1>7, <1>8

\* Nothing that happens brings messages out of order on their way.
LEMMA OrderKept ==
    ASSUME CommandsInv, Order, [Next]_vars
    PROVE  Order'
<1> USE DEF CommandsInv
<1>1. \A c \in Channels : published'[c] \in 0..MaxPublished /\ published[c] \in 0..MaxPublished
  BY CommandsKept DEF Based, Wired, ManagerOK
<1>2. ASSUME wire' = <<>> \/ UNCHANGED wire, UNCHANGED <<published, received, emits, malformed>>
      PROVE  Order'
  <2>1. \A c : Begun(c)' = Begun(c)
    BY <1>2 DEF Begun, Given
  <2>2. BegunIsPublished' /\ MalformedIsPublished'
    BY <1>2, <2>1 DEF Order, BegunIsPublished, MalformedIsPublished
  <2>3. WireIsPublished' /\ WireIsOrdered' /\ BegunBefore'
    BY <1>2, <2>1 DEF Order, WireIsPublished, WireIsOrdered, BegunBefore
  <2> QED
    BY <2>2, <2>3 DEF Order
<1>3. ASSUME NEW c \in Channels, NEW bad, Publish(c, bad)
      PROVE  Order'
  BY <1>1, <1>3, OrderPublished
<1>4. CASE Execute
  <2>1. wire' = Append(wire, Reply) /\ UNCHANGED <<published, received, emits, malformed>>
    BY <1>4 DEF Execute, emitVars, historyVars
  <2>2. PICK e : e = Reply
    OBVIOUS
  <2>3. \A d \in Channels, n \in 1..MaxPublished : e # Message(d, n)
    BY <2>2, MessageParts
  <2>4. \A d \in Channels : published[d] <= published'[d]
    BY <1>1, <2>1
  <2>5. MalformedIsPublished'
    BY <2>1 DEF Order, MalformedIsPublished
  <2> QED
    BY <1>1, <2>1, <2>2, <2>3, <2>4, <2>5, OrderSent
<1>5. CASE Read
  BY <1>5, OrderRead
<1>6. CASE HandOn
  BY <1>6, OrderHandedOn
<1>7. CASE ConnectionClosed \/ Break
  BY <1>2, <1>7 DEF ConnectionClosed, Break, emitVars, historyVars
<1>8. ASSUME \/ \E i \in Iterators : (\E ensures \in BOOLEAN : Iterate(i, ensures)) \/ Off(i)
             \/ \E c \in Channels : Ensure(c)
             \/ Dispose \/ DisposeLists \/ Reconnect \/ GiveUp \/ UNCHANGED vars
      PROVE  Order'
  <2>1. UNCHANGED <<wire, published, received, emits, malformed>>
    BY <1>8 DEF Iterate, Off, Ensure, Dispose, DisposeLists, Reconnect, GiveUp, vars, wireVars,
                emitVars, historyVars
  <2> QED
    BY <1>2, <2>1
<1> QED
  BY <1>3, <1>4, <1>5, <1>6, <1>7, <1>8 DEF Next

------------------------------------------------------------------------------
(***************************************************************************)
(* A turn of a loop                                                        *)
(***************************************************************************)

\* What a turn gives to is the next listener behind the place of the loop.
LEMMA HearsNext ==
    ASSUME LoopsOK, RecordsAreMade, NEW e \in LoopType, NEW p \in Hearing(e.list, e.n, e.at),
           \A q \in Hearing(e.list, e.n, e.at) : p <= q
    PROVE  /\ p \in DOMAIN made /\ p \in Nat /\ e.at < p /\ made[p] \in Iterators
           /\ made[p] \in listeners[On(e)] /\ ChannelOf[made[p]] = On(e) /\ On(e) \in Channels
           /\ Calm(On(e)) => \A q \in DOMAIN made :
                 made[q] \in listeners[On(e)] /\ e.at < q => p <= q
<1>1. /\ made \in Seq(Iterators) /\ Len(made) \in Nat /\ DOMAIN made = 1..Len(made)
      /\ e.list \in Iterators /\ e.n \in 1..MaxPublished /\ e.at \in Nat
  BY DEF LoopsOK, LoopType
<1>2. /\ p \in DOMAIN made /\ p \in Nat /\ e.at < p /\ made[p] \in Iterators
      /\ record[On(e)] = e.list /\ made[p] \in listeners[On(e)] /\ <<made[p], e.n>> \notin malformed
  BY <1>1 DEF Hearing, On
<1>3. On(e) \in Channels /\ \A i \in listeners[On(e)] : ChannelOf[i] = On(e)
  BY <1>1, SubscriptionsAssumption DEF On, RecordsAreMade
<1>4. ASSUME Calm(On(e)), NEW q \in DOMAIN made, made[q] \in listeners[On(e)], e.at < q
      PROVE  p <= q
  <2>1. made[q] \in Iterators /\ ChannelOf[made[q]] = On(e) /\ ChannelOf[made[p]] = On(e)
    BY <1>1, <1>2, <1>3, <1>4
  <2>2. <<made[q], e.n>> \notin malformed
    BY <1>1, <1>2, <1>4, <2>1 DEF Calm, ParsedAlike
  <2>3. q \in e.at + 1 .. Len(made)
    BY <1>1, <1>4
  <2>4. q \in Hearing(e.list, e.n, e.at)
    BY <1>2, <1>4, <2>2, <2>3 DEF Hearing, On
  <2> QED
    BY <2>4
<1> QED
  BY <1>2, <1>3, <1>4

\* A turn gives a message to somebody who did not have it, and in a calm channel none later.
LEMMA TurnDelivers ==
    ASSUME LoopsOK, Placed, NEW e \in LoopType, Fits(e), NEW p \in DOMAIN made, e.at < p, p \in Nat,
           ChannelOf[made[p]] = On(e), UNCHANGED <<malformed, stirred>>,
           received' = [received EXCEPT ![made[p]] = Append(@, e.n)], NoneTwice, InOrder
    PROVE  NoneTwice' /\ InOrder'
<1> DEFINE j == made[p]
           S == 1..MaxPublished
<1>1. /\ j \in Iterators /\ received \in [Iterators -> Seq(S)] /\ e.n \in S /\ e.at \in Nat
      /\ MaxPublished \in Nat
  BY SubscriptionsAssumption DEF LoopsOK, LoopType
<1>2. e.n \notin ToSet(received[j])
  BY <1>1 DEF Fits, Given
<1>3. Calm(On(e)) => \A m \in ToSet(received[j]) : m < e.n
  BY <1>1 DEF Fits, Given
<1> HIDE DEF S
<1>4. /\ received'[j] = Append(received[j], e.n) /\ received[j] \in Seq(S)
      /\ \A i \in Iterators : i # j => received'[i] = received[i]
  BY <1>1
<1>5. \A g, h \in DOMAIN received'[j] : g # h => received'[j][g] # received'[j][h]
  <2>1. \A g, h \in DOMAIN received[j] : g # h => received[j][g] # received[j][h]
    BY <1>1 DEF NoneTwice
  <2>2. PICK s, n : s = received[j] /\ n = e.n
    OBVIOUS
  <2>3. s \in Seq(S) /\ n \in S /\ n \notin ToSet(s)
    BY <1>1, <1>2, <1>4, <2>2
  <2>4. \A g, h \in DOMAIN s : g # h => s[g] # s[h]
    BY <2>1, <2>2
  <2>5. \A g, h \in DOMAIN Append(s, n) : g # h => Append(s, n)[g] # Append(s, n)[h]
    BY <2>3, <2>4, AppendedApart
  <2> QED
    BY <1>4, <2>2, <2>5
<1>6. NoneTwice'
  BY <1>4, <1>5 DEF NoneTwice
<1>7. ASSUME Calm(On(e))
      PROVE  \A g, h \in DOMAIN received'[j] : g < h => received'[j][g] < received'[j][h]
  <2>1. \A g, h \in DOMAIN received[j] : g < h => received[j][g] < received[j][h]
    BY <1>1, <1>7 DEF InOrder, Calm
  <2>2. PICK s : s = received[j]
    OBVIOUS
  <2>3. \A g, h \in DOMAIN Append(s, e.n) : g < h => Append(s, e.n)[g] < Append(s, e.n)[h]
    BY <1>1, <1>3, <1>4, <1>7, <2>1, <2>2, AppendedAscends DEF S
  <2> QED
    BY <1>4, <2>2, <2>3
<1>8. InOrder'
  <2> SUFFICES ASSUME NEW i \in Iterators, ParsedAlike(ChannelOf[i])', ChannelOf[i] \notin stirred'
               PROVE  \A g, h \in DOMAIN received'[i] : g < h => received'[i][g] < received'[i][h]
    BY DEF InOrder
  <2>1. Calm(ChannelOf[i])
    BY DEF Calm, ParsedAlike
  <2>2. CASE i = j
    BY <1>7, <2>1, <2>2
  <2>3. CASE i # j
    BY <1>4, <2>1, <2>3 DEF InOrder, Calm
  <2> QED
    BY <2>2, <2>3
<1> QED
  BY <1>6, <1>8

\* The other loops stay behind or ahead of what a turn gives.
LEMMA TurnFitsOthers ==
    ASSUME LoopsOK, Placed, NEW e \in LoopType, NEW p \in DOMAIN made, e.at < p, p \in Nat,
           made[p] \in Iterators,
           Calm(On(e)) => \A q \in DOMAIN made : made[q] \in listeners[On(e)] /\ e.at < q => p <= q,
           UNCHANGED <<made, record, listeners, malformed, stirred>>,
           received' = [received EXCEPT ![made[p]] = Append(@, e.n)],
           ChannelOf[made[p]] = On(e),
           NEW f \in LoopType, Fits(f), Rests(f), Paired(e, f)
    PROVE  Fits(f)' /\ Rests(f)'
<1>1. /\ e.n \in 1..MaxPublished /\ f.n \in 1..MaxPublished /\ e.at \in Nat /\ f.at \in Nat
      /\ MaxPublished \in Nat /\ DOMAIN made \subseteq Nat
  <2>1. DOMAIN made \subseteq Nat
    BY DEF LoopsOK
  <2> QED
    BY <2>1, SubscriptionsAssumption DEF LoopType
<1>2. \A i \in Iterators : Given(i)' = IF i = made[p] THEN Given(i) \cup {e.n} ELSE Given(i)
  BY <1>1, GivesMore
<1>3. \A q \in DOMAIN made : made[q] \in Iterators /\ (made[q] = made[p] => q = p)
  BY DEF LoopsOK, Placed
<1>4. \A c : Calm(c)' = Calm(c)
  BY DEF Calm, ParsedAlike
<1>5. ASSUME NEW q \in DOMAIN made, ChannelOf[made[q]] = On(f), f.n \in Given(made[q])'
      PROVE  q <= f.at
  <2>1. CASE f.n \in Given(made[q])
    BY <1>5, <2>1 DEF Fits
  <2>2. CASE f.n \notin Given(made[q])
    <3>1. q = p /\ f.n = e.n
      BY <1>2, <1>3, <1>5, <2>2
    <3> QED
      BY <1>5, <3>1 DEF Paired
  <2> QED
    BY <2>1, <2>2
<1>6. ASSUME Calm(On(f)), NEW q \in DOMAIN made, ChannelOf[made[q]] = On(f), q > f.at,
             NEW m \in Given(made[q])'
      PROVE  m < f.n
  <2>1. CASE m \in Given(made[q])
    BY <1>6, <2>1 DEF Fits
  <2>2. CASE m \notin Given(made[q])
    <3>1. q = p /\ m = e.n /\ On(e) = On(f)
      BY <1>2, <1>3, <1>6, <2>2
    <3>2. e.n # f.n /\ IF e.n < f.n THEN e.at = f.at ELSE NextTo(On(e), e.at, f.at)
      BY <1>6, <3>1 DEF Paired
    <3>3. CASE e.n < f.n
      BY <3>1, <3>3
    <3>4. CASE ~(e.n < f.n)
      <4>1. e.at < f.at /\ f.at \in DOMAIN made /\ made[f.at] \in listeners[On(e)]
        BY <1>6, <3>1, <3>2, <3>4 DEF NextTo, Rests
      <4>2. p <= f.at
        BY <1>6, <3>1, <4>1
      <4> QED
        BY <1>1, <1>6, <3>1, <4>2
    <3> QED
      BY <3>3, <3>4
  <2> QED
    BY <2>1, <2>2
<1>7. Calm(On(f)) => f.list = record[On(f)]
  BY DEF Fits
<1>8. Fits(f)'
  BY <1>4, <1>5, <1>6, <1>7 DEF Fits, On
<1>9. Rests(f)'
  BY <1>4 DEF Rests, On
<1> QED
  BY <1>8, <1>9

\* The loop itself fits at its new place, behind the others.
LEMMA TurnFitsItself ==
    ASSUME LoopsOK, Placed, NEW e \in LoopType, Fits(e), NEW p \in DOMAIN made, e.at < p, p \in Nat,
           made[p] \in Iterators, made[p] \in listeners[On(e)],
           Calm(On(e)) => \A q \in DOMAIN made : made[q] \in listeners[On(e)] /\ e.at < q => p <= q,
           UNCHANGED <<made, record, listeners, malformed, stirred>>,
           received' = [received EXCEPT ![made[p]] = Append(@, e.n)],
           NEW g \in LoopType, g.list = e.list, g.n = e.n, g.at = p
    PROVE  /\ Fits(g)' /\ Rests(g)'
           /\ \A f \in LoopType : Rests(f) /\ Paired(e, f) => Paired(f, g)'
<1>1. /\ e.n \in 1..MaxPublished /\ e.at \in Nat
      /\ MaxPublished \in Nat /\ DOMAIN made \subseteq Nat /\ On(g) = On(e)
  BY SubscriptionsAssumption DEF LoopType, LoopsOK, On
<1>2. \A i \in Iterators : Given(i)' = IF i = made[p] THEN Given(i) \cup {e.n} ELSE Given(i)
  BY <1>1, GivesMore
<1>3. \A q \in DOMAIN made : made[q] \in Iterators /\ (made[q] = made[p] => q = p)
  BY DEF LoopsOK, Placed
<1>4. \A c : Calm(c)' = Calm(c)
  BY DEF Calm, ParsedAlike
<1>5. ASSUME NEW q \in DOMAIN made, ChannelOf[made[q]] = On(g), g.n \in Given(made[q])'
      PROVE  q <= g.at
  <2>1. CASE q = p
    BY <1>1, <2>1
  <2>2. CASE q # p
    <3>1. e.n \in Given(made[q])
      BY <1>2, <1>3, <1>5, <2>2
    <3>2. q <= e.at
      BY <1>1, <1>5, <3>1 DEF Fits
    <3> QED
      BY <1>1, <3>2
  <2> QED
    BY <2>1, <2>2
<1>6. ASSUME Calm(On(g)), NEW q \in DOMAIN made, ChannelOf[made[q]] = On(g), q > g.at,
             NEW m \in Given(made[q])'
      PROVE  m < g.n
  <2>1. q > e.at /\ q # p
    BY <1>1, <1>6
  <2>2. m \in Given(made[q])
    BY <1>2, <1>3, <1>6, <2>1
  <2> QED
    BY <1>1, <1>6, <2>1, <2>2 DEF Fits
<1>7. Calm(On(g)) => g.list = record[On(g)]
  BY <1>1 DEF Fits
<1>8. Fits(g)'
  BY <1>4, <1>5, <1>6, <1>7 DEF Fits, On
<1>9. Rests(g)'
  BY <1>1, <1>4 DEF Rests, On
<1>10. ASSUME NEW f \in LoopType, Rests(f), Paired(e, f)
       PROVE  Paired(f, g)'
  <2>1. f.n \in 1..MaxPublished /\ f.at \in Nat
    BY DEF LoopType
  <2>2. \A c, q, r : NextTo(c, q, r)' = NextTo(c, q, r)
    BY DEF NextTo
  <2>3. ASSUME On(f) = On(g), Calm(On(f))
        PROVE  IF f.n < g.n THEN f.at = g.at ELSE NextTo(On(f), f.at, g.at)
    <3>1. /\ On(e) = On(f) /\ Calm(On(e)) /\ e.n # f.n
          /\ IF e.n < f.n THEN e.at = f.at ELSE NextTo(On(e), e.at, f.at)
          /\ f.at \in DOMAIN made /\ made[f.at] \in listeners[On(e)]
          /\ \A q \in DOMAIN made : made[q] \in listeners[On(e)] /\ e.at < q => p <= q
      BY <1>1, <1>10, <2>3 DEF Paired, Rests
    <3>2. CASE f.n < g.n
      <4>1. NextTo(On(e), e.at, f.at)
        BY <1>1, <2>1, <3>1, <3>2
      <4>2. p <= f.at
        BY <3>1, <4>1 DEF NextTo
      <4>3. ~(p < f.at)
        BY <4>1 DEF NextTo
      <4> QED
        BY <2>1, <3>2, <4>2, <4>3
    <3>3. CASE ~(f.n < g.n)
      <4>1. e.at = f.at
        BY <1>1, <2>1, <3>1, <3>3
      <4>2. NextTo(On(f), f.at, p)
        BY <1>1, <3>1, <4>1 DEF NextTo
      <4> QED
        BY <3>3, <4>2
    <3> QED
      BY <3>2, <3>3
  <2>4. On(f) = On(g) => f.n # g.n
    BY <1>1, <1>10 DEF Paired
  <2> QED
    BY <1>4, <2>2, <2>3, <2>4 DEF Paired, On
<1> QED
  BY <1>8, <1>9, <1>10

\* After a turn all loops are as they should be.
LEMMA TurnHands ==
    ASSUME LoopsOK, RecordsAreMade, Placed, NoneTwice, InOrder,
           NEW e \in LoopType, Fits(e), NEW others \in Seq(LoopType),
           \A k \in DOMAIN others : Fits(others[k]) /\ Rests(others[k]) /\ Paired(e, others[k]),
           \A j, k \in DOMAIN others : j < k => Paired(others[j], others[k]),
           Gives(e.list, e.n, e.at, others),
           UNCHANGED <<made, iter, record, listeners, malformed, stirred>>,
           reading' => /\ e.at = 0
                       /\ \A k \in DOMAIN others : Calm(On(others[k])) =>
                             \A q \in DOMAIN made :
                                 made[q] \in listeners[On(others[k])] => others[k].at <= q
    PROVE  Handing'
<1>1. /\ made \in Seq(Iterators) /\ DOMAIN made \subseteq Nat /\ Len(others) \in Nat
      /\ DOMAIN others = 1..Len(others)
  BY DEF LoopsOK
<1>2. \A c : Calm(c)' = Calm(c)
  BY DEF Calm, ParsedAlike
<1>3. \A k \in DOMAIN others : others[k] \in LoopType
  BY <1>1
<1>4. CASE emits' = others /\ UNCHANGED received
  <2>1. Placed' /\ NoneTwice' /\ InOrder'
    <3>1. Placed'
      BY <1>4 DEF Placed, Given
    <3>2. NoneTwice'
      BY <1>4 DEF NoneTwice
    <3>3. InOrder'
      BY <1>4 DEF InOrder, ParsedAlike
    <3> QED
      BY <3>1, <3>2, <3>3
  <2>2. \A f \in LoopType : (Fits(f) => Fits(f)') /\ (Rests(f) => Rests(f)')
    BY <1>2, <1>4 DEF Fits, Rests, Given, On
  <2>3. \A f, g \in LoopType : Paired(f, g) => Paired(f, g)'
    BY <1>2 DEF Paired, NextTo, On
  <2>4. LoopsFit'
    <3> SUFFICES ASSUME NEW k \in DOMAIN emits'
                 PROVE  (Fits(emits[k]) /\ Rests(emits[k]))'
      BY DEF LoopsFit
    <3>1. PICK f \in LoopType : f = emits'[k] /\ Fits(f)' /\ Rests(f)'
      BY <1>3, <1>4, <2>2
    <3> QED
      BY <3>1 DEF Fits, Rests, On
  <2>5. LoopsFollow'
    <3> SUFFICES ASSUME NEW j \in DOMAIN emits', NEW k \in DOMAIN emits', j < k
                 PROVE  Paired(emits[j], emits[k])'
      BY DEF LoopsFollow
    <3>1. PICK f \in LoopType, g \in LoopType : f = emits'[j] /\ g = emits'[k] /\ Paired(f, g)'
      BY <1>3, <1>4, <2>3
    <3> QED
      BY <3>1 DEF Paired, On
  <2>6. Together'
    BY <1>2, <1>4 DEF Together, On
  <2> QED
    BY <2>1, <2>4, <2>5, <2>6 DEF Handing
<1>5. ASSUME NEW p \in Hearing(e.list, e.n, e.at),
             \A q \in Hearing(e.list, e.n, e.at) : p <= q,
             received' = [received EXCEPT ![made[p]] = Append(@, e.n)],
             emits' = Append(others, [list |-> e.list, n |-> e.n, at |-> p])
      PROVE  Handing'
  <2>1. /\ p \in DOMAIN made /\ p \in Nat /\ e.at < p /\ made[p] \in Iterators
        /\ made[p] \in listeners[On(e)] /\ ChannelOf[made[p]] = On(e) /\ On(e) \in Channels
        /\ Calm(On(e)) => \A q \in DOMAIN made :
              made[q] \in listeners[On(e)] /\ e.at < q => p <= q
    BY <1>5, HearsNext
  <2>2. PICK g : g = [list |-> e.list, n |-> e.n, at |-> p]
    OBVIOUS
  <2>3. g \in LoopType /\ g.list = e.list /\ g.n = e.n /\ g.at = p /\ On(g) = On(e)
    BY <2>1, <2>2 DEF LoopType, On
  <2>4. NoneTwice' /\ InOrder'
    BY <1>5, <2>1, TurnDelivers
  <2>5. /\ Fits(g)' /\ Rests(g)'
        /\ \A f \in LoopType : Rests(f) /\ Paired(e, f) => Paired(f, g)'
    BY <1>5, <2>1, <2>3, TurnFitsItself
  <2>6. \A f \in LoopType : Fits(f) /\ Rests(f) /\ Paired(e, f) => Fits(f)' /\ Rests(f)'
    BY <1>5, <2>1, TurnFitsOthers
  <2>7. \A f, h \in LoopType : Paired(f, h) => Paired(f, h)'
    BY <1>2 DEF Paired, NextTo, On
  <2>8. /\ DOMAIN emits' = 1..(Len(others) + 1)
        /\ \A k \in DOMAIN others : emits'[k] = others[k]
        /\ emits'[Len(others) + 1] = g
    BY <1>1, <1>5, <2>2, <2>3, Appended
  <2>9. LoopsFit'
    <3> SUFFICES ASSUME NEW k \in DOMAIN emits'
                 PROVE  (Fits(emits[k]) /\ Rests(emits[k]))'
      BY DEF LoopsFit
    <3>1. CASE k \in DOMAIN others
      <4>1. PICK f \in LoopType : f = emits'[k] /\ Fits(f)' /\ Rests(f)'
        BY <1>3, <2>6, <2>8, <3>1
      <4> QED
        BY <4>1 DEF Fits, Rests, On
    <3>2. CASE k = Len(others) + 1
      <4>1. g = emits'[k]
        BY <2>8, <3>2
      <4> QED
        BY <2>5, <4>1 DEF Fits, Rests, On
    <3> QED
      BY <1>1, <2>8, <3>1, <3>2
  <2>10. LoopsFollow'
    <3> SUFFICES ASSUME NEW j \in DOMAIN emits', NEW k \in DOMAIN emits', j < k
                 PROVE  Paired(emits[j], emits[k])'
      BY DEF LoopsFollow
    <3>1. j \in DOMAIN others
      BY <1>1, <2>8
    <3>2. CASE k \in DOMAIN others
      <4>1. PICK f \in LoopType, h \in LoopType : f = emits'[j] /\ h = emits'[k] /\ Paired(f, h)'
        BY <1>3, <2>7, <2>8, <3>1, <3>2
      <4> QED
        BY <4>1 DEF Paired, On
    <3>3. CASE k = Len(others) + 1
      <4>1. PICK f \in LoopType : f = emits'[j] /\ Paired(f, g)'
        BY <1>3, <2>5, <2>8, <3>1
      <4>2. g = emits'[k]
        BY <2>8, <3>3
      <4> QED
        BY <4>1, <4>2 DEF Paired, On
    <3> QED
      BY <1>1, <2>8, <3>2, <3>3
  <2>11. Together'
    <3> SUFFICES ASSUME reading', NEW k \in DOMAIN emits', Calm(On(emits'[k])),
                        NEW q \in DOMAIN made, made[q] \in listeners[On(emits'[k])]
                 PROVE  emits'[k].at <= q
      BY <1>2 DEF Together, On
    <3>1. CASE k \in DOMAIN others
      BY <2>8, <3>1
    <3>2. CASE k = Len(others) + 1
      <4>1. emits'[k] = g /\ e.at = 0 /\ q \in Nat /\ 1 <= q
        BY <1>1, <2>8, <3>2 DEF LoopsOK
      <4> QED
        BY <2>1, <2>3, <4>1
    <3> QED
      BY <1>1, <2>8, <3>1, <3>2
  <2>12. Placed'
    <3>1. made[p] \in ToSet(made)
      BY <2>1 DEF ToSet
    <3>2. \A i \in Iterators : i # made[p] => Given(i)' = Given(i)
      BY <1>5, <2>1 DEF LoopsOK, Given
    <3> QED
      BY <3>1, <3>2 DEF Placed
  <2> QED
    BY <2>4, <2>9, <2>10, <2>11, <2>12 DEF Handing
<1> QED
  BY <1>4, <1>5 DEF Gives

\* A loop goes on when what it awaited is there.
LEMMA HandOnHands ==
    ASSUME LoopsOK, RecordsAreMade, Handing, HandOn
    PROVE  Handing'
<1>1. /\ emits \in Seq(LoopType) /\ emits # <<>> /\ reading' = FALSE
      /\ UNCHANGED <<made, iter, record, listeners, malformed, stirred>>
      /\ Gives(Head(emits).list, Head(emits).n, Head(emits).at, Tail(emits))
  BY DEF HandOn, managerVars, LoopsOK, LoopType
<1>2. PICK e, others : e = Head(emits) /\ others = Tail(emits)
  OBVIOUS
<1>3. /\ e \in LoopType /\ others \in Seq(LoopType) /\ Gives(e.list, e.n, e.at, others)
      /\ DOMAIN others \subseteq Nat
      /\ 1 \in DOMAIN emits /\ e = emits[1]
      /\ \A k \in DOMAIN others : 1 < k + 1 /\ k + 1 \in DOMAIN emits /\ others[k] = emits[k + 1]
  <2>1. /\ others \in Seq(LoopType) /\ e \in LoopType
        /\ Len(emits) \in Nat /\ Len(emits) >= 1
        /\ DOMAIN emits = 1..Len(emits) /\ DOMAIN others = 1..(Len(emits) - 1)
        /\ \A k \in 1..(Len(emits) - 1) : others[k] = emits[k + 1]
        /\ e = emits[1]
    BY <1>1, <1>2, Taken
  <2> QED
    BY <1>1, <1>2, <2>1
<1>4. \A k \in DOMAIN others : Fits(others[k]) /\ Rests(others[k]) /\ Paired(e, others[k])
  BY <1>3 DEF Handing, LoopsFit, LoopsFollow
<1>5. ASSUME NEW j \in DOMAIN others, NEW k \in DOMAIN others, j < k
      PROVE  Paired(others[j], others[k])
  <2>1. j + 1 < k + 1
    BY <1>3, <1>5
  <2> QED
    BY <1>3, <2>1 DEF Handing, LoopsFollow
<1>6. Fits(e)
  BY <1>3 DEF Handing, LoopsFit
<1> QED
  BY <1>1, <1>3, <1>4, <1>5, <1>6, TurnHands DEF Handing

\* A message that is read has a loop of its own, which is behind those of earlier messages.
LEMMA EmitHands ==
    ASSUME Based, LoopsOK, Order, Handing, Idle \/ reading, wire # <<>>,
           NEW c \in Channels, NEW n \in 1..MaxPublished, Head(wire) = Message(c, n), Emit(c, n),
           record[c] # None, UNCHANGED <<made, iter, record, listeners, malformed, stirred>>
    PROVE  Handing'
<1>1. /\ record[c] \in Iterators /\ ChannelOf[record[c]] = c
      /\ Gives(record[c], n, 0, emits) /\ emits \in Seq(LoopType)
  BY DEF Based, Wired, ManagerOK, RecordsAreMade, Emit, LoopsOK, LoopType
<1>2. PICK e : e = [list |-> record[c], n |-> n, at |-> 0]
  OBVIOUS
<1>3. /\ e \in LoopType /\ On(e) = c /\ e.list = record[c] /\ e.n = n /\ e.at = 0
      /\ Gives(e.list, e.n, e.at, emits)
  BY <1>1, <1>2 DEF LoopType, On
<1>4. \A m \in Begun(c) : m < n
  <2>1. 1 \in DOMAIN wire /\ wire[1] = Message(c, n)
    BY RepliesAre DEF Based, Wired
  <2> QED
    BY <2>1 DEF Order, BegunBefore
<1>5. ASSUME NEW i \in Iterators, ChannelOf[i] = c, NEW m \in Given(i)
      PROVE  m < n
  <2>1. m \in 1..MaxPublished
    BY <1>5, GivenType
  <2> QED
    BY <1>4, <1>5, <2>1 DEF Begun
<1>6. \A p \in DOMAIN made : made[p] \in Iterators /\ p \in Nat /\ 0 < p
  BY DEF LoopsOK
<1>7. Fits(e)
  BY <1>3, <1>5, <1>6 DEF Fits
<1>8. ASSUME NEW k \in DOMAIN emits
      PROVE  Paired(e, emits[k])
  <2> SUFFICES ASSUME On(emits[k]) = c
               PROVE  /\ n # emits[k].n
                      /\ Calm(c) => IF n < emits[k].n THEN 0 = emits[k].at
                                    ELSE NextTo(c, 0, emits[k].at)
    BY <1>3 DEF Paired
  <2>1. emits[k] \in LoopType /\ emits[k].n \in 1..MaxPublished /\ emits[k].at \in Nat
    <3>1. emits[k] \in LoopType
      BY <1>1
    <3> QED
      BY <3>1 DEF LoopType
  <2>2. emits[k].n < n
    BY <1>4, <2>1 DEF Begun
  <2>3. ASSUME Calm(c)
        PROVE  NextTo(c, 0, emits[k].at)
    <3>1. emits[k].at \in DOMAIN made
      BY <2>3 DEF Handing, LoopsFit, Rests
    <3>2. reading
      BY DEF Idle
    <3>3. \A q \in DOMAIN made : made[q] \in listeners[c] => emits[k].at <= q
      BY <2>3, <3>2 DEF Handing, Together
    <3> QED
      BY <1>6, <3>1, <3>3 DEF NextTo
  <2> QED
    BY <2>1, <2>2, <2>3, SubscriptionsAssumption
<1>9. \A k \in DOMAIN emits : Fits(emits[k]) /\ Rests(emits[k]) /\ Paired(e, emits[k])
  BY <1>8 DEF Handing, LoopsFit
<1>10. \A j, k \in DOMAIN emits : j < k => Paired(emits[j], emits[k])
  BY DEF Handing, LoopsFollow
<1>11. \A k \in DOMAIN emits : Calm(On(emits[k])) =>
          \A q \in DOMAIN made : made[q] \in listeners[On(emits[k])] => emits[k].at <= q
  BY DEF Handing, Together, Idle
<1>12. Placed /\ NoneTwice /\ InOrder /\ RecordsAreMade
  BY DEF Handing, Based
<1> QED
  BY <1>1, <1>3, <1>7, <1>9, <1>10, <1>11, <1>12, TurnHands

------------------------------------------------------------------------------
(***************************************************************************)
(* Steps beside the loops                                                  *)
(***************************************************************************)

\* The channels of loops and iterators.
LEMMA LoopChannels ==
    ASSUME LoopsOK
    PROVE  /\ \A k \in DOMAIN emits : emits[k] \in LoopType /\ On(emits[k]) \in Channels
                                      /\ emits[k].list \in Iterators /\ emits[k].at \in Nat
           /\ \A i \in Iterators : ChannelOf[i] \in Channels
           /\ \A p \in DOMAIN made : made[p] \in Iterators
<1>1. emits \in Seq(LoopType) /\ made \in Seq(Iterators)
  BY DEF LoopsOK, LoopType
<1>2. \A k \in DOMAIN emits : emits[k] \in LoopType
  BY <1>1
<1>3. \A f \in LoopType : f.list \in Iterators /\ f.at \in Nat
  BY DEF LoopType
<1> QED
  BY <1>1, <1>2, <1>3, SubscriptionsAssumption DEF On

\* What keeps listeners and loops, and makes no channel calm, keeps the loops as they should be.
LEMMA HandingStays ==
    ASSUME LoopsOK, Handing, UNCHANGED <<made, iter, record, listeners, emits, received>>,
           \A c \in Channels : Calm(c)' => Calm(c),
           reading' => reading \/ Idle
    PROVE  Handing'
<1>1. /\ \A k \in DOMAIN emits : On(emits[k]) \in Channels
      /\ \A i \in Iterators : ChannelOf[i] \in Channels
  BY LoopChannels
<1>2. Placed' /\ NoneTwice'
  BY DEF Handing, Placed, NoneTwice, Given
<1>3. InOrder'
  <2> SUFFICES ASSUME NEW i \in Iterators, Calm(ChannelOf[i])'
               PROVE  \A g, h \in DOMAIN received[i] : g < h => received[i][g] < received[i][h]
    BY DEF InOrder, Calm
  <2>1. Calm(ChannelOf[i])
    BY <1>1
  <2> QED
    BY <2>1 DEF Handing, InOrder, Calm
<1>4. LoopsFit'
  <2> SUFFICES ASSUME NEW k \in DOMAIN emits
               PROVE  (Fits(emits[k]) /\ Rests(emits[k]))'
    BY DEF LoopsFit
  <2>1. Fits(emits[k]) /\ Rests(emits[k]) /\ (Calm(On(emits[k]))' => Calm(On(emits[k])))
    BY <1>1 DEF Handing, LoopsFit, On
  <2> QED
    BY <2>1 DEF Fits, Rests, Given, On
<1>5. LoopsFollow'
  <2> SUFFICES ASSUME NEW j \in DOMAIN emits, NEW k \in DOMAIN emits, j < k
               PROVE  Paired(emits[j], emits[k])'
    BY DEF LoopsFollow
  <2>1. Paired(emits[j], emits[k]) /\ (Calm(On(emits[j]))' => Calm(On(emits[j])))
    BY <1>1 DEF Handing, LoopsFollow, On
  <2> QED
    BY <2>1 DEF Paired, NextTo, On
<1>6. Together'
  <2> SUFFICES ASSUME reading', NEW k \in DOMAIN emits, Calm(On(emits[k]))',
                      NEW q \in DOMAIN made, made[q] \in listeners[On(emits[k])]
               PROVE  emits[k].at <= q
    BY DEF Together, On
  <2>1. reading /\ Calm(On(emits[k]))
    BY <1>1 DEF Idle, On
  <2> QED
    BY <2>1 DEF Handing, Together
<1> QED
  BY <1>2, <1>3, <1>4, <1>5, <1>6 DEF Handing

\* A message that is published makes no channel calm.
LEMMA PublishCalms ==
    ASSUME Based, LoopsOK, Order, NEW c \in Channels, NEW bad, Publish(c, bad), NEW d \in Channels,
           Calm(d)'
    PROVE  Calm(d)
<1>1. /\ malformed' = malformed \cup {<<i, published'[c]>> : i \in {j \in bad : ChannelOf[j] = c}}
      /\ UNCHANGED stirred
      /\ published' = [published EXCEPT ![c] = @ + 1]
  BY DEF Publish
<1>2. published[c] \in Nat /\ published'[c] = published[c] + 1 /\ MaxPublished \in Nat
  BY <1>1, SubscriptionsAssumption DEF Based, Wired, ManagerOK
<1>3. ASSUME NEW i \in Iterators, NEW j \in Iterators, ChannelOf[i] = d, ChannelOf[j] = d,
             NEW n \in 1..MaxPublished, <<i, n>> \in malformed
      PROVE  <<j, n>> \in malformed
  <2>1. n <= published[d]
    BY <1>3 DEF Order, MalformedIsPublished
  <2>2. <<j, n>> \in malformed'
    BY <1>1, <1>3 DEF Calm, ParsedAlike
  <2>3. CASE <<j, n>> \in {<<i_1, published'[c]>> : i_1 \in {j_1 \in bad : ChannelOf[j_1] = c}}
    <3>1. n = published'[c] /\ ChannelOf[j] = c
      BY <2>3
    <3> QED
      BY <1>2, <1>3, <2>1, <3>1
  <2> QED
    BY <1>1, <2>2, <2>3
<1> QED
  BY <1>1, <1>3 DEF Calm, ParsedAlike

\* An iterator that is made is the last to be reached.
LEMMA IterateHands ==
    ASSUME ManagerOK, RecordsAreMade, LoopsOK, Handing, NEW i \in Iterators, NEW ensures \in BOOLEAN,
           Iterate(i, ensures)
    PROVE  Handing'
<1> DEFINE c == ChannelOf[i]
<1>1. /\ iter' = [iter EXCEPT ![i] = "active"] /\ iter[i] = "none"
      /\ record' = [record EXCEPT ![c] = RecordFor(i)]
      /\ listeners' = [listeners EXCEPT ![c] = @ \cup {i}]
      /\ made' = Append(made, i) /\ reading' = FALSE
      /\ UNCHANGED <<emits, received, malformed, stirred>>
  BY DEF Iterate
<1>2. /\ \A k \in DOMAIN emits : /\ emits[k] \in LoopType /\ On(emits[k]) \in Channels
                                 /\ emits[k].list \in Iterators /\ emits[k].at \in Nat
      /\ \A j \in Iterators : ChannelOf[j] \in Channels
      /\ \A p \in DOMAIN made : made[p] \in Iterators
      /\ c \in Channels
  BY LoopChannels
<1>3. PICK l : l = Len(made) + 1
  OBVIOUS
<1>4. /\ DOMAIN made' = DOMAIN made \cup {l} /\ l \in Nat /\ l \notin DOMAIN made
      /\ \A p \in DOMAIN made : made'[p] = made[p] /\ p < l /\ p \in Nat
      /\ made'[l] = i
  <2>1. made \in Seq(Iterators)
    BY DEF LoopsOK
  <2>2. /\ DOMAIN made = 1..Len(made) /\ DOMAIN made' = 1..(Len(made) + 1) /\ Len(made) \in Nat
        /\ \A p \in 1..Len(made) : made'[p] = made[p]
        /\ made'[Len(made) + 1] = i
    BY <1>1, <2>1, Appended
  <2> QED
    BY <1>3, <2>2
<1>5. i \notin ToSet(made) /\ Given(i) = {} /\ ToSet(made') = ToSet(made) \cup {i}
  <2>1. i \notin ToSet(made) /\ Given(i) = {}
    BY <1>1 DEF Handing, Placed
  <2>2. made \in Seq(Iterators)
    BY DEF LoopsOK
  <2> QED
    BY <1>1, <2>1, <2>2, MembersAppended
<1>6. \A d : Calm(d)' = Calm(d)
  BY <1>1 DEF Calm, ParsedAlike
<1>7. \A j : Given(j)' = Given(j)
  BY <1>1 DEF Given
<1>8. /\ \A d \in Channels : listeners[d] \subseteq listeners'[d]
                            /\ listeners'[d] \subseteq listeners[d] \cup {i}
      /\ \A d \in Channels : record[d] # None => record'[d] = record[d]
  BY <1>1, <1>2 DEF ManagerOK, RecordFor
<1>9. Placed'
  <2>1. \A p, q \in DOMAIN made' : made'[p] = made'[q] => p = q
    <3>1. \A p \in DOMAIN made : made[p] # i
      BY <1>5 DEF ToSet
    <3> QED
      BY <1>4, <3>1 DEF Handing, Placed
  <2>2. \A j \in Iterators : j \in ToSet(made') => iter'[j] # "none"
    BY <1>1, <1>5 DEF Handing, Placed, ManagerOK
  <2>3. \A d \in Channels : listeners'[d] \subseteq ToSet(made')
    BY <1>5, <1>8 DEF Handing, Placed
  <2>4. \A j \in Iterators : Given(j)' # {} => j \in ToSet(made')
    BY <1>5, <1>7 DEF Handing, Placed
  <2> QED
    BY <2>1, <2>2, <2>3, <2>4 DEF Placed
<1>10. NoneTwice' /\ InOrder'
  BY <1>1 DEF Handing, NoneTwice, InOrder, ParsedAlike
<1>11. LoopsFit'
  <2> SUFFICES ASSUME NEW k \in DOMAIN emits
               PROVE  (Fits(emits[k]) /\ Rests(emits[k]))'
    BY <1>1 DEF LoopsFit
  <2>1. PICK e : e = emits[k]
    OBVIOUS
  <2>2. Fits(e) /\ Rests(e) /\ On(e) \in Channels /\ e.list \in Iterators /\ emits'[k] = e
    BY <1>1, <1>2, <2>1 DEF Handing, LoopsFit
  <2>3. \A p \in DOMAIN made' : ChannelOf[made'[p]] = On(e) /\ e.n \in Given(made'[p]) => p <= e.at
    BY <1>4, <1>5, <2>2 DEF Fits
  <2>4. Calm(On(e)) => record'[On(e)] = e.list
    BY <1>8, <2>2, SubscriptionsAssumption DEF Fits
  <2>5. ASSUME Calm(On(e)), NEW p \in DOMAIN made', ChannelOf[made'[p]] = On(e), p > e.at,
               NEW m \in Given(made'[p])
        PROVE  m < e.n
    BY <1>4, <1>5, <2>2, <2>5 DEF Fits
  <2>6. Calm(On(e)) => e.at \in DOMAIN made' /\ made'[e.at] \in listeners'[On(e)]
    BY <1>4, <1>8, <2>2 DEF Rests
  <2>7. Fits(e)'
    BY <1>1, <1>6, <2>3, <2>4, <2>5 DEF Fits, On, Given
  <2>8. Rests(e)'
    BY <1>6, <2>6 DEF Rests, On
  <2> QED
    BY <2>2, <2>7, <2>8 DEF Fits, Rests, On
<1>12. LoopsFollow'
  <2> SUFFICES ASSUME NEW j \in DOMAIN emits, NEW k \in DOMAIN emits, j < k
               PROVE  Paired(emits[j], emits[k])'
    BY <1>1 DEF LoopsFollow
  <2>1. PICK e, f : e = emits[j] /\ f = emits[k]
    OBVIOUS
  <2>2. /\ Paired(e, f) /\ Rests(f) /\ On(e) \in Channels /\ On(f) \in Channels
        /\ emits'[j] = e /\ emits'[k] = f /\ f.at \in Nat /\ e.at \in Nat
    BY <1>1, <1>2, <2>1 DEF Handing, LoopsFollow, LoopsFit
  <2>3. ASSUME On(e) = On(f), Calm(On(e)), NextTo(On(e), e.at, f.at)
        PROVE  NextTo(On(e), e.at, f.at)'
    <3>1. f.at \in DOMAIN made
      BY <2>2, <2>3 DEF Rests
    <3>2. ASSUME NEW r \in DOMAIN made', made'[r] \in listeners'[On(e)], e.at < r, r < f.at
          PROVE  FALSE
      <4>1. r \in DOMAIN made /\ made'[r] = made[r]
        BY <1>4, <3>1, <3>2
      <4>2. made[r] # i
        BY <1>5, <4>1 DEF ToSet
      <4>3. made[r] \in listeners[On(e)]
        BY <1>8, <2>2, <3>2, <4>1, <4>2
      <4> QED
        BY <2>3, <3>2, <4>1, <4>3 DEF NextTo
    <3> QED
      BY <2>3, <3>2 DEF NextTo, On
  <2>4. Paired(e, f)'
    BY <1>6, <2>2, <2>3 DEF Paired, On
  <2> QED
    BY <2>2, <2>4 DEF Paired, On
<1>13. Together'
  BY <1>1 DEF Together
<1> QED
  BY <1>9, <1>10, <1>11, <1>12, <1>13 DEF Handing

\* Listeners that leave a channel leave it calm only if no loop is under way there.
LEMMA LeavesHand ==
    ASSUME ManagerOK, LoopsOK, Handing, NEW c \in Channels, Stirs(c),
           UNCHANGED <<made, emits, received, malformed>>, reading' = FALSE,
           \A i \in Iterators : iter[i] # "none" => iter'[i] # "none",
           listeners'[c] \subseteq listeners[c],
           \A d \in Channels : d # c => listeners'[d] = listeners[d] /\ record'[d] = record[d]
    PROVE  Handing'
<1>1. /\ \A k \in DOMAIN emits : On(emits[k]) \in Channels
      /\ \A i \in Iterators : ChannelOf[i] \in Channels
  BY LoopChannels
<1>2. \A d \in Channels : Calm(d)' => Calm(d)
  BY DEF Stirs, Calm, ParsedAlike
<1>3. \A k \in DOMAIN emits : Calm(On(emits[k]))' => On(emits[k]) # c
  BY DEF Stirs, Loops, Calm, On
<1>4. Placed'
  <2>1. \A d \in Channels : listeners'[d] \subseteq listeners[d]
    OBVIOUS
  <2> QED
    BY <2>1 DEF Handing, Placed, Given
<1>5. NoneTwice' /\ Together'
  BY DEF Handing, NoneTwice, Together
<1>6. InOrder'
  <2> SUFFICES ASSUME NEW i \in Iterators, Calm(ChannelOf[i])'
               PROVE  \A g, h \in DOMAIN received[i] : g < h => received[i][g] < received[i][h]
    BY DEF InOrder, Calm
  <2>1. Calm(ChannelOf[i])
    BY <1>1, <1>2
  <2> QED
    BY <2>1 DEF Handing, InOrder, Calm
<1>7. LoopsFit'
  <2> SUFFICES ASSUME NEW k \in DOMAIN emits
               PROVE  (Fits(emits[k]) /\ Rests(emits[k]))'
    BY DEF LoopsFit
  <2>1. PICK e : e = emits[k]
    OBVIOUS
  <2>2. /\ Fits(e) /\ Rests(e) /\ emits'[k] = e
        /\ Calm(On(e))' => /\ Calm(On(e)) /\ listeners'[On(e)] = listeners[On(e)]
                           /\ record'[On(e)] = record[On(e)]
    BY <1>1, <1>2, <1>3, <2>1 DEF Handing, LoopsFit, On
  <2>3. Fits(e)' /\ Rests(e)'
    BY <2>2 DEF Fits, Rests, Given, On
  <2> QED
    BY <2>2, <2>3 DEF Fits, Rests, On
<1>8. LoopsFollow'
  <2> SUFFICES ASSUME NEW j \in DOMAIN emits, NEW k \in DOMAIN emits, j < k
               PROVE  Paired(emits[j], emits[k])'
    BY DEF LoopsFollow
  <2>1. PICK e, f : e = emits[j] /\ f = emits[k]
    OBVIOUS
  <2>2. /\ Paired(e, f) /\ emits'[j] = e /\ emits'[k] = f
        /\ Calm(On(e))' => /\ Calm(On(e)) /\ listeners'[On(e)] = listeners[On(e)]
    BY <1>1, <1>2, <1>3, <2>1 DEF Handing, LoopsFollow, On
  <2>3. Paired(e, f)'
    BY <2>2 DEF Paired, NextTo, On
  <2> QED
    BY <2>2, <2>3 DEF Paired, On
<1> QED
  BY <1>4, <1>5, <1>6, <1>7, <1>8 DEF Handing

\* The loops stay as they should be, whatever happens.
LEMMA HandingKept ==
    ASSUME CommandsInv, Order, Handing, [Next]_vars
    PROVE  Handing'
<1> USE DEF CommandsInv, Based, Wired
<1>1. ASSUME NEW i \in Iterators, NEW ensures \in BOOLEAN, Iterate(i, ensures)
      PROVE  Handing'
  BY <1>1, IterateHands
<1>2. ASSUME NEW i \in Iterators, Off(i)
      PROVE  Handing'
  <2>1. PICK c : c = ChannelOf[i]
    OBVIOUS
  <2>2. /\ c \in Channels /\ Stirs(c) /\ UNCHANGED <<made, emits, received, malformed>>
        /\ reading' = FALSE
    BY <1>2, <2>1, SubscriptionsAssumption DEF Off
  <2>3. \A j \in Iterators : iter[j] # "none" => iter'[j] # "none"
    BY <1>2 DEF Off, ManagerOK
  <2>4. /\ listeners' = [listeners EXCEPT ![c] = listeners[c] \ {i}]
        /\ record' = record \/ record' = [record EXCEPT ![c] = None]
    BY <1>2, <2>1 DEF Off
  <2>5. /\ listeners'[c] \subseteq listeners[c]
        /\ \A d \in Channels : d # c => listeners'[d] = listeners[d] /\ record'[d] = record[d]
    BY <2>2, <2>4 DEF ManagerOK
  <2> QED
    BY <2>2, <2>3, <2>5, LeavesHand
<1>3. ASSUME NEW c \in Channels, NEW bad, Publish(c, bad)
      PROVE  Handing'
  <2>1. UNCHANGED <<made, iter, record, listeners, emits, received, reading>>
    BY <1>3 DEF Publish, emitVars, managerVars
  <2>2. \A d \in Channels : Calm(d)' => Calm(d)
    BY <1>3, PublishCalms
  <2> QED
    BY <2>1, <2>2, HandingStays
<1>4. CASE DisposeLists
  <2>1. /\ UNCHANGED <<iter, record, made, emits, received, malformed>> /\ reading' = FALSE
        /\ \/ UNCHANGED <<listeners, stirred>>
           \/ \E c \in Channels : listeners' = [listeners EXCEPT ![c] = {}] /\ Stirs(c)
    BY <1>4 DEF DisposeLists
  <2>2. CASE UNCHANGED <<listeners, stirred>>
    <3>1. \A c \in Channels : Calm(c)' => Calm(c)
      BY <2>1, <2>2 DEF Calm, ParsedAlike
    <3> QED
      BY <2>1, <2>2, <3>1, HandingStays
  <2>3. ASSUME NEW c \in Channels, listeners' = [listeners EXCEPT ![c] = {}], Stirs(c)
        PROVE  Handing'
    <3>1. /\ listeners'[c] \subseteq listeners[c]
          /\ \A d \in Channels : d # c => listeners'[d] = listeners[d] /\ record'[d] = record[d]
          /\ \A j \in Iterators : iter[j] # "none" => iter'[j] # "none"
      BY <2>1, <2>3 DEF ManagerOK
    <3> QED
      BY <2>1, <2>3, <3>1, LeavesHand
  <2> QED
    BY <2>1, <2>2, <2>3
<1>5. CASE Read
  <2>1. /\ UNCHANGED <<made, iter, record, listeners, malformed, stirred>>
        /\ Idle \/ reading
        /\ reading' = (emits' # <<>>) /\ wire # <<>>
    BY <1>5 DEF Read, managerVars
  <2>2. \A c \in Channels : Calm(c)' => Calm(c)
    BY <2>1 DEF Calm, ParsedAlike
  <2>3. CASE UNCHANGED <<received, emits>>
    <3>1. reading' => reading \/ Idle
      BY <2>1
    <3> QED
      BY <2>1, <2>2, <2>3, <3>1, HandingStays
  <2>4. ASSUME NEW c \in Channels, NEW n \in 1..MaxPublished, Head(wire) = Message(c, n), Emit(c, n)
        PROVE  Handing'
    <3>1. CASE record[c] = None
      BY <2>3, <2>4, <3>1 DEF Emit
    <3>2. CASE record[c] # None
      BY <2>1, <2>4, <3>2, EmitHands
    <3> QED
      BY <3>1, <3>2
  <2>5. \/ UNCHANGED <<received, emits>>
        \/ \E c \in Channels, n \in 1..MaxPublished : Head(wire) = Message(c, n) /\ Emit(c, n)
    BY <1>5 DEF Read, Replied, Subscribed, Unsubscribed
  <2> QED
    BY <2>3, <2>4, <2>5
<1>6. CASE HandOn
  BY <1>6, HandOnHands
<1>7. ASSUME \/ \E c \in Channels : Ensure(c)
             \/ Dispose \/ ConnectionClosed \/ Execute \/ Break \/ Reconnect \/ GiveUp
             \/ UNCHANGED vars
      PROVE  Handing'
  <2>1. /\ UNCHANGED <<made, iter, record, listeners, emits, received, malformed, stirred>>
        /\ reading' \in {reading, FALSE}
    BY <1>7 DEF Ensure, Dispose, ConnectionClosed, Execute, Break, Reconnect, GiveUp, vars,
                managerVars, emitVars, historyVars
  <2>2. \A c \in Channels : Calm(c)' => Calm(c)
    BY <2>1 DEF Calm, ParsedAlike
  <2>3. reading' => reading \/ Idle
    BY <2>1
  <2> QED
    BY <2>1, <2>2, <2>3, HandingStays
<1> QED
  BY <1>1, <1>2, <1>3, <1>4, <1>5, <1>6, <1>7 DEF Next

------------------------------------------------------------------------------
(***************************************************************************)
(* No iterator misses a message                                            *)
(***************************************************************************)

\* A loop has the iterator ahead of it.
Meets(e, i, n) ==
    /\ e.n = n /\ e.list = record[ChannelOf[i]]
    /\ \E p \in e.at + 1 .. Len(made) : made[p] = i

\* The iterator was given the message, or will be, or cannot parse it.
Comes(i, n) ==
    \/ <<i, n>> \in malformed
    \/ n \in Given(i)
    \/ Message(ChannelOf[i], n) \in ToSet(wire)
    \/ \E k \in DOMAIN emits : Meets(emits[k], i, n)

\* An iterator that may count on messages listens on a channel that is subscribed to.
Attended ==
    conn = "online" => \A i \in Iterators :
        since[i] # None => /\ i \in listeners[ChannelOf[i]]
                           /\ record[ChannelOf[i]] # None
                           /\ pending[record[ChannelOf[i]]] = "resolved"

\* What NothingMissed says.
LEMMA MissedIs ==
    NothingMissed <=> (conn = "online" => \A i \in Iterators : since[i] # None =>
                          \A n \in since[i] + 1 .. published[ChannelOf[i]] : Comes(i, n))
BY DEF NothingMissed, Comes, Reaches, Meets, Given

\* A message still comes where nothing is handed on or forgotten.
LEMMA ComesStays ==
    ASSUME LoopsOK, NEW i \in Iterators, NEW n, Comes(i, n), UNCHANGED <<received, emits>>,
           malformed \subseteq malformed',
           Message(ChannelOf[i], n) \in ToSet(wire) => Message(ChannelOf[i], n) \in ToSet(wire'),
           record'[ChannelOf[i]] = record[ChannelOf[i]],
           UNCHANGED made \/ \E j \in Iterators : made' = Append(made, j)
    PROVE  Comes(i, n)'
<1>1. /\ made \in Seq(Iterators) /\ DOMAIN made = 1..Len(made) /\ Len(made) \in Nat
      /\ \A k \in DOMAIN emits : emits[k].at \in Nat
  <2>1. made \in Seq(Iterators)
    BY DEF LoopsOK
  <2>2. DOMAIN made = 1..Len(made) /\ Len(made) \in Nat
    BY <2>1
  <2> QED
    BY <2>1, <2>2, LoopChannels
<1>2. Len(made') \in Nat /\ Len(made) <= Len(made') /\ \A p \in 1..Len(made) : made'[p] = made[p]
  <2>1. CASE UNCHANGED made
    BY <1>1, <2>1
  <2>2. ASSUME NEW j \in Iterators, made' = Append(made, j)
        PROVE  Len(made') \in Nat /\ Len(made) <= Len(made') /\ \A p \in 1..Len(made) : made'[p] = made[p]
    <3>1. /\ Len(Append(made, j)) = Len(made) + 1
          /\ \A p \in 1..Len(made) : Append(made, j)[p] = made[p]
      BY <1>1, Appended
    <3>2. /\ Len(made') = Len(made) + 1
          /\ \A p \in 1..Len(made) : made'[p] = made[p]
      BY <2>2, <3>1
    <3>3. Len(made') \in Nat /\ Len(made) <= Len(made')
      BY <1>1, <3>2
    <3> QED
      BY <3>2, <3>3
  <2> QED
    BY <2>1, <2>2
<1>3. ASSUME NEW k \in DOMAIN emits, Meets(emits[k], i, n)
      PROVE  Meets(emits[k], i, n)'
  <2>1. PICK p \in emits[k].at + 1 .. Len(made) : made[p] = i
    BY <1>3 DEF Meets
  <2>2. p \in emits[k].at + 1 .. Len(made') /\ made'[p] = i
    BY <1>1, <1>2, <2>1
  <2> QED
    BY <1>3, <2>2 DEF Meets
<1> QED
  BY <1>3 DEF Comes, Given

\* A turn of a loop gives the message to the next listener, and has the others ahead.
LEMMA TurnMeets ==
    ASSUME LoopsOK, RecordsAreMade, NEW e \in LoopType, NEW others \in Seq(LoopType),
           Gives(e.list, e.n, e.at, others),
           UNCHANGED <<made, record, listeners, malformed>>,
           NEW i \in Iterators, i \in listeners[ChannelOf[i]], NEW n,
           \/ <<i, n>> \in malformed
           \/ n \in Given(i)
           \/ Meets(e, i, n)
           \/ \E k \in DOMAIN others : Meets(others[k], i, n)
    PROVE  Comes(i, n)'
<1>1. /\ made \in Seq(Iterators) /\ Len(made) \in Nat /\ DOMAIN made = 1..Len(made)
      /\ Len(others) \in Nat /\ DOMAIN others = 1..Len(others)
      /\ \A k \in DOMAIN others : others[k] \in LoopType
      /\ e.list \in Iterators /\ e.n \in 1..MaxPublished /\ e.at \in Nat
  <2>1. made \in Seq(Iterators)
    BY DEF LoopsOK
  <2>2. Len(made) \in Nat /\ DOMAIN made = 1..Len(made)
    BY <2>1
  <2>3. /\ Len(others) \in Nat /\ DOMAIN others = 1..Len(others)
        /\ \A k \in DOMAIN others : others[k] \in LoopType
    OBVIOUS
  <2>4. e.list \in Iterators /\ e.n \in 1..MaxPublished /\ e.at \in Nat
    BY DEF LoopType
  <2> QED
    BY <2>1, <2>2, <2>3, <2>4
<1>2. \A f : Meets(f, i, n)' = Meets(f, i, n)
  BY DEF Meets
<1>3. CASE <<i, n>> \in malformed
  BY <1>3 DEF Comes
<1>4. CASE emits' = others /\ UNCHANGED received /\ Hearing(e.list, e.n, e.at) = {}
  <2>1. CASE n \in Given(i)
    BY <1>4, <2>1 DEF Comes, Given
  <2>2. CASE Meets(e, i, n)
    <3>1. PICK q \in e.at + 1 .. Len(made) : made[q] = i /\ e.n = n /\ e.list = record[ChannelOf[i]]
      BY <2>2 DEF Meets
    <3>2. ChannelOf[e.list] = ChannelOf[i]
      BY <1>1, <3>1, SubscriptionsAssumption DEF RecordsAreMade
    <3>3. <<i, n>> \in malformed
      BY <1>4, <3>1, <3>2 DEF Hearing
    <3> QED
      BY <1>3, <3>3
  <2>3. ASSUME NEW k \in DOMAIN others, Meets(others[k], i, n)
        PROVE  Comes(i, n)'
    <3>1. PICK f : f = others[k] /\ f = emits'[k] /\ k \in DOMAIN emits' /\ Meets(f, i, n)'
      BY <1>2, <1>4, <2>3
    <3> QED
      BY <3>1 DEF Comes, Meets
  <2> QED
    BY <1>3, <2>1, <2>2, <2>3
<1>5. ASSUME NEW p \in Hearing(e.list, e.n, e.at),
             \A q \in Hearing(e.list, e.n, e.at) : p <= q,
             received' = [received EXCEPT ![made[p]] = Append(@, e.n)],
             emits' = Append(others, [list |-> e.list, n |-> e.n, at |-> p])
      PROVE  Comes(i, n)'
  <2>1. p \in DOMAIN made /\ p \in Nat /\ e.at < p /\ made[p] \in Iterators
    BY <1>5, HearsNext
  <2>2. \A j \in Iterators : Given(j)' = IF j = made[p] THEN Given(j) \cup {e.n} ELSE Given(j)
    BY <1>1, <1>5, <2>1, GivesMore
  <2>3. PICK g : g = [list |-> e.list, n |-> e.n, at |-> p]
    OBVIOUS
  <2>4. g \in LoopType /\ g.list = e.list /\ g.n = e.n /\ g.at = p
    BY <1>1, <2>1, <2>3 DEF LoopType
  <2>5. /\ DOMAIN emits' = 1..(Len(others) + 1)
        /\ \A k \in DOMAIN others : emits'[k] = others[k]
        /\ emits'[Len(others) + 1] = g
    BY <1>1, <1>5, <2>3, <2>4, Appended
  <2>6. CASE n \in Given(i)
    BY <2>2, <2>6 DEF Comes
  <2>7. CASE Meets(e, i, n)
    <3>1. PICK q \in e.at + 1 .. Len(made) : made[q] = i /\ e.n = n /\ e.list = record[ChannelOf[i]]
      BY <2>7 DEF Meets
    <3>2. ChannelOf[e.list] = ChannelOf[i]
      BY <1>1, <3>1, SubscriptionsAssumption DEF RecordsAreMade
    <3>3. CASE <<i, n>> \in malformed
      BY <1>3, <3>3
    <3>4. CASE <<i, n>> \notin malformed
      <4>1. q \in Hearing(e.list, e.n, e.at)
        BY <3>1, <3>2, <3>4 DEF Hearing
      <4>2. p <= q
        BY <1>5, <4>1
      <4>3. CASE p = q
        BY <2>2, <3>1, <4>3 DEF Comes
      <4>4. CASE p # q
        <5>1. q \in g.at + 1 .. Len(made)
          BY <1>1, <2>1, <2>4, <4>2, <4>4
        <5>2. Meets(g, i, n)'
          BY <2>4, <3>1, <5>1 DEF Meets
        <5>3. Len(others) + 1 \in DOMAIN emits'
          BY <1>1, <2>5
        <5> QED
          BY <2>5, <5>2, <5>3 DEF Comes, Meets
      <4> QED
        BY <4>3, <4>4
    <3> QED
      BY <3>3, <3>4
  <2>8. ASSUME NEW k \in DOMAIN others, Meets(others[k], i, n)
        PROVE  Comes(i, n)'
    <3>1. k \in DOMAIN emits'
      BY <1>1, <2>5
    <3>2. PICK f : f = others[k] /\ f = emits'[k] /\ Meets(f, i, n)'
      BY <1>2, <2>5, <2>8
    <3> QED
      BY <3>1, <3>2 DEF Comes, Meets
  <2> QED
    BY <1>3, <2>6, <2>7, <2>8
<1> QED
  BY <1>4, <1>5 DEF Gives

\* What NothingMissed says of the state after a step.
LEMMA MissedThen ==
    NothingMissed' <=> (conn' = "online" => \A i \in Iterators : since'[i] # None =>
                           \A n \in since'[i] + 1 .. published'[ChannelOf[i]] : Comes(i, n)')
BY DEF NothingMissed, Comes, Reaches, Meets, Given

\* An iterator begins to listen.
LEMMA IterateAttends ==
    ASSUME CommandsInv, Attended, NothingMissed, NEW i \in Iterators, NEW ensures \in BOOLEAN,
           Iterate(i, ensures), conn = "online"
    PROVE  Attended' /\ NothingMissed'
<1> USE DEF CommandsInv, Based, Wired
<1>1. Live
  BY DEF Iterate, Live
<1>2. PICK c \in Channels : c = ChannelOf[i] /\ \A j \in Iterators : ChannelOf[j] \in Channels
  BY SubscriptionsAssumption
<1>3. /\ record' = [record EXCEPT ![c] = RecordFor(i)]
      /\ listeners' = [listeners EXCEPT ![c] = @ \cup {i}]
      /\ since' = IF pending[RecordFor(i)] = "resolved"
                  THEN [since EXCEPT ![i] = published[c]] ELSE since
      /\ UNCHANGED <<conn, wire, published, received, emits, malformed>>
      /\ made' = Append(made, i)
      /\ iter[i] = "none"
  BY <1>2 DEF Iterate
<1>4. /\ \A d \in Channels : listeners[d] \subseteq listeners'[d]
      /\ i \in listeners'[c]
      /\ \A j \in Iterators : j # i => since'[j] = since[j]
  BY <1>2, <1>3 DEF ManagerOK
<1>5. \A r \in Iterators : pending[r] = "resolved" => pending'[r] = "resolved"
  BY <1>1, CallsIssue DEF Live
<1>6. \A d \in Channels : record[d] # None => record'[d] = record[d]
  BY <1>2, <1>3 DEF RecordFor, ManagerOK
<1>7. ASSUME NEW j \in Iterators, since[j] # None
      PROVE  /\ j \in listeners'[ChannelOf[j]]
             /\ record'[ChannelOf[j]] # None
             /\ pending'[record'[ChannelOf[j]]] = "resolved"
             /\ \A n \in since[j] + 1 .. published[ChannelOf[j]] : Comes(j, n)'
  <2>1. /\ j \in listeners[ChannelOf[j]] /\ record[ChannelOf[j]] # None
        /\ pending[record[ChannelOf[j]]] = "resolved" /\ ChannelOf[j] \in Channels
    BY <1>2, <1>7 DEF Attended
  <2>2. record[ChannelOf[j]] \in Iterators /\ record'[ChannelOf[j]] = record[ChannelOf[j]]
    BY <1>6, <2>1 DEF ManagerOK
  <2>3. ASSUME NEW n \in since[j] + 1 .. published[ChannelOf[j]]
        PROVE  Comes(j, n)'
    <3>1. Comes(j, n)
      BY <1>7, MissedIs
    <3> QED
      BY <1>3, <2>2, <3>1, ComesStays
  <2> QED
    BY <1>4, <1>5, <2>1, <2>2, <2>3
<1>8. CASE pending[RecordFor(i)] = "resolved"
  <2>1. RecordFor(i) # i
    BY <1>3, <1>8 DEF RecordsAreMade
  <2>2. record[c] # None /\ RecordFor(i) = record[c] /\ record[c] \in Iterators
    BY <1>2, <2>1 DEF RecordFor, ManagerOK
  <2>3. record'[c] = record[c] /\ pending'[record[c]] = "resolved"
    BY <1>2, <1>5, <1>6, <1>8, <2>2
  <2>4. Attended'
    BY <1>2, <1>4, <1>7, <2>2, <2>3 DEF Attended
  <2>5. since'[i] = published[c] /\ published[c] \in Nat
    BY <1>2, <1>3, <1>8, SubscriptionsAssumption DEF ManagerOK
  <2>6. since'[i] + 1 .. published'[c] = {}
    BY <1>3, <2>5
  <2>7. NothingMissed'
    BY <1>2, <1>3, <1>4, <1>7, <2>6, MissedThen
  <2> QED
    BY <2>4, <2>7
<1>9. CASE pending[RecordFor(i)] # "resolved"
  <2>1. since' = since
    BY <1>3, <1>9
  <2>2. Attended'
    BY <1>7, <2>1 DEF Attended
  <2>3. NothingMissed'
    BY <1>3, <1>7, <2>1, MissedThen
  <2> QED
    BY <2>2, <2>3
<1> QED
  BY <1>8, <1>9

\* An iterator leaves; if it was the last of its channel nobody counts on the channel.
LEMMA OffAttends ==
    ASSUME CommandsInv, Attended, NothingMissed, NEW i \in Iterators, Off(i), conn = "online"
    PROVE  Attended' /\ NothingMissed'
<1> USE DEF CommandsInv, Based, Wired
<1>1. PICK c \in Channels : c = ChannelOf[i] /\ \A j \in Iterators : ChannelOf[j] \in Channels
  BY SubscriptionsAssumption
<1>2. PICK left : left = listeners[c] \ {i}
  OBVIOUS
<1>3. /\ listeners' = [listeners EXCEPT ![c] = left]
      /\ since' = [since EXCEPT ![i] = None]
      /\ record' = IF record[c] # None /\ left = {} THEN [record EXCEPT ![c] = None] ELSE record
      /\ UNCHANGED <<conn, wire, published, received, made, emits, malformed>>
  BY <1>1, <1>2 DEF Off
<1>4. since'[i] = None /\ \A j \in Iterators : j # i => since'[j] = since[j]
  BY <1>3 DEF ManagerOK
<1>5. \A r \in Iterators : pending[r] = "resolved" => pending'[r] = "resolved"
  BY CallsIssue
<1>6. ASSUME NEW j \in Iterators, since'[j] # None
      PROVE  /\ j \in listeners'[ChannelOf[j]]
             /\ record'[ChannelOf[j]] # None
             /\ pending'[record'[ChannelOf[j]]] = "resolved"
             /\ \A n \in since'[j] + 1 .. published'[ChannelOf[j]] : Comes(j, n)'
  <2>1. j # i /\ since[j] # None /\ since'[j] = since[j]
    BY <1>4, <1>6
  <2>2. /\ j \in listeners[ChannelOf[j]] /\ record[ChannelOf[j]] # None
        /\ pending[record[ChannelOf[j]]] = "resolved" /\ ChannelOf[j] \in Channels
    BY <1>1, <2>1 DEF Attended
  <2>3. record[ChannelOf[j]] \in Iterators
    BY <2>2 DEF ManagerOK
  <2>4. ChannelOf[j] = c => left # {}
    BY <1>2, <2>1, <2>2
  <2>5. record'[ChannelOf[j]] = record[ChannelOf[j]] /\ j \in listeners'[ChannelOf[j]]
    BY <1>1, <1>2, <1>3, <2>1, <2>2, <2>4 DEF ManagerOK
  <2>6. ASSUME NEW n \in since[j] + 1 .. published[ChannelOf[j]]
        PROVE  Comes(j, n)'
    <3>1. Comes(j, n)
      BY <2>1, MissedIs
    <3> QED
      BY <1>3, <2>5, <3>1, ComesStays
  <2> QED
    BY <1>3, <1>5, <2>1, <2>2, <2>3, <2>5, <2>6
<1>7. Attended'
  BY <1>6 DEF Attended
<1>8. NothingMissed'
  BY <1>6, MissedThen
<1> QED
  BY <1>7, <1>8

\* A message is published: the server sends it to whoever may count on it.
LEMMA PublishAttends ==
    ASSUME CommandsInv, Attended, NothingMissed, NEW c \in Channels, NEW bad, Publish(c, bad),
           conn = "online"
    PROVE  Attended' /\ NothingMissed'
<1> USE DEF CommandsInv, Based, Wired
<1>1. /\ published' = [published EXCEPT ![c] = @ + 1]
      /\ wire' = IF c \in server THEN Append(wire, Message(c, published'[c])) ELSE wire
      /\ malformed \subseteq malformed'
      /\ UNCHANGED <<record, listeners, pending, conn, received, since, made, emits>>
  BY DEF Publish, managerVars, deferVars, emitVars
<1>2. Attended'
  BY <1>1 DEF Attended
<1>3. /\ published'[c] = published[c] + 1 /\ published'[c] \in 1..MaxPublished
      /\ \A d \in Channels : d # c => published'[d] = published[d]
      /\ published[c] \in Nat
  BY SubscriptionsAssumption DEF Publish, ManagerOK
<1>4. wire \in Seq({Reply} \cup Messages)
  BY RepliesAre
<1>5. PICK e : e = Message(c, published'[c])
  OBVIOUS
<1>6. e \in Messages
  BY <1>3, <1>5, MessageParts
<1>7. ToSet(wire) \subseteq ToSet(wire') /\ (c \in server => e \in ToSet(wire'))
  <2>1. CASE c \in server
    <3>1. wire' = Append(wire, e)
      BY <1>1, <1>5, <2>1
    <3> QED
      BY <1>4, <1>6, <3>1, MembersAppended
  <2>2. CASE c \notin server
    BY <1>1, <2>2
  <2> QED
    BY <2>1, <2>2
<1>8. ASSUME NEW i \in Iterators, since[i] # None,
             NEW n \in since[i] + 1 .. published'[ChannelOf[i]]
      PROVE  Comes(i, n)'
  <2>1. ChannelOf[i] \in Channels /\ since[i] \in Nat
    BY <1>8, SubscriptionsAssumption DEF ManagerOK
  <2>2. CASE n \in since[i] + 1 .. published[ChannelOf[i]]
    <3>1. Comes(i, n)
      BY <1>8, <2>2, MissedIs
    <3> QED
      BY <1>1, <1>7, <3>1, ComesStays
  <2>3. CASE n \notin since[i] + 1 .. published[ChannelOf[i]]
    <3>1. ChannelOf[i] = c /\ n = published'[c]
      BY <1>3, <2>1, <2>3
    <3>2. record[c] # None /\ pending[record[c]] = "resolved"
      BY <1>8, <3>1 DEF Attended
    <3>3. c \in server
      BY <3>2, ResolvedIsServed DEF EnsuredIsSubscribed
    <3>4. Message(ChannelOf[i], n) \in ToSet(wire')
      BY <1>5, <1>7, <3>1, <3>3
    <3> QED
      BY <3>4 DEF Comes
  <2> QED
    BY <2>2, <2>3
<1>9. NothingMissed'
  BY <1>1, <1>8, MissedThen
<1> QED
  BY <1>2, <1>9

\* The loop that goes on first gives its message to the next of its listeners.
LEMMA HandOnAttends ==
    ASSUME CommandsInv, Attended, NothingMissed, HandOn, conn = "online"
    PROVE  Attended' /\ NothingMissed'
<1> USE DEF CommandsInv, Based, Wired
<1>1. /\ UNCHANGED <<record, listeners, pending, conn, wire, published, since, made, malformed>>
      /\ emits # <<>>
      /\ Gives(Head(emits).list, Head(emits).n, Head(emits).at, Tail(emits))
  BY DEF HandOn, wireVars, managerVars, deferVars
<1>2. /\ Head(emits) \in LoopType /\ Tail(emits) \in Seq(LoopType)
      /\ ToSet(emits) = ToSet(Tail(emits)) \cup {Head(emits)}
  <2>1. emits \in Seq(LoopType)
    BY DEF LoopsOK, LoopType
  <2> QED
    BY <1>1, <2>1, Taken, MembersTaken
<1>3. PICK e, others : e = Head(emits) /\ others = Tail(emits)
  OBVIOUS
<1>4. /\ e \in LoopType /\ others \in Seq(LoopType) /\ Gives(e.list, e.n, e.at, others)
      /\ ToSet(emits) = ToSet(others) \cup {e}
  BY <1>1, <1>2, <1>3
<1>5. Attended'
  BY <1>1 DEF Attended
<1>6. ASSUME NEW i \in Iterators, since[i] # None,
             NEW n \in since[i] + 1 .. published[ChannelOf[i]]
      PROVE  Comes(i, n)'
  <2>1. Comes(i, n)
    BY <1>6, MissedIs
  <2>2. i \in listeners[ChannelOf[i]]
    BY <1>6 DEF Attended
  <2>3. CASE Message(ChannelOf[i], n) \in ToSet(wire)
    BY <1>1, <2>3 DEF Comes
  <2>4. ASSUME NEW k \in DOMAIN emits, Meets(emits[k], i, n)
        PROVE  Meets(e, i, n) \/ \E h \in DOMAIN others : Meets(others[h], i, n)
    <3>1. PICK f : f = emits[k] /\ Meets(f, i, n) /\ f \in ToSet(emits)
      BY <2>4 DEF ToSet
    <3>2. f = e \/ \E h \in DOMAIN others : f = others[h]
      BY <1>4, <3>1 DEF ToSet
    <3> QED
      BY <3>1, <3>2
  <2>5. CASE ~(Message(ChannelOf[i], n) \in ToSet(wire))
    <3>1. \/ <<i, n>> \in malformed
          \/ n \in Given(i)
          \/ Meets(e, i, n)
          \/ \E h \in DOMAIN others : Meets(others[h], i, n)
      BY <2>1, <2>4, <2>5 DEF Comes
    <3> QED
      BY <1>1, <1>4, <2>2, <3>1, TurnMeets
  <2> QED
    BY <2>3, <2>5
<1>7. NothingMissed'
  BY <1>1, <1>6, MissedThen
<1> QED
  BY <1>5, <1>7

\* A message that was read is ahead of all who count on it.
LEMMA EmitMeets ==
    ASSUME CommandsInv, Placed, Attended, NothingMissed, conn = "online",
           NEW c \in Channels, NEW n \in 1..MaxPublished, Emit(c, n),
           wire # <<>>, Head(wire) = Message(c, n), wire' = Tail(wire),
           UNCHANGED <<made, record, listeners, malformed, conn, published>>
    PROVE  Attended' /\ NothingMissed'
<1> USE DEF CommandsInv, Based, Wired
<1>1. UNCHANGED <<pending, since>>
  BY DEF Emit
<1>2. Attended'
  BY <1>1 DEF Attended
<1>3. wire \in Seq({Reply} \cup Messages) /\ \A j \in Iterators : ChannelOf[j] \in Channels
  BY RepliesAre, SubscriptionsAssumption
<1>4. ToSet(wire) = ToSet(wire') \cup {Head(wire)}
  BY <1>3, MembersTaken
<1>5. /\ made \in Seq(Iterators) /\ Len(made) \in Nat /\ DOMAIN made = 1..Len(made)
      /\ emits \in Seq(LoopType)
  <2>1. made \in Seq(Iterators) /\ emits \in Seq(LoopType)
    BY DEF LoopsOK, LoopType
  <2>2. Len(made) \in Nat /\ DOMAIN made = 1..Len(made)
    BY <2>1
  <2> QED
    BY <2>1, <2>2
<1>6. ASSUME NEW i \in Iterators, since[i] # None,
             NEW m \in since[i] + 1 .. published[ChannelOf[i]],
             Message(ChannelOf[i], m) \notin ToSet(wire')
      PROVE  Comes(i, m)'
  <2>1. Comes(i, m)
    BY <1>6, MissedIs
  <2>2. /\ i \in listeners[ChannelOf[i]] /\ record[ChannelOf[i]] # None
        /\ ChannelOf[i] \in Channels
    BY <1>3, <1>6 DEF Attended
  <2>3. CASE record[c] = None
    <3>1. UNCHANGED <<received, emits>>
      BY <2>3 DEF Emit
    <3>2. Message(ChannelOf[i], m) \notin ToSet(wire)
      <4>1. ChannelOf[i] # c
        BY <2>2, <2>3
      <4>2. Message(ChannelOf[i], m) # Message(c, n)
        BY <4>1 DEF Message
      <4> QED
        BY <1>4, <1>6, <4>2
    <3> QED
      BY <2>1, <3>1, <3>2, ComesStays
  <2>4. CASE record[c] # None
    <3>1. PICK e : e = [list |-> record[c], n |-> n, at |-> 0]
      OBVIOUS
    <3>2. record[c] \in Iterators
      BY <2>4 DEF ManagerOK
    <3>3. e \in LoopType /\ e.list = record[c] /\ e.n = n /\ e.at = 0
      BY <3>1, <3>2 DEF LoopType
    <3>4. Gives(record[c], n, 0, emits)
      BY <2>4 DEF Emit
    <3>5. Gives(e.list, e.n, e.at, emits)
      BY <3>3, <3>4
    <3>6. CASE Message(ChannelOf[i], m) = Message(c, n)
      <4>1. ChannelOf[i] = c /\ m = n
        BY <3>6 DEF Message
      <4>2. PICK p \in DOMAIN made : made[p] = i
        BY <2>2 DEF Placed, ToSet
      <4>3. p \in e.at + 1 .. Len(made)
        BY <1>5, <3>3, <4>2
      <4>4. Meets(e, i, m)
        BY <3>3, <4>1, <4>2, <4>3 DEF Meets
      <4> QED
        BY <1>5, <2>2, <3>3, <3>5, <4>4, TurnMeets
    <3>7. CASE Message(ChannelOf[i], m) # Message(c, n)
      <4>1. Message(ChannelOf[i], m) \notin ToSet(wire)
        BY <1>4, <1>6, <3>7
      <4>2. \/ <<i, m>> \in malformed
            \/ m \in Given(i)
            \/ \E k \in DOMAIN emits : Meets(emits[k], i, m)
        BY <2>1, <4>1 DEF Comes
      <4> QED
        BY <1>5, <2>2, <3>3, <3>5, <4>2, TurnMeets
    <3> QED
      BY <3>6, <3>7
  <2> QED
    BY <2>3, <2>4
<1>7. ASSUME NEW i \in Iterators, NEW m, Message(ChannelOf[i], m) \in ToSet(wire')
      PROVE  Comes(i, m)'
  BY <1>7 DEF Comes
<1>8. NothingMissed'
  BY <1>1, <1>6, <1>7, MissedThen
<1> QED
  BY <1>2, <1>8

\* The client reads: a reply ends nothing that is counted on, a message reaches all who
\* count on it.
LEMMA ReadAttends ==
    ASSUME CommandsInv, Placed, Attended, NothingMissed, Read, conn = "online"
    PROVE  Attended' /\ NothingMissed'
<1> USE DEF CommandsInv, Based, Wired
<1>1. /\ wire # <<>> /\ wire' = Tail(wire)
      /\ UNCHANGED <<record, listeners, made, malformed, conn, published>>
      /\ wire \in Seq({Reply} \cup Messages)
      /\ \A j \in Iterators : ChannelOf[j] \in Channels
  BY RepliesAre, SubscriptionsAssumption DEF Read, managerVars
<1>2. ToSet(wire) = ToSet(wire') \cup {Head(wire)}
  BY <1>1, MembersTaken
<1>3. ASSUME NEW c \in Channels, NEW n \in 1..MaxPublished, Head(wire) = Message(c, n), Emit(c, n)
      PROVE  Attended' /\ NothingMissed'
  BY <1>1, <1>3, EmitMeets
<1>4. CASE Head(wire) = Reply /\ Replied
  <2>1. PICK r \in Iterators : /\ UNCHANGED <<received, emits>>
                               /\ Subscribed(r) \/ UNCHANGED <<pending, since>>
    BY <1>1, <1>4, RepliedIs DEF Subscribed, Unsubscribed
  <2>2. ASSUME NEW i \in Iterators, since[i] # None,
               NEW m \in since[i] + 1 .. published[ChannelOf[i]]
        PROVE  Comes(i, m)'
    <3>1. Comes(i, m)
      BY <2>2, MissedIs
    <3>2. Message(ChannelOf[i], m) \in ToSet(wire) => Message(ChannelOf[i], m) \in ToSet(wire')
      BY <1>2, <1>4, MessageParts
    <3> QED
      BY <1>1, <2>1, <3>1, <3>2, ComesStays
  <2>3. CASE UNCHANGED <<pending, since>>
    <3>1. Attended'
      BY <1>1, <2>3 DEF Attended
    <3>2. NothingMissed'
      BY <1>1, <2>2, <2>3, MissedThen
    <3> QED
      BY <3>1, <3>2
  <2>4. CASE Subscribed(r)
    <3>1. PICK c \in Channels : c = ChannelOf[r]
      BY <1>1
    <3>2. /\ \A q \in Iterators : pending[q] = "resolved" => pending'[q] = "resolved"
          /\ pending'[r] = "resolved"
          /\ \A i \in Iterators : since'[i] = IF record[c] = r /\ i \in listeners[c]
                                              THEN published[c] ELSE since[i]
      BY <2>4, <3>1 DEF Subscribed, ManagerOK
    <3>3. Attended'
      <4> SUFFICES ASSUME NEW i \in Iterators, since'[i] # None
                   PROVE  /\ i \in listeners[ChannelOf[i]]
                          /\ record[ChannelOf[i]] # None
                          /\ pending'[record[ChannelOf[i]]] = "resolved"
        BY <1>1 DEF Attended
      <4>1. CASE record[c] = r /\ i \in listeners[c]
        <5>1. ChannelOf[i] = c
          BY <4>1 DEF RecordsAreMade
        <5> QED
          BY <3>2, <4>1, <5>1, SubscriptionsAssumption
      <4>2. CASE ~(record[c] = r /\ i \in listeners[c])
        <5>1. /\ i \in listeners[ChannelOf[i]] /\ record[ChannelOf[i]] # None
              /\ pending[record[ChannelOf[i]]] = "resolved"
          BY <3>2, <4>2 DEF Attended
        <5>2. record[ChannelOf[i]] \in Iterators
          BY <1>1, <5>1 DEF ManagerOK
        <5> QED
          BY <3>2, <5>1, <5>2
      <4> QED
        BY <4>1, <4>2
    <3>4. ASSUME NEW i \in Iterators, since'[i] # None,
                 NEW m \in since'[i] + 1 .. published[ChannelOf[i]]
          PROVE  Comes(i, m)'
      <4>1. CASE record[c] = r /\ i \in listeners[c]
        <5>1. ChannelOf[i] = c
          BY <4>1 DEF RecordsAreMade
        <5>2. since'[i] = published[ChannelOf[i]] /\ published[ChannelOf[i]] \in Nat
          BY <1>1, <3>2, <4>1, <5>1, SubscriptionsAssumption DEF ManagerOK
        <5> QED
          BY <3>4, <5>2
      <4>2. CASE ~(record[c] = r /\ i \in listeners[c])
        BY <2>2, <3>2, <3>4, <4>2
      <4> QED
        BY <4>1, <4>2
    <3>5. NothingMissed'
      BY <1>1, <3>4, MissedThen
    <3> QED
      BY <3>3, <3>5
  <2> QED
    BY <2>1, <2>3, <2>4
<1> QED
  BY <1>3, <1>4 DEF Read

\* The client is back: iterators of channels it subscribes to again may count on messages.
LEMMA ReconnectAttends ==
    ASSUME CommandsInv, Reconnect
    PROVE  Attended' /\ NothingMissed'
<1> USE DEF CommandsInv, Based, Wired
<1>1. Live /\ \A i \in Iterators : ChannelOf[i] \in Channels
  BY SubscriptionsAssumption DEF Reconnect, Live
<1>2. /\ since' = [i \in Iterators |->
                      IF /\ i \in listeners[ChannelOf[i]]
                         /\ pending[record[ChannelOf[i]]] = "resolved"
                      THEN published[ChannelOf[i]] ELSE None]
      /\ UNCHANGED <<managerVars, deferVars, published>>
  BY DEF Reconnect
<1>3. \A i \in Iterators : i \in listeners[ChannelOf[i]] => record[ChannelOf[i]] # None
  BY <1>1 DEF Belief, HeardWhileKept
<1>4. Attended'
  BY <1>2, <1>3 DEF Attended, managerVars, deferVars
<1>5. ASSUME NEW i \in Iterators, since'[i] # None,
             NEW n \in since'[i] + 1 .. published'[ChannelOf[i]]
      PROVE  FALSE
  <2>1. since'[i] = published[ChannelOf[i]] /\ published[ChannelOf[i]] \in Nat
    BY <1>1, <1>2, <1>5, SubscriptionsAssumption DEF ManagerOK
  <2> QED
    BY <1>2, <1>5, <2>1
<1>6. NothingMissed'
  BY <1>5, MissedThen
<1> QED
  BY <1>4, <1>6

\* The inductive invariant of the messages.
MessagesInv == CommandsInv /\ Attended /\ NothingMissed /\ Order /\ Handing

\* The invariant is kept.
LEMMA MessagesKept ==
    ASSUME MessagesInv, [Next]_vars
    PROVE  MessagesInv'
<1> USE DEF MessagesInv
<1>1. CommandsInv'
  BY CommandsKept
<1>2. Order' /\ Handing'
  BY OrderKept, HandingKept
<1>3. ASSUME conn' # "online"
      PROVE  Attended' /\ NothingMissed'
  BY <1>3 DEF Attended, NothingMissed
<1>4. ASSUME conn = "online",
             UNCHANGED <<conn, record, listeners, pending, published, received, since, emits, made,
                         malformed>>,
             ToSet(wire) \subseteq ToSet(wire')
      PROVE  Attended' /\ NothingMissed'
  <2>1. Attended'
    BY <1>4 DEF Attended
  <2>2. ASSUME NEW i \in Iterators, since[i] # None,
               NEW n \in since[i] + 1 .. published[ChannelOf[i]]
        PROVE  Comes(i, n)'
    <3>1. Comes(i, n)
      BY <1>4, <2>2, MissedIs
    <3> QED
      BY <1>4, <3>1, ComesStays DEF CommandsInv
  <2>3. NothingMissed'
    BY <1>4, <2>2, MissedThen
  <2> QED
    BY <2>1, <2>3
<1>5. ASSUME conn' = "online", conn # "online"
      PROVE  Reconnect
  BY <1>5 DEF Next, Iterate, Off, Ensure, Publish, Dispose, ConnectionClosed, DisposeLists, Execute,
              Read, HandOn, Break, GiveUp, vars
<1>6. ASSUME conn' = "online", conn = "online"
      PROVE  Attended' /\ NothingMissed'
  <2>1. ASSUME NEW i \in Iterators, (\E ensures \in BOOLEAN : Iterate(i, ensures)) \/ Off(i)
        PROVE  Attended' /\ NothingMissed'
    BY <1>6, <2>1, IterateAttends, OffAttends
  <2>2. ASSUME NEW c \in Channels, NEW bad, Publish(c, bad)
        PROVE  Attended' /\ NothingMissed'
    BY <1>6, <2>2, PublishAttends
  <2>3. CASE Read
    BY <1>6, <2>3, ReadAttends DEF Handing
  <2>4. CASE HandOn
    BY <1>6, <2>4, HandOnAttends
  <2>5. CASE Execute
    <3>1. /\ wire' = Append(wire, Reply) /\ wire \in Seq({Reply} \cup Messages)
          /\ UNCHANGED <<conn, record, listeners, pending, published, received, since, emits, made,
                         malformed>>
      BY <2>5, RepliesAre DEF Execute, CommandsInv, Based, Wired, managerVars, emitVars, deferVars,
                              historyVars
    <3>2. ToSet(wire) \subseteq ToSet(wire')
      BY <3>1, MembersAppended
    <3> QED
      BY <1>4, <1>6, <3>1, <3>2
  <2>6. CASE Dispose \/ ConnectionClosed \/ Break \/ Reconnect \/ GiveUp
    BY <1>6, <2>6 DEF Dispose, ConnectionClosed, Break, Reconnect, GiveUp
  <2>7. CASE DisposeLists
    BY <1>6, <2>7 DEF DisposeLists, CommandsInv, Based, Wired, Apart
  <2>8. CASE (\E c \in Channels : Ensure(c)) \/ UNCHANGED vars
    <3>1. /\ UNCHANGED <<conn, record, listeners, pending, published, received, since, emits, made,
                         malformed>>
          /\ ToSet(wire) \subseteq ToSet(wire')
      BY <2>8 DEF Ensure, vars, managerVars, emitVars, deferVars, wireVars, historyVars
    <3> QED
      BY <1>4, <1>6, <3>1
  <2> QED
    BY <2>1, <2>2, <2>3, <2>4, <2>5, <2>6, <2>7, <2>8 DEF Next
<1>7. Attended' /\ NothingMissed'
  BY <1>3, <1>5, <1>6, ReconnectAttends
<1> QED
  BY <1>1, <1>2, <1>7

\* The invariant of the messages holds of every behaviour.
THEOREM MessagesInvariant == Spec => []MessagesInv
<1>1. Init => MessagesInv
  <2> SUFFICES ASSUME Init
               PROVE  MessagesInv
    OBVIOUS
  <2>1. CommandsInv
    BY CommandsAtFirst
  <2>2. Attended /\ NothingMissed
    BY SubscriptionsAssumption DEF Init, Attended, NothingMissed
  <2>3. /\ DOMAIN wire = {} /\ DOMAIN emits = {} /\ DOMAIN made = {} /\ malformed = {}
        /\ \A i \in Iterators : received[i] = <<>> /\ DOMAIN received[i] = {}
        /\ \A c \in Channels : listeners[c] = {}
    BY DEF Init
  <2>4. \A i \in Iterators : Given(i) = {}
    BY <2>3 DEF Given, ToSet
  <2>5. \A c \in Channels : Begun(c) = {}
    BY <2>3, <2>4 DEF Begun
  <2>6. Order
    BY <2>3, <2>5 DEF Order, WireIsPublished, WireIsOrdered, BegunBefore, BegunIsPublished,
                      MalformedIsPublished
  <2>7. Placed
    BY <2>3, <2>4 DEF Placed, ToSet
  <2>8. LoopsFit /\ LoopsFollow /\ Together
    BY <2>3 DEF LoopsFit, LoopsFollow, Together
  <2>9. NoneTwice /\ InOrder
    BY <2>3 DEF NoneTwice, InOrder
  <2> QED
    BY <2>1, <2>2, <2>6, <2>7, <2>8, <2>9 DEF MessagesInv, Handing
<1>2. MessagesInv /\ [Next]_vars => MessagesInv'
  BY MessagesKept
<1> QED
  BY <1>1, <1>2, PTL DEF Spec

\* An iterator that may count on its channel is given every message it can parse from then
\* on, while the connection stays, though the loop over the listeners awaits after each and
\* others come and leave meanwhile; none is given a message twice, over any breaks, nor late
\* while nobody leaves in the middle of a message and the channel's parsers agree.
THEOREM EveryMessageArrives == Spec => []MessagesArrive
<1>1. MessagesInv => MessagesArrive
  BY DEF MessagesInv, Handing, MessagesArrive
<1> QED
  BY <1>1, MessagesInvariant, PTL

==============================================================================
