------------------------------- MODULE RedisQ2 -------------------------------
(***************************************************************************)
(* The transaction queue of @bunt/queue: a QueueList whose reader is       *)
(* RedisQ2Reader, over a Redis server.                                     *)
(*                                                                         *)
(* A message travels through three Redis lists.  send() puts it into the   *)
(* channel, a read moves it to the backup of this host, a commit drops an  *)
(* entry of the backup and a rollback moves one to the fallback.  Commit   *)
(* and rollback name no message: they take whatever is at an end of the    *)
(* backup, so that they hit the right one is a property of the whole.      *)
(*                                                                         *)
(* The reader has one connection.  Its commands are executed in the order  *)
(* they were issued, and BRPOPLPUSH on an empty channel holds up those     *)
(* behind it.  The execution of a command and the continuation its reply   *)
(* runs are one step: no other command of that connection and no other     *)
(* writer of the backup can come between.  Sends use another connection.   *)
(*                                                                         *)
(* Lists are written from right to left: Append is LPUSH, Head the right   *)
(* end, Last the left one.                                                 *)
(***************************************************************************)
EXTENDS QueueList, SequencesExt

CONSTANTS
    Malformed,      \* what read() takes for nothing: messages unserialize() refuses,
                    \* and those with a falsy payload
    MaxDrops        \* bound: replies lost with a connection

ASSUME RedisQ2Assumption ==
    /\ Malformed \subseteq Messages
    /\ MaxDrops \in Nat

VARIABLES
    channel,        \* the lists in Redis
    backup,
    fallback,
    sent,           \* history: the messages in the order of their LPUSH
    pipe,           \* the reader's connection: commands without a reply
    drops           \* how many replies were lost

lists == <<channel, backup, fallback>>
q2vars == <<vars, lists, sent, pipe, drops>>

------------------------------------------------------------------------------
(***************************************************************************)
(* The commands of the reader                                              *)
(***************************************************************************)

\* BRPOPLPUSH channel backup, issued by a loop.
NextCmd(l) == <<"next", l>>
\* LPOP backup
CommitCmd(m) == <<"commit", m>>
\* RPOPLPUSH backup fallback
RollbackCmd(m) == <<"rollback", m>>

Commands ==
    ({"next"} \X Loops) \cup ({"commit", "rollback"} \X Messages)

\* Mutant: the newest message is taken.
MoveNewest ==
    IF channel = <<>> THEN UNCHANGED lists
    ELSE /\ channel' = Front(channel)
         /\ backup' = Append(backup, Last(channel))
         /\ UNCHANGED fallback

MoveNext ==
    IF channel = <<>> THEN UNCHANGED lists
    ELSE /\ channel' = Tail(channel)
         /\ backup' = Append(backup, Head(channel))
         /\ UNCHANGED fallback

\* Mutants: the commit drops the oldest entry, or all of them.
DropOldest ==
    /\ backup' = IF backup = <<>> THEN <<>> ELSE Tail(backup)
    /\ UNCHANGED <<channel, fallback>>

DropAll ==
    /\ backup' = <<>>
    /\ UNCHANGED <<channel, fallback>>

DropLatest ==
    /\ backup' = IF backup = <<>> THEN <<>> ELSE Front(backup)
    /\ UNCHANGED <<channel, fallback>>

\* Mutants: the rollback puts the message back into the channel, or leaves it
\* in the backup too.
RequeueOldest ==
    IF backup = <<>> THEN UNCHANGED lists
    ELSE /\ backup' = Tail(backup)
         /\ channel' = Append(channel, Head(backup))
         /\ UNCHANGED fallback

CopyOldest ==
    IF backup = <<>> THEN UNCHANGED lists
    ELSE /\ fallback' = Append(fallback, Head(backup))
         /\ UNCHANGED <<channel, backup>>

MoveOldest ==
    IF backup = <<>> THEN UNCHANGED lists
    ELSE /\ backup' = Tail(backup)
         /\ fallback' = Append(fallback, Head(backup))
         /\ UNCHANGED channel

\* What the server does for a command.
Execute(cmd) ==
    \/ cmd[1] = "next" /\ MoveNext
    \/ cmd[1] = "commit" /\ DropLatest
    \/ cmd[1] = "rollback" /\ MoveOldest

\* The connection is open.
Open == disposing \in {"no", "closing"}

\* The reply to a command arrives: it was the first in the pipe.
Replied(cmd) ==
    /\ Open
    /\ pipe # <<>>
    /\ Head(pipe) = cmd
    /\ Execute(cmd)

\* The step issues cmds, after rest; on a closed connection they fail.
Issues(rest, cmds) ==
    /\ pipe' = IF Open THEN rest \o cmds ELSE <<>>
    /\ UNCHANGED <<sent, drops>>

\* The read a loop starts when it comes round.
Reads(l) == IF loop'[l].pc = "reading" THEN <<NextCmd(l)>> ELSE <<>>

\* The rollback handle() calls when a watcher threw on the commit.
Undoes(m) == IF phase'[m] = "rolling" THEN <<RollbackCmd(m)>> ELSE <<>>

------------------------------------------------------------------------------
(***************************************************************************)
(* The steps of QueueList, with the commands they wait for and issue       *)
(***************************************************************************)

\* A read that waits gets nothing when its timeout passes, and nothing when
\* the message it moved to the backup cannot be decoded.
NextReplied(l) ==
    /\ Replied(NextCmd(l))
    /\ IF channel # <<>> /\ Head(channel) \notin Malformed
       THEN ReadMessage(l, Head(channel))
       ELSE ReadNothing(l)
    /\ Issues(Tail(pipe), Reads(l))

\* wrap() turns the rejection of a closed connection into undefined.
NextRejected(l) ==
    /\ ~Open
    /\ ReadNothing(l)
    /\ Issues(pipe, <<>>)
    /\ UNCHANGED lists

CommitReplied(m) ==
    /\ Replied(CommitCmd(m))
    /\ Committed(m, TRUE)
    /\ Issues(Tail(pipe), Undoes(m))

\* Mutant: a commit that failed is reported as done.
CommitRejectedAsDone(m) ==
    /\ ~Open
    /\ Committed(m, TRUE)
    /\ Issues(pipe, <<>>)
    /\ UNCHANGED lists

\* The operation is released as failed, the entry stays in the backup.
CommitRejected(m) ==
    /\ ~Open
    /\ Committed(m, FALSE)
    /\ Issues(pipe, <<>>)
    /\ UNCHANGED lists

RollbackReplied(m) ==
    /\ Replied(RollbackCmd(m))
    /\ RolledBack(m) \/ RollbackThrows(m)
    /\ Issues(Tail(pipe), <<>>)

RollbackRejected(m) ==
    /\ ~Open
    /\ RolledBack(m) \/ RollbackThrows(m)
    /\ Issues(pipe, <<>>)
    /\ UNCHANGED lists

BatchFlushed(l) ==
    /\ Flushed(l)
    /\ Issues(pipe, Reads(l))
    /\ UNCHANGED lists

HandlerSettles(m) ==
    /\ \/ (HandlerReturns(m) \/ ReplySent(m)) /\ Issues(pipe, <<CommitCmd(m)>>)
       \/ (HandlerThrows(m) \/ ReplyFails(m)) /\ Issues(pipe, <<RollbackCmd(m)>>)
       \/ HandlerReplies(m) /\ Issues(pipe, <<>>)
    /\ UNCHANGED lists

SubscriptionReads(l) ==
    /\ Subscribe(l)
    /\ Issues(pipe, Reads(l))
    /\ UNCHANGED lists

CallMoves(c) ==
    /\ Unsubscribe(c) \/ CallStep(c)
    /\ UNCHANGED <<lists, sent, pipe, drops>>

\* What is not replied to when the connection closes is rejected.  Where the
\* server has executed it, and only the reply is lost, ReplyLost comes before.
ConnectionClosed ==
    /\ ReaderClosed
    /\ pipe' = <<>>
    /\ UNCHANGED <<lists, sent, drops>>

DisposeMoves ==
    /\ Dispose \/ DisposeUnsubscribes \/ Disposed
    /\ UNCHANGED <<lists, sent, pipe, drops>>

------------------------------------------------------------------------------
(***************************************************************************)
(* The senders, the network and the process                                *)
(***************************************************************************)

Send(m) ==
    /\ m \notin ToSet(sent)
    /\ sent' = Append(sent, m)
    /\ channel' = Append(channel, m)
    /\ UNCHANGED <<vars, backup, fallback, pipe, drops>>

\* The connection breaks after the server executed a command and before its
\* reply was read.  The client reconnects and issues what has no reply again.
ReplyLost ==
    /\ alive
    /\ Open
    /\ drops < MaxDrops
    /\ drops' = drops + 1
    /\ pipe # <<>>
    /\ Execute(Head(pipe))
    /\ UNCHANGED <<vars, sent, pipe>>

\* The process ends.  The command it was waiting for may have been executed.
ProcessCrash ==
    /\ Crash
    /\ \/ UNCHANGED lists
       \/ pipe # <<>> /\ Execute(Head(pipe))
    /\ pipe' = <<>>
    /\ UNCHANGED <<sent, drops>>

\* Nothing looks at what the backup still holds.
ProcessRestart(l) ==
    /\ Restart(l)
    /\ pipe' = <<NextCmd(l)>>
    /\ UNCHANGED <<lists, sent, drops>>

------------------------------------------------------------------------------
Q2Init ==
    /\ Init
    /\ channel = <<>>
    /\ backup = <<>>
    /\ fallback = <<>>
    /\ sent = <<>>
    /\ pipe = <<NextCmd(FirstLoop)>>
    /\ drops = 0

Q2LoopStep(l) == NextReplied(l) \/ NextRejected(l) \/ BatchFlushed(l)

Q2HandleStep(m) ==
    \/ HandlerSettles(m)
    \/ CommitReplied(m)
    \/ CommitRejected(m)
    \/ RollbackReplied(m)
    \/ RollbackRejected(m)

Q2Next ==
    \/ \E l \in Loops : Q2LoopStep(l) \/ SubscriptionReads(l) \/ ProcessRestart(l)
    \/ \E m \in Messages : Q2HandleStep(m) \/ Send(m)
    \/ \E c \in Calls : CallMoves(c)
    \/ DisposeMoves \/ ConnectionClosed
    \/ ReplyLost
    \/ ProcessCrash

Q2Spec == Q2Init /\ [][Q2Next]_q2vars

\* The server answers a blocked read when its timeout passes, so the pipe
\* moves; handlers end.
Q2Fairness ==
    /\ \A l \in Loops : WF_q2vars(Q2LoopStep(l))
    /\ \A m \in Messages : WF_q2vars(Q2HandleStep(m))

Q2FairSpec == Q2Spec /\ Q2Fairness

------------------------------------------------------------------------------
(***************************************************************************)
(* Properties                                                              *)
(***************************************************************************)

\* What each variable of the transaction queue may hold: lists of messages,
\* and a pipe of the reader's commands.
Q2TypeOK ==
    /\ channel \in Seq(Messages)
    /\ backup \in Seq(Messages)
    /\ fallback \in Seq(Messages)
    /\ sent \in Seq(Messages)
    /\ pipe \in Seq(Commands)
    /\ drops \in 0..MaxDrops

Stored == ToSet(channel) \cup ToSet(backup) \cup ToSet(fallback)

\* A message that is in none of the lists any more was handled to the end:
\* commits by position drop nobody else's entry, also when the backup holds
\* leftovers of a crash or of messages that could not be decoded.
NoLoss == ToSet(sent) \ Stored \subseteq succeeded

\* The watchers are told the truth.  A message reported as done is out of
\* Redis; one that was only ever reported as failed is still there.
VerdictIsTrue ==
    \A m \in Messages :
        /\ TRUE \in told[m] => m \notin Stored
        /\ told[m] = {FALSE} => m \in Stored

\* Whatever is lost, resent or rolled back, no message is ever in two places
\* or twice in one.
OnePlace ==
    Len(channel) + Len(backup) + Len(fallback) = Cardinality(Stored)

\* Messages leave the channel in the order they were sent in.
Fifo == IsSuffix(channel, sent)

\* With handlers running side by side commits hit each other's entries, but
\* their number is right: as many messages are gone as were reported done, and
\* those of them that a crash kept from being reported.
AsManyGoneAsDone ==
    LET gone == Len(sent) - Len(channel) - Len(backup) - Len(fallback)
        done == Cardinality({m \in Messages : TRUE \in told[m]})
        lost == Cardinality({m \in succeeded : phase[m] = "lost"})
    IN  alive /\ drops = 0 => gone \in done .. done + lost

\* A message in the channel of a list that stays subscribed is taken, also
\* when a commit and a read wait for each other's place in the pipe.
SentIsTaken ==
    \A m \in Messages :
        m \in ToSet(channel) ~> \/ m \notin ToSet(channel)
                                \/ ~alive \/ ~subscribed \/ disposing # "no"

\* Where MessageLedger has a message.
PlaceOf ==
    [m \in Messages |->
        IF m \in ToSet(channel) THEN "channel"
        ELSE IF m \in ToSet(backup) THEN "backup"
        ELSE IF m \in ToSet(fallback) THEN "fallback"
        ELSE IF m \in ToSet(sent) THEN "gone"
        ELSE "unsent"]

Ledger == INSTANCE MessageLedger WITH place <- PlaceOf

\* The queue implements MessageLedger.
LedgerSpec == Ledger!Spec

==============================================================================
