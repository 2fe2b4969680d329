---------------------------- MODULE MattermostStream ----------------------------
(***************************************************************************)
(* createMattermostStream                                                  *)
(* (apps/api/src/infrastructure/logging/mattermost.transport.ts): a log     *)
(* stream with a bounded queue, one drain loop that posts to a webhook,     *)
(* trying each post twice, and a count of what was dropped.                 *)
(*                                                                         *)
(* JavaScript runs to completion between awaits, so a write with the start  *)
(* of a drain, and the end of one post with the start of the next, are one  *)
(* step each.  Records the stream ignores (access logs, lines that are not  *)
(* JSON) change nothing.                                                    *)
(***************************************************************************)
EXTENDS Naturals, Sequences, FiniteSets

CONSTANTS
    MaxQueue, \* options.maxQueue
    MaxWrites \* bound: log records written

ASSUME StreamAssumption == MaxQueue \in Nat \ {0} /\ MaxWrites \in Nat

VARIABLES
    written,    \* log records accepted so far; they are numbered from 1
    queue, dropped, draining,
    current,    \* what the drain loop has shifted and is posting
    attempt,    \* which try this is; 0 when nothing is being posted
    channel,    \* history: numbers of the posts that reached Mattermost
    abandoned,  \* history: numbers of the records evicted, or given up after two tries
    surfaced,   \* history: sum of the counts in notices acknowledged by Mattermost
    noticeLost  \* history: whether a notice was evicted or given up

streamState == <<queue, dropped, draining, current, attempt>>
vars == <<written, streamState, channel, abandoned, surfaced, noticeLost>>

(* A log record has a number; a notice has a count of lost records. *)
Item == [id: Nat, lost: Nat]
Log(n) == [id |-> n, lost |-> 0]
Notice(n) == [id |-> 0, lost |-> n]
Nothing == [id |-> 0, lost |-> 0]
IsLog(item) == item.id > 0

TypeOK ==
    /\ written \in Nat /\ queue \in Seq(Item) /\ dropped \in Nat
    /\ draining \in BOOLEAN /\ current \in Item /\ attempt \in 0 .. 2
    /\ channel \in Seq(Nat) /\ abandoned \subseteq Nat
    /\ surfaced \in Nat /\ noticeLost \in BOOLEAN

Init ==
    /\ written = 0 /\ queue = <<>> /\ dropped = 0 /\ draining = FALSE
    /\ current = Nothing /\ attempt = 0
    /\ channel = <<>> /\ abandoned = {} /\ surfaced = 0 /\ noticeLost = FALSE

-----------------------------------------------------------------------------
(* Mutants: bugs this code could plausibly have, none of them in Next. *)

(* The drain loop ends without clearing draining. *)
DrainFrom_NoFinally(q) ==
    IF q = <<>>
    THEN draining' = TRUE /\ queue' = q /\ attempt' = 0 /\ current' = Nothing
    ELSE draining' = TRUE /\ queue' = Tail(q) /\ attempt' = 1 /\ current' = Head(q)

(* The drain loop takes the newest item: pop() for shift(). *)
DrainFrom_Pop(q) ==
    IF q = <<>>
    THEN draining' = FALSE /\ queue' = q /\ attempt' = 0 /\ current' = Nothing
    ELSE /\ draining' = TRUE /\ attempt' = 1
         /\ queue' = SubSeq(q, 1, Len(q) - 1) /\ current' = q[Len(q)]

(* The queue is trimmed only once it is over its limit. *)
Push_OneTooMany(item) ==
    Append(IF Len(queue) > MaxQueue THEN Tail(queue) ELSE queue, item)

(* The loop condition shifts an item of its own. *)
DrainFrom_ShiftTwice(q) ==
    IF Len(q) < 2
    THEN draining' = FALSE /\ queue' = <<>> /\ attempt' = 0 /\ current' = Nothing
    ELSE draining' = TRUE /\ queue' = SubSeq(q, 3, Len(q)) /\ attempt' = 1 /\ current' = q[2]

(* The counter is not reset once its value has been put into a notice. *)
CounterReset_Forgotten == UNCHANGED dropped

-----------------------------------------------------------------------------

(* History: an item is evicted or given up. *)
Lose(item) ==
    IF IsLog(item)
    THEN abandoned' = abandoned \cup {item.id} /\ UNCHANGED noticeLost
    ELSE noticeLost' = TRUE /\ UNCHANGED abandoned

(* The head of the drain loop, with q in the queue. *)
DrainFrom(q) ==
    IF q = <<>>
    THEN draining' = FALSE /\ queue' = q /\ attempt' = 0 /\ current' = Nothing
    ELSE draining' = TRUE /\ queue' = Tail(q) /\ attempt' = 1 /\ current' = Head(q)

(* The queue with one more item, at the expense of the oldest if it is full. *)
Push(item) ==
    Append(IF Len(queue) >= MaxQueue THEN Tail(queue) ELSE queue, item)

(* A log record is written; drain() returns at once if a loop is running. *)
Write ==
    LET pushed == Push(Log(written + 1)) IN
    /\ written < MaxWrites
    /\ written' = written + 1
    /\ IF Len(queue) >= MaxQueue
       THEN dropped' = dropped + 1 /\ Lose(Head(queue))
       ELSE UNCHANGED <<dropped, abandoned, noticeLost>>
    /\ IF draining
       THEN queue' = pushed /\ UNCHANGED <<draining, current, attempt>>
       ELSE DrainFrom(pushed)
    /\ UNCHANGED <<channel, surfaced>>

CounterReset == dropped' = 0

(* A post is answered with a 2xx: what was lost is put into a notice at the *)
(* end of the queue, and the loop goes on.                                  *)
PostOk ==
    /\ attempt > 0
    /\ channel' = Append(channel, current.id)
    /\ surfaced' = surfaced + current.lost
    /\ DrainFrom(IF dropped > 0 THEN Append(queue, Notice(dropped)) ELSE queue)
    /\ CounterReset
    /\ UNCHANGED <<written, abandoned, noticeLost>>

(* A post is refused, fails or times out.  Whether it got there is not known. *)
MayHaveArrived == channel' \in {channel, Append(channel, current.id)}

(* The tries that are followed by another. *)
Retry == {1}

PostFails ==
    /\ attempt \in Retry
    /\ attempt' = 2
    /\ MayHaveArrived
    /\ UNCHANGED <<written, queue, dropped, draining, current, abandoned, surfaced, noticeLost>>

RetryFails ==
    /\ attempt = 2
    /\ MayHaveArrived
    /\ dropped' = dropped + 1
    /\ Lose(current)
    /\ DrainFrom(queue)
    /\ UNCHANGED <<written, surfaced>>

PostEnds == PostOk \/ PostFails \/ RetryFails
Next == Write \/ PostEnds
Spec == Init /\ [][Next]_vars

(* A post ends: it is answered, or AbortSignal.timeout ends it. *)
FairSpec == Spec /\ WF_vars(PostEnds)

-----------------------------------------------------------------------------
(* Properties *)

(* "bounded queue" (line 162): the notice is pushed without looking at the  *)
(* limit, yet whenever the event loop runs something else the queue is      *)
(* within it.                                                               *)
QueueBounded == Len(queue) <= MaxQueue

(* "serial queue", "a single async worker" (lines 162, 171): a loop is       *)
(* draining exactly while a post is in flight, and nothing waits in the      *)
(* queue without one.                                                        *)
NoLostWakeup ==
    /\ draining <=> attempt > 0
    /\ ~draining => queue = <<>>

(* Log records reach the channel in the order they were written, each at     *)
(* most twice (line 208: one retry), whatever is evicted between them.       *)
InOrder ==
    /\ \A i, j \in 1 .. Len(channel) :
          i < j /\ channel[i] > 0 /\ channel[j] > 0 => channel[i] <= channel[j]
    /\ \A i, j, k \in 1 .. Len(channel) :
          i < j /\ j < k /\ channel[i] > 0 => ~(channel[i] = channel[j] /\ channel[j] = channel[k])

(* A record accepted is waiting, in flight, in the channel, or counted as     *)
(* lost: none disappears between a write and the drain loop.                  *)
InQueue(n) == \E i \in 1 .. Len(queue) : queue[i].id = n
InChannel(n) == \E i \in 1 .. Len(channel) : channel[i] = n
NothingVanishes ==
    \A n \in 1 .. written : n \in abandoned \/ n = current.id \/ InQueue(n) \/ InChannel(n)

(* The notices in q report w lost records: s[i] is what the items from the    *)
(* i-th on report.  That s falls follows; it spares the proof an induction.   *)
Reports(q, w) ==
    \E s \in [1 .. Len(q) + 1 -> 0 .. w] :
        /\ s[1] = w /\ s[Len(q) + 1] = 0
        /\ \A i \in 1 .. Len(q) : s[i] = q[i].lost + s[i + 1]
        /\ \A i, j \in 1 .. Len(q) + 1 : i <= j => s[j] <= s[i]

(* "Surface what was lost once delivery recovers, then reset the counter"     *)
(* (line 210): every record given up is in the counter, in a notice under     *)
(* way, or in a notice Mattermost has acknowledged.                           *)
LossesSurfaced ==
    \E w \in 0 .. Cardinality(abandoned) :
        Reports(queue, w) /\ Cardinality(abandoned) = dropped + w + current.lost + surfaced

(* ... which the code keeps for as long as no notice is itself lost.          *)
LossesAccounted == noticeLost \/ LossesSurfaced

(* The inductive invariant behind them: the records in the channel, in flight *)
(* and in the queue are one increasing sequence of numbers.                   *)
Ordered(q) ==
    \A i, j \in 1 .. Len(q) : i < j /\ IsLog(q[i]) /\ IsLog(q[j]) => q[i].id < q[j].id
After(n, q) == \A i \in 1 .. Len(q) : IsLog(q[i]) => n < q[i].id

QueueInOrder ==
    /\ Ordered(queue) /\ After(current.id, queue)
    /\ \A i \in 1 .. Len(queue) : queue[i].id <= written
    /\ \A i \in 1 .. Len(channel) : After(channel[i], queue)

CurrentInOrder ==
    /\ attempt = 0 => current = Nothing
    /\ current.id <= written
    /\ \A i \in 1 .. Len(channel) :
          /\ channel[i] <= written
          /\ IsLog(current) => channel[i] <= current.id
          /\ IsLog(current) /\ attempt = 1 => channel[i] < current.id
    /\ IsLog(current) => \A i, j \in 1 .. Len(channel) :
          i < j => ~(channel[i] = current.id /\ channel[j] = current.id)

IInv ==
    /\ TypeOK /\ QueueBounded /\ NoLostWakeup /\ InOrder
    /\ QueueInOrder /\ CurrentInOrder /\ NothingVanishes

(* The inductive invariant of the counts: no record is given up twice, for    *)
(* those given up are older than all that wait, and only notices report.      *)
LossesOK ==
    /\ abandoned \subseteq 1 .. written
    /\ \A n \in abandoned : n # current.id /\ After(n, queue)
    /\ \A i \in 1 .. Len(queue) : IsLog(queue[i]) => queue[i].lost = 0
    /\ IsLog(current) => current.lost = 0
    /\ LossesAccounted

(* Once no more is written, the queue empties and the loop ends, whatever the *)
(* webhook answers: notices do not feed on themselves.                        *)
Quiesces == <>[](~draining /\ queue = <<>>)
=============================================================================
