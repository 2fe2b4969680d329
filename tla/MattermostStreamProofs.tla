------------------------- MODULE MattermostStreamProofs -------------------------
(* Proofs about MattermostStream, for every limit of the queue.               *)
EXTENDS MattermostStream, SequenceTheorems, FiniteSetTheorems, TLAPS

-----------------------------------------------------------------------------
(* What the sequence operations do to the items of a queue. *)

LEMMA AppendItem ==
    ASSUME NEW q \in Seq(Item), NEW item \in Item
    PROVE  /\ Append(q, item) \in Seq(Item) /\ Append(q, item) # <<>>
           /\ Len(Append(q, item)) = Len(q) + 1
           /\ \A i \in 1 .. Len(q) + 1 :
                 Append(q, item)[i] = IF i <= Len(q) THEN q[i] ELSE item
BY AppendProperties

LEMMA TailItems ==
    ASSUME NEW q \in Seq(Item), q # <<>>
    PROVE  /\ Tail(q) \in Seq(Item) /\ Len(q) \in Nat \ {0}
           /\ Head(q) = q[1] /\ q[1] \in Item
           /\ Len(Tail(q)) = Len(q) - 1
           /\ \A i \in 1 .. Len(q) - 1 : Tail(q)[i] = q[i + 1]
BY HeadTailProperties, EmptySeq

(* Order survives the loss of the oldest item. *)
LEMMA TailOrdered ==
    ASSUME NEW q \in Seq(Item), q # <<>>, Ordered(q)
    PROVE  Ordered(Tail(q))
BY TailItems DEF Ordered, IsLog, Item

(* ... and the arrival of an item that comes after all others. *)
LEMMA AppendOrdered ==
    ASSUME NEW q \in Seq(Item), NEW item \in Item, Ordered(q),
           IsLog(item) => \A i \in 1 .. Len(q) : q[i].id < item.id
    PROVE  Ordered(Append(q, item))
<1> DEFINE r == Append(q, item)
<1> SUFFICES ASSUME NEW i \in 1 .. Len(q) + 1, NEW j \in 1 .. Len(q) + 1,
                    i < j, IsLog(r[i]), IsLog(r[j])
             PROVE  r[i].id < r[j].id
  BY AppendItem DEF Ordered
<1>1. i \in 1 .. Len(q) /\ r[i] = q[i]
  BY AppendItem
<1>2. CASE j = Len(q) + 1
  <2>1. r[j] = item
    BY <1>2, AppendItem
  <2> QED
    BY <1>1, <2>1
<1>3. CASE j # Len(q) + 1
  <2>1. j \in 1 .. Len(q) /\ r[j] = q[j]
    BY <1>3, AppendItem
  <2> QED
    BY <1>1, <2>1 DEF Ordered
<1> QED
  BY <1>2, <1>3

-----------------------------------------------------------------------------
(* The head of the drain loop takes the oldest item and keeps the rest. *)
LEMMA DrainTakesHead ==
    ASSUME NEW q \in Seq(Item), Ordered(q), DrainFrom(q)
    PROVE  /\ queue' \in Seq(Item) /\ draining' \in BOOLEAN
           /\ current' \in Item /\ attempt' \in 0 .. 1
           /\ NoLostWakeup' /\ (attempt' = 0 => current' = Nothing)
           /\ Len(queue') <= Len(q) /\ (q # <<>> => Len(queue') = Len(q) - 1)
           /\ Ordered(queue') /\ After(current'.id, queue')
           /\ \A i \in 1 .. Len(queue') : \E j \in 1 .. Len(q) : queue'[i] = q[j]
           /\ attempt' = 1 => \E j \in 1 .. Len(q) : current' = q[j]
           /\ \A i \in 1 .. Len(q) : q[i] = current' \/ \E j \in 1 .. Len(queue') : queue'[j] = q[i]
<1>1. CASE q = <<>>
  <2>1. Len(q) = 0
    BY <1>1
  <2> QED
    <3>1. queue' = <<>> /\ draining' = FALSE /\ attempt' = 0 /\ current' = Nothing
      BY <1>1 DEF DrainFrom
    <3>2. Len(queue') = 0
      BY <3>1
    <3>3. Nothing \in Item
      BY DEF Nothing, Item
    <3>4. NoLostWakeup'
      BY <3>1 DEF NoLostWakeup
    <3>5. \A i \in 1 .. Len(queue') : FALSE
      BY <3>2
    <3>6. Ordered(queue') /\ After(current'.id, queue')
      BY <3>5 DEF Ordered, After
    <3>7. queue' \in Seq(Item) /\ Len(queue') <= Len(q)
      BY <1>1, <3>1
    <3>8. draining' \in BOOLEAN
      BY <3>1
    <3>9. attempt' \in 0 .. 1 /\ attempt' # 1
      BY <3>1
    <3>10. \A i \in 1 .. Len(q) : FALSE
      BY <2>1
    <3> QED
      BY <1>1, <3>1, <3>3, <3>4, <3>5, <3>6, <3>7, <3>8, <3>9, <3>10
<1>2. CASE q # <<>>
  <2>1. /\ queue' = Tail(q) /\ current' = q[1] /\ attempt' = 1 /\ draining' = TRUE
    BY <1>2, TailItems DEF DrainFrom
  <2>2. Ordered(queue')
    BY <1>2, <2>1, TailOrdered
  <2>3. After(current'.id, queue')
    <3> SUFFICES ASSUME NEW i \in 1 .. Len(queue'), IsLog(queue'[i])
                 PROVE  current'.id < queue'[i].id
      BY DEF After
    <3>1. i + 1 \in 1 .. Len(q) /\ queue'[i] = q[i + 1] /\ 1 \in 1 .. Len(q)
      BY <1>2, <2>1, TailItems
    <3>2. q[1].id \in Nat /\ q[i + 1].id \in Nat
      <4>1. q[1] \in Item /\ q[i + 1] \in Item
        BY <3>1, ElementOfSeq
      <4> QED
        BY <4>1 DEF Item
    <3>3. CASE IsLog(q[1])
      BY <2>1, <3>1, <3>3 DEF Ordered
    <3>4. CASE ~IsLog(q[1])
      BY <2>1, <3>1, <3>2, <3>4 DEF IsLog
    <3> QED
      BY <3>3, <3>4
  <2>4. \A i \in 1 .. Len(queue') : \E j \in 1 .. Len(q) : queue'[i] = q[j]
    BY <1>2, <2>1, TailItems
  <2>5. ASSUME NEW i \in 1 .. Len(q) PROVE q[i] = current' \/ \E j \in 1 .. Len(queue') : queue'[j] = q[i]
    <3>1. CASE i = 1
      BY <2>1, <3>1
    <3>2. CASE i # 1
      <4>1. i - 1 \in 1 .. Len(queue') /\ queue'[i - 1] = q[i]
        BY <1>2, <2>1, <3>2, TailItems
      <4> QED
        BY <4>1
    <3> QED
      BY <3>1, <3>2
  <2> QED
    BY <1>2, <2>1, <2>2, <2>3, <2>4, <2>5, TailItems DEF NoLostWakeup
<1> QED
  BY <1>1, <1>2

-----------------------------------------------------------------------------
(* A loop that goes on with q in the queue restores the invariant, if q and   *)
(* the channel are in order and hold every record not given up.               *)
LEMMA DrainKeepsInvariant ==
    ASSUME NEW q \in Seq(Item), DrainFrom(q), Ordered(q), Len(q) <= MaxQueue + 1,
           written' \in Nat, dropped' \in Nat, channel' \in Seq(Nat),
           abandoned' \subseteq Nat, surfaced' \in Nat, noticeLost' \in BOOLEAN,
           InOrder',
           \A i \in 1 .. Len(q) : q[i].id <= written',
           \A i \in 1 .. Len(channel') : channel'[i] <= written' /\ After(channel'[i], q),
           \A n \in 1 .. written' :
              n \in abandoned' \/ InChannel(n)' \/ \E i \in 1 .. Len(q) : q[i].id = n
    PROVE  IInv'
<1>1. TypeOK'
  <2>1. attempt' \in 0 .. 2
    BY DrainTakesHead
  <2> QED
    BY <2>1, DrainTakesHead DEF TypeOK
<1>2. QueueBounded'
  <2>1. CASE q = <<>>
    <3>1. Len(q) = 0 /\ Len(queue') \in Nat /\ Len(queue') <= Len(q)
      BY <2>1, DrainTakesHead, LenProperties
    <3> QED
      BY <3>1, StreamAssumption DEF QueueBounded
  <2>2. CASE q # <<>>
    BY <2>2, DrainTakesHead, TailItems, StreamAssumption DEF QueueBounded
  <2> QED
    BY <2>1, <2>2
<1>3. QueueInOrder'
  <2>1. \A i \in 1 .. Len(queue') : queue'[i].id <= written'
    BY DrainTakesHead
  <2>2. \A i \in 1 .. Len(channel') : After(channel'[i], queue')
    BY DrainTakesHead DEF After
  <2> QED
    BY <2>1, <2>2, DrainTakesHead DEF QueueInOrder, After
<1>4. CurrentInOrder'
  <2>1. CASE attempt' = 1
    <3>1. PICK j \in 1 .. Len(q) : current' = q[j]
      BY <2>1, DrainTakesHead
    <3>2. current'.id <= written'
      BY <3>1
    <3>3. IsLog(current') => \A i \in 1 .. Len(channel') : channel'[i] < current'.id
      BY <3>1 DEF After
    <3>4. \A i \in 1 .. Len(channel') : channel'[i] \in Nat
      BY ElementOfSeq
    <3>5. current'.id \in Nat
      BY DrainTakesHead DEF Item
    <3> QED
      BY <2>1, <3>2, <3>3, <3>4, <3>5, SMTT(30) DEF CurrentInOrder, IsLog
  <2>2. CASE attempt' = 0
    <3>1. current' = Nothing
      BY <2>2, DrainTakesHead
    <3> QED
      BY <2>2, <3>1 DEF CurrentInOrder, Nothing, IsLog
  <2> QED
    BY <2>1, <2>2, DrainTakesHead
<1>5. NothingVanishes'
  <2> SUFFICES ASSUME NEW n \in 1 .. written', n \notin abandoned', ~InChannel(n)'
               PROVE  n = current'.id \/ InQueue(n)'
    BY DEF NothingVanishes
  <2>1. PICK i \in 1 .. Len(q) : q[i].id = n
    OBVIOUS
  <2> QED
    BY <2>1, DrainTakesHead, ZenonT(30) DEF InQueue
<1> QED
  BY <1>1, <1>2, <1>3, <1>4, <1>5, DrainTakesHead DEF IInv

-----------------------------------------------------------------------------
(* The post in flight fits at the end of the channel. *)
LEMMA ArrivalInOrder ==
    ASSUME IInv, attempt > 0, MayHaveArrived, UNCHANGED written
    PROVE  /\ channel' \in Seq(Nat) /\ InOrder'
           /\ \A i \in 1 .. Len(channel') : channel'[i] <= written' /\ After(channel'[i], queue)
           /\ \A n \in Nat : InChannel(n) => InChannel(n)'
<1> USE DEF IInv
<1>1. CASE UNCHANGED channel
  BY <1>1 DEF InOrder, TypeOK, QueueInOrder, CurrentInOrder, InChannel
<1>2. CASE channel' = Append(channel, current.id)
  <2>1. channel \in Seq(Nat) /\ current.id \in Nat /\ written \in Nat
    BY DEF TypeOK, Item
  <2>2. /\ channel' \in Seq(Nat) /\ Len(channel') = Len(channel) + 1 /\ Len(channel) \in Nat
        /\ \A i \in 1 .. Len(channel) : channel'[i] = channel[i] /\ channel[i] \in Nat
        /\ channel'[Len(channel) + 1] = current.id
    BY <1>2, <2>1, AppendProperties, ElementOfSeq, LenProperties
  <2>3. \A i \in 1 .. Len(channel) : IsLog(current) => channel[i] <= current.id
    BY DEF CurrentInOrder
  <2>4. ASSUME NEW i \in 1 .. Len(channel'), NEW j \in 1 .. Len(channel'),
               i < j, channel'[i] > 0, channel'[j] > 0
        PROVE  channel'[i] <= channel'[j]
    <3>1. i \in 1 .. Len(channel)
      BY <2>2, <2>4
    <3>2. CASE j \in 1 .. Len(channel)
      BY <2>2, <2>4, <3>1, <3>2 DEF InOrder
    <3>3. CASE j = Len(channel) + 1
      BY <2>2, <2>3, <2>4, <3>1, <3>3 DEF IsLog
    <3> QED
      BY <2>2, <3>2, <3>3
  <2>5. ASSUME NEW i \in 1 .. Len(channel'), NEW j \in 1 .. Len(channel'),
               NEW k \in 1 .. Len(channel'), i < j, j < k, channel'[i] > 0,
               channel'[i] = channel'[j], channel'[j] = channel'[k]
        PROVE  FALSE
    <3>1. i \in 1 .. Len(channel) /\ j \in 1 .. Len(channel)
      BY <2>2, <2>5
    <3>2. CASE k \in 1 .. Len(channel)
      BY <2>2, <2>5, <3>1, <3>2 DEF InOrder
    <3>3. CASE k = Len(channel) + 1
      BY <2>2, <2>5, <3>1, <3>3 DEF CurrentInOrder, IsLog
    <3> QED
      BY <2>2, <3>2, <3>3
  <2>6. InOrder'
    BY <2>4, <2>5 DEF InOrder
  <2>7. ASSUME NEW i \in 1 .. Len(channel')
        PROVE  channel'[i] <= written' /\ After(channel'[i], queue)
    <3>1. CASE i \in 1 .. Len(channel)
      BY <2>2, <3>1 DEF CurrentInOrder, QueueInOrder
    <3>2. CASE i = Len(channel) + 1
      BY <2>2, <3>2 DEF CurrentInOrder, QueueInOrder
    <3> QED
      BY <2>2, <3>1, <3>2
  <2>8. ASSUME NEW n \in Nat, InChannel(n) PROVE InChannel(n)'
    <3>1. PICK i \in 1 .. Len(channel) : channel[i] = n
      BY <2>8 DEF InChannel
    <3>2. i \in 1 .. Len(channel') /\ channel'[i] = n
      BY <2>2, <3>1
    <3> QED
      BY <3>2 DEF InChannel
  <2> QED
    BY <2>2, <2>6, <2>7, <2>8
<1> QED
  BY <1>1, <1>2 DEF MayHaveArrived

-----------------------------------------------------------------------------
LEMMA LoseType ==
    ASSUME NEW item \in Item, Lose(item), abandoned \subseteq Nat, noticeLost \in BOOLEAN
    PROVE  /\ abandoned' \subseteq Nat /\ noticeLost' \in BOOLEAN
           /\ abandoned \subseteq abandoned'
           /\ IsLog(item) => item.id \in abandoned'
BY DEF Lose, Item

(* Pushing a record keeps the queue in order and within its limit; all that   *)
(* may be missing afterwards is the oldest item of a full queue.              *)
LEMMA PushOne ==
    ASSUME IInv, NEW n \in Nat, n = written + 1
    PROVE  /\ Push(Log(n)) \in Seq(Item) /\ Len(Push(Log(n))) <= MaxQueue
           /\ Ordered(Push(Log(n)))
           /\ \A i \in 1 .. Len(Push(Log(n))) : Push(Log(n))[i].id <= n
           /\ \A k \in Nat : k <= written /\ After(k, queue) => After(k, Push(Log(n)))
           /\ \E i \in 1 .. Len(Push(Log(n))) : Push(Log(n))[i].id = n
           /\ \A i \in 1 .. Len(queue) :
                 (i = 1 /\ Len(queue) >= MaxQueue)
                    \/ \E j \in 1 .. Len(Push(Log(n))) : Push(Log(n))[j] = queue[i]
<1> USE DEF IInv
<1> DEFINE full == Len(queue) >= MaxQueue
           kept == IF full THEN Tail(queue) ELSE queue
           pushed == Append(kept, Log(n))
<1>1. /\ queue \in Seq(Item) /\ written \in Nat /\ Log(n) \in Item
      /\ Len(queue) \in Nat /\ Len(queue) <= MaxQueue /\ Ordered(queue)
      /\ \A i \in 1 .. Len(queue) : queue[i].id <= written /\ queue[i] \in Item
  BY LenProperties, ElementOfSeq DEF TypeOK, Log, Item, QueueBounded, QueueInOrder
<1>2. full => queue # <<>> /\ Len(queue) = MaxQueue
  <2>1. queue = <<>> => Len(queue) = 0
    OBVIOUS
  <2> QED
    BY <1>1, <2>1, StreamAssumption
<1>3. /\ kept \in Seq(Item) /\ Len(kept) \in Nat /\ Len(kept) <= MaxQueue - 1 /\ Ordered(kept)
      /\ \A i \in 1 .. Len(kept) : \E j \in 1 .. Len(queue) : kept[i] = queue[j]
  <2>1. CASE full
    BY <1>1, <1>2, <2>1, TailItems, TailOrdered, StreamAssumption
  <2>2. CASE ~full
    BY <1>1, <2>2, StreamAssumption
  <2> QED
    BY <2>1, <2>2
<1>4. \A i \in 1 .. Len(queue) : (i = 1 /\ full) \/ \E j \in 1 .. Len(kept) : kept[j] = queue[i]
  <2> SUFFICES ASSUME NEW i \in 1 .. Len(queue), ~(i = 1 /\ full)
               PROVE  \E j \in 1 .. Len(kept) : kept[j] = queue[i]
    OBVIOUS
  <2>1. CASE full
    <3>1. i - 1 \in 1 .. Len(kept) /\ kept[i - 1] = queue[i]
      BY <1>1, <1>2, <2>1, TailItems
    <3> QED
      BY <3>1
  <2>2. CASE ~full
    BY <2>2
  <2> QED
    BY <2>1, <2>2
<1> HIDE DEF kept
<1>5. /\ pushed \in Seq(Item) /\ Len(pushed) = Len(kept) + 1
      /\ \A i \in 1 .. Len(kept) : pushed[i] = kept[i]
      /\ pushed[Len(kept) + 1] = Log(n)
  BY <1>1, <1>3, AppendItem
<1>6. \A i \in 1 .. Len(kept) : kept[i].id <= written /\ kept[i].id \in Nat
  BY <1>1, <1>3 DEF Item
<1>7. Ordered(pushed)
  <2>1. IsLog(Log(n)) => \A i \in 1 .. Len(kept) : kept[i].id < Log(n).id
    BY <1>1, <1>6 DEF Log
  <2> QED
    BY <1>1, <1>3, <2>1, AppendOrdered
<1>8. \A i \in 1 .. Len(pushed) : pushed[i].id <= n
  BY <1>1, <1>3, <1>5, <1>6 DEF Log
<1>9. ASSUME NEW k \in Nat, k <= written, After(k, queue) PROVE After(k, pushed)
  <2> SUFFICES ASSUME NEW i \in 1 .. Len(pushed), IsLog(pushed[i]) PROVE k < pushed[i].id
    BY DEF After
  <2>1. CASE i \in 1 .. Len(kept)
    BY <1>3, <1>5, <1>9, <2>1 DEF After
  <2>2. CASE i = Len(kept) + 1
    BY <1>1, <1>5, <1>9, <2>2 DEF Log
  <2> QED
    BY <1>3, <1>5, <2>1, <2>2
<1>10. \E i \in 1 .. Len(pushed) : pushed[i].id = n
  BY <1>3, <1>5 DEF Log
<1>11. \A i \in 1 .. Len(queue) : (i = 1 /\ full) \/ \E j \in 1 .. Len(pushed) : pushed[j] = queue[i]
  <2> SUFFICES ASSUME NEW i \in 1 .. Len(queue), ~(i = 1 /\ full)
               PROVE  \E j \in 1 .. Len(pushed) : pushed[j] = queue[i]
    OBVIOUS
  <2>1. PICK j \in 1 .. Len(kept) : kept[j] = queue[i]
    BY <1>4
  <2>2. j \in 1 .. Len(pushed) /\ pushed[j] = queue[i]
    BY <1>3, <1>5, <2>1
  <2> QED
    BY <2>2
<1>12. Len(pushed) <= MaxQueue
  BY <1>3, <1>5, StreamAssumption
<1>13. pushed = Push(Log(n))
  BY DEF Push, kept
<1> HIDE DEF pushed
<1> QED
  BY <1>5, <1>7, <1>8, <1>9, <1>10, <1>11, <1>12, <1>13

-----------------------------------------------------------------------------
LEMMA WriteStep == ASSUME IInv, Write PROVE IInv'
<1> DEFINE n == written + 1
           pushed == Push(Log(n))
<1>1. /\ queue \in Seq(Item) /\ written \in Nat /\ n \in Nat /\ dropped \in Nat
      /\ channel \in Seq(Nat) /\ surfaced \in Nat /\ Len(queue) \in Nat
      /\ written' = n /\ UNCHANGED <<channel, surfaced>>
  BY LenProperties DEF IInv, TypeOK, Write
<1>2. /\ abandoned' \subseteq Nat /\ noticeLost' \in BOOLEAN /\ dropped' \in Nat
      /\ abandoned \subseteq abandoned'
      /\ Len(queue) >= MaxQueue /\ IsLog(queue[1]) => queue[1].id \in abandoned'
  <2>1. CASE Len(queue) >= MaxQueue
    <3>1. queue # <<>>
      BY <1>1, <2>1, StreamAssumption, EmptySeq
    <3>2. Head(queue) = queue[1] /\ queue[1] \in Item
      BY <1>1, <3>1, TailItems
    <3>3. Lose(queue[1]) /\ dropped' = dropped + 1
      BY <2>1, <3>2 DEF Write
    <3> QED
      BY <1>1, <3>2, <3>3, LoseType DEF IInv, TypeOK
  <2>2. CASE ~(Len(queue) >= MaxQueue)
    BY <2>2 DEF Write, IInv, TypeOK
  <2> QED
    BY <2>1, <2>2
<1>3. /\ pushed \in Seq(Item) /\ Len(pushed) <= MaxQueue /\ Ordered(pushed)
      /\ \A i \in 1 .. Len(pushed) : pushed[i].id <= written'
      /\ \E i \in 1 .. Len(pushed) : pushed[i].id = n
      /\ \A i \in 1 .. Len(queue) : (i = 1 /\ Len(queue) >= MaxQueue)
                                    \/ \E j \in 1 .. Len(pushed) : pushed[j] = queue[i]
      /\ \A k \in Nat : k <= written /\ After(k, queue) => After(k, pushed)
  BY <1>1, PushOne
<1> HIDE DEF pushed
<1>4. InOrder'
  BY <1>1 DEF IInv, InOrder
<1>5. \A i \in 1 .. Len(channel') : channel'[i] <= written' /\ After(channel'[i], pushed)
  BY <1>1, <1>3, ElementOfSeq DEF IInv, CurrentInOrder, QueueInOrder
<1>6. ASSUME NEW k \in 1 .. written'
      PROVE  k \in abandoned' \/ k = current.id \/ InChannel(k)'
                \/ \E i \in 1 .. Len(pushed) : pushed[i].id = k
  <2>1. CASE k = n
    BY <1>3, <2>1
  <2>2. CASE k \in 1 .. written
    <3>1. CASE k \in abandoned \/ k = current.id
      BY <1>2, <3>1
    <3>2. CASE InChannel(k)
      BY <1>1, <3>2 DEF InChannel
    <3>3. CASE InQueue(k)
      <4>1. PICK i \in 1 .. Len(queue) : queue[i].id = k
        BY <3>3 DEF InQueue
      <4>2. CASE i = 1 /\ Len(queue) >= MaxQueue
        BY <1>1, <1>2, <2>2, <4>1, <4>2 DEF IsLog
      <4>3. CASE \E j \in 1 .. Len(pushed) : pushed[j] = queue[i]
        BY <4>1, <4>3
      <4> QED
        BY <1>3, <4>2, <4>3
    <3> QED
      BY <2>2, <3>1, <3>2, <3>3 DEF IInv, NothingVanishes
  <2> QED
    BY <1>1, <2>1, <2>2
<1>7. CASE draining
  <2>1. queue' = pushed /\ UNCHANGED <<draining, current, attempt>>
    BY <1>7 DEF Write, pushed
  <2>2. TypeOK' /\ QueueBounded'
    BY <1>1, <1>2, <1>3, <2>1 DEF IInv, TypeOK, QueueBounded
  <2>3. NoLostWakeup'
    BY <1>7, <2>1 DEF IInv, NoLostWakeup
  <2>4. current.id \in Nat /\ current.id <= written /\ After(current.id, queue)
    BY DEF IInv, TypeOK, Item, CurrentInOrder, QueueInOrder
  <2>5. QueueInOrder'
    BY <1>3, <1>5, <2>1, <2>4 DEF QueueInOrder
  <2>6. CurrentInOrder'
    BY <1>1, <1>5, <2>1, <2>4 DEF IInv, CurrentInOrder
  <2>7. NothingVanishes'
    BY <1>6, <2>1 DEF NothingVanishes, InQueue
  <2> QED
    BY <1>4, <2>2, <2>3, <2>5, <2>6, <2>7 DEF IInv
<1>8. CASE ~draining
  <2>1. DrainFrom(pushed)
    BY <1>8 DEF Write, pushed
  <2>2. current.id = 0
    BY <1>8 DEF IInv, NoLostWakeup, TypeOK, CurrentInOrder, Nothing
  <2>3. \A k \in 1 .. written' :
           k \in abandoned' \/ InChannel(k)' \/ \E i \in 1 .. Len(pushed) : pushed[i].id = k
    BY <1>6, <2>2
  <2>4. Len(pushed) <= MaxQueue + 1
    BY <1>3, LenProperties, StreamAssumption
  <2> QED
    BY <1>1, <1>2, <1>3, <1>4, <1>5, <2>1, <2>3, <2>4, DrainKeepsInvariant
<1> QED
  BY <1>7, <1>8

LEMMA PostOkStep == ASSUME IInv, PostOk PROVE IInv'
<1> DEFINE q == IF dropped > 0 THEN Append(queue, Notice(dropped)) ELSE queue
<1>1. /\ queue \in Seq(Item) /\ dropped \in Nat /\ current \in Item /\ Ordered(queue)
      /\ Len(queue) \in Nat /\ Len(queue) <= MaxQueue /\ Notice(dropped) \in Item
      /\ \A i \in 1 .. Len(queue) : queue[i].id <= written /\ queue[i] \in Item
  BY LenProperties, ElementOfSeq DEF IInv, TypeOK, QueueBounded, QueueInOrder, Notice, Item
<1>2. /\ q \in Seq(Item) /\ Len(q) <= MaxQueue + 1
      /\ \A i \in 1 .. Len(q) : (i <= Len(queue) /\ q[i] = queue[i]) \/ q[i].id = 0
      /\ \A i \in 1 .. Len(queue) : i \in 1 .. Len(q) /\ q[i] = queue[i]
  <2>1. CASE dropped > 0
    <3>1. Notice(dropped).id = 0 /\ q = Append(queue, Notice(dropped))
      BY <2>1 DEF Notice
    <3>2. /\ q \in Seq(Item) /\ Len(q) = Len(queue) + 1
          /\ \A i \in 1 .. Len(queue) + 1 : q[i] = IF i <= Len(queue) THEN queue[i] ELSE Notice(dropped)
      BY <1>1, <3>1, AppendItem
    <3> HIDE DEF q
    <3>3. Len(q) <= MaxQueue + 1
      BY <1>1, <3>2, StreamAssumption
    <3>4. \A i \in 1 .. Len(q) : (i <= Len(queue) /\ q[i] = queue[i]) \/ q[i].id = 0
      BY <1>1, <3>1, <3>2
    <3>5. \A i \in 1 .. Len(queue) : i \in 1 .. Len(q) /\ q[i] = queue[i]
      BY <1>1, <3>2
    <3> QED
      BY <3>2, <3>3, <3>4, <3>5
  <2>2. CASE ~(dropped > 0)
    BY <1>1, <2>2, StreamAssumption
  <2> QED
    BY <2>1, <2>2
<1>3. Ordered(q)
  <2>1. CASE dropped > 0
    BY <1>1, <2>1, AppendOrdered DEF Notice, IsLog
  <2>2. CASE ~(dropped > 0)
    BY <1>1, <2>2
  <2> QED
    BY <2>1, <2>2
<1>4. /\ DrainFrom(q) /\ attempt > 0 /\ MayHaveArrived /\ dropped' = 0
      /\ UNCHANGED <<written, abandoned, noticeLost>> /\ surfaced' = surfaced + current.lost
      /\ channel' = Append(channel, current.id)
  BY DEF PostOk, MayHaveArrived, CounterReset
<1> HIDE DEF q
<1>5. /\ written' \in Nat /\ dropped' \in Nat /\ abandoned' \subseteq Nat
      /\ surfaced' \in Nat /\ noticeLost' \in BOOLEAN
  <2>1. surfaced' \in Nat
    BY <1>1, <1>4 DEF IInv, TypeOK, Item
  <2> QED
    BY <1>4, <2>1 DEF IInv, TypeOK
<1>6. /\ channel' \in Seq(Nat) /\ InOrder'
      /\ \A i \in 1 .. Len(channel') : channel'[i] <= written' /\ After(channel'[i], queue)
      /\ \A n \in Nat : InChannel(n) => InChannel(n)'
  BY <1>4, ArrivalInOrder
<1>7. \A i \in 1 .. Len(channel') : After(channel'[i], q)
  BY <1>2, <1>6, SMTT(30) DEF After, IsLog
<1>8. \A i \in 1 .. Len(q) : q[i].id <= written'
  <2> SUFFICES ASSUME NEW i \in 1 .. Len(q) PROVE q[i].id <= written
    BY <1>4
  <2>1. CASE q[i].id = 0
    BY <1>4, <1>5, <2>1
  <2>2. CASE i <= Len(queue) /\ q[i] = queue[i]
    BY <1>1, <1>2, <2>2
  <2> QED
    BY <1>2, <2>1, <2>2
<1>9. \E i \in 1 .. Len(channel') : channel'[i] = current.id
  <2>1. channel \in Seq(Nat) /\ current.id \in Nat /\ Len(channel) \in Nat
    BY <1>1, LenProperties DEF IInv, TypeOK, Item
  <2>2. Len(channel) + 1 \in 1 .. Len(channel') /\ channel'[Len(channel) + 1] = current.id
    BY <1>4, <2>1, AppendProperties
  <2> QED
    BY <2>2
<1>10. ASSUME NEW n \in 1 .. written'
       PROVE  n \in abandoned' \/ InChannel(n)' \/ \E i \in 1 .. Len(q) : q[i].id = n
  <2>1. CASE InQueue(n)
    <3>1. PICK i \in 1 .. Len(queue) : queue[i].id = n
      BY <2>1 DEF InQueue
    <3> QED
      BY <1>2, <3>1
  <2>2. CASE n = current.id
    BY <1>9, <2>2 DEF InChannel
  <2>3. CASE n \in abandoned \/ InChannel(n)
    BY <1>4, <1>5, <1>6, <2>3
  <2> QED
    BY <1>4, <2>1, <2>2, <2>3 DEF IInv, NothingVanishes
<1> QED
  BY <1>2, <1>3, <1>4, <1>5, <1>6, <1>7, <1>8, <1>10, DrainKeepsInvariant

LEMMA PostFailsStep == ASSUME IInv, PostFails PROVE IInv'
<1>1. /\ attempt = 1 /\ attempt' = 2 /\ MayHaveArrived
      /\ UNCHANGED <<written, queue, dropped, draining, current, abandoned, surfaced, noticeLost>>
  BY DEF PostFails, Retry
<1>2. /\ channel' \in Seq(Nat) /\ InOrder'
      /\ \A i \in 1 .. Len(channel') : channel'[i] <= written' /\ After(channel'[i], queue)
      /\ \A n \in Nat : InChannel(n) => InChannel(n)'
  BY <1>1, ArrivalInOrder
<1>3. TypeOK' /\ QueueBounded' /\ NoLostWakeup'
  BY <1>1, <1>2 DEF IInv, TypeOK, QueueBounded, NoLostWakeup
<1>4. QueueInOrder'
  BY <1>1, <1>2 DEF IInv, QueueInOrder
<1>5. CurrentInOrder'
  <2>1. channel \in Seq(Nat) /\ current.id \in Nat /\ Len(channel) \in Nat
    BY LenProperties DEF IInv, TypeOK, Item
  <2>2. IsLog(current) => \A i \in 1 .. Len(channel) : channel[i] < current.id
    BY <1>1 DEF IInv, CurrentInOrder
  <2>3. CASE UNCHANGED channel
    BY <1>1, <2>3 DEF IInv, CurrentInOrder
  <2>4. CASE channel' = Append(channel, current.id)
    <3>1. /\ Len(channel') = Len(channel) + 1 /\ channel'[Len(channel) + 1] = current.id
          /\ \A i \in 1 .. Len(channel) : channel'[i] = channel[i] /\ channel[i] \in Nat
      BY <2>1, <2>4, AppendProperties, ElementOfSeq
    <3>2. IsLog(current) => \A i \in 1 .. Len(channel') : channel'[i] <= current.id
      BY <2>1, <2>2, <3>1
    <3>3. ASSUME IsLog(current), NEW i \in 1 .. Len(channel'), NEW j \in 1 .. Len(channel'), i < j
          PROVE  channel'[i] # current.id
      BY <2>1, <2>2, <3>1, <3>3
    <3> QED
      BY <1>1, <1>2, <3>2, <3>3 DEF IInv, CurrentInOrder
  <2> QED
    BY <1>1, <2>3, <2>4 DEF MayHaveArrived
<1>6. NothingVanishes'
  BY <1>1, <1>2 DEF IInv, NothingVanishes, InQueue
<1> QED
  BY <1>2, <1>3, <1>4, <1>5, <1>6 DEF IInv

LEMMA RetryFailsStep == ASSUME IInv, RetryFails PROVE IInv'
<1>1. /\ DrainFrom(queue) /\ attempt = 2 /\ MayHaveArrived /\ Lose(current)
      /\ dropped' = dropped + 1 /\ UNCHANGED <<written, surfaced>>
  BY DEF RetryFails
<1>2. /\ queue \in Seq(Item) /\ current \in Item /\ dropped \in Nat /\ Ordered(queue)
      /\ Len(queue) <= MaxQueue + 1 /\ \A i \in 1 .. Len(queue) : queue[i].id <= written'
  BY <1>1, LenProperties, StreamAssumption DEF IInv, TypeOK, QueueBounded, QueueInOrder
<1>3. /\ abandoned' \subseteq Nat /\ noticeLost' \in BOOLEAN
      /\ abandoned \subseteq abandoned' /\ (IsLog(current) => current.id \in abandoned')
  BY <1>1, <1>2, LoseType DEF IInv, TypeOK
<1>4. /\ channel' \in Seq(Nat) /\ InOrder'
      /\ \A i \in 1 .. Len(channel') : channel'[i] <= written' /\ After(channel'[i], queue)
      /\ \A n \in Nat : InChannel(n) => InChannel(n)'
  BY <1>1, ArrivalInOrder
<1>5. written' \in Nat /\ dropped' \in Nat /\ surfaced' \in Nat
  BY <1>1 DEF IInv, TypeOK
<1>6. \A n \in 1 .. written' :
         n \in abandoned' \/ InChannel(n)' \/ \E i \in 1 .. Len(queue) : queue[i].id = n
  BY <1>1, <1>3, <1>4 DEF IInv, NothingVanishes, InQueue, IsLog
<1> QED
  BY <1>1, <1>2, <1>3, <1>4, <1>5, <1>6, DrainKeepsInvariant

-----------------------------------------------------------------------------
LEMMA InvInit == Init => IInv
<1> SUFFICES ASSUME Init PROVE IInv
  OBVIOUS
<1>1. queue = <<>> /\ channel = <<>> /\ Len(queue) = 0 /\ Len(channel) = 0 /\ written = 0
  BY DEF Init
<1>2. TypeOK
  <2>1. draining \in BOOLEAN /\ noticeLost \in BOOLEAN
    BY DEF Init
  <2>2. current \in Item
    BY DEF Init, Nothing, Item
  <2>3. queue \in Seq(Item) /\ channel \in Seq(Nat)
    BY <1>1
  <2> QED
    BY <2>1, <2>2, <2>3 DEF Init, TypeOK
<1>3. \A n \in 1 .. written : FALSE
  BY <1>1
<1>4. QueueBounded /\ InOrder /\ QueueInOrder
  BY <1>1, StreamAssumption DEF QueueBounded, InOrder, QueueInOrder, Ordered, After
<1>5. NoLostWakeup /\ CurrentInOrder
  BY <1>1 DEF Init, NoLostWakeup, CurrentInOrder, Nothing, IsLog
<1> QED
  BY <1>2, <1>3, <1>4, <1>5 DEF IInv, NothingVanishes

LEMMA InvStep == IInv /\ [Next]_vars => IInv'
<1> SUFFICES ASSUME IInv, [Next]_vars PROVE IInv'
  OBVIOUS
<1>1. CASE UNCHANGED vars
  BY <1>1 DEF vars, streamState, IInv, TypeOK, QueueBounded, NoLostWakeup, InOrder,
     QueueInOrder, CurrentInOrder, NothingVanishes, InQueue, InChannel
<1>2. CASE Next
  BY <1>2, WriteStep, PostOkStep, PostFailsStep, RetryFailsStep DEF Next, PostEnds
<1> QED
  BY <1>1, <1>2

(* The inductive invariant holds in every reachable state. *)
THEOREM Invariance == Spec => []IInv
BY InvInit, InvStep, PTL DEF Spec

(* The queue is within its limit whenever something else runs. *)
THEOREM Bounded == Spec => []QueueBounded
BY Invariance, PTL DEF IInv

(* Nothing waits in the queue without a running drain loop. *)
THEOREM Woken == Spec => []NoLostWakeup
BY Invariance, PTL DEF IInv

(* Records arrive in order, each at most twice. *)
THEOREM Ordering == Spec => []InOrder
BY Invariance, PTL DEF IInv

(* Every record accepted is waiting, in flight, in the channel or given up. *)
THEOREM Conserved == Spec => []NothingVanishes
BY Invariance, PTL DEF IInv

-----------------------------------------------------------------------------
(* The counts of what was lost: LossesOK is inductive together with IInv. *)

(* An empty queue reports nothing. *)
LEMMA NothingReported == Reports(<<>>, 0)
<1> DEFINE n == Len(<<>>)
           s == [i \in 1 .. 1 |-> 0]
<1>1. n = 0
    OBVIOUS
<1>2. s \in [1 .. 1 -> 0 .. 0] /\ s[1] = 0
    OBVIOUS
<1> HIDE DEF s
<1>3. s \in [1 .. n + 1 -> 0 .. 0] /\ s[n + 1] = 0
    BY <1>1, <1>2
<1>4. \A i \in 1 .. n : FALSE
    BY <1>1
<1>5. \A i, j \in 1 .. n + 1 : s[i] = 0 /\ s[j] = 0
    BY <1>1, <1>2
<1> HIDE DEF n
<1>6. \A i, j \in 1 .. n + 1 : i <= j => s[j] <= s[i]
    BY <1>5
<1>7. \E f \in [1 .. n + 1 -> 0 .. 0] :
          /\ f[1] = 0 /\ f[n + 1] = 0
          /\ \A i \in 1 .. n : f[i] = <<>>[i].lost + f[i + 1]
          /\ \A i, j \in 1 .. n + 1 : i <= j => f[j] <= f[i]
    BY <1>2, <1>3, <1>4, <1>6
<1> QED BY <1>7 DEF Reports, n

(* Without its head a queue reports what it did but for the head's share. *)
LEMMA TailReports ==
    ASSUME NEW q \in Seq(Item), q # <<>>, NEW w \in Nat, Reports(q, w)
    PROVE  \E v \in Nat : Reports(Tail(q), v) /\ w = q[1].lost + v
<1> DEFINE n == Len(q)
           t == Tail(q)
<1>1. /\ t \in Seq(Item) /\ n \in Nat \ {0} /\ Len(t) = n - 1
      /\ \A i \in 1 .. n - 1 : t[i] = q[i + 1]
    BY TailItems
<1>2. PICK s \in [1 .. n + 1 -> 0 .. w] :
          /\ s[1] = w /\ s[n + 1] = 0
          /\ \A i \in 1 .. n : s[i] = q[i].lost + s[i + 1]
          /\ \A i, j \in 1 .. n + 1 : i <= j => s[j] <= s[i]
    BY DEF Reports
<1> HIDE DEF n, t
<1> DEFINE v == s[2]
           r == [i \in 1 .. n |-> s[i + 1]]
<1>3. 2 \in 1 .. n + 1 /\ 1 \in 1 .. n /\ v \in Nat /\ w = q[1].lost + v
    BY <1>1, <1>2
<1>4. \A i \in 1 .. n : i + 1 \in 1 .. n + 1 /\ 2 <= i + 1 /\ s[i + 1] \in Nat /\ s[i + 1] <= v
    BY <1>1, <1>2, <1>3
<1> HIDE DEF v
<1>5. r \in [1 .. Len(t) + 1 -> 0 .. v]
    BY <1>1, <1>3, <1>4
<1>6. r[1] = v /\ r[Len(t) + 1] = 0
    BY <1>1, <1>2, <1>3 DEF v
<1>7. \A i \in 1 .. Len(t) : r[i] = t[i].lost + r[i + 1]
    <2> TAKE i \in 1 .. Len(t)
    <2>1. i \in 1 .. n /\ i + 1 \in 1 .. n /\ t[i] = q[i + 1]
        BY <1>1
    <2>2. s[i + 1] = q[i + 1].lost + s[i + 1 + 1]
        BY <1>2, <2>1
    <2> QED BY <2>1, <2>2
<1>8. \A i, j \in 1 .. Len(t) + 1 : i <= j => r[j] <= r[i]
    <2> TAKE i \in 1 .. Len(t) + 1, j \in 1 .. Len(t) + 1
    <2>1. i \in 1 .. n /\ j \in 1 .. n
        BY <1>1
    <2>2. i + 1 \in 1 .. n + 1 /\ j + 1 \in 1 .. n + 1
        BY <1>1, <2>1
    <2>3. i <= j => i + 1 <= j + 1
        BY <2>1, <1>1
    <2> QED BY <1>2, <2>1, <2>2, <2>3
<1> HIDE DEF r
<1>9. Reports(t, v)
    BY <1>5, <1>6, <1>7, <1>8 DEF Reports
<1> QED BY <1>3, <1>9 DEF t

(* One more item adds its share. *)
LEMMA AppendReports ==
    ASSUME NEW q \in Seq(Item), NEW item \in Item, NEW w \in Nat, Reports(q, w)
    PROVE  Reports(Append(q, item), w + item.lost)
<1> DEFINE n == Len(q)
           a == Append(q, item)
           l == item.lost
<1>1. /\ n \in Nat /\ Len(a) = n + 1 /\ l \in Nat
      /\ \A i \in 1 .. n + 1 : a[i] = IF i <= n THEN q[i] ELSE item
    BY AppendItem, LenProperties DEF Item
<1>2. PICK s \in [1 .. n + 1 -> 0 .. w] :
          /\ s[1] = w /\ s[n + 1] = 0
          /\ \A i \in 1 .. n : s[i] = q[i].lost + s[i + 1]
          /\ \A i, j \in 1 .. n + 1 : i <= j => s[j] <= s[i]
    BY DEF Reports
<1>3. item.lost = l
    OBVIOUS
<1>4. \A i \in 1 .. n : q[i].lost \in Nat
    <2> TAKE i \in 1 .. n
    <2>1. q[i] \in Item
        BY ElementOfSeq
    <2> QED BY <2>1 DEF Item
<1> HIDE DEF n, a, l
<1> DEFINE r == [i \in 1 .. n + 2 |-> IF i <= n + 1 THEN s[i] + l ELSE 0]
<1>5. r \in [1 .. Len(a) + 1 -> 0 .. w + l]
    BY <1>1, <1>2
<1>6. r[1] = w + l /\ r[Len(a) + 1] = 0
    BY <1>1, <1>2
<1>7. \A i \in 1 .. Len(a) : r[i] = a[i].lost + r[i + 1]
    <2> TAKE i \in 1 .. Len(a)
    <2>1. CASE i <= n
        <3>1. i \in 1 .. n /\ i + 1 \in 1 .. n + 1 /\ a[i] = q[i]
            BY <1>1, <2>1
        <3>2. s[i] = q[i].lost + s[i + 1] /\ s[i + 1] \in Nat /\ q[i].lost \in Nat
            BY <1>1, <1>2, <1>4, <3>1
        <3>3. r[i] = s[i] + l /\ r[i + 1] = s[i + 1] + l
            BY <1>1, <3>1
        <3> HIDE DEF r
        <3> QED BY <1>1, <3>1, <3>2, <3>3
    <2>2. CASE i = n + 1
        <3>1. a[i] = item /\ r[i] = s[n + 1] + l /\ r[i + 1] = 0
            BY <1>1, <2>2
        <3>2. a[i].lost = l
            BY <1>3, <3>1
        <3> HIDE DEF r
        <3> QED BY <1>1, <1>2, <3>1, <3>2
    <2> QED BY <1>1, <2>1, <2>2
<1>8. \A i, j \in 1 .. Len(a) + 1 : i <= j => r[j] <= r[i]
    BY <1>1, <1>2
<1> HIDE DEF r
<1>9. Reports(a, w + l)
    BY <1>5, <1>6, <1>7, <1>8 DEF Reports
<1> QED BY <1>9 DEF a, l

(* The drain loop takes the head's share out of the queue. *)
LEMMA DrainReports ==
    ASSUME NEW q \in Seq(Item), NEW w \in Nat, Reports(q, w), DrainFrom(q)
    PROVE  \E v \in Nat : Reports(queue', v) /\ w = v + current'.lost
<1>1. CASE q = <<>>
    <2>1. queue' = <<>> /\ current' = Nothing
        BY <1>1 DEF DrainFrom
    <2>2. w = 0
        BY <1>1 DEF Reports
    <2> QED BY <2>1, <2>2, NothingReported DEF Nothing
<1>2. CASE q # <<>>
    <2>1. queue' = Tail(q) /\ current' = q[1] /\ q[1].lost \in Nat
        BY <1>2, TailItems DEF DrainFrom, Item
    <2>2. PICK v \in Nat : Reports(Tail(q), v) /\ w = q[1].lost + v
        BY <1>2, TailReports
    <2> QED BY <2>1, <2>2
<1> QED BY <1>1, <1>2

(* Of a queue whose logs report nothing, what a loop has taken and left is so. *)
LEMMA DrainLosses ==
    ASSUME NEW q \in Seq(Item), Ordered(q), DrainFrom(q),
           \A i \in 1 .. Len(q) : IsLog(q[i]) => q[i].lost = 0,
           NEW A \in SUBSET (Nat \ {0}), \A n \in A : After(n, q)
    PROVE  /\ \A n \in A : n # current'.id /\ After(n, queue')
           /\ \A i \in 1 .. Len(queue') : IsLog(queue'[i]) => queue'[i].lost = 0
           /\ IsLog(current') => current'.lost = 0
<1>1. /\ \A i \in 1 .. Len(queue') : \E j \in 1 .. Len(q) : queue'[i] = q[j]
      /\ current' = Nothing \/ \E j \in 1 .. Len(q) : current' = q[j]
    BY DrainTakesHead
<1>2. \A j \in 1 .. Len(q) : q[j] \in Item
    BY ElementOfSeq
<1>3. ASSUME NEW n \in A PROVE n # current'.id /\ After(n, queue')
    <2>1. n \in Nat \ {0} /\ After(n, q)
        OBVIOUS
    <2>2. After(n, queue')
        BY <1>1, <2>1 DEF After
    <2>3. CASE current' = Nothing
        BY <2>1, <2>2, <2>3 DEF Nothing
    <2>4. ASSUME NEW j \in 1 .. Len(q), current' = q[j] PROVE n # current'.id
        <3>1. q[j].id \in Nat /\ (IsLog(q[j]) => n < q[j].id)
            BY <1>2, <2>1 DEF After, Item
        <3> QED BY <2>1, <2>4, <3>1 DEF IsLog
    <2> QED BY <1>1, <2>2, <2>3, <2>4
<1>4. \A i \in 1 .. Len(queue') : IsLog(queue'[i]) => queue'[i].lost = 0
    BY <1>1
<1>5. IsLog(current') => current'.lost = 0
    BY <1>1 DEF Nothing
<1> QED BY <1>3, <1>4, <1>5

(* A loop that goes on with q keeps the counts, if they are right of q. *)
LEMMA DrainKeepsLosses ==
    ASSUME NEW q \in Seq(Item), Ordered(q), DrainFrom(q),
           \A i \in 1 .. Len(q) : IsLog(q[i]) => q[i].lost = 0,
           abandoned' \subseteq 1 .. written', written' \in Nat,
           \A n \in abandoned' : After(n, q),
           dropped' \in Nat, surfaced' \in Nat,
           noticeLost' \/ \E w \in Nat :
               Reports(q, w) /\ Cardinality(abandoned') = dropped' + w + surfaced'
    PROVE  LossesOK'
<1>1. abandoned' \in SUBSET (Nat \ {0})
    OBVIOUS
<1>2. /\ \A n \in abandoned' : n # current'.id /\ After(n, queue')
      /\ \A i \in 1 .. Len(queue') : IsLog(queue'[i]) => queue'[i].lost = 0
      /\ IsLog(current') => current'.lost = 0
    BY <1>1, DrainLosses
<1>3. LossesAccounted'
    <2>1. CASE noticeLost'
        BY <2>1 DEF LossesAccounted
    <2>2. ASSUME NEW w \in Nat, Reports(q, w),
                 Cardinality(abandoned') = dropped' + w + surfaced'
          PROVE  LossesSurfaced'
        <3>1. PICK v \in Nat : Reports(queue', v) /\ w = v + current'.lost
            BY <2>2, DrainReports
        <3>2. current'.lost \in Nat
            BY DrainTakesHead DEF Item
        <3>3. Cardinality(abandoned') = dropped' + v + current'.lost + surfaced'
            <4> DEFINE l == current'.lost
            <4>1. l \in Nat /\ w = v + l
                BY <3>1, <3>2
            <4> HIDE DEF l
            <4>2. Cardinality(abandoned') = dropped' + v + l + surfaced'
                BY <2>2, <4>1
            <4> QED BY <4>2 DEF l
        <3>4. v \in 0 .. Cardinality(abandoned')
            BY <3>2, <3>3
        <3> QED BY <3>1, <3>3, <3>4 DEF LossesSurfaced, Reports
    <2> QED BY <2>1, <2>2 DEF LossesAccounted
<1> QED BY <1>2, <1>3 DEF LossesOK

(* Giving up an item counts it once: a log that was not given up before, or   *)
(* a notice, of which nothing more is claimed.                                *)
LEMMA LosingOne ==
    ASSUME NEW item \in Item, Lose(item), written \in Nat, abandoned \subseteq 1 .. written,
           item.id \notin abandoned, item.id <= written
    PROVE  /\ abandoned' \subseteq 1 .. written /\ Cardinality(abandoned) \in Nat
           /\ \A n \in abandoned' : n \in abandoned \/ n = item.id
           /\ noticeLost => noticeLost'
           /\ noticeLost' \/ (IsLog(item) /\ Cardinality(abandoned') = Cardinality(abandoned) + 1)
<1>1. IsFiniteSet(abandoned)
    <2>1. IsFiniteSet(1 .. written)
        BY FS_Interval
    <2> QED BY <2>1, FS_Subset
<1>2. Cardinality(abandoned) \in Nat
    BY <1>1, FS_CardinalityType
<1>3. CASE IsLog(item)
    <2>1. abandoned' = abandoned \cup {item.id} /\ noticeLost' = noticeLost
        BY <1>3 DEF Lose
    <2>2. Cardinality(abandoned') = Cardinality(abandoned) + 1
        BY <1>1, <2>1, FS_AddElement
    <2>3. item.id \in 1 .. written
        BY <1>3 DEF IsLog, Item
    <2>4. abandoned' \subseteq 1 .. written /\ \A n \in abandoned' : n \in abandoned \/ n = item.id
        BY <2>1, <2>3
    <2> QED BY <1>2, <1>3, <2>1, <2>2, <2>4
<1>4. CASE ~IsLog(item)
    BY <1>2, <1>4 DEF Lose
<1> QED BY <1>3, <1>4

(* The facts of LossesOK the steps start from. *)
LEMMA Accounted ==
    ASSUME LossesOK, TypeOK, ~noticeLost
    PROVE  \E w \in Nat : /\ Reports(queue, w)
                          /\ Cardinality(abandoned) = dropped + w + current.lost + surfaced
<1>1. Cardinality(abandoned) \in Nat
    <2>1. IsFiniteSet(1 .. written)
        BY FS_Interval DEF TypeOK
    <2> QED BY <2>1, FS_Subset, FS_CardinalityType DEF LossesOK
<1> QED BY <1>1 DEF LossesOK, LossesAccounted, LossesSurfaced

(* A post given up after its second try. *)
LEMMA RetryKeepsLosses == ASSUME IInv, LossesOK, RetryFails PROVE LossesOK'
<1>1. /\ queue \in Seq(Item) /\ Ordered(queue) /\ current \in Item /\ current.id <= written
      /\ written \in Nat /\ written' = written /\ surfaced \in Nat /\ surfaced' = surfaced
      /\ dropped \in Nat /\ dropped' = dropped + 1 /\ DrainFrom(queue) /\ Lose(current)
      /\ After(current.id, queue)
    BY DEF IInv, TypeOK, QueueInOrder, CurrentInOrder, RetryFails
<1>2. /\ abandoned' \subseteq 1 .. written /\ Cardinality(abandoned) \in Nat
      /\ \A n \in abandoned' : n \in abandoned \/ n = current.id
      /\ noticeLost => noticeLost'
      /\ noticeLost' \/ (IsLog(current) /\ Cardinality(abandoned') = Cardinality(abandoned) + 1)
    BY <1>1, LosingOne DEF LossesOK
<1>3. \A n \in abandoned' : After(n, queue)
    BY <1>1, <1>2 DEF LossesOK
<1>4. ASSUME ~noticeLost'
      PROVE  \E w \in Nat : Reports(queue, w) /\ Cardinality(abandoned') = dropped' + w + surfaced'
    <2>1. PICK w \in Nat : /\ Reports(queue, w)
                           /\ Cardinality(abandoned) = dropped + w + current.lost + surfaced
        BY <1>2, <1>4, Accounted DEF IInv
    <2>2. current.lost = 0
        BY <1>2, <1>4 DEF LossesOK
    <2> QED BY <1>1, <1>2, <1>4, <2>1, <2>2
<1> QED BY <1>1, <1>2, <1>3, <1>4, DrainKeepsLosses DEF LossesOK

(* The notice takes over what the counter held. *)
LEMMA PostOkKeepsLosses == ASSUME IInv, LossesOK, PostOk PROVE LossesOK'
<1> DEFINE q == IF dropped > 0 THEN Append(queue, Notice(dropped)) ELSE queue
<1>1. /\ queue \in Seq(Item) /\ Ordered(queue) /\ current \in Item /\ Notice(dropped) \in Item
      /\ written \in Nat /\ written' = written
      /\ surfaced \in Nat /\ surfaced' = surfaced + current.lost /\ current.lost \in Nat
      /\ dropped \in Nat /\ dropped' = 0 /\ DrainFrom(q)
      /\ abandoned' = abandoned /\ noticeLost' = noticeLost
    BY DEF IInv, TypeOK, QueueInOrder, PostOk, CounterReset, Notice, Item
<1>2. Notice(dropped).id = 0 /\ ~IsLog(Notice(dropped)) /\ Notice(dropped).lost = dropped
    BY DEF Notice, IsLog
<1>3. q \in Seq(Item) /\ Ordered(q)
    BY <1>1, <1>2, AppendItem, AppendOrdered
<1>4. \A i \in 1 .. Len(q) : (i \in 1 .. Len(queue) /\ q[i] = queue[i]) \/ ~IsLog(q[i])
    <2>1. CASE dropped > 0
        <3>1. Len(queue) \in Nat
            BY <1>1, LenProperties
        <3> QED BY <1>1, <1>2, <2>1, <3>1, AppendItem
    <2> QED BY <2>1
<1>5. \A n \in abandoned : After(n, q)
    BY <1>4 DEF LossesOK, After
<1>6. \A i \in 1 .. Len(q) : IsLog(q[i]) => q[i].lost = 0
    BY <1>4 DEF LossesOK
<1>7. ASSUME ~noticeLost
      PROVE  \E w \in Nat : Reports(q, w) /\ Cardinality(abandoned') = dropped' + w + surfaced'
    <2>1. PICK w \in Nat : /\ Reports(queue, w)
                           /\ Cardinality(abandoned) = dropped + w + current.lost + surfaced
        BY <1>7, Accounted DEF IInv
    <2>2. Reports(q, w + dropped)
        <3>1. CASE dropped > 0
            BY <1>1, <1>2, <2>1, <3>1, AppendReports
        <3>2. CASE ~(dropped > 0)
            <4>1. dropped = 0 /\ w + dropped = w /\ q = queue
                BY <1>1, <3>2
            <4> QED BY <2>1, <4>1
        <3> QED BY <3>1, <3>2
    <2> HIDE DEF q
    <2> QED BY <1>1, <2>1, <2>2
<1> HIDE DEF q
<1> QED BY <1>1, <1>3, <1>5, <1>6, <1>7, DrainKeepsLosses DEF LossesOK

(* A write may evict the oldest item: the counter goes up by the one record   *)
(* given up, which is older than all that wait.                               *)
LEMMA WriteKeepsLosses == ASSUME IInv, LossesOK, Write PROVE LossesOK'
<1> DEFINE n == written + 1
           full == Len(queue) >= MaxQueue
           kept == IF full THEN Tail(queue) ELSE queue
           pushed == Push(Log(n))
<1>1. /\ queue \in Seq(Item) /\ Ordered(queue) /\ Len(queue) \in Nat
      /\ written \in Nat /\ n \in Nat /\ written' = n /\ dropped \in Nat
      /\ surfaced \in Nat /\ surfaced' = surfaced
      /\ current \in Item /\ current.lost \in Nat /\ After(current.id, queue)
      /\ \A i \in 1 .. Len(queue) : queue[i].id <= written /\ queue[i] \in Item
    <2>1. /\ queue \in Seq(Item) /\ Ordered(queue) /\ After(current.id, queue)
          /\ written \in Nat /\ dropped \in Nat /\ surfaced \in Nat /\ current \in Item
          /\ \A i \in 1 .. Len(queue) : queue[i].id <= written
        BY DEF IInv, TypeOK, QueueInOrder
    <2>2. /\ Len(queue) \in Nat /\ current.lost \in Nat
          /\ \A i \in 1 .. Len(queue) : queue[i] \in Item
        BY <2>1, LenProperties, ElementOfSeq DEF Item
    <2> QED BY <2>1, <2>2 DEF Write
<1>2. Log(n) \in Item /\ Log(n).id = n /\ Log(n).lost = 0
    BY <1>1 DEF Log, Item
<1>3. full => queue # <<>> /\ Head(queue) = queue[1] /\ 1 \in 1 .. Len(queue)
    <2>1. queue = <<>> => Len(queue) = 0
        OBVIOUS
    <2> QED BY <1>1, <2>1, TailItems, StreamAssumption
<1>4. /\ kept \in Seq(Item) /\ Len(kept) \in Nat /\ Ordered(kept)
      /\ \A i \in 1 .. Len(kept) : \E j \in 1 .. Len(queue) : kept[i] = queue[j]
    <2>1. CASE full
        BY <1>1, <1>3, <2>1, TailItems, TailOrdered
    <2>2. CASE ~full
        BY <1>1, <2>2
    <2> QED BY <2>1, <2>2
<1>5. pushed = Append(kept, Log(n))
    BY DEF Push
<1>6. pushed \in Seq(Item) /\ Ordered(pushed)
    BY <1>1, PushOne
<1>7. \A i \in 1 .. Len(pushed) : (i \in 1 .. Len(kept) /\ pushed[i] = kept[i]) \/ pushed[i] = Log(n)
    <2> HIDE DEF kept, n
    <2> QED BY <1>2, <1>4, <1>5, AppendItem
<1>8. full => queue[1].id \notin abandoned /\ queue[1].id <= written /\ queue[1] \in Item
    <2>1. ASSUME full, queue[1].id \in abandoned PROVE FALSE
        <3>1. queue[1].id \in 1 .. written
            BY <2>1 DEF LossesOK
        <3>2. IsLog(queue[1])
            BY <1>1, <3>1 DEF IsLog
        <3>3. queue[1].id < queue[1].id
            BY <1>3, <2>1, <3>2 DEF LossesOK, After
        <3> QED BY <3>1, <3>3
    <2> QED BY <1>1, <1>3, <2>1
<1>9. /\ abandoned' \subseteq 1 .. written /\ dropped' \in Nat
      /\ \A k \in abandoned' : k # current.id /\ After(k, kept)
    <2>1. CASE full
        <3>1. Lose(queue[1]) /\ dropped' = dropped + 1 /\ kept = Tail(queue)
            BY <1>3, <2>1 DEF Write
        <3>2. queue[1].id \notin abandoned /\ queue[1].id <= written /\ queue[1] \in Item
            BY <1>8, <2>1
        <3>3. /\ abandoned' \subseteq 1 .. written
              /\ \A k \in abandoned' : k \in abandoned \/ k = queue[1].id
            BY <1>1, <3>1, <3>2, LosingOne DEF LossesOK
        <3>4. ASSUME NEW k \in abandoned PROVE k # current.id /\ After(k, kept)
            BY <1>4 DEF LossesOK, After
        <3>5. ASSUME queue[1].id \in abandoned', IsLog(queue[1])
              PROVE  queue[1].id # current.id /\ After(queue[1].id, kept)
            <4>1. current.id < queue[1].id
                BY <1>1, <1>3, <2>1, <3>5 DEF After
            <4>2. After(queue[1].id, kept)
                <5> SUFFICES ASSUME NEW i \in 1 .. Len(kept), IsLog(kept[i])
                             PROVE  queue[1].id < kept[i].id
                    BY DEF After
                <5>1. i + 1 \in 1 .. Len(queue) /\ kept[i] = queue[i + 1] /\ 1 < i + 1
                    BY <1>1, <1>3, <2>1, <3>1, TailItems
                <5> QED BY <1>1, <1>3, <2>1, <3>5, <5>1 DEF Ordered
            <4> QED BY <1>1, <3>2, <4>1, <4>2 DEF Item
        <3>6. \A k \in abandoned' : k > 0
            BY <3>3
        <3> QED BY <1>1, <3>1, <3>3, <3>4, <3>5, <3>6 DEF IsLog
    <2>2. CASE ~full
        BY <1>1, <2>2 DEF Write, LossesOK
    <2> QED BY <2>1, <2>2
<1>10. \A k \in abandoned' : After(k, pushed)
    <2> TAKE k \in abandoned'
    <2>1. k \in Nat /\ k < n
        BY <1>1, <1>9
    <2>2. After(k, kept)
        BY <1>9
    <2> HIDE DEF kept, pushed, n
    <2> QED BY <1>2, <1>7, <2>1, <2>2 DEF After
<1>11. \A i \in 1 .. Len(pushed) : IsLog(pushed[i]) => pushed[i].lost = 0
    BY <1>2, <1>4, <1>7 DEF LossesOK
<1>12. noticeLost => noticeLost'
    BY DEF Write, Lose
<1>13. ASSUME ~noticeLost'
       PROVE  \E w \in Nat : /\ Reports(pushed, w)
                             /\ Cardinality(abandoned') = dropped' + w + current.lost + surfaced'
    <2>1. PICK w \in Nat : /\ Reports(queue, w)
                           /\ Cardinality(abandoned) = dropped + w + current.lost + surfaced
        BY <1>12, <1>13, Accounted DEF IInv
    <2>2. CASE full
        <3>1. Lose(queue[1]) /\ dropped' = dropped + 1 /\ kept = Tail(queue) /\ queue[1] \in Item
            BY <1>1, <1>3, <2>2 DEF Write
        <3>2. queue[1].id \notin abandoned /\ queue[1].id <= written
            BY <1>8, <2>2
        <3>3. IsLog(queue[1]) /\ Cardinality(abandoned') = Cardinality(abandoned) + 1
              /\ Cardinality(abandoned) \in Nat
            BY <1>1, <1>13, <3>1, <3>2, LosingOne DEF LossesOK
        <3>4. queue[1].lost = 0
            BY <1>3, <2>2, <3>3 DEF LossesOK
        <3>5. PICK v \in Nat : Reports(kept, v) /\ w = queue[1].lost + v
            BY <1>1, <1>3, <2>1, <2>2, <3>1, TailReports
        <3>6. Reports(pushed, v + Log(n).lost) /\ v + Log(n).lost = v /\ v = w
            <4> HIDE DEF kept, n, pushed
            <4> QED BY <1>2, <1>4, <1>5, <3>4, <3>5, AppendReports
        <3>7. Cardinality(abandoned') = dropped' + w + current.lost + surfaced'
            BY <1>1, <2>1, <3>1, <3>3
        <3> QED BY <3>6, <3>7
    <2>3. CASE ~full
        <3>1. kept = queue /\ UNCHANGED <<dropped, abandoned>>
            BY <2>3 DEF Write
        <3>2. Reports(pushed, w + Log(n).lost) /\ w + Log(n).lost = w
            <4>1. Reports(kept, w)
                BY <2>1, <3>1
            <4> HIDE DEF kept, n, pushed
            <4> QED BY <1>2, <1>4, <1>5, <4>1, AppendReports
        <3> QED BY <1>1, <2>1, <3>1, <3>2
    <2> QED BY <2>2, <2>3
<1> HIDE DEF pushed, kept
<1>14. CASE draining
    <2>1. queue' = pushed /\ UNCHANGED current
        BY <1>14 DEF Write, pushed
    <2>2. abandoned' \subseteq 1 .. written'
        BY <1>1, <1>9
    <2>3. LossesAccounted'
        <3>1. ASSUME ~noticeLost' PROVE LossesSurfaced'
            <4>1. PICK w \in Nat : /\ Reports(pushed, w)
                                   /\ Cardinality(abandoned') = dropped' + w + current.lost + surfaced'
                BY <1>13, <3>1
            <4>2. w \in 0 .. Cardinality(abandoned')
                BY <1>1, <1>9, <4>1
            <4> QED BY <2>1, <4>1, <4>2 DEF LossesSurfaced, Reports
        <3> QED BY <3>1 DEF LossesAccounted
    <2> QED BY <1>9, <1>10, <1>11, <2>1, <2>2, <2>3 DEF LossesOK
<1>15. CASE ~draining
    <2>1. DrainFrom(pushed)
        BY <1>15 DEF Write, pushed
    <2>2. current = Nothing
        BY <1>15 DEF IInv, NoLostWakeup, TypeOK, CurrentInOrder
    <2>3. current.lost = 0
        BY <2>2 DEF Nothing
    <2>4. ASSUME ~noticeLost'
          PROVE  \E w \in Nat : Reports(pushed, w) /\ Cardinality(abandoned') = dropped' + w + surfaced'
        BY <1>1, <1>9, <1>13, <2>3, <2>4
    <2>5. abandoned' \subseteq 1 .. written' /\ written' \in Nat /\ surfaced' \in Nat
        BY <1>1, <1>9
    <2> QED BY <1>6, <1>9, <1>10, <1>11, <2>1, <2>4, <2>5, DrainKeepsLosses
<1> QED BY <1>14, <1>15

(* As long as no notice is itself lost, the records given up are as many as   *)
(* the counter, the notices under way and those acknowledged say: what the    *)
(* code surfaces "once delivery recovers" (line 210), for every queue limit.  *)
THEOREM Accounting == Spec => []LossesAccounted
<1>1. Init => LossesOK
    <2> SUFFICES ASSUME Init PROVE LossesOK
        OBVIOUS
    <2>1. abandoned = {} /\ queue = <<>> /\ current = Nothing /\ dropped = 0 /\ surfaced = 0
        BY DEF Init
    <2>2. Len(queue) = 0 /\ ~IsLog(current) /\ current.lost = 0
        BY <2>1 DEF Nothing, IsLog
    <2>3. Cardinality(abandoned) = 0
        BY <2>1, FS_EmptySet
    <2>4. LossesSurfaced
        <3>1. Reports(queue, 0)
            BY <2>1, NothingReported
        <3> QED BY <2>1, <2>2, <2>3, <3>1 DEF LossesSurfaced
    <2> QED BY <2>1, <2>2, <2>4 DEF LossesOK, LossesAccounted
<1>2. IInv /\ LossesOK /\ [Next]_vars => LossesOK'
    <2> SUFFICES ASSUME IInv, LossesOK, [Next]_vars PROVE LossesOK'
        OBVIOUS
    <2>1. CASE PostFails
        BY <2>1 DEF PostFails, LossesOK, LossesAccounted, LossesSurfaced, Reports, After, IInv
    <2>2. CASE UNCHANGED vars
        BY <2>2 DEF vars, streamState, LossesOK, LossesAccounted, LossesSurfaced, Reports, After
    <2> QED BY <2>1, <2>2, WriteKeepsLosses, PostOkKeepsLosses, RetryKeepsLosses DEF Next, PostEnds
<1>3. LossesOK => LossesAccounted
    BY DEF LossesOK
<1> QED BY <1>1, <1>2, <1>3, Invariance, PTL DEF Spec
=============================================================================
