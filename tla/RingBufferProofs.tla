-------------------------- MODULE RingBufferProofs --------------------------
(***************************************************************************)
(* The ring buffer is a bounded FIFO without data races, for every size    *)
(* and set of items. The inductive invariant is the order of the four      *)
(* indices around the ring: what the producer believes to be tail_, tail_, *)
(* what the consumer believes to be head_, head_.                          *)
(***************************************************************************)
EXTENDS RingBuffer, TLAPS, SequenceTheorems

IndicesInOrder ==
  Distance(tailSeen, tail) + Distance(tail, headSeen) + Distance(headSeen, head)
    = Distance(tailSeen, head)

ProducerInv ==
  /\ producer \in {"write", "publish"} => Succ(head) # tailSeen /\ pushing \in Items
  /\ producer = "publish" => buffer[head] = pushing
  /\ producer = "stopped" => head = tailSeen

ConsumerInv ==
  /\ consumer \in {"read", "advance"} => tail # headSeen
  /\ consumer = "advance" => popping = buffer[tail]

RInv == TypeOK /\ IndicesInOrder /\ ProducerInv /\ ConsumerInv

USE SizeAssumption

-----------------------------------------------------------------------------
(* Steps around the ring                                                   *)

LEMMA SuccInSlots == \A k \in Slots : Succ(k) \in Slots
BY DEF Slots, Succ

LEMMA DistanceRange ==
  \A j, k \in Slots :
    /\ Distance(j, k) \in Nat /\ Distance(j, k) < N
    /\ Distance(j, k) = 0 <=> j = k
BY DEF Slots, Distance

\* Moving the far end forward adds a step, unless it meets the near end.
LEMMA DistanceGrows ==
  \A j, k \in Slots : Succ(k) # j => Distance(j, Succ(k)) = Distance(j, k) + 1
BY DEF Slots, Distance, Succ

\* Moving the near end forward removes a step, unless the ends have met.
LEMMA DistanceShrinks ==
  \A j, k \in Slots : j # k => Distance(Succ(j), k) = Distance(j, k) - 1
BY DEF Slots, Distance, Succ

LEMMA DistanceFull ==
  \A j, k \in Slots : Succ(k) # j => Distance(j, k) < N - 1
BY DEF Slots, Distance, Succ

LEMMA AheadProps ==
  \A j, k \in Slots :
    /\ Ahead(j, Distance(j, k)) = k
    /\ \A d \in Nat : d < N => Ahead(j, d) \in Slots
    /\ \A d \in Nat : d < Distance(j, k) => Ahead(j, d) # k
    /\ Ahead(j, 0) = j
    /\ \A d \in Nat : d < N - 1 => Ahead(Succ(j), d) = Ahead(j, d + 1)
BY DEF Slots, Distance, Ahead, Succ

\* Four slots in this order around the ring.
LEMMA DistanceSplits ==
  \A i, j, k, m \in Slots :
    Distance(i, j) + Distance(j, k) + Distance(k, m) = Distance(i, m)
      => Distance(j, m) = Distance(j, k) + Distance(k, m)
BY DEF Slots, Distance

-----------------------------------------------------------------------------
(* The invariant                                                           *)

LEMMA InitRInv == Init => RInv
BY DEF Init, RInv, TypeOK, IndicesInOrder, ProducerInv, ConsumerInv, Slots, ItemOrNone, Distance

LEMMA NextRInv == RInv /\ [Next]_vars => RInv'
<1> SUFFICES ASSUME RInv, [Next]_vars PROVE RInv'
  OBVIOUS
<1> USE DEF RInv, TypeOK, ItemOrNone
<1>1. ASSUME NEW i \in Items, PushCheck(i) PROVE RInv'
  BY <1>1 DEF PushCheck, Full, IndicesInOrder, ProducerInv, ConsumerInv
<1>2. CASE PushWrite
  <2>1. head # tail \/ consumer = "idle"
    <3> SUFFICES ASSUME head = tail, tail # headSeen PROVE FALSE
      BY DEF ConsumerInv
    <3> QED  BY DistanceRange DEF IndicesInOrder
  <2>2. TypeOK' /\ IndicesInOrder' /\ ProducerInv'
    BY <1>2 DEF PushWrite, IndicesInOrder, ProducerInv
  <2>3. ConsumerInv'
    BY <1>2, <2>1 DEF PushWrite, ConsumerInv
  <2> QED  BY <2>2, <2>3
<1>3. CASE PushPublish
  <2>1. TypeOK'
    BY <1>3, SuccInSlots DEF PushPublish
  <2>2. Distance(headSeen, head) <= Distance(tailSeen, head)
    BY DistanceRange DEF IndicesInOrder
  <2>3. Succ(head) # headSeen /\ Succ(head) # tailSeen
    <3>1. Succ(head) # tailSeen
      BY <1>3 DEF PushPublish, ProducerInv
    <3>2. Distance(tailSeen, head) < N - 1
      BY <3>1, DistanceFull
    <3>3. Distance(Succ(head), head) = N - 1
      BY DEF Slots, Succ, Distance
    <3> QED  BY <3>1, <3>2, <3>3, <2>2, DistanceRange
  <2>4. IndicesInOrder'
    <3>1. /\ Distance(headSeen, Succ(head)) = Distance(headSeen, head) + 1
          /\ Distance(tailSeen, Succ(head)) = Distance(tailSeen, head) + 1
      BY <2>3, DistanceGrows
    <3> QED  BY <1>3, <3>1, DistanceRange DEF PushPublish, IndicesInOrder
  <2>5. ProducerInv' /\ ConsumerInv'
    BY <1>3 DEF PushPublish, ProducerInv, ConsumerInv
  <2> QED  BY <2>1, <2>4, <2>5
<1>4. CASE PopCheck
  BY <1>4 DEF PopCheck, LooksEmpty, IndicesInOrder, ProducerInv, ConsumerInv
<1>5. CASE PopRead
  BY <1>5 DEF PopRead, IndicesInOrder, ProducerInv, ConsumerInv
<1>6. CASE PopAdvance
  <2>1. TypeOK'
    BY <1>6, SuccInSlots DEF PopAdvance
  <2>2. tail # headSeen
    BY <1>6 DEF PopAdvance, ConsumerInv
  <2>3. Distance(Succ(tail), headSeen) = Distance(tail, headSeen) - 1
    BY <2>2, DistanceShrinks
  <2>4. Distance(tailSeen, Succ(tail)) = Distance(tailSeen, tail) + 1
    <3>1. Distance(tail, headSeen) > 0
      BY <2>2, DistanceRange
    <3>2. Distance(tailSeen, tail) < N - 1
      BY <3>1, DistanceRange DEF IndicesInOrder
    <3>3. Succ(tail) # tailSeen
      BY <3>2 DEF Slots, Succ, Distance
    <3> QED  BY <3>3, DistanceGrows
  <2>5. IndicesInOrder'
    BY <1>6, <2>3, <2>4, DistanceRange DEF PopAdvance, IndicesInOrder
  <2>6. ProducerInv' /\ ConsumerInv'
    BY <1>6 DEF PopAdvance, ProducerInv, ConsumerInv
  <2> QED  BY <2>1, <2>5, <2>6
<1>7. CASE StopBegin
  BY <1>7 DEF StopBegin, IndicesInOrder, ProducerInv, ConsumerInv
<1>8. CASE StopEnd
  BY <1>8 DEF StopEnd, IndicesInOrder, ProducerInv, ConsumerInv
<1>9. CASE SeeTail
  <2>1. TypeOK'
    BY <1>9, SuccInSlots DEF SeeTail
  <2>2. tailSeen # head
    BY <1>9, DistanceRange DEF SeeTail, IndicesInOrder
  <2>3. /\ Distance(Succ(tailSeen), tail) = Distance(tailSeen, tail) - 1
        /\ Distance(Succ(tailSeen), head) = Distance(tailSeen, head) - 1
    BY <1>9, <2>2, DistanceShrinks DEF SeeTail
  <2>4. IndicesInOrder'
    BY <1>9, <2>3, DistanceRange DEF SeeTail, IndicesInOrder
  <2>5. Succ(head) # Succ(tailSeen)
    BY <2>2 DEF Slots, Succ
  <2>6. ProducerInv' /\ ConsumerInv'
    BY <1>9, <2>2, <2>5 DEF SeeTail, ProducerInv, ConsumerInv
  <2> QED  BY <2>1, <2>4, <2>6
<1>10. CASE SeeHead
  <2>1. TypeOK'
    BY <1>10, SuccInSlots DEF SeeHead
  <2>2. Distance(headSeen, head) > 0
    BY <1>10, DistanceRange DEF SeeHead
  <2>3. Distance(tail, headSeen) < N - 1
    BY <2>2, DistanceRange DEF IndicesInOrder
  <2>4. Succ(headSeen) # tail
    BY <2>3 DEF Slots, Succ, Distance
  <2>5. /\ Distance(tail, Succ(headSeen)) = Distance(tail, headSeen) + 1
        /\ Distance(Succ(headSeen), head) = Distance(headSeen, head) - 1
    BY <1>10, <2>4, DistanceGrows, DistanceShrinks DEF SeeHead
  <2>6. IndicesInOrder'
    BY <1>10, <2>5, DistanceRange DEF SeeHead, IndicesInOrder
  <2>7. ProducerInv' /\ ConsumerInv'
    BY <1>10, <2>4 DEF SeeHead, ProducerInv, ConsumerInv
  <2> QED  BY <2>1, <2>6, <2>7
<1>11. CASE UNCHANGED vars
  BY <1>11 DEF vars, IndicesInOrder, ProducerInv, ConsumerInv
<1> QED
  BY <1>1, <1>2, <1>3, <1>4, <1>5, <1>6, <1>7, <1>8, <1>9, <1>10, <1>11
  DEF Next, Produce, Consume

\* Each thread's view of the other's index stays between the real indices, in
\* ring order, at every step of Push, Pop and Stop (RingBuffer.h:33-83).
THEOREM RingInvariant == Spec => []RInv
BY InitRInv, NextRInv, PTL DEF Spec

\* The types, for every N and every set of items.
THEOREM RingTypes == Spec => []TypeOK
BY RingInvariant, PTL DEF RInv

LEMMA NoRaceInv == RInv => NoDataRace
<1> SUFFICES ASSUME RInv, consumer = "read", head = tail PROVE FALSE
  BY DEF NoDataRace
<1>1. tail # headSeen
  BY DEF RInv, ConsumerInv
<1> QED
  BY <1>1, DistanceRange DEF RInv, TypeOK, IndicesInOrder

\* The two threads never touch the same slot at once (RingBuffer.h:40, 65).
THEOREM RingHasNoDataRace == Spec => []NoDataRace
BY RingInvariant, NoRaceInv, PTL

LEMMA StoppedInv == RInv => StoppedIsEmpty
<1> SUFFICES ASSUME RInv, head = tailSeen PROVE tail = head
  BY DEF RInv, ProducerInv, StoppedIsEmpty
<1> QED
  BY DistanceRange DEF RInv, TypeOK, IndicesInOrder

\* Stop returns only when the consumer has taken every item
\* (MatchingEngine.cpp:17-18).
THEOREM StopMeansEmpty == Spec => []StoppedIsEmpty
BY RingInvariant, StoppedInv, PTL

-----------------------------------------------------------------------------
(* The refinement of BoundedFifo                                           *)

LEMMA QueueIsSeq ==
  ASSUME TypeOK
  PROVE  Queue \in Seq(ItemOrNone) /\ Len(Queue) = Distance(tail, head)
<1>1. Distance(tail, head) \in Nat /\ Distance(tail, head) < N
  BY DistanceRange DEF TypeOK
<1>2. \A k \in 1..Distance(tail, head) : buffer[Ahead(tail, k - 1)] \in ItemOrNone
  <2> SUFFICES ASSUME NEW k \in 1..Distance(tail, head)
               PROVE  buffer[Ahead(tail, k - 1)] \in ItemOrNone
    OBVIOUS
  <2>1. k - 1 \in Nat /\ k - 1 < N
    BY <1>1
  <2>2. Ahead(tail, k - 1) \in Slots
    BY <2>1, AheadProps DEF TypeOK
  <2> QED  BY <2>2 DEF TypeOK
<1> QED  BY <1>1, <1>2 DEF Queue

\* A write goes to a slot outside the queue.
LEMMA WriteKeepsQueue == RInv /\ PushWrite => UNCHANGED <<Queue, out>>
<1> SUFFICES ASSUME RInv, PushWrite PROVE Queue' = Queue /\ out' = out
  OBVIOUS
<1>1. Distance(tail, head) \in Nat /\ Distance(tail, head) < N
  BY DistanceRange DEF RInv, TypeOK
<1>2. ASSUME NEW k \in 1..Distance(tail, head)
      PROVE  buffer'[Ahead(tail, k - 1)] = buffer[Ahead(tail, k - 1)]
  <2>1. k - 1 \in Nat /\ k - 1 < N /\ k - 1 < Distance(tail, head)
    BY <1>1
  <2>2. Ahead(tail, k - 1) \in Slots /\ Ahead(tail, k - 1) # head
    BY <2>1, AheadProps DEF RInv, TypeOK
  <2> QED  BY <2>2 DEF PushWrite, RInv, TypeOK
<1>3. tail' = tail /\ head' = head /\ out' = out
  BY DEF PushWrite
<1> QED  BY <1>2, <1>3 DEF Queue

LEMMA PublishIsPush == RInv /\ PushPublish => \E i \in Items : Fifo!Push(i)
<1> SUFFICES ASSUME RInv, PushPublish PROVE Fifo!Push(pushing)
  BY DEF PushPublish, RInv, ProducerInv
<1> DEFINE d == Distance(tail, head)
<1>1. d \in Nat /\ d < N
  BY DistanceRange DEF RInv, TypeOK
<1>2. d < N - 1 /\ Succ(head) # tail
  <2>1. Distance(tailSeen, head) < N - 1
    BY DistanceFull DEF PushPublish, RInv, TypeOK, ProducerInv
  <2>2. d < N - 1
    BY <2>1, DistanceRange, DistanceSplits DEF RInv, TypeOK, IndicesInOrder
  <2>3. Succ(head) # tail
    BY <2>2 DEF RInv, TypeOK, Slots, Succ, Distance
  <2> QED  BY <2>2, <2>3
<1>3. Distance(tail, Succ(head)) = d + 1
  BY <1>2, DistanceGrows DEF RInv, TypeOK
<1>4. Queue' = [k \in 1..(d + 1) |-> buffer[Ahead(tail, k - 1)]]
  BY <1>3 DEF PushPublish, Queue
<1>5. buffer[Ahead(tail, (d + 1) - 1)] = pushing
  <2>1. Ahead(tail, d) = head
    BY AheadProps DEF RInv, TypeOK
  <2>2. (d + 1) - 1 = d
    BY <1>1
  <2> QED  BY <2>1, <2>2 DEF PushPublish, RInv, ProducerInv
<1>6. Queue \in Seq(ItemOrNone) /\ Len(Queue) = d
  BY QueueIsSeq DEF RInv
<1>7. /\ Append(Queue, pushing) \in Seq(ItemOrNone)
      /\ Len(Append(Queue, pushing)) = d + 1
      /\ \A k \in 1..d : Append(Queue, pushing)[k] = Queue[k]
      /\ Append(Queue, pushing)[d + 1] = pushing
  BY <1>1, <1>6, AppendProperties DEF RInv, TypeOK
<1>8. \A k \in 1..d : Queue[k] = buffer[Ahead(tail, k - 1)]
  BY DEF Queue
<1>9. Queue' = Append(Queue, pushing)
  <2> HIDE DEF d
  <2>1. \A k \in 1..(d + 1) : buffer[Ahead(tail, k - 1)] = Append(Queue, pushing)[k]
    BY <1>1, <1>5, <1>7, <1>8
  <2>2. \A k \in 1..(d + 1) : buffer[Ahead(tail, k - 1)] \in ItemOrNone
    BY <1>1, <1>7, <2>1
  <2>3. Queue' \in Seq(ItemOrNone) /\ Len(Queue') = d + 1
    BY <1>1, <1>4, <2>2
  <2>4. \A k \in 1..Len(Queue') : Queue'[k] = Append(Queue, pushing)[k]
    BY <1>4, <2>1, <2>3
  <2> QED  BY <1>7, <2>3, <2>4, SeqEqual
<1> QED
  BY <1>2, <1>6, <1>9 DEF Fifo!Push, PushPublish

LEMMA AdvanceIsPop == RInv /\ PopAdvance => Fifo!Pop
<1> SUFFICES ASSUME RInv, PopAdvance PROVE Fifo!Pop
  OBVIOUS
<1> DEFINE d == Distance(tail, head)
<1>1. d \in Nat /\ d < N
  BY DistanceRange DEF RInv, TypeOK
<1>2. tail # headSeen /\ popping = buffer[tail]
  BY DEF PopAdvance, RInv, ConsumerInv
<1>3. d > 0 /\ tail # head
  BY <1>2, DistanceRange DEF RInv, TypeOK, IndicesInOrder
<1>4. Distance(Succ(tail), head) = d - 1
  BY <1>3, DistanceShrinks DEF RInv, TypeOK
<1>5. Queue' = [k \in 1..(d - 1) |-> buffer[Ahead(Succ(tail), k - 1)]]
  BY <1>4 DEF PopAdvance, Queue
<1>6. Queue \in Seq(ItemOrNone) /\ Len(Queue) = d
  BY QueueIsSeq DEF RInv
<1>7. \A k \in 1..(d - 1) : buffer[Ahead(Succ(tail), k - 1)] = Queue[k + 1]
  <2> SUFFICES ASSUME NEW k \in 1..(d - 1)
               PROVE  buffer[Ahead(Succ(tail), k - 1)] = Queue[k + 1]
    OBVIOUS
  <2>1. k - 1 \in Nat /\ k - 1 < N - 1 /\ k + 1 \in 1..d /\ (k + 1) - 1 = (k - 1) + 1
    BY <1>1
  <2>2. Ahead(Succ(tail), k - 1) = Ahead(tail, (k + 1) - 1)
    BY <2>1, AheadProps DEF RInv, TypeOK
  <2> QED  BY <2>1, <2>2 DEF Queue
<1>8. /\ Queue # <<>> /\ Head(Queue) = Queue[1]
      /\ Tail(Queue) \in Seq(ItemOrNone) /\ Len(Tail(Queue)) = d - 1
      /\ \A k \in 1..(d - 1) : Tail(Queue)[k] = Queue[k + 1]
  <2> HIDE DEF d
  <2>1. Queue # <<>>
    BY <1>1, <1>3, <1>6
  <2>2. Head(Queue) = Queue[1]
    BY <1>6, <2>1
  <2>3. /\ Tail(Queue) \in Seq(ItemOrNone)
        /\ Len(Tail(Queue)) = Len(Queue) - 1
        /\ \A k \in 1..Len(Tail(Queue)) : Tail(Queue)[k] = Queue[k + 1]
    BY <1>6, <2>1, HeadTailProperties
  <2> QED  BY <1>6, <2>1, <2>2, <2>3
<1>9. Queue[1] = buffer[tail]
  <2>1. 1 \in 1..d /\ 1 - 1 = 0
    BY <1>1, <1>3
  <2>2. Ahead(tail, 1 - 1) = tail
    BY <2>1, AheadProps DEF RInv, TypeOK
  <2> QED  BY <2>1, <2>2 DEF Queue
<1>10. Queue' = Tail(Queue)
  <2> HIDE DEF d
  <2>1. d - 1 \in Nat
    BY <1>1, <1>3
  <2>2. \A k \in 1..(d - 1) : buffer[Ahead(Succ(tail), k - 1)] \in ItemOrNone
    BY <1>7, <1>8, <2>1
  <2>3. Queue' \in Seq(ItemOrNone) /\ Len(Queue') = d - 1
    BY <1>5, <2>1, <2>2
  <2>4. \A k \in 1..Len(Queue') : Queue'[k] = Tail(Queue)[k]
    BY <1>5, <1>7, <1>8, <2>3
  <2> QED  BY <1>8, <2>3, <2>4, SeqEqual
<1> QED
  BY <1>2, <1>8, <1>9, <1>10 DEF Fifo!Pop, PopAdvance

LEMMA StepIsFifo == RInv /\ [Next]_vars => [Fifo!Next]_<<Queue, out>>
<1> SUFFICES ASSUME RInv, [Next]_vars PROVE Fifo!Next \/ UNCHANGED <<Queue, out>>
  OBVIOUS
<1>1. CASE PushWrite
  BY <1>1, WriteKeepsQueue
<1>2. CASE PushPublish
  BY <1>2, PublishIsPush DEF Fifo!Next
<1>3. CASE PopAdvance
  BY <1>3, AdvanceIsPop DEF Fifo!Next
<1>4. ASSUME buffer' = buffer, head' = head, tail' = tail, out' = out
      PROVE  UNCHANGED <<Queue, out>>
  BY <1>4 DEF Queue
<1>5. ASSUME NEW i \in Items, PushCheck(i) PROVE UNCHANGED <<Queue, out>>
  BY <1>4, <1>5 DEF PushCheck
<1>6. CASE PopCheck \/ PopRead
  BY <1>4, <1>6 DEF PopCheck, PopRead
<1>7. CASE StopBegin \/ StopEnd \/ SeeTail \/ SeeHead \/ UNCHANGED vars
  BY <1>4, <1>7 DEF StopBegin, StopEnd, SeeTail, SeeHead, vars
<1> QED
  BY <1>1, <1>2, <1>3, <1>5, <1>6, <1>7 DEF Next, Produce, Consume

LEMMA InitIsFifo == Init => Fifo!Init
<1> SUFFICES ASSUME Init PROVE Queue = <<>> /\ out = NoItem
  BY DEF Fifo!Init
<1>1. Distance(tail, head) = 0
  BY DEF Init, Distance
<1> QED  BY <1>1 DEF Queue, Init

\* The ring buffer is a FIFO of at most N - 1 items, whatever each thread knows
\* of the other's index: nothing is lost, doubled or overtaken once Push has
\* accepted it (RingBuffer.h:33-69).
THEOREM RingImplementsFifo == Spec => ImplementsFifo
<1>1. Init => Fifo!Init
  BY InitIsFifo
<1>2. RInv /\ [Next]_vars => [Fifo!Next]_<<Queue, out>>
  BY StepIsFifo
<1> QED
  BY <1>1, <1>2, RingInvariant, PTL DEF Spec, ImplementsFifo, Fifo!Spec

=============================================================================
