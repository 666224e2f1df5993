----------------------------- MODULE RingBuffer -----------------------------
(***************************************************************************)
(* RingBuffer.h: the lock-free ring buffer of one producer thread and one  *)
(* consumer thread, one atomic operation at a time. It carries orders from *)
(* the agents to the engine and trades from the engine to each agent.      *)
(*                                                                         *)
(* Loads are acquire and stores release, so a thread may read an index the *)
(* other thread has overwritten since, though never one older than it has  *)
(* read before: tailSeen and headSeen are the values a load returns, and   *)
(* catch up one step at a time whenever the memory system pleases. A       *)
(* thread always reads its own index as it last stored it.                 *)
(*                                                                         *)
(* The producer ends by waiting for empty(), as MatchingEngine::Stop does, *)
(* which runs on the thread that pushed the orders.                        *)
(***************************************************************************)
EXTENDS Integers, Sequences

CONSTANTS
  N,        \* slots of the buffer: 1024 in the code, a power of two
  Items,    \* what is pushed
  NoItem    \* the value of a slot or variable nobody has written

ASSUME SizeAssumption == N \in Nat \ {0}
ASSUME ItemAssumption == NoItem \notin Items

VARIABLES
  buffer,     \* buffer_
  head,       \* head_: the slot the producer fills next
  tail,       \* tail_: the slot the consumer empties next
  tailSeen,   \* tail_ as the producer's loads return it
  headSeen,   \* head_ as the consumer's loads return it
  producer,   \* where the producer is
  pushing,    \* `item' of the Push under way
  consumer,   \* where the consumer is
  popping,    \* `item' of the Pop under way
  out         \* the item of the last Pop that returned true

vars == <<buffer, head, tail, tailSeen, headSeen, producer, pushing,
          consumer, popping, out>>

Slots == 0..(N - 1)
ItemOrNone == Items \union {NoItem}

\* Mutant: the index is not wrapped.
SuccUnwrapped(k) == k + 1

\* (k + 1) & (n - 1), for an index k and n a power of two.
Succ(k) == IF k = N - 1 THEN 0 ELSE k + 1

\* Steps from slot j forward to slot k.
Distance(j, k) == IF k >= j THEN k - j ELSE k - j + N

\* The slot d steps forward from slot j.
Ahead(j, d) == IF j + d < N THEN j + d ELSE j + d - N

Init ==
  /\ buffer = [k \in Slots |-> NoItem]
  /\ head = 0 /\ tail = 0
  /\ tailSeen = 0 /\ headSeen = 0
  /\ producer = "idle" /\ pushing = NoItem
  /\ consumer = "idle" /\ popping = NoItem
  /\ out = NoItem

-----------------------------------------------------------------------------
(* Push. It returns false, and changes nothing, if the buffer looks full.  *)

\* Mutant: nothing looks full.
FullNever == FALSE

Full == Succ(head) = tailSeen

PushCheck(i) ==
  /\ producer = "idle"
  /\ ~Full
  /\ producer' = "write"
  /\ pushing' = i
  /\ UNCHANGED <<buffer, head, tail, tailSeen, headSeen, consumer, popping, out>>

PushWrite ==
  /\ producer = "write"
  /\ buffer' = [buffer EXCEPT ![head] = pushing]
  /\ producer' = "publish"
  /\ UNCHANGED <<head, tail, tailSeen, headSeen, pushing, consumer, popping, out>>

PushPublish ==
  /\ producer = "publish"
  /\ head' = Succ(head)
  /\ producer' = "idle"
  /\ UNCHANGED <<buffer, tail, tailSeen, headSeen, pushing, consumer, popping, out>>

-----------------------------------------------------------------------------
(* Pop. It returns false, and changes nothing, if the buffer looks empty.  *)

\* Mutant: nothing looks empty.
EmptyNever == FALSE

\* empty() as the consumer evaluates it, in Pop and in ClearIncoming.
LooksEmpty == tail = headSeen

PopCheck ==
  /\ consumer = "idle"
  /\ ~LooksEmpty
  /\ consumer' = "read"
  /\ UNCHANGED <<buffer, head, tail, tailSeen, headSeen, producer, pushing, popping, out>>

PopRead ==
  /\ consumer = "read"
  /\ popping' = buffer[tail]
  /\ consumer' = "advance"
  /\ UNCHANGED <<buffer, head, tail, tailSeen, headSeen, producer, pushing, out>>

\* Mutant: tail_ is not stored.
PopAdvanceOnly ==
  /\ consumer = "advance"
  /\ out' = popping
  /\ consumer' = "idle"
  /\ UNCHANGED <<buffer, head, tail, tailSeen, headSeen, producer, pushing, popping>>

PopAdvance ==
  /\ consumer = "advance"
  /\ tail' = Succ(tail)
  /\ out' = popping
  /\ consumer' = "idle"
  /\ UNCHANGED <<buffer, head, tailSeen, headSeen, producer, pushing, popping>>

-----------------------------------------------------------------------------
(* MatchingEngine::Stop on the producer's thread: no Push follows.         *)

StopBegin ==
  /\ producer = "idle"
  /\ producer' = "stopping"
  /\ UNCHANGED <<buffer, head, tail, tailSeen, headSeen, pushing, consumer, popping, out>>

\* Mutant: Stop does not wait.
StopEndAtOnce ==
  /\ producer = "stopping"
  /\ producer' = "stopped"
  /\ UNCHANGED <<buffer, head, tail, tailSeen, headSeen, pushing, consumer, popping, out>>

StopEnd ==
  /\ producer = "stopping"
  /\ head = tailSeen
  /\ producer' = "stopped"
  /\ UNCHANGED <<buffer, head, tail, tailSeen, headSeen, pushing, consumer, popping, out>>

-----------------------------------------------------------------------------
(* Stores become visible to the other thread                               *)

SeeTail ==
  /\ tailSeen # tail
  /\ tailSeen' = Succ(tailSeen)
  /\ UNCHANGED <<buffer, head, tail, headSeen, producer, pushing, consumer, popping, out>>

SeeHead ==
  /\ headSeen # head
  /\ headSeen' = Succ(headSeen)
  /\ UNCHANGED <<buffer, head, tail, tailSeen, producer, pushing, consumer, popping, out>>

-----------------------------------------------------------------------------

Produce == PushWrite \/ PushPublish \/ StopEnd
Consume == PopCheck \/ PopRead \/ PopAdvance

Next ==
  \/ \E i \in Items : PushCheck(i)
  \/ StopBegin
  \/ Produce \/ Consume
  \/ SeeTail \/ SeeHead

\* Both consumers, Start and RunIncomingLoop, poll in a loop; a Push or a Stop
\* that has begun goes on; stores become visible in finite time. Nothing makes
\* the producer begin a Push or a Stop.
Spec ==
  /\ Init /\ [][Next]_vars
  /\ WF_vars(Produce) /\ WF_vars(Consume) /\ WF_vars(SeeTail) /\ WF_vars(SeeHead)

-----------------------------------------------------------------------------
(* Properties                                                              *)

TypeOK ==
  /\ buffer \in [Slots -> ItemOrNone]
  /\ head \in Slots /\ tail \in Slots
  /\ tailSeen \in Slots /\ headSeen \in Slots
  /\ producer \in {"idle", "write", "publish", "stopping", "stopped"}
  /\ pushing \in ItemOrNone
  /\ consumer \in {"idle", "read", "advance"}
  /\ popping \in ItemOrNone
  /\ out \in ItemOrNone

\* The slot is between tail_ and head_: pushed and not yet popped.
InRing(k) == Distance(tail, k) < Distance(tail, head)

\* The producer never writes the slot the consumer reads, although each knows
\* the other's index only as of some earlier time (RingBuffer.h:34-41, 58-68).
NoDataRace == ~(producer = "write" /\ consumer = "read" /\ head = tail)

\* When Stop has seen the ring empty, the consumer has taken every item,
\* although Stop may have read an old tail_ (MatchingEngine.cpp:16-20,
\* RingBuffer.h:78-83).
StoppedIsEmpty == producer = "stopped" => tail = head

\* The items inside, oldest first.
Queue == [k \in 1..Distance(tail, head) |-> buffer[Ahead(tail, k - 1)]]

\* The items come out once each, in the order pushed, and never more than N - 1
\* are inside (RingBuffer.h:33-69, README.md:17).
Fifo == INSTANCE BoundedFifo WITH Capacity <- N - 1, queue <- Queue

ImplementsFifo == Fifo!Spec

\* Every slot that has been filled is emptied, and a Stop that waits for empty()
\* returns (RingBuffer.h:58-69, MatchingEngine.cpp:17-18).
Drains ==
  /\ \A k \in Slots : InRing(k) ~> ~InRing(k)
  /\ producer = "stopping" ~> producer = "stopped"

=============================================================================
