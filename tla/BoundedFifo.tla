---------------------------- MODULE BoundedFifo ----------------------------
(***************************************************************************)
(* What a ring buffer between two threads promises: the items accepted     *)
(* come out once each and in order, and no more than Capacity are inside.  *)
(* A Push or a Pop that is refused leaves the queue as it is.              *)
(***************************************************************************)
EXTENDS Naturals, Sequences

CONSTANTS Items, NoItem, Capacity

VARIABLES
  queue,   \* the items inside, oldest first
  out      \* the item the last Pop returned

Init == queue = <<>> /\ out = NoItem

Push(i) ==
  /\ Len(queue) < Capacity
  /\ queue' = Append(queue, i)
  /\ UNCHANGED out

Pop ==
  /\ queue # <<>>
  /\ out' = Head(queue)
  /\ queue' = Tail(queue)

Next == (\E i \in Items : Push(i)) \/ Pop

Spec == Init /\ [][Next]_<<queue, out>>

=============================================================================
