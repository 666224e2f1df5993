--------------------------- MODULE MovingAverages ---------------------------
(***************************************************************************)
(* The momentum trader (AgentStrategy.cpp) and SingleThreadRingBuffer.h:   *)
(* each turn records the mid price in a short and in a long ring buffer;   *)
(* once both have been full, a turn moves two sums along and compares the  *)
(* averages.                                                               *)
(***************************************************************************)
EXTENDS Integers, Folds

CONSTANTS
  ShortSize, LongSize,   \* slots of the arrays, at least 2: 32 and 256 in the code
  MidPrices,
  Threshold

VARIABLES
  short, long,           \* shortTermObservations_ and longTermObservations_
  shortSum, longSum,     \* shortTermSum_ and longTermSum_
  decision               \* what the last turn decided

vars == <<short, long, shortSum, longSum, decision>>

-----------------------------------------------------------------------------
(* SingleThreadRingBuffer: as in RingBuffer, one slot stays unused.        *)

Empty(n) == [slots |-> n, buffer |-> [i \in 0 .. n - 1 |-> 0], tail |-> 0, head |-> 0]
After(r, i) == (i + 1) % r.slots
Full(r) == After(r, r.head) = r.tail
Size(r) == (r.head - r.tail) % r.slots
Front(r) == r.buffer[r.tail]

\* Push refuses the item when the buffer is full.
Pushed(r, x) ==
  IF Full(r) THEN r
  ELSE [r EXCEPT !.buffer[r.head] = x, !.head = After(r, r.head)]

Popped(r) == [r EXCEPT !.tail = After(r, r.tail)]

Held(r) == {i \in DOMAIN r.buffer : (i - r.tail) % r.slots < Size(r)}
Total(r) == MapThenFoldSet(LAMBDA x, y : x + y, 0, LAMBDA i : r.buffer[i],
                           LAMBDA S : CHOOSE i \in S : TRUE, Held(r))

-----------------------------------------------------------------------------
Init ==
  /\ short = Empty(ShortSize)
  /\ long = Empty(LongSize)
  /\ shortSum = 0
  /\ longSum = 0
  /\ decision = "none"

\* Averages a > b by more than the threshold, without the division.
Exceeds(sumA, sizeA, sumB, sizeB) ==
  sumA * sizeB - sumB * sizeA > Threshold * sizeA * sizeB

\* CreateOrders, up to the choice of the side: what the agent can afford is in
\* Accounts. The result of both pushes is ignored.
CreateOrders(midPrice) ==
  LET s == Pushed(short, midPrice)
      l == Pushed(long, midPrice)
  IN \/ /\ ~(Full(s) /\ Full(l))
        /\ short' = s
        /\ long' = l
        /\ decision' = "none"
        /\ UNCHANGED <<shortSum, longSum>>
     \/ /\ Full(s) /\ Full(l)
        /\ short' = Popped(s)
        /\ long' = Popped(l)
        /\ shortSum' = shortSum + midPrice - Front(s)
        /\ longSum' = longSum + midPrice - Front(l)
        /\ decision' = IF Exceeds(shortSum', Size(short'), longSum', Size(long')) THEN "Buy"
                       ELSE IF Exceeds(longSum', Size(long'), shortSum', Size(short')) THEN "Sell"
                       ELSE "wait"

Next == \E p \in MidPrices : CreateOrders(p)

Spec == Init /\ [][Next]_vars

-----------------------------------------------------------------------------
(* A claim that the code does not keep                                     *)

\* The sums that the trader decides on are those of the mid prices in its ring
\* buffers, so that dividing by their sizes gives the moving averages.
SumsOfWindows ==
  decision # "none" => shortSum = Total(short) /\ longSum = Total(long)

=============================================================================
