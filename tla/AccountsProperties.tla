------------------------- MODULE AccountsProperties -------------------------
(***************************************************************************)
(* What must hold of the agents' accounts, and the refinement of Ledger.   *)
(***************************************************************************)
EXTENDS Accounts

Held ==
  LET carried(s) == {s[k].index : k \in DOMAIN s}
  IN carried(outgoing) \union carried(orders) \union carried(dropped) \union
     {index[o.id] : o \in book} \union
     (IF taker = NoTaker THEN {} ELSE {index[taker.id]}) \union ({cxl} \ {NoNode})

\* The ring buffers and the pool hold what their declarations say
\* (Agent.h:62-72, OrderPool.h:16-22).
TypeOK ==
  /\ \A a \in Agents : /\ account[a] \in [available : Int, reserved : Int, units : Int]
                       /\ Len(inbox[a]) <= InboxCap
                       /\ active[a] \subseteq PoolNodes \union Nat
  /\ Len(orders) <= QueueCap
  /\ pool \in Pools /\ cxl \in PoolNodes \union {NoNode}
  /\ Len(index) = lastId
  /\ Range(index) \subseteq PoolNodes

\* The free list visits every node that is not in somebody's hands, once, and
\* ends: deallocate, which checks nothing, is never called for a node of the list
\* (OrderPool.h:38-52).
FreeListSound ==
  /\ IsFreeList(pool, FreeList(pool))
  /\ Range(FreeList(pool)) = PoolNodes \ Held

\* The account of a once it has heard of everything that was reported to it, also
\* of what its full ring buffer refused.
Settled(a) == FoldLeft(Booked, account[a], inbox[a] \o lost[a])

\* Orders of a on side sd that the engine may still execute, with the quantity left.
InEngine(a, sd) ==
  {o \in book \union ({taker} \ {NoTaker}) : o.client = a /\ o.side = sd}
Waiting(s, a, sd) ==
  {k \in DOMAIN s : s[k].type # "CANCEL" /\ s[k].client = a /\ s[k].side = sd}

\* What an order ties up: cash if it buys, units if it sells.
Worth(sd, o) == IF sd = "Buy" THEN Cents(o.price) * o.qty ELSE o.qty

InEngineWorth(a, sd) == SumFunction([o \in InEngine(a, sd) |-> Worth(sd, o)])
WaitingWorth(s, a, sd) == SumFunction([k \in Waiting(s, a, sd) |-> Worth(sd, s[k])])

Committed(a) == InEngineWorth(a, "Buy") + WaitingWorth(orders, a, "Buy")
Offered(a) == InEngineWorth(a, "Sell") + WaitingWorth(orders, a, "Sell") +
              WaitingWorth(dropped, a, "Sell")

\* Through orders, cancels and prices better than asked for, with reports in flight
\* and reports or orders that a full ring buffer refused, the cash and units of the
\* agents change hands only as a trade says (Agent.cpp:73-180, TradeDispatcher.cpp:13).
TheLedger == INSTANCE Ledger WITH
  Quantities <- 1..Lot,
  Payments <- {Cents(p) : p \in LimitPrices \union (-1 .. MaxLevel + 1)},
  cash <- [a \in Agents |-> Settled(a).available + Settled(a).reserved],
  units <- [a \in Agents |-> Settled(a).units + Offered(a)]

ImplementsLedger == TheLedger!Spec

\* What an agent has reserved pays for all its open buy orders. Releasing at the
\* price of the opposite order may leave too much reserved, never too little, as
\* long as prices are on the grid (Agent.cpp:137-143, 160-164, 173-178).
ReservedCovers ==
  \A a \in Agents : Settled(a).reserved >= Committed(a)

\* A random agent looks at one unit, or at what one costs, and sends an order for
\* Lot, on a balance that the incoming thread changes meanwhile. It may get into
\* debt, but by no more than the Lot - 1 units it did not look at, however many
\* orders it sends; the other agents never do
\* (AgentStrategy.cpp:43-44, 156, 174, 240-246, Agent.cpp:73-101).
DebtIsBounded ==
  \A a \in Agents :
    LET free == Settled(a).available + Settled(a).reserved - Committed(a)
    IN /\ account[a].units >= IF a \in RandomAgents THEN 1 - Lot ELSE 0
       /\ \/ free >= 0
          \/ a \in RandomAgents /\ \E p \in LimitPrices : free >= (1 - Lot) * Cents(p)

-----------------------------------------------------------------------------
(* A claim that the code does not keep                                     *)

\* An agent keeps track of its active orders: once no order of it is anywhere in the
\* engine and it has read its mail, it has none.
ActiveOrdersTracked ==
  \A a \in Agents :
    /\ inbox[a] = <<>> /\ lost[a] = <<>>
    /\ \A sd \in Sides : InEngine(a, sd) = {} /\ Waiting(orders, a, sd) = {}
                           /\ Waiting(dropped, a, sd) = {} /\ Waiting(outgoing, a, sd) = {}
    => active[a] = {}

=============================================================================
