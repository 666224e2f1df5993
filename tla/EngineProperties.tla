-------------------------- MODULE EngineProperties --------------------------
(***************************************************************************)
(* What must hold of the matching engine and its book, and the refinement  *)
(* of PriceTimeBook.                                                       *)
(***************************************************************************)
EXTENDS MatchingEngine

Queued == {orders[k] : k \in DOMAIN orders}
InHand == {cur, cxl} \ {NoSlot}

\* Nodes, links and ring buffer hold what their declarations say. Quantities are
\* unsigned, so that no fill takes more than is left (Order.h:64-72, OrderPool.h:33-52).
TypeOK ==
  /\ NodesTypeOK /\ LinksTypeOK
  /\ orders \in Seq(Slots)
  /\ Len(orders) <= QueueCap
  /\ counter \in Nat
  /\ cur \in SlotOrNone
  /\ cxl \in SlotOrNone
  /\ dropped \subseteq Slots
  /\ crashed \in BOOLEAN

-----------------------------------------------------------------------------
(* Safety                                                                  *)

\* Every node of the pool has exactly one holder: the free list, the ring
\* buffer, the engine, the book, or nobody after a failed Push. No order is
\* recycled while somebody holds it and none is recycled twice
\* (OrderPool.h:38-52, Orderbook.cpp:156, MatchingEngine.cpp:52, 67, 85, 90).
NodesHaveOneHolder ==
  /\ Slots = free \union Queued \union InHand \union Resting \union dropped
  /\ free \intersect (Queued \union InHand \union Resting \union dropped) = {}
  /\ Queued \intersect (InHand \union Resting \union dropped) = {}
  /\ InHand \intersect (Resting \union dropped) = {}
  /\ Resting \intersect dropped = {}
  /\ cur = NoSlot \/ cxl = NoSlot
  /\ \A k, m \in DOMAIN orders : orders[k] = orders[m] => k = m

\* The best bid is below the best ask. They meet on one level only where the
\* computed price of the level is not the double the agents send, or on a level
\* of the edge that holds nothing but clamped asks (bids) priced beyond it
\* (MatchingEngine.cpp:45-46, 60-61, Orderbook.cpp:71-92).
RestingAt(sd, l) == {s \in Resting : order[s].side = sd /\ LevelOf(s) = l}

BookNotCrossed ==
  best["Buy"] # NoLevel /\ best["Sell"] # NoLevel =>
    \/ best["Buy"] < best["Sell"]
    \/ /\ best["Buy"] = best["Sell"]
       /\ \/ best["Buy"] \in RoundsUp \union RoundsDown
          \/ \A s \in RestingAt("Sell", best["Sell"]) : order[s].price > MaxLevel
          \/ \A s \in RestingAt("Buy", best["Buy"]) : order[s].price < 0

\* Nobody trades at a price worse than its own limit, as long as the trade is
\* struck at a price of the grid: the buyer's limit is the price in the copy
\* the seller is given, and the other way round (Orderbook.cpp:232-254).
WithinLimit(t, limit) ==
  t.orderType = "LIMIT" =>
    IF t.side = "Buy" THEN t.price <= limit ELSE t.price >= limit

TradesWithinLimits ==
  \A t, u \in trades :
    t.side # u.side /\ t.price \in Levels => WithinLimit(t, u.other.price)

\* Ids are unique and the map knows only those given out: a resting order has
\* quantity left, the order being matched has the newest id, which is not in the
\* map yet, and the engine's own cancel is aimed at the market order it has just
\* added (MatchingEngine.cpp:10, 73-105, Orderbook.cpp:119).
NumberedOrders ==
  /\ MapIsSound
  /\ \A i \in DOMAIN orderMap : i <= counter
  /\ \A s \in Resting : rem[s] > 0 /\ order[s].type # "CANCEL"
  /\ cur # NoSlot =>
       /\ order[cur].id = counter
       /\ counter \notin DOMAIN orderMap
       /\ order[cur].type # "CANCEL"
  /\ cxl # NoSlot =>
       /\ order[cxl].id \in DOMAIN orderMap
       /\ order[cxl].side = order[orderMap[order[cxl].id]].side
       /\ order[cxl].price = order[orderMap[order[cxl].id]].price
       /\ order[orderMap[order[cxl].id]].type = "MARKET"

-----------------------------------------------------------------------------
(* Liveness                                                                *)

\* An order in the ring buffer ends up resting in the book or back in the pool:
\* the engine neither spins on an order nor forgets one, unless the pool is
\* exhausted (MatchingEngine.cpp:8-13, 37-86).
OrdersSettle ==
  \A s \in Slots : s \in Queued ~> (s \in Resting \union free \/ crashed)

-----------------------------------------------------------------------------
(* Price-time priority                                                     *)

Abstract(s) ==
  [id |-> order[s].id, type |-> order[s].type, client |-> order[s].client,
   side |-> order[s].side, price |-> order[s].price, qty |-> rem[s]]

\* A market order that waits in the book for its cancel is still the taker.
Expiring == IF cxl = NoSlot THEN NoSlot ELSE orderMap[order[cxl].id]

AbstractBook == {Abstract(s) : s \in Resting \ {Expiring}}
AbstractTaker ==
  IF cur # NoSlot THEN Abstract(cur) ELSE IF cxl # NoSlot THEN Abstract(Expiring) ELSE NoSlot

\* No order is taken for the absence of one.
ASSUME NoOrderAssumption ==
  NoSlot \notin [id : Nat, type : OrderTypes, client : Clients, side : Sides,
                 price : AllPrices, qty : Nat]

PriceTime == INSTANCE PriceTimeBook WITH
  NoTaker <- NoSlot,
  book <- AbstractBook,
  taker <- AbstractTaker,
  lastId <- counter,
  reports <- trades

\* Lists, bitmaps, cached levels and the map together give each order what the
\* set of resting orders alone would: it trades with the best level first, the
\* oldest order of it first, as long as it can, and is reported once
\* (MatchingEngine.cpp:37-91, Orderbook.cpp:159-259).
ImplementsPriceTime == PriceTime!Spec

-----------------------------------------------------------------------------
(* Claims that the code does not keep                                      *)

\* Once the engine has taken a cancel order from the ring buffer, the order
\* whose id the agent put into it is no longer in the book.
CancelHonoured ==
  [][ \A i \in 1..counter :
        Idle /\ orders # <<>> /\ orders' = Tail(orders)
          /\ order[Head(orders)].type = "CANCEL" /\ order[Head(orders)].id = i
        => i \notin DOMAIN orderMap' ]_vars

=============================================================================
