------------------------------ MODULE Orderbook ------------------------------
(***************************************************************************)
(* The L3 limit order book of Orderbook.cpp over the Order objects of the  *)
(* OrderPool: per side and price level a doubly linked FIFO list threaded  *)
(* through the orders themselves, a bitmap of the non-empty levels, the    *)
(* cached best level of each side and the map from order id to pool slot.  *)
(*                                                                         *)
(* Every method of the class is an action operator here; MatchingEngine    *)
(* calls them from its own actions. Which free node allocate() returns is  *)
(* left open; the values of fields nobody has set are never read.          *)
(***************************************************************************)
EXTENDS Prices, FiniteSets

CONSTANTS
  Slots,       \* the nodes of the OrderPool
  NoSlot,      \* a PoolIndex of -1: no order
  Clients,     \* client references of the agents
  LimitPrices, \* prices of limit orders; may lie outside Levels
  Quantities   \* order quantities

ASSUME SlotAssumption == NoSlot \notin Slots
ASSUME ClientAssumption == Clients # {}
ASSUME PriceAssumption == LimitPrices \subseteq Int
ASSUME QuantityAssumption == Quantities \subseteq Nat

VARIABLES
  order,     \* the fields of each pool node that matching leaves alone
  rem,       \* remainingQuantity_ of each node
  prev,      \* prev_: towards the head, the older order
  next,      \* next_: towards the tail, the newer order
  free,      \* the nodes on the pool's free list
  head,      \* head_ of each PriceLevel of bids_ and asks_
  tail,      \* tail_ of each PriceLevel
  bits,      \* the levels whose bit is set in bids_bitmap_, asks_bitmap_
  best,      \* bestBidIndex_, bestAskIndex_
  orderMap,  \* orderMap_, from order id to pool slot
  trades     \* the TradeInfos this step handed to the agents

listVars == <<prev, next, head, tail>>
levelVars == <<bits, best>>
bookVars == <<listVars, levelVars, orderMap>>

-----------------------------------------------------------------------------
(* Orders                                                                  *)

SlotOrNone == Slots \union {NoSlot}

OrderTypes == {"LIMIT", "MARKET", "CANCEL"}
AllPrices == LimitPrices \union {MarketPrice(sd) : sd \in Sides}

\* What the agents and the engine set in a node, but for the quantity left.
OrderData ==
  [id : Nat, type : OrderTypes, client : Clients, side : Sides, price : AllPrices]

LevelOf(s) == PriceToIndex(order[s].price)

-----------------------------------------------------------------------------
(* Trades                                                                  *)

\* What PushTradeInfo hands to the agent that owns s: `type` is the
\* ExecutionType, `other` the copy of the opposite order.
TradeInfo(s, p, q, other, exec) ==
  [orderId |-> order[s].id, orderType |-> order[s].type,
   clientRef |-> order[s].client, side |-> order[s].side, price |-> p,
   quantity |-> q, other |-> other, type |-> exec]

OrderCopy(s) == [id |-> order[s].id, price |-> order[s].price]

TradeInfos ==
  [orderId : Nat, orderType : OrderTypes, clientRef : Clients, side : Sides,
   price : AllPrices, quantity : Nat, other : [id : Nat, price : AllPrices],
   type : {"CANCEL", "PARTIAL", "FULL"}]

-----------------------------------------------------------------------------
(* The bitmaps and the cached best levels                                  *)

\* The level the scan of clearBidBit (clearAskBit) finds: the highest (lowest)
\* bit that is set.
Extreme(sd, S) == CHOOSE l \in S : \A m \in S : ~Better(sd, m, l)

SetBit(sd, l) ==
  /\ bits' = [bits EXCEPT ![sd] = @ \union {l}]
  /\ best' = IF best[sd] = NoLevel \/ Better(sd, l, best[sd])
               THEN [best EXCEPT ![sd] = l]
               ELSE best

\* Mutant: the best level is left alone.
ClearBitOnly(sd, l) ==
  /\ bits' = [bits EXCEPT ![sd] = @ \ {l}]
  /\ UNCHANGED best

ClearBit(sd, l) ==
  LET left == bits[sd] \ {l}
  IN /\ bits' = [bits EXCEPT ![sd] = left]
     /\ best' = IF l = best[sd]
                  THEN [best EXCEPT ![sd] = IF left = {} THEN NoLevel ELSE Extreme(sd, left)]
                  ELSE best

-----------------------------------------------------------------------------
(* The pool                                                                *)

Deallocate(S) == free' = free \union S

-----------------------------------------------------------------------------
(* The book                                                                *)

\* Mutant: the id stays in the map.
EraseNothing(i) == orderMap

\* orderMap_.insert and orderMap_.erase.
Insert(i, s) == [j \in DOMAIN orderMap \union {i} |-> IF j = i THEN s ELSE orderMap[j]]
Erase(i) == [j \in DOMAIN orderMap \ {i} |-> orderMap[j]]

AddOrder(s) ==
  LET sd == order[s].side
      l  == LevelOf(s)
      t  == tail[sd][l]
  IN /\ \/ /\ head[sd][l] # NoSlot
           /\ prev' = [prev EXCEPT ![s] = t]
           /\ next' = [next EXCEPT ![s] = NoSlot, ![t] = s]
           /\ tail' = [tail EXCEPT ![sd][l] = s]
           /\ UNCHANGED <<head, levelVars>>
        \/ /\ head[sd][l] = NoSlot
           /\ head' = [head EXCEPT ![sd][l] = s]
           /\ tail' = [tail EXCEPT ![sd][l] = s]
           /\ prev' = [prev EXCEPT ![s] = NoSlot]
           /\ next' = [next EXCEPT ![s] = NoSlot]
           /\ SetBit(sd, l)
     /\ orderMap' = Insert(order[s].id, s)

\* Mutant: the tail of the level is not moved off the order that leaves.
UnlinkHeadOnly(s) ==
  LET sd == order[s].side
      l  == LevelOf(s)
  IN /\ next' = IF prev[s] # NoSlot THEN [next EXCEPT ![prev[s]] = next[s]] ELSE next
     /\ prev' = IF next[s] # NoSlot THEN [prev EXCEPT ![next[s]] = prev[s]] ELSE prev
     /\ head' = IF head[sd][l] = s THEN [head EXCEPT ![sd][l] = next[s]] ELSE head
     /\ IF head'[sd][l] = NoSlot THEN ClearBit(sd, l) ELSE UNCHANGED levelVars
     /\ orderMap' = Erase(order[s].id)
     /\ UNCHANGED tail

\* RemoveOrder up to its last line, which returns the slot to the pool.
Unlink(s) ==
  LET sd == order[s].side
      l  == LevelOf(s)
  IN /\ next' = IF prev[s] # NoSlot THEN [next EXCEPT ![prev[s]] = next[s]] ELSE next
     /\ prev' = IF next[s] # NoSlot THEN [prev EXCEPT ![next[s]] = prev[s]] ELSE prev
     /\ head' = IF head[sd][l] = s THEN [head EXCEPT ![sd][l] = next[s]] ELSE head
     /\ tail' = IF tail[sd][l] = s THEN [tail EXCEPT ![sd][l] = prev[s]] ELSE tail
     /\ IF head'[sd][l] = NoSlot THEN ClearBit(sd, l) ELSE UNCHANGED levelVars
     /\ orderMap' = Erase(order[s].id)

RemoveOrder(s) == Unlink(s) /\ Deallocate({s})

\* Mutant: the early return of the cancel that finds nothing keeps its node.
CancelOrderLeaks(c, request) ==
  \/ /\ request.id \notin DOMAIN orderMap
     /\ trades' = {}
     /\ UNCHANGED <<bookVars, free>>
  \/ /\ request.id \in DOMAIN orderMap
     /\ LET s == orderMap[request.id]
        IN /\ trades' = {}
           /\ Unlink(s)
           /\ Deallocate({s, c})

\* CancelOrder for the cancel order `request`. The other half of its Trade has
\* type CANCEL, which PushTradeInfo drops. MatchingEngine::CancelOrder returns
\* the node c of the cancel order itself to the pool right after.
CancelOrder(c, request) ==
  \/ /\ request.id \notin DOMAIN orderMap
     /\ trades' = {}
     /\ Deallocate({c})
     /\ UNCHANGED bookVars
  \/ /\ request.id \in DOMAIN orderMap
     /\ LET s == orderMap[request.id]
            copy == [id |-> request.id, price |-> request.price]
        IN /\ trades' = {[TradeInfo(s, order[s].price, rem[s], copy, "CANCEL")
                            EXCEPT !.side = request.side]}
           /\ Unlink(s)
           /\ Deallocate({s, c})

Execution(q, s) == IF rem[s] = q THEN "FULL" ELSE "PARTIAL"

\* Mutant: the newest order of the level is filled first.
FillOrderNewest(s, l) ==
  LET m == tail[Opposite(order[s].side)][l]
      q == IF rem[m] < rem[s] THEN rem[m] ELSE rem[s]
      p == order[m].price
  IN /\ rem' = [rem EXCEPT ![m] = @ - q, ![s] = @ - q]
     /\ trades' = {TradeInfo(s, p, q, OrderCopy(m), Execution(q, s)),
                   TradeInfo(m, p, q, OrderCopy(s), Execution(q, m))}
     /\ IF rem[m] = q THEN RemoveOrder(m) ELSE UNCHANGED <<bookVars, free>>

\* Mutant: all of the incoming order is filled by the first resting one.
FillOrderWhole(s, l) ==
  LET m == head[Opposite(order[s].side)][l]
      q == rem[s]
  IN /\ rem' = [rem EXCEPT ![m] = @ - q, ![s] = 0]
     /\ trades' = {}
     /\ IF rem[m] = q THEN RemoveOrder(m) ELSE UNCHANGED <<bookVars, free>>

\* FillOrder(s, l): s trades with the order at the head of level l of the
\* opposite side, at that order's price.
FillOrder(s, l) ==
  LET sd == order[s].side
      m  == head[Opposite(sd)][l]
      q  == IF rem[m] < rem[s] THEN rem[m] ELSE rem[s]
      p  == order[m].price
  IN /\ rem' = [rem EXCEPT ![m] = @ - q, ![s] = @ - q]
     /\ trades' = {TradeInfo(s, p, q, OrderCopy(m), Execution(q, s)),
                   TradeInfo(m, p, q, OrderCopy(s), Execution(q, m))}
     /\ IF rem[m] = q THEN RemoveOrder(m) ELSE UNCHANGED <<bookVars, free>>

-----------------------------------------------------------------------------
(* The state of an empty book over a full pool                             *)

\* The fields of a node nobody has allocated are uninitialised and never read.
AnyClient == CHOOSE c \in Clients : TRUE

BookInit ==
  /\ order = [s \in Slots |-> [id |-> 0, type |-> "LIMIT", client |-> AnyClient,
                               side |-> "Buy", price |-> 0]]
  /\ rem = [s \in Slots |-> 0]
  /\ prev = [s \in Slots |-> NoSlot]
  /\ next = [s \in Slots |-> NoSlot]
  /\ free = Slots
  /\ head = [sd \in Sides |-> [l \in Levels |-> NoSlot]]
  /\ tail = [sd \in Sides |-> [l \in Levels |-> NoSlot]]
  /\ bits = [sd \in Sides |-> {}]
  /\ best = [sd \in Sides |-> NoLevel]
  /\ orderMap = [i \in {} |-> NoSlot]
  /\ trades = {}

-----------------------------------------------------------------------------
(* What must hold of the book                                              *)

Resting == {orderMap[i] : i \in DOMAIN orderMap}

SameLevel(s, t) == order[s].side = order[t].side /\ LevelOf(s) = LevelOf(t)

NodesTypeOK ==
  /\ order \in [Slots -> OrderData]
  /\ rem \in [Slots -> Nat]
  /\ free \subseteq Slots
  /\ trades \subseteq TradeInfos

LinksTypeOK ==
  /\ prev \in [Slots -> SlotOrNone]
  /\ next \in [Slots -> SlotOrNone]
  /\ head \in [Sides -> [Levels -> SlotOrNone]]
  /\ tail \in [Sides -> [Levels -> SlotOrNone]]
  /\ bits \in [Sides -> SUBSET Levels]
  /\ best \in [Sides -> Levels \union {NoLevel}]
  /\ DOMAIN orderMap \subseteq Nat
  /\ orderMap \in [DOMAIN orderMap -> Slots]

\* The map leads from each id to the node that has it.
MapIsSound == \A i \in DOMAIN orderMap : order[orderMap[i]].id = i

\* The lists threaded through the nodes are the queues of the levels: a
\* resting order is linked both ways with the next older and the next newer
\* order of its own level, and is the head (the tail) exactly if there is no
\* older (newer) one. So the head is always the oldest order of its level,
\* also after a removal from the middle (Orderbook.cpp:94-157).
LinkedBack(s) ==
  IF prev[s] = NoSlot
    THEN head[order[s].side][LevelOf(s)] = s
    ELSE /\ prev[s] \in Resting
         /\ SameLevel(prev[s], s)
         /\ next[prev[s]] = s
         /\ order[prev[s]].id < order[s].id

LinkedForward(s) ==
  IF next[s] = NoSlot
    THEN tail[order[s].side][LevelOf(s)] = s
    ELSE /\ next[s] \in Resting
         /\ prev[next[s]] = s

EndsOfLevel(sd, l) ==
  IF head[sd][l] = NoSlot
    THEN tail[sd][l] = NoSlot
    ELSE /\ head[sd][l] \in Resting
         /\ order[head[sd][l]].side = sd /\ LevelOf(head[sd][l]) = l
         /\ prev[head[sd][l]] = NoSlot
         /\ tail[sd][l] \in Resting
         /\ order[tail[sd][l]].side = sd /\ LevelOf(tail[sd][l]) = l
         /\ next[tail[sd][l]] = NoSlot

LevelsAreQueues ==
  /\ \A s \in Resting : LinkedBack(s) /\ LinkedForward(s)
  /\ \A sd \in Sides, l \in Levels : EndsOfLevel(sd, l)

\* The bitmaps mark exactly the levels that hold an order, and the cached best
\* bid (ask) is the highest (lowest) of them, or invalid without any: a stale
\* best level would have FillOrder take the head of an empty list
\* (Orderbook.cpp:17-55, 212-213).
BestIsExact ==
  \A sd \in Sides :
    /\ bits[sd] = {l \in Levels : head[sd][l] # NoSlot}
    /\ IF bits[sd] = {}
         THEN best[sd] = NoLevel
         ELSE best[sd] \in bits[sd] /\ \A l \in bits[sd] : ~Better(sd, l, best[sd])

=============================================================================
