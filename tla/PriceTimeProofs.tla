--------------------------- MODULE PriceTimeProofs ---------------------------
(***************************************************************************)
(* What the clients of the engine see: nobody trades beyond its limit on   *)
(* the grid, the best bid stays below the best ask, and every step of the  *)
(* engine is a step of PriceTimeBook or leaves what the clients see as it  *)
(* is, for any number of nodes, levels, clients and orders.                *)
(***************************************************************************)
EXTENDS MatchingEngineProofs

\* A step that leaves the book, and the order being matched, as they are.
Quiet ==
  /\ trades' = {}
  /\ UNCHANGED <<bookVars, counter, cur, cxl>>
  /\ \A x \in Resting \union InHand : order'[x] = order[x] /\ rem'[x] = rem[x]

LEMMA PoolExhaustedIsQuiet ==
  ASSUME PoolExhausted
  PROVE  Quiet
BY DEF PoolExhausted, Quiet, engineVars

LEMMA AllocateElsewhere ==
  ASSUME IInv, NEW s \in free, NEW data, NEW q, Allocate(s, data, q)
  PROVE  \A x \in Resting \union InHand \union Queued : order'[x] = order[x] /\ rem'[x] = rem[x]
<1>1. s \notin Resting \union InHand \union Queued
  BY Parts DEF NodesHaveOneHolder
<1> QED BY <1>1, Parts DEF Allocate

LEMMA SubmitIsQuiet ==
  ASSUME IInv, NEW data, NEW q, Submit(data, q)
  PROVE  Quiet
<1>1. CASE PoolExhausted
  BY <1>1, PoolExhaustedIsQuiet
<1>2. CASE ~PoolExhausted
  <2>1. PICK s \in free : Allocate(s, data, q)
    BY <1>2 DEF Submit
  <2>2. trades' = {} /\ UNCHANGED <<bookVars, engineVars>>
    BY <1>2 DEF Submit
  <2> QED BY <2>1, <2>2, AllocateElsewhere DEF Quiet, engineVars
<1> QED BY <1>1, <1>2

LEMMA AgentStepIsQuiet ==
  ASSUME IInv, AgentStep
  PROVE  Quiet
BY SubmitIsQuiet DEF AgentStep, SubmitLimit, SubmitMarket, SubmitCancel

-----------------------------------------------------------------------------
(* What each step of the engine does to the book                           *)

LEMMA HeadOfQueue ==
  ASSUME IInv, orders # <<>>
  PROVE  /\ Head(orders) \in Queued
         /\ Head(orders) \in Slots
         /\ Head(orders) \notin free \union InHand \union Resting \union dropped
<1>1. orders \in Seq(Slots)
  BY Parts DEF TypeOK
<1>2. Head(orders) = orders[1] /\ 1 \in DOMAIN orders
  BY <1>1
<1> QED BY <1>2, Parts DEF Queued, NodesHaveOneHolder

LEMMA PopOrderEffect ==
  ASSUME IInv, PopOrder
  PROVE  LET h == Head(orders)
         IN /\ h \in Queued /\ h \in Slots /\ h \notin Resting
            /\ order[h].type # "CANCEL"
            /\ order'[h] = [order[h] EXCEPT !.id = counter + 1]
            /\ cur = NoSlot /\ cxl = NoSlot /\ cur' = h /\ cxl' = NoSlot
            /\ counter' = counter + 1 /\ trades' = {}
            /\ rem' = rem /\ UNCHANGED bookVars
            /\ \A x \in Resting : order'[x] = order[x]
<1>1. /\ Idle /\ orders # <<>> /\ order[Head(orders)].type # "CANCEL"
      /\ counter' = counter + 1
      /\ order' = [order EXCEPT ![Head(orders)].id = counter + 1]
      /\ cur' = Head(orders) /\ trades' = {}
      /\ UNCHANGED <<rem, bookVars, cxl>>
  BY DEF PopOrder
<1>2. Head(orders) \in Queued /\ Head(orders) \in Slots /\ Head(orders) \notin Resting
  BY <1>1, HeadOfQueue
<1> QED BY <1>1, <1>2, Parts DEF Idle

\* The id the engine gives a cancel order is not in the map: nothing is
\* cancelled (MatchingEngine.cpp:10).
LEMMA PopCancelEffect ==
  ASSUME IInv, PopCancel
  PROVE  /\ cur = NoSlot /\ cxl = NoSlot /\ cur' = NoSlot /\ cxl' = NoSlot
         /\ counter' = counter + 1 /\ trades' = {}
         /\ rem' = rem /\ UNCHANGED bookVars
         /\ \A x \in Resting : order'[x] = order[x]
<1> DEFINE h == Head(orders)
           request == [order[h] EXCEPT !.id = counter + 1]
<1>1. /\ Idle /\ orders # <<>>
      /\ counter' = counter + 1
      /\ order' = [order EXCEPT ![h].id = counter + 1]
      /\ CancelOrder(h, request)
      /\ UNCHANGED <<rem, cur, cxl>>
  BY DEF PopCancel
<1>2. h \in Slots /\ h \notin Resting
  BY <1>1, HeadOfQueue
<1>3. request.id = counter + 1
  <2>1. order[h] \in OrderData
    BY <1>2, Parts
  <2> QED BY <2>1 DEF OrderData
<1> HIDE DEF h, request
<1>4. request.id \notin DOMAIN orderMap
  <2>1. DOMAIN orderMap \subseteq Nat /\ \A i \in DOMAIN orderMap : i <= counter
    BY Parts DEF LinksTypeOK, NumberedOrders
  <2> QED BY <1>3, <2>1, Parts
<1>5. trades' = {} /\ UNCHANGED bookVars
  BY <1>1, <1>4 DEF CancelOrder
<1> QED BY <1>1, <1>2, <1>5, Parts DEF Idle

\* FillOrder trades with the oldest order of the best level.
LEMMA FillEffect ==
  ASSUME IInv, Fill
  PROVE  \E m \in Resting :
           LET q == IF rem[m] < rem[cur] THEN rem[m] ELSE rem[cur]
           IN /\ cur \in Slots /\ cur # NoSlot /\ cxl = NoSlot /\ cur \notin Resting
              /\ m = head[Opposite(order[cur].side)][Opposing]
              /\ order[m].side = Opposite(order[cur].side)
              /\ LevelOf(m) = Opposing /\ CanFill
              /\ rem' = [rem EXCEPT ![m] = @ - q, ![cur] = @ - q]
              /\ trades' = {TradeInfo(cur, order[m].price, q, OrderCopy(m), Execution(q, cur)),
                            TradeInfo(m, order[m].price, q, OrderCopy(cur), Execution(q, m))}
              /\ Resting' = IF rem[m] = q THEN Resting \ {m} ELSE Resting
              /\ UNCHANGED <<order, counter, cur, cxl>>
<1>1. /\ cur # NoSlot /\ CanFill /\ FillOrder(cur, Opposing)
      /\ UNCHANGED <<order, counter, cur, cxl>>
  BY DEF Fill, engineVars
<1> DEFINE m == head[Opposite(order[cur].side)][Opposing]
           q == IF rem[m] < rem[cur] THEN rem[m] ELSE rem[cur]
<1>2. /\ rem' = [rem EXCEPT ![m] = @ - q, ![cur] = @ - q]
      /\ trades' = {TradeInfo(cur, order[m].price, q, OrderCopy(m), Execution(q, cur)),
                    TradeInfo(m, order[m].price, q, OrderCopy(cur), Execution(q, m))}
      /\ \/ rem[m] = q /\ Unlink(m)
         \/ rem[m] # q /\ UNCHANGED bookVars
  BY <1>1 DEF FillOrder, RemoveOrder
<1>3. /\ m \in Resting /\ order[m].side = Opposite(order[cur].side) /\ LevelOf(m) = Opposing
  BY <1>1, MatchedOrder DEF CanFill
<1>4. cur \in Slots /\ cxl = NoSlot /\ cur \notin Resting
  BY <1>1, Parts DEF TypeOK, SlotOrNone, NodesHaveOneHolder, InHand
<1> HIDE DEF m, q
<1>5. Resting' = IF rem[m] = q THEN Resting \ {m} ELSE Resting
  <2>1. CASE rem[m] = q
    BY <1>1, <1>2, <1>3, <2>1, UnlinkKeepsBook, Parts
  <2>2. CASE rem[m] # q
    BY <1>2, <2>2 DEF bookVars, Resting
  <2> QED BY <2>1, <2>2
<1> QED BY <1>1, <1>2, <1>3, <1>4, <1>5 DEF m, q

LEMMA OrderInHand ==
  ASSUME IInv, cur # NoSlot
  PROVE  /\ cur \in Slots /\ cxl = NoSlot /\ cur \notin Resting
         /\ order[cur].id = counter /\ counter \notin DOMAIN orderMap
         /\ \A i \in DOMAIN orderMap : i < order[cur].id
<1>1. /\ cur \in Slots /\ cxl = NoSlot /\ cur \notin Resting
      /\ order[cur].id = counter /\ counter \notin DOMAIN orderMap
      /\ \A i \in DOMAIN orderMap : i <= counter
  BY Parts DEF TypeOK, SlotOrNone, NodesHaveOneHolder, InHand, NumberedOrders
<1>2. DOMAIN orderMap \subseteq Nat
  BY Parts DEF LinksTypeOK
<1> QED BY <1>1, <1>2, Parts

LEMMA RestEffect ==
  ASSUME IInv, Rest
  PROVE  /\ cur # NoSlot /\ cur' = NoSlot /\ cxl = NoSlot /\ cxl' = NoSlot
         /\ order[cur].type = "LIMIT" /\ rem[cur] > 0 /\ ~CanFill
         /\ Resting' = Resting \union {cur} /\ trades' = {}
         /\ UNCHANGED <<order, rem, counter>>
<1>1. /\ cur # NoSlot /\ order[cur].type = "LIMIT" /\ rem[cur] > 0 /\ ~CanFill
      /\ AddOrder(cur) /\ cur' = NoSlot /\ trades' = {}
      /\ UNCHANGED <<order, rem, counter, cxl>>
  BY DEF Rest
<1>2. /\ cur \in Slots /\ cxl = NoSlot /\ cur \notin Resting
      /\ \A i \in DOMAIN orderMap : i < order[cur].id
  BY <1>1, OrderInHand
<1>3. Resting' = Resting \union {cur}
  BY <1>1, <1>2, AddOrderKeepsBook, Parts
<1> QED BY <1>1, <1>2, <1>3

LEMMA MarketRestEffect ==
  ASSUME IInv, MarketRest, ~PoolExhausted
  PROVE  /\ cur # NoSlot /\ cur' = NoSlot /\ cxl = NoSlot
         /\ order[cur].type = "MARKET" /\ rem[cur] > 0 /\ ~CanFill
         /\ cxl' \in Slots /\ cxl' \notin Resting \union {cur}
         /\ order'[cxl'] = [order[cur] EXCEPT !.type = "CANCEL"]
         /\ Resting' = Resting \union {cur} /\ orderMap'[order[cur].id] = cur
         /\ \A x \in Resting \union {cur} : order'[x] = order[x] /\ rem'[x] = rem[x]
         /\ trades' = {} /\ counter' = counter
<1>1. PICK c \in free :
          /\ cur # NoSlot /\ order[cur].type = "MARKET" /\ rem[cur] > 0 /\ ~CanFill
          /\ Allocate(c, [order[cur] EXCEPT !.type = "CANCEL"], 0)
          /\ cxl' = c /\ AddOrder(cur) /\ cur' = NoSlot /\ trades' = {}
          /\ UNCHANGED counter
  BY DEF MarketRest
<1>2. /\ cur \in Slots /\ cxl = NoSlot /\ cur \notin Resting
      /\ \A i \in DOMAIN orderMap : i < order[cur].id
  BY <1>1, OrderInHand
<1>3. c \in Slots /\ c \notin Resting \union {cur}
  BY <1>1, Parts DEF NodesHaveOneHolder, NodesTypeOK, InHand
<1>4. order'[c] = [order[cur] EXCEPT !.type = "CANCEL"]
  BY <1>1, <1>3, Parts DEF Allocate
<1>5. \A x \in Resting \union {cur} : order'[x] = order[x] /\ rem'[x] = rem[x]
  BY <1>1, <1>2, <1>3, Parts DEF Allocate
<1>6. Resting' = Resting \union {cur} /\ orderMap'[order[cur].id] = cur
  BY <1>1, <1>2, <1>5, AddOrderKeepsBook, Parts
<1> QED BY <1>1, <1>2, <1>3, <1>4, <1>5, <1>6

\* The cancel of a resting order s, from CancelOrder(c, request).
LEMMA CancelEffect ==
  ASSUME IInv, NEW c \in Slots, NEW request \in OrderData,
         \A x \in Resting : order'[x] = order[x],
         request.id \in DOMAIN orderMap,
         CancelOrder(c, request)
  PROVE  LET s == orderMap[request.id]
             copy == [id |-> request.id, price |-> request.price]
         IN /\ s \in Resting /\ order[s].id = request.id
            /\ Resting' = Resting \ {s}
            /\ trades' = {[TradeInfo(s, order[s].price, rem[s], copy, "CANCEL")
                             EXCEPT !.side = request.side]}
<1>1. orderMap[request.id] \in Resting /\ order[orderMap[request.id]].id = request.id
  BY Parts DEF Resting, MapIsSound
<1>2. Resting' = Resting \ {orderMap[request.id]}
  BY CancelOrderKeepsBook
<1> QED BY <1>1, <1>2 DEF CancelOrder

LEMMA MarketCancelEffect ==
  ASSUME IInv, MarketCancel
  PROVE  LET s == orderMap[order[cxl].id]
             copy == [id |-> order[cxl].id, price |-> order[cxl].price]
         IN /\ cxl # NoSlot /\ cxl' = NoSlot /\ cur = NoSlot /\ cur' = NoSlot
            /\ s \in Resting /\ order[s].id = order[cxl].id /\ order[s].type = "MARKET"
            /\ order[s].side = order[cxl].side /\ order[s].price = order[cxl].price
            /\ Resting' = Resting \ {s}
            /\ trades' = {[TradeInfo(s, order[s].price, rem[s], copy, "CANCEL")
                             EXCEPT !.side = order[cxl].side]}
            /\ UNCHANGED <<order, rem, counter>>
<1>1. /\ cxl # NoSlot /\ CancelOrder(cxl, order[cxl]) /\ cxl' = NoSlot
      /\ UNCHANGED <<order, rem, counter, cur>>
  BY DEF MarketCancel
<1>2. /\ cxl \in Slots /\ cur = NoSlot
      /\ order[cxl] \in OrderData /\ order[cxl].id \in DOMAIN orderMap
      /\ order[cxl].side = order[orderMap[order[cxl].id]].side
      /\ order[cxl].price = order[orderMap[order[cxl].id]].price
      /\ order[orderMap[order[cxl].id]].type = "MARKET"
  BY <1>1, Parts DEF TypeOK, SlotOrNone, NumberedOrders, NodesHaveOneHolder
<1> QED BY <1>1, <1>2, CancelEffect

LEMMA CompleteEffect ==
  ASSUME IInv, Complete
  PROVE  /\ cur # NoSlot /\ cur' = NoSlot /\ cxl = NoSlot /\ cxl' = NoSlot
         /\ rem[cur] = 0 /\ trades' = {}
         /\ UNCHANGED <<order, rem, bookVars, counter>>
BY OrderInHand DEF Complete

-----------------------------------------------------------------------------
(* ProcessOrder called directly                                            *)

LEMMA DirectSubmitEffect ==
  ASSUME IInv, NEW type, NEW c, NEW sd, NEW p, NEW q,
         DirectSubmit(type, c, sd, p, q), ~PoolExhausted
  PROVE  /\ cur = NoSlot /\ cxl = NoSlot /\ cxl' = NoSlot
         /\ cur' \in Slots \ Resting
         /\ order'[cur'] = Request(counter + 1, type, c, sd, p) /\ rem'[cur'] = q
         /\ counter' = counter + 1 /\ trades' = {} /\ UNCHANGED bookVars
         /\ \A x \in Resting : order'[x] = order[x] /\ rem'[x] = rem[x]
<1>1. PICK s \in free : /\ Idle /\ Allocate(s, Request(counter + 1, type, c, sd, p), q)
                        /\ cur' = s /\ counter' = counter + 1 /\ trades' = {}
                        /\ UNCHANGED <<bookVars, cxl>>
  BY DEF DirectSubmit
<1>2. s \in Slots /\ s \notin Resting
  BY <1>1, Parts DEF NodesHaveOneHolder, NodesTypeOK
<1>3. \A x \in Resting : order'[x] = order[x] /\ rem'[x] = rem[x]
  BY <1>1, AllocateElsewhere
<1> QED BY <1>1, <1>2, <1>3, Parts DEF Idle, Allocate

LEMMA DirectCancelEffect ==
  ASSUME IInv, NEW i \in Nat, NEW c \in Clients, NEW sd \in Sides, NEW p \in AllPrices,
         DirectCancel(i, c, sd, p)
  PROVE  \/ Quiet
         \/ \E s \in Resting :
              /\ cur = NoSlot /\ cxl = NoSlot /\ UNCHANGED <<cur, cxl, counter>>
              /\ Resting' = Resting \ {s}
              /\ trades' = {TradeInfo(s, order[s].price, rem[s], OrderCopy(s), "CANCEL")}
              /\ \A x \in Resting : order'[x] = order[x] /\ rem'[x] = rem[x]
<1>1. CASE PoolExhausted
  BY <1>1, PoolExhaustedIsQuiet
<1>2. CASE ~PoolExhausted
  <2> DEFINE data == Request(i, "CANCEL", c, sd, p)
  <2>1. PICK n \in free :
          /\ Idle
          /\ order' = [order EXCEPT ![n] = data]
          /\ rem' = [rem EXCEPT ![n] = 0]
          /\ CancelOrder(n, data)
          /\ UNCHANGED <<counter, cur, cxl>>
    BY <1>2 DEF DirectCancel, engineVars
  <2>2. n \in Slots /\ n \notin Resting /\ n \notin InHand
    BY <2>1, Parts DEF NodesHaveOneHolder, NodesTypeOK
  <2>3. \A x \in Resting \union InHand : order'[x] = order[x] /\ rem'[x] = rem[x]
    BY <2>1, <2>2, Parts
  <2>4. /\ data \in OrderData /\ data.id = i /\ data.side = sd /\ data.price = p
    BY DEF Request, OrderData, OrderTypes
  <2>5. CASE i \notin DOMAIN orderMap
    <3>1. trades' = {} /\ UNCHANGED bookVars
      BY <2>1, <2>4, <2>5 DEF CancelOrder
    <3> QED BY <2>1, <2>3, <3>1 DEF Quiet
  <2>6. CASE i \in DOMAIN orderMap
    <3> DEFINE s == orderMap[i]
               info == TradeInfo(s, order[s].price, rem[s], [id |-> i, price |-> p], "CANCEL")
    <3>1. sd = order[s].side /\ p = order[s].price
      BY <2>6 DEF DirectCancel
    <3>2. /\ s \in Resting /\ order[s].id = i
          /\ Resting' = Resting \ {s}
          /\ trades' = {[info EXCEPT !.side = sd]}
      <4> HIDE DEF data
      <4> QED BY <2>1, <2>2, <2>3, <2>4, <2>6, CancelEffect
    <3>3. [info EXCEPT !.side = sd] = info
      BY <3>1 DEF TradeInfo
    <3>4. info = TradeInfo(s, order[s].price, rem[s], OrderCopy(s), "CANCEL")
      BY <3>1, <3>2 DEF OrderCopy
    <3> HIDE DEF s, info
    <3>5. trades' = {TradeInfo(s, order[s].price, rem[s], OrderCopy(s), "CANCEL")}
      BY <3>2, <3>3, <3>4
    <3> QED BY <2>1, <2>3, <3>2, <3>5 DEF Idle
  <2> QED BY <2>5, <2>6
<1> QED BY <1>1, <1>2

-----------------------------------------------------------------------------
(* Limits                                                                  *)

LEMMA FillWithinLimits ==
  ASSUME IInv, Fill
  PROVE  TradesWithinLimits'
<1>1. PICK m \in Resting :
        /\ cur \in Slots /\ LevelOf(m) = Opposing /\ CanFill
        /\ order[m].side = Opposite(order[cur].side)
        /\ \E q \in Nat :
             trades' = {TradeInfo(cur, order[m].price, q, OrderCopy(m), Execution(q, cur)),
                        TradeInfo(m, order[m].price, q, OrderCopy(cur), Execution(q, m))}
  <2>1. \A m \in Resting : rem[m] \in Nat
    BY Parts
  <2>2. cur \in Slots => rem[cur] \in Nat
    BY Parts
  <2> QED BY <2>1, <2>2, FillEffect
<1> DEFINE p == order[m].price
           limit == order[cur].price
<1>2. PICK q \in Nat :
        trades' = {TradeInfo(cur, p, q, OrderCopy(m), Execution(q, cur)),
                   TradeInfo(m, p, q, OrderCopy(cur), Execution(q, m))}
  BY <1>1
<1>3. p \in Int /\ limit \in Int /\ order[cur].side \in Sides
  BY <1>1, Parts, OrderFields, AllPricesAreInts
<1>4. p \in Levels /\ order[cur].type = "LIMIT" =>
        IF order[cur].side = "Buy" THEN p <= limit ELSE p >= limit
  <2> SUFFICES ASSUME p \in Levels, order[cur].type = "LIMIT"
               PROVE  IF order[cur].side = "Buy" THEN p <= limit ELSE p >= limit
    OBVIOUS
  <2>1. Opposing = p
    BY <1>1, LevelAssumption DEF LevelOf, PriceToIndex, Levels
  <2>2. ~OutOfReach(order[cur].side, p, limit)
    BY <1>1, <2>1 DEF CanFill
  <2> QED BY <1>3, <2>2 DEF OutOfReach, IndexPriceAbove, IndexPriceBelow
<1> DEFINE t1 == TradeInfo(cur, p, q, OrderCopy(m), Execution(q, cur))
           t2 == TradeInfo(m, p, q, OrderCopy(cur), Execution(q, m))
<1>5. /\ t1.orderType = order[cur].type /\ t1.side = order[cur].side
      /\ t1.price = p /\ t1.other.price = p
      /\ t2.side = Opposite(order[cur].side) /\ t2.price = p /\ t2.other.price = limit
  BY <1>1 DEF TradeInfo, OrderCopy
<1> HIDE DEF t1, t2, p, limit
<1>6. ASSUME NEW t \in {t1, t2}, NEW u \in {t1, t2}, t.side # u.side, t.price \in Levels
      PROVE  WithinLimit(t, u.other.price)
  <2>1. CASE t = t1 /\ u = t2
    BY <1>4, <1>5, <1>6, <2>1 DEF WithinLimit
  <2>2. CASE t = t2 /\ u = t1
    BY <1>3, <1>5, <2>2 DEF WithinLimit
  <2> QED BY <1>6, <2>1, <2>2
<1> QED BY <1>2, <1>6 DEF TradesWithinLimits, WithinLimit, t1, t2, p, limit

LEMMA FewTradesWithinLimits ==
  ASSUME \A t, u \in trades' : t = u
  PROVE  TradesWithinLimits'
BY DEF TradesWithinLimits

LEMMA MatchWithinLimits ==
  ASSUME IInv, Match
  PROVE  TradesWithinLimits'
<1>1. CASE Fill
  BY <1>1, FillWithinLimits
<1>2. CASE Rest
  BY <1>2, RestEffect, FewTradesWithinLimits
<1>3. CASE MarketRest
  BY <1>3, MarketRestEffect, PoolExhaustedIsQuiet, FewTradesWithinLimits DEF Quiet
<1>4. CASE MarketCancel
  BY <1>4, MarketCancelEffect, FewTradesWithinLimits
<1>5. CASE Complete
  BY <1>5, CompleteEffect, FewTradesWithinLimits
<1> QED BY <1>1, <1>2, <1>3, <1>4, <1>5 DEF Match

LEMMA NextWithinLimits == IInv /\ TradesWithinLimits /\ [Next]_vars => TradesWithinLimits'
<1> SUFFICES ASSUME IInv, TradesWithinLimits, [Next]_vars PROVE TradesWithinLimits'
  OBVIOUS
<1>1. CASE AgentStep
  BY <1>1, AgentStepIsQuiet, FewTradesWithinLimits DEF Quiet
<1>2. CASE PopOrder
  BY <1>2, PopOrderEffect, FewTradesWithinLimits
<1>3. CASE PopCancel
  BY <1>3, PopCancelEffect, FewTradesWithinLimits
<1>4. CASE Match
  BY <1>4, MatchWithinLimits
<1>5. CASE UNCHANGED vars
  BY <1>5 DEF vars, TradesWithinLimits, WithinLimit
<1> QED BY <1>1, <1>2, <1>3, <1>4, <1>5 DEF Next, EngineStep

\* The two arguments of DirectNext that matter to every proof about it.
LEMMA DirectNextCases ==
  ASSUME IInv, [DirectNext]_vars
  PROVE  \/ Quiet
         \/ \E type \in {"LIMIT", "MARKET"}, c \in Clients, sd \in Sides, p \in AllPrices,
               q \in Quantities :
              /\ p \in LimitPrices
              /\ DirectSubmit(type, c, sd, p, q) /\ ~PoolExhausted
         \/ \E i \in Nat, c \in Clients, sd \in Sides, p \in AllPrices :
              DirectCancel(i, c, sd, p)
         \/ Match
         \/ UNCHANGED vars
<1>1. CASE PoolExhausted
  BY <1>1, PoolExhaustedIsQuiet
<1>2. ASSUME NEW type \in {"LIMIT", "MARKET"}, NEW c \in Clients, NEW sd \in Sides,
             NEW p \in LimitPrices, NEW q \in Quantities,
             DirectSubmit(type, c, sd, p, q), ~PoolExhausted
      PROVE  p \in AllPrices
  BY DEF AllPrices
<1>4. ASSUME NEW i \in DOMAIN orderMap \union {counter + 1}, NEW c \in Clients, NEW sd \in Sides,
             NEW p \in LimitPrices, DirectCancel(i, c, sd, p)
      PROVE  i \in Nat /\ p \in AllPrices
  BY Parts DEF AllPrices, LinksTypeOK
<1> QED BY <1>1, <1>2, <1>4 DEF DirectNext, DirectStep

LEMMA DirectNextWithinLimits ==
  IInv /\ TradesWithinLimits /\ [DirectNext]_vars => TradesWithinLimits'
<1> SUFFICES ASSUME IInv, TradesWithinLimits, [DirectNext]_vars PROVE TradesWithinLimits'
  OBVIOUS
<1>1. CASE Quiet
  BY <1>1, FewTradesWithinLimits DEF Quiet
<1>2. ASSUME NEW type, NEW c, NEW sd, NEW p, NEW q,
             DirectSubmit(type, c, sd, p, q), ~PoolExhausted
      PROVE  TradesWithinLimits'
  BY <1>2, DirectSubmitEffect, FewTradesWithinLimits
<1>3. ASSUME NEW i \in Nat, NEW c \in Clients, NEW sd \in Sides, NEW p \in AllPrices,
             DirectCancel(i, c, sd, p)
      PROVE  TradesWithinLimits'
  BY <1>1, <1>3, DirectCancelEffect, FewTradesWithinLimits
<1>4. CASE Match
  BY <1>4, MatchWithinLimits
<1>5. CASE UNCHANGED vars
  BY <1>5 DEF vars, TradesWithinLimits, WithinLimit
<1> QED BY <1>1, <1>2, <1>3, <1>4, <1>5, DirectNextCases

LEMMA InitWithinLimits == Init => TradesWithinLimits
BY DEF Init, BookInit, TradesWithinLimits

\* In the threaded program nobody trades beyond its limit at a price of the
\* grid, for every grid and rounding (MatchingEngine.cpp:45-50, 60-65).
THEOREM EngineKeepsLimits == Spec => []TradesWithinLimits
BY EngineInvariant, InitWithinLimits, NextWithinLimits, PTL DEF Spec

\* The same when ProcessOrder is called directly.
THEOREM DirectKeepsLimits == DirectSpec => []TradesWithinLimits
BY DirectInvariant, InitWithinLimits, DirectNextWithinLimits, PTL DEF DirectSpec

-----------------------------------------------------------------------------
(* The book is not crossed                                                 *)

\* The bid x and the ask y are apart. Said of every two orders, this is what
\* BookNotCrossed says of the best levels, and does not depend on them.
Apart(x, y) ==
  \/ LevelOf(x) < LevelOf(y)
  \/ /\ LevelOf(x) = LevelOf(y)
     /\ \/ LevelOf(x) \in RoundsUp \union RoundsDown
        \/ order[y].price > MaxLevel
        \/ order[x].price < 0

AllApart ==
  \A x, y \in Resting : order[x].side = "Buy" /\ order[y].side = "Sell" => Apart(x, y)

\* The best level is at least as good as that of any resting order.
LEMMA BestBoundsResting ==
  ASSUME IInv, NEW x \in Resting
  PROVE  LET sd == order[x].side
         IN /\ sd \in Sides /\ best[sd] \in Levels /\ LevelOf(x) \in Levels
            /\ best[sd] # NoLevel
            /\ ~Better(sd, LevelOf(x), best[sd])
<1> DEFINE sd == order[x].side
           h  == head[sd][LevelOf(x)]
<1>1. x \in Slots /\ sd \in Sides /\ LevelOf(x) \in Levels
  BY Parts, OrderFields
<1>2. h \in Resting
  BY HeadIsOldest, Parts
<1>3. h # NoSlot
  BY <1>2, Parts, SlotAssumption
<1>4. LevelOf(x) \in bits[sd]
  BY <1>1, <1>3, Parts DEF BestIsExact
<1>5. best[sd] \in bits[sd] /\ ~Better(sd, LevelOf(x), best[sd])
  BY <1>1, <1>4, Parts DEF BestIsExact
<1>6. best[sd] \in Levels
  BY <1>1, <1>5, Parts DEF LinksTypeOK
<1>7. best[sd] # NoLevel
  BY <1>6 DEF NoLevel, Levels
<1> QED BY <1>1, <1>5, <1>6, <1>7

LEMMA ApartMeansNotCrossed ==
  ASSUME IInv, AllApart
  PROVE  BookNotCrossed
<1> SUFFICES ASSUME best["Buy"] # NoLevel, best["Sell"] # NoLevel
             PROVE  \/ best["Buy"] < best["Sell"]
                    \/ /\ best["Buy"] = best["Sell"]
                       /\ \/ best["Buy"] \in RoundsUp \union RoundsDown
                          \/ \A s \in RestingAt("Sell", best["Sell"]) : order[s].price > MaxLevel
                          \/ \A s \in RestingAt("Buy", best["Buy"]) : order[s].price < 0
  BY DEF BookNotCrossed
<1>1. ASSUME NEW sd \in Sides, best[sd] # NoLevel
      PROVE  best[sd] \in Levels /\ \E x \in Resting : order[x].side = sd /\ LevelOf(x) = best[sd]
  <2>1. best[sd] \in Levels /\ head[sd][best[sd]] # NoSlot
    BY <1>1, Parts DEF BestIsExact, LinksTypeOK
  <2>2. EndsOfLevel(sd, best[sd])
    BY <2>1, Parts DEF LevelsAreQueues
  <2> QED BY <2>1, <2>2 DEF EndsOfLevel
<1>2. PICK x \in Resting : order[x].side = "Buy" /\ LevelOf(x) = best["Buy"]
  BY <1>1 DEF Sides
<1>3. PICK y \in Resting : order[y].side = "Sell" /\ LevelOf(y) = best["Sell"]
  BY <1>1 DEF Sides
<1>4. Apart(x, y)
  BY <1>2, <1>3 DEF AllApart
<1>5. ASSUME best["Buy"] = best["Sell"], best["Buy"] \notin RoundsUp \union RoundsDown,
             NEW b \in RestingAt("Buy", best["Buy"]), ~(order[b].price < 0),
             NEW a \in RestingAt("Sell", best["Sell"])
      PROVE  order[a].price > MaxLevel
  <2>1. Apart(b, a) /\ LevelOf(b) = LevelOf(a) /\ LevelOf(b) = best["Buy"]
    BY <1>5 DEF AllApart, RestingAt
  <2>2. LevelOf(b) \in Levels
    BY <1>5, BestBoundsResting DEF RestingAt
  <2> QED BY <1>5, <2>1, <2>2 DEF Apart, Levels
<1>6. \/ best["Buy"] < best["Sell"]
      \/ best["Buy"] = best["Sell"]
  BY <1>2, <1>3, <1>4 DEF Apart
<1> QED BY <1>5, <1>6

\* An order rests only if it cannot trade with the best opposite level, and so
\* stands apart from every opposite order (MatchingEngine.cpp:40-49, 55-64).
LEMMA RestedOrderIsApart ==
  ASSUME IInv, cur # NoSlot, rem[cur] > 0, ~CanFill,
         NEW y \in Resting, order[y].side = Opposite(order[cur].side)
  PROVE  IF order[cur].side = "Buy" THEN Apart(cur, y) ELSE Apart(y, cur)
<1> DEFINE p == order[cur].price
           l == best[order[y].side]
<1>1. cur \in Slots /\ order[cur].side \in Sides /\ p \in Int /\ LevelOf(cur) = PriceToIndex(p)
  BY OrderInHand, OrderFields, AllPricesAreInts, Parts DEF LevelOf
<1>2. /\ l \in Levels /\ LevelOf(y) \in Levels /\ l # NoLevel
      /\ ~Better(order[y].side, LevelOf(y), l)
  BY BestBoundsResting
<1>3. OutOfReach(order[cur].side, l, p)
  BY <1>2 DEF CanFill, Opposing
<1> HIDE DEF p, l
<1>4. CASE order[cur].side = "Buy"
  <2>1. LevelOf(y) >= l
    BY <1>2, <1>4, LevelAssumption DEF Better, Opposite, Levels
  <2>2. l > p \/ (l = p /\ l \in RoundsUp)
    BY <1>3, <1>4 DEF OutOfReach, IndexPriceAbove
  <2>3. \/ PriceToIndex(p) < LevelOf(y)
        \/ PriceToIndex(p) = LevelOf(y) /\ (PriceToIndex(p) \in RoundsUp \/ p < 0)
    <3> DEFINE k == LevelOf(y)
    <3>1. k \in Int /\ l \in Int /\ k >= 0 /\ k <= MaxLevel /\ MaxLevel \in Nat /\ k >= l
      BY <1>2, <2>1, LevelAssumption DEF Levels
    <3> HIDE DEF k
    <3>2. \/ PriceToIndex(p) < k
          \/ PriceToIndex(p) = k /\ (PriceToIndex(p) \in RoundsUp \/ p < 0)
      <4>1. CASE p < 0
        BY <1>1, <3>1, <4>1 DEF PriceToIndex
      <4>2. CASE p >= 0
        <5>1. p <= k /\ PriceToIndex(p) = p
          BY <1>1, <2>2, <3>1, <4>2 DEF PriceToIndex
        <5> QED BY <1>1, <2>2, <3>1, <5>1
      <4> QED BY <1>1, <4>1, <4>2
    <3> QED BY <3>2 DEF k
  <2> QED BY <1>1, <1>4, <2>3 DEF Apart, p
<1>5. CASE order[cur].side = "Sell"
  <2>1. LevelOf(y) <= l
    BY <1>2, <1>5, LevelAssumption DEF Better, Opposite, Levels
  <2>2. l < p \/ (l = p /\ l \in RoundsDown)
    BY <1>3, <1>5 DEF OutOfReach, IndexPriceBelow
  <2>3. \/ LevelOf(y) < PriceToIndex(p)
        \/ LevelOf(y) = PriceToIndex(p) /\ (LevelOf(y) \in RoundsDown \/ p > MaxLevel)
    <3> DEFINE k == LevelOf(y)
    <3>1. k \in Int /\ l \in Int /\ k >= 0 /\ l <= MaxLevel /\ MaxLevel \in Nat /\ k <= l
      BY <1>2, <2>1, LevelAssumption DEF Levels
    <3> HIDE DEF k
    <3>2. \/ k < PriceToIndex(p)
          \/ k = PriceToIndex(p) /\ (k \in RoundsDown \/ p > MaxLevel)
      <4>1. CASE p > MaxLevel
        BY <1>1, <3>1, <4>1 DEF PriceToIndex
      <4>2. CASE p <= MaxLevel
        <5>1. p >= k /\ PriceToIndex(p) = p
          BY <1>1, <2>2, <3>1, <4>2 DEF PriceToIndex
        <5> QED BY <1>1, <2>2, <3>1, <5>1
      <4> QED BY <1>1, <3>1, <4>1, <4>2
    <3> QED BY <3>2 DEF k
  <2> QED BY <1>1, <1>5, <2>3 DEF Apart, p
<1> QED BY <1>1, <1>4, <1>5 DEF Sides

LEMMA ShrinkKeepsApart ==
  ASSUME AllApart, Resting' \subseteq Resting, \A x \in Resting : order'[x] = order[x]
  PROVE  AllApart'
<1>1. \A x \in Resting : order'[x].side = order[x].side /\ LevelOf(x)' = LevelOf(x)
  BY SameNode
<1> QED BY <1>1 DEF AllApart, Apart

LEMMA GrowKeepsApart ==
  ASSUME IInv, AllApart, cur # NoSlot, rem[cur] > 0, ~CanFill,
         Resting' = Resting \union {cur},
         \A x \in Resting \union {cur} : order'[x] = order[x]
  PROVE  AllApart'
<1>1. \A x \in Resting \union {cur} : order'[x].side = order[x].side /\ LevelOf(x)' = LevelOf(x)
  BY SameNode
<1>2. ASSUME NEW x \in Resting \union {cur}, NEW y \in Resting \union {cur},
             order[x].side = "Buy", order[y].side = "Sell"
      PROVE  Apart(x, y)
  <2>1. CASE x \in Resting /\ y \in Resting
    BY <1>2, <2>1 DEF AllApart
  <2>2. CASE x = cur /\ y \in Resting
    BY <1>2, <2>2, RestedOrderIsApart DEF Opposite
  <2>3. CASE x \in Resting /\ y = cur
    BY <1>2, <2>3, RestedOrderIsApart DEF Opposite
  <2> QED BY <1>2, <2>1, <2>2, <2>3
<1> QED BY <1>1, <1>2 DEF AllApart, Apart

LEMMA MatchKeepsApart ==
  ASSUME IInv, AllApart, Match
  PROVE  AllApart'
<1>1. CASE Fill
  BY <1>1, FillEffect, ShrinkKeepsApart
<1>2. CASE Rest
  BY <1>2, RestEffect, GrowKeepsApart
<1>3. CASE MarketRest /\ ~PoolExhausted
  BY <1>3, MarketRestEffect, GrowKeepsApart
<1>4. CASE MarketCancel
  BY <1>4, MarketCancelEffect, ShrinkKeepsApart
<1>5. CASE Complete
  BY <1>5, CompleteEffect, ShrinkKeepsApart DEF Resting, bookVars
<1>6. CASE PoolExhausted
  BY <1>6, PoolExhaustedIsQuiet, ShrinkKeepsApart DEF Quiet, Resting, bookVars
<1> QED BY <1>1, <1>2, <1>3, <1>4, <1>5, <1>6 DEF Match

LEMMA NextKeepsApart == IInv /\ AllApart /\ [Next]_vars => AllApart'
<1> SUFFICES ASSUME IInv, AllApart, [Next]_vars PROVE AllApart'
  OBVIOUS
<1>1. CASE AgentStep
  BY <1>1, AgentStepIsQuiet, ShrinkKeepsApart DEF Quiet, Resting, bookVars
<1>2. CASE PopOrder
  BY <1>2, PopOrderEffect, ShrinkKeepsApart DEF Resting, bookVars
<1>3. CASE PopCancel
  BY <1>3, PopCancelEffect, ShrinkKeepsApart DEF Resting, bookVars
<1>4. CASE Match
  BY <1>4, MatchKeepsApart
<1>5. CASE UNCHANGED vars
  BY <1>5, ShrinkKeepsApart DEF vars, bookVars, Resting
<1> QED BY <1>1, <1>2, <1>3, <1>4, <1>5 DEF Next, EngineStep

LEMMA DirectNextKeepsApart == IInv /\ AllApart /\ [DirectNext]_vars => AllApart'
<1> SUFFICES ASSUME IInv, AllApart, [DirectNext]_vars PROVE AllApart'
  OBVIOUS
<1>1. CASE Quiet
  BY <1>1, ShrinkKeepsApart DEF Quiet, Resting, bookVars
<1>2. ASSUME NEW type, NEW c, NEW sd, NEW p, NEW q,
             DirectSubmit(type, c, sd, p, q), ~PoolExhausted
      PROVE  AllApart'
  BY <1>2, DirectSubmitEffect, ShrinkKeepsApart DEF Resting, bookVars
<1>3. ASSUME NEW i \in Nat, NEW c \in Clients, NEW sd \in Sides, NEW p \in AllPrices,
             DirectCancel(i, c, sd, p)
      PROVE  AllApart'
  BY <1>1, <1>3, DirectCancelEffect, ShrinkKeepsApart
<1>4. CASE Match
  BY <1>4, MatchKeepsApart
<1>5. CASE UNCHANGED vars
  BY <1>5, ShrinkKeepsApart DEF vars, bookVars, Resting
<1> QED BY <1>1, <1>2, <1>3, <1>4, <1>5, DirectNextCases

LEMMA InitApart == Init => AllApart
BY DEF Init, BookInit, AllApart, Resting

LEMMA NotCrossedFromApart == IInv /\ AllApart => BookNotCrossed
BY ApartMeansNotCrossed

\* In the threaded program the book is never crossed, and locked only where the
\* grid's rounding or clamping explains it (MatchingEngine.cpp:37-69).
THEOREM EngineBookNotCrossed == Spec => []BookNotCrossed
BY EngineInvariant, InitApart, NextKeepsApart, NotCrossedFromApart, PTL DEF Spec

\* The same when ProcessOrder is called directly.
THEOREM DirectBookNotCrossed == DirectSpec => []BookNotCrossed
BY DirectInvariant, InitApart, DirectNextKeepsApart, NotCrossedFromApart, PTL DEF DirectSpec

-----------------------------------------------------------------------------
(* The engine implements PriceTimeBook                                     *)


\* What an agent may ask for.
IsRequest(type, sd, p, q) ==
  /\ q \in Quantities
  /\ \/ type = "LIMIT" /\ p \in LimitPrices
     \/ type = "MARKET" /\ p \in LimitPrices \union {MarketPrice(sd)}

\* The orders in the ring buffer are as the agents submitted them.
QueuedAreRequests ==
  \A s \in Queued :
    order[s].type # "CANCEL" => IsRequest(order[s].type, order[s].side, order[s].price, rem[s])

\* While a market order waits in the book for its cancel, the other side is empty.
ExpiringIsAlone ==
  cxl # NoSlot => \A x \in Resting : order[x].side # Opposite(order[Expiring].side)

RefInv == IInv /\ QueuedAreRequests /\ ExpiringIsAlone

-----------------------------------------------------------------------------
(* The strengthening is inductive                                          *)

LEMMA QueuedKept ==
  ASSUME QueuedAreRequests, Queued' \subseteq Queued,
         \A s \in Queued : order'[s] = order[s] /\ rem'[s] = rem[s]
  PROVE  QueuedAreRequests'
BY DEF QueuedAreRequests

LEMMA SubmitKeepsRequests ==
  ASSUME IInv, QueuedAreRequests, NEW data, NEW q, Submit(data, q),
         data.type # "CANCEL" => IsRequest(data.type, data.side, data.price, q)
  PROVE  QueuedAreRequests'
<1>1. CASE PoolExhausted
  BY <1>1, QueuedKept DEF PoolExhausted, queueVars, Queued
<1>2. CASE ~PoolExhausted
  <2>1. PICK s \in free : Allocate(s, data, q) /\ Push(s)
    BY <1>2 DEF Submit
  <2>2. \A x \in Queued : order'[x] = order[x] /\ rem'[x] = rem[x]
    BY <2>1, AllocateElsewhere
  <2>3. CASE orders' = orders
    BY <2>2, <2>3, QueuedKept DEF Queued
  <2>4. CASE orders' = Append(orders, s)
    <3>1. s \in Slots /\ s \notin Queued
      BY Parts DEF NodesHaveOneHolder, NodesTypeOK
    <3>2. Queued' = Queued \union {s}
      BY <2>4, <3>1, AppendQueue, Parts DEF TypeOK, NodesHaveOneHolder
    <3>3. order'[s] = data /\ rem'[s] = q
      BY <2>1, <3>1, Parts DEF Allocate
    <3> QED BY <2>2, <3>2, <3>3 DEF QueuedAreRequests
  <2> QED BY <2>1, <2>3, <2>4 DEF Push
<1> QED BY <1>1, <1>2

LEMMA AgentStepKeepsRequests ==
  ASSUME IInv, QueuedAreRequests, AgentStep
  PROVE  QueuedAreRequests'
<1>1. ASSUME NEW c \in Clients, NEW sd \in Sides, NEW p \in LimitPrices, NEW q \in Quantities,
             SubmitLimit(c, sd, p, q)
      PROVE  QueuedAreRequests'
  BY <1>1, SubmitKeepsRequests DEF SubmitLimit, Request, IsRequest
<1>2. ASSUME NEW c \in Clients, NEW sd \in Sides, NEW q \in Quantities, SubmitMarket(c, sd, q)
      PROVE  QueuedAreRequests'
  BY <1>2, SubmitKeepsRequests DEF SubmitMarket, Request, IsRequest
<1>3. ASSUME NEW s \in Slots, SubmitCancel(s)
      PROVE  QueuedAreRequests'
  BY <1>3, SubmitKeepsRequests DEF SubmitCancel, Request
<1> QED BY <1>1, <1>2, <1>3 DEF AgentStep

\* Popping numbers the head of the queue and takes it out.
LEMMA PopKeepsRequests ==
  ASSUME IInv, QueuedAreRequests, PopOrder \/ PopCancel
  PROVE  QueuedAreRequests'
<1>1. /\ orders # <<>> /\ orders' = Tail(orders) /\ rem' = rem
      /\ order' = [order EXCEPT ![Head(orders)].id = counter + 1]
  BY DEF PopOrder, PopCancel
<1>2. Queued' = Queued \ {Head(orders)}
  BY <1>1, TailQueue, Parts DEF TypeOK, NodesHaveOneHolder
<1>3. Queued \subseteq Slots
  BY Parts DEF NodesHaveOneHolder
<1>4. \A s \in Queued' : order'[s] = order[s]
  BY <1>1, <1>2, <1>3, Parts
<1> QED BY <1>1, <1>2, <1>4 DEF QueuedAreRequests

LEMMA MatchKeepsRequests ==
  ASSUME IInv, QueuedAreRequests, Match
  PROVE  QueuedAreRequests'
<1>1. Queued' = Queued
  <2>1. orders' = orders
    BY DEF Match, Fill, Rest, MarketRest, MarketCancel, Complete, PoolExhausted, queueVars
  <2> QED BY <2>1 DEF Queued
<1>2. \A s \in Queued : s \in Slots /\ s \notin Resting \union InHand \union free
  BY Parts DEF NodesHaveOneHolder
<1>3. CASE Fill
  <2>1. PICK m, q :
          /\ m \in Resting /\ rem' = [rem EXCEPT ![m] = @ - q, ![cur] = @ - q] /\ order' = order /\ cur # NoSlot
    BY <1>3, FillEffect
  <2>2. \A s \in Queued : s # m /\ s # cur
    BY <1>2, <2>1 DEF InHand
  <2> QED BY <1>1, <1>2, <2>1, <2>2, QueuedKept, Parts
<1>4. CASE Rest \/ MarketCancel \/ Complete \/ PoolExhausted
  <2>1. order' = order /\ rem' = rem
    BY <1>4 DEF Rest, MarketCancel, Complete, PoolExhausted
  <2> QED BY <1>1, <2>1, QueuedKept
<1>5. CASE MarketRest /\ ~PoolExhausted
  <2>1. PICK c \in free : Allocate(c, [order[cur] EXCEPT !.type = "CANCEL"], 0)
    BY <1>5 DEF MarketRest
  <2>2. \A s \in Queued : order'[s] = order[s] /\ rem'[s] = rem[s]
    BY <2>1, AllocateElsewhere
  <2> QED BY <1>1, <2>2, QueuedKept
<1> QED BY <1>3, <1>4, <1>5 DEF Match

-----------------------------------------------------------------------------

\* A side whose best level is invalid holds no order.
LEMMA NoLevelNoOrder ==
  ASSUME IInv, NEW sd \in Sides, best[sd] = NoLevel, NEW x \in Resting
  PROVE  order[x].side # sd
BY BestBoundsResting

LEMMA MarketRestAlone ==
  ASSUME IInv, MarketRest, ~PoolExhausted
  PROVE  /\ Expiring' = cur
         /\ \A x \in Resting : order[x].side # Opposite(order[cur].side)
<1>1. /\ cur # NoSlot /\ cxl' \in Slots /\ cxl' \notin Resting \union {cur}
      /\ order'[cxl'] = [order[cur] EXCEPT !.type = "CANCEL"]
      /\ orderMap'[order[cur].id] = cur
      /\ order[cur].type = "MARKET" /\ rem[cur] > 0 /\ ~CanFill
  BY MarketRestEffect
<1>2. cur \in Slots /\ order[cur] \in OrderData
  BY <1>1, OrderInHand, Parts
<1>3. Expiring' = cur
  <2>1. order'[cxl'].id = order[cur].id /\ cxl' # NoSlot
    BY <1>1, <1>2, SlotAssumption DEF OrderData
  <2> QED BY <1>1, <2>1 DEF Expiring
<1>4. Opposite(order[cur].side) \in Sides /\ best[Opposite(order[cur].side)] = NoLevel
  BY <1>1, <1>2 DEF CanFill, Opposing, OrderData, Opposite, Sides
<1> QED BY <1>3, <1>4, NoLevelNoOrder

LEMMA QuietKeepsExpiring ==
  ASSUME IInv, Quiet
  PROVE  /\ Resting' = Resting /\ Expiring' = Expiring
         /\ \A x \in Resting : order'[x] = order[x] /\ rem'[x] = rem[x]
         /\ cxl # NoSlot => Expiring \in Resting
<1>1. Resting' = Resting
  BY DEF Quiet, bookVars, Resting
<1>2. Expiring' = Expiring
  <2>1. cxl' = cxl /\ orderMap' = orderMap
    BY DEF Quiet, bookVars
  <2>2. cxl # NoSlot => order'[cxl] = order[cxl]
    BY DEF Quiet, InHand
  <2> QED BY <2>1, <2>2 DEF Expiring
<1>3. cxl # NoSlot => Expiring \in Resting
  BY Parts DEF NumberedOrders, Expiring, Resting
<1> QED BY <1>1, <1>2, <1>3 DEF Quiet

LEMMA QuietKeepsAlone ==
  ASSUME IInv, ExpiringIsAlone, Quiet
  PROVE  ExpiringIsAlone'
<1>1. cxl' = cxl
  BY DEF Quiet
<1> QED BY <1>1, QuietKeepsExpiring DEF ExpiringIsAlone

LEMMA MatchKeepsAlone ==
  ASSUME IInv, ExpiringIsAlone, Match
  PROVE  ExpiringIsAlone'
<1>1. CASE PoolExhausted
  BY <1>1, PoolExhaustedIsQuiet, QuietKeepsAlone
<1>2. CASE Fill
  BY <1>2, FillEffect DEF ExpiringIsAlone
<1>3. CASE Rest \/ MarketCancel \/ Complete
  BY <1>3, RestEffect, MarketCancelEffect, CompleteEffect DEF ExpiringIsAlone
<1>4. CASE MarketRest /\ ~PoolExhausted
  <2>1. /\ Expiring' = cur /\ Resting' = Resting \union {cur}
        /\ \A x \in Resting \union {cur} : order'[x] = order[x]
        /\ \A x \in Resting : order[x].side # Opposite(order[cur].side)
    BY <1>4, MarketRestAlone, MarketRestEffect
  <2>2. order[cur].side # Opposite(order[cur].side)
    BY DEF Opposite
  <2> QED BY <2>1, <2>2 DEF ExpiringIsAlone
<1> QED BY <1>1, <1>2, <1>3, <1>4 DEF Match

LEMMA InitRefInv == Init => RefInv
<1> SUFFICES ASSUME Init PROVE RefInv
  OBVIOUS
<1>1. IInv
  BY InitIInv
<1>2. Queued = {}
  BY DEF Init, Queued
<1> QED BY <1>1, <1>2 DEF RefInv, QueuedAreRequests, ExpiringIsAlone, Init

LEMMA NextKeepsRefInv == RefInv /\ [Next]_vars => RefInv'
<1> SUFFICES ASSUME RefInv, [Next]_vars PROVE RefInv'
  OBVIOUS
<1>1. IInv /\ IInv'
  BY NextKeepsIInv DEF RefInv
<1>2. QueuedAreRequests'
  <2>1. CASE UNCHANGED vars
    BY <2>1, QueuedKept DEF vars, queueVars, Queued, RefInv
  <2> QED BY <1>1, <2>1, AgentStepKeepsRequests, PopKeepsRequests, MatchKeepsRequests
       DEF RefInv, Next, EngineStep
<1>3. ExpiringIsAlone'
  <2>1. CASE AgentStep
    BY <1>1, <2>1, AgentStepIsQuiet, QuietKeepsAlone DEF RefInv
  <2>2. CASE PopOrder \/ PopCancel
    BY <1>1, <2>2, PopOrderEffect, PopCancelEffect DEF ExpiringIsAlone
  <2>3. CASE Match
    BY <1>1, <2>3, MatchKeepsAlone DEF RefInv
  <2>4. CASE UNCHANGED vars
    BY <2>4 DEF RefInv, ExpiringIsAlone, Expiring, vars, bookVars, engineVars, Resting
  <2> QED BY <2>1, <2>2, <2>3, <2>4 DEF Next, EngineStep
<1> QED BY <1>1, <1>2, <1>3 DEF RefInv

LEMMA DirectStepElsewhere ==
  ASSUME IInv, DirectStep \/ UNCHANGED vars
  PROVE  \A s \in Queued : order'[s] = order[s] /\ rem'[s] = rem[s]
<1>1. CASE PoolExhausted \/ UNCHANGED vars
  BY <1>1 DEF PoolExhausted, vars
<1>2. ASSUME NEW type, NEW c, NEW sd, NEW p, NEW q,
             DirectSubmit(type, c, sd, p, q), ~PoolExhausted
      PROVE  \A s \in Queued : order'[s] = order[s] /\ rem'[s] = rem[s]
  BY <1>2, AllocateElsewhere DEF DirectSubmit
<1>3. ASSUME NEW i, NEW c, NEW sd, NEW p, DirectCancel(i, c, sd, p), ~PoolExhausted
      PROVE  \A s \in Queued : order'[s] = order[s] /\ rem'[s] = rem[s]
  <2>1. PICK n \in free : /\ order' = [order EXCEPT ![n] = Request(i, "CANCEL", c, sd, p)]
                          /\ rem' = [rem EXCEPT ![n] = 0]
    BY <1>3 DEF DirectCancel
  <2>2. n \notin Queued
    BY Parts DEF NodesHaveOneHolder
  <2> QED BY <2>1, <2>2, Parts
<1> QED BY <1>1, <1>2, <1>3 DEF DirectStep

LEMMA DirectNextKeepsRefInv == RefInv /\ [DirectNext]_vars => RefInv'
<1> SUFFICES ASSUME RefInv, [DirectNext]_vars PROVE RefInv'
  OBVIOUS
<1>1. IInv /\ IInv'
  BY DirectNextKeepsIInv DEF RefInv
<1>2. QueuedAreRequests'
  <2>1. CASE DirectStep \/ UNCHANGED vars
    <3>1. orders' = orders
      BY <2>1 DEF DirectStep, DirectSubmit, DirectCancel, PoolExhausted, queueVars, vars
    <3>2. \A s \in Queued : order'[s] = order[s] /\ rem'[s] = rem[s]
      BY <1>1, <2>1, DirectStepElsewhere
    <3> QED BY <3>1, <3>2, QueuedKept DEF RefInv, Queued
  <2> QED BY <1>1, <2>1, MatchKeepsRequests DEF RefInv, DirectNext
<1>3. ExpiringIsAlone'
  <2>1. CASE Quiet
    BY <1>1, <2>1, QuietKeepsAlone DEF RefInv
  <2>2. ASSUME NEW type, NEW c, NEW sd, NEW p, NEW q,
               DirectSubmit(type, c, sd, p, q), ~PoolExhausted
        PROVE  ExpiringIsAlone'
    BY <1>1, <2>2, DirectSubmitEffect DEF ExpiringIsAlone
  <2>3. ASSUME NEW i \in Nat, NEW c \in Clients, NEW sd \in Sides, NEW p \in AllPrices,
               DirectCancel(i, c, sd, p)
        PROVE  ExpiringIsAlone'
    BY <1>1, <2>1, <2>3, DirectCancelEffect DEF ExpiringIsAlone
  <2>4. CASE Match
    BY <1>1, <2>4, MatchKeepsAlone DEF RefInv
  <2>5. CASE UNCHANGED vars
    BY <2>5 DEF RefInv, ExpiringIsAlone, Expiring, vars, bookVars, engineVars, Resting
  <2> QED BY <1>1, <2>1, <2>2, <2>3, <2>4, <2>5, DirectNextCases
<1> QED BY <1>1, <1>2, <1>3 DEF RefInv

-----------------------------------------------------------------------------
(* The abstract book and taker                                             *)

\* Prices mean the same in both specifications.
LEMMA SamePrices ==
  /\ \A sd : PriceTime!Opposite(sd) = Opposite(sd) /\ PriceTime!MarketPrice(sd) = MarketPrice(sd)
  /\ \A p : PriceTime!PriceToIndex(p) = PriceToIndex(p)
  /\ \A sd, l, p : PriceTime!OutOfReach(sd, l, p) = OutOfReach(sd, l, p)
  /\ \A sd, l, m : PriceTime!Better(sd, l, m) = Better(sd, l, m)
  /\ PriceTime!Sides = Sides
BY DEF PriceTime!Opposite, Opposite, PriceTime!MarketPrice, MarketPrice,
       PriceTime!PriceToIndex, PriceToIndex, PriceTime!OutOfReach, OutOfReach,
       PriceTime!IndexPriceAbove, IndexPriceAbove, PriceTime!IndexPriceBelow, IndexPriceBelow,
       PriceTime!Better, Better, PriceTime!Sides, Sides

LEMMA AbstractFields ==
  ASSUME IInv, NEW s \in Slots
  PROVE  /\ Abstract(s) # NoSlot
         /\ order[s].side \in Sides /\ order[s].client \in Clients
         /\ order[s].price \in AllPrices /\ order[s].id \in Nat /\ rem[s] \in Nat
<1>1. order[s] \in OrderData /\ rem[s] \in Nat
  BY Parts
<1>2. Abstract(s) \in [id : Nat, type : OrderTypes, client : Clients, side : Sides,
                        price : AllPrices, qty : Nat]
  BY <1>1 DEF Abstract, OrderData
<1> QED BY <1>1, <1>2, NoOrderAssumption DEF OrderData

LEMMA AbstractUnchanged ==
  ASSUME NEW s, order'[s] = order[s], rem'[s] = rem[s]
  PROVE  Abstract(s)' = Abstract(s)
BY DEF Abstract

\* Resting orders are told apart by their ids.
LEMMA AbstractIsInjective ==
  ASSUME IInv, NEW x \in Resting, NEW y \in Resting, Abstract(x) = Abstract(y)
  PROVE  x = y
<1>1. order[x].id = order[y].id
  BY DEF Abstract
<1> QED BY <1>1, LookUp, Parts

LEMMA NotExpiring ==
  ASSUME IInv, cxl = NoSlot
  PROVE  Expiring = NoSlot /\ NoSlot \notin Resting /\ AbstractBook = {Abstract(s) : s \in Resting}
<1>1. Expiring = NoSlot /\ NoSlot \notin Resting
  BY SlotAssumption, Parts DEF Expiring
<1> QED BY <1>1 DEF AbstractBook

-----------------------------------------------------------------------------
(* Every step of the engine is one of the abstract book                    *)

LEMMA InitMaps == Init => PriceTime!Init
<1> SUFFICES ASSUME Init PROVE PriceTime!Init
  OBVIOUS
<1>1. /\ cur = NoSlot /\ cxl = NoSlot /\ counter = 0 /\ trades = {}
      /\ orderMap = [i \in {} |-> NoSlot]
  BY DEF Init, BookInit
<1>2. Resting = {}
  BY <1>1 DEF Resting
<1> QED BY <1>1, <1>2 DEF PriceTime!Init, AbstractBook, AbstractTaker

\* Taking nodes from the pool, pushing orders and dropping them is not seen.
LEMMA QuietMaps ==
  ASSUME IInv, Quiet
  PROVE  PriceTime!Delivered
<1>1. AbstractBook' = AbstractBook
  <2>1. \A x \in Resting : Abstract(x)' = Abstract(x)
    BY QuietKeepsExpiring, AbstractUnchanged
  <2> QED BY <2>1, QuietKeepsExpiring DEF AbstractBook
<1>2. AbstractTaker' = AbstractTaker
  <2>1. cur' = cur /\ cxl' = cxl
    BY DEF Quiet
  <2>2. cur # NoSlot => Abstract(cur)' = Abstract(cur)
    BY <2>1 DEF Quiet, InHand, Abstract
  <2>3. cxl # NoSlot => Abstract(Expiring)' = Abstract(Expiring)
    BY QuietKeepsExpiring DEF Abstract
  <2> QED BY <2>1, <2>2, <2>3 DEF AbstractTaker
<1> QED BY <1>1, <1>2 DEF Quiet, PriceTime!Delivered

\* Numbering an order that is not in the book makes it the taker.
LEMMA ArriveMaps ==
  ASSUME IInv, cur = NoSlot, cxl = NoSlot, cxl' = NoSlot, cur' \in Slots,
         NEW type, NEW c \in Clients, NEW sd \in Sides, NEW p, NEW q,
         Abstract(cur)' = PriceTime!Order(counter + 1, type, c, sd, p, q),
         counter' = counter + 1, trades' = {}, IsRequest(type, sd, p, q),
         UNCHANGED bookVars, \A x \in Resting : order'[x] = order[x] /\ rem'[x] = rem[x]
  PROVE  PriceTime!Next
<1>1. Resting' = Resting
  BY DEF bookVars, Resting
<1>2. AbstractBook' = AbstractBook
  <2>1. \A x \in Resting : Abstract(x)' = Abstract(x)
    BY AbstractUnchanged
  <2>2. Expiring' = Expiring
    BY DEF Expiring
  <2> QED BY <1>1, <2>1, <2>2 DEF AbstractBook
<1>3. AbstractTaker = NoSlot /\ AbstractTaker' = Abstract(cur)'
  BY SlotAssumption DEF AbstractTaker
<1>4. PriceTime!Arrive(type, c, sd, p, q)
  BY <1>2, <1>3 DEF PriceTime!Arrive
<1>5. \/ type = "LIMIT" /\ p \in LimitPrices
      \/ type = "MARKET" /\ p \in LimitPrices \union {PriceTime!MarketPrice(sd)}
  BY SamePrices DEF IsRequest
<1> QED BY <1>4, <1>5, SamePrices DEF IsRequest, PriceTime!Next

LEMMA PopOrderMaps ==
  ASSUME RefInv, PopOrder
  PROVE  PriceTime!Next
<1> DEFINE h == Head(orders)
<1>1. /\ h \in Queued /\ h \in Slots
      /\ order[h].type # "CANCEL"
      /\ order'[h] = [order[h] EXCEPT !.id = counter + 1]
      /\ cur = NoSlot /\ cxl = NoSlot /\ cur' = h /\ cxl' = NoSlot
      /\ counter' = counter + 1 /\ trades' = {}
      /\ rem' = rem /\ UNCHANGED bookVars
      /\ \A x \in Resting : order'[x] = order[x]
  BY PopOrderEffect DEF RefInv
<1> HIDE DEF h
<1>2. order[h] \in OrderData
  BY <1>1, Parts DEF RefInv
<1>3. IsRequest(order[h].type, order[h].side, order[h].price, rem[h])
  BY <1>1 DEF RefInv, QueuedAreRequests
<1>4. Abstract(cur)' = PriceTime!Order(counter + 1, order[h].type, order[h].client,
                                        order[h].side, order[h].price, rem[h])
  BY <1>1, <1>2 DEF Abstract, PriceTime!Order, OrderData
<1>5. order[h].client \in Clients /\ order[h].side \in Sides
  BY <1>2 DEF OrderData
<1> QED BY <1>1, <1>3, <1>4, <1>5, ArriveMaps DEF RefInv

LEMMA PopCancelMaps ==
  ASSUME IInv, PopCancel
  PROVE  PriceTime!Skip
<1>1. /\ cur = NoSlot /\ cxl = NoSlot /\ cur' = NoSlot /\ cxl' = NoSlot
      /\ counter' = counter + 1 /\ trades' = {}
      /\ rem' = rem /\ UNCHANGED bookVars
      /\ \A x \in Resting : order'[x] = order[x]
  BY PopCancelEffect
<1>2. AbstractBook' = AbstractBook
  <2>1. Resting' = Resting /\ Expiring' = Expiring
    BY <1>1 DEF bookVars, Resting, Expiring
  <2>2. \A x \in Resting : Abstract(x)' = Abstract(x)
    BY <1>1, AbstractUnchanged
  <2> QED BY <2>1, <2>2 DEF AbstractBook
<1> QED BY <1>1, <1>2 DEF AbstractTaker, PriceTime!Skip

-----------------------------------------------------------------------------
(* The steps of a match                                                    *)

\* The head of the best level is first in price-time priority, and the only
\* one that is.
LEMMA HeadIsFirst ==
  ASSUME IInv, cur # NoSlot, Opposing # NoLevel,
         NEW m \in Resting, m = head[Opposite(order[cur].side)][Opposing],
         order[m].side = Opposite(order[cur].side), LevelOf(m) = Opposing
  PROVE  /\ PriceTime!First(Abstract(m))
         /\ \A o \in PriceTime!Offers : PriceTime!First(o) => PriceTime!PriceToIndex(o.price) = Opposing
<1> DEFINE sd == Opposite(order[cur].side)
<1>1. /\ cur \in Slots /\ cxl = NoSlot /\ AbstractTaker = Abstract(cur)
      /\ AbstractBook = {Abstract(s) : s \in Resting}
  BY OrderInHand, NotExpiring DEF AbstractTaker
<1>2. /\ \A s : /\ Abstract(s).side = order[s].side /\ Abstract(s).id = order[s].id
               /\ PriceTime!PriceToIndex(Abstract(s).price) = LevelOf(s)
      /\ PriceTime!Opposite(Abstract(cur).side) = sd
  BY SamePrices DEF Abstract, LevelOf
<1>3. PriceTime!Offers = {Abstract(s) : s \in {x \in Resting : order[x].side = sd}}
  BY <1>1, <1>2 DEF PriceTime!Offers
<1>4. ASSUME NEW x \in Resting, order[x].side = sd
      PROVE  /\ LevelOf(x) \in Levels /\ LevelOf(m) \in Levels
             /\ ~Better(sd, LevelOf(x), LevelOf(m))
             /\ LevelOf(x) = LevelOf(m) => x = m \/ order[m].id < order[x].id
             /\ order[x].id \in Nat /\ order[m].id \in Nat
  <2>1. /\ sd \in Sides /\ LevelOf(x) \in Levels /\ best[sd] = LevelOf(m)
        /\ ~Better(sd, LevelOf(x), best[sd])
    BY <1>4, BestBoundsResting DEF Opposing
  <2>2. LevelOf(m) \in Levels
    BY BestBoundsResting
  <2>3. LevelOf(x) = LevelOf(m) => x = m \/ order[m].id < order[x].id
    <3>1. LevelOf(x) = LevelOf(m) => order[m].id <= order[x].id
      BY <1>4, HeadIsOldest, Parts
    <3>2. order[m].id = order[x].id => x = m
      BY LookUp, Parts
    <3>3. order[m].id \in Nat /\ order[x].id \in Nat
      BY RestingAreSlots, AbstractFields, Parts
    <3> QED BY <3>1, <3>2, <3>3
  <2>4. x \in Slots /\ m \in Slots
    BY RestingAreSlots, Parts
  <2> QED BY <2>1, <2>2, <2>3, <2>4, AbstractFields
<1>5. ASSUME NEW x \in Resting, order[x].side = sd, x # m
      PROVE  PriceTime!Before(Abstract(m), Abstract(x))
  <2>1. \/ Better(sd, LevelOf(m), LevelOf(x))
        \/ LevelOf(m) = LevelOf(x) /\ order[m].id < order[x].id
    <3>1. /\ LevelOf(x) \in Levels /\ LevelOf(m) \in Levels
          /\ ~Better(sd, LevelOf(x), LevelOf(m))
          /\ LevelOf(x) = LevelOf(m) => order[m].id < order[x].id
      BY <1>4, <1>5
    <3>2. LevelOf(x) # LevelOf(m) => Better(sd, LevelOf(m), LevelOf(x))
      BY <3>1, LevelAssumption DEF Better, Levels
    <3> QED BY <3>1, <3>2
  <2> QED BY <1>2, <2>1, SamePrices DEF PriceTime!Before
<1>6. PriceTime!First(Abstract(m))
  BY <1>3, <1>5 DEF PriceTime!First
<1>7. ASSUME NEW o \in PriceTime!Offers, PriceTime!First(o)
      PROVE  PriceTime!PriceToIndex(o.price) = Opposing
  <2>1. PICK x \in Resting : order[x].side = sd /\ o = Abstract(x)
    BY <1>3
  <2>2. CASE o = Abstract(m)
    BY <1>2, <2>2
  <2>3. CASE o # Abstract(m)
    <3>1. PriceTime!Before(o, Abstract(m))
      BY <1>3, <1>7, <2>3 DEF PriceTime!First
    <3>2. \/ Better(sd, LevelOf(x), LevelOf(m))
          \/ LevelOf(x) = LevelOf(m)
      BY <1>2, <2>1, <3>1, SamePrices DEF PriceTime!Before
    <3> QED BY <1>2, <1>4, <2>1, <3>2
  <2> QED BY <2>2, <2>3
<1> QED BY <1>6, <1>7

LEMMA LeftOfOrder ==
  ASSUME NEW s, NEW q
  PROVE  PriceTime!Left(Abstract(s), q) =
           [id |-> order[s].id, type |-> order[s].type, client |-> order[s].client,
            side |-> order[s].side, price |-> order[s].price, qty |-> rem[s] - q]
BY DEF Abstract, PriceTime!Left

LEMMA FillMaps ==
  ASSUME IInv, Fill
  PROVE  PriceTime!Next
<1>1. PICK m \in Resting :
        LET q == IF rem[m] < rem[cur] THEN rem[m] ELSE rem[cur]
        IN /\ cur \in Slots /\ cur # NoSlot /\ cxl = NoSlot /\ cur \notin Resting
           /\ m = head[Opposite(order[cur].side)][Opposing]
           /\ order[m].side = Opposite(order[cur].side)
           /\ LevelOf(m) = Opposing /\ CanFill
           /\ rem' = [rem EXCEPT ![m] = @ - q, ![cur] = @ - q]
           /\ trades' = {TradeInfo(cur, order[m].price, q, OrderCopy(m), Execution(q, cur)),
                         TradeInfo(m, order[m].price, q, OrderCopy(cur), Execution(q, m))}
           /\ Resting' = IF rem[m] = q THEN Resting \ {m} ELSE Resting
           /\ UNCHANGED <<order, counter, cur, cxl>>
  BY FillEffect
<1> DEFINE q == IF rem[m] < rem[cur] THEN rem[m] ELSE rem[cur]
           a == Abstract(m)
           t == Abstract(cur)
<1>2. /\ m \in Slots /\ m # cur /\ rem \in [Slots -> Nat] /\ rem[cur] > 0
      /\ Opposing # NoLevel
  BY <1>1, RestingAreSlots, Parts DEF CanFill
<1>3. AbstractTaker = t /\ AbstractTaker' = Abstract(cur)' /\ t # NoSlot
  BY <1>1, AbstractFields DEF AbstractTaker
<1>4. AbstractBook = {Abstract(s) : s \in Resting} /\ a \in AbstractBook
  BY <1>1, NotExpiring
<1>5. q = (IF a.qty < t.qty THEN a.qty ELSE t.qty) /\ t.qty > 0 /\ a.price = order[m].price
  BY <1>2 DEF Abstract
<1>6. PriceTime!First(a)
  BY <1>1, <1>2, HeadIsFirst
<1>7. PriceTime!Tradable(a)
  <2>1. PriceTime!PriceToIndex(a.price) = Opposing
    BY <1>1, SamePrices DEF Abstract, LevelOf
  <2> QED BY <1>1, <1>3, <2>1, SamePrices DEF PriceTime!Tradable, CanFill, Abstract
<1>8. Abstract(cur)' = PriceTime!Left(t, q) /\ Abstract(m)' = PriceTime!Left(a, q)
  <2>1. rem'[cur] = rem[cur] - q /\ rem'[m] = rem[m] - q
    BY <1>1, <1>2
  <2>2. order' = order /\ cur' = cur
    BY <1>1
  <2> HIDE DEF q
  <2> QED BY <2>1, <2>2, LeftOfOrder DEF Abstract
<1>9. AbstractBook' = (AbstractBook \ {a}) \union (IF a.qty = q THEN {} ELSE {PriceTime!Left(a, q)})
  <2>1. Expiring' = NoSlot /\ NoSlot \notin Resting'
    BY <1>1, NotExpiring DEF Expiring
  <2>2. \A x \in Resting \ {m} : Abstract(x)' = Abstract(x)
    <3>1. \A x \in Resting \ {m} : x # cur /\ x \in Slots
      BY <1>1, RestingAreSlots, Parts
    <3> QED BY <1>1, <1>2, <3>1 DEF Abstract
  <2>3. AbstractBook \ {a} = {Abstract(x) : x \in Resting \ {m}}
    BY <1>4, AbstractIsInjective
  <2>4. Abstract(m)' = PriceTime!Left(a, q) /\ a.qty = rem[m]
    BY <1>8 DEF Abstract
  <2>5. AbstractBook' = {Abstract(x)' : x \in Resting'}
    BY <2>1 DEF AbstractBook
  <2>6. Resting' = IF rem[m] = q THEN Resting \ {m} ELSE Resting
    BY <1>1
  <2> HIDE DEF a, q
  <2>7. CASE rem[m] = q
    BY <2>2, <2>3, <2>4, <2>5, <2>6, <2>7
  <2>8. CASE rem[m] # q
    <3>1. Resting' = (Resting \ {m}) \union {m}
      BY <2>6, <2>8
    <3>2. AbstractBook' = {Abstract(x)' : x \in Resting \ {m}} \union {Abstract(m)'}
      BY <2>5, <3>1
    <3> QED BY <2>2, <2>3, <2>4, <2>8, <3>2
  <2> QED BY <2>7, <2>8
<1>10. trades' = {PriceTime!Report(t, a.price, q, a, PriceTime!Done(t, q)),
                  PriceTime!Report(a, a.price, q, t, PriceTime!Done(a, q))}
  <2> HIDE DEF a, t, q
  <2>1. ASSUME NEW s, NEW o
        PROVE  TradeInfo(s, order[m].price, q, OrderCopy(o), Execution(q, s))
                 = PriceTime!Report(Abstract(s), order[m].price, q, Abstract(o),
                                    PriceTime!Done(Abstract(s), q))
    <3>1. Execution(q, s) = PriceTime!Done(Abstract(s), q)
      BY DEF Execution, Abstract, PriceTime!Done
    <3> QED BY <3>1 DEF TradeInfo, OrderCopy, Abstract, PriceTime!Report
  <2>2. trades' = {TradeInfo(cur, order[m].price, q, OrderCopy(m), Execution(q, cur)),
                   TradeInfo(m, order[m].price, q, OrderCopy(cur), Execution(q, m))}
    BY <1>1 DEF q
  <2>3. a.price = order[m].price
    BY <1>5
  <2> QED BY <2>1, <2>2, <2>3 DEF a, t
<1>11. PriceTime!Trade(a)
  <2> HIDE DEF a, t, q
  <2> QED BY <1>1, <1>3, <1>5, <1>6, <1>7, <1>8, <1>9, <1>10 DEF PriceTime!Trade
<1> QED BY <1>4, <1>11 DEF PriceTime!Next

LEMMA RestMaps ==
  ASSUME IInv, Rest
  PROVE  PriceTime!Rest
<1>1. /\ cur # NoSlot /\ cur' = NoSlot /\ cxl = NoSlot /\ cxl' = NoSlot
      /\ order[cur].type = "LIMIT" /\ rem[cur] > 0 /\ ~CanFill
      /\ Resting' = Resting \union {cur} /\ trades' = {}
      /\ UNCHANGED <<order, rem, counter>>
  BY RestEffect
<1>2. cur \in Slots
  BY <1>1, OrderInHand
<1>3. /\ AbstractTaker = Abstract(cur) /\ AbstractTaker' = NoSlot /\ Abstract(cur) # NoSlot
      /\ Abstract(cur).type = "LIMIT" /\ Abstract(cur).qty > 0
  BY <1>1, <1>2, AbstractFields DEF AbstractTaker, Abstract
<1>4. AbstractBook' = AbstractBook \union {Abstract(cur)}
  <2>1. Expiring' = NoSlot /\ NoSlot \notin Resting'
    BY <1>1, <1>2, NotExpiring, SlotAssumption DEF Expiring
  <2>2. \A x : Abstract(x)' = Abstract(x)
    BY <1>1 DEF Abstract
  <2>3. AbstractBook = {Abstract(s) : s \in Resting}
    BY <1>1, NotExpiring
  <2> QED BY <1>1, <2>1, <2>2, <2>3 DEF AbstractBook
<1>5. ASSUME NEW o \in PriceTime!Offers, PriceTime!First(o)
      PROVE  ~PriceTime!Tradable(o)
  <2> DEFINE sd == Opposite(order[cur].side)
             h  == head[sd][Opposing]
  <2>1. PICK x \in Resting : order[x].side = sd
    BY <1>1, <1>3, <1>5, NotExpiring, SamePrices DEF PriceTime!Offers, Abstract
  <2>2. Opposing # NoLevel
    BY <2>1, BestBoundsResting DEF Opposing
  <2>3. h \in Resting /\ order[h].side = sd /\ LevelOf(h) = Opposing
    BY <1>1, <2>2, MatchedOrder
  <2>4. PriceTime!PriceToIndex(o.price) = Opposing
    BY <1>1, <1>5, <2>2, <2>3, HeadIsFirst
  <2>5. OutOfReach(order[cur].side, Opposing, order[cur].price)
    BY <1>1, <2>2 DEF CanFill
  <2> QED BY <1>1, <1>3, <2>4, <2>5, SamePrices DEF PriceTime!Tradable, Abstract
<1> QED BY <1>1, <1>3, <1>4, <1>5 DEF PriceTime!Rest

\* Adding a market order to the book in order to cancel it is not seen: it stays
\* the taker.
LEMMA MarketRestMaps ==
  ASSUME IInv, MarketRest, ~PoolExhausted
  PROVE  PriceTime!Delivered
<1>1. /\ cur # NoSlot /\ cur' = NoSlot /\ cxl = NoSlot
      /\ cxl' \in Slots /\ Resting' = Resting \union {cur}
      /\ \A x \in Resting \union {cur} : order'[x] = order[x] /\ rem'[x] = rem[x]
      /\ trades' = {} /\ counter' = counter /\ Expiring' = cur
  BY MarketRestEffect, MarketRestAlone
<1>2. cur \notin Resting /\ cxl' # NoSlot
  BY <1>1, OrderInHand, SlotAssumption
<1>3. \A x \in Resting \union {cur} : Abstract(x)' = Abstract(x)
  BY <1>1, AbstractUnchanged
<1>4. AbstractBook' = AbstractBook
  <2>1. Resting' \ {Expiring'} = Resting
    BY <1>1, <1>2
  <2>2. AbstractBook' = {Abstract(s)' : s \in Resting}
    BY <2>1 DEF AbstractBook
  <2> QED BY <1>1, <1>3, <2>2, NotExpiring
<1>5. AbstractTaker' = AbstractTaker
  <2>1. AbstractTaker = Abstract(cur)
    BY <1>1 DEF AbstractTaker
  <2>2. AbstractTaker' = Abstract(Expiring)'
    BY <1>1, <1>2 DEF AbstractTaker
  <2>3. Abstract(Expiring)' = Abstract(cur)
    BY <1>1 DEF Abstract
  <2> QED BY <2>1, <2>2, <2>3
<1> QED BY <1>1, <1>4, <1>5 DEF PriceTime!Delivered

LEMMA MarketCancelMaps ==
  ASSUME RefInv, MarketCancel
  PROVE  PriceTime!Expire
<1> DEFINE s == Expiring
<1>1. /\ cxl # NoSlot /\ cxl' = NoSlot /\ cur = NoSlot /\ cur' = NoSlot
      /\ s \in Resting /\ order[s].id = order[cxl].id /\ order[s].type = "MARKET"
      /\ order[s].side = order[cxl].side /\ order[s].price = order[cxl].price
      /\ Resting' = Resting \ {s}
      /\ trades' = {[TradeInfo(s, order[s].price, rem[s],
                               [id |-> order[cxl].id, price |-> order[cxl].price], "CANCEL")
                       EXCEPT !.side = order[cxl].side]}
      /\ UNCHANGED <<order, rem, counter>>
  BY MarketCancelEffect DEF RefInv, Expiring
<1> HIDE DEF s
<1>2. s \in Slots /\ rem[s] > 0
  BY <1>1, RestingAreSlots, Parts DEF RefInv, NumberedOrders
<1>3. /\ AbstractTaker = Abstract(s) /\ AbstractTaker' = NoSlot /\ Abstract(s) # NoSlot
      /\ Abstract(s).type = "MARKET" /\ Abstract(s).qty > 0 /\ Abstract(s).side = order[s].side
  BY <1>1, <1>2, AbstractFields DEF RefInv, AbstractTaker, Abstract, s
<1>4. PriceTime!Offers = {}
  <2>1. \A x \in Resting : order[x].side # Opposite(order[s].side)
    BY <1>1 DEF RefInv, ExpiringIsAlone, s
  <2>2. \A x : Abstract(x).side = order[x].side
    BY DEF Abstract
  <2> QED BY <1>3, <2>1, <2>2, SamePrices DEF PriceTime!Offers, AbstractBook
<1>5. AbstractBook' = AbstractBook
  <2>1. Expiring' = NoSlot /\ NoSlot \notin Resting
    BY <1>1, RestingAreSlots, SlotAssumption, Parts DEF RefInv, Expiring
  <2>2. \A x : Abstract(x)' = Abstract(x)
    BY <1>1 DEF Abstract
  <2> QED BY <1>1, <2>1, <2>2 DEF AbstractBook, s
<1>6. trades' = {PriceTime!Report(Abstract(s), Abstract(s).price, Abstract(s).qty, Abstract(s),
                                  "CANCEL")}
  BY <1>1 DEF TradeInfo, Abstract, PriceTime!Report
<1> QED BY <1>1, <1>3, <1>4, <1>5, <1>6 DEF PriceTime!Expire

LEMMA CompleteMaps ==
  ASSUME IInv, Complete
  PROVE  PriceTime!Finish
<1>1. /\ cur # NoSlot /\ cur' = NoSlot /\ cxl = NoSlot /\ cxl' = NoSlot
      /\ rem[cur] = 0 /\ trades' = {}
      /\ UNCHANGED <<order, rem, bookVars, counter>>
  BY CompleteEffect
<1>2. /\ AbstractTaker = Abstract(cur) /\ AbstractTaker' = NoSlot /\ Abstract(cur) # NoSlot
      /\ Abstract(cur).qty = 0
  BY <1>1, OrderInHand, AbstractFields DEF AbstractTaker, Abstract
<1>3. AbstractBook' = AbstractBook
  <2>1. Resting' = Resting /\ Expiring' = Expiring
    BY <1>1 DEF bookVars, Resting, Expiring
  <2>2. \A x : Abstract(x)' = Abstract(x)
    BY <1>1 DEF Abstract
  <2> QED BY <2>1, <2>2 DEF AbstractBook
<1> QED BY <1>1, <1>2, <1>3 DEF PriceTime!Finish

LEMMA MatchMaps ==
  ASSUME RefInv, Match
  PROVE  PriceTime!Next
<1>1. CASE Fill
  BY <1>1, FillMaps DEF RefInv
<1>2. CASE Rest
  BY <1>2, RestMaps DEF RefInv, PriceTime!Next
<1>3. CASE MarketRest /\ ~PoolExhausted
  BY <1>3, MarketRestMaps DEF RefInv, PriceTime!Next
<1>4. CASE MarketCancel
  BY <1>4, MarketCancelMaps DEF PriceTime!Next
<1>5. CASE Complete
  BY <1>5, CompleteMaps DEF RefInv, PriceTime!Next
<1>6. CASE PoolExhausted
  BY <1>6, PoolExhaustedIsQuiet, QuietMaps DEF RefInv, PriceTime!Next
<1> QED BY <1>1, <1>2, <1>3, <1>4, <1>5, <1>6 DEF Match

LEMMA DirectSubmitMaps ==
  ASSUME IInv, NEW type, NEW c \in Clients, NEW sd \in Sides, NEW p, NEW q,
         DirectSubmit(type, c, sd, p, q), ~PoolExhausted, IsRequest(type, sd, p, q)
  PROVE  PriceTime!Next
<1>1. /\ cur = NoSlot /\ cxl = NoSlot /\ cxl' = NoSlot
      /\ cur' \in Slots \ Resting
      /\ order'[cur'] = Request(counter + 1, type, c, sd, p) /\ rem'[cur'] = q
      /\ counter' = counter + 1 /\ trades' = {} /\ UNCHANGED bookVars
      /\ \A x \in Resting : order'[x] = order[x] /\ rem'[x] = rem[x]
  BY DirectSubmitEffect
<1>2. Abstract(cur)' = PriceTime!Order(counter + 1, type, c, sd, p, q)
  BY <1>1 DEF Abstract, Request, PriceTime!Order
<1> QED BY <1>1, <1>2, ArriveMaps

LEMMA DirectCancelMaps ==
  ASSUME IInv, NEW i \in Nat, NEW c \in Clients, NEW sd \in Sides, NEW p \in AllPrices,
         DirectCancel(i, c, sd, p)
  PROVE  PriceTime!Next
<1>1. CASE Quiet
  BY <1>1, QuietMaps DEF PriceTime!Next
<1>2. ASSUME NEW s \in Resting,
             cur = NoSlot, cxl = NoSlot, UNCHANGED <<cur, cxl, counter>>,
             Resting' = Resting \ {s},
             trades' = {TradeInfo(s, order[s].price, rem[s], OrderCopy(s), "CANCEL")},
             \A x \in Resting : order'[x] = order[x] /\ rem'[x] = rem[x]
      PROVE  PriceTime!Next
  <2>1. AbstractTaker = NoSlot /\ AbstractTaker' = NoSlot
    BY <1>2 DEF AbstractTaker
  <2>2. AbstractBook = {Abstract(x) : x \in Resting}
    BY <1>2, NotExpiring
  <2>3. AbstractBook' = AbstractBook \ {Abstract(s)}
    <3>1. Expiring' = NoSlot /\ NoSlot \notin Resting'
      BY <1>2, NotExpiring DEF Expiring
    <3>2. \A x \in Resting : Abstract(x)' = Abstract(x)
      BY <1>2, AbstractUnchanged
    <3>3. AbstractBook' = {Abstract(x)' : x \in Resting'}
      BY <3>1 DEF AbstractBook
    <3>4. \A x \in Resting : Abstract(x) = Abstract(s) => x = s
      BY AbstractIsInjective
    <3> QED BY <1>2, <2>2, <3>2, <3>3, <3>4
  <2>4. trades' = {PriceTime!Report(Abstract(s), Abstract(s).price, Abstract(s).qty, Abstract(s),
                                    "CANCEL")}
    BY <1>2 DEF TradeInfo, OrderCopy, Abstract, PriceTime!Report
  <2>5. PriceTime!Cancel(Abstract(s))
    BY <1>2, <2>1, <2>2, <2>3, <2>4 DEF PriceTime!Cancel
  <2> QED BY <2>2, <2>5 DEF PriceTime!Next
<1> QED BY <1>1, <1>2, DirectCancelEffect

-----------------------------------------------------------------------------

LEMMA StutterMaps ==
  ASSUME UNCHANGED vars
  PROVE  UNCHANGED PriceTime!vars
BY DEF vars, engineVars, bookVars, PriceTime!vars, AbstractBook, AbstractTaker, Abstract,
       Expiring, Resting

LEMMA NextMaps == RefInv /\ [Next]_vars => [PriceTime!Next]_(PriceTime!vars)
<1> SUFFICES ASSUME RefInv, [Next]_vars PROVE [PriceTime!Next]_(PriceTime!vars)
  OBVIOUS
<1>1. CASE AgentStep
  BY <1>1, AgentStepIsQuiet, QuietMaps DEF RefInv, PriceTime!Next
<1>2. CASE PopOrder
  BY <1>2, PopOrderMaps
<1>3. CASE PopCancel
  BY <1>3, PopCancelMaps DEF RefInv, PriceTime!Next
<1>4. CASE Match
  BY <1>4, MatchMaps
<1>5. CASE UNCHANGED vars
  BY <1>5, StutterMaps
<1> QED BY <1>1, <1>2, <1>3, <1>4, <1>5 DEF Next, EngineStep

LEMMA DirectNextMaps == RefInv /\ [DirectNext]_vars => [PriceTime!Next]_(PriceTime!vars)
<1> SUFFICES ASSUME RefInv, [DirectNext]_vars PROVE [PriceTime!Next]_(PriceTime!vars)
  OBVIOUS
<1>1. CASE Quiet
  BY <1>1, QuietMaps DEF RefInv, PriceTime!Next
<1>2. ASSUME NEW type \in {"LIMIT", "MARKET"}, NEW c \in Clients, NEW sd \in Sides,
             NEW p \in AllPrices, NEW q \in Quantities,
             p \in LimitPrices,
             DirectSubmit(type, c, sd, p, q), ~PoolExhausted
      PROVE  PriceTime!Next
  <2>1. IsRequest(type, sd, p, q)
    BY <1>2 DEF IsRequest
  <2> QED BY <1>2, <2>1, DirectSubmitMaps DEF RefInv
<1>3. ASSUME NEW i \in Nat, NEW c \in Clients, NEW sd \in Sides, NEW p \in AllPrices,
             DirectCancel(i, c, sd, p)
      PROVE  PriceTime!Next
  BY <1>3, DirectCancelMaps DEF RefInv
<1>4. CASE Match
  BY <1>4, MatchMaps
<1>5. CASE UNCHANGED vars
  BY <1>5, StutterMaps
<1> QED BY <1>1, <1>2, <1>3, <1>4, <1>5, DirectNextCases DEF RefInv

\* The threaded engine implements the price-time book, whatever the agents send
\* and however their thread runs against the engine's (MatchingEngine.cpp:8-105).
THEOREM EngineImplementsPriceTime == Spec => ImplementsPriceTime
<1>1. Init => RefInv /\ PriceTime!Init
  BY InitRefInv, InitMaps
<1> QED BY <1>1, NextKeepsRefInv, NextMaps, PTL DEF Spec, ImplementsPriceTime, PriceTime!Spec

\* The same when ProcessOrder is called directly: then cancels are honoured too.
THEOREM DirectImplementsPriceTime == DirectSpec => ImplementsPriceTime
<1>1. Init => RefInv /\ PriceTime!Init
  BY InitRefInv, InitMaps
<1> QED BY <1>1, DirectNextKeepsRefInv, DirectNextMaps, PTL
      DEF DirectSpec, ImplementsPriceTime, PriceTime!Spec

=============================================================================
