------------------------ MODULE MatchingEngineProofs ------------------------
(***************************************************************************)
(* The invariants of the matching engine hold for any pool, ring buffer,   *)
(* price grid and number of orders, in the threaded program and when       *)
(* ProcessOrder is called directly.                                        *)
(***************************************************************************)
EXTENDS EngineProperties, OrderbookProofs, SequenceTheorems

\* Typing needs the levels: FillOrder takes the node at the head of the best
\* level. The levels need ids that grow and nodes with one holder: an order
\* enters the book at the tail, and no link leads to a recycled node.
IInv ==
  /\ TypeOK
  /\ NodesHaveOneHolder
  /\ LevelsAreQueues
  /\ BestIsExact
  /\ NumberedOrders

LEMMA InitIInv == Init => IInv
<1> SUFFICES ASSUME Init PROVE IInv
  OBVIOUS
<1> USE DEF Init, BookInit
<1>1. AnyClient \in Clients
  BY ClientAssumption DEF AnyClient
<1>2. 0 \in AllPrices
  <2>1. MarketPrice("Sell") = 0 /\ "Sell" \in Sides
    BY DEF MarketPrice, Sides
  <2> QED BY <2>1 DEF AllPrices
<1>3. NodesTypeOK
  BY <1>1, <1>2 DEF NodesTypeOK, OrderData, OrderTypes, Sides
<1>4. LinksTypeOK
  BY DEF LinksTypeOK, SlotOrNone
<1>5. Resting = {} /\ DOMAIN orderMap = {} /\ Queued = {} /\ InHand = {}
  BY DEF Resting, Queued, InHand
<1>6. TypeOK
  <2>1. orders \in Seq(Slots) /\ Len(orders) = 0
    BY EmptySeq
  <2>2. Len(orders) <= QueueCap
    BY <2>1, QueueAssumption
  <2>3. /\ counter \in Nat /\ cur \in SlotOrNone /\ cxl \in SlotOrNone
        /\ dropped \subseteq Slots /\ crashed \in BOOLEAN
    BY DEF SlotOrNone
  <2> HIDE DEF Init, BookInit
  <2> QED BY <1>3, <1>4, <2>1, <2>2, <2>3 DEF TypeOK
<1>7. LevelsAreQueues
  BY <1>5 DEF LevelsAreQueues, EndsOfLevel
<1>8. BestIsExact
  BY DEF BestIsExact
<1>9. NodesHaveOneHolder
  BY <1>5 DEF NodesHaveOneHolder
<1>10. NumberedOrders
  BY <1>5 DEF NumberedOrders, MapIsSound
<1> QED BY <1>6, <1>7, <1>8, <1>9, <1>10 DEF IInv

-----------------------------------------------------------------------------
(* Steps that leave the book alone                                         *)

LEMMA SameBook ==
  ASSUME LinksTypeOK, MapIsSound, LevelsAreQueues, BestIsExact,
         UNCHANGED bookVars,
         \A x \in Resting : order'[x] = order[x]
  PROVE  /\ LinksTypeOK' /\ MapIsSound' /\ LevelsAreQueues' /\ BestIsExact'
         /\ Resting' = Resting /\ DOMAIN orderMap' = DOMAIN orderMap
<1>1. UNCHANGED <<prev, next, head, tail, bits, best, orderMap>>
  BY DEF bookVars, listVars, levelVars
<1>2. Resting' = Resting
  BY <1>1 DEF Resting
<1>3. \A x \in Resting :
         /\ order'[x].side = order[x].side
         /\ order'[x].id = order[x].id
         /\ LevelOf(x)' = LevelOf(x)
  BY SameNode
<1>4. LinksTypeOK' /\ BestIsExact'
  BY <1>1 DEF LinksTypeOK, BestIsExact
<1>5. MapIsSound'
  BY <1>1, <1>3 DEF MapIsSound, Resting
<1>6. ASSUME NEW x \in Resting
      PROVE  LinkedBack(x)' /\ LinkedForward(x)'
  <2>1. LinkedBack(x) /\ LinkedForward(x)
    BY DEF LevelsAreQueues
  <2>2. LinkedBack(x)'
    BY <1>1, <1>2, <1>3, <2>1 DEF LinkedBack, SameLevel
  <2>3. LinkedForward(x)'
    BY <1>1, <1>2, <1>3, <2>1 DEF LinkedForward
  <2> QED BY <2>2, <2>3
<1>7. ASSUME NEW d \in Sides, NEW k \in Levels
      PROVE  EndsOfLevel(d, k)'
  <2>1. EndsOfLevel(d, k)
    BY DEF LevelsAreQueues
  <2> QED BY <1>1, <1>2, <1>3, <2>1 DEF EndsOfLevel
<1>8. LevelsAreQueues'
  BY <1>2, <1>6, <1>7 DEF LevelsAreQueues
<1> QED BY <1>1, <1>2, <1>4, <1>5, <1>8

LEMMA StutterKeepsIInv ==
  ASSUME IInv, UNCHANGED vars
  PROVE  IInv'
<1>1. /\ UNCHANGED <<order, rem, free, trades, counter, cur, cxl, orders, dropped, crashed>>
      /\ UNCHANGED bookVars
  BY DEF vars, engineVars, queueVars
<1>2. /\ LinksTypeOK' /\ MapIsSound' /\ LevelsAreQueues' /\ BestIsExact'
      /\ Resting' = Resting /\ orderMap' = orderMap
  BY <1>1, SameBook DEF IInv, TypeOK, NumberedOrders, bookVars
<1>3. Queued' = Queued /\ InHand' = InHand
  BY <1>1 DEF Queued, InHand
<1>4. TypeOK'
  BY <1>1, <1>2 DEF IInv, TypeOK, NodesTypeOK
<1>5. NodesHaveOneHolder' /\ NumberedOrders'
  BY <1>1, <1>2, <1>3 DEF IInv, NodesHaveOneHolder, NumberedOrders
<1> QED BY <1>2, <1>4, <1>5 DEF IInv

\* Push and Pop on the ring buffer's contents.
LEMMA AppendQueue ==
  ASSUME orders \in Seq(Slots), NEW s \in Slots, s \notin Queued,
         \A k, m \in DOMAIN orders : orders[k] = orders[m] => k = m,
         orders' = Append(orders, s)
  PROVE  /\ orders' \in Seq(Slots) /\ Len(orders') = Len(orders) + 1
         /\ Queued' = Queued \union {s}
         /\ \A k, m \in DOMAIN orders' : orders'[k] = orders'[m] => k = m
<1>1. /\ orders' \in Seq(Slots) /\ Len(orders') = Len(orders) + 1
      /\ \A k \in 1..Len(orders) : orders'[k] = orders[k]
      /\ orders'[Len(orders) + 1] = s
  BY AppendProperties
<1>2. /\ DOMAIN orders = 1..Len(orders) /\ Len(orders) \in Nat
      /\ DOMAIN orders' = DOMAIN orders \union {Len(orders) + 1}
  BY <1>1
<1>3. Queued' = Queued \union {s}
  BY <1>1, <1>2 DEF Queued
<1>4. \A k \in DOMAIN orders : orders[k] # s
  BY DEF Queued
<1> QED BY <1>1, <1>2, <1>3, <1>4

LEMMA TailQueue ==
  ASSUME orders \in Seq(Slots), orders # <<>>,
         \A k, m \in DOMAIN orders : orders[k] = orders[m] => k = m,
         orders' = Tail(orders)
  PROVE  /\ Head(orders) \in Slots /\ Head(orders) \in Queued
         /\ orders' \in Seq(Slots) /\ Len(orders') <= Len(orders)
         /\ Queued' = Queued \ {Head(orders)}
         /\ \A k, m \in DOMAIN orders' : orders'[k] = orders'[m] => k = m
<1>1. /\ orders' \in Seq(Slots) /\ Len(orders') = Len(orders) - 1
      /\ \A k \in 1..Len(orders') : orders'[k] = orders[k + 1]
      /\ Head(orders) = orders[1] /\ Len(orders) \in Nat /\ Len(orders) >= 1
  BY HeadTailProperties, EmptySeq
<1>2. DOMAIN orders = 1..Len(orders) /\ DOMAIN orders' = 1..Len(orders')
  BY <1>1
<1>3. Head(orders) \in Slots /\ Head(orders) \in Queued
  BY <1>1, <1>2 DEF Queued
<1>4. \A k, m \in DOMAIN orders' : orders'[k] = orders'[m] => k = m
  BY <1>1, <1>2
<1>5. Queued' \subseteq Queued \ {Head(orders)}
  BY <1>1, <1>2 DEF Queued
<1>6. ASSUME NEW x \in Queued \ {Head(orders)}
      PROVE  x \in Queued'
  <2>1. PICK k \in DOMAIN orders : x = orders[k]
    BY DEF Queued
  <2>2. k \in 2..Len(orders)
    BY <1>1, <1>2, <2>1
  <2>3. k - 1 \in DOMAIN orders' /\ orders'[k - 1] = x
    BY <1>1, <1>2, <2>1, <2>2
  <2> QED BY <2>3 DEF Queued
<1> QED BY <1>1, <1>3, <1>4, <1>5, <1>6

-----------------------------------------------------------------------------
(* The thread of the agents                                                *)

LEMMA PoolExhaustedKeepsIInv ==
  ASSUME IInv, PoolExhausted
  PROVE  IInv'
<1>1. /\ UNCHANGED <<order, rem, free, counter, cur, cxl, orders, dropped>>
      /\ UNCHANGED bookVars
      /\ crashed' = TRUE /\ trades' = {}
  BY DEF PoolExhausted, engineVars, queueVars
<1>2. /\ LinksTypeOK' /\ MapIsSound' /\ LevelsAreQueues' /\ BestIsExact'
      /\ Resting' = Resting /\ orderMap' = orderMap
  BY <1>1, SameBook DEF IInv, TypeOK, NumberedOrders, bookVars
<1>3. Queued' = Queued /\ InHand' = InHand
  BY <1>1 DEF Queued, InHand
<1>4. NodesTypeOK'
  BY <1>1 DEF IInv, TypeOK, NodesTypeOK
<1>5. TypeOK'
  BY <1>1, <1>2, <1>4 DEF IInv, TypeOK
<1>6. NodesHaveOneHolder'
  BY <1>1, <1>2, <1>3 DEF IInv, NodesHaveOneHolder
<1>7. NumberedOrders'
  BY <1>1, <1>2 DEF IInv, NumberedOrders
<1> QED BY <1>2, <1>5, <1>6, <1>7 DEF IInv

\* A node fresh from the pool goes into the ring buffer, or is lost.
LEMMA SubmitKeepsIInv ==
  ASSUME IInv, NEW data \in OrderData, NEW q \in Nat, Submit(data, q)
  PROVE  IInv'
<1>1. CASE PoolExhausted
  BY <1>1, PoolExhaustedKeepsIInv
<1>2. CASE \E s \in free : Allocate(s, data, q) /\ Push(s) /\ trades' = {}
                          /\ UNCHANGED <<bookVars, engineVars, crashed>>
  <2>1. PICK s \in free :
          /\ Allocate(s, data, q) /\ Push(s) /\ trades' = {}
          /\ UNCHANGED bookVars /\ UNCHANGED <<counter, cur, cxl, crashed>>
    BY <1>2 DEF engineVars
  <2>2. TypeOK /\ NodesTypeOK /\ LinksTypeOK /\ NodesHaveOneHolder /\ NumberedOrders /\ s \in Slots
    BY <2>1 DEF IInv, TypeOK, NodesTypeOK
  <2>3. s \notin Queued \union InHand \union Resting \union dropped
    BY <2>1, <2>2 DEF NodesHaveOneHolder
  <2>4. /\ free' = free \ {s}
        /\ order' = [order EXCEPT ![s] = data]
        /\ rem' = [rem EXCEPT ![s] = q]
    BY <2>1 DEF Allocate
  <2>5. \A x \in Slots \ {s} : order'[x] = order[x] /\ rem'[x] = rem[x]
    BY <2>2, <2>4 DEF NodesTypeOK
  <2>6. Resting \subseteq Slots \ {s}
    BY <2>2, <2>3, RestingAreSlots
  <2>7. /\ LinksTypeOK' /\ MapIsSound' /\ LevelsAreQueues' /\ BestIsExact'
        /\ Resting' = Resting /\ orderMap' = orderMap
    BY <2>1, <2>2, <2>5, <2>6, SameBook DEF IInv, NumberedOrders, bookVars
  <2>8. NodesTypeOK'
    BY <2>1, <2>2, <2>4 DEF NodesTypeOK
  <2>9. InHand' = InHand
    BY <2>1 DEF InHand
  <2>10. /\ orders' \in Seq(Slots) /\ Len(orders') <= QueueCap
         /\ dropped' \subseteq Slots
         /\ \/ Queued' = Queued \union {s} /\ dropped' = dropped
            \/ Queued' = Queued /\ dropped' = dropped \union {s}
         /\ \A k, m \in DOMAIN orders' : orders'[k] = orders'[m] => k = m
    <3>1. CASE Len(orders) < QueueCap /\ orders' = Append(orders, s) /\ dropped' = dropped
      <4>1. Len(orders) \in Nat /\ QueueCap \in Nat
        BY <2>2, QueueAssumption DEF TypeOK
      <4>2. /\ orders \in Seq(Slots)
            /\ \A k, m \in DOMAIN orders : orders[k] = orders[m] => k = m
        BY <2>2 DEF TypeOK, NodesHaveOneHolder
      <4>3. /\ orders' \in Seq(Slots) /\ Len(orders') = Len(orders) + 1
            /\ Queued' = Queued \union {s}
            /\ \A k, m \in DOMAIN orders' : orders'[k] = orders'[m] => k = m
        BY <2>2, <2>3, <3>1, <4>2, AppendQueue
      <4> QED BY <2>2, <3>1, <4>1, <4>3 DEF TypeOK
    <3>2. CASE dropped' = dropped \union {s} /\ UNCHANGED orders
      <4>1. Queued' = Queued
        BY <3>2 DEF Queued
      <4> QED BY <2>2, <3>2, <4>1 DEF TypeOK, NodesHaveOneHolder
    <3> QED BY <2>1, <3>1, <3>2 DEF Push
  <2>11. TypeOK'
    BY <2>1, <2>2, <2>7, <2>8, <2>10 DEF TypeOK
  <2>12. NodesHaveOneHolder'
    BY <2>1, <2>2, <2>3, <2>4, <2>7, <2>9, <2>10 DEF NodesHaveOneHolder
  <2>13. NumberedOrders'
    <3>1. cur # s /\ cxl # s
      BY <2>2, <2>3, SlotAssumption DEF InHand
    <3>2. /\ cur # NoSlot => order'[cur] = order[cur]
          /\ cxl # NoSlot => order'[cxl] = order[cxl] /\ orderMap[order[cxl].id] \in Resting
      BY <2>2, <2>5, <3>1 DEF TypeOK, SlotOrNone, NumberedOrders, Resting
    <3> QED BY <2>1, <2>2, <2>5, <2>6, <2>7, <3>2 DEF NumberedOrders
  <2> QED BY <2>7, <2>11, <2>12, <2>13 DEF IInv
<1> QED BY <1>1, <1>2 DEF Submit

LEMMA AgentStepKeepsIInv ==
  ASSUME IInv, AgentStep
  PROVE  IInv'
<1>1. order \in [Slots -> OrderData]
  BY DEF IInv, TypeOK, NodesTypeOK
<1>2. ASSUME NEW c \in Clients, NEW sd \in Sides, NEW p \in LimitPrices, NEW q \in Quantities,
             SubmitLimit(c, sd, p, q)
      PROVE  IInv'
  <2>1. Request(0, "LIMIT", c, sd, p) \in OrderData
    BY DEF Request, OrderData, OrderTypes, AllPrices
  <2> QED BY <1>2, <2>1, SubmitKeepsIInv, QuantityAssumption DEF SubmitLimit
<1>3. ASSUME NEW c \in Clients, NEW sd \in Sides, NEW q \in Quantities, SubmitMarket(c, sd, q)
      PROVE  IInv'
  <2>1. Request(0, "MARKET", c, sd, MarketPrice(sd)) \in OrderData
    BY DEF Request, OrderData, OrderTypes, AllPrices
  <2> QED BY <1>3, <2>1, SubmitKeepsIInv, QuantityAssumption DEF SubmitMarket
<1>4. ASSUME NEW s \in Slots, SubmitCancel(s)
      PROVE  IInv'
  <2>1. Request(order[s].id, "CANCEL", order[s].client, order[s].side, order[s].price) \in OrderData
    BY <1>1 DEF Request, OrderData, OrderTypes
  <2> QED BY <1>4, <2>1, SubmitKeepsIInv DEF SubmitCancel
<1> QED BY <1>2, <1>3, <1>4 DEF AgentStep

-----------------------------------------------------------------------------
(* The engine thread                                                       *)

\* The parts of the invariant, with the facts every engine step needs.
LEMMA Parts ==
  ASSUME IInv
  PROVE  /\ TypeOK /\ NodesTypeOK /\ LinksTypeOK
         /\ order \in [Slots -> OrderData] /\ rem \in [Slots -> Nat]
         /\ MapIsSound /\ LevelsAreQueues /\ BestIsExact
         /\ NodesHaveOneHolder /\ NumberedOrders
         /\ Resting \subseteq Slots /\ Queued \subseteq Slots /\ InHand \subseteq Slots
         /\ counter \in Nat
<1>1. /\ TypeOK /\ NodesTypeOK /\ LinksTypeOK
      /\ order \in [Slots -> OrderData] /\ rem \in [Slots -> Nat]
      /\ MapIsSound /\ LevelsAreQueues /\ BestIsExact
      /\ NodesHaveOneHolder /\ NumberedOrders /\ counter \in Nat
  BY DEF IInv, TypeOK, NodesTypeOK, NumberedOrders
<1>2. Slots = free \union Queued \union InHand \union Resting \union dropped
  BY <1>1 DEF NodesHaveOneHolder
<1> QED BY <1>1, <1>2

LEMMA PopOrderKeepsIInv ==
  ASSUME IInv, PopOrder
  PROVE  IInv'
<1> DEFINE h == Head(orders)
<1>1. /\ Idle /\ orders # <<>> /\ order[h].type # "CANCEL"
      /\ orders' = Tail(orders) /\ counter' = counter + 1
      /\ order' = [order EXCEPT ![h].id = counter + 1]
      /\ cur' = h /\ trades' = {}
      /\ UNCHANGED bookVars /\ UNCHANGED <<rem, free, cxl, dropped, crashed>>
  BY DEF PopOrder
<1>2. /\ orders \in Seq(Slots) /\ Len(orders) \in Nat
      /\ \A k, m \in DOMAIN orders : orders[k] = orders[m] => k = m
  BY Parts DEF TypeOK, NodesHaveOneHolder
<1>3. /\ h \in Slots /\ h \in Queued
      /\ orders' \in Seq(Slots) /\ Len(orders') <= Len(orders)
      /\ Queued' = Queued \ {h}
      /\ \A k, m \in DOMAIN orders' : orders'[k] = orders'[m] => k = m
  BY <1>1, <1>2, TailQueue
<1> HIDE DEF h
<1>4. h \notin free \union InHand \union Resting \union dropped
  BY <1>3, Parts DEF NodesHaveOneHolder
<1>5. /\ order' \in [Slots -> OrderData]
      /\ order'[h] = [order[h] EXCEPT !.id = counter + 1]
      /\ \A x \in Slots \ {h} : order'[x] = order[x]
  <2>1. [order[h] EXCEPT !.id = counter + 1] \in OrderData
    <3>1. order[h] \in OrderData /\ counter + 1 \in Nat
      BY <1>3, Parts
    <3> QED BY <3>1 DEF OrderData
  <2> QED BY <1>1, <1>3, <2>1, Parts
<1>6. order'[h].id = counter + 1 /\ order'[h].type = order[h].type
  BY <1>3, <1>5, Parts DEF OrderData
<1>7. /\ LinksTypeOK' /\ MapIsSound' /\ LevelsAreQueues' /\ BestIsExact'
      /\ Resting' = Resting /\ orderMap' = orderMap
  BY <1>1, <1>4, <1>5, SameBook, Parts DEF bookVars
<1>8. NoSlot \notin Slots /\ cur = NoSlot /\ cxl = NoSlot
  BY <1>1, SlotAssumption DEF Idle
<1>9. InHand = {} /\ InHand' = {h} /\ h # NoSlot
  BY <1>1, <1>3, <1>8 DEF InHand
<1>10. NodesTypeOK'
  BY <1>1, <1>5, Parts DEF NodesTypeOK
<1>11. TypeOK'
  <2>1. Len(orders') \in Nat /\ Len(orders) <= QueueCap /\ QueueCap \in Nat
    BY <1>3, Parts, QueueAssumption DEF TypeOK
  <2> QED BY <1>1, <1>2, <1>3, <1>7, <1>10, <2>1, Parts DEF TypeOK, SlotOrNone
<1>12. NodesHaveOneHolder'
  <2>1. NodesHaveOneHolder
    BY Parts
  <2> QED BY <1>1, <1>3, <1>4, <1>7, <1>8, <1>9, <2>1 DEF NodesHaveOneHolder
<1>13. NumberedOrders'
  <2>1. (\A i \in DOMAIN orderMap' : i <= counter') /\ counter' \notin DOMAIN orderMap'
    <3>1. DOMAIN orderMap \subseteq Nat /\ \A i \in DOMAIN orderMap : i <= counter
      BY Parts DEF LinksTypeOK, NumberedOrders
    <3> QED BY <1>1, <1>7, <3>1, Parts
  <2>2. \A s \in Resting' : rem'[s] > 0 /\ order'[s].type # "CANCEL"
    BY <1>1, <1>4, <1>5, <1>7, Parts DEF NumberedOrders
  <2> QED BY <1>1, <1>6, <1>7, <1>8, <2>1, <2>2 DEF NumberedOrders
<1> QED BY <1>7, <1>11, <1>12, <1>13 DEF IInv

LEMMA RestKeepsIInv ==
  ASSUME IInv, Rest
  PROVE  IInv'
<1>1. /\ cur # NoSlot /\ order[cur].type = "LIMIT" /\ rem[cur] > 0
      /\ AddOrder(cur) /\ cur' = NoSlot /\ trades' = {}
      /\ UNCHANGED <<order, rem, free, counter, cxl, orders, dropped, crashed>>
  BY DEF Rest, queueVars
<1>2. /\ cur \in Slots /\ order[cur].id = counter /\ counter \notin DOMAIN orderMap
      /\ cxl = NoSlot /\ InHand = {cur} /\ \A i \in DOMAIN orderMap : i <= counter
  BY <1>1, Parts DEF TypeOK, SlotOrNone, NumberedOrders, NodesHaveOneHolder, InHand
<1>3. cur \notin free \union Queued \union Resting \union dropped
  BY <1>2, Parts DEF NodesHaveOneHolder
<1>4. \A i \in DOMAIN orderMap : i < order[cur].id
  <2>1. DOMAIN orderMap \subseteq Nat
    BY Parts DEF LinksTypeOK
  <2> QED BY <1>2, <2>1, Parts
<1>5. /\ LinksTypeOK' /\ MapIsSound' /\ LevelsAreQueues' /\ BestIsExact'
      /\ DOMAIN orderMap' = DOMAIN orderMap \union {counter}
      /\ Resting' = Resting \union {cur}
  BY <1>1, <1>2, <1>3, <1>4, AddOrderKeepsBook, Parts
<1>6. InHand' = {} /\ Queued' = Queued
  BY <1>1, <1>2 DEF InHand, Queued
<1>7. TypeOK'
  BY <1>1, <1>5, Parts DEF TypeOK, NodesTypeOK, SlotOrNone
<1>8. NodesHaveOneHolder'
  <2>1. NodesHaveOneHolder
    BY Parts
  <2> QED BY <1>1, <1>2, <1>3, <1>5, <1>6, <2>1 DEF NodesHaveOneHolder
<1>9. NumberedOrders'
  <2>1. \A i \in DOMAIN orderMap' : i <= counter'
    BY <1>1, <1>2, <1>5, Parts
  <2>2. \A s \in Resting' : rem'[s] > 0 /\ order'[s].type # "CANCEL"
    BY <1>1, <1>5, Parts DEF NumberedOrders
  <2> QED BY <1>1, <1>2, <1>5, <2>1, <2>2 DEF NumberedOrders
<1> QED BY <1>5, <1>7, <1>8, <1>9 DEF IInv

LEMMA CompleteKeepsIInv ==
  ASSUME IInv, Complete
  PROVE  IInv'
<1>1. /\ cur # NoSlot /\ free' = free \union {cur}
      /\ cur' = NoSlot /\ trades' = {}
      /\ UNCHANGED bookVars
      /\ UNCHANGED <<order, rem, counter, cxl, orders, dropped, crashed>>
  BY DEF Complete, queueVars, Deallocate
<1>2. /\ cur \in Slots /\ cxl = NoSlot /\ InHand = {cur}
  BY <1>1, Parts DEF TypeOK, SlotOrNone, NodesHaveOneHolder, InHand
<1>3. cur \notin free \union Queued \union Resting \union dropped
  BY <1>2, Parts DEF NodesHaveOneHolder
<1>4. /\ LinksTypeOK' /\ MapIsSound' /\ LevelsAreQueues' /\ BestIsExact'
      /\ Resting' = Resting /\ orderMap' = orderMap
  BY <1>1, SameBook, Parts DEF bookVars
<1>5. InHand' = {} /\ Queued' = Queued
  BY <1>1, <1>2 DEF InHand, Queued
<1>6. TypeOK'
  BY <1>1, <1>2, <1>4, Parts DEF TypeOK, NodesTypeOK, SlotOrNone
<1>7. NodesHaveOneHolder'
  <2>1. NodesHaveOneHolder
    BY Parts
  <2> QED BY <1>1, <1>2, <1>3, <1>4, <1>5, <2>1 DEF NodesHaveOneHolder
<1>8. NumberedOrders'
  BY <1>1, <1>2, <1>4, Parts DEF NumberedOrders
<1> QED BY <1>4, <1>6, <1>7, <1>8 DEF IInv

\* A cancel removes the order it names, if the book has it, and gives back both
\* nodes (Orderbook.cpp:159-207, MatchingEngine.cpp:88-91).
LEMMA CancelOrderKeepsBook ==
  ASSUME IInv,
         NEW c \in Slots,
         NEW request \in OrderData,
         \A x \in Resting : order'[x] = order[x],
         CancelOrder(c, request)
  PROVE  /\ LinksTypeOK' /\ MapIsSound' /\ LevelsAreQueues' /\ BestIsExact'
         /\ trades' \subseteq TradeInfos
         /\ \/ /\ request.id \notin DOMAIN orderMap
               /\ UNCHANGED <<bookVars, orderMap, Resting>>
               /\ free' = free \union {c} /\ trades' = {}
            \/ /\ request.id \in DOMAIN orderMap
               /\ orderMap[request.id] \in Resting
               /\ DOMAIN orderMap' = DOMAIN orderMap \ {request.id}
               /\ \A i \in DOMAIN orderMap' : orderMap'[i] = orderMap[i]
               /\ Resting' = Resting \ {orderMap[request.id]}
               /\ free' = free \union {orderMap[request.id], c}
<1>1. CASE request.id \notin DOMAIN orderMap
  <2>1. trades' = {} /\ free' = free \union {c} /\ UNCHANGED bookVars
    BY <1>1 DEF CancelOrder, Deallocate
  <2>2. /\ LinksTypeOK' /\ MapIsSound' /\ LevelsAreQueues' /\ BestIsExact'
        /\ Resting' = Resting /\ orderMap' = orderMap
    BY <2>1, SameBook, Parts DEF bookVars
  <2> QED BY <1>1, <2>1, <2>2
<1>2. CASE request.id \in DOMAIN orderMap
  <2> DEFINE s == orderMap[request.id]
             copy == [id |-> request.id, price |-> request.price]
             info == [TradeInfo(s, order[s].price, rem[s], copy, "CANCEL") EXCEPT !.side = request.side]
  <2>1. /\ trades' = {info} /\ Unlink(s) /\ free' = free \union {s, c}
    BY <1>2 DEF CancelOrder, Deallocate
  <2>2. s \in Resting /\ order[s].id = request.id /\ s \in Slots
    BY <1>2, Parts DEF Resting, MapIsSound
  <2>3. /\ LinksTypeOK' /\ MapIsSound' /\ LevelsAreQueues' /\ BestIsExact'
        /\ DOMAIN orderMap' = DOMAIN orderMap \ {request.id}
        /\ Resting' = Resting \ {s}
        /\ \A i \in DOMAIN orderMap' : orderMap'[i] = orderMap[i]
    <3> HIDE DEF s
    <3> QED BY <2>1, <2>2, UnlinkKeepsBook, Parts
  <2>4. info \in TradeInfos
    <3>1. order[s] \in OrderData /\ rem[s] \in Nat
      BY <2>2, Parts
    <3> HIDE DEF s
    <3> QED BY <3>1 DEF TradeInfo, TradeInfos, OrderData
  <2> HIDE DEF info
  <2> QED BY <1>2, <2>1, <2>2, <2>3, <2>4
<1> QED BY <1>1, <1>2

LEMMA PopCancelKeepsIInv ==
  ASSUME IInv, PopCancel
  PROVE  IInv'
<1> DEFINE h == Head(orders)
           request == [order[h] EXCEPT !.id = counter + 1]
<1>1. /\ Idle /\ orders # <<>>
      /\ orders' = Tail(orders) /\ counter' = counter + 1
      /\ order' = [order EXCEPT ![h].id = counter + 1]
      /\ CancelOrder(h, request)
      /\ UNCHANGED <<rem, cur, cxl, dropped, crashed>>
  BY DEF PopCancel
<1>2. /\ orders \in Seq(Slots) /\ Len(orders) \in Nat
      /\ \A k, m \in DOMAIN orders : orders[k] = orders[m] => k = m
  BY Parts DEF TypeOK, NodesHaveOneHolder
<1>3. /\ h \in Slots /\ h \in Queued
      /\ orders' \in Seq(Slots) /\ Len(orders') <= Len(orders)
      /\ Queued' = Queued \ {h}
      /\ \A k, m \in DOMAIN orders' : orders'[k] = orders'[m] => k = m
  BY <1>1, <1>2, TailQueue
<1> HIDE DEF h
<1>4. h \notin free \union InHand \union Resting \union dropped
  BY <1>3, Parts DEF NodesHaveOneHolder
<1>5. request \in OrderData /\ request.id = counter + 1
  <2>1. order[h] \in OrderData /\ counter + 1 \in Nat
    BY <1>3, Parts
  <2> QED BY <2>1 DEF OrderData
<1>6. order' \in [Slots -> OrderData] /\ \A x \in Slots \ {h} : order'[x] = order[x]
  BY <1>1, <1>3, <1>5, Parts
<1> HIDE DEF request
<1>7. request.id \notin DOMAIN orderMap
  <2>1. DOMAIN orderMap \subseteq Nat /\ \A i \in DOMAIN orderMap : i <= counter
    BY Parts DEF LinksTypeOK, NumberedOrders
  <2> QED BY <1>5, <2>1, Parts
<1>8. /\ LinksTypeOK' /\ MapIsSound' /\ LevelsAreQueues' /\ BestIsExact'
      /\ Resting' = Resting /\ orderMap' = orderMap
      /\ free' = free \union {h} /\ trades' = {}
  <2>1. \A x \in Resting : order'[x] = order[x]
    BY <1>4, <1>6, Parts
  <2> QED BY <1>1, <1>3, <1>5, <1>7, <2>1, CancelOrderKeepsBook
<1>9. cur = NoSlot /\ cxl = NoSlot /\ InHand = {} /\ InHand' = {}
  BY <1>1 DEF Idle, InHand
<1>10. TypeOK'
  <2>1. Len(orders') <= QueueCap
    <3>1. Len(orders') \in Nat /\ Len(orders) <= QueueCap /\ QueueCap \in Nat
      BY <1>3, Parts, QueueAssumption DEF TypeOK
    <3> QED BY <1>2, <1>3, <3>1
  <2>2. NodesTypeOK'
    BY <1>1, <1>3, <1>6, <1>8, Parts DEF NodesTypeOK
  <2> QED BY <1>1, <1>3, <1>8, <2>1, <2>2, Parts DEF TypeOK
<1>11. NodesHaveOneHolder'
  <2>1. NodesHaveOneHolder
    BY Parts
  <2> QED BY <1>1, <1>3, <1>4, <1>8, <1>9, <2>1 DEF NodesHaveOneHolder
<1>12. NumberedOrders'
  <2>1. \A i \in DOMAIN orderMap' : i <= counter'
    <3>1. DOMAIN orderMap \subseteq Nat /\ \A i \in DOMAIN orderMap : i <= counter
      BY Parts DEF LinksTypeOK, NumberedOrders
    <3> QED BY <1>1, <1>8, <3>1, Parts
  <2>2. \A s \in Resting' : rem'[s] > 0 /\ order'[s].type # "CANCEL"
    BY <1>1, <1>4, <1>6, <1>8, Parts DEF NumberedOrders
  <2> QED BY <1>1, <1>8, <1>9, <2>1, <2>2 DEF NumberedOrders
<1> QED BY <1>8, <1>10, <1>11, <1>12 DEF IInv

LEMMA MarketRestKeepsIInv ==
  ASSUME IInv, MarketRest
  PROVE  IInv'
<1>1. CASE PoolExhausted
  BY <1>1, PoolExhaustedKeepsIInv
<1>2. CASE ~PoolExhausted
  <2>1. PICK c \in free :
          /\ cur # NoSlot /\ order[cur].type = "MARKET" /\ rem[cur] > 0
          /\ free' = free \ {c}
          /\ order' = [order EXCEPT ![c] = [order[cur] EXCEPT !.type = "CANCEL"]]
          /\ rem' = [rem EXCEPT ![c] = 0]
          /\ cxl' = c /\ AddOrder(cur) /\ cur' = NoSlot /\ trades' = {}
          /\ UNCHANGED <<counter, orders, dropped, crashed>>
    BY <1>2 DEF MarketRest, Allocate, queueVars
  <2>2. /\ cur \in Slots /\ order[cur].id = counter /\ counter \notin DOMAIN orderMap
        /\ cxl = NoSlot /\ InHand = {cur} /\ \A i \in DOMAIN orderMap : i <= counter
    BY <2>1, Parts DEF TypeOK, SlotOrNone, NumberedOrders, NodesHaveOneHolder, InHand
  <2>3. cur \notin free \union Queued \union Resting \union dropped
    BY <2>2, Parts DEF NodesHaveOneHolder
  <2>4. c \in Slots /\ c \notin Queued \union Resting \union dropped /\ c # cur /\ c # NoSlot
    BY <2>1, <2>3, Parts, SlotAssumption DEF NodesHaveOneHolder, NodesTypeOK
  <2>5. [order[cur] EXCEPT !.type = "CANCEL"] \in OrderData
    <3>1. order[cur] \in OrderData
      BY <2>2, Parts
    <3> QED BY <3>1 DEF OrderData, OrderTypes
  <2>6. /\ order' \in [Slots -> OrderData] /\ rem' \in [Slots -> Nat]
        /\ order'[c].id = counter /\ order'[c].side = order[cur].side
        /\ order'[c].price = order[cur].price
        /\ \A x \in Slots \ {c} : order'[x] = order[x] /\ rem'[x] = rem[x]
    <3>1. order[cur] \in OrderData
      BY <2>2, Parts
    <3>2. order'[c] = [order[cur] EXCEPT !.type = "CANCEL"]
      BY <2>1, <2>4, Parts
    <3>3. /\ order'[c].id = counter /\ order'[c].side = order[cur].side
          /\ order'[c].price = order[cur].price
      BY <2>2, <3>1, <3>2 DEF OrderData
    <3> QED BY <2>1, <2>4, <2>5, <3>3, Parts
  <2>7. \A i \in DOMAIN orderMap : i < order[cur].id
    <3>1. DOMAIN orderMap \subseteq Nat
      BY Parts DEF LinksTypeOK
    <3> QED BY <2>2, <3>1, Parts
  <2>8. /\ LinksTypeOK' /\ MapIsSound' /\ LevelsAreQueues' /\ BestIsExact'
        /\ DOMAIN orderMap' = DOMAIN orderMap \union {counter}
        /\ Resting' = Resting \union {cur}
        /\ orderMap'[counter] = cur
    <3>1. \A x \in Resting \union {cur} : order'[x] = order[x]
      BY <2>2, <2>4, <2>6, Parts
    <3> QED BY <2>1, <2>2, <2>3, <2>7, <3>1, AddOrderKeepsBook, Parts
  <2>9. InHand' = {c} /\ Queued' = Queued
    BY <2>1, <2>4 DEF InHand, Queued
  <2>10. TypeOK'
    <3>1. NodesTypeOK'
      BY <2>1, <2>6, Parts DEF NodesTypeOK
    <3> QED BY <2>1, <2>4, <2>8, <3>1, Parts DEF TypeOK, SlotOrNone
  <2>11. NodesHaveOneHolder'
    <3>1. NodesHaveOneHolder
      BY Parts
    <3> QED BY <2>1, <2>2, <2>3, <2>4, <2>8, <2>9, <3>1 DEF NodesHaveOneHolder
  <2>12. NumberedOrders'
    <3>1. \A i \in DOMAIN orderMap' : i <= counter'
      BY <2>1, <2>2, <2>8, Parts
    <3>2. \A s \in Resting' : rem'[s] > 0 /\ order'[s].type # "CANCEL"
      BY <2>1, <2>2, <2>4, <2>6, <2>8, Parts DEF NumberedOrders
    <3>3. order'[cur] = order[cur]
      BY <2>2, <2>4, <2>6
    <3> QED BY <2>1, <2>6, <2>8, <3>1, <3>2, <3>3 DEF NumberedOrders
  <2> QED BY <2>8, <2>10, <2>11, <2>12 DEF IInv
<1> QED BY <1>1, <1>2

LEMMA MarketCancelKeepsIInv ==
  ASSUME IInv, MarketCancel
  PROVE  IInv'
<1>1. /\ cxl # NoSlot /\ CancelOrder(cxl, order[cxl]) /\ cxl' = NoSlot
      /\ UNCHANGED <<order, rem, counter, cur, orders, dropped, crashed>>
  BY DEF MarketCancel, queueVars
<1>2. /\ cxl \in Slots /\ cur = NoSlot /\ InHand = {cxl}
      /\ order[cxl] \in OrderData /\ order[cxl].id \in DOMAIN orderMap
  BY <1>1, Parts DEF TypeOK, SlotOrNone, NumberedOrders, NodesHaveOneHolder, InHand
<1> DEFINE t == orderMap[order[cxl].id]
<1>3. /\ LinksTypeOK' /\ MapIsSound' /\ LevelsAreQueues' /\ BestIsExact'
      /\ trades' \subseteq TradeInfos
      /\ t \in Resting
      /\ DOMAIN orderMap' \subseteq DOMAIN orderMap
      /\ Resting' = Resting \ {t}
      /\ free' = free \union {t, cxl}
  BY <1>1, <1>2, CancelOrderKeepsBook
<1> HIDE DEF t
<1>4. cxl \notin free \union Queued \union Resting \union dropped
  BY <1>2, Parts DEF NodesHaveOneHolder
<1>5. InHand' = {} /\ Queued' = Queued
  BY <1>1, <1>2 DEF InHand, Queued
<1>6. TypeOK'
  <2>1. NodesTypeOK'
    BY <1>1, <1>2, <1>3, Parts DEF NodesTypeOK
  <2> QED BY <1>1, <1>3, <2>1, Parts DEF TypeOK, SlotOrNone
<1>7. NodesHaveOneHolder'
  <2>1. NodesHaveOneHolder
    BY Parts
  <2> QED BY <1>1, <1>2, <1>3, <1>4, <1>5, <2>1 DEF NodesHaveOneHolder
<1>8. NumberedOrders'
  BY <1>1, <1>2, <1>3, Parts DEF NumberedOrders
<1> QED BY <1>3, <1>6, <1>7, <1>8 DEF IInv

\* The order FillOrder matches with rests on the other side, so it is not the
\* one the engine holds: the assertion of Orderbook.cpp:214.
LEMMA MatchedOrder ==
  ASSUME IInv, cur # NoSlot, Opposing # NoLevel
  PROVE  LET m == head[Opposite(order[cur].side)][Opposing]
         IN /\ m \in Resting /\ m # cur /\ order[m].side = Opposite(order[cur].side)
            /\ LevelOf(m) = Opposing /\ Opposing \in Levels
<1>1. cur \in Slots /\ order[cur].side \in Sides
  BY Parts, OrderFields DEF TypeOK, SlotOrNone
<1>2. Opposite(order[cur].side) \in Sides /\ Opposite(order[cur].side) # order[cur].side
  BY <1>1 DEF Opposite, Sides
<1> DEFINE sd == Opposite(order[cur].side)
<1>3. sd \in Sides /\ Opposing = best[sd] /\ sd # order[cur].side
  BY <1>2 DEF Opposing
<1> HIDE DEF sd
<1>4. Opposing \in Levels /\ head[sd][Opposing] # NoSlot
  BY <1>3, Parts DEF BestIsExact, LinksTypeOK
<1>5. EndsOfLevel(sd, Opposing)
  BY <1>3, <1>4, Parts DEF LevelsAreQueues
<1> QED BY <1>3, <1>4, <1>5 DEF EndsOfLevel, sd

LEMMA FillKeepsIInv ==
  ASSUME IInv, Fill
  PROVE  IInv'
<1>1. /\ cur # NoSlot /\ CanFill /\ FillOrder(cur, Opposing)
      /\ UNCHANGED <<order, counter, cur, cxl, orders, dropped, crashed>>
  BY DEF Fill, engineVars, queueVars
<1> DEFINE m == head[Opposite(order[cur].side)][Opposing]
           q == IF rem[m] < rem[cur] THEN rem[m] ELSE rem[cur]
           p == order[m].price
<1>2. /\ rem' = [rem EXCEPT ![m] = @ - q, ![cur] = @ - q]
      /\ trades' = {TradeInfo(cur, p, q, OrderCopy(m), Execution(q, cur)),
                    TradeInfo(m, p, q, OrderCopy(cur), Execution(q, m))}
      /\ \/ rem[m] = q /\ Unlink(m) /\ free' = free \union {m}
         \/ rem[m] # q /\ UNCHANGED bookVars /\ free' = free
  BY <1>1 DEF FillOrder, RemoveOrder, Deallocate
<1>3. cur \in Slots /\ InHand = {cur} /\ cxl = NoSlot /\ rem[cur] > 0
  BY <1>1, Parts DEF TypeOK, SlotOrNone, NodesHaveOneHolder, InHand, CanFill
<1>4. m \in Resting /\ m # cur /\ m \in Slots /\ rem[m] > 0
  <2>1. m \in Resting /\ m # cur
    BY <1>1, MatchedOrder DEF CanFill
  <2> HIDE DEF m
  <2> QED BY <2>1, Parts DEF NumberedOrders
<1> HIDE DEF m
<1>5. cur \notin free \union Queued \union Resting \union dropped
  BY <1>3, Parts DEF NodesHaveOneHolder
<1>6. q \in Nat /\ q <= rem[m] /\ q <= rem[cur] /\ rem[m] \in Nat /\ rem[cur] \in Nat
  BY <1>3, <1>4, Parts
<1>7. trades' \subseteq TradeInfos
  <2>1. order[m] \in OrderData /\ order[cur] \in OrderData
    BY <1>3, <1>4, Parts
  <2>2. p \in AllPrices
    BY <2>1 DEF OrderData
  <2> HIDE DEF p, q
  <2>3. TradeInfo(cur, p, q, OrderCopy(m), Execution(q, cur)) \in TradeInfos
    BY <1>6, <2>1, <2>2 DEF TradeInfo, TradeInfos, OrderCopy, OrderData, Execution
  <2>4. TradeInfo(m, p, q, OrderCopy(cur), Execution(q, m)) \in TradeInfos
    BY <1>6, <2>1, <2>2 DEF TradeInfo, TradeInfos, OrderCopy, OrderData, Execution
  <2> QED BY <1>2, <2>3, <2>4
<1> HIDE DEF p, q
<1>8. /\ rem' \in [Slots -> Nat] /\ rem'[m] = rem[m] - q
      /\ \A x \in Slots \ {m, cur} : rem'[x] = rem[x]
  <2>1. rem[m] - q \in Nat /\ rem[cur] - q \in Nat
    BY <1>6
  <2> QED BY <1>2, <1>3, <1>4, <2>1, Parts
<1>9. /\ LinksTypeOK' /\ MapIsSound' /\ LevelsAreQueues' /\ BestIsExact'
      /\ DOMAIN orderMap' \subseteq DOMAIN orderMap
      /\ \/ Resting' = Resting \ {m} /\ free' = free \union {m}
         \/ Resting' = Resting /\ free' = free /\ rem[m] # q
  <2>1. CASE rem[m] = q
    BY <1>1, <1>2, <1>4, <2>1, UnlinkKeepsBook, Parts
  <2>2. CASE rem[m] # q
    BY <1>1, <1>2, <2>2, SameBook, Parts DEF bookVars
  <2> QED BY <2>1, <2>2
<1>10. InHand' = InHand /\ Queued' = Queued
  BY <1>1 DEF InHand, Queued
<1>11. TypeOK'
  <2>1. NodesTypeOK'
    BY <1>1, <1>4, <1>7, <1>8, <1>9, Parts DEF NodesTypeOK
  <2> QED BY <1>1, <1>9, <2>1, Parts DEF TypeOK
<1>12. NodesHaveOneHolder'
  <2>1. NodesHaveOneHolder
    BY Parts
  <2> QED BY <1>1, <1>4, <1>9, <1>10, <2>1 DEF NodesHaveOneHolder
<1>13. NumberedOrders'
  <2>1. ASSUME NEW x \in Resting'
        PROVE  rem'[x] > 0 /\ order'[x].type # "CANCEL"
    <3>1. x \in Resting /\ x # cur /\ x \in Slots /\ rem[x] > 0 /\ order[x].type # "CANCEL"
      BY <1>5, <1>9, Parts DEF NumberedOrders
    <3>2. CASE x = m
      BY <1>1, <1>6, <1>8, <1>9, <3>1, <3>2
    <3>3. CASE x # m
      BY <1>1, <1>8, <3>1, <3>3
    <3> QED BY <3>2, <3>3
  <2> QED BY <1>1, <1>3, <1>9, <2>1, Parts DEF NumberedOrders
<1> QED BY <1>9, <1>11, <1>12, <1>13 DEF IInv

LEMMA MatchKeepsIInv ==
  ASSUME IInv, Match
  PROVE  IInv'
BY FillKeepsIInv, RestKeepsIInv, MarketRestKeepsIInv, MarketCancelKeepsIInv, CompleteKeepsIInv
   DEF Match

-----------------------------------------------------------------------------
(* ProcessOrder called directly                                            *)

LEMMA DirectSubmitKeepsIInv ==
  ASSUME IInv, NEW type \in {"LIMIT", "MARKET"}, NEW c \in Clients, NEW sd \in Sides,
         NEW p \in AllPrices, NEW q \in Nat,
         DirectSubmit(type, c, sd, p, q)
  PROVE  IInv'
<1>1. CASE PoolExhausted
  BY <1>1, PoolExhaustedKeepsIInv
<1>2. CASE ~PoolExhausted
  <2> DEFINE data == Request(counter + 1, type, c, sd, p)
  <2>1. PICK s \in free :
          /\ Idle /\ free' = free \ {s}
          /\ order' = [order EXCEPT ![s] = data]
          /\ rem' = [rem EXCEPT ![s] = q]
          /\ cur' = s /\ counter' = counter + 1 /\ trades' = {}
          /\ UNCHANGED bookVars /\ UNCHANGED <<cxl, orders, dropped, crashed>>
    BY <1>2 DEF DirectSubmit, Allocate, queueVars
  <2>2. s \in Slots /\ s \notin Queued \union InHand \union Resting \union dropped
    BY <2>1, Parts DEF NodesHaveOneHolder, NodesTypeOK
  <2>3. cur = NoSlot /\ cxl = NoSlot /\ InHand = {} /\ InHand' = {s} /\ Queued' = Queued
    BY <2>1, <2>2, SlotAssumption DEF Idle, InHand, Queued
  <2>4. data \in OrderData /\ data.id = counter + 1 /\ data.type = type
    BY Parts DEF Request, OrderData, OrderTypes
  <2> HIDE DEF data
  <2>5. /\ order' \in [Slots -> OrderData] /\ rem' \in [Slots -> Nat] /\ order'[s] = data
        /\ \A x \in Slots \ {s} : order'[x] = order[x] /\ rem'[x] = rem[x]
    BY <2>1, <2>2, <2>4, Parts
  <2>6. /\ LinksTypeOK' /\ MapIsSound' /\ LevelsAreQueues' /\ BestIsExact'
        /\ Resting' = Resting /\ orderMap' = orderMap
    <3>1. \A x \in Resting : order'[x] = order[x]
      BY <2>2, <2>5, Parts
    <3> QED BY <2>1, <3>1, SameBook, Parts DEF bookVars
  <2>7. TypeOK'
    <3>1. NodesTypeOK'
      BY <2>1, <2>5, Parts DEF NodesTypeOK
    <3> QED BY <2>1, <2>2, <2>6, <3>1, Parts DEF TypeOK, SlotOrNone
  <2>8. NodesHaveOneHolder'
    <3>1. NodesHaveOneHolder
      BY Parts
    <3> QED BY <2>1, <2>2, <2>3, <2>6, <3>1 DEF NodesHaveOneHolder
  <2>9. NumberedOrders'
    <3>1. (\A i \in DOMAIN orderMap' : i <= counter') /\ counter' \notin DOMAIN orderMap'
      <4>1. DOMAIN orderMap \subseteq Nat /\ \A i \in DOMAIN orderMap : i <= counter
        BY Parts DEF LinksTypeOK, NumberedOrders
      <4> QED BY <2>1, <2>6, <4>1, Parts
    <3>2. \A x \in Resting' : rem'[x] > 0 /\ order'[x].type # "CANCEL"
      BY <2>2, <2>5, <2>6, Parts DEF NumberedOrders
    <3> QED BY <2>1, <2>3, <2>4, <2>5, <2>6, <3>1, <3>2 DEF NumberedOrders
  <2> QED BY <2>6, <2>7, <2>8, <2>9 DEF IInv
<1> QED BY <1>1, <1>2

LEMMA DirectCancelKeepsIInv ==
  ASSUME IInv, NEW i \in Nat, NEW c \in Clients, NEW sd \in Sides, NEW p \in AllPrices,
         DirectCancel(i, c, sd, p)
  PROVE  IInv'
<1>1. CASE PoolExhausted
  BY <1>1, PoolExhaustedKeepsIInv
<1>2. CASE ~PoolExhausted
  <2> DEFINE data == Request(i, "CANCEL", c, sd, p)
  <2>1. PICK s \in free :
          /\ Idle
          /\ order' = [order EXCEPT ![s] = data]
          /\ rem' = [rem EXCEPT ![s] = 0]
          /\ CancelOrder(s, data)
          /\ UNCHANGED <<counter, cur, cxl, orders, dropped, crashed>>
    BY <1>2 DEF DirectCancel, engineVars, queueVars
  <2>2. s \in Slots /\ s \notin Queued \union InHand \union Resting \union dropped
    BY <2>1, Parts DEF NodesHaveOneHolder, NodesTypeOK
  <2>3. cur = NoSlot /\ cxl = NoSlot /\ InHand' = InHand /\ Queued' = Queued
    BY <2>1 DEF Idle, InHand, Queued
  <2>4. data \in OrderData
    BY Parts DEF Request, OrderData, OrderTypes
  <2> HIDE DEF data
  <2>5. /\ order' \in [Slots -> OrderData] /\ rem' \in [Slots -> Nat]
        /\ \A x \in Slots \ {s} : order'[x] = order[x] /\ rem'[x] = rem[x]
    BY <2>1, <2>2, <2>4, Parts
  <2>6. /\ LinksTypeOK' /\ MapIsSound' /\ LevelsAreQueues' /\ BestIsExact'
        /\ trades' \subseteq TradeInfos
        /\ DOMAIN orderMap' \subseteq DOMAIN orderMap
        /\ \/ Resting' = Resting /\ free' = free \union {s}
           \/ \E t \in Resting : Resting' = Resting \ {t} /\ free' = free \union {t, s}
    <3>1. \A x \in Resting : order'[x] = order[x]
      BY <2>2, <2>5, Parts
    <3>2. /\ LinksTypeOK' /\ MapIsSound' /\ LevelsAreQueues' /\ BestIsExact'
          /\ trades' \subseteq TradeInfos
          /\ \/ /\ UNCHANGED <<orderMap, Resting>> /\ free' = free \union {s}
             \/ /\ orderMap[data.id] \in Resting
                /\ DOMAIN orderMap' = DOMAIN orderMap \ {data.id}
                /\ Resting' = Resting \ {orderMap[data.id]}
                /\ free' = free \union {orderMap[data.id], s}
      BY <2>1, <2>2, <2>4, <3>1, CancelOrderKeepsBook
    <3> QED BY <3>2
  <2>7. TypeOK'
    <3>1. free' \subseteq Slots
      BY <2>2, <2>6, Parts DEF NodesTypeOK
    <3>2. NodesTypeOK'
      BY <2>5, <2>6, <3>1 DEF NodesTypeOK
    <3> QED BY <2>1, <2>6, <3>2, Parts DEF TypeOK
  <2>8. NodesHaveOneHolder'
    <3>1. NodesHaveOneHolder
      BY Parts
    <3> QED BY <2>1, <2>2, <2>3, <2>6, <3>1 DEF NodesHaveOneHolder
  <2>9. NumberedOrders'
    <3>1. \A x \in Resting' : rem'[x] > 0 /\ order'[x].type # "CANCEL"
      BY <2>2, <2>5, <2>6, Parts DEF NumberedOrders
    <3> QED BY <2>1, <2>3, <2>6, <3>1, Parts DEF NumberedOrders
  <2> QED BY <2>6, <2>7, <2>8, <2>9 DEF IInv
<1> QED BY <1>1, <1>2

-----------------------------------------------------------------------------
(* The invariants of both programs                                         *)

LEMMA NextKeepsIInv == IInv /\ [Next]_vars => IInv'
<1> SUFFICES ASSUME IInv, [Next]_vars PROVE IInv'
  OBVIOUS
<1>1. CASE AgentStep
  BY <1>1, AgentStepKeepsIInv
<1>2. CASE EngineStep
  BY <1>2, PopOrderKeepsIInv, PopCancelKeepsIInv, MatchKeepsIInv DEF EngineStep
<1>3. CASE UNCHANGED vars
  BY <1>3, StutterKeepsIInv
<1> QED BY <1>1, <1>2, <1>3 DEF Next

LEMMA DirectNextKeepsIInv == IInv /\ [DirectNext]_vars => IInv'
<1> SUFFICES ASSUME IInv, [DirectNext]_vars PROVE IInv'
  OBVIOUS
<1>2. ASSUME NEW type \in {"LIMIT", "MARKET"}, NEW c \in Clients, NEW sd \in Sides,
             NEW p \in LimitPrices, NEW q \in Quantities, DirectSubmit(type, c, sd, p, q)
      PROVE  IInv'
  <2>1. p \in AllPrices /\ q \in Nat
    BY QuantityAssumption DEF AllPrices
  <2> QED BY <1>2, <2>1, DirectSubmitKeepsIInv
<1>4. ASSUME NEW i \in DOMAIN orderMap \union {counter + 1}, NEW c \in Clients, NEW sd \in Sides,
             NEW p \in LimitPrices, DirectCancel(i, c, sd, p)
      PROVE  IInv'
  <2>1. i \in Nat /\ p \in AllPrices
    BY Parts DEF AllPrices, LinksTypeOK
  <2> QED BY <1>4, <2>1, DirectCancelKeepsIInv
<1>5. CASE Match
  BY <1>5, MatchKeepsIInv
<1>6. CASE UNCHANGED vars
  BY <1>6, StutterKeepsIInv
<1> QED BY <1>2, <1>4, <1>5, <1>6 DEF DirectNext, DirectStep

\* In the threaded program every value is of its type, every node of the pool
\* has one holder, the levels are queues in time order, the best levels are
\* exact and the ids unique, whatever the agents send.
THEOREM EngineInvariant == Spec => []IInv
<1>1. Init => IInv
  BY InitIInv
<1>2. IInv /\ [Next]_vars => IInv'
  BY NextKeepsIInv
<1> QED BY <1>1, <1>2, PTL DEF Spec

\* The same when ProcessOrder is called directly and cancels find their order.
THEOREM DirectInvariant == DirectSpec => []IInv
<1>1. Init => IInv
  BY InitIInv
<1>2. IInv /\ [DirectNext]_vars => IInv'
  BY DirectNextKeepsIInv
<1> QED BY <1>1, <1>2, PTL DEF DirectSpec

\* Every node, link and counter keeps its type, and no fill takes more from an
\* order than it has left, threaded or direct (Order.h:64-72).
THEOREM TypesHold == (Spec => []TypeOK) /\ (DirectSpec => []TypeOK)
<1>1. IInv => TypeOK
  BY DEF IInv
<1> QED BY <1>1, EngineInvariant, DirectInvariant, PTL

\* No node of the pool is recycled while somebody holds it, or twice, however the
\* two threads interleave (OrderPool.h:38-52).
THEOREM NodesAccounted == (Spec => []NodesHaveOneHolder) /\ (DirectSpec => []NodesHaveOneHolder)
<1>1. IInv => NodesHaveOneHolder
  BY DEF IInv
<1> QED BY <1>1, EngineInvariant, DirectInvariant, PTL

\* The intrusive lists stay the queues of their levels through every removal from
\* the head, the tail or the middle (Orderbook.cpp:94-157).
THEOREM LevelsStayQueues == (Spec => []LevelsAreQueues) /\ (DirectSpec => []LevelsAreQueues)
<1>1. IInv => LevelsAreQueues
  BY DEF IInv
<1> QED BY <1>1, EngineInvariant, DirectInvariant, PTL

\* The cached best levels and the bitmaps never lag behind the lists
\* (Orderbook.cpp:17-55).
THEOREM BestStaysExact == (Spec => []BestIsExact) /\ (DirectSpec => []BestIsExact)
<1>1. IInv => BestIsExact
  BY DEF IInv
<1> QED BY <1>1, EngineInvariant, DirectInvariant, PTL

\* The map holds exactly the ids of orders that rest, all of them given out before
\* (MatchingEngine.cpp:10, Orderbook.cpp:119, 155).
THEOREM NumbersStayUnique == (Spec => []NumberedOrders) /\ (DirectSpec => []NumberedOrders)
<1>1. IInv => NumberedOrders
  BY DEF IInv
<1> QED BY <1>1, EngineInvariant, DirectInvariant, PTL

=============================================================================
