-------------------------- MODULE OrderbookProofs --------------------------
(***************************************************************************)
(* AddOrder and RemoveOrder keep the levels queues and the best levels     *)
(* exact, for any number of nodes, levels and orders.                      *)
(***************************************************************************)
EXTENDS Orderbook, TLAPS, WellFoundedInduction

\* A clamped price is a level of the grid (Orderbook.cpp:71-81).
LEMMA PriceToIndexInLevels ==
  ASSUME NEW p \in Int
  PROVE  PriceToIndex(p) \in Levels
BY LevelAssumption DEF PriceToIndex, Levels

LEMMA AllPricesAreInts == AllPrices \subseteq Int
<1>1. \A sd \in Sides : MarketPrice(sd) \in Int
  BY LevelAssumption DEF MarketPrice
<1> QED BY <1>1, PriceAssumption DEF AllPrices

LEMMA OrderFields ==
  ASSUME order \in [Slots -> OrderData], NEW s \in Slots
  PROVE  /\ order[s].id \in Nat
         /\ order[s].side \in Sides
         /\ order[s].price \in AllPrices
         /\ LevelOf(s) \in Levels
BY PriceToIndexInLevels, AllPricesAreInts DEF OrderData, LevelOf

\* Looking an order up by its id finds it: distinct resting orders have
\* distinct ids.
LEMMA LookUp ==
  ASSUME MapIsSound, NEW s \in Resting
  PROVE  order[s].id \in DOMAIN orderMap /\ orderMap[order[s].id] = s
BY DEF MapIsSound, Resting

LEMMA RestingAreSlots ==
  ASSUME LinksTypeOK
  PROVE  Resting \subseteq Slots
BY DEF LinksTypeOK, Resting

\* A set of natural numbers has a least element, a bounded one a greatest.
LEMMA MinExists ==
  ASSUME NEW S \in SUBSET Nat, S # {}
  PROVE  \E x \in S : \A y \in S : x <= y
<1>1. PICK x \in S : \A y \in S : ~(<<y, x>> \in OpToRel(<, Nat))
  BY WFMin, NatLessThanWellFounded
<1>2. \A y \in Nat, z \in Nat : y < z => <<y, z>> \in OpToRel(<, Nat)
  BY DEF OpToRel
<1>3. \A y \in S : ~(y < x)
  BY <1>1, <1>2
<1> QED BY <1>3

LEMMA MaxExists ==
  ASSUME NEW N \in Nat, NEW S \in SUBSET (0..N), S # {}
  PROVE  \E x \in S : \A y \in S : y <= x
<1> DEFINE T == {N - x : x \in S}
<1>1. \A x \in S : x \in Nat /\ N - x \in Nat
  OBVIOUS
<1>2. T \in SUBSET Nat
  BY <1>1
<1>3. T # {}
  OBVIOUS
<1>4. PICK t \in T : \A u \in T : t <= u
  BY <1>2, <1>3, MinExists
<1>5. PICK x \in S : t = N - x
  BY <1>4
<1>6. ASSUME NEW y \in S PROVE y <= x
  <2>1. N - y \in T
    OBVIOUS
  <2>2. t <= N - y
    BY <1>4, <2>1
  <2> QED BY <1>1, <1>5, <2>2
<1> QED BY <1>6

-----------------------------------------------------------------------------
(* The best levels                                                         *)

\* SetBit on the bitmap of exact levels keeps the best level exact
\* (Orderbook.cpp:17-29).
LEMMA SetBitExact ==
  ASSUME LinksTypeOK, BestIsExact,
         NEW sd \in Sides, NEW l \in Levels, NEW s \in Slots,
         head' = [head EXCEPT ![sd][l] = s],
         SetBit(sd, l)
  PROVE  BestIsExact' /\ bits' \in [Sides -> SUBSET Levels]
                      /\ best' \in [Sides -> Levels \union {NoLevel}]
<1>1. bits' \in [Sides -> SUBSET Levels] /\ best' \in [Sides -> Levels \union {NoLevel}]
  BY DEF LinksTypeOK, SetBit
<1>2. ASSUME NEW d \in Sides
      PROVE  /\ bits'[d] = {k \in Levels : head'[d][k] # NoSlot}
             /\ IF bits'[d] = {}
                  THEN best'[d] = NoLevel
                  ELSE best'[d] \in bits'[d] /\ \A k \in bits'[d] : ~Better(d, k, best'[d])
  <2>1. CASE d # sd
    <3>1. bits'[d] = bits[d] /\ best'[d] = best[d] /\ head'[d] = head[d]
      BY <2>1 DEF LinksTypeOK, SetBit
    <3> QED BY <3>1 DEF BestIsExact
  <2>2. CASE d = sd
    <3>1. bits'[sd] = bits[sd] \union {l}
      BY DEF LinksTypeOK, SetBit
    <3>2. bits'[sd] = {k \in Levels : head'[sd][k] # NoSlot}
      BY <3>1, SlotAssumption DEF LinksTypeOK, BestIsExact
    <3>3. best'[sd] = IF best[sd] = NoLevel \/ Better(sd, l, best[sd]) THEN l ELSE best[sd]
      BY DEF LinksTypeOK, SetBit
    <3>4. bits[sd] \subseteq Levels /\ best[sd] \in Levels \union {NoLevel}
      BY DEF LinksTypeOK
    <3>5. best[sd] = NoLevel => bits[sd] = {}
      BY <3>4, LevelAssumption DEF BestIsExact, NoLevel, Levels
    <3>6. best'[sd] \in bits'[sd]
      BY <3>1, <3>3 DEF BestIsExact
    <3>7. \A k \in bits'[sd] : ~Better(sd, k, best'[sd])
      BY <3>1, <3>3, <3>4, <3>5 DEF BestIsExact, Better, Levels, NoLevel
    <3> QED BY <2>2, <3>2, <3>6, <3>7
  <2> QED BY <2>1, <2>2
<1> QED BY <1>1, <1>2 DEF BestIsExact

\* The scan of the bitmap finds the highest bid (lowest ask) left.
LEMMA ExtremeIsBest ==
  ASSUME NEW sd \in Sides, NEW S \in SUBSET Levels, S # {}
  PROVE  Extreme(sd, S) \in S /\ \A m \in S : ~Better(sd, m, Extreme(sd, S))
<1>1. S \in SUBSET Nat /\ S \in SUBSET (0..MaxLevel) /\ MaxLevel \in Nat
  BY LevelAssumption DEF Levels
<1>2. (\E l \in S : \A m \in S : l <= m) /\ (\E l \in S : \A m \in S : m <= l)
  BY <1>1, MinExists, MaxExists
<1>3. \E l \in S : \A m \in S : ~Better(sd, m, l)
  <2>1. CASE sd = "Buy"
    <3>1. PICK l \in S : \A m \in S : m <= l
      BY <1>2
    <3>2. \A m \in S : ~(m > l)
      BY <1>1, <3>1
    <3> QED BY <2>1, <3>2 DEF Better
  <2>2. CASE sd # "Buy"
    <3>1. PICK l \in S : \A m \in S : l <= m
      BY <1>2
    <3>2. \A m \in S : ~(m < l)
      BY <1>1, <3>1
    <3> QED BY <2>2, <3>2 DEF Better
  <2> QED BY <2>1, <2>2
<1> QED BY <1>3 DEF Extreme

\* ClearBit of a level whose list has become empty keeps the best level exact
\* (Orderbook.cpp:31-55).
LEMMA ClearBitExact ==
  ASSUME LinksTypeOK, BestIsExact,
         NEW sd \in Sides, NEW l \in Levels,
         head' = [head EXCEPT ![sd][l] = NoSlot] \/ (head' = head /\ head[sd][l] = NoSlot),
         ClearBit(sd, l)
  PROVE  BestIsExact' /\ bits' \in [Sides -> SUBSET Levels]
                      /\ best' \in [Sides -> Levels \union {NoLevel}]
<1> DEFINE left == bits[sd] \ {l}
<1>1. left \in SUBSET Levels /\ bits[sd] \in SUBSET Levels /\ best[sd] \in Levels \union {NoLevel}
  BY DEF LinksTypeOK
<1>2. left # {} => Extreme(sd, left) \in left /\ \A m \in left : ~Better(sd, m, Extreme(sd, left))
  BY <1>1, ExtremeIsBest
<1>3. bits' \in [Sides -> SUBSET Levels] /\ best' \in [Sides -> Levels \union {NoLevel}]
  BY <1>1, <1>2 DEF LinksTypeOK, ClearBit
<1>4. ASSUME NEW d \in Sides
      PROVE  /\ bits'[d] = {k \in Levels : head'[d][k] # NoSlot}
             /\ IF bits'[d] = {}
                  THEN best'[d] = NoLevel
                  ELSE best'[d] \in bits'[d] /\ \A k \in bits'[d] : ~Better(d, k, best'[d])
  <2>1. CASE d # sd
    <3>1. bits'[d] = bits[d] /\ best'[d] = best[d] /\ head'[d] = head[d]
      BY <2>1 DEF LinksTypeOK, ClearBit
    <3> QED BY <3>1 DEF BestIsExact
  <2>2. CASE d = sd
    <3>1. bits'[sd] = left
      BY DEF LinksTypeOK, ClearBit
    <3>2. left = {k \in Levels : head'[sd][k] # NoSlot}
      BY DEF LinksTypeOK, BestIsExact
    <3>3. best'[sd] = IF l = best[sd]
                        THEN IF left = {} THEN NoLevel ELSE Extreme(sd, left)
                        ELSE best[sd]
      BY DEF LinksTypeOK, ClearBit
    <3>4. CASE l = best[sd]
      BY <1>2, <2>2, <3>1, <3>2, <3>3, <3>4
    <3>5. CASE l # best[sd]
      <4>1. bits[sd] = {} => left = {} /\ best[sd] = NoLevel
        BY DEF BestIsExact
      <4>2. bits[sd] # {} =>
              best[sd] \in left /\ \A k \in bits[sd] : ~Better(sd, k, best[sd])
        BY <3>5 DEF BestIsExact
      <4> QED BY <2>2, <3>1, <3>2, <3>3, <3>5, <4>1, <4>2
    <3> QED BY <3>4, <3>5
  <2> QED BY <2>1, <2>2
<1> QED BY <1>3, <1>4 DEF BestIsExact

-----------------------------------------------------------------------------
(* AddOrder                                                                *)

\* What the other actions need of an order that is not changed.
LEMMA SameNode ==
  ASSUME NEW x, order'[x] = order[x]
  PROVE  /\ order'[x].side = order[x].side
         /\ order'[x].id = order[x].id
         /\ LevelOf(x)' = LevelOf(x)
BY DEF LevelOf

\* An order newer than all in the book becomes the tail of its level; the
\* levels stay queues, the best levels exact and the map sound
\* (Orderbook.cpp:94-120).
LEMMA AddOrderKeepsBook ==
  ASSUME order \in [Slots -> OrderData], LinksTypeOK,
         MapIsSound, LevelsAreQueues, BestIsExact,
         NEW s \in Slots, s \notin Resting,
         \A i \in DOMAIN orderMap : i < order[s].id,
         \A x \in Resting \union {s} : order'[x] = order[x],
         AddOrder(s)
  PROVE  /\ LinksTypeOK' /\ MapIsSound' /\ LevelsAreQueues' /\ BestIsExact'
         /\ DOMAIN orderMap' = DOMAIN orderMap \union {order[s].id}
         /\ Resting' = Resting \union {s}
         /\ \A i \in DOMAIN orderMap : orderMap'[i] = orderMap[i]
         /\ orderMap'[order[s].id] = s
<1>1. PICK sd \in Sides, l \in Levels : sd = order[s].side /\ l = LevelOf(s)
  BY OrderFields
<1>2. order[s].id \in Nat
  BY OrderFields
<1>3. order[s].id \notin DOMAIN orderMap /\ \A i \in DOMAIN orderMap : i \in Nat
  BY <1>2 DEF LinksTypeOK
<1>4. orderMap' = Insert(order[s].id, s)
  BY DEF AddOrder
<1>5. /\ DOMAIN orderMap' = DOMAIN orderMap \union {order[s].id}
      /\ \A i \in DOMAIN orderMap : orderMap'[i] = orderMap[i]
      /\ orderMap'[order[s].id] = s
      /\ DOMAIN orderMap' \subseteq Nat
      /\ orderMap' \in [DOMAIN orderMap' -> Slots]
  BY <1>2, <1>3, <1>4 DEF Insert, LinksTypeOK
<1>6. Resting' = Resting \union {s}
  BY <1>5 DEF Resting
<1>7. Resting \subseteq Slots
  BY RestingAreSlots
<1>8. \A x \in Resting \union {s} :
         /\ order'[x].side = order[x].side
         /\ order'[x].id = order[x].id
         /\ LevelOf(x)' = LevelOf(x)
  BY SameNode
<1>9. MapIsSound'
  BY <1>5, <1>8 DEF MapIsSound, Resting
<1>10. \A x \in Resting : order[x].id < order[s].id
  BY LookUp
<1>11. NoSlot \notin Slots
  BY SlotAssumption
<1>12. CASE head[sd][l] # NoSlot
  <2>1. PICK t \in Resting : /\ t = tail[sd][l]
                             /\ order[t].side = sd /\ LevelOf(t) = l
                             /\ next[t] = NoSlot
    BY <1>12 DEF LevelsAreQueues, EndsOfLevel
  <2>2. /\ prev' = [prev EXCEPT ![s] = t]
        /\ next' = [next EXCEPT ![s] = NoSlot, ![t] = s]
        /\ tail' = [tail EXCEPT ![sd][l] = s]
        /\ UNCHANGED <<head, bits, best>>
    BY <1>1, <1>12, <2>1 DEF AddOrder, levelVars
  <2>3. LinksTypeOK'
    BY <1>5, <1>7, <2>1, <2>2 DEF LinksTypeOK, SlotOrNone
  <2>4. BestIsExact'
    BY <2>2 DEF BestIsExact
  <2>5. /\ prev'[s] = t /\ next'[s] = NoSlot /\ next'[t] = s /\ tail'[sd][l] = s
        /\ \A x \in Slots \ {s} : prev'[x] = prev[x]
        /\ \A x \in Slots \ {s, t} : next'[x] = next[x]
        /\ \A d \in Sides, k \in Levels : ~(d = sd /\ k = l) => tail'[d][k] = tail[d][k]
    BY <1>7, <2>1, <2>2 DEF LinksTypeOK
  <2>6. ASSUME NEW x \in Resting'
        PROVE  LinkedBack(x)' /\ LinkedForward(x)'
    <3>1. CASE x = s
      BY <1>1, <1>6, <1>7, <1>8, <1>10, <1>11, <2>1, <2>5, <3>1
         DEF LinkedBack, LinkedForward, SameLevel
    <3>2. CASE x \in Resting
      <4>1. LinkedBack(x) /\ LinkedForward(x) /\ x # s /\ x \in Slots
        BY <1>7, <3>2 DEF LevelsAreQueues
      <4>2. LinkedBack(x)'
        <5>1. prev'[x] = prev[x] /\ head' = head
          BY <2>2, <2>5, <4>1
        <5>2. CASE prev[x] = NoSlot
          BY <1>8, <3>2, <4>1, <5>1, <5>2 DEF LinkedBack
        <5>3. CASE prev[x] # NoSlot
          <6>1. /\ prev[x] \in Resting /\ SameLevel(prev[x], x)
                /\ next[prev[x]] = x /\ order[prev[x]].id < order[x].id
            BY <4>1, <5>3 DEF LinkedBack
          <6>2. next'[prev[x]] = x
            BY <1>7, <1>11, <2>1, <2>5, <4>1, <6>1
          <6>3. SameLevel(prev[x], x)' /\ order'[prev[x]].id < order'[x].id
            BY <1>8, <3>2, <5>1, <6>1 DEF SameLevel
          <6> QED BY <1>6, <5>1, <5>3, <6>1, <6>2, <6>3 DEF LinkedBack
        <5> QED BY <5>2, <5>3
      <4>3. LinkedForward(x)'
        <5>1. CASE x = t
          BY <1>6, <1>11, <2>5, <4>1, <5>1 DEF LinkedForward
        <5>2. CASE x # t
          <6>1. next'[x] = next[x]
            BY <2>5, <4>1, <5>2
          <6>2. order[x].side \in Sides /\ LevelOf(x) \in Levels
            BY <4>1, OrderFields
          <6> QED BY <1>6, <1>7, <1>8, <2>1, <2>5, <3>2, <4>1, <5>2, <6>1, <6>2 DEF LinkedForward
        <5> QED BY <5>1, <5>2
      <4> QED BY <4>2, <4>3
    <3> QED BY <1>6, <3>1, <3>2
  <2>7. ASSUME NEW d \in Sides, NEW k \in Levels
        PROVE  EndsOfLevel(d, k)'
    <3>1. EndsOfLevel(d, k) /\ EndsOfLevel(sd, l)
      BY DEF LevelsAreQueues
    <3>2. CASE d = sd /\ k = l
      BY <1>1, <1>6, <1>7, <1>8, <1>12, <2>2, <2>5, <3>1, <3>2 DEF EndsOfLevel
    <3>3. CASE ~(d = sd /\ k = l)
      <4>1. head'[d][k] = head[d][k] /\ tail'[d][k] = tail[d][k]
        BY <2>2, <2>5, <3>3
      <4>2. CASE head[d][k] = NoSlot
        BY <3>1, <4>1, <4>2 DEF EndsOfLevel
      <4>3. CASE head[d][k] # NoSlot
        <5>1. prev'[head[d][k]] = NoSlot
          BY <1>7, <2>5, <3>1, <4>3 DEF EndsOfLevel
        <5>2. tail[d][k] # t
          BY <2>1, <3>1, <3>3, <4>3 DEF EndsOfLevel
        <5>3. next'[tail[d][k]] = NoSlot
          BY <1>7, <2>5, <3>1, <4>3, <5>2 DEF EndsOfLevel
        <5> QED BY <1>6, <1>8, <3>1, <4>1, <4>3, <5>1, <5>3 DEF EndsOfLevel
      <4> QED BY <4>2, <4>3
    <3> QED BY <3>2, <3>3
  <2>8. LevelsAreQueues'
    BY <2>6, <2>7 DEF LevelsAreQueues
  <2> QED BY <1>5, <1>6, <1>9, <2>3, <2>4, <2>8
<1>13. CASE head[sd][l] = NoSlot
  <2>1. /\ head' = [head EXCEPT ![sd][l] = s]
        /\ tail' = [tail EXCEPT ![sd][l] = s]
        /\ prev' = [prev EXCEPT ![s] = NoSlot]
        /\ next' = [next EXCEPT ![s] = NoSlot]
        /\ SetBit(sd, l)
    BY <1>1, <1>13 DEF AddOrder
  <2>2. /\ BestIsExact'
        /\ bits' \in [Sides -> SUBSET Levels]
        /\ best' \in [Sides -> Levels \union {NoLevel}]
    BY <2>1, SetBitExact
  <2>3. LinksTypeOK'
    BY <1>5, <2>1, <2>2 DEF LinksTypeOK, SlotOrNone
  <2>4. /\ prev'[s] = NoSlot /\ next'[s] = NoSlot /\ tail'[sd][l] = s /\ head'[sd][l] = s
        /\ \A x \in Slots \ {s} : prev'[x] = prev[x] /\ next'[x] = next[x]
        /\ \A d \in Sides, k \in Levels :
             ~(d = sd /\ k = l) => tail'[d][k] = tail[d][k] /\ head'[d][k] = head[d][k]
    BY <2>1 DEF LinksTypeOK
  <2>5. tail[sd][l] = NoSlot
    BY <1>13 DEF LevelsAreQueues, EndsOfLevel
  <2>6. ASSUME NEW x \in Resting'
        PROVE  LinkedBack(x)' /\ LinkedForward(x)'
    <3>1. CASE x = s
      BY <1>1, <1>6, <1>8, <2>4, <3>1 DEF LinkedBack, LinkedForward
    <3>2. CASE x \in Resting
      <4>1. /\ LinkedBack(x) /\ LinkedForward(x) /\ x # s /\ x \in Slots
            /\ order[x].side \in Sides /\ LevelOf(x) \in Levels
        BY <1>7, <3>2, OrderFields DEF LevelsAreQueues
      <4>2. prev'[x] = prev[x] /\ next'[x] = next[x]
        BY <2>4, <4>1
      <4>3. LinkedBack(x)'
        BY <1>6, <1>7, <1>8, <1>11, <1>13, <2>4, <3>2, <4>1, <4>2 DEF LinkedBack, SameLevel
      <4>4. LinkedForward(x)'
        BY <1>6, <1>7, <1>8, <1>11, <2>4, <2>5, <3>2, <4>1, <4>2 DEF LinkedForward
      <4> QED BY <4>3, <4>4
    <3> QED BY <1>6, <3>1, <3>2
  <2>7. ASSUME NEW d \in Sides, NEW k \in Levels
        PROVE  EndsOfLevel(d, k)'
    <3>1. EndsOfLevel(d, k)
      BY DEF LevelsAreQueues
    <3>2. CASE d = sd /\ k = l
      BY <1>1, <1>6, <1>8, <2>4, <3>2 DEF EndsOfLevel
    <3>3. CASE ~(d = sd /\ k = l)
      BY <1>6, <1>7, <1>8, <2>4, <3>1, <3>3 DEF EndsOfLevel
    <3> QED BY <3>2, <3>3
  <2>8. LevelsAreQueues'
    BY <2>6, <2>7 DEF LevelsAreQueues
  <2> QED BY <1>5, <1>6, <1>9, <2>2, <2>3, <2>8
<1> QED BY <1>12, <1>13

-----------------------------------------------------------------------------
(* RemoveOrder                                                             *)

\* The head of a level that holds an order is the oldest of them: follow the
\* links from the order with the least id (PriceLevel.h, Orderbook.cpp:212).
LEMMA HeadIsOldest ==
  ASSUME order \in [Slots -> OrderData], LinksTypeOK, MapIsSound, LevelsAreQueues,
         NEW s \in Resting
  PROVE  LET h == head[order[s].side][LevelOf(s)]
         IN h \in Resting /\ SameLevel(h, s) /\ order[h].id <= order[s].id
<1> DEFINE T == {order[x].id : x \in {y \in Resting : SameLevel(y, s)}}
<1>1. T \in SUBSET Nat /\ order[s].id \in T
  BY RestingAreSlots, OrderFields DEF SameLevel
<1>2. PICK i \in T : \A j \in T : i <= j
  BY <1>1, MinExists
<1>3. PICK x \in Resting : SameLevel(x, s) /\ order[x].id = i
  BY <1>2
<1>4. LinkedBack(x)
  BY DEF LevelsAreQueues
<1>5. prev[x] = NoSlot
  <2> SUFFICES ASSUME prev[x] # NoSlot PROVE FALSE
    OBVIOUS
  <2>1. prev[x] \in Resting /\ SameLevel(prev[x], x) /\ order[prev[x]].id < i
    BY <1>3, <1>4 DEF LinkedBack
  <2>2. order[prev[x]].id \in T
    BY <1>3, <2>1 DEF SameLevel
  <2>3. i <= order[prev[x]].id
    BY <1>2, <2>2
  <2>4. i \in Nat /\ order[prev[x]].id \in Nat
    BY <1>1, <1>2, <2>2
  <2> QED BY <2>1, <2>3, <2>4
<1>6. head[order[s].side][LevelOf(s)] = x
  BY <1>3, <1>4, <1>5 DEF LinkedBack, SameLevel
<1>7. i <= order[s].id
  BY <1>1, <1>2
<1> QED BY <1>3, <1>6, <1>7

\* A resting order taken out of the head, the middle or the tail of its level
\* leaves queues behind, and exact best levels (Orderbook.cpp:122-157).
LEMMA UnlinkKeepsBook ==
  ASSUME order \in [Slots -> OrderData], LinksTypeOK,
         MapIsSound, LevelsAreQueues, BestIsExact,
         NEW s \in Resting,
         \A x \in Resting : order'[x] = order[x],
         Unlink(s)
  PROVE  /\ LinksTypeOK' /\ MapIsSound' /\ LevelsAreQueues' /\ BestIsExact'
         /\ DOMAIN orderMap' = DOMAIN orderMap \ {order[s].id}
         /\ Resting' = Resting \ {s}
         /\ \A i \in DOMAIN orderMap' : orderMap'[i] = orderMap[i]
<1>1. Resting \subseteq Slots /\ NoSlot \notin Slots
  BY RestingAreSlots, SlotAssumption
<1>2. PICK sd \in Sides, l \in Levels : sd = order[s].side /\ l = LevelOf(s)
  BY <1>1, OrderFields
<1>3. PICK a \in SlotOrNone, b \in SlotOrNone : a = prev[s] /\ b = next[s]
  BY <1>1 DEF LinksTypeOK
<1>4. LinkedBack(s) /\ LinkedForward(s) /\ EndsOfLevel(sd, l)
  BY DEF LevelsAreQueues
<1>5. \A x \in Resting : order[x].id \in Nat
  BY <1>1, OrderFields
<1>6. a # s /\ b # s
  <2>1. a # s
    BY <1>1, <1>3, <1>4, <1>5 DEF LinkedBack
  <2>2. b # s
    BY <1>1, <1>3, <1>4, <2>1 DEF LinkedForward
  <2> QED BY <2>1, <2>2
\* The neighbours of s.
<1>7. IF a = NoSlot
        THEN head[sd][l] = s
        ELSE /\ a \in Resting \ {s} /\ SameLevel(a, s)
             /\ next[a] = s /\ order[a].id < order[s].id
  BY <1>2, <1>3, <1>4, <1>6 DEF LinkedBack
<1>8. IF b = NoSlot
        THEN tail[sd][l] = s
        ELSE /\ b \in Resting \ {s} /\ SameLevel(s, b)
             /\ prev[b] = s /\ order[s].id < order[b].id
  <2>1. b # NoSlot => b \in Resting \ {s} /\ prev[b] = s
    BY <1>3, <1>4, <1>6 DEF LinkedForward
  <2>2. b # NoSlot => LinkedBack(b)
    BY <2>1 DEF LevelsAreQueues
  <2>3. b # NoSlot => SameLevel(s, b) /\ order[s].id < order[b].id
    BY <1>1, <2>1, <2>2 DEF LinkedBack
  <2>4. b = NoSlot => tail[sd][l] = s
    BY <1>2, <1>3, <1>4 DEF LinkedForward
  <2> QED BY <2>1, <2>3, <2>4
\* The map.
<1>9. orderMap' = Erase(order[s].id)
  BY DEF Unlink
<1>10. /\ DOMAIN orderMap' = DOMAIN orderMap \ {order[s].id}
       /\ \A i \in DOMAIN orderMap' : orderMap'[i] = orderMap[i]
       /\ DOMAIN orderMap' \subseteq Nat
       /\ orderMap' \in [DOMAIN orderMap' -> Slots]
  BY <1>9 DEF Erase, LinksTypeOK
<1>11. Resting' = Resting \ {s}
  <2>1. \A i \in DOMAIN orderMap : orderMap[i] = s <=> i = order[s].id
    BY LookUp DEF MapIsSound
  <2> QED BY <1>10, <2>1 DEF Resting
<1>12. \A x \in Resting :
          /\ order'[x].side = order[x].side
          /\ order'[x].id = order[x].id
          /\ LevelOf(x)' = LevelOf(x)
  BY SameNode
<1>13. MapIsSound'
  BY <1>10, <1>12 DEF MapIsSound, Resting
\* The links.
<1>14. /\ next' = IF a # NoSlot THEN [next EXCEPT ![a] = b] ELSE next
       /\ prev' = IF b # NoSlot THEN [prev EXCEPT ![b] = a] ELSE prev
       /\ head' = IF head[sd][l] = s THEN [head EXCEPT ![sd][l] = b] ELSE head
       /\ tail' = IF tail[sd][l] = s THEN [tail EXCEPT ![sd][l] = a] ELSE tail
       /\ IF head'[sd][l] = NoSlot THEN ClearBit(sd, l) ELSE UNCHANGED <<bits, best>>
  BY <1>2, <1>3 DEF Unlink, levelVars
<1>15. /\ prev' \in [Slots -> SlotOrNone]
       /\ next' \in [Slots -> SlotOrNone]
       /\ head' \in [Sides -> [Levels -> SlotOrNone]]
       /\ tail' \in [Sides -> [Levels -> SlotOrNone]]
  BY <1>14 DEF LinksTypeOK
<1>16. /\ \A x \in Slots : next'[x] = IF x = a THEN b ELSE next[x]
       /\ \A x \in Slots : prev'[x] = IF x = b THEN a ELSE prev[x]
  BY <1>1, <1>14 DEF LinksTypeOK
<1>17. /\ head'[sd][l] = IF head[sd][l] = s THEN b ELSE head[sd][l]
       /\ tail'[sd][l] = IF tail[sd][l] = s THEN a ELSE tail[sd][l]
       /\ \A d \in Sides, k \in Levels :
            ~(d = sd /\ k = l) => tail'[d][k] = tail[d][k] /\ head'[d][k] = head[d][k]
  BY <1>14 DEF LinksTypeOK
\* The levels.
<1>18. BestIsExact' /\ bits' \in [Sides -> SUBSET Levels]
                    /\ best' \in [Sides -> Levels \union {NoLevel}]
  <2>1. CASE head'[sd][l] = NoSlot
    <3>1. head' = [head EXCEPT ![sd][l] = NoSlot] \/ (head' = head /\ head[sd][l] = NoSlot)
      BY <1>14, <1>17, <2>1
    <3>2. ClearBit(sd, l)
      BY <1>14, <2>1
    <3> QED BY <3>1, <3>2, ClearBitExact
  <2>2. CASE head'[sd][l] # NoSlot
    <3>1. bits' = bits /\ best' = best
      BY <1>14, <2>2
    <3>2. head[sd][l] # NoSlot
      BY <1>1, <1>17, <2>2
    <3>3. \A d \in Sides, k \in Levels : head'[d][k] # NoSlot <=> head[d][k] # NoSlot
      BY <1>17, <2>2, <3>2
    <3>4. BestIsExact'
      BY <3>1, <3>3 DEF BestIsExact
    <3> QED BY <3>1, <3>4 DEF LinksTypeOK
  <2> QED BY <2>1, <2>2
<1>19. LinksTypeOK'
  BY <1>10, <1>15, <1>18 DEF LinksTypeOK
<1>20. ASSUME NEW x \in Resting \ {s}
       PROVE  LinkedBack(x)' /\ LinkedForward(x)'
  <2>1. /\ LinkedBack(x) /\ LinkedForward(x) /\ x \in Slots
        /\ order[x].side \in Sides /\ LevelOf(x) \in Levels
    BY <1>1, OrderFields DEF LevelsAreQueues
  <2>2. LinkedBack(x)'
    <3>1. CASE x = b
      <4>1. prev'[x] = a
        BY <1>16, <2>1, <3>1
      <4>2. CASE a = NoSlot
        <5>1. head'[sd][l] = x
          BY <1>7, <1>17, <3>1, <4>2
        <5>2. order[x].side = sd /\ LevelOf(x) = l
          BY <1>1, <1>2, <1>8, <2>1, <3>1 DEF SameLevel
        <5> QED BY <1>12, <4>1, <4>2, <5>1, <5>2 DEF LinkedBack
      <4>3. CASE a # NoSlot
        <5>1. /\ a \in Resting \ {s} /\ SameLevel(a, x)
              /\ order[a].id < order[x].id
          BY <1>1, <1>5, <1>7, <1>8, <2>1, <3>1, <4>3 DEF SameLevel
        <5>2. next'[a] = x
          BY <1>1, <1>16, <3>1, <5>1
        <5>3. SameLevel(a, x)' /\ order'[a].id < order'[x].id
          BY <1>12, <5>1 DEF SameLevel
        <5> QED BY <1>11, <4>1, <4>3, <5>1, <5>2, <5>3 DEF LinkedBack
      <4> QED BY <4>2, <4>3
    <3>2. CASE x # b
      <4>1. prev'[x] = prev[x]
        BY <1>16, <2>1, <3>2
      <4>2. CASE prev[x] = NoSlot
        <5>1. head'[order[x].side][LevelOf(x)] = x
          BY <1>17, <2>1, <4>2 DEF LinkedBack
        <5> QED BY <1>12, <4>1, <4>2, <5>1 DEF LinkedBack
      <4>3. CASE prev[x] # NoSlot
        <5>1. /\ prev[x] \in Resting /\ SameLevel(prev[x], x)
              /\ next[prev[x]] = x /\ order[prev[x]].id < order[x].id
          BY <2>1, <4>3 DEF LinkedBack
        <5>2. prev[x] # s
          BY <1>3, <3>2, <5>1
        <5>3. prev[x] # a
          BY <1>7, <4>3, <5>1
        <5>4. next'[prev[x]] = x
          BY <1>1, <1>16, <5>1, <5>3
        <5>5. SameLevel(prev[x], x)' /\ order'[prev[x]].id < order'[x].id
          BY <1>12, <4>1, <5>1 DEF SameLevel
        <5> QED BY <1>11, <4>1, <4>3, <5>1, <5>2, <5>4, <5>5 DEF LinkedBack
      <4> QED BY <4>2, <4>3
    <3> QED BY <3>1, <3>2
  <2>3. LinkedForward(x)'
    <3>1. CASE x = a
      <4>1. next'[x] = b
        BY <1>16, <2>1, <3>1
      <4>2. order[x].side = sd /\ LevelOf(x) = l
        BY <1>1, <1>2, <1>7, <2>1, <3>1 DEF SameLevel
      <4>3. CASE b = NoSlot
        <5>1. tail'[sd][l] = x
          BY <1>8, <1>17, <3>1, <4>3
        <5> QED BY <1>12, <4>1, <4>2, <4>3, <5>1 DEF LinkedForward
      <4>4. CASE b # NoSlot
        BY <1>1, <1>8, <1>11, <1>16, <3>1, <4>1, <4>4 DEF LinkedForward
      <4> QED BY <4>3, <4>4
    <3>2. CASE x # a
      <4>1. next'[x] = next[x]
        BY <1>16, <2>1, <3>2
      <4>2. CASE next[x] = NoSlot
        <5>1. tail'[order[x].side][LevelOf(x)] = x
          BY <1>17, <2>1, <4>2 DEF LinkedForward
        <5> QED BY <1>12, <4>1, <4>2, <5>1 DEF LinkedForward
      <4>3. CASE next[x] # NoSlot
        <5>1. next[x] \in Resting /\ prev[next[x]] = x
          BY <2>1, <4>3 DEF LinkedForward
        <5>2. next[x] # s
          BY <1>3, <3>2, <5>1
        <5>3. next[x] # b
          BY <1>8, <4>3, <5>1
        <5>4. prev'[next[x]] = x
          BY <1>1, <1>16, <5>1, <5>3
        <5> QED BY <1>11, <4>1, <4>3, <5>1, <5>2, <5>4 DEF LinkedForward
      <4> QED BY <4>2, <4>3
    <3> QED BY <3>1, <3>2
  <2> QED BY <2>2, <2>3
<1>21. ASSUME NEW d \in Sides, NEW k \in Levels
       PROVE  EndsOfLevel(d, k)'
  <2>1. EndsOfLevel(d, k)
    BY DEF LevelsAreQueues
  <2>2. CASE ~(d = sd /\ k = l)
    <3>1. head'[d][k] = head[d][k] /\ tail'[d][k] = tail[d][k]
      BY <1>17, <2>2
    <3>2. CASE head[d][k] = NoSlot
      BY <2>1, <3>1, <3>2 DEF EndsOfLevel
    <3>3. CASE head[d][k] # NoSlot
      <4>1. head[d][k] # s /\ tail[d][k] # s
        BY <1>2, <2>1, <2>2, <3>3 DEF EndsOfLevel
      <4>2. prev'[head[d][k]] = NoSlot
        BY <1>1, <1>8, <1>16, <2>1, <3>3 DEF EndsOfLevel
      <4>3. next'[tail[d][k]] = NoSlot
        BY <1>1, <1>7, <1>16, <2>1, <3>3 DEF EndsOfLevel
      <4> QED BY <1>11, <1>12, <2>1, <3>1, <3>3, <4>1, <4>2, <4>3 DEF EndsOfLevel
    <3> QED BY <3>2, <3>3
  <2>3. CASE d = sd /\ k = l
    <3>1. /\ head[sd][l] \in Resting /\ order[head[sd][l]].side = sd
          /\ LevelOf(head[sd][l]) = l /\ prev[head[sd][l]] = NoSlot
          /\ tail[sd][l] \in Resting /\ order[tail[sd][l]].side = sd
          /\ LevelOf(tail[sd][l]) = l /\ next[tail[sd][l]] = NoSlot
      BY <1>1, <1>2, <1>4, HeadIsOldest DEF EndsOfLevel
    <3>2. a # NoSlot => order[a].side = sd /\ LevelOf(a) = l
      BY <1>2, <1>7 DEF SameLevel
    <3>3. b # NoSlot => order[b].side = sd /\ LevelOf(b) = l
      BY <1>2, <1>8 DEF SameLevel
    <3>4. CASE head[sd][l] = s
      <4>1. a = NoSlot
        BY <1>3, <3>1, <3>4
      <4>2. CASE b = NoSlot
        BY <1>8, <1>17, <2>3, <3>4, <4>1, <4>2 DEF EndsOfLevel
      <4>3. CASE b # NoSlot
        <5>1. tail[sd][l] # s
          BY <1>3, <3>1, <4>3
        <5>2. head'[sd][l] = b /\ tail'[sd][l] = tail[sd][l]
          BY <1>17, <3>4, <5>1
        <5>3. prev'[b] = NoSlot
          BY <1>1, <1>8, <1>16, <4>1, <4>3
        <5>4. next'[tail[sd][l]] = NoSlot
          BY <1>1, <1>16, <3>1, <4>1
        <5>5. b \in Resting \ {s}
          BY <1>8, <4>3
        <5> QED BY <1>11, <1>12, <2>3, <3>1, <3>3, <4>3, <5>1, <5>2, <5>3, <5>4, <5>5
                DEF EndsOfLevel
      <4> QED BY <4>2, <4>3
    <3>5. CASE head[sd][l] # s
      <4>1. a \in Resting \ {s} /\ next[a] = s
        BY <1>7, <3>5
      <4>2. head'[sd][l] = head[sd][l] /\ head[sd][l] # NoSlot
        BY <1>1, <1>17, <3>1, <3>5
      <4>3. prev'[head[sd][l]] = NoSlot
        BY <1>1, <1>8, <1>16, <3>1
      <4>4. /\ tail'[sd][l] \in Resting \ {s} /\ order[tail'[sd][l]].side = sd
            /\ LevelOf(tail'[sd][l]) = l /\ next'[tail'[sd][l]] = NoSlot
        <5>1. CASE tail[sd][l] = s
          BY <1>1, <1>3, <1>16, <1>17, <3>1, <3>2, <4>1, <5>1
        <5>2. CASE tail[sd][l] # s
          BY <1>1, <1>16, <1>17, <3>1, <4>1, <5>2
        <5> QED BY <5>1, <5>2
      <4> QED BY <1>11, <1>12, <2>3, <3>1, <3>5, <4>2, <4>3, <4>4 DEF EndsOfLevel
    <3> QED BY <3>4, <3>5
  <2> QED BY <2>2, <2>3
<1>22. LevelsAreQueues'
  BY <1>11, <1>20, <1>21 DEF LevelsAreQueues
<1> QED BY <1>10, <1>11, <1>13, <1>18, <1>19, <1>22

=============================================================================
