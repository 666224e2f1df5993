------------------------------ MODULE Accounts ------------------------------
(***************************************************************************)
(* Agent.cpp, AgentStrategy.cpp and TradeDispatcher.cpp: the thread of     *)
(* the agents decides what to send, reserves cash or units for it and      *)
(* pushes it; the engine, here what PriceTimeBook promises of it, sends    *)
(* reports to the agents' ring buffers; a third thread books them.         *)
(***************************************************************************)
EXTENDS OrderPool, Prices, SequencesExt

CONSTANTS
  RandomAgents, MarketMakers, MomentumTraders,
  LimitPrices,    \* the prices a random agent may draw
  Lot,            \* quantity of every order: 10 in the code
  BaseCents,      \* min_price_ in cents: 10000 in the code
  InitialCash, InitialUnits,
  QueueCap,       \* orders the engine's ring buffer holds
  InboxCap,       \* trades an agent's ring buffer holds: 1023 in the code
  MaxOrders,      \* bound of the model: orders sent in a behaviour
  NoTaker

ASSUME StrategyAssumption ==
  /\ RandomAgents \intersect MarketMakers = {}
  /\ RandomAgents \intersect MomentumTraders = {}
  /\ MarketMakers \intersect MomentumTraders = {}
ASSUME OrdersAssumption ==
  /\ LimitPrices \subseteq Int /\ Lot \in Nat \ {0} /\ BaseCents \in Nat
  /\ QueueCap \in Nat /\ InboxCap \in Nat /\ MaxOrders \in Nat
ASSUME BalanceAssumption == InitialCash \in Nat /\ InitialUnits \in Nat

Agents == RandomAgents \union MarketMakers \union MomentumTraders

VARIABLES
  account,   \* availableCash_, reservedCash_ and units_ of each agent
  active,    \* the keys of activeOrders_, which are indices of nodes
  inbox,     \* incomingBuffer_ of each agent
  outgoing,  \* what Act returned and RunOutgoingLoop has still to push
  orders,    \* orders_, the ring buffer to the engine
  pool,      \* the free list
  book, taker, lastId, reports,   \* the engine, see PriceTimeBook
  cxl,       \* the node of a cancel of the engine's own, or NoNode
  index,     \* index_ of the order with each id given out
  dropped,   \* orders whose Push failed
  lost       \* reports whose PushTrade failed, by agent

engineVars == <<book, taker, lastId, reports>>
agentVars == <<account, active, outgoing>>
vars == <<agentVars, inbox, orders, pool, engineVars, cxl, index, dropped, lost>>

Engine == INSTANCE PriceTimeBook WITH Clients <- Agents, Quantities <- {Lot}

Cents(p) == BaseCents + p

\* No order of the engine.
ASSUME NoTakerAssumption ==
  NoTaker \notin [id : Nat, type : {"LIMIT", "MARKET"}, client : Agents, side : Sides,
                  price : Int, qty : Int]

Init ==
  /\ account = [a \in Agents |->
                 [available |-> InitialCash, reserved |-> 0, units |-> InitialUnits]]
  /\ active = [a \in Agents |-> {}]
  /\ inbox = [a \in Agents |-> <<>>]
  /\ lost = [a \in Agents |-> <<>>]
  /\ outgoing = <<>> /\ orders = <<>> /\ dropped = <<>> /\ index = <<>>
  /\ pool = InitialPool /\ cxl = NoNode
  /\ Engine!Init

-----------------------------------------------------------------------------
(* The strategies                                                          *)

\* The node is allocated in Act.
Order(a, type, sd, p) ==
  [type |-> type, client |-> a, side |-> sd, price |-> p, qty |-> Lot, index |-> NoNode]

\* Mutant: no look at what the agent has.
CanAffordAnything(a, sd, p) == TRUE

\* A random agent looks at the price of one unit, or at one unit.
CanAfford(a, sd, p) ==
  IF sd = "Buy" THEN account[a].available >= Cents(p) ELSE account[a].units >= 1

RandomOrders(a) ==
  {IF CanAfford(a, sd, p) THEN <<Order(a, "LIMIT", sd, p)>> ELSE <<>> :
     sd \in Sides, p \in LimitPrices}

\* GetBestBid and GetBestAsk: no level or one. A market order that rests until it
\* is cancelled makes no difference to a strategy that looks at both sides: the
\* opposite one is empty meanwhile.
LevelsOf(sd) == {PriceToIndex(o.price) : o \in {r \in book : r.side = sd}}
BestOf(sd) == {l \in LevelsOf(sd) : \A m \in LevelsOf(sd) : ~Better(sd, m, l)}

\* A market maker quotes one tick off the mid price on either side. What round()
\* makes of half a tick depends on the double.
Rounded(twice) == {p \in -1 .. MaxLevel + 1 : 2 * p - twice \in -1 .. 1}

Quotes(a, ask, bid) ==
  IF account[a].units > Lot /\ account[a].available > Cents(bid) * Lot
    THEN <<Order(a, "LIMIT", "Buy", bid), Order(a, "LIMIT", "Sell", ask)>>
    ELSE <<>>

MarketMakerOrders(a) ==
  UNION {{Quotes(a, ask, bid) : ask \in Rounded(l + m + 2), bid \in Rounded(l + m - 2)} :
           l \in BestOf("Buy"), m \in BestOf("Sell")}

\* The moving averages choose between selling, buying and waiting, see
\* MovingAverages.
MomentumOrders(a) ==
  {<<>>} \union
  {<<Order(a, "MARKET", sd, MarketPrice(sd))>> : sd \in
    {d \in Sides : /\ BestOf("Buy") # {} /\ BestOf("Sell") # {}
                   /\ IF d = "Buy" THEN account[a].available > Cents(MaxLevel) * Lot
                                   ELSE account[a].units > Lot}}

Wanted(a) ==
  CASE a \in RandomAgents -> RandomOrders(a)
    [] a \in MarketMakers -> MarketMakerOrders(a) \union
                             IF BestOf("Buy") = {} \/ BestOf("Sell") = {} THEN {<<>>} ELSE {}
    [] OTHER -> MomentumOrders(a)

\* CancelOrders aims at some of the active orders.
Aims(a) == IF a \in MomentumTraders THEN {{}} ELSE SUBSET active[a]

\* The fields copied from the order it is aimed at are left out: the engine gives
\* the cancel an id of its own and so finds nothing.
Cancel(a) == [type |-> "CANCEL", client |-> a, index |-> NoNode]

\* What Act returns, in the order in which RunOutgoingLoop pushes it.
Sent(a, aims, wanted) == wanted \o [k \in 1 .. Cardinality(aims) |-> Cancel(a)]

\* Nodes are allocated for the cancels first, and for the sell order before the
\* buy order.
Turn(wanted, n, k) == IF k > Len(wanted) THEN k - Len(wanted) ELSE n + 1 - k

Act(a, aims, wanted) ==
  LET sent == Sent(a, aims, wanted)
      n == Len(sent)
      before == Allocations(pool, n)
  IN /\ outgoing = <<>>
     /\ n > 0
     /\ lastId + Len(orders) + Len(dropped) + n <= MaxOrders
     /\ \A k \in 1 .. n : ~Exhausted(before[k])
     /\ outgoing' = [k \in 1 .. n |->
                      [sent[k] EXCEPT !.index = NextNode(before[Turn(wanted, n, k)])]]
     /\ pool' = before[n + 1]
     /\ active' = [active EXCEPT ![a] = @ \ aims]
     /\ UNCHANGED <<account, inbox, orders, cxl, index, dropped, lost>>
     /\ Engine!Delivered

-----------------------------------------------------------------------------
(* PushOrder                                                               *)

\* Mutant: the cash of one unit is reserved.
ReservedOneFor(acct, o) ==
  IF o.side = "Sell"
    THEN [acct EXCEPT !.units = @ - o.qty]
    ELSE [acct EXCEPT !.available = @ - Cents(o.price), !.reserved = @ + Cents(o.price)]

\* The account once PushLimitOrder or PushMarketOrder has set aside what the order
\* may need.
ReservedFor(acct, o) ==
  IF o.side = "Sell"
    THEN [acct EXCEPT !.units = @ - o.qty]
    ELSE [acct EXCEPT !.available = @ - Cents(o.price) * o.qty,
                      !.reserved = @ + Cents(o.price) * o.qty]

Enqueue(o) ==
  \/ /\ Len(orders) < QueueCap
     /\ orders' = Append(orders, o)
     /\ UNCHANGED dropped
  \/ /\ Len(orders) >= QueueCap
     /\ dropped' = Append(dropped, o)
     /\ UNCHANGED orders

PushOrder ==
  /\ outgoing # <<>>
  /\ LET o == Head(outgoing)
     IN /\ \/ /\ o.type = "CANCEL"
              /\ UNCHANGED <<account, active>>
           \/ /\ o.type # "CANCEL"
              /\ account' = [account EXCEPT ![o.client] = ReservedFor(@, o)]
              /\ active' = [active EXCEPT ![o.client] = @ \union {o.index}]
        /\ Enqueue(o)
  /\ outgoing' = Tail(outgoing)
  /\ UNCHANGED <<inbox, pool, cxl, index, lost>>
  /\ Engine!Delivered

-----------------------------------------------------------------------------
(* The engine thread and the dispatcher                                    *)

NoReport == UNCHANGED <<inbox, lost>>

\* Mutant: a full ring buffer takes the trade.
ArrivedAll(a, mail) == inbox[a] \o mail

\* What fits into the ring buffer of a.
Arrived(a, mail) ==
  inbox[a] \o SubSeq(mail, 1, IF Len(mail) <= InboxCap - Len(inbox[a])
                                 THEN Len(mail) ELSE InboxCap - Len(inbox[a]))

\* PushTradeInfo: the seller's half first, then the buyer's. No half of a cancel
\* goes out for the side that is not cancelled, and PriceTimeBook reports none.
Dispatch ==
  LET half(a, sd) == SetToSeq({r \in reports' : r.clientRef = a /\ r.side = sd})
      mail(a) == half(a, "Sell") \o half(a, "Buy")
      fits(a) == Len(Arrived(a, mail(a))) - Len(inbox[a])
  IN /\ inbox' = [a \in Agents |-> Arrived(a, mail(a))]
     /\ lost' = [a \in Agents |-> lost[a] \o SubSeq(mail(a), fits(a) + 1, Len(mail(a)))]

PopOrder ==
  /\ orders # <<>> /\ cxl = NoNode
  /\ LET o == Head(orders)
     IN \/ /\ o.type # "CANCEL"
           /\ Engine!Arrive(o.type, o.client, o.side, o.price, o.qty)
           /\ UNCHANGED pool
        \/ /\ o.type = "CANCEL"
           /\ Engine!Skip
           /\ pool' = Deallocated(pool, o.index)
  /\ index' = Append(index, Head(orders).index)
  /\ orders' = Tail(orders)
  /\ NoReport
  /\ UNCHANGED <<agentVars, cxl, dropped>>

Trade(m) ==
  /\ Engine!Trade(m)
  /\ pool' = IF m.qty <= taker.qty THEN Deallocated(pool, index[m.id]) ELSE pool
  /\ Dispatch
  /\ UNCHANGED <<agentVars, orders, cxl, index, dropped>>

Rest ==
  /\ Engine!Rest
  /\ NoReport
  /\ UNCHANGED <<agentVars, orders, pool, cxl, index, dropped>>

\* A market order that finds no opposite order is taken out of the book by a
\* cancel of the engine's own. The other thread may allocate between any two of
\* the three calls that this makes to the pool.
MarketRest ==
  /\ taker # NoTaker /\ taker.type = "MARKET" /\ taker.qty > 0
  /\ Engine!Offers = {}
  /\ cxl = NoNode /\ ~Exhausted(pool)
  /\ cxl' = NextNode(pool)
  /\ pool' = Allocated(pool)
  /\ NoReport
  /\ UNCHANGED <<agentVars, orders, index, dropped>>
  /\ Engine!Delivered

Expire ==
  /\ cxl # NoNode
  /\ Engine!Expire
  /\ pool' = Deallocated(pool, index[taker.id])
  /\ Dispatch
  /\ UNCHANGED <<agentVars, orders, cxl, index, dropped>>

ReturnCancel ==
  /\ cxl # NoNode /\ taker = NoTaker
  /\ cxl' = NoNode
  /\ pool' = Deallocated(pool, cxl)
  /\ NoReport
  /\ UNCHANGED <<agentVars, orders, index, dropped>>
  /\ Engine!Delivered

Finish ==
  /\ Engine!Finish
  /\ pool' = Deallocated(pool, index[taker.id])
  /\ NoReport
  /\ UNCHANGED <<agentVars, orders, cxl, index, dropped>>

EngineStep ==
  \/ PopOrder \/ (\E m \in book : Trade(m)) \/ Rest \/ Finish
  \/ MarketRest \/ Expire \/ ReturnCancel

-----------------------------------------------------------------------------
(* The thread of the incoming trades                                       *)

\* PopCancelOrderTrade.
AfterCancel(acct, r) ==
  IF r.side = "Sell"
    THEN [acct EXCEPT !.units = @ + r.quantity]
    ELSE [acct EXCEPT !.reserved = @ - Cents(r.price) * r.quantity,
                      !.available = @ + Cents(r.price) * r.quantity]

\* Mutant: the seller is paid the price of the opposite order.
AfterTradeAtOther(acct, r) ==
  IF r.side = "Sell"
    THEN [acct EXCEPT !.available = @ + Cents(r.other.price) * r.quantity]
    ELSE [acct EXCEPT !.reserved = @ - Cents(r.other.price) * r.quantity,
                      !.available = @ + (Cents(r.other.price) - Cents(r.price)) * r.quantity,
                      !.units = @ + r.quantity]

\* PopLimitOrderTrade and PopMarketOrderTrade have one body. What a buy reserved
\* is released at the price of the opposite order.
AfterTrade(acct, r) ==
  IF r.side = "Sell"
    THEN [acct EXCEPT !.available = @ + Cents(r.price) * r.quantity]
    ELSE [acct EXCEPT !.reserved = @ - Cents(r.other.price) * r.quantity,
                      !.available = @ + (Cents(r.other.price) - Cents(r.price)) * r.quantity,
                      !.units = @ + r.quantity]

Booked(acct, r) == IF r.type = "CANCEL" THEN AfterCancel(acct, r) ELSE AfterTrade(acct, r)

\* The key erased from activeOrders_ is the id in the copy of the opposite order.
PopTrade(a) ==
  /\ inbox[a] # <<>>
  /\ LET r == Head(inbox[a])
     IN /\ account' = [account EXCEPT ![a] = Booked(@, r)]
        /\ active' = IF r.type \in {"FULL", "CANCEL"}
                       THEN [active EXCEPT ![a] = @ \ {r.other.id}]
                       ELSE active
  /\ inbox' = [inbox EXCEPT ![a] = Tail(@)]
  /\ UNCHANGED <<outgoing, orders, pool, cxl, index, dropped, lost>>
  /\ Engine!Delivered

Next ==
  \/ \E a \in Agents :
       (\E aims \in Aims(a), wanted \in Wanted(a) : Act(a, aims, wanted)) \/ PopTrade(a)
  \/ PushOrder
  \/ EngineStep

Spec == Init /\ [][Next]_vars

=============================================================================
