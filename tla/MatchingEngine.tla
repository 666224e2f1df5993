--------------------------- MODULE MatchingEngine ---------------------------
(***************************************************************************)
(* MatchingEngine.cpp: the engine thread pops orders from the agents' ring *)
(* buffer, numbers them, matches them against the book one fill at a time  *)
(* and rests, cancels or recycles what is left. Between two fills the      *)
(* thread of the agents may run: it takes nodes from the pool, fills them  *)
(* in and pushes them.                                                     *)
(*                                                                         *)
(* Spec is the threaded program (MatchingEngine::Start). DirectSpec drives *)
(* the public ProcessOrder instead: the caller numbers the orders itself,  *)
(* and a cancel keeps the id it carries. benchmark_OrderLatency is such a  *)
(* caller, whose cancels all carry the id of an order yet to come.         *)
(***************************************************************************)
EXTENDS Orderbook, Sequences

CONSTANTS
  QueueCap,   \* orders the ring buffer holds: 1023 in the code
  MaxOrders   \* bound of the model: orders submitted in a behaviour

ASSUME QueueAssumption == QueueCap \in Nat \ {0}
ASSUME BoundAssumption == MaxOrders \in Nat

VARIABLES
  orders,   \* orders_: the ring buffer between the two threads, oldest first
  counter,  \* counter_: the id given last
  cur,      \* the order MatchLimitOrder or MatchMarketOrder holds
  cxl,      \* the order of CreateCancelOrder, until CancelOrder recycles it
  dropped,  \* nodes whose Push failed: nobody will return them to the pool
  crashed   \* the logic_error of an empty pool has ended the program

engineVars == <<counter, cur, cxl>>
queueVars == <<orders, dropped>>
vars == <<order, rem, free, bookVars, trades, engineVars, queueVars, crashed>>

Idle == cur = NoSlot /\ cxl = NoSlot

Init ==
  /\ BookInit
  /\ orders = <<>>
  /\ counter = 0
  /\ cur = NoSlot
  /\ cxl = NoSlot
  /\ dropped = {}
  /\ crashed = FALSE

-----------------------------------------------------------------------------
(* The pool's allocate, from either thread                                 *)

Allocate(s, data, q) ==
  /\ s \in free
  /\ free' = free \ {s}
  /\ order' = [order EXCEPT ![s] = data]
  /\ rem' = [rem EXCEPT ![s] = q]

\* allocate() throws on an exhausted pool and nobody catches it.
PoolExhausted ==
  /\ free = {}
  /\ crashed' = TRUE
  /\ trades' = {}
  /\ UNCHANGED <<order, rem, free, bookVars, engineVars, queueVars>>

-----------------------------------------------------------------------------
(* The thread of the agents                                                *)

\* Push refuses an order when the ring buffer is full. No caller looks at
\* the result.
Push(s) ==
  \/ /\ Len(orders) < QueueCap
     /\ orders' = Append(orders, s)
     /\ UNCHANGED dropped
  \/ /\ Len(orders) >= QueueCap
     /\ dropped' = dropped \union {s}
     /\ UNCHANGED orders

Request(i, type, c, sd, p) ==
  [id |-> i, type |-> type, client |-> c, side |-> sd, price |-> p]

Submit(data, q) ==
  /\ ~crashed
  /\ counter + Len(orders) < MaxOrders
  /\ \/ PoolExhausted
     \/ /\ \E s \in free : Allocate(s, data, q) /\ Push(s)
        /\ trades' = {}
        /\ UNCHANGED <<bookVars, engineVars, crashed>>

SubmitLimit(c, sd, p, q) == Submit(Request(0, "LIMIT", c, sd, p), q)

SubmitMarket(c, sd, q) == Submit(Request(0, "MARKET", c, sd, MarketPrice(sd)), q)

\* The strategies copy the id, side and price of the node of an active order. If
\* that node has been recycled they copy another order's, which makes no
\* difference: PopCancel looks at nothing but the id, and replaces that.
SubmitCancel(s) ==
  /\ s \notin free
  /\ order[s].type # "CANCEL"
  /\ Submit(Request(order[s].id, "CANCEL", order[s].client, order[s].side, order[s].price), 0)

AgentStep ==
  \/ \E c \in Clients, sd \in Sides, p \in LimitPrices, q \in Quantities :
       SubmitLimit(c, sd, p, q)
  \/ \E c \in Clients, sd \in Sides, q \in Quantities : SubmitMarket(c, sd, q)
  \/ \E s \in Slots : SubmitCancel(s)

-----------------------------------------------------------------------------
(* The engine thread                                                       *)

\* One turn of the loop of Start: the order it pops gets the next id, whatever
\* its type.
PopOrder ==
  /\ ~crashed /\ Idle /\ orders # <<>>
  /\ order[Head(orders)].type # "CANCEL"
  /\ orders' = Tail(orders)
  /\ counter' = counter + 1
  /\ order' = [order EXCEPT ![Head(orders)].id = counter + 1]
  /\ cur' = Head(orders)
  /\ trades' = {}
  /\ UNCHANGED <<rem, free, bookVars, cxl, dropped, crashed>>

PopCancel ==
  /\ ~crashed /\ Idle /\ orders # <<>>
  /\ order[Head(orders)].type = "CANCEL"
  /\ orders' = Tail(orders)
  /\ counter' = counter + 1
  /\ order' = [order EXCEPT ![Head(orders)].id = counter + 1]
  /\ CancelOrder(Head(orders), [order[Head(orders)] EXCEPT !.id = counter + 1])
  /\ UNCHANGED <<rem, cur, cxl, dropped, crashed>>

\* The level the loops of MatchLimitOrder and MatchMarketOrder look at.
Opposing == best[Opposite(order[cur].side)]

CanFill ==
  /\ rem[cur] > 0
  /\ Opposing # NoLevel
  /\ \/ order[cur].type = "MARKET"
     \/ ~OutOfReach(order[cur].side, Opposing, order[cur].price)

Fill ==
  /\ ~crashed /\ cur # NoSlot
  /\ CanFill
  /\ FillOrder(cur, Opposing)
  /\ UNCHANGED <<order, engineVars, queueVars, crashed>>

Rest ==
  /\ ~crashed /\ cur # NoSlot
  /\ order[cur].type = "LIMIT" /\ rem[cur] > 0 /\ ~CanFill
  /\ AddOrder(cur)
  /\ cur' = NoSlot
  /\ trades' = {}
  /\ UNCHANGED <<order, rem, free, counter, cxl, queueVars, crashed>>

\* A market order that finds no opposite order is added to the book and then
\* cancelled by an order of the engine's own.
MarketRest ==
  /\ ~crashed /\ cur # NoSlot
  /\ order[cur].type = "MARKET" /\ rem[cur] > 0 /\ ~CanFill
  /\ \/ PoolExhausted
     \/ /\ \E c \in free :
             /\ Allocate(c, [order[cur] EXCEPT !.type = "CANCEL"], 0)
             /\ cxl' = c
        /\ AddOrder(cur)
        /\ cur' = NoSlot
        /\ trades' = {}
        /\ UNCHANGED <<counter, queueVars, crashed>>

MarketCancel ==
  /\ ~crashed /\ cxl # NoSlot
  /\ CancelOrder(cxl, order[cxl])
  /\ cxl' = NoSlot
  /\ UNCHANGED <<order, rem, counter, cur, queueVars, crashed>>

\* Mutant: the node of the filled order is not returned to the pool.
CompleteLeaks ==
  /\ ~crashed /\ cur # NoSlot
  /\ rem[cur] = 0
  /\ cur' = NoSlot
  /\ trades' = {}
  /\ UNCHANGED <<order, rem, free, bookVars, counter, cxl, queueVars, crashed>>

Complete ==
  /\ ~crashed /\ cur # NoSlot
  /\ rem[cur] = 0
  /\ Deallocate({cur})
  /\ cur' = NoSlot
  /\ trades' = {}
  /\ UNCHANGED <<order, rem, bookVars, counter, cxl, queueVars, crashed>>

Match == Fill \/ Rest \/ MarketRest \/ MarketCancel \/ Complete
EngineStep == PopOrder \/ PopCancel \/ Match

Next == AgentStep \/ EngineStep

\* The loop of Start spins until it finds an order: while the thread is
\* scheduled, an enabled step of it is taken.
Spec == Init /\ [][Next]_vars /\ WF_vars(EngineStep)

-----------------------------------------------------------------------------
(* ProcessOrder called directly                                            *)

\* The caller numbers its orders in turn and asks for a price whatever the type
\* of the order; the price of a market order decides where it would rest.
DirectSubmit(type, c, sd, p, q) ==
  /\ ~crashed /\ Idle /\ counter < MaxOrders
  /\ \/ PoolExhausted
     \/ /\ \E s \in free : Allocate(s, Request(counter + 1, type, c, sd, p), q) /\ cur' = s
        /\ counter' = counter + 1
        /\ trades' = {}
        /\ UNCHANGED <<bookVars, cxl, queueVars, crashed>>

\* A cancel with the id of an order in the book carries its side and price, as
\* CreateCancelOrder copies them; any other finds nothing, whatever else it
\* carries. Its own node is taken and returned within the call.
DirectCancel(i, c, sd, p) ==
  /\ ~crashed /\ Idle
  /\ i \in DOMAIN orderMap =>
       LET s == orderMap[i]
       IN c = order[s].client /\ sd = order[s].side /\ p = order[s].price
  /\ \/ PoolExhausted
     \/ /\ \E s \in free :
             /\ order' = [order EXCEPT ![s] = Request(i, "CANCEL", c, sd, p)]
             /\ rem' = [rem EXCEPT ![s] = 0]
             /\ CancelOrder(s, Request(i, "CANCEL", c, sd, p))
        /\ UNCHANGED <<engineVars, queueVars, crashed>>

\* Cancels name an order in the book, or the id that comes next, as those of the
\* benchmark do: the map knows it as little as the id of an order that is gone.
DirectStep ==
  \/ \E type \in {"LIMIT", "MARKET"}, c \in Clients, sd \in Sides, p \in LimitPrices,
        q \in Quantities : DirectSubmit(type, c, sd, p, q)
  \/ \E i \in DOMAIN orderMap \union {counter + 1}, c \in Clients, sd \in Sides,
        p \in LimitPrices : DirectCancel(i, c, sd, p)

DirectNext == DirectStep \/ Match
DirectSpec == Init /\ [][DirectNext]_vars /\ WF_vars(Match)

=============================================================================
