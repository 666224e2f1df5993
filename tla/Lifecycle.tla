------------------------------ MODULE Lifecycle ------------------------------
(***************************************************************************)
(* The start and the end of a simulation: main.cpp starts the engine       *)
(* thread and the incoming thread, plays the agents' actions itself, then  *)
(* clears the manager's running_, calls MatchingEngine::Stop and joins.    *)
(* An order is its type and side, the book the number of orders on each    *)
(* side, a report a count in the buffer of an agent; which prices meet and *)
(* whose orders they are is left open. A ring buffer is the queue that     *)
(* RingBuffer implements, and its empty() answers TRUE only if it is.      *)
(***************************************************************************)
EXTENDS Naturals, Sequences

CONSTANTS
  NAgents,     \* agents, in the order of agents_
  OrderCap,    \* orders the engine's ring buffer holds: 1023 in the code
  TradeCap,    \* trades the ring buffer of an agent holds: 1023 in the code
  MaxOrders    \* orders pushed before the time is up; finite, as maxTime_ is

\* An empty agents_ has RunOutgoingLoop act on an event it never popped.
ASSUME AgentsAssumption == NAgents \in Nat \ {0}
ASSUME CapAssumption == OrderCap \in Nat \ {0} /\ TradeCap \in Nat \ {0}
ASSUME BoundsAssumption == MaxOrders \in Nat

VARIABLES
  main,            \* where main is
  engine,          \* where MatchingEngine::Start is
  incoming,        \* where AgentManager::RunIncomingLoop is
  managerRunning,  \* AgentManager::running_
  engineRunning,   \* MatchingEngine::running_
  pushed,          \* orders pushed so far
  orders,          \* the engine's ring buffer, oldest order first
  taker,           \* the order that is being matched
  resting,         \* the number of orders in the book, by side
  inbox,           \* trades in each agent's ring buffer
  at               \* the agent the incoming loop is at

mainVars == <<main, managerRunning, pushed>>
bookVars == <<taker, resting>>
incomingVars == <<incoming, at>>
vars == <<mainVars, engine, engineRunning, orders, bookVars, inbox, incomingVars>>

Agents == 1..NAgents

Sides == {"Buy", "Sell"}
Opposite(sd) == IF sd = "Buy" THEN "Sell" ELSE "Buy"
Requests == [type : {"LIMIT", "MARKET", "CANCEL"}, side : Sides]
NoTaker == [type |-> "NONE"]

\* main at its first statement after starting both threads.
Init ==
  /\ main = "acting" /\ engine = "unstarted" /\ incoming = "sweep"
  /\ managerRunning = TRUE /\ engineRunning = FALSE
  /\ pushed = 0 /\ orders = <<>>
  /\ taker = NoTaker /\ resting = [sd \in Sides |-> 0]
  /\ inbox = [a \in Agents |-> 0]
  /\ at = 0

-----------------------------------------------------------------------------
(* main                                                                    *)

\* One push of RunOutgoingLoop; a full ring refuses the order. A momentum trader
\* sends its market orders when it sees bids and asks, and the others cancel only
\* what they have pushed.
Act ==
  /\ main = "acting" /\ pushed < MaxOrders
  /\ \E request \in Requests :
       /\ request.type = "MARKET" => \A sd \in Sides : resting[sd] > 0
       /\ request.type = "CANCEL" => pushed > 0
       /\ orders' = IF Len(orders) < OrderCap THEN Append(orders, request) ELSE orders
  /\ pushed' = pushed + 1
  /\ UNCHANGED <<main, managerRunning, engine, engineRunning, bookVars, inbox, incomingVars>>

\* The time is up: SetRunning(false).
ClearRunning ==
  /\ main = "acting"
  /\ main' = "stopping"
  /\ managerRunning' = FALSE
  /\ UNCHANGED <<pushed, engine, engineRunning, orders, bookVars, inbox, incomingVars>>

\* Mutant: Stop does not wait until the ring buffer is empty.
StopAtOnce ==
  /\ main = "stopping"
  /\ main' = "joining"
  /\ engineRunning' = FALSE
  /\ UNCHANGED <<managerRunning, pushed, engine, orders, bookVars, inbox, incomingVars>>

\* Mutant: Stop leaves running_ as it is.
StopWaitsOnly ==
  /\ main = "stopping" /\ orders = <<>>
  /\ main' = "joining"
  /\ UNCHANGED <<managerRunning, pushed, engine, engineRunning, orders, bookVars, inbox,
                 incomingVars>>

Stop ==
  /\ main = "stopping" /\ orders = <<>>
  /\ main' = "joining"
  /\ engineRunning' = FALSE
  /\ UNCHANGED <<managerRunning, pushed, engine, orders, bookVars, inbox, incomingVars>>

Join ==
  /\ main = "joining" /\ engine = "returned" /\ incoming = "returned"
  /\ main' = "summary"
  /\ UNCHANGED <<managerRunning, pushed, engine, engineRunning, orders, bookVars, inbox,
                 incomingVars>>

-----------------------------------------------------------------------------
(* The engine thread                                                       *)

Start ==
  /\ engine = "unstarted"
  /\ engine' = "poll"
  /\ engineRunning' = TRUE
  /\ UNCHANGED <<mainVars, orders, bookVars, inbox, incomingVars>>

\* The test of the loop.
Poll ==
  /\ engine = "poll"
  /\ engine' = IF engineRunning THEN "pop" ELSE "returned"
  /\ UNCHANGED <<mainVars, engineRunning, orders, bookVars, inbox, incomingVars>>

PopNothing ==
  /\ engine = "pop" /\ orders = <<>>
  /\ engine' = "poll"
  /\ UNCHANGED <<mainVars, engineRunning, orders, bookVars, inbox, incomingVars>>

\* A cancel is processed at once: with the id it is given it finds no order.
PopOrder ==
  /\ engine = "pop" /\ orders # <<>>
  /\ orders' = Tail(orders)
  /\ IF Head(orders).type = "CANCEL"
       THEN engine' = "poll" /\ UNCHANGED taker
       ELSE engine' = "process" /\ taker' = Head(orders)
  /\ UNCHANGED <<mainVars, engineRunning, resting, inbox, incomingVars>>

\* Mutant: a trade is pushed whether or not there is room.
AfterPushUnbounded(n) == n + 1

\* PushTrade: a full ring buffer drops the trade, and nobody looks.
AfterPush(n) == IF n < TradeCap THEN n + 1 ELSE n

\* The order that is being matched is done with.
Processed == engine' = "poll" /\ taker' = NoTaker

\* A fill ends the taker, the resting order or both, and is reported to the
\* agents of the two, who may be the same.
Fill ==
  /\ engine = "process" /\ resting[Opposite(taker.side)] > 0
  /\ \/ resting' = [resting EXCEPT ![Opposite(taker.side)] = @ - 1] /\ UNCHANGED <<engine, taker>>
     \/ resting' = [resting EXCEPT ![Opposite(taker.side)] = @ - 1] /\ Processed
     \/ UNCHANGED resting /\ Processed
  /\ \E a, b \in Agents :
       LET one == [inbox EXCEPT ![a] = AfterPush(@)]
       IN inbox' = [one EXCEPT ![b] = AfterPush(@)]
  /\ UNCHANGED <<mainVars, engineRunning, orders, incomingVars>>

\* A limit order that meets no price it accepts is added to the book.
Rest ==
  /\ engine = "process" /\ taker.type = "LIMIT"
  /\ resting' = [resting EXCEPT ![taker.side] = @ + 1]
  /\ Processed
  /\ UNCHANGED <<mainVars, engineRunning, orders, inbox, incomingVars>>

\* A market order without counterpart is cancelled. Of that its own agent alone
\* gets a report: the other half of the trade is the engine's cancel.
Expire ==
  /\ engine = "process" /\ taker.type = "MARKET" /\ resting[Opposite(taker.side)] = 0
  /\ Processed
  /\ \E a \in Agents : inbox' = [inbox EXCEPT ![a] = AfterPush(@)]
  /\ UNCHANGED <<mainVars, engineRunning, orders, resting, incomingVars>>

-----------------------------------------------------------------------------
(* The incoming thread                                                     *)

\* The test of the loop of RunIncomingLoop, before each sweep over the agents.
Sweep ==
  /\ incoming = "sweep" /\ at = 0
  /\ incoming' = IF managerRunning THEN "sweep" ELSE "clear"
  /\ at' = 1
  /\ UNCHANGED <<mainVars, engine, engineRunning, orders, bookVars, inbox>>

\* PopTrade of the next agent.
PopTrade ==
  /\ incoming = "sweep" /\ at > 0
  /\ inbox' = [inbox EXCEPT ![at] = IF @ > 0 THEN @ - 1 ELSE 0]
  /\ at' = IF at = NAgents THEN 0 ELSE at + 1
  /\ UNCHANGED <<mainVars, engine, engineRunning, orders, bookVars, incoming>>

\* ClearIncoming of the next agent: one trade, or on to the agent after it.
ClearTrade ==
  /\ incoming = "clear" /\ inbox[at] > 0
  /\ inbox' = [inbox EXCEPT ![at] = @ - 1]
  /\ UNCHANGED <<mainVars, engine, engineRunning, orders, bookVars, incomingVars>>

Cleared ==
  /\ incoming = "clear" /\ inbox[at] = 0
  /\ IF at = NAgents
       THEN incoming' = "returned" /\ UNCHANGED at
       ELSE at' = at + 1 /\ UNCHANGED incoming
  /\ UNCHANGED <<mainVars, engine, engineRunning, orders, bookVars, inbox>>

-----------------------------------------------------------------------------

MainStep == Act \/ ClearRunning \/ Stop \/ Join
EngineStep == Start \/ Poll \/ PopNothing \/ PopOrder \/ Fill \/ Rest \/ Expire
IncomingStep == Sweep \/ PopTrade \/ ClearTrade \/ Cleared

Next == MainStep \/ EngineStep \/ IncomingStep

\* Each thread goes on when it can.
Spec ==
  /\ Init /\ [][Next]_vars
  /\ WF_vars(MainStep) /\ WF_vars(EngineStep) /\ WF_vars(IncomingStep)

-----------------------------------------------------------------------------
(* Properties                                                              *)

\* The ring buffers hold no more than they can, the threads are where they can be.
TypeOK ==
  /\ main \in {"acting", "stopping", "joining", "summary"}
  /\ engine \in {"unstarted", "poll", "pop", "process", "returned"}
  /\ incoming \in {"sweep", "clear", "returned"}
  /\ managerRunning \in BOOLEAN /\ engineRunning \in BOOLEAN
  /\ pushed \in 0..MaxOrders
  /\ orders \in Seq(Requests) /\ Len(orders) <= OrderCap
  /\ taker \in Requests \union {NoTaker}
  /\ resting \in [Sides -> Nat]
  /\ inbox \in [Agents -> 0..TradeCap]
  /\ at \in 0..NAgents

\* The engine thread returns only when it has processed every order that was
\* pushed, whatever the moment Stop is called at (MatchingEngine.cpp:5-20).
EngineDrains == engine = "returned" => orders = <<>> /\ taker = NoTaker

\* Once Stop has been called on an engine that has begun, everybody returns. An
\* engine thread that only begins after Stop sets running_ again, and main waits
\* for it forever (MatchingEngine.cpp:6, 16-20, main.cpp:115-127).
Terminates == main = "stopping" /\ engine # "unstarted" ~> main = "summary"

\* "Empty out each agent incoming buffer once we are done": no trade is left
\* unread when both threads have returned (AgentManager.cpp:53-56).
InboxesEmptied == main = "summary" => \A a \in Agents : inbox[a] = 0

=============================================================================
