-------------------------- MODULE LifecycleProofs --------------------------
(***************************************************************************)
(* The engine processes every order before it returns, for any number of   *)
(* agents and orders and any size of the ring buffers.                     *)
(***************************************************************************)
EXTENDS Lifecycle, TLAPS

\* Once Stop has seen the ring buffer empty it stays so, and the engine leaves
\* its loop only after that, even if its own store to running_ comes late.
DrainInv ==
  /\ main \in {"joining", "summary"} => orders = <<>>
  /\ engine # "unstarted" /\ ~engineRunning => main \in {"joining", "summary"}
  /\ engine = "returned" => ~engineRunning
  /\ engine # "process" => taker = NoTaker
  /\ engine = "process" => taker \in Requests
  /\ incoming = "clear" => at > 0

LInv == TypeOK /\ DrainInv

USE AgentsAssumption, CapAssumption, BoundsAssumption

LEMMA InitLInv == Init => LInv
<1> SUFFICES ASSUME Init PROVE LInv
  OBVIOUS
<1>1. inbox \in [Agents -> 0..TradeCap]
  BY DEF Init
<1>2. TypeOK
  <2>1. 0 \in 0..MaxOrders /\ 0 \in 0..NAgents
    OBVIOUS
  <2>2. orders \in Seq(Requests) /\ Len(orders) <= OrderCap
    BY DEF Init
  <2>3. resting \in [Sides -> Nat]
    BY DEF Init
  <2> QED  BY <1>1, <2>1, <2>2, <2>3 DEF Init, TypeOK
<1>3. DrainInv
  BY DEF Init, DrainInv
<1> QED  BY <1>2, <1>3 DEF LInv

LEMMA MainLInv == LInv /\ MainStep => LInv'
<1> SUFFICES ASSUME LInv, MainStep PROVE LInv'
  OBVIOUS
<1> USE DEF LInv, TypeOK, DrainInv, mainVars, bookVars, incomingVars
<1>1. CASE Act
  <2>1. orders' \in Seq(Requests) /\ Len(orders') <= OrderCap
    BY <1>1 DEF Act
  <2> QED  BY <1>1, <2>1 DEF Act
<1>2. CASE ClearRunning
  BY <1>2 DEF ClearRunning
<1>3. CASE Stop
  BY <1>3 DEF Stop
<1>4. CASE Join
  BY <1>4 DEF Join
<1> QED  BY <1>1, <1>2, <1>3, <1>4 DEF MainStep

\* One more report keeps a buffer within its capacity.
LEMMA ReportFits ==
  ASSUME NEW mail \in [Agents -> 0..TradeCap], NEW a \in Agents
  PROVE  [mail EXCEPT ![a] = AfterPush(@)] \in [Agents -> 0..TradeCap]
<1>1. AfterPush(mail[a]) \in 0..TradeCap
  BY DEF AfterPush
<1> QED  BY <1>1

\* The engine is done with the taker, or goes on with it.
LEMMA MatchLInv ==
  ASSUME LInv, engine = "process",
         UNCHANGED <<engine, taker>> \/ Processed,
         resting' \in [Sides -> Nat], inbox' \in [Agents -> 0..TradeCap],
         UNCHANGED <<mainVars, engineRunning, orders, incomingVars>>
  PROVE  LInv'
BY DEF LInv, TypeOK, DrainInv, Processed, mainVars, incomingVars

LEMMA EngineLInv == LInv /\ EngineStep => LInv'
<1> SUFFICES ASSUME LInv, EngineStep PROVE LInv'
  OBVIOUS
<1> USE DEF LInv, TypeOK, DrainInv, mainVars, bookVars, incomingVars
<1>1. CASE Start
  BY <1>1 DEF Start
<1>2. CASE Poll
  BY <1>2 DEF Poll
<1>3. CASE PopNothing
  BY <1>3 DEF PopNothing
<1>4. CASE PopOrder
  <2>1. /\ Head(orders) \in Requests
        /\ orders' \in Seq(Requests) /\ Len(orders') <= OrderCap
    BY <1>4 DEF PopOrder
  <2>2. main \notin {"joining", "summary"}
    BY <1>4 DEF PopOrder
  <2> QED  BY <1>4, <2>1, <2>2 DEF PopOrder
<1>5. CASE Fill
  <2> DEFINE opposite == Opposite(taker.side)
  <2>1. taker.side \in Sides
    BY <1>5 DEF Fill, Requests
  <2>2. opposite \in Sides
    BY <2>1 DEF Opposite, Sides
  <2> HIDE DEF opposite
  <2>3. resting' \in [Sides -> Nat]
    <3>1. resting[opposite] > 0
          /\ (resting' = resting \/ resting' = [resting EXCEPT ![opposite] = @ - 1])
      BY <1>5 DEF Fill, opposite
    <3>2. resting[opposite] - 1 \in Nat
      BY <2>2, <3>1
    <3> QED  BY <3>1, <3>2
  <2>4. inbox' \in [Agents -> 0..TradeCap]
    <3>1. PICK a \in Agents, b \in Agents :
            inbox' = [[inbox EXCEPT ![a] = AfterPush(@)] EXCEPT ![b] = AfterPush(@)]
      BY <1>5 DEF Fill
    <3> DEFINE one == [inbox EXCEPT ![a] = AfterPush(@)]
    <3>2. one \in [Agents -> 0..TradeCap]
      BY ReportFits
    <3> HIDE DEF one
    <3>3. [one EXCEPT ![b] = AfterPush(@)] \in [Agents -> 0..TradeCap]
      BY <3>2, ReportFits
    <3> QED  BY <3>1, <3>3 DEF one
  <2>5. engine = "process" /\ (UNCHANGED <<engine, taker>> \/ Processed)
        /\ UNCHANGED <<mainVars, engineRunning, orders, incomingVars>>
    BY <1>5 DEF Fill
  <2> QED  BY <2>3, <2>4, <2>5, MatchLInv
<1>6. CASE Rest
  <2>1. taker.side \in Sides
    BY <1>6 DEF Rest, Requests
  <2>2. resting' \in [Sides -> Nat]
    BY <1>6, <2>1 DEF Rest
  <2> QED  BY <1>6, <2>2, MatchLInv DEF Rest
<1>7. CASE Expire
  <2>1. inbox' \in [Agents -> 0..TradeCap]
    BY <1>7, ReportFits DEF Expire
  <2> QED  BY <1>7, <2>1, MatchLInv DEF Expire
<1> QED  BY <1>1, <1>2, <1>3, <1>4, <1>5, <1>6, <1>7 DEF EngineStep

LEMMA IncomingLInv == LInv /\ IncomingStep => LInv'
<1> SUFFICES ASSUME LInv, IncomingStep PROVE LInv'
  OBVIOUS
<1> USE DEF LInv, TypeOK, DrainInv, Agents, mainVars, bookVars, incomingVars
<1>1. CASE Sweep
  <2>1. incoming' \in {"sweep", "clear", "returned"} /\ at' \in 0..NAgents
    BY <1>1, AgentsAssumption DEF Sweep
  <2> QED  BY <1>1, <2>1 DEF Sweep
<1>2. CASE PopTrade
  <2>1. at \in 1..NAgents /\ at' \in 0..NAgents /\ inbox[at] \in 0..TradeCap
    BY <1>2 DEF PopTrade
  <2>2. (IF inbox[at] > 0 THEN inbox[at] - 1 ELSE 0) \in 0..TradeCap
    BY <2>1
  <2>3. inbox' \in [Agents -> 0..TradeCap]
    BY <1>2, <2>2 DEF PopTrade
  <2> QED  BY <1>2, <2>1, <2>3 DEF PopTrade
<1>3. CASE ClearTrade
  <2>1. at \in Agents /\ inbox[at] - 1 \in 0..TradeCap
    BY <1>3 DEF ClearTrade
  <2>2. inbox' \in [Agents -> 0..TradeCap]
    BY <1>3, <2>1 DEF ClearTrade
  <2> QED  BY <1>3, <2>2 DEF ClearTrade
<1>4. CASE Cleared
  BY <1>4 DEF Cleared
<1> QED  BY <1>1, <1>2, <1>3, <1>4 DEF IncomingStep

\* running_ is only cleared for good behind an empty ring buffer
\* (MatchingEngine.cpp:5-20, main.cpp:115-119).
THEOREM LifecycleInvariant == Spec => []LInv
<1>1. LInv /\ UNCHANGED vars => LInv'
  BY DEF vars, mainVars, bookVars, incomingVars, LInv, TypeOK, DrainInv
<1>2. LInv /\ [Next]_vars => LInv'
  BY <1>1, MainLInv, EngineLInv, IncomingLInv DEF Next
<1> QED
  BY <1>2, InitLInv, PTL DEF Spec

\* Every order that was accepted is processed before the engine thread ends,
\* wherever Stop meets it (MatchingEngine.cpp:5-20).
THEOREM EngineProcessesEverything == Spec => []EngineDrains
<1>1. LInv => EngineDrains
  BY DEF LInv, DrainInv, EngineDrains
<1> QED
  BY <1>1, LifecycleInvariant, PTL

\* The three threads' state stays what it is declared to be.
THEOREM LifecycleTypes == Spec => []TypeOK
<1>1. LInv => TypeOK
  BY DEF LInv
<1> QED
  BY <1>1, LifecycleInvariant, PTL

=============================================================================
