------------------------------- MODULE Ledger -------------------------------
(***************************************************************************)
(* What the accounts of the agents promise together: cash and units change *)
(* hands in trades, at the price of a limit order, and in no other way.    *)
(* Nothing is reserved, in flight, late or lost here.                      *)
(***************************************************************************)
EXTENDS Integers

CONSTANTS Agents, InitialCash, InitialUnits, Quantities, Payments

VARIABLES cash, units

vars == <<cash, units>>

Init ==
  /\ cash = [a \in Agents |-> InitialCash]
  /\ units = [a \in Agents |-> InitialUnits]

\* What is left of everybody's balance when n goes from one agent to another.
Shifted(balance, from, to, n) ==
  [a \in Agents |-> balance[a] - (IF a = from THEN n ELSE 0) + (IF a = to THEN n ELSE 0)]

Transfer(seller, buyer, quantity, price) ==
  /\ cash' = Shifted(cash, buyer, seller, price * quantity)
  /\ units' = Shifted(units, seller, buyer, quantity)

Next ==
  \E seller, buyer \in Agents, quantity \in Quantities, price \in Payments :
    Transfer(seller, buyer, quantity, price)

Spec == Init /\ [][Next]_vars

=============================================================================
