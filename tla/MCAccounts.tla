----------------------------- MODULE MCAccounts -----------------------------
(* Instances of the agents' accounts for TLC.                              *)
EXTENDS AccountsProperties

RandomSymmetry == Permutations(RandomAgents)

\* Nobody looks at the reports of a step after it.
Unreported ==
  <<agentVars, inbox, orders, pool, book, taker, lastId, cxl, index, dropped, lost>>

=============================================================================
