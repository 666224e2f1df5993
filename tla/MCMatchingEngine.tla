-------------------------- MODULE MCMatchingEngine --------------------------
(* Instances of the matching engine for TLC.                               *)
EXTENDS EngineProperties, TLC

SlotSymmetry == Permutations(Slots)

\* States that differ only in fields nobody reads before they are set again
\* count as one: the data of a free node, and the links of a node outside the
\* book.
LiveState ==
  LET data == [s \in Slots \ free |-> <<order[s], rem[s]>>]
      links == [s \in Resting |-> <<prev[s], next[s]>>]
  IN <<data, links, free, head, tail, levelVars, orderMap, trades,
       engineVars, queueVars, crashed>>
=============================================================================
