------------------------- MODULE MCInitStrategies -------------------------
(* Instances for the initial partitions; graphs are written as in          *)
(* MCFmMoves.                                                              *)
EXTENDS InitStrategies

Ops4 == 0..3
TwoInputs == {10, 11}
AnySet == (SUBSET Ops) \ {{}}

Needing(needed, wiring, sets) ==
  [reads |-> [o \in Ops |-> wiring[o + 1]], required |-> needed, fits |-> sets]

Solve(wiring, sets) == Needing({}, wiring, sets)

(* Two consumers of each input, crosswise: 0 -> 1 and 2 -> 3.              *)
Braid  == Solve(<<{10}, {11, 0}, {11}, {10, 2}>>, AnySet)
Chain  == Solve(<<{10}, {0}, {1}, {2}>>, AnySet)
Skip   == Solve(<<{10}, {0}, {1}, {0, 2}>>, AnySet)
Output == Needing({0}, <<{10}, {0}, {1}, {0, 2}>>, AnySet)
Fork   == Solve(<<{10}, {0}, {0}, {0}>>, AnySet)
Cross  == Solve(<<{10}, {10}, {0, 1}, {0, 1}>>, AnySet)
Twins  == Solve(<<{10}, {0}, {10}, {2}>>, AnySet)
Narrow == Solve(<<{10}, {0}, {0}, {1}>>, {S \in AnySet : Cardinality(S) <= 2})

Several == {Braid, Chain, Skip, Output, Fork, Cross, Twins, Narrow}
==========================================================================
