---------------------------- MODULE MCCoupling ----------------------------
(* Instances for the coupled search; graphs are written as in MCFmMoves.   *)
EXTENDS CouplingForecast, ChainSolution

Ops5 == 0..4
TwoInputs == {10, 11}

(* Op 4 stands alone where four ops are enough.                            *)
WithoutLast == ((SUBSET (Ops \ {4})) \ {{}}) \cup {{4}}

Solve(wiring, needed, sets) ==
  [reads |-> [o \in Ops |-> wiring[o + 1]], required |-> needed, fits |-> sets]

Chain   == <<{10}, {0}, {1}, {2}, {11}>>
Skip    == <<{10}, {0}, {1}, {0, 2}, {11}>>
Diamond == <<{10}, {0}, {0}, {1, 2}, {11}>>
Fork    == <<{10}, {0}, {0}, {0}, {11}>>
Cross   == <<{10}, {10}, {0, 1}, {0, 1}, {11}>>

(* Two groups that can merge, each linked from a group of its own, and     *)
(* each linked to one.                                                     *)
Ladder  == <<{10}, {11}, {0}, {2}, {1, 3}>>
Rungs   == {{o} : o \in Ops} \cup {{2, 3}, {3, 4}, {2, 3, 4}}
Fan     == <<{10}, {0}, {10}, {1}, {2}>>
Spread  == {{o} : o \in Ops} \cup {{0, 1}, {0, 2}, {0, 1, 2}}

Several == {Solve(g, {}, WithoutLast) : g \in {Chain, Skip, Diamond, Fork, Cross}}
           \cup {Solve(Skip, {0}, WithoutLast), Solve(Ladder, {}, Rungs),
                Solve(Fan, {}, Spread)}

Starts == {<<{0}, {1}, {2}, {3}, {4}>>, <<{0, 1}, {2, 3}, {4}>>, <<{0}, {1, 2}, {3}, {4}>>,
           <<{0, 1, 2}, {3}, {4}>>, <<{0, 2}, {1, 3}, {4}>>, <<{0}, {1}, {2, 3}, {4}>>,
           <<{0, 1}, {2}, {3}, {4}>>}
==========================================================================
