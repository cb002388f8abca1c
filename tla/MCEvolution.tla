---------------------------- MODULE MCEvolution ----------------------------
(* Instances for the evolution operators; graphs are written as in         *)
(* MCFmMoves.                                                              *)
EXTENDS SymmMutations

Ops4 == 0..3
OneInput == {10}
AnySet == (SUBSET Ops) \ {{}}

Needing(needed, wiring, sets) ==
  [reads |-> [o \in Ops |-> wiring[o + 1]], required |-> needed, fits |-> sets]

Solve(wiring, sets) == Needing({}, wiring, sets)

Chain   == Solve(<<{10}, {0}, {1}, {2}>>, AnySet)
Skip    == Solve(<<{10}, {0}, {1}, {0, 2}>>, AnySet)
Output  == Needing({0}, <<{10}, {0}, {1}, {0, 2}>>, AnySet)
Fork    == Solve(<<{10}, {0}, {0}, {0}>>, AnySet)
Cross   == Solve(<<{10}, {10}, {0, 1}, {0, 1}>>, AnySet)

(* Two chains of two ops, or two pairs, that share an input.               *)
Twins   == Solve(<<{10}, {0}, {10}, {2}>>, AnySet)

(* The same, when no group holds more than two ops.                        *)
Narrow  == Solve(<<{10}, {0}, {0}, {1}>>, {S \in AnySet : Cardinality(S) <= 2})

Several == {Chain, Skip, Output, Fork, Cross, Twins, Narrow}

(* Twins aligns its chains, Cross its producers with its consumers' heads; *)
(* Fork has a pattern of one component, which is not usable.               *)
Symmetric ==
  [p \in Several |-> CASE p = Twins -> {<<<<0, 1>>, <<2, 3>>>>}
                       [] p = Cross -> {<<<<0, 2>>, <<1, 3>>>>}
                       [] p = Fork  -> {<<<<1, 2, 3>>>>}
                       [] OTHER     -> {}]

Classes == [p \in Several |-> IF p = Twins THEN {{0, 2}, {1, 3}}
                              ELSE IF p = Fork THEN {{1, 2, 3}} ELSE {}]

Tables == {<<{0}, {1}, {2}, {3}>>, <<{0, 1}, {2, 3}>>, <<{0}, {1, 2}, {3}>>,
           <<{0, 1, 2}, {3}>>, <<{0, 2}, {1, 3}>>, <<{0, 1}, {0, 2}, {3}>>}
==========================================================================
