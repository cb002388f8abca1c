---------------------------- MODULE MCFmMoves ----------------------------
(* Instances for the partition moves.  A graph is written as the tuple of  *)
(* the inputs of ops 0, 1, 2, ...; 10 is the only graph input.             *)
EXTENDS FmMoves

Ops3 == 0..2
Ops4 == 0..3
OneInput == {10}

AnySet == (SUBSET Ops) \ {{}}

Solve(wiring, needed, sets) ==
  [reads |-> [o \in Ops |-> wiring[o + 1]], required |-> needed, fits |-> sets]

(* Everything fits, but for the op sets in `big`.                          *)
Chain   == <<{10}, {0}, {1}, {2}>>
Skip    == <<{10}, {0}, {1}, {0, 2}>>
Diamond == <<{10}, {0}, {0}, {1, 2}>>
Fork    == <<{10}, {0}, {0}, {0}>>
Siblings == <<{10}, {0}, {10}, {1, 10}>>    \* ops 0, 2 and 3 share the input
Backward == <<{3}, {3, 0}, {1}, {10}>>      \* not numbered topologically

FourOps == {Solve(g, {}, AnySet) : g \in {Chain, Skip, Diamond, Fork}}
           \cup {Solve(Siblings, {0}, AnySet), Solve(Backward, {3}, AnySet), Solve(Skip, {0}, AnySet)}
           \cup {Solve(Diamond, {1}, AnySet \ {Ops, {0, 1, 2}, {1, 2}})}

TwoInputs == {10, 11}

==========================================================================
