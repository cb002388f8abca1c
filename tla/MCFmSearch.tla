---------------------------- MODULE MCFmSearch ----------------------------
(* Instances for greedy descent and FM passes.  Graphs are written as in   *)
(* MCFmMoves.                                                              *)
EXTENDS FmSearch

Ops4 == 0..3
OneInput == {10}

Single == {{o} : o \in Ops}

Solve(wiring, needed, sets) ==
  [reads |-> [o \in Ops |-> wiring[o + 1]], required |-> needed, fits |-> sets]

Skip     == <<{10}, {0}, {1}, {0, 2}>>
Shortcut == <<{10}, {0}, {0, 1}, {2}>>

(* Skip: all pairs but one fit, and two sets of three ops.  {0, 2} is not  *)
(* connected: it is what is left of {0, 2, 3} when 3 leaves.  Shortcut: op *)
(* 0 may join 1 and 2 together, and strands 2 when it joins 1 alone.       *)
FewFit == {Solve(Skip, {}, Single \cup {{0, 1}, {1, 2}, {0, 2}, {0, 3}, {2, 3},
                                         {0, 1, 3}, {0, 2, 3}}),
           Solve(Shortcut, {}, Single \cup {{0, 1}, {1, 2}, {0, 1, 2}})}

==========================================================================
