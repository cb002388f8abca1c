---------------------------- MODULE MCPipeline ----------------------------
(* Instances for the pipeline; graphs are written as in MCFmMoves.         *)
EXTENDS Pipeline

Ops4 == 0..3
OneInput == {10}
AnySet == (SUBSET Ops) \ {{}}

Solve(wiring, needed, sets) ==
  [reads |-> [o \in Ops |-> wiring[o + 1]], required |-> needed, fits |-> sets]

Skip    == <<{10}, {0}, {1}, {0, 2}>>
Diamond == <<{10}, {0}, {0}, {1, 2}>>
Beside  == <<{10}, {0}, {0}, {10}>>        \* ops 0 and 3 share the input
Detour  == <<{10}, {0}, {0, 1}, {1}>>      \* op 1 lies between 0 and 2
Upside  == <<{1, 3}, {3}, {0}, {10}>>      \* not numbered topologically

Several == {Solve(g, {}, AnySet) : g \in {Skip, Diamond, Beside, Upside}}
           \cup {Solve(Skip, {0}, AnySet), Solve(Detour, {0}, AnySet),
                 Solve(Diamond, {1}, AnySet \ {Ops, {0, 1, 2}, {1, 2}})}
OnlyBeside == {Solve(Beside, {}, AnySet)}
Kept == {0, 1}
==========================================================================
