----------------------------- MODULE MCSymmetry -----------------------------
(* Instances for the detection of symmetries and the partitions made from  *)
(* them: ten ops of two kinds.                                            *)
EXTENDS SymmInit

Ops10 == 0..9
ThreeInputs == {10, 11, 12}

(* A group is priced when its ops hang together and are at most three.     *)
HangsTogether(wiring, S) ==
  LET near(X) == {u \in S : \E v \in X :
                    \/ u \in wiring[v + 1] \/ v \in wiring[u + 1]
                    \/ wiring[u + 1] \cap wiring[v + 1] # {}}
  IN  \E o \in S : S \subseteq {o} \cup near({o}) \cup near(near({o}))

Small == UNION {kSubset(k, Ops10) : k \in 1..3}

Solve(wiring) ==
  [reads |-> [o \in Ops |-> wiring[o + 1]], required |-> {},
   fits |-> {S \in Small : HangsTogether(wiring, S)}]

Kinds == [o \in Ops |-> IF o % 5 \in {3, 4} THEN 2 ELSE 1]

(* Two heads of three ops on one input, a join and a tail.                 *)
Heads == Solve(<<{10}, {0}, {1}, {2, 7}, {3}, {10}, {5}, {6}, {4}, {8}>>)
(* Two trees of a root and two arms, the arms of the second one crossed.   *)
Arms == Solve(<<{10}, {0}, {0}, {1}, {2}, {11}, {5}, {5}, {7}, {6}>>)
(* Two pairs of sources read by ops of one kind, but not in one way.       *)
Readers == Solve(<<{10}, {10}, {0, 1}, {0}, {0}, {10}, {10}, {5, 6}, {5}, {6}>>)
(* Blocks of two kinds of ops in a row.                                    *)
Layers == Solve(<<{10}, {3}, {4}, {0}, {1}, {8}, {9}, {6}, {2}, {5}>>)
(* Two chains of three, one of which is left and entered again.            *)
Around == Solve(<<{10}, {0}, {1, 3}, {5}, {0}, {10}, {5}, {6, 8}, {5}, {11}>>)

FiveGraphs == {Heads, Arms, Readers, Layers, Around}

(* The order of the numbers, the reverse, and two others.                  *)
FourOrders ==
  {[o \in Ops |-> o], [o \in Ops |-> -o], [o \in Ops |-> (7 * o) % 10], [o \in Ops |-> (3 * o + 5) % 11]}
=============================================================================
