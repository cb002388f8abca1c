---------------------------- MODULE SeriesDetect ----------------------------
(***************************************************************************)
(* What finds the series patterns of a program (series.h): blocks of equal *)
(* length that follow one another in the topological order and are built   *)
(* alike, each fed by the block before it.                                 *)
(***************************************************************************)
EXTENDS SymmetryDetect

(* DAG::topo_sort: of the ops that are ready, the least goes first.        *)
TopoOrder ==
  LET order[n \in 0..Cardinality(Ops)] ==
        IF n = 0 THEN <<>>
        ELSE LET done  == order[n - 1]
                 left  == Ops \ {done[i] : i \in DOMAIN done}
             IN  Append(done, Least({o \in left : Producers(o) \cap left = {}}))
  IN  order[Cardinality(Ops)]

Block(topo, K, b) == SubSeq(topo, b * K + 1, (b + 1) * K)

(* Flows from block b to block c, by the places of their ends.             *)
FlowBetween(B, C) ==
  {e \in (DOMAIN B) \X (DOMAIN C) : C[e[2]] \in Consumers(B[e[1]])}

FlowInto(topo, K, b) ==
  IF b = 0 THEN {} ELSE FlowBetween(Block(topo, K, b - 1), Block(topo, K, b))

(* Block b is like the one before it: the kinds of its ops, its inner      *)
(* flows, and what it takes from its predecessor, which is not nothing.    *)
Matches(topo, K, b) ==
  LET B == Block(topo, K, b)
      A == Block(topo, K, b - 1)
  IN  /\ \A i \in 1..K : KindOf(A[i]) = KindOf(B[i])
      /\ FlowBetween(A, A) = FlowBetween(B, B)
      /\ FlowInto(topo, K, b - 1) = FlowInto(topo, K, b)
      /\ FlowInto(topo, K, b) # {}
      /\ FlowBetween(B, B) # {}

(* The longest runs: <<K, first block, number of blocks>>.                 *)
Runs(topo) ==
  LET N == Len(topo)
      last(K) == N \div K - 1
      like(K) == {b \in 1..last(K) : Matches(topo, K, b)}
  IN  UNION {{<<K, run[1], run[2]>> : run \in
                {r \in (0..last(K)) \X (2..(last(K) + 1)) :
                   /\ r[1] \notin like(K) /\ r[1] + r[2] \notin like(K)
                   /\ \A b \in (r[1] + 1)..(r[1] + r[2] - 1) : b \in like(K)}} : K \in 2..(N \div 2)}

(* A run inside a larger one is dropped, and of two over the same ops the  *)
(* one of fewer blocks.                                                    *)
Swallows(r, q) ==
  /\ r[2] * r[1] <= q[2] * q[1] /\ (q[2] + q[3]) * q[1] <= (r[2] + r[3]) * r[1]
  /\ r[3] * r[1] > q[3] * q[1] \/ r[3] > q[3]

(* SeriesDetector::discover: each series is the sequence of its blocks.    *)
Series ==
  LET topo == TopoOrder
      runs == Runs(topo)
      kept == {q \in runs : ~\E r \in runs : Swallows(r, q)}
  IN  IF Cardinality(Ops) < 4 THEN {}
      ELSE {[i \in 1..r[3] |-> Block(topo, r[1], r[2] + i - 1)] : r \in kept}
=============================================================================
