-------------------------- MODULE MCDiversityPool --------------------------
(* Pools of real layouts, with the distances that the code computes for    *)
(* them.                                                                   *)
EXTENDS DiversityPool


(* Twenty ops cut into intervals, with tensors retained between some:      *)
(* `halves` is a near duplicate of `peeled` and of `tipped`, which are     *)
(* further from each other.                                                *)
D == INSTANCE PoolDistance WITH Ops <- 0..19, Classes <- {}

Cut(bounds) == [i \in 1..(Len(bounds) - 1) |-> bounds[i]..(bounds[i + 1] - 1)]

Entry(bounds, kept) == [layout |-> Cut(bounds), retained |-> kept]

Partitions ==
  [halves |-> Entry(<<0, 10, 20>>, {}),
   peeled |-> Entry(<<0, 9, 10, 20>>, {}),
   tipped |-> Entry(<<0, 1, 10, 20>>, {}),
   thirds |-> Entry(<<0, 7, 14, 20>>, {6, 13}),
   fourths |-> Entry(<<0, 5, 10, 15, 20>>, {4, 13, 14}),
   fused |-> Entry(<<0, 20>>, {})]
Names == DOMAIN Partitions
Costs == [halves |-> 300, peeled |-> 301, tipped |-> 290,
          thirds |-> 320, fourths |-> 160, fused |-> 310]
Distances == [c \in Names |->
  [d \in Names |-> D!CouplingDistance(Partitions[c], Partitions[d])]]

-----------------------------------------------------------------------------
Layout(c) == Partitions[c].layout
Retained(c) == Partitions[c].retained

(* Tensors of which only one of the two retains: none in common counts as  *)
(* far as can be.                                                          *)
Apart(c, d) == (Retained(c) \cup Retained(d)) \ (Retained(c) \cap Retained(d))

Reference(c, d) ==
  LET all == Cardinality(Retained(c) \cup Retained(d))
      off == IF all = 0 THEN 0 ELSE (Far * Cardinality(Apart(c, d))) \div all
  IN  (3 * D!ByDefinition(Layout(c), Layout(d)) + 2 * off) \div 5

(* The contingency table of both distances counts what the adjusted Rand   *)
(* index is defined to be, and the table of the pool holds the distances   *)
(* of the coupled search.                                                  *)
DistanceIsRand ==
  \A i, j \in Members(pool) :
    LET c == pool.entries[i]
        d == pool.entries[j]
    IN  /\ D!PartitionDistance(Layout(c), Layout(d)) = D!ByDefinition(Layout(c), Layout(d))
        /\ i # j => LET gap == pool.dists[i][j] - Reference(c, d) IN gap \in {-1, 0, 1}
=============================================================================
