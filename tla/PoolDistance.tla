---------------------------- MODULE PoolDistance ----------------------------
(***************************************************************************)
(* How far apart two partitions are for the diversity pool: one minus the  *)
(* adjusted Rand index of their op-to-group maps, from a contingency       *)
(* table, and for coupled partitions a blend of it with the Jaccard        *)
(* distance of what they retain.  A distance is a real in 0..1 in the      *)
(* code; here it is rounded down to a multiple of 1/Far.                   *)
(*                                                                         *)
(* A layout is the sequence of the live groups of a partition in slot      *)
(* order; every op is in at least one of them.                             *)
(***************************************************************************)
EXTENDS Integers, Sequences, FiniteSets
LOCAL INSTANCE FiniteSetsExt
LOCAL INSTANCE SequencesExt

CONSTANTS
  Ops,        \* a set of integers
  Classes,    \* equiv_classes of the Merkle hashes: disjoint sets of ops that
              \* look alike; {} when no two do
  Far         \* what stands for the distance 1.0

(* The last group that holds a recomputed op is its group.                 *)
GroupMap(layout) == [o \in Ops |-> Max({i \in DOMAIN layout : o \in layout[i]})]

(* merkle_canonicalise: the ops of a class are sorted by group in either   *)
(* map and those of one rank take each other's place.                      *)
ByGroup(C, map) ==
  SetToSortSeq(C, LAMBDA x, y : map[x] < map[y] \/ (map[x] = map[y] /\ x < y))

CanonicalBy(classes, mapA, mapB) ==
  LET Place(C, o) == CHOOSE i \in DOMAIN ByGroup(C, mapA) : ByGroup(C, mapA)[i] = o
  IN  [o \in Ops |-> IF \E C \in classes : o \in C
                     THEN LET C == CHOOSE C \in classes : o \in C
                          IN  mapB[ByGroup(C, mapB)[Place(C, o)]]
                     ELSE mapB[o]]

Canonical(mapA, mapB) == CanonicalBy(Classes, mapA, mapB)

Choose2(n) == (n * (n - 1)) \div 2

(* Mutant of RandDistance: the groups of both maps are counted, not their  *)
(* common ops.                                                             *)
RandDistanceByNumber(mapA, mapB) ==
  LET groupsA == {mapA[o] : o \in Ops}
      groupsB == {mapB[o] : o \in Ops}
  IN  IF Cardinality(groupsA) = Cardinality(groupsB) THEN 0 ELSE Far

(* 1 - ARI.  Twice the number of pairs is multiplied in to stay integral.  *)
RandDistance(mapA, mapB) ==
  LET groupsA == {mapA[o] : o \in Ops}
      groupsB == {mapB[o] : o \in Ops}
      Cell(i, j) == Cardinality({o \in Ops : mapA[o] = i /\ mapB[o] = j})
      Row(i) == Cardinality({o \in Ops : mapA[o] = i})
      Col(j) == Cardinality({o \in Ops : mapB[o] = j})
      sameA == MapThenSumSet(LAMBDA i : Choose2(Row(i)), groupsA)
      sameB == MapThenSumSet(LAMBDA j : Choose2(Col(j)), groupsB)
      agree == MapThenSumSet(LAMBDA c : Choose2(Cell(c[1], c[2])), groupsA \X groupsB)
      pairs == Choose2(Cardinality(Ops))
      expected == 2 * sameA * sameB
      most == pairs * (sameA + sameB)
      found == 2 * pairs * agree
  IN  IF most = expected THEN 0
      ELSE IF found <= expected THEN Far
      ELSE (Far * (most - found)) \div (most - expected)

(* partition_distance                                                      *)
PartitionDistance(a, b) ==
  LET mapA == GroupMap(a) IN RandDistance(mapA, Canonical(mapA, GroupMap(b)))

(* The second component of coupling_partition_distance.                    *)
JaccardDistance(ra, rb) ==
  IF ra \cup rb = {} THEN 0
  ELSE Far - (Far * Cardinality(ra \cap rb)) \div Cardinality(ra \cup rb)

(* coupling_partition_distance: three fifths structure, two fifths         *)
(* retained tensors.                                                       *)
CouplingDistance(a, b) ==
  (3 * RandDistance(GroupMap(a.layout), GroupMap(b.layout))
     + 2 * JaccardDistance(a.retained, b.retained)) \div 5

-----------------------------------------------------------------------------
(* The reference: pairs of ops that are together, and the pairs that would *)
(* be together in both by chance.                                          *)
Pairs == {p \in Ops \X Ops : p[1] < p[2]}

Together(layout) == {p \in Pairs : \E i \in DOMAIN layout : {p[1], p[2]} \subseteq layout[i]}

ByDefinition(a, b) ==
  LET A == Cardinality(Together(a))
      B == Cardinality(Together(b))
      both == Cardinality(Together(a) \cap Together(b))
      n == Cardinality(Pairs)
      excess == both * n - A * B          \* times n: above the expectation
      room == (A + B) * n - 2 * A * B     \* times 2n: its maximum
  IN  CASE room = 0    -> 0
        [] excess <= 0 -> Far
        [] OTHER       -> (Far * (room - 2 * excess)) \div room
=============================================================================
