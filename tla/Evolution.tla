----------------------------- MODULE Evolution -----------------------------
(***************************************************************************)
(* The evolution operators: random mutations of a pool entry, with and     *)
(* without links, agreement crossover and DAG-cut crossover of two entries *)
(* (evolution.cpp).  SymmMutations adds the alignment of symmetric parts   *)
(* and the tasks that choose an operator and judge what it made.           *)
(*                                                                         *)
(* Unlike the FM search an operator chooses at random, so every candidate  *)
(* may be taken; costs decide only what fits.  An operator works on a copy *)
(* of its parent whose index is fresh, and every mutation ends in          *)
(* rebuild_index, so the index stays fresh throughout.                     *)
(***************************************************************************)
EXTENDS Coupling

CONSTANTS
  MateTables,    \* sequences of op sets: what the pool may hold
  Alike          \* problem -> equiv_classes of its Merkle hashes
ASSUME MateTablesAssumption ==
  \A q \in MateTables : q \in Seq(SUBSET Ops) /\ Len(q) <= MaxGroups
ASSUME AlikeAssumption ==
  \A p \in Problems : /\ Alike[p] \subseteq SUBSET Ops
                      /\ \A C, D \in Alike[p] : C # D => C \cap D = {}

VARIABLES
  mates,    \* the two parents of a crossover; <<>> when there are none
  todo      \* crossover: the clusters that have no place yet

evoVars == <<prob, ngroups, groups, index, edges, last, applied, links, phase, mates, todo>>

Dist == INSTANCE PoolDistance WITH Classes <- {}, Far <- 1

(* What a partition with this table would be, for the entries of the pool. *)
Entry(table) == INSTANCE Partition WITH
  groups <- table, index <- IndexOf(table), ngroups <- MaxGroups, edges <- {}

Accepted(table) == ~Entry(table)!Refused({})

NoMates == mates = <<>> /\ todo = {} /\ UNCHANGED <<mates, todo>>

(* The table and what rebuild_index(affected) makes of it.                 *)
Becomes(table, n, affected) ==
  /\ groups' = table
  /\ index' = IndexOf(table)
  /\ ngroups' = ngroups + n
  /\ edges' = UpdateEdges(edges, table, IndexOf(table), affected)
  /\ prob' = prob

-----------------------------------------------------------------------------
(* mutate_compound: one random mutation at a time.  An emptied partition   *)
(* has no groups left (SymmMutations).                                     *)

Mutate(kind) == /\ phase \in {"mutating", "emptied"}
                /\ Take(kind)
                /\ UNCHANGED <<links, phase>> /\ NoMates

NeighborGroups(g) ==
  {h \in Slots \ {g} : \E o \in (UNION {OpNeighbors(u) : u \in groups[g]}) \ groups[g] :
                          h \in GroupsOf(o)}

(* mutate_merge *)
MutateMerge ==
  /\ Mutate("MUTATE_MERGE")
  /\ \E ga \in Alive : \E gb \in NeighborGroups(ga) :
       LET whole == groups[ga] \cup groups[gb]
       IN  /\ ga < gb
           /\ ~MergeCreatesCycle({ga, gb})
           /\ ~CreatesEphemeralGap(whole, {ga, gb})
           /\ Fits(whole)
           /\ Becomes([groups EXCEPT ![ga] = whole, ![gb] = {}], 0, {ga, gb})

(* mutate_split; bridge_edges lists an edge from its lower end.            *)
SplitHarmless(u, v, g) ==
  LET side == SideOf(groups[g], u, v)
  IN  ~SplitCreatesEphemeralGap({side, groups[g] \ side}, {g}) /\ ~SplitCreatesCycle(g)

MutateSplit ==
  /\ Mutate("MUTATE_SPLIT")
  /\ \E g \in Alive : \E u \in groups[g] : \E v \in OpNeighbors(u) :
       /\ Cardinality(groups[g]) >= 3 /\ u < v
       /\ SplitFeasible(u, v, g) /\ SplitHarmless(u, v, g)
       /\ ApplySplit(u, v, g)

(* mutate_reassign: op moves to the group of any neighbour, which may hold *)
(* a copy of it already.                                                   *)
ReassignFeasible(op, from, to) ==
  LET rest == groups[from] \ {op}
      into == groups[to] \cup {op}
  IN  /\ rest # {} /\ rest = FirstComponent(rest)
      /\ Fits(into) /\ Fits(rest)
      /\ ~SplitCreatesEphemeralGap({into, rest}, {from, to})
      /\ ~StealCreatesCycle(op, from, to)

MutateReassign ==
  /\ Mutate("MUTATE_REASSIGN")
  /\ \E from \in Alive : \E op \in groups[from] :
       \E to \in (UNION {GroupsOf(n) : n \in OpNeighbors(op)}) \ {from} :
         /\ IsBorderOp(op, from)
         /\ ReassignFeasible(op, from, to)
         /\ Becomes([groups EXCEPT ![from] = @ \ {op}, ![to] = @ \cup {op}], 0, {from, to})

(* mutate_eject *)
EjectHarmless(op, g) ==
  /\ ~SplitCreatesEphemeralGap({{op}} \cup Components(groups[g] \ {op}), {g})
  /\ Holders(op) \ {g} # {} => ~DeRecomputeCreatesCycle(op, g)

MutateEject ==
  /\ Mutate("MUTATE_EJECT")
  /\ \E g \in Alive : \E op \in groups[g] :
       EjectFeasible(op, g) /\ EjectHarmless(op, g) /\ ApplyEject(op, g)

-----------------------------------------------------------------------------
(* mutate_tensor_merge: all the groups around a tensor become one; when    *)
(* they cannot, its ops are taken out into one group; when they cannot,    *)
(* into several, without a look at cycles.                                 *)

AroundTensor(t) ==
  (UNION {GroupsOf(c) : c \in Consumers(t)}) \cup (IF t \in Ops THEN GroupsOf(t) ELSE {})

Contested(t) == /\ Cardinality(Consumers(t)) >= 2
                /\ Cardinality(UNION {GroupsOf(c) : c \in Consumers(t)}) >= 2

CanMergeAround(t) ==
  LET G == AroundTensor(t)
  IN  ~MergeCreatesCycle(G) /\ Fits(Union(G)) /\ ~CreatesEphemeralGap(Union(G), G)

CanExtract(t) ==
  LET X     == Extracted(t)
      G     == AroundTensor(t)
      parts == UNION {Components(groups[g] \ X) : g \in G}
  IN  /\ ~ExtractCreatesCycle(X)
      /\ \A C \in parts : Fits(C)
      /\ ~SplitCreatesEphemeralGap({X} \cup parts, G)
      /\ TensorExtractApplies(t, G)

CanDealOut(t, k) ==
  /\ t \in Ops /\ k \in SplitFactors(Cardinality(Consumers(t)))
  /\ \A g \in AroundTensor(t) : AllFit(groups[g] \ Extracted(t))
  /\ \A i \in 0..(k - 1) : Fits(SubGroup(t, k, i))

MergeAround(G) ==
  Becomes([g \in Slots |-> IF g = Least(G) THEN Union(G)
                           ELSE IF g \in G THEN {} ELSE groups[g]], 0, G)

MutateTensorMerge ==
  /\ Mutate("MUTATE_TENSOR_MERGE")
  /\ \E t \in Tensors :
       /\ Contested(t)
       /\ \/ CanMergeAround(t) /\ MergeAround(AroundTensor(t))
          \/ /\ ~CanMergeAround(t) /\ CanExtract(t)
             /\ ApplyTensorExtract(t, AroundTensor(t))
          \/ /\ ~CanMergeAround(t) /\ ~CanExtract(t)
             /\ \E k \in 2..Cardinality(Ops) :
                  CanDealOut(t, k) /\ ApplyTensorExtractSplit(t, AroundTensor(t), k)

(* mutate_force_recompute: a remainder stays even when it does not fit.    *)
MutateForceRecompute ==
  /\ Mutate("MUTATE_FORCE_RECOMPUTE")
  /\ \E t \in Ops :
       LET G       == TouchedGroups(t)
           rest(g) == groups[g] \ Extracted(t)
           pieces  == (UNION {Leftover(g, rest(g)) : g \in G})
                      \cup {<<Rank(c), {t, c}>> : c \in Consumers(t)}
       IN  /\ PairsFit(t)
           /\ \E q \in Layouts(pieces) :
                Becomes(NewTable([g \in G |-> FirstComponent(rest(g))], q),
                        Len(q), G \cup Appended(q))

Mutation == \/ MutateMerge \/ MutateSplit       \/ MutateReassign
            \/ MutateEject \/ MutateTensorMerge \/ MutateForceRecompute

-----------------------------------------------------------------------------
(* mutate_compound_coupled: the mutated partition's links are repaired,    *)
(* and then one or two random link moves follow, which are taken as they   *)
(* come: nothing validates the links again.                                *)

(* Mutant of RepairedLinks: chains are not looked at.                      *)
RepairedWithoutChains == Invalidated(links, groups)

RepairedLinks == ChainsFixed(Invalidated(links, groups), groups, edges)

Repair ==
  /\ phase = "mutating"
  /\ phase' = "linking"
  /\ links' = RepairedLinks
  /\ UNCHANGED <<partVars, last, applied>> /\ NoMates

Relink(kind) == phase = "linking" /\ Take(kind) /\ UNCHANGED phase /\ NoMates

MutateUncouple ==
  /\ Relink("MUTATE_UNCOUPLE")
  /\ \E a, b \in Slots : \E t \in Kept(links, a, b) :
       links.next[a] = b /\ links' = Uncoupled(links, a, b, t)
  /\ UNCHANGED partVars

MutateCouple ==
  /\ Relink("MUTATE_COUPLE")
  /\ \E t \in Ops : \E a \in GroupsOf(t) : \E b \in ConsumerGroups(t) :
       CoupleFeasible(a, b, t) /\ links' = Link(links, a, b, {t})
  /\ UNCHANGED partVars

MutateRetainForceSplit ==
  /\ Relink("MUTATE_RETAIN_FORCE_SPLIT")
  /\ \E g \in Alive : \E op \in groups[g] : \E b \in Consumers(op) :
       /\ Cardinality(groups[g]) >= 3 /\ op < b
       /\ RetainForceSplitFeasible(op, b, g)
       /\ ApplyRetainForceSplit(op, b, g)

(* Only the first bridge of the group is tried.                            *)
Bridges(S) == {m \in S \X S : m[1] < m[2] /\ m[2] \in OpNeighbors(m[1]) /\ IsBridge(S, m[1], m[2])}

FirstBridge(S) ==
  CHOOSE m \in Bridges(S) : \A n \in Bridges(S) : m[1] < n[1] \/ (m[1] = n[1] /\ m[2] <= n[2])

MutateForceRetain ==
  /\ Relink("MUTATE_FORCE_RETAIN")
  /\ \E op \in Ops : \E a \in GroupsOf(op) : \E c \in Consumers(op) : \E gd \in GroupsOf(c) \ {a} :
       LET m   == FirstBridge(groups[gd])
           end == IF c \in SideOf(groups[gd], m[1], m[2]) THEN m ELSE <<m[2], m[1]>>
       IN  /\ Cardinality(groups[gd]) >= 3 /\ Bridges(groups[gd]) # {}
           /\ ForceRetainFeasible(op, a, end[1], end[2], gd)
           /\ ApplyForceRetain(op, a, end[1], end[2], gd)

MutateFuse ==
  /\ Relink("MUTATE_EPHEMERAL_FUSE")
  /\ \E p \in Ops : \E c \in Consumers(p) : \E d \in Alive :
       /\ Cardinality(Consumers(p)) >= 2
       /\ Holders(p) # {} /\ Holders(c) # {}
       /\ FuseFeasible(p, c, Least(Holders(p)), Least(Holders(c)), d)
       /\ ApplyFuse(p, c, Least(Holders(p)), Least(Holders(c)), d)

LinkMutation == \/ MutateUncouple    \/ MutateCouple \/ MutateRetainForceSplit
                \/ MutateForceRetain \/ MutateFuse

-----------------------------------------------------------------------------
(* crossover: ops that share a group in both parents form a cluster, and   *)
(* the clusters are placed in the child one by one, in any order.          *)

(* The last group that holds an op counts.                                 *)
LastGroup(table) ==
  [o \in Ops |-> CHOOSE g \in Slots : o \in table[g] /\ \A h \in Slots : o \in table[h] => h <= g]

Clusters(A, B) ==
  LET mapA == LastGroup(A)
      mapB == Dist!CanonicalBy(Alike[prob], mapA, LastGroup(B))
  IN  {{o \in Ops : mapA[o] = mapA[u] /\ mapB[o] = mapB[u]} : u \in Ops}

Pairs == {m \in MateTables \X MateTables :
            m[1] # m[2] /\ Accepted(TableOf(m[1])) /\ Accepted(TableOf(m[2]))}

Child(kind) == phase = "entry" /\ last' = kind /\ links' = NoLinks /\ UNCHANGED applied

StartCrossover ==
  /\ Child("CROSSOVER")
  /\ \E m \in Pairs :
       /\ mates' = <<TableOf(m[1]), TableOf(m[2])>>
       /\ todo' = Clusters(TableOf(m[1]), TableOf(m[2]))
  /\ groups' = TableOf(<<>>) /\ index' = IndexOf(groups') /\ edges' = {}
  /\ ngroups' = 0
  /\ phase' = "placing"
  /\ UNCHANGED prob

(* acyclic_add_ops_into *)
Joinable(C, g) == Fits(C \cup groups[g]) /\ ~ExtractCreatesCycle(C \cup groups[g])

Hosts(C) == {g \in UNION {GroupsOf(n) : n \in UNION {OpNeighbors(o) : o \in C}} : Joinable(C, g)}

(* One group for each op of S, in their order.                             *)
Singles(S) == [i \in 1..Cardinality(S) |-> {o \in S : Position(o, S) = i - 1}]

AddGroups(q) ==
  /\ ngroups + Len(q) <= MaxGroups
  /\ groups' = [g \in Slots |-> IF g - ngroups \in DOMAIN q THEN q[g - ngroups] ELSE groups[g]]
  /\ ngroups' = ngroups + Len(q)

PlaceCluster ==
  /\ phase = "placing"
  /\ \E C \in todo :
       /\ todo' = todo \ {C}
       /\ \/ \E g \in Hosts(C) : groups' = [groups EXCEPT ![g] = @ \cup C] /\ UNCHANGED ngroups
          \/ Fits(C) /\ AddGroups(<<C>>)
          \/ ~Fits(C) /\ Hosts(C) = {} /\ AddGroups(Singles(C))
  /\ index' = IndexOf(groups')
  /\ UNCHANGED <<prob, edges, last, applied, links, phase, mates>>

(* The child is kept unless partition_has_gap refuses it; then the cheaper *)
(* parent takes its place.                                                 *)
Settle ==
  /\ \/ phase = "placing" /\ todo = {}
     \/ phase = "cut"
  /\ \/ ~Refused({}) /\ UNCHANGED <<groups, ngroups>>
     \/ Refused({}) /\ \E i \in 1..2 : groups' = mates[i] /\ ngroups' = MaxGroups
  /\ index' = IndexOf(groups')
  /\ edges' = BuildEdges(groups', index')
  /\ phase' = "child" /\ mates' = <<>>
  /\ UNCHANGED <<prob, last, applied, links, todo>>

-----------------------------------------------------------------------------
(* crossover_dag_cut: the groups of one parent before a cut through the    *)
(* topological order, those of the other behind it, and what is left of    *)
(* the groups that straddle the cut.                                       *)

Held(q) == UNION {q[i] : i \in DOMAIN q}

(* An op set every producer of which is inside: a prefix of the order.     *)
CutAt(S) == \A o \in S : Producers(o) \subseteq S

DagPrefixes == {S \in SUBSET Ops : CutAt(S) /\ Cardinality(S) \in 2..(Cardinality(Ops) - 1)}

(* A tensor that stays on chip in S has a consumer elsewhere, and no group *)
(* of the child writes it.                                                 *)
(* Mutant of Stranded: S is always kept whole.                             *)
NeverStranded(S, q) == FALSE

Stranded(S, q) ==
  \E t \in S : /\ IsEphemeral(S, t) /\ Consumers(t) \ S # {}
               /\ ~\E i \in DOMAIN q : IsBoundaryOutput(q[i], t)

WithWhole(q, S, side) == IF S # {} /\ S \subseteq side THEN Append(q, S) ELSE q

Whole(q, P, side) ==
  LET add[g \in 0..MaxGroups] ==
        IF g = 0 THEN q ELSE WithWhole(add[g - 1], P[g], side)
  IN  add[MaxGroups]

WithRest(q, S) ==
  LET rest == S \ Held(q)
  IN  IF rest = {} THEN q
      ELSE IF Fits(rest) /\ ~Stranded(rest, q) THEN Append(q, rest)
      ELSE q \o Singles(rest)

Truncated(q, P, side) ==
  LET add[g \in 0..MaxGroups] ==
        IF g = 0 THEN q ELSE WithRest(add[g - 1], P[g] \cap side)
  IN  add[MaxGroups]

CutChild(L, R, left) ==
  LET right == Ops \ left
      cut   == Truncated(Truncated(Whole(Whole(<<>>, L, left), R, right), L, left), R, right)
  IN  cut \o Singles(Ops \ Held(cut))

DagCut ==
  /\ Child("DAG_CUT")
  /\ Cardinality(Ops) >= 4 /\ Cardinality(MateTables) >= 3
  /\ \E m \in Pairs : \E left \in DagPrefixes :
       LET q == CutChild(TableOf(m[1]), TableOf(m[2]), left)
       IN  /\ Len(q) <= MaxGroups
           /\ groups' = TableOf(q) /\ ngroups' = Len(q)
           /\ mates' = <<TableOf(m[1]), TableOf(m[2])>>
  /\ index' = IndexOf(groups')
  /\ edges' = {}
  /\ phase' = "cut"
  /\ UNCHANGED <<prob, todo>>

(* A coupled child of a crossover gets a link for a tensor a parent        *)
(* retained, from its first holder to the first group that takes it.       *)
SeedLink ==
  /\ phase = "child" /\ last \in {"CROSSOVER", "DAG_CUT"}
  /\ \E t \in Retainable : \E b \in ConsumerGroups(t) :
       /\ Holders(t) # {}
       /\ LET a == Least(Holders(t))
          IN  /\ FreeTail(a) /\ FreeHead(b)
              /\ CoupleFeasible(a, b, t)
              /\ links' = Link(links, a, b, {t})
  /\ UNCHANGED <<partVars, last, applied, phase>> /\ NoMates
=============================================================================
