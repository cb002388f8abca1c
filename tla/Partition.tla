----------------------------- MODULE Partition -----------------------------
(***************************************************************************)
(* A partition of the op graph into kernel groups: the table of groups,    *)
(* the op-to-groups index and the group-level graph that are kept beside   *)
(* it incrementally, the local cycle checks, the ephemeral-gap checks, and *)
(* the primitives through which every move mutates the three.              *)
(*                                                                         *)
(* Groups may overlap: an op held by several groups is recomputed.  A slot *)
(* holds the op set of a live group; a dead group, and a slot no group has *)
(* been given yet, holds {} (the code keeps the old ops of a dead group    *)
(* but guards every read of them by `alive`).                              *)
(***************************************************************************)
EXTENDS OpGraph, Sequences

CONSTANT MaxGroups      \* bound: groups a behaviour may allocate
ASSUME MaxGroupsAssumption == MaxGroups \in Nat
ASSUME RoomAssumption == Cardinality(Ops) <= MaxGroups

Slots == 1..MaxGroups

VARIABLES
  ngroups,   \* groups.size()
  groups,    \* slot -> op set
  index,     \* op_to_groups_: how often each slot is listed for an op
  edges      \* the incremental GroupDAG (succs_ and preds_), as a relation

partVars == <<prob, ngroups, groups, index, edges>>

-----------------------------------------------------------------------------
Alive == {g \in Slots : groups[g] # {}}

GroupsOf(o) == {g \in Slots : index[o][g] > 0}

(* groups_of_x.size() > 1: repeated entries count.                         *)
InMultiple(o) == \/ \E g, h \in GroupsOf(o) : g # h
                 \/ \E g \in Slots : index[o][g] > 1

IsBorderOp(o, g) == OpNeighbors(o) \ groups[g] # {}

-----------------------------------------------------------------------------
(* op_to_groups_ maintenance, on an index value.                           *)

IndexRemove(ix, S, g) ==
  [o \in Ops |-> IF o \in S THEN [ix[o] EXCEPT ![g] = 0] ELSE ix[o]]

IndexAdd(ix, S, g) ==
  [o \in Ops |-> IF o \in S THEN [ix[o] EXCEPT ![g] = @ + 1] ELSE ix[o]]

(* rebuild_index: one entry per live group that holds the op.              *)
IndexOf(table) ==
  [o \in Ops |-> [g \in Slots |-> IF o \in table[g] THEN 1 ELSE 0]]

-----------------------------------------------------------------------------
(* GroupDAG edges.  rebuild_edges_for enters, for a live group g, an edge  *)
(* to every group listed for a consumer outside g, and one from every      *)
(* group listed for a producer outside g.                                  *)

EdgesFor(table, ix, g) ==
  LET live == {h \in Slots \ {g} : table[h] # {}}
  IN  {<<g, h>> : h \in {h \in live :
          \E p \in table[g] : \E c \in Consumers(p) \ table[g] : ix[c][h] > 0}}
      \cup
      {<<h, g>> : h \in {h \in live :
          \E c \in table[g] : \E p \in Producers(c) \ table[g] : ix[p][h] > 0}}

(* GroupDAG::build *)
BuildEdges(table, ix) == UNION {EdgesFor(table, ix, g) : g \in Slots}

Neighbours(E, g) == {h \in Slots : <<g, h>> \in E \/ <<h, g>> \in E}

(* Mutants of UpdateEdges: the old edges are not cleared, or only the      *)
(* affected groups get theirs back.                                        *)
UpdateWithoutClear(E, table, ix, affected) ==
  LET rebuild == affected \cup UNION {Neighbours(E, g) : g \in affected}
  IN  E \cup UNION {EdgesFor(table, ix, g) : g \in rebuild}

UpdateAffectedOnly(E, table, ix, affected) ==
  LET rebuild == affected \cup UNION {Neighbours(E, g) : g \in affected}
  IN  {e \in E : e[1] \notin rebuild /\ e[2] \notin rebuild}
      \cup UNION {EdgesFor(table, ix, g) : g \in affected}

(* GroupDAG::update: the affected groups and their current neighbours lose *)
(* their edges and the live ones among them get them back.                 *)
UpdateEdges(E, table, ix, affected) ==
  LET rebuild == affected \cup UNION {Neighbours(E, g) : g \in affected}
  IN  {e \in E : e[1] \notin rebuild /\ e[2] \notin rebuild}
      \cup UNION {EdgesFor(table, ix, g) : g \in rebuild}

-----------------------------------------------------------------------------
(* Reachability in the group graph.  The topological positions the code    *)
(* keeps shorten these searches and are not modelled.                      *)

Succs(X) == {h \in Slots : \E g \in X : <<g, h>> \in edges}

ReachFrom(X) ==
  LET reach[n \in 0..MaxGroups] ==
        IF n = 0 THEN X
        ELSE LET r == reach[n - 1] IN r \cup Succs(r)
  IN  reach[MaxGroups]

CanReach(g, h) == h \in ReachFrom({g})

(* Mutant of MergeCreatesCycle: the search stops after one step.           *)
MergeCreatesShortCycle(G) == Succs(Succs(G) \ G) \cap G # {}

(* A path leaves G and comes back.                                         *)
MergeCreatesCycle(G) == ReachFrom(Succs(G) \ G) \cap G # {}

(* Is every live group that could supply t before g already behind g?      *)
AllBehind(g, suppliers) == \A h \in suppliers : CanReach(g, h)

RecomputeCreatesCycle(op, g) ==
  \E t \in Producers(op) :
    /\ (Consumers(t) \ {op}) \cap groups[g] = {}
    /\ t \notin groups[g]
    /\ AllBehind(g, (GroupsOf(t) \cap Alive) \ {g})

(* Groups with a consumer of op that would have to be served by suppliers. *)
ConsumerGroups(op) == (UNION {GroupsOf(c) : c \in Consumers(op)}) \cap Alive

DeRecomputeCreatesCycle(op, g) ==
  LET others == (GroupsOf(op) \cap Alive) \ {g}
      served == (UNION {GroupsOf(c) : c \in Consumers(op) \ groups[g]}) \cap Alive
  IN  \/ ConsumedIn(op, groups[g]) /\ AllBehind(g, others)
      \/ others # {} /\ \E h \in served \ {g} : AllBehind(h, others)

StealCreatesCycle(op, from, to) ==
  LET sources == (({to} \cup GroupsOf(op)) \cap Alive) \ {from}
  IN  \/ RecomputeCreatesCycle(op, to)
      \/ ConsumedIn(op, groups[from]) /\ AllBehind(from, sources)
      \/ sources # {} /\ \E h \in ConsumerGroups(op) \ {from, to} : AllBehind(h, sources)

(* eval_split never looks at the sides: it asks whether g is on a cycle.   *)
SplitCreatesCycle(g) == g \in ReachFrom(Succs({g}))

ExtractCreatesCycle(X) ==
  LET Users(S) == (UNION {Consumers(o) : o \in S}) \ X
      Fed(S) == (UNION {GroupsOf(c) : c \in Users(S \ X)}) \cap Alive
      seeds  == (UNION {GroupsOf(c) : c \in Users(X)}) \cap Alive
      reach[n \in 0..MaxGroups] ==
        IF n = 0 THEN seeds
        ELSE LET r == reach[n - 1] IN r \cup UNION {Fed(groups[g]) : g \in r}
  IN  \E g \in reach[MaxGroups] : \E o \in groups[g] \ X : ConsumedIn(o, X)

-----------------------------------------------------------------------------
(* Ephemeral gaps.  Parts is the family of op sets that replaces the       *)
(* groups in `gone`: t stays on chip in S, and consumer c outside S needs  *)
(* it from another part or another group.                                  *)

Supplies(S, t) == t \in S /\ ~ConsumedIn(t, S)

ServedByGroups(t, c, gone) ==
  \/ \E g \in (GroupsOf(t) \cap Alive) \ gone : ~ConsumedIn(t, groups[g])
  \/ \E g \in (GroupsOf(c) \cap Alive) \ gone : t \in groups[g]

CreatesEphemeralGap(S, gone) ==
  \E t \in S : \E c \in Consumers(t) \ S :
    /\ IsEphemeral(S, t)
    /\ ~ServedByGroups(t, c, gone)

SplitCreatesEphemeralGap(parts, gone) ==
  \E S \in parts : \E t \in S : \E c \in Consumers(t) \ S :
    /\ IsEphemeral(S, t)
    /\ ~\E P \in parts : Supplies(P, t) \/ (c \in P /\ t \in P)
    /\ ~ServedByGroups(t, c, gone)

-----------------------------------------------------------------------------
(* What a whole partition must satisfy, from the code that accepts one.    *)

(* is_acyclic: Kahn's algorithm in which a dependency of a group is met by *)
(* any live holder of the producer, and one without a live holder is       *)
(* dropped.  It places every group exactly when no non-empty set of live   *)
(* groups holds each of its members back.                                  *)
Dependencies(g) ==
  {t \in UNION {Producers(c) : c \in {c \in Ops : g \in GroupsOf(c)}} :
     g \notin GroupsOf(t) /\ GroupsOf(t) \cap Alive # {}}

IsAcyclic ==
  \A X \in (SUBSET Alive) \ {{}} :
    \E g \in X : \A t \in Dependencies(g) : (GroupsOf(t) \cap Alive) \ X # {}

Covered(o) == \E g \in GroupsOf(o) : g \in Alive

(* The gap half of partition_has_gap: t is on chip in g, a copy of one of  *)
(* its consumers sits in a group that cannot produce t, and nobody exports *)
(* t.  A consumer outside g is content with one of its copies having t.    *)
(* `retained` are the tensors is_retained vouches for.                     *)
Exported(t, g) == \E h \in (GroupsOf(t) \cap Alive) \ {g} : IsBoundaryOutput(groups[h], t)

HasGapBeyond(retained) ==
  \E g \in Alive : \E t \in groups[g] \ retained :
    /\ IsEphemeral(groups[g], t)
    /\ ~Exported(t, g)
    /\ \E c \in Consumers(t) :
         \/ c \notin groups[g] /\ \A h \in GroupsOf(c) \cap Alive : t \notin groups[h]
         \/ c \in groups[g] /\ \E h \in (GroupsOf(c) \cap Alive) \ {g} : t \notin groups[h]

HasEphemeralGap == HasGapBeyond({})

(* partition_has_gap *)
Refused(retained) == \/ ~IsAcyclic
                     \/ \E o \in Ops : ~Covered(o)
                     \/ HasGapBeyond(retained)

PartitionHasGap == Refused({})

-----------------------------------------------------------------------------
(* Partition::trivial: one singleton group per op, in op order.            *)

SlotOf(o) == Cardinality({p \in Ops : p <= o})

TrivialTable == [g \in Slots |-> {o \in Ops : SlotOf(o) = g}]

PartitionInit ==
  /\ prob \in Problems
  /\ ngroups = Cardinality(Ops)
  /\ groups = TrivialTable
  /\ index = IndexOf(groups)
  /\ edges = BuildEdges(groups, index)      \* group_dag() before the search

-----------------------------------------------------------------------------
(* How a move changes the table.  `kept` gives the new op set of the       *)
(* groups the move edits; `pieces` are the groups it adds, each a pair of  *)
(* a rank and an op set.  add_group appends them in the order of rank and, *)
(* within a rank, of least op.  There is no layout when the pieces do not  *)
(* fit into the slots MaxGroups leaves.                                    *)

Before(a, b) == \/ a[1] < b[1]
                \/ a[1] = b[1] /\ Least(a[2]) < Least(b[2])

Layouts(pieces) ==
  {q \in UNION {[1..n -> pieces] : n \in 0..(MaxGroups - ngroups)} :
     /\ \A x \in pieces : \E i \in DOMAIN q : q[i] = x
     /\ \A i, j \in DOMAIN q : i < j => Before(q[i], q[j])}

(* Mutant of Leftover: the loop over the components starts one too late.   *)
LeftoverFromThird(g, S) ==
  {<<g, C>> : C \in {C \in Components(S) \ {FirstComponent(S)} :
     \E D \in Components(S) \ {FirstComponent(S)} : Least(D) < Least(C)}}

(* Components other than the first become groups of their own.             *)
Leftover(g, S) == {<<g, C>> : C \in Components(S) \ {FirstComponent(S)}}

Rank(i) == MaxGroups + 1 + i    \* pieces added after the leftovers

NewTable(kept, q) ==
  [g \in Slots |-> IF g \in DOMAIN kept THEN kept[g]
                   ELSE IF g - ngroups \in DOMAIN q THEN q[g - ngroups][2]
                   ELSE groups[g]]

(* Entries add_group makes for the appended groups.                        *)
IndexAppend(ix, q) ==
  [o \in Ops |-> [g \in Slots |->
     IF g - ngroups \in DOMAIN q /\ o \in q[g - ngroups][2]
     THEN ix[o][g] + 1 ELSE ix[o][g]]]

Appended(q) == {g \in Slots : g - ngroups \in DOMAIN q}

(* index_update_dag(affected) closes every incremental move.               *)
Commit(table, ix, q, affected) ==
  /\ groups' = table
  /\ index' = ix
  /\ ngroups' = ngroups + Len(q)
  /\ edges' = UpdateEdges(edges, table, ix, affected)
  /\ prob' = prob
=============================================================================
