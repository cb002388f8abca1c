-------------------------- MODULE EvolutionProofs --------------------------
(***************************************************************************)
(* The evolution operators, for every op graph and every bound.            *)
(*                                                                         *)
(* While a task works on its copy of an entry the partition and its links  *)
(* keep the invariants of the FM moves and of the coupled search.  While a *)
(* crossover builds a child there is no group graph yet; what it has are   *)
(* two complete parents, and clusters that are placed or still to place.   *)
(***************************************************************************)
EXTENDS SymmMutations, CouplingProofs

-----------------------------------------------------------------------------
(* A partition whose index and group graph were just built.                *)

Fresh ==
  /\ prob \in Problems
  /\ ngroups \in 0..MaxGroups
  /\ groups \in [Slots -> SUBSET Ops]
  /\ \A g \in Slots : g > ngroups => groups[g] = {}
  /\ index = IndexOf(groups)
  /\ edges = BuildEdges(groups, index)
  /\ AllHeld

LEMMA FreshIsInv == Fresh => Inv
<1> SUFFICES ASSUME Fresh PROVE Inv
  OBVIOUS
<1> USE DEF Fresh
<1>1. /\ index \in [Ops -> [Slots -> Nat]]
      /\ \A o \in Ops, g \in Slots : index[o][g] > 0 <=> o \in groups[g]
  BY DEF IndexOf
<1>2. edges \subseteq Slots \X Slots
  BY BuildMembers
<1>3. TypeOK
  BY <1>1, <1>2 DEF TypeOK
<1>4. IndexCurrent
  BY <1>1 DEF IndexCurrent, GroupsOf
<1>5. GdagSound
  BY DEF GdagSound
<1>6. GdagComplete
  <2>1. \A a, b \in Slots : FeedsDirectly(groups, a, b) => <<a, b>> \in edges
    BY <1>1, DirectIsEdge, BuildMembers
  <2> QED BY <1>3, <2>1, GdagCompleteDirect
<1> QED BY <1>3, <1>4, <1>5, <1>6 DEF Inv, Consistent

LEMMA FreshIsInvNext == Fresh' => Inv'
  BY FreshIsInv, PTL

(* A step that builds them anew. *)
LEMMA BuiltAnew ==
  ASSUME prob \in Problems, prob' = prob, ngroups' \in 0..MaxGroups,
         groups' \in [Slots -> SUBSET Ops], \A g \in Slots : g > ngroups' => groups'[g] = {},
         index' = IndexOf(groups'), edges' = BuildEdges(groups', index'),
         \A o \in Ops : \E g \in Slots : o \in groups'[g]
  PROVE  Inv'
<1>1. BuildEdges(groups, index)' = BuildEdges(groups', index')
  BY DEF BuildEdges, EdgesFor, Consumers, Producers
<1>2. AllHeld'
  BY DEF AllHeld
<1>3. Fresh'
  BY <1>1, <1>2 DEF Fresh, IndexOf
<1> QED BY <1>3, FreshIsInvNext

-----------------------------------------------------------------------------
(* The mutations *)

LEMMA LinksStayInOrder ==
  ASSUME Fine(links', Free(ngroups')), Plain(links')
  PROVE  LinkInv'
<1>1. Fine(links, Free(ngroups))' = Fine(links', Free(ngroups'))
  BY DEF Fine, Store, Backed, SelfKept, Idle, Free, Kept
<1>2. Plain(links)' = Plain(links')
  BY DEF Plain
<1> QED BY <1>1, <1>2 DEF LinkInv

(* What was held stays held, and the tables and the links stay in order.   *)
Upheld == Consistent' /\ LinkInv' /\ (AllHeld => AllHeld')

(* A move under links it does not look at. *)
LEMMA ShiftUnderLinks ==
  ASSUME Consistent, LinkInv, NEW op, NEW G, Shifts(op, G), links' = links
  PROVE  Upheld
<1>1. Consistent' /\ (AllHeld => AllHeld')
  BY ShiftKeepsConsistent
<1>2. Free(ngroups') \in SUBSET Free(ngroups)
  BY ShiftGrows, AliveInUse, FreeShrinks
<1>3. Fine(links', Free(ngroups')) /\ Plain(links')
  BY <1>2, FineOn DEF LinkInv
<1> QED BY <1>1, <1>3, LinksStayInOrder DEF Upheld

(* A rewritten table without new groups. *)
LEMMA BecomesUnderLinks ==
  ASSUME Consistent, LinkInv, NEW table \in [Slots -> SUBSET Ops], NEW affected \in SUBSET Alive,
         Becomes(table, 0, affected), \A g \in Slots \ affected : table[g] = groups[g],
         \A o \in Ops : (\E g \in Slots : o \in groups[g]) => \E g \in Slots : o \in table[g],
         links' = links
  PROVE  Upheld
<1>1. /\ groups' = table /\ index' = IndexOf(table) /\ ngroups' = ngroups /\ prob' = prob
      /\ edges' = UpdateEdges(edges, groups', index', affected)
  BY AliveInUse DEF Becomes
<1>2. /\ ngroups \in 0..MaxGroups /\ \A g \in Slots : g > ngroups => groups[g] = {}
      /\ affected \subseteq Slots /\ \A g \in affected : groups[g] # {}
  BY DEF Consistent, TypeOK, Alive
<1>3. \A g \in Slots : g > ngroups' => groups'[g] = {}
  BY <1>1, <1>2
<1>4. /\ index' \in [Ops -> [Slots -> Nat]]
      /\ \A o \in Ops, g \in Slots : index'[o][g] > 0 <=> o \in groups'[g]
  BY <1>1 DEF IndexOf
<1>5. Maintained(affected)
  BY <1>1, <1>2, <1>3, <1>4 DEF Maintained
<1>6. Consistent' /\ (AllHeld => AllHeld')
  BY <1>1, <1>5, EditKeepsConsistent
<1>7. LinkInv'
  BY <1>1, LinksStayInOrder DEF LinkInv
<1> QED BY <1>6, <1>7 DEF Upheld

(* Two groups exchange ops. *)
LEMMA PairUnderLinks ==
  ASSUME Consistent, LinkInv, NEW a \in Alive, NEW b \in Alive, a # b,
         NEW S \in SUBSET Ops, NEW T \in SUBSET Ops, S \cup T = groups[a] \cup groups[b],
         NEW table, table = [groups EXCEPT ![a] = S, ![b] = T],
         Becomes(table, 0, {a, b}), links' = links
  PROVE  Upheld
<1>1. groups \in [Slots -> SUBSET Ops] /\ a \in Slots /\ b \in Slots
  BY AliveInUse DEF Alive
<1>2. /\ table \in [Slots -> SUBSET Ops] /\ table[a] = S /\ table[b] = T
      /\ \A g \in Slots \ {a, b} : table[g] = groups[g]
  BY <1>1
<1>3. ASSUME NEW g \in Slots, NEW o \in groups[g] PROVE \E h \in Slots : o \in table[h]
  <2>2. CASE g \in {a, b}
    BY <1>1, <1>2, <2>2
  <2>3. CASE g \notin {a, b}
    BY <1>2, <2>3
  <2> QED BY <2>2, <2>3
<1>4. {a, b} \in SUBSET Alive
  OBVIOUS
<1> QED BY <1>2, <1>3, <1>4, BecomesUnderLinks

LEMMA NeighborsAreOps ==
  ASSUME NEW o
  PROVE  OpNeighbors(o) \subseteq Ops /\ Consumers(o) \subseteq Ops
  BY DEF OpNeighbors, Producers, Consumers

LEMMA MutateMergeKeeps ==
  ASSUME Consistent, LinkInv, MutateMerge
  PROVE  Upheld
<1>1. PICK ga \in Alive : \E gb \in NeighborGroups(ga) :
        /\ ga < gb
        /\ Becomes([groups EXCEPT ![ga] = groups[ga] \cup groups[gb], ![gb] = {}], 0, {ga, gb})
  BY DEF MutateMerge
<1>2. PICK gb \in NeighborGroups(ga) :
        /\ ga < gb
        /\ Becomes([groups EXCEPT ![ga] = groups[ga] \cup groups[gb], ![gb] = {}], 0, {ga, gb})
  BY <1>1
<1>3. gb \in Slots /\ ga \in Slots /\ ga # gb
  BY <1>2, SlotsFinite DEF NeighborGroups, Alive
<1>4. PICK o \in (UNION {OpNeighbors(u) : u \in groups[ga]}) : gb \in GroupsOf(o)
  BY <1>2 DEF NeighborGroups
<1>5. o \in Ops
  BY <1>4, NeighborsAreOps
<1>6. gb \in Alive
  BY <1>4, <1>5, HoldersAreLive
<1>7. PICK S : S = groups[ga] \cup groups[gb]
  OBVIOUS
<1>8. PICK T : T = {}
  OBVIOUS
<1>9. S \in SUBSET Ops /\ T \in SUBSET Ops /\ S \cup T = groups[ga] \cup groups[gb]
  BY <1>3, <1>7, <1>8, AliveInUse
<1>10. PICK table : table = [groups EXCEPT ![ga] = S, ![gb] = T]
  OBVIOUS
<1>11. Becomes(table, 0, {ga, gb})
  BY <1>2, <1>7, <1>8, <1>10
<1>12. links' = links
  BY DEF MutateMerge, Mutate
<1> QED BY <1>3, <1>6, <1>9, <1>10, <1>11, <1>12, PairUnderLinks

LEMMA MutateReassignKeeps ==
  ASSUME Consistent, LinkInv, MutateReassign
  PROVE  Upheld
<1>1. PICK from \in Alive : \E op \in groups[from] :
        \E to \in (UNION {GroupsOf(n) : n \in OpNeighbors(op)}) \ {from} :
          Becomes([groups EXCEPT ![from] = @ \ {op}, ![to] = @ \cup {op}], 0, {from, to})
  BY DEF MutateReassign
<1>2. PICK op \in groups[from] :
        \E to \in (UNION {GroupsOf(n) : n \in OpNeighbors(op)}) \ {from} :
          Becomes([groups EXCEPT ![from] = @ \ {op}, ![to] = @ \cup {op}], 0, {from, to})
  BY <1>1
<1>3. PICK to \in (UNION {GroupsOf(n) : n \in OpNeighbors(op)}) \ {from} :
          Becomes([groups EXCEPT ![from] = @ \ {op}, ![to] = @ \cup {op}], 0, {from, to})
  BY <1>2
<1>4. to # from /\ to \in Alive /\ from \in Slots /\ to \in Slots
  <2>1. PICK n \in OpNeighbors(op) : to \in GroupsOf(n)
    BY <1>3
  <2>2. n \in Ops
    BY <2>1, NeighborsAreOps
  <2> QED BY <1>3, <2>1, <2>2, HoldersAreLive DEF Alive
<1>5. groups \in [Slots -> SUBSET Ops] /\ op \in Ops
  BY <1>2, <1>4, AliveInUse
<1>6. PICK S : S = groups[from] \ {op}
  OBVIOUS
<1>7. PICK T : T = groups[to] \cup {op}
  OBVIOUS
<1>8. S \in SUBSET Ops /\ T \in SUBSET Ops /\ S \cup T = groups[from] \cup groups[to]
  BY <1>2, <1>4, <1>5, <1>6, <1>7
<1>9. PICK table : table = [groups EXCEPT ![from] = S, ![to] = T]
  OBVIOUS
<1>10. [groups EXCEPT ![from] = @ \ {op}, ![to] = @ \cup {op}] = table
  BY <1>4, <1>5, <1>6, <1>7, <1>9
<1>11. Becomes(table, 0, {from, to})
  BY <1>3, <1>10
<1>12. links' = links
  BY DEF MutateReassign, Mutate
<1> QED BY <1>4, <1>8, <1>9, <1>11, <1>12, PairUnderLinks

LEMMA MutateSplitKeeps ==
  ASSUME Consistent, LinkInv, MutateSplit
  PROVE  Upheld
<1>1. PICK g \in Alive : \E u \in groups[g] : \E v \in OpNeighbors(u) : ApplySplit(u, v, g)
  BY DEF MutateSplit
<1>2. PICK u \in groups[g] : \E v \in OpNeighbors(u) : ApplySplit(u, v, g)
  BY <1>1
<1>3. PICK v \in OpNeighbors(u) : ApplySplit(u, v, g)
  BY <1>2
<1>4. g \in Slots /\ u \in Ops
  BY <1>2, AliveInUse DEF Alive
<1>5. Shifts(u, {g})
  BY <1>3, <1>4, SplitShifts
<1>6. links' = links
  BY DEF MutateSplit, Mutate
<1> QED BY <1>5, <1>6, ShiftUnderLinks

LEMMA MutateEjectKeeps ==
  ASSUME Consistent, LinkInv, MutateEject
  PROVE  Upheld
<1>1. PICK g \in Alive : \E op \in groups[g] : ApplyEject(op, g)
  BY DEF MutateEject
<1>2. PICK op \in groups[g] : ApplyEject(op, g)
  BY <1>1
<1>3. g \in Slots /\ op \in Ops
  BY <1>2, AliveInUse DEF Alive
<1>4. Shifts(op, {g})
  BY <1>2, <1>3, EjectShifts
<1>5. links' = links
  BY DEF MutateEject, Mutate
<1> QED BY <1>4, <1>5, ShiftUnderLinks

LEMMA AroundAreAlive ==
  ASSUME Consistent, NEW t \in Tensors, Contested(t)
  PROVE  AroundTensor(t) \in (SUBSET Alive) \ {{}}
<1>1. \A c \in Consumers(t) : GroupsOf(c) \subseteq Alive
  BY HoldersAreLive, NeighborsAreOps
<1>2. t \in Ops => GroupsOf(t) \subseteq Alive
  BY HoldersAreLive
<1>3. PICK U : U = UNION {GroupsOf(c) : c \in Consumers(t)}
  OBVIOUS
<1>4. Cardinality(U) >= 2
  BY <1>3 DEF Contested
<1>5. U # {}
  BY <1>4, FS_EmptySet
<1>6. PICK x : \E c \in Consumers(t) : x \in GroupsOf(c)
  BY <1>3, <1>5
<1>7. \A y : y \in AroundTensor(t) <=> (\/ \E c \in Consumers(t) : y \in GroupsOf(c)
                                       \/ (t \in Ops /\ y \in GroupsOf(t)))
  BY DEF AroundTensor
<1>8. x \in AroundTensor(t) /\ AroundTensor(t) \subseteq Alive
  BY <1>1, <1>2, <1>6, <1>7
<1> QED BY <1>8

LEMMA MergeAroundKeeps ==
  ASSUME Consistent, LinkInv, NEW G \in (SUBSET Alive) \ {{}}, MergeAround(G), links' = links
  PROVE  Upheld
<1>1. PICK table : table = [g \in Slots |-> IF g = Least(G) THEN Union(G)
                                            ELSE IF g \in G THEN {} ELSE groups[g]]
  OBVIOUS
<1>2. groups \in [Slots -> SUBSET Ops] /\ G \subseteq Slots
  BY AliveInUse DEF Alive
<1>3. PICK s : s = Least(G)
  OBVIOUS
<1>4. s \in G
  BY <1>2, <1>3, SlotsFinite, LeastIsMember
<1>5. Union(G) \in SUBSET Ops
  BY <1>2 DEF Union
<1>6. /\ table \in [Slots -> SUBSET Ops] /\ table[s] = Union(G)
      /\ \A g \in Slots \ G : table[g] = groups[g]
  BY <1>1, <1>2, <1>3, <1>4, <1>5
<1>7. ASSUME NEW g \in Slots, NEW o \in groups[g] PROVE \E h \in Slots : o \in table[h]
  <2>2. CASE g \in G
    <3>1. o \in Union(G)
      BY <2>2 DEF Union
    <3> QED BY <1>2, <1>4, <1>6, <3>1
  <2>3. CASE g \notin G
    BY <1>6, <2>3
  <2> QED BY <2>2, <2>3
<1>8. Becomes(table, 0, G)
  BY <1>1 DEF MergeAround
<1> QED BY <1>6, <1>7, <1>8, BecomesUnderLinks

LEMMA MutateTensorMergeKeeps ==
  ASSUME Consistent, LinkInv, MutateTensorMerge
  PROVE  Upheld
<1>1. PICK t \in Tensors :
        /\ Contested(t)
        /\ \/ MergeAround(AroundTensor(t))
           \/ ApplyTensorExtract(t, AroundTensor(t))
           \/ \E k \in 2..Cardinality(Ops) :
                CanDealOut(t, k) /\ ApplyTensorExtractSplit(t, AroundTensor(t), k)
  BY DEF MutateTensorMerge
<1>2. PICK G \in (SUBSET Alive) \ {{}} : G = AroundTensor(t)
  BY <1>1, AroundAreAlive
<1>3. links' = links
  BY DEF MutateTensorMerge, Mutate
<1>4. CASE MergeAround(G)
  BY <1>3, <1>4, MergeAroundKeeps
<1>5. CASE ApplyTensorExtract(t, G)
  BY <1>3, <1>5, TensorExtractShifts, ShiftUnderLinks
<1>6. CASE \E k \in 2..Cardinality(Ops) : CanDealOut(t, k) /\ ApplyTensorExtractSplit(t, G, k)
  <2>1. PICK k : CanDealOut(t, k) /\ ApplyTensorExtractSplit(t, G, k)
    BY <1>6
  <2>2. t \in Ops /\ k \in SplitFactors(Cardinality(Consumers(t)))
    BY <2>1 DEF CanDealOut
  <2> QED BY <1>3, <2>1, <2>2, TensorExtractSplitShifts, ShiftUnderLinks
<1> QED BY <1>1, <1>2, <1>4, <1>5, <1>6

LEMMA MutateForceRecomputeKeeps ==
  ASSUME Consistent, LinkInv, MutateForceRecompute
  PROVE  Upheld
<1>1. PICK t \in Ops :
        LET G       == TouchedGroups(t)
            rest(g) == groups[g] \ Extracted(t)
            pieces  == (UNION {Leftover(g, rest(g)) : g \in G})
                       \cup {<<Rank(c), {t, c}>> : c \in Consumers(t)}
        IN  /\ PairsFit(t)
            /\ \E q \in Layouts(pieces) :
                 Becomes(NewTable([g \in G |-> FirstComponent(rest(g))], q),
                         Len(q), G \cup Appended(q))
  BY DEF MutateForceRecompute
<1>2. PairsFit(t) /\ PairsCut(t)
  BY <1>1 DEF PairsCut, PairPieces, Becomes
<1>3. links' = links
  BY DEF MutateForceRecompute, Mutate
<1> QED BY <1>2, <1>3, PairsShift, ShiftUnderLinks

LEMMA MutationKeeps ==
  ASSUME Consistent, LinkInv, Mutation
  PROVE  Upheld
  BY MutateMergeKeeps, MutateSplitKeeps, MutateReassignKeeps, MutateEjectKeeps,
     MutateTensorMergeKeeps, MutateForceRecomputeKeeps DEF Mutation

-----------------------------------------------------------------------------
(* The repair of the links, and the moves on links *)

LEMMA TendedKeepsLinks ==
  ASSUME LinkInv, Tended \/ Settled
  PROVE  LinkInv'
<1>1. Fine(links', Free(ngroups')) /\ Plain(links')
  BY DEF Tended, Tends, Settled, Fixes, LinkInv
<1> QED BY <1>1, LinksStayInOrder

LEMMA RepairKeeps ==
  ASSUME Inv, LinkInv, Repair
  PROVE  Inv' /\ LinkInv'
<1>1. /\ UNCHANGED partVars
      /\ links' = ChainsFixed(Invalidated(links, groups), groups, edges)
  BY DEF Repair, RepairedLinks
<1>2. Inv' /\ groups' = groups /\ ngroups' = ngroups
  BY <1>1, SamePartition
<1>3. PICK U \in SUBSET Slots : U = Free(ngroups)
  BY DEF Free
<1>4. Fine(links, U) /\ Plain(links)
  BY <1>3 DEF LinkInv
<1>5. PICK M : M = Invalidated(links, groups)
  OBVIOUS
<1>6. Validates(links, M, groups, U)
  BY <1>4, <1>5, InvalidatedKeeps
<1>7. PICK V : V = ChainsFixed(M, groups, edges)
  OBVIOUS
<1>8. Validates(M, V, groups, U)
  BY <1>6, <1>7, ChainsFixedKeeps DEF Validates
<1>9. Fixes(links, V, U)
  BY <1>6, <1>8, ValidatesFixes, FixesOn
<1>10. Fine(V, Free(ngroups')) /\ Plain(V) /\ links' = V
  BY <1>1, <1>2, <1>3, <1>4, <1>5, <1>7, <1>9 DEF Fixes
<1> QED BY <1>2, <1>10, LinksStayInOrder

LEMMA MutateUncoupleKeeps ==
  ASSUME Inv, LinkInv, MutateUncouple
  PROVE  Inv' /\ LinkInv'
<1>1. PICK a \in Slots, b \in Slots :
        \E t \in Kept(links, a, b) : links.next[a] = b /\ links' = Uncoupled(links, a, b, t)
  BY DEF MutateUncouple
<1>2. PICK t \in Kept(links, a, b) : links.next[a] = b /\ links' = Uncoupled(links, a, b, t)
  BY <1>1
<1>3. UNCHANGED partVars
  BY DEF MutateUncouple
<1>4. Inv' /\ ngroups' = ngroups
  BY <1>3, SamePartition
<1>5. PICK U \in SUBSET Slots : U = Free(ngroups)
  BY DEF Free
<1>6. Fine(links, U) /\ Plain(links)
  BY <1>5 DEF LinkInv
<1>7. links.prev[b] = a
  BY <1>2, <1>6, NoneApart DEF Fine, Backed
<1>8. PICK S : S = Ops \ {t}
  OBVIOUS
<1>9. PICK V : V = PruneLink(links, a, b, S)
  OBVIOUS
<1>10. Prunes(links, V, a, b, S, U)
  BY <1>6, <1>7, <1>9, PruneKeeps
<1>11. Fine(V, Free(ngroups')) /\ Plain(V) /\ links' = V
  BY <1>2, <1>4, <1>5, <1>6, <1>8, <1>9, <1>10, TrimsPlain DEF Prunes, Uncoupled
<1> QED BY <1>4, <1>11, LinksStayInOrder

LEMMA MutateCoupleKeeps ==
  ASSUME Inv, LinkInv, MutateCouple
  PROVE  Inv' /\ LinkInv'
<1>1. PICK t \in Ops : \E a \in GroupsOf(t) : \E b \in ConsumerGroups(t) :
        CoupleFeasible(a, b, t) /\ links' = Link(links, a, b, {t})
  BY DEF MutateCouple
<1>2. PICK a \in GroupsOf(t) : \E b \in ConsumerGroups(t) :
        CoupleFeasible(a, b, t) /\ links' = Link(links, a, b, {t})
  BY <1>1
<1>3. PICK b \in ConsumerGroups(t) :
        CoupleFeasible(a, b, t) /\ links' = Link(links, a, b, {t})
  BY <1>2
<1>4. a \in Slots /\ b \in Slots /\ UNCHANGED partVars
  BY <1>3 DEF GroupsOf, ConsumerGroups, Alive, MutateCouple
<1>5. Tended
  BY <1>3, <1>4, CoupleTends
<1> QED BY <1>4, <1>5, SamePartition, TendedKeepsLinks

LEMMA SeedLinkKeeps ==
  ASSUME Inv, LinkInv, SeedLink
  PROVE  Inv' /\ LinkInv'
<1>1. PICK t \in Retainable : \E b \in ConsumerGroups(t) :
        /\ Holders(t) # {}
        /\ CoupleFeasible(Least(Holders(t)), b, t)
        /\ links' = Link(links, Least(Holders(t)), b, {t})
  BY DEF SeedLink
<1>2. PICK b \in ConsumerGroups(t) :
        /\ Holders(t) # {}
        /\ CoupleFeasible(Least(Holders(t)), b, t)
        /\ links' = Link(links, Least(Holders(t)), b, {t})
  BY <1>1
<1>3. PICK a : a = Least(Holders(t))
  OBVIOUS
<1>4. t \in Ops /\ b \in Slots /\ UNCHANGED partVars
  BY <1>2, RetainableAssumption DEF ConsumerGroups, Alive, SeedLink
<1>5. a \in Slots
  BY <1>2, <1>3 DEF CoupleFeasible, Alive
<1>6. CoupleFeasible(a, b, t) /\ links' = Link(links, a, b, {t})
  BY <1>2, <1>3
<1>7. Tended
  BY <1>4, <1>5, <1>6, CoupleTends
<1> QED BY <1>4, <1>7, SamePartition, TendedKeepsLinks

LEMMA MutateRetainForceSplitKeeps ==
  ASSUME Inv, LinkInv, MutateRetainForceSplit
  PROVE  Inv' /\ LinkInv'
<1>1. PICK g \in Alive : \E op \in groups[g] : \E b \in Consumers(op) :
        ApplyRetainForceSplit(op, b, g)
  BY DEF MutateRetainForceSplit
<1>2. PICK op \in groups[g] : \E b \in Consumers(op) : ApplyRetainForceSplit(op, b, g)
  BY <1>1
<1>3. PICK b \in Consumers(op) : ApplyRetainForceSplit(op, b, g)
  BY <1>2
<1>4. op \in Ops
  BY AliveInUse DEF Inv, Alive
<1>5. Inv' /\ Settled
  BY <1>3, <1>4, RetainForceSplitSettles
<1> QED BY <1>5, TendedKeepsLinks

LEMMA MutateForceRetainKeeps ==
  ASSUME Inv, LinkInv, MutateForceRetain
  PROVE  Inv' /\ LinkInv'
<1>1. PICK op \in Ops : \E a \in GroupsOf(op) : \E c \in Consumers(op) :
        \E gd \in GroupsOf(c) \ {a} : \E u, v :
          ForceRetainFeasible(op, a, u, v, gd) /\ ApplyForceRetain(op, a, u, v, gd)
  BY DEF MutateForceRetain
<1>2. PICK a \in GroupsOf(op), c \in Consumers(op) :
        \E gd \in GroupsOf(c) \ {a} : \E u, v :
          ForceRetainFeasible(op, a, u, v, gd) /\ ApplyForceRetain(op, a, u, v, gd)
  BY <1>1
<1>3. PICK gd \in GroupsOf(c) \ {a} : \E u, v :
        ForceRetainFeasible(op, a, u, v, gd) /\ ApplyForceRetain(op, a, u, v, gd)
  BY <1>2
<1>4. PICK u, v : ForceRetainFeasible(op, a, u, v, gd) /\ ApplyForceRetain(op, a, u, v, gd)
  BY <1>3
<1>5. c \in Ops
  BY NeighborsAreOps
<1>6. a \in Alive /\ gd \in Alive /\ a # gd
  BY <1>5, HoldersAreLive DEF Inv
<1>7. FreeTail(a) /\ FreeHead(gd)
  BY <1>4 DEF ForceRetainFeasible
<1>8. Inv' /\ Settled
  BY <1>4, <1>6, <1>7, ForceRetainSettles
<1> QED BY <1>8, TendedKeepsLinks

LEMMA MutateFuseKeeps ==
  ASSUME Inv, LinkInv, MutateFuse
  PROVE  Inv' /\ LinkInv'
<1>1. PICK p \in Ops : \E c \in Consumers(p) : \E d \in Alive :
        /\ Holders(p) # {} /\ Holders(c) # {}
        /\ FuseFeasible(p, c, Least(Holders(p)), Least(Holders(c)), d)
        /\ ApplyFuse(p, c, Least(Holders(p)), Least(Holders(c)), d)
  BY DEF MutateFuse
<1>2. PICK c \in Consumers(p), d \in Alive :
        /\ Holders(p) # {} /\ Holders(c) # {}
        /\ FuseFeasible(p, c, Least(Holders(p)), Least(Holders(c)), d)
        /\ ApplyFuse(p, c, Least(Holders(p)), Least(Holders(c)), d)
  BY <1>1
<1>3. PICK gp : gp = Least(Holders(p))
  OBVIOUS
<1>4. PICK gc : gc = Least(Holders(c))
  OBVIOUS
<1>5. c \in Ops
  BY NeighborsAreOps
<1>6. Holders(p) \in SUBSET Nat /\ Holders(c) \in SUBSET Nat
      /\ Holders(p) \subseteq Alive /\ Holders(c) \subseteq Alive
  BY SlotsFinite DEF Holders, Alive
<1>7. gp \in Alive /\ gc \in Alive
  BY <1>2, <1>3, <1>4, <1>6, LeastIsMember
<1>8. FreeHead(d) /\ ApplyFuse(p, c, gp, gc, d)
  BY <1>2, <1>3, <1>4 DEF FuseFeasible
<1>9. Inv' /\ Tended
  BY <1>5, <1>7, <1>8, FuseTends
<1> QED BY <1>9, TendedKeepsLinks

LEMMA LinkMutationKeeps ==
  ASSUME Inv, LinkInv, LinkMutation
  PROVE  Inv' /\ LinkInv'
  BY MutateUncoupleKeeps, MutateCoupleKeeps, MutateRetainForceSplitKeeps,
     MutateForceRetainKeeps, MutateFuseKeeps DEF LinkMutation

(* The steps between, and the link moves of the descent. *)
LEMMA NothingMoves ==
  ASSUME Consistent, LinkInv, UNCHANGED partVars, links' = links
  PROVE  Upheld
<1>1. prob' = prob /\ ngroups' = ngroups /\ groups' = groups /\ index' = index
      /\ edges' = edges
  BY DEF partVars
<1>2. TypeOK' BY <1>1 DEF Consistent, TypeOK
<1>3. IndexCurrent' BY <1>1 DEF Consistent, IndexCurrent, GroupsOf
<1>4. AllHeld => AllHeld' BY <1>1 DEF AllHeld
<1>5. GdagSound'
  BY <1>1 DEF Consistent, GdagSound, BuildEdges, EdgesFor, Consumers, Producers
<1>6. GdagComplete' BY <1>1 DEF Consistent, GdagComplete, Alive, Consumers
<1>7. LinkInv'
  BY <1>1, SameLinks, TendedKeepsLinks
<1> QED BY <1>2, <1>3, <1>4, <1>5, <1>6, <1>7 DEF Consistent, Upheld

LEMMA DescendKeeps ==
  ASSUME Inv, LinkInv, Descend
  PROVE  Inv' /\ LinkInv'
<1>1. CASE StartDescent
  BY <1>1, NothingMoves DEF StartDescent, Upheld, Inv
<1>2. CASE EndDescent
  BY <1>2, NothingMoves DEF EndDescent, Upheld, Inv
<1>3. CASE Couple
  <2>1. PICK a \in Slots, b \in Slots : \E t \in Retainable :
          CoupleFeasible(a, b, t) /\ links' = Link(links, a, b, {t})
    BY <1>3 DEF Couple
  <2>2. PICK t \in Retainable : CoupleFeasible(a, b, t) /\ links' = Link(links, a, b, {t})
    BY <2>1
  <2>3. UNCHANGED partVars /\ t \in Ops
    BY <1>3, RetainableAssumption DEF Couple
  <2>4. Tended
    BY <2>2, <2>3, CoupleTends
  <2> QED BY <2>3, <2>4, SamePartition, TendedKeepsLinks
<1> QED BY <1>1, <1>2, <1>3 DEF Descend

-----------------------------------------------------------------------------
(* The invariant *)

Working == phase \in {"entry", "descent", "mutating", "linking", "child"}

Complete(table) == /\ table \in [Slots -> SUBSET Ops]
                   /\ \A o \in Ops : \E g \in Slots : o \in table[g]

Parents == \A i \in 1..2 : Complete(mates[i])

(* A child under construction, between its two parents. *)
UnderConstruction ==
  /\ prob \in Problems
  /\ ngroups \in 0..MaxGroups
  /\ groups \in [Slots -> SUBSET Ops]
  /\ \A g \in Slots : g > ngroups => groups[g] = {}
  /\ index = IndexOf(groups)
  /\ links = NoLinks
  /\ Parents

PlacedOrToPlace ==
  /\ todo \in SUBSET (SUBSET Ops)
  /\ \A o \in Ops : (\E g \in Slots : o \in groups[g]) \/ (\E C \in todo : o \in C)

EvoInv ==
  /\ phase \in {"entry", "descent", "mutating", "linking", "child",
                "placing", "cut", "emptied", "done"}
  /\ Working => Inv /\ LinkInv
  /\ phase = "emptied" => Consistent /\ LinkInv
  /\ phase \in {"placing", "cut"} => UnderConstruction
  /\ phase = "placing" => PlacedOrToPlace
  /\ phase \in {"cut", "done"} => CoversAll

-----------------------------------------------------------------------------
(* Where tasks start *)

LEMMA NoLinksInOrder ==
  ASSUME links' = NoLinks
  PROVE  LinkInv'
<1>1. Free(ngroups') \subseteq Slots
  BY DEF Free
<1>2. Fine(links', Free(ngroups')) /\ Plain(links')
  BY <1>1, NoLinksFine
<1> QED BY <1>2, LinksStayInOrder

LEMMA TableOfSets ==
  ASSUME NEW q \in Seq(SUBSET Ops), Len(q) <= MaxGroups
  PROVE  /\ TableOf(q) \in [Slots -> SUBSET Ops]
         /\ \A g \in Slots : g > Len(q) => TableOf(q)[g] = {}
         /\ \A i \in DOMAIN q : i \in Slots /\ TableOf(q)[i] = q[i]
         /\ Len(q) \in 0..MaxGroups
<1>1. DOMAIN q = 1..Len(q) /\ Len(q) \in Nat /\ \A i \in 1..Len(q) : q[i] \in SUBSET Ops
  OBVIOUS
<1>2. DOMAIN q \subseteq Slots
  BY <1>1, MaxGroupsAssumption DEF Slots
<1>3. \A g \in Slots : g > Len(q) => g \notin DOMAIN q
  BY <1>1, MaxGroupsAssumption DEF Slots
<1> QED BY <1>1, <1>2, <1>3, MaxGroupsAssumption DEF TableOf

LEMMA AcceptedIsComplete ==
  ASSUME NEW table \in [Slots -> SUBSET Ops], Accepted(table)
  PROVE  Complete(table)
<1>1. \A o \in Ops : Entry(table)!Covered(o)
  BY DEF Accepted, Entry!Refused
<1>2. \A o \in Ops : \E g \in Slots : IndexOf(table)[o][g] > 0
  BY <1>1 DEF Entry!Covered, Entry!GroupsOf, Entry!Slots, Slots
<1>3. \A o \in Ops, g \in Slots : IndexOf(table)[o][g] > 0 => o \in table[g]
  BY DEF IndexOf
<1> QED BY <1>2, <1>3 DEF Complete

LEMMA MatesAreComplete ==
  ASSUME NEW q \in MateTables, Accepted(TableOf(q))
  PROVE  Complete(TableOf(q))
  BY TableOfSets, AcceptedIsComplete, MateTablesAssumption

LEMMA EvoInitHolds == EvoInit => EvoInv
<1> SUFFICES ASSUME EvoInit PROVE EvoInv
  OBVIOUS
<1>1. PICK q \in MateTables : Accepted(TableOf(q)) /\ groups = TableOf(q) /\ ngroups = Len(q)
  BY DEF EvoInit
<1>2. /\ groups \in [Slots -> SUBSET Ops] /\ ngroups \in 0..MaxGroups
      /\ \A g \in Slots : g > ngroups => groups[g] = {}
  BY <1>1, TableOfSets, MateTablesAssumption
<1>3. AllHeld
  BY <1>1, MatesAreComplete DEF Complete, AllHeld
<1>4. Fresh
  BY <1>2, <1>3 DEF EvoInit, Fresh
<1>5. Free(ngroups) \subseteq Slots
  BY DEF Free
<1>6. LinkInv
  BY <1>5, NoLinksFine DEF EvoInit, LinkInv
<1> QED BY <1>4, <1>6, FreshIsInv DEF EvoInit, EvoInv

-----------------------------------------------------------------------------
(* Crossover *)

LEMMA SinglesCover ==
  ASSUME NEW S \in SUBSET Ops
  PROVE  /\ Singles(S) \in Seq(SUBSET Ops)
         /\ DOMAIN Singles(S) = 1..Cardinality(S)
         /\ \A i \in DOMAIN Singles(S) : Singles(S)[i] \subseteq S
         /\ \A o \in S : \E i \in DOMAIN Singles(S) : Singles(S)[i] = {o}
<1> DEFINE rank == [o \in S |-> o]
<1>1. /\ IsFiniteSet(S) /\ rank \in [S -> Int]
      /\ \A o, u \in S : rank[o] = rank[u] => o = u
  <2>1. S \subseteq Ops /\ S \subseteq Int /\ IsFiniteSet(Ops)
    BY OpsAssumption
  <2>2. IsFiniteSet(S)
    BY <2>1, FS_Subset, Zenon
  <2> QED BY <2>1, <2>2
<1>2. ASSUME NEW o \in S PROVE Earlier(S, rank, o) = {u \in S : u < o}
  <2>1. rank[o] = o /\ \A u \in S : rank[u] = u
    OBVIOUS
  <2> HIDE DEF rank
  <2> QED BY <2>1 DEF Earlier
<1>3. PICK N \in Nat : N = Cardinality(S)
  BY <1>1, FS_CardinalityType
<1>4. /\ \A o \in S : Position(o, S) \in 0..(N - 1)
      /\ \A o, u \in S : Position(o, S) = Position(u, S) => o = u
  <2> HIDE DEF rank
  <2>1. /\ \A o \in S : Cardinality(Earlier(S, rank, o)) \in 0..(N - 1)
        /\ \A o, u \in S : Cardinality(Earlier(S, rank, o)) = Cardinality(Earlier(S, rank, u))
                             => o = u
    BY <1>1, <1>3, RankedByCount
  <2> QED BY <1>2, <2>1 DEF Position
<1>5. ASSUME NEW o \in S
      PROVE  Position(o, S) + 1 \in 1..N /\ {u \in S : Position(u, S) = Position(o, S)} = {o}
  BY <1>3, <1>4
<1>6. Singles(S) = [i \in 1..N |-> {o \in S : Position(o, S) = i - 1}]
  BY <1>3 DEF Singles
<1>7. Singles(S) \in [1..N -> SUBSET S]
  BY <1>6
<1>8. ASSUME NEW o \in S PROVE \E i \in 1..N : Singles(S)[i] = {o}
  <2>1. PICK n \in 1..N : n = Position(o, S) + 1
    BY <1>5
  <2>2. n - 1 = Position(o, S)
    BY <1>4, <2>1
  <2>3. Singles(S)[n] = {u \in S : Position(u, S) = Position(o, S)}
    BY <1>6, <2>2
  <2> QED BY <1>5, <2>3
<1>9. \A i \in 1..N : Singles(S)[i] \in SUBSET S
  BY <1>7
<1>10. Singles(S) \in [1..N -> SUBSET Ops] /\ DOMAIN Singles(S) = 1..N
  BY <1>6
<1>11. Singles(S) \in Seq(SUBSET Ops)
  BY <1>10, <1>3
<1> QED BY <1>3, <1>8, <1>9, <1>10, <1>11

(* Groups are appended behind those in use. *)
LEMMA AddGroupsKeep ==
  ASSUME ngroups \in 0..MaxGroups, groups \in [Slots -> SUBSET Ops],
         \A g \in Slots : g > ngroups => groups[g] = {},
         NEW q \in Seq(SUBSET Ops), AddGroups(q)
  PROVE  /\ ngroups' \in 0..MaxGroups /\ groups' \in [Slots -> SUBSET Ops]
         /\ \A g \in Slots : g > ngroups' => groups'[g] = {}
         /\ \A g \in Slots : groups[g] \subseteq groups'[g]
         /\ \A i \in DOMAIN q : \E g \in Slots : groups'[g] = q[i]
<1>1. /\ DOMAIN q = 1..Len(q) /\ Len(q) \in Nat /\ \A i \in 1..Len(q) : q[i] \in SUBSET Ops
      /\ Slots \subseteq Nat /\ MaxGroups \in Nat /\ ngroups \in Nat
  BY MaxGroupsAssumption DEF Slots
<1>2. /\ ngroups' = ngroups + Len(q) /\ ngroups + Len(q) <= MaxGroups
      /\ groups' = [g \in Slots |-> IF g - ngroups \in 1..Len(q) THEN q[g - ngroups] ELSE groups[g]]
  BY <1>1 DEF AddGroups
<1>3. ngroups' \in 0..MaxGroups /\ groups' \in [Slots -> SUBSET Ops]
  BY <1>1, <1>2
<1>4. ASSUME NEW g \in Slots PROVE groups[g] \subseteq groups'[g] /\ (g > ngroups' => groups'[g] = {})
  <2>1. CASE g - ngroups \in 1..Len(q)
    <3>1. g > ngroups /\ ~(g > ngroups')
      BY <1>1, <1>2, <2>1
    <3> QED BY <3>1
  <2>2. CASE g - ngroups \notin 1..Len(q)
    <3>1. groups'[g] = groups[g] /\ (g > ngroups' => g > ngroups)
      BY <1>1, <1>2, <2>2
    <3> QED BY <3>1
  <2> QED BY <2>1, <2>2
<1>5. ASSUME NEW i \in 1..Len(q) PROVE \E g \in Slots : groups'[g] = q[i]
  <2>1. ngroups + i \in Slots /\ (ngroups + i) - ngroups = i
    BY <1>1, <1>2 DEF Slots
  <2> QED BY <1>2, <2>1
<1> QED BY <1>1, <1>3, <1>4, <1>5

LEMMA ClustersCover ==
  ASSUME NEW A, NEW B
  PROVE  /\ Clusters(A, B) \in SUBSET (SUBSET Ops)
         /\ \A o \in Ops : \E C \in Clusters(A, B) : o \in C
<1> DEFINE mapA == LastGroup(A)
           mapB == Dist!CanonicalBy(Alike[prob], mapA, LastGroup(B))
           cluster(u) == {o \in Ops : mapA[o] = mapA[u] /\ mapB[o] = mapB[u]}
<1>1. Clusters(A, B) = {cluster(u) : u \in Ops}
  BY DEF Clusters
<1> HIDE DEF mapA, mapB
<1>2. \A u \in Ops : cluster(u) \in SUBSET Ops /\ u \in cluster(u)
  OBVIOUS
<1> QED
  <2> HIDE DEF cluster
  <2> QED BY <1>1, <1>2

LEMMA StartCrossoverHolds ==
  ASSUME EvoInv, StartCrossover
  PROVE  EvoInv'
<1>1. phase = "entry" /\ links' = NoLinks /\ phase' = "placing" /\ prob' = prob
  BY DEF StartCrossover, Child
<1>2. PICK m \in Pairs : /\ mates' = <<TableOf(m[1]), TableOf(m[2])>>
                         /\ todo' = Clusters(TableOf(m[1]), TableOf(m[2]))
  BY DEF StartCrossover
<1>3. Complete(TableOf(m[1])) /\ Complete(TableOf(m[2]))
  BY <1>2, MatesAreComplete DEF Pairs
<1>4. \A i \in 1..2 : Complete(mates'[i])
  BY <1>2, <1>3
<1>5. Parents'
  BY <1>4 DEF Parents, Complete
<1>6. todo' \in SUBSET (SUBSET Ops) /\ \A o \in Ops : \E C \in todo' : o \in C
  BY <1>2, ClustersCover
<1>7. groups' = TableOf(<<>>) /\ ngroups' = 0 /\ index' = IndexOf(groups')
  BY DEF StartCrossover
<1>8. /\ groups' \in [Slots -> SUBSET Ops] /\ \A g \in Slots : groups'[g] = {}
      /\ ngroups' \in 0..MaxGroups
  BY <1>7, MaxGroupsAssumption DEF TableOf
<1>9. prob \in Problems
  BY <1>1 DEF EvoInv, Working, Inv, Consistent, TypeOK
<1>10. UnderConstruction'
  BY <1>1, <1>5, <1>7, <1>8, <1>9 DEF UnderConstruction, IndexOf
<1>11. PlacedOrToPlace'
  BY <1>6 DEF PlacedOrToPlace
<1> QED BY <1>1, <1>10, <1>11 DEF EvoInv, Working

LEMMA PlaceClusterHolds ==
  ASSUME EvoInv, PlaceCluster
  PROVE  EvoInv'
<1>1. phase = "placing" /\ UNCHANGED <<prob, links, phase, mates>> /\ index' = IndexOf(groups')
  BY DEF PlaceCluster
<1>2. UnderConstruction /\ PlacedOrToPlace
  BY <1>1 DEF EvoInv
<1>3. PICK C \in todo :
        /\ todo' = todo \ {C}
        /\ \/ \E g \in Hosts(C) : groups' = [groups EXCEPT ![g] = @ \cup C] /\ UNCHANGED ngroups
           \/ Fits(C) /\ AddGroups(<<C>>)
           \/ ~Fits(C) /\ Hosts(C) = {} /\ AddGroups(Singles(C))
  BY DEF PlaceCluster
<1>4. /\ C \in SUBSET Ops /\ todo' \in SUBSET (SUBSET Ops)
      /\ ngroups \in 0..MaxGroups /\ groups \in [Slots -> SUBSET Ops]
      /\ \A g \in Slots : g > ngroups => groups[g] = {}
  BY <1>2, <1>3 DEF UnderConstruction, PlacedOrToPlace
<1>5. /\ ngroups' \in 0..MaxGroups /\ groups' \in [Slots -> SUBSET Ops]
      /\ \A g \in Slots : g > ngroups' => groups'[g] = {}
      /\ \A g \in Slots : groups[g] \subseteq groups'[g]
      /\ \A o \in C : \E g \in Slots : o \in groups'[g]
  <2>1. CASE \E g \in Hosts(C) : groups' = [groups EXCEPT ![g] = @ \cup C] /\ UNCHANGED ngroups
    <3>1. PICK g \in Hosts(C) : groups' = [groups EXCEPT ![g] = @ \cup C] /\ ngroups' = ngroups
      BY <2>1
    <3>2. PICK n : g \in GroupsOf(n) /\ n \in UNION {OpNeighbors(o) : o \in C}
      BY DEF Hosts
    <3>3. g \in Slots /\ index[n][g] > 0 /\ n \in Ops
      BY <3>2, NeighborsAreOps DEF GroupsOf
    <3>4. n \in groups[g]
      BY <1>2, <3>3 DEF UnderConstruction, IndexOf
    <3>5. ~(g > ngroups)
      BY <1>4, <3>3, <3>4
    <3>6. groups'[g] = groups[g] \cup C /\ \A h \in Slots \ {g} : groups'[h] = groups[h]
      BY <1>4, <3>1, <3>3
    <3>7. groups' \in [Slots -> SUBSET Ops]
      BY <1>4, <3>1, <3>3
    <3> QED BY <1>4, <3>1, <3>3, <3>5, <3>6, <3>7
  <2>2. CASE AddGroups(<<C>>)
    <3>1. PICK q \in Seq(SUBSET Ops) : q = <<C>>
      <4>1. PICK D : D = SUBSET Ops
        OBVIOUS
      <4>2. <<C>> \in Seq(D)
        <5>1. C \in D
          BY <1>4, <4>1
        <5> QED BY <5>1
      <4> QED BY <4>1, <4>2
    <3>2. 1 \in DOMAIN q /\ q[1] = C
      BY <3>1
    <3>3. AddGroups(q)
      BY <2>2, <3>1
    <3>4. /\ ngroups' \in 0..MaxGroups /\ groups' \in [Slots -> SUBSET Ops]
          /\ \A g \in Slots : g > ngroups' => groups'[g] = {}
          /\ \A g \in Slots : groups[g] \subseteq groups'[g]
          /\ \A i \in DOMAIN q : \E g \in Slots : groups'[g] = q[i]
      BY <1>4, <3>3, AddGroupsKeep, Zenon
    <3> QED BY <3>2, <3>4
  <2>3. CASE AddGroups(Singles(C))
    <3>1. /\ Singles(C) \in Seq(SUBSET Ops)
          /\ \A o \in C : \E i \in DOMAIN Singles(C) : Singles(C)[i] = {o}
      BY <1>4, SinglesCover, Zenon
    <3>2. PICK q \in Seq(SUBSET Ops) : q = Singles(C)
      BY <3>1
    <3>3. \A o \in C : \E i \in DOMAIN q : q[i] = {o}
      BY <3>1, <3>2
    <3>4. AddGroups(q)
      BY <2>3, <3>2
    <3>5. /\ ngroups' \in 0..MaxGroups /\ groups' \in [Slots -> SUBSET Ops]
          /\ \A g \in Slots : g > ngroups' => groups'[g] = {}
          /\ \A g \in Slots : groups[g] \subseteq groups'[g]
          /\ \A i \in DOMAIN q : \E g \in Slots : groups'[g] = q[i]
      BY <1>4, <3>4, AddGroupsKeep, Zenon
    <3> QED BY <3>3, <3>5
  <2> QED BY <1>3, <2>1, <2>2, <2>3
<1>6. Parents'
  BY <1>1, <1>2 DEF UnderConstruction, Parents, Complete
<1>7. UnderConstruction'
  BY <1>1, <1>2, <1>5, <1>6 DEF UnderConstruction, IndexOf
<1>8. PlacedOrToPlace'
  BY <1>2, <1>3, <1>4, <1>5 DEF PlacedOrToPlace
<1> QED BY <1>1, <1>7, <1>8 DEF EvoInv, Working

LEMMA SettleHolds ==
  ASSUME EvoInv, Settle
  PROVE  EvoInv'
<1>1. /\ phase \in {"placing", "cut"} /\ phase' = "child" /\ UNCHANGED <<prob, links>>
      /\ index' = IndexOf(groups') /\ edges' = BuildEdges(groups', index')
  BY DEF Settle
<1>2. UnderConstruction
  BY <1>1 DEF EvoInv
<1>3. /\ ngroups' \in 0..MaxGroups /\ groups' \in [Slots -> SUBSET Ops]
      /\ \A g \in Slots : g > ngroups' => groups'[g] = {}
      /\ \A o \in Ops : \E g \in Slots : o \in groups'[g]
  <2>1. CASE ~Refused({}) /\ UNCHANGED <<groups, ngroups>>
    <3>1. \A o \in Ops : \E g \in Slots : g \in GroupsOf(o)
      BY <2>1 DEF Refused, Covered, GroupsOf
    <3>2. \A o \in Ops : \E g \in Slots : o \in groups[g]
      BY <1>2, <3>1 DEF UnderConstruction, GroupsOf, IndexOf
    <3> QED BY <1>2, <2>1, <3>2 DEF UnderConstruction
  <2>2. CASE \E i \in 1..2 : groups' = mates[i] /\ ngroups' = MaxGroups
    <3>1. Complete(groups') /\ ngroups' = MaxGroups
      BY <1>2, <2>2 DEF UnderConstruction, Parents
    <3>2. \A g \in Slots : ~(g > MaxGroups)
      BY MaxGroupsAssumption DEF Slots
    <3> QED BY <3>1, <3>2, MaxGroupsAssumption DEF Complete
  <2> QED BY <2>1, <2>2 DEF Settle
<1>4. prob \in Problems /\ prob' = prob
  BY <1>1, <1>2 DEF UnderConstruction
<1>5. Inv'
  BY <1>1, <1>3, <1>4, BuiltAnew
<1>6. LinkInv'
  BY <1>1, <1>2, NoLinksInOrder DEF UnderConstruction
<1> QED BY <1>1, <1>5, <1>6 DEF EvoInv, Working

-----------------------------------------------------------------------------
(* The DAG cut *)

LEMMA OneMore ==
  ASSUME NEW q \in Seq(SUBSET Ops), NEW S \in SUBSET Ops
  PROVE  Append(q, S) \in Seq(SUBSET Ops)
<1>1. PICK D : D = SUBSET Ops
  OBVIOUS
<1>2. q \in Seq(D) /\ S \in D
  BY <1>1
<1>3. Append(q, S) \in Seq(D)
  BY <1>2
<1> QED BY <1>1, <1>3

LEMMA Joined ==
  ASSUME NEW q \in Seq(SUBSET Ops), NEW p \in Seq(SUBSET Ops)
  PROVE  /\ q \o p \in Seq(SUBSET Ops)
         /\ \A i \in DOMAIN q : i \in DOMAIN (q \o p) /\ (q \o p)[i] = q[i]
         /\ \A j \in DOMAIN p : \E i \in DOMAIN (q \o p) : (q \o p)[i] = p[j]
<1>1. PICK D : D = SUBSET Ops
  OBVIOUS
<1>2. q \in Seq(D) /\ p \in Seq(D)
  BY <1>1
<1>3. /\ q \o p \in Seq(D) /\ Len(q \o p) = Len(q) + Len(p)
      /\ Len(q) \in Nat /\ Len(p) \in Nat
      /\ DOMAIN q = 1..Len(q) /\ DOMAIN p = 1..Len(p) /\ DOMAIN (q \o p) = 1..(Len(q) + Len(p))
  BY <1>2
<1>4. ASSUME NEW i \in 1..Len(q) PROVE i \in 1..(Len(q) + Len(p)) /\ (q \o p)[i] = q[i]
  BY <1>2, <1>3
<1>5. ASSUME NEW j \in 1..Len(p)
      PROVE  Len(q) + j \in 1..(Len(q) + Len(p)) /\ (q \o p)[Len(q) + j] = p[j]
  BY <1>2, <1>3
<1> QED BY <1>1, <1>3, <1>4, <1>5

(* The loops over the parents' groups. *)
WholeRun(r, q, P, side) ==
  /\ r[0] = q /\ Whole(q, P, side) = r[MaxGroups]
  /\ \A n \in 0..MaxGroups : r[n] \in Seq(SUBSET Ops)
  /\ \A n \in Slots : r[n] = WithWhole(r[n - 1], P[n], side)

RestRun(r, q, P, side) ==
  /\ r[0] = q /\ Truncated(q, P, side) = r[MaxGroups]
  /\ \A n \in 0..MaxGroups : r[n] \in Seq(SUBSET Ops)
  /\ \A n \in Slots : r[n] = WithRest(r[n - 1], P[n] \cap side)

LEMMA WholeGrows ==
  ASSUME NEW q \in Seq(SUBSET Ops), NEW P \in [Slots -> SUBSET Ops], NEW side
  PROVE  \E r : WholeRun(r, q, P, side)
<1> DEFINE D == Seq(SUBSET Ops)
           Step(n, M) == WithWhole(M, P[n], side)
           F == [p \in Nat \X D |-> IF p[1] \in Slots THEN Step(p[1], p[2]) ELSE p[2]]
           Body(f) == [n \in 0..MaxGroups |-> IF n = 0 THEN q ELSE Step(n, f[n - 1])]
<1>1. ASSUME NEW n \in Slots, NEW M \in D PROVE Step(n, M) \in D
  BY OneMore DEF WithWhole
<1>2. F \in [Nat \X D -> D]
  <2> HIDE DEF Step, D
  <2> QED BY <1>1
<1>3. PICK f : Iterates(f, MaxGroups, D, q, F)
  <2>1. q \in D
    OBVIOUS
  <2> HIDE DEF F, D
  <2> QED BY <1>2, <2>1, IterationExists, MaxGroupsAssumption
<1>4. f = Body(f)
  <2>1. f \in [0..MaxGroups -> D] /\ f[0] = q /\ \A n \in 1..MaxGroups : f[n] = F[<<n, f[n - 1]>>]
    <3> HIDE DEF F, D
    <3> QED BY <1>3 DEF Iterates
  <2>2. ASSUME NEW n \in 1..MaxGroups PROVE f[n] = Step(n, f[n - 1])
    <3>1. n \in Nat /\ n \in Slots /\ n - 1 \in 0..MaxGroups
      BY MaxGroupsAssumption DEF Slots
    <3> HIDE DEF Step, D
    <3> QED BY <2>1, <3>1
  <2> HIDE DEF Step, F, D
  <2> QED BY <2>1, <2>2, MaxGroupsAssumption
<1>5. \E g : g = Body(g)
  BY <1>4
<1> DEFINE r == CHOOSE g : g = Body(g)
<1>6. r = Body(r)
  BY <1>5, Zenon
<1>7. Whole(q, P, side) = r[MaxGroups]
  BY DEF Whole
<1> HIDE DEF r
<1>8. ASSUME NEW n \in 0..MaxGroups
      PROVE  r[n] = IF n = 0 THEN q ELSE Step(n, r[n - 1])
  <2>1. Body(r)[n] = IF n = 0 THEN q ELSE Step(n, r[n - 1])
    OBVIOUS
  <2>2. r[n] = Body(r)[n]
    <3> HIDE DEF Body
    <3> QED BY <1>6
  <2> HIDE DEF Body
  <2> QED BY <2>1, <2>2
<1> DEFINE S == {n \in Nat : r[n] \in D}
<1>9. 0 \in S
  <2>1. 0 \in 0..MaxGroups
    BY MaxGroupsAssumption
  <2>2. r[0] = q
    BY <1>8, <2>1
  <2> QED BY <2>2
<1>10. ASSUME NEW n \in 0..(MaxGroups - 1), n \in S PROVE n + 1 \in S
  <2>1. /\ n + 1 \in 0..MaxGroups /\ n + 1 \in Slots /\ n + 1 # 0 /\ (n + 1) - 1 = n
        /\ n + 1 \in Nat
    BY MaxGroupsAssumption DEF Slots
  <2>2. r[n + 1] = Step(n + 1, r[n])
    <3> HIDE DEF Step
    <3> QED BY <1>8, <2>1
  <2>3. r[n] \in D
    BY <1>10
  <2> HIDE DEF Step, D
  <2> QED BY <1>1, <2>1, <2>2, <2>3
<1>11. 0..MaxGroups \subseteq S
  <2> HIDE DEF S
  <2> QED BY <1>9, <1>10, InductionUpTo, MaxGroupsAssumption
<1>12. r[0] = q
  <2>1. 0 \in 0..MaxGroups
    BY MaxGroupsAssumption
  <2> HIDE DEF Step
  <2> QED BY <1>8, <2>1
<1>13. ASSUME NEW n \in Slots PROVE r[n] = Step(n, r[n - 1])
  <2>1. n \in 0..MaxGroups /\ n # 0
    BY MaxGroupsAssumption DEF Slots
  <2> HIDE DEF Step
  <2> QED BY <1>8, <2>1
<1>14. \A n \in 0..MaxGroups : r[n] \in Seq(SUBSET Ops)
  BY <1>11
<1>15. \A n \in Slots : r[n] = WithWhole(r[n - 1], P[n], side)
  BY <1>13
<1>16. WholeRun(r, q, P, side)
  <2> HIDE DEF Step, Body, F, D, S
  <2> QED BY <1>7, <1>12, <1>14, <1>15, Zenon DEF WholeRun
<1> HIDE DEF Step, Body, F, D, S
<1> QED BY <1>16

LEMMA WholeIsTyped ==
  ASSUME NEW q \in Seq(SUBSET Ops), NEW P \in [Slots -> SUBSET Ops], NEW side
  PROVE  Whole(q, P, side) \in Seq(SUBSET Ops)
<1>1. PICK r : WholeRun(r, q, P, side)
  BY WholeGrows
<1>2. MaxGroups \in 0..MaxGroups
  BY MaxGroupsAssumption
<1> QED BY <1>1, <1>2, Zenon DEF WholeRun

LEMMA TruncatedGrows ==
  ASSUME NEW q \in Seq(SUBSET Ops), NEW P \in [Slots -> SUBSET Ops], NEW side
  PROVE  \E r : RestRun(r, q, P, side)
<1> DEFINE D == Seq(SUBSET Ops)
           Step(n, M) == WithRest(M, P[n] \cap side)
           F == [p \in Nat \X D |-> IF p[1] \in Slots THEN Step(p[1], p[2]) ELSE p[2]]
           Body(f) == [n \in 0..MaxGroups |-> IF n = 0 THEN q ELSE Step(n, f[n - 1])]
<1>1. ASSUME NEW n \in Slots, NEW M \in D PROVE Step(n, M) \in D
  <2>1. (P[n] \cap side) \ Held(M) \in SUBSET Ops
    OBVIOUS
  <2>2. Singles((P[n] \cap side) \ Held(M)) \in Seq(SUBSET Ops)
    BY <2>1, SinglesCover
  <2> QED BY <2>1, <2>2, OneMore, Joined DEF WithRest
<1>2. F \in [Nat \X D -> D]
  <2> HIDE DEF Step, D
  <2> QED BY <1>1
<1>3. PICK f : Iterates(f, MaxGroups, D, q, F)
  <2>1. q \in D
    OBVIOUS
  <2> HIDE DEF F, D
  <2> QED BY <1>2, <2>1, IterationExists, MaxGroupsAssumption
<1>4. f = Body(f)
  <2>1. f \in [0..MaxGroups -> D] /\ f[0] = q /\ \A n \in 1..MaxGroups : f[n] = F[<<n, f[n - 1]>>]
    <3> HIDE DEF F, D
    <3> QED BY <1>3 DEF Iterates
  <2>2. ASSUME NEW n \in 1..MaxGroups PROVE f[n] = Step(n, f[n - 1])
    <3>1. n \in Nat /\ n \in Slots /\ n - 1 \in 0..MaxGroups
      BY MaxGroupsAssumption DEF Slots
    <3> HIDE DEF Step, D
    <3> QED BY <2>1, <3>1
  <2> HIDE DEF Step, F, D
  <2> QED BY <2>1, <2>2, MaxGroupsAssumption
<1>5. \E g : g = Body(g)
  BY <1>4
<1> DEFINE r == CHOOSE g : g = Body(g)
<1>6. r = Body(r)
  BY <1>5, Zenon
<1>7. Truncated(q, P, side) = r[MaxGroups]
  BY DEF Truncated
<1> HIDE DEF r
<1>8. ASSUME NEW n \in 0..MaxGroups
      PROVE  r[n] = IF n = 0 THEN q ELSE Step(n, r[n - 1])
  <2>1. Body(r)[n] = IF n = 0 THEN q ELSE Step(n, r[n - 1])
    OBVIOUS
  <2>2. r[n] = Body(r)[n]
    <3> HIDE DEF Body
    <3> QED BY <1>6
  <2> HIDE DEF Body
  <2> QED BY <2>1, <2>2
<1> DEFINE S == {n \in Nat : r[n] \in D}
<1>9. 0 \in S
  <2>1. 0 \in 0..MaxGroups
    BY MaxGroupsAssumption
  <2>2. r[0] = q
    BY <1>8, <2>1
  <2> QED BY <2>2
<1>10. ASSUME NEW n \in 0..(MaxGroups - 1), n \in S PROVE n + 1 \in S
  <2>1. /\ n + 1 \in 0..MaxGroups /\ n + 1 \in Slots /\ n + 1 # 0 /\ (n + 1) - 1 = n
        /\ n + 1 \in Nat
    BY MaxGroupsAssumption DEF Slots
  <2>2. r[n + 1] = Step(n + 1, r[n])
    <3> HIDE DEF Step
    <3> QED BY <1>8, <2>1
  <2>3. r[n] \in D
    BY <1>10
  <2> HIDE DEF Step, D
  <2> QED BY <1>1, <2>1, <2>2, <2>3
<1>11. 0..MaxGroups \subseteq S
  <2> HIDE DEF S
  <2> QED BY <1>9, <1>10, InductionUpTo, MaxGroupsAssumption
<1>12. r[0] = q
  <2>1. 0 \in 0..MaxGroups
    BY MaxGroupsAssumption
  <2> HIDE DEF Step
  <2> QED BY <1>8, <2>1
<1>13. ASSUME NEW n \in Slots PROVE r[n] = Step(n, r[n - 1])
  <2>1. n \in 0..MaxGroups /\ n # 0
    BY MaxGroupsAssumption DEF Slots
  <2> HIDE DEF Step
  <2> QED BY <1>8, <2>1
<1>14. \A n \in 0..MaxGroups : r[n] \in Seq(SUBSET Ops)
  BY <1>11
<1>15. \A n \in Slots : r[n] = WithRest(r[n - 1], P[n] \cap side)
  BY <1>13
<1>16. RestRun(r, q, P, side)
  <2> HIDE DEF Step, Body, F, D, S
  <2> QED BY <1>7, <1>12, <1>14, <1>15, Zenon DEF RestRun
<1> HIDE DEF Step, Body, F, D, S
<1> QED BY <1>16

LEMMA TruncatedIsTyped ==
  ASSUME NEW q \in Seq(SUBSET Ops), NEW P \in [Slots -> SUBSET Ops], NEW side
  PROVE  Truncated(q, P, side) \in Seq(SUBSET Ops)
<1>1. PICK r : RestRun(r, q, P, side)
  BY TruncatedGrows
<1>2. MaxGroups \in 0..MaxGroups
  BY MaxGroupsAssumption
<1> QED BY <1>1, <1>2, Zenon DEF RestRun

LEMMA CutChildCovers ==
  ASSUME NEW L \in [Slots -> SUBSET Ops], NEW R \in [Slots -> SUBSET Ops], NEW left
  PROVE  /\ CutChild(L, R, left) \in Seq(SUBSET Ops)
         /\ \A o \in Ops : \E i \in DOMAIN CutChild(L, R, left) : o \in CutChild(L, R, left)[i]
<1> DEFINE right == Ops \ left
           cut   == Truncated(Truncated(Whole(Whole(<<>>, L, left), R, right), L, left), R, right)
<1>1. <<>> \in Seq(SUBSET Ops)
  OBVIOUS
<1>2. Whole(<<>>, L, left) \in Seq(SUBSET Ops)
  BY <1>1, WholeIsTyped
<1>3. Whole(Whole(<<>>, L, left), R, right) \in Seq(SUBSET Ops)
  BY <1>2, WholeIsTyped
<1>4. Truncated(Whole(Whole(<<>>, L, left), R, right), L, left) \in Seq(SUBSET Ops)
  BY <1>3, TruncatedIsTyped
<1>5. cut \in Seq(SUBSET Ops)
  BY <1>4, TruncatedIsTyped
<1>6. CutChild(L, R, left) = cut \o Singles(Ops \ Held(cut))
  BY DEF CutChild
<1> HIDE DEF cut
<1>7. PICK p : p = Singles(Ops \ Held(cut))
  OBVIOUS
<1>8. p \in Seq(SUBSET Ops) /\ \A o \in Ops \ Held(cut) : \E i \in DOMAIN p : p[i] = {o}
  <2>1. PICK S \in SUBSET Ops : S = Ops \ Held(cut)
    OBVIOUS
  <2>2. Singles(S) \in Seq(SUBSET Ops) /\ \A o \in S : \E i \in DOMAIN Singles(S) : Singles(S)[i] = {o}
    BY SinglesCover, Zenon
  <2> QED BY <1>7, <2>1, <2>2
<1>9. /\ cut \o p \in Seq(SUBSET Ops)
      /\ \A i \in DOMAIN cut : i \in DOMAIN (cut \o p) /\ (cut \o p)[i] = cut[i]
      /\ \A j \in DOMAIN p : \E i \in DOMAIN (cut \o p) : (cut \o p)[i] = p[j]
  BY <1>5, <1>8, Joined
<1>10. ASSUME NEW o \in Ops PROVE \E i \in DOMAIN (cut \o p) : o \in (cut \o p)[i]
  <2>1. CASE o \in Held(cut)
    BY <1>9, <2>1 DEF Held
  <2>2. CASE o \notin Held(cut)
    <3>1. PICK j \in DOMAIN p : p[j] = {o}
      BY <1>8, <2>2
    <3>2. PICK i \in DOMAIN (cut \o p) : (cut \o p)[i] = p[j]
      BY <1>9, <3>1
    <3> QED BY <3>1, <3>2
  <2> QED BY <2>1, <2>2
<1> QED BY <1>6, <1>7, <1>9, <1>10

LEMMA DagCutHolds ==
  ASSUME EvoInv, DagCut
  PROVE  EvoInv'
<1>1. /\ phase = "entry" /\ links' = NoLinks /\ phase' = "cut" /\ prob' = prob /\ todo' = todo
      /\ index' = IndexOf(groups')
  BY DEF DagCut, Child
<1>2. PICK m \in Pairs, left \in DagPrefixes :
        LET q == CutChild(TableOf(m[1]), TableOf(m[2]), left)
        IN  /\ Len(q) <= MaxGroups
            /\ groups' = TableOf(q) /\ ngroups' = Len(q)
            /\ mates' = <<TableOf(m[1]), TableOf(m[2])>>
  BY DEF DagCut
<1>3. Complete(TableOf(m[1])) /\ Complete(TableOf(m[2]))
  BY <1>2, MatesAreComplete DEF Pairs
<1>4. \A i \in 1..2 : Complete(mates'[i])
  BY <1>2, <1>3
<1>5. Parents'
  BY <1>4 DEF Parents, Complete
<1>6. PICK q : q = CutChild(TableOf(m[1]), TableOf(m[2]), left)
  OBVIOUS
<1>7. q \in Seq(SUBSET Ops) /\ \A o \in Ops : \E i \in DOMAIN q : o \in q[i]
  BY <1>3, <1>6, CutChildCovers DEF Complete
<1>8. Len(q) <= MaxGroups /\ groups' = TableOf(q) /\ ngroups' = Len(q)
  BY <1>2, <1>6
<1>9. /\ groups' \in [Slots -> SUBSET Ops] /\ ngroups' \in 0..MaxGroups
      /\ \A g \in Slots : g > ngroups' => groups'[g] = {}
      /\ \A i \in DOMAIN q : i \in Slots /\ groups'[i] = q[i]
  BY <1>7, <1>8, TableOfSets
<1>10. prob \in Problems
  BY <1>1 DEF EvoInv, Working, Inv, Consistent, TypeOK
<1>11. UnderConstruction'
  BY <1>1, <1>5, <1>9, <1>10 DEF UnderConstruction, IndexOf
<1>12. CoversAll'
  <2> SUFFICES ASSUME NEW o \in Ops PROVE Covered(o)'
    BY DEF CoversAll
  <2>1. PICK g \in Slots : o \in groups'[g]
    BY <1>7, <1>9
  <2>2. index'[o][g] = 1
    BY <1>1, <2>1 DEF IndexOf
  <2> QED BY <2>1, <2>2 DEF Covered, GroupsOf, Alive
<1> QED BY <1>1, <1>11, <1>12 DEF EvoInv, Working

-----------------------------------------------------------------------------
(* A DAG-cut child of partitions that hold every op once.  Its groups are  *)
(* cut from the groups of one parent on either side: the whole part of a   *)
(* group that lies there, or its ops one by one.                           *)

Tight(S) ==
  \A t \in S : t \notin prob.required /\ ConsumedIn(t, S) => Consumers(t) \subseteq S

PartOf(S, part) == S = part \/ \E o \in part : S \subseteq {o}

CutFrom(S, P, side) == \E g \in Slots : PartOf(S, P[g] \cap side)

Separate(q) == \A i, j \in DOMAIN q : i # j => q[i] \cap q[j] = {}

Pieces(p, S) ==
  /\ p \in Seq(SUBSET Ops) /\ Separate(p) /\ Held(p) = S
  /\ \A i \in DOMAIN p : Tight(p[i]) /\ PartOf(p[i], S)

AllOrNone(q, P, side) ==
  \A g \in Slots : (P[g] \cap side) \cap Held(q) = {} \/ P[g] \cap side \subseteq Held(q)

CutInto(q, L, left, R, right) ==
  /\ q \in Seq(SUBSET Ops) /\ Separate(q)
  /\ \A i \in DOMAIN q : Tight(q[i]) /\ (CutFrom(q[i], L, left) \/ CutFrom(q[i], R, right))

Halves(q, L, left, R, right) ==
  CutInto(q, L, left, R, right) /\ AllOrNone(q, L, left) /\ AllOrNone(q, R, right)

(* A parent that was accepted and holds every op once. *)
Parent(P) == P \in [Slots -> SUBSET Ops] /\ Apart(P) /\ Unbroken(P) /\ Orderly(P)

LEMMA NoOpReadsItself ==
  ASSUME prob \in Problems, NEW o \in Ops
  PROVE  o \notin Consumers(o)
<1>1. {o} \in (SUBSET Ops) \ {{}}
  OBVIOUS
<1>2. \E u \in {o} : prob.reads[u] \cap {o} = {}
  BY <1>1, ProblemsAssumption
<1> QED BY <1>2 DEF Consumers

LEMMA SmallIsTight ==
  ASSUME prob \in Problems, NEW o \in Ops, NEW S, S \subseteq {o}
  PROVE  Tight(S)
  BY NoOpReadsItself DEF Tight, ConsumedIn

LEMMA SinglesApart ==
  ASSUME NEW S \in SUBSET Ops
  PROVE  /\ Separate(Singles(S))
         /\ \A i \in DOMAIN Singles(S) : \E o \in S : Singles(S)[i] \subseteq {o}
<1>1. PICK N : N = Cardinality(S)
  OBVIOUS
<1>2. PICK pos : pos = [o \in S |-> Position(o, S)]
  OBVIOUS
<1>3. PICK s : s = Singles(S)
  OBVIOUS
<1>4. s = [i \in 1..N |-> {o \in S : pos[o] = i - 1}]
  BY <1>1, <1>2, <1>3 DEF Singles
<1>5. \A o \in S : \E i \in 1..N : s[i] = {o}
  BY <1>1, <1>3, SinglesCover, Zenon
<1>6. IsFiniteSet(S)
  <2>1. S \subseteq Ops /\ IsFiniteSet(Ops)
    BY OpsAssumption
  <2> QED BY <2>1, FS_Subset, Zenon
<1>7. N \in Nat /\ (S = {} => N = 0)
  BY <1>1, <1>6, FS_CardinalityType, FS_EmptySet
<1>8. ASSUME NEW i \in 1..N PROVE \E o \in S : s[i] \subseteq {o}
  <2>1. CASE s[i] = {}
    BY <1>7, <2>1
  <2>2. CASE s[i] # {}
    <3>1. PICK o \in S : o \in s[i]
      BY <1>4, <2>2
    <3>2. pos[o] = i - 1
      BY <1>4, <3>1
    <3>3. PICK k \in 1..N : s[k] = {o}
      BY <1>5
    <3>4. pos[o] = k - 1
      BY <1>4, <3>3
    <3>5. k - 1 = i - 1
      BY <3>2, <3>4
    <3>6. k = i
      BY <1>7, <3>5
    <3> QED BY <3>3, <3>6
  <2> QED BY <2>1, <2>2
<1>9. ASSUME NEW i \in 1..N, NEW k \in 1..N, i # k PROVE s[i] \cap s[k] = {}
  <2>1. i - 1 # k - 1
    BY <1>7, <1>9
  <2> QED BY <1>4, <2>1
<1>10. DOMAIN s = 1..N
  BY <1>4
<1> QED BY <1>3, <1>8, <1>9, <1>10 DEF Separate

LEMMA SinglePieces ==
  ASSUME prob \in Problems, NEW S \in SUBSET Ops
  PROVE  Pieces(Singles(S), S)
<1>1. PICK s : s = Singles(S)
  OBVIOUS
<1>2. /\ s \in Seq(SUBSET Ops) /\ \A i \in DOMAIN s : s[i] \subseteq S
      /\ \A o \in S : \E i \in DOMAIN s : s[i] = {o}
  BY <1>1, SinglesCover, Zenon
<1>3. Separate(s) /\ \A i \in DOMAIN s : \E o \in S : s[i] \subseteq {o}
  BY <1>1, SinglesApart, Zenon
<1>4. Held(s) = S
  BY <1>2 DEF Held
<1>5. ASSUME NEW i \in DOMAIN s PROVE Tight(s[i]) /\ PartOf(s[i], S)
  <2>1. PICK o \in S : s[i] \subseteq {o}
    BY <1>3
  <2> QED BY <2>1, SmallIsTight DEF PartOf
<1> QED BY <1>1, <1>2, <1>3, <1>4, <1>5 DEF Pieces

LEMMA AsOnePiece ==
  ASSUME NEW S \in SUBSET Ops, Tight(S)
  PROVE  Pieces(<<S>>, S)
<1>1. PICK p : p = <<S>>
  OBVIOUS
<1>2. p \in Seq(SUBSET Ops) /\ DOMAIN p = {1} /\ p[1] = S
  BY <1>1
<1>3. Separate(p) /\ Held(p) = S
  BY <1>2 DEF Separate, Held
<1>4. \A i \in DOMAIN p : Tight(p[i]) /\ PartOf(p[i], S)
  BY <1>2 DEF PartOf
<1> QED BY <1>1, <1>2, <1>3, <1>4 DEF Pieces

(* Two runs of groups that share no op. *)
LEMMA JoinedApart ==
  ASSUME NEW q \in Seq(SUBSET Ops), NEW p \in Seq(SUBSET Ops)
  PROVE  /\ Held(q \o p) = Held(q) \cup Held(p)
         /\ \A i \in DOMAIN (q \o p) : \/ \E j \in DOMAIN q : (q \o p)[i] = q[j]
                                       \/ \E j \in DOMAIN p : (q \o p)[i] = p[j]
         /\ Separate(q) /\ Separate(p) /\ Held(q) \cap Held(p) = {} => Separate(q \o p)
<1>1. PICK D : D = SUBSET Ops
  OBVIOUS
<1>2. q \in Seq(D) /\ p \in Seq(D)
  BY <1>1
<1>3. PICK m \in Nat, n \in Nat : m = Len(q) /\ n = Len(p)
  BY <1>2
<1>4. PICK s : s = q \o p
  OBVIOUS
<1>5. DOMAIN q = 1..m /\ DOMAIN p = 1..n /\ DOMAIN s = 1..(m + n)
  BY <1>2, <1>3, <1>4
<1>6. ASSUME NEW i \in 1..(m + n)
      PROVE  \/ i \in 1..m /\ s[i] = q[i]
             \/ i - m \in 1..n /\ ~(i \in 1..m) /\ s[i] = p[i - m]
  <2>1. s[i] = IF i <= m THEN q[i] ELSE p[i - m]
    BY <1>2, <1>3, <1>4
  <2>2. i \in 1..m <=> i <= m
    BY <1>3
  <2>3. ~(i <= m) => i - m \in 1..n
    BY <1>3
  <2> QED BY <2>1, <2>2, <2>3, Zenon
<1>7. /\ \A i \in 1..m : i \in 1..(m + n) /\ s[i] = q[i]
      /\ \A j \in 1..n : \E i \in 1..(m + n) : s[i] = p[j]
  <2>1. /\ \A i \in DOMAIN q : i \in DOMAIN (q \o p) /\ (q \o p)[i] = q[i]
        /\ \A j \in DOMAIN p : \E i \in DOMAIN (q \o p) : (q \o p)[i] = p[j]
    BY Joined, Zenon
  <2> QED BY <1>4, <1>5, <2>1, Zenon
<1>8. Held(s) = Held(q) \cup Held(p)
  <2>1. ASSUME NEW o PROVE o \in Held(s) <=> o \in Held(q) \/ o \in Held(p)
    BY <1>5, <1>6, <1>7 DEF Held
  <2> QED BY <2>1
<1>9. ASSUME Separate(q), Separate(p), Held(q) \cap Held(p) = {},
             NEW i \in 1..(m + n), NEW k \in 1..(m + n), i # k
      PROVE  s[i] \cap s[k] = {}
  <2>1. CASE i \in 1..m /\ k \in 1..m
    BY <1>5, <1>7, <1>9, <2>1 DEF Separate
  <2>2. CASE i \notin 1..m /\ k \notin 1..m
    <3>1. i - m \in 1..n /\ s[i] = p[i - m] /\ k - m \in 1..n /\ s[k] = p[k - m]
      BY <1>6, <2>2
    <3>2. i - m # k - m
      BY <1>3, <1>9
    <3> QED BY <1>5, <1>9, <3>1, <3>2 DEF Separate
  <2>3. CASE i \in 1..m /\ k \notin 1..m
    <3>1. s[i] = q[i] /\ k - m \in 1..n /\ s[k] = p[k - m]
      BY <1>6, <2>3
    <3>2. s[i] \subseteq Held(q) /\ s[k] \subseteq Held(p)
      BY <1>5, <2>3, <3>1 DEF Held
    <3> QED BY <1>9, <3>2
  <2>4. CASE i \notin 1..m /\ k \in 1..m
    <3>1. s[k] = q[k] /\ i - m \in 1..n /\ s[i] = p[i - m]
      BY <1>6, <2>4
    <3>2. s[k] \subseteq Held(q) /\ s[i] \subseteq Held(p)
      BY <1>5, <2>4, <3>1 DEF Held
    <3> QED BY <1>9, <3>2
  <2> QED BY <2>1, <2>2, <2>3, <2>4
<1>10. \A i \in 1..(m + n) : \/ \E j \in 1..m : s[i] = q[j]
                             \/ \E j \in 1..n : s[i] = p[j]
  BY <1>6
<1> QED BY <1>4, <1>5, <1>8, <1>9, <1>10 DEF Separate

(* Two parents and the sides of the cut they are taken from. *)
Halved(P, side, Q, rest) ==
  /\ prob \in Problems /\ Parent(P) /\ Parent(Q)
  /\ side \in SUBSET Ops /\ rest \in SUBSET Ops /\ side \cap rest = {}

LEMMA HalvesSwap ==
  ASSUME NEW q, NEW L, NEW left, NEW R, NEW right, Halves(q, L, left, R, right)
  PROVE  Halves(q, R, right, L, left)
  BY DEF Halves, CutInto

LEMMA PiecesJoin ==
  ASSUME NEW q, NEW L, NEW left, NEW R, NEW right, CutInto(q, L, left, R, right),
         NEW S, NEW p, Pieces(p, S), S \cap Held(q) = {},
         \A i \in DOMAIN p : CutFrom(p[i], L, left) \/ CutFrom(p[i], R, right)
  PROVE  CutInto(q \o p, L, left, R, right) /\ Held(q \o p) = Held(q) \cup S
<1>1. /\ q \in Seq(SUBSET Ops) /\ Separate(q) /\ p \in Seq(SUBSET Ops) /\ Separate(p) /\ Held(p) = S
      /\ \A i \in DOMAIN q : Tight(q[i]) /\ (CutFrom(q[i], L, left) \/ CutFrom(q[i], R, right))
      /\ \A i \in DOMAIN p : Tight(p[i])
  BY DEF CutInto, Pieces
<1>2. q \o p \in Seq(SUBSET Ops)
  BY <1>1, Joined
<1>3. /\ Held(q \o p) = Held(q) \cup S /\ Separate(q \o p)
      /\ \A i \in DOMAIN (q \o p) : \/ \E j \in DOMAIN q : (q \o p)[i] = q[j]
                                    \/ \E j \in DOMAIN p : (q \o p)[i] = p[j]
  BY <1>1, JoinedApart
<1>4. PICK s : s = q \o p
  OBVIOUS
<1>5. ASSUME NEW i \in DOMAIN s
      PROVE  Tight(s[i]) /\ (CutFrom(s[i], L, left) \/ CutFrom(s[i], R, right))
  <2>1. \/ \E j \in DOMAIN q : s[i] = q[j]
        \/ \E j \in DOMAIN p : s[i] = p[j]
    BY <1>3, <1>4
  <2> QED BY <1>1, <2>1
<1> QED BY <1>2, <1>3, <1>4, <1>5 DEF CutInto

LEMMA GroupJoins ==
  ASSUME NEW q, NEW P, NEW side, NEW Q, NEW rest, Halved(P, side, Q, rest),
         Halves(q, P, side, Q, rest), NEW n \in Slots,
         NEW p, Pieces(p, P[n] \cap side), (P[n] \cap side) \cap Held(q) = {}
  PROVE  Halves(q \o p, P, side, Q, rest) /\ Held(q \o p) = Held(q) \cup (P[n] \cap side)
<1>1. \A i \in DOMAIN p : CutFrom(p[i], P, side)
  BY DEF Pieces, CutFrom
<1>2. PICK S : S = P[n] \cap side
  OBVIOUS
<1>3. Pieces(p, S) /\ S \cap Held(q) = {}
  BY <1>2
<1>4. CutInto(q \o p, P, side, Q, rest) /\ Held(q \o p) = Held(q) \cup S
  <2>1. CutInto(q, P, side, Q, rest)
    BY DEF Halves
  <2> QED BY <1>1, <1>3, <2>1, PiecesJoin
<1>5. AllOrNone(q \o p, P, side)
  <2>1. ASSUME NEW g \in Slots
        PROVE  (P[g] \cap side) \cap Held(q \o p) = {} \/ P[g] \cap side \subseteq Held(q \o p)
    <3>1. CASE g = n
      BY <1>2, <1>4, <3>1
    <3>2. CASE g # n
      <4>1. P[g] \cap P[n] = {}
        BY <3>2 DEF Halved, Parent, Apart
      <4>2. (P[g] \cap side) \cap Held(q) = {} \/ P[g] \cap side \subseteq Held(q)
        BY DEF Halves, AllOrNone
      <4> QED BY <1>2, <1>4, <4>1, <4>2
    <3> QED BY <3>1, <3>2
  <2> QED BY <2>1 DEF AllOrNone
<1>6. AllOrNone(q \o p, Q, rest)
  <2>1. ASSUME NEW g \in Slots
        PROVE  (Q[g] \cap rest) \cap Held(q \o p) = {} \/ Q[g] \cap rest \subseteq Held(q \o p)
    <3>1. side \cap rest = {}
      BY DEF Halved
    <3>2. (Q[g] \cap rest) \cap Held(q) = {} \/ Q[g] \cap rest \subseteq Held(q)
      BY DEF Halves, AllOrNone
    <3> QED BY <1>2, <1>4, <3>1, <3>2
  <2> QED BY <2>1 DEF AllOrNone
<1> QED BY <1>2, <1>4, <1>5, <1>6 DEF Halves

LEMMA AppendJoins ==
  ASSUME NEW q \in Seq(SUBSET Ops), NEW S \in SUBSET Ops
  PROVE  Append(q, S) = q \o <<S>>
<1>1. PICK D : D = SUBSET Ops
  OBVIOUS
<1>2. q \in Seq(D) /\ S \in D
  BY <1>1
<1> QED BY <1>2

(* A step of the first pass takes a group that lies on its side as it is,  *)
(* ...                                                                     *)
LEMMA WholeStep ==
  ASSUME NEW q, NEW P, NEW side, NEW Q, NEW rest, Halved(P, side, Q, rest),
         Halves(q, P, side, Q, rest), NEW n \in Slots, (P[n] \cap side) \cap Held(q) = {}
  PROVE  /\ Halves(WithWhole(q, P[n], side), P, side, Q, rest)
         /\ Held(WithWhole(q, P[n], side)) \subseteq Held(q) \cup (P[n] \cap side)
<1>1. CASE P[n] # {} /\ P[n] \subseteq side
  <2>1. PICK S \in SUBSET Ops : S = P[n] /\ S = P[n] \cap side
    BY <1>1 DEF Halved, Parent
  <2>2. Tight(S)
    BY <2>1 DEF Halved, Parent, Unbroken, Tight
  <2>3. Pieces(<<S>>, P[n] \cap side)
    BY <2>1, <2>2, AsOnePiece
  <2>4. WithWhole(q, P[n], side) = q \o <<S>>
    <3>1. WithWhole(q, P[n], side) = Append(q, S)
      BY <1>1, <2>1 DEF WithWhole
    <3>2. q \in Seq(SUBSET Ops)
      BY DEF Halves, CutInto
    <3> QED BY <3>1, <3>2, AppendJoins
  <2>5. Halves(q \o <<S>>, P, side, Q, rest) /\ Held(q \o <<S>>) = Held(q) \cup (P[n] \cap side)
    BY <2>3, GroupJoins
  <2> QED BY <2>4, <2>5
<1>2. CASE ~(P[n] # {} /\ P[n] \subseteq side)
  <2>1. WithWhole(q, P[n], side) = q
    BY <1>2 DEF WithWhole
  <2> QED BY <2>1
<1> QED BY <1>1, <1>2

(* ... one of the second what is left of a group, in one piece if that     *)
(* strands nothing.                                                        *)
LEMMA RestStep ==
  ASSUME NEW q, NEW P, NEW side, NEW Q, NEW rest, Halved(P, side, Q, rest),
         Halves(q, P, side, Q, rest), NEW n \in Slots
  PROVE  Halves(WithRest(q, P[n] \cap side), P, side, Q, rest)
<1>1. PICK S \in SUBSET Ops : S = P[n] \cap side
  BY DEF Halved, Parent
<1>2. q \in Seq(SUBSET Ops)
  BY DEF Halves, CutInto
<1>3. CASE S \subseteq Held(q)
  <2>1. WithRest(q, S) = q
    BY <1>3 DEF WithRest
  <2> QED BY <1>1, <2>1
<1>4. CASE S \cap Held(q) = {} /\ S # {}
  <2>1. S \ Held(q) = S
    BY <1>4
  <2>2. WithRest(q, S) = IF Fits(S) /\ ~Stranded(S, q) THEN Append(q, S) ELSE q \o Singles(S)
    BY <1>4, <2>1 DEF WithRest
  <2>3. CASE Fits(S) /\ ~Stranded(S, q)
    <3>1. Tight(S)
      <4> SUFFICES ASSUME NEW t \in S, t \notin prob.required, ConsumedIn(t, S),
                          ~(Consumers(t) \subseteq S)
                   PROVE  FALSE
        BY DEF Tight
      <4>1. IsEphemeral(S, t) /\ Consumers(t) \ S # {}
        BY DEF IsEphemeral, IsBoundaryOutput
      <4>2. PICK i \in DOMAIN q : IsBoundaryOutput(q[i], t)
        BY <2>3, <4>1 DEF Stranded
      <4>3. t \in Held(q)
        BY <4>2 DEF Held, IsBoundaryOutput
      <4> QED BY <1>4, <4>3
    <3>2. Pieces(<<S>>, S)
      BY <3>1, AsOnePiece
    <3>3. Halves(q \o <<S>>, P, side, Q, rest)
      BY <1>1, <1>4, <3>2, GroupJoins
    <3>4. WithRest(q, S) = q \o <<S>>
      BY <1>2, <2>2, <2>3, AppendJoins
    <3> QED BY <1>1, <3>3, <3>4
  <2>4. CASE ~(Fits(S) /\ ~Stranded(S, q))
    <3>1. Pieces(Singles(S), S)
      BY SinglePieces DEF Halved
    <3>2. Halves(q \o Singles(S), P, side, Q, rest)
      BY <1>1, <1>4, <3>1, GroupJoins
    <3> QED BY <1>1, <2>2, <2>4, <3>2
  <2> QED BY <2>3, <2>4
<1>5. S \cap Held(q) = {} \/ S \subseteq Held(q)
  BY <1>1 DEF Halves, AllOrNone
<1> QED BY <1>3, <1>4, <1>5

LEMMA WholeKeepsHalves ==
  ASSUME NEW q, NEW P, NEW side, NEW Q, NEW rest, Halved(P, side, Q, rest),
         Halves(q, P, side, Q, rest), side \cap Held(q) = {}
  PROVE  /\ Halves(Whole(q, P, side), P, side, Q, rest)
         /\ Held(Whole(q, P, side)) \subseteq Held(q) \cup side
<1>1. q \in Seq(SUBSET Ops) /\ P \in [Slots -> SUBSET Ops]
  BY DEF Halves, CutInto, Halved, Parent
<1>2. PICK r : WholeRun(r, q, P, side)
  BY <1>1, WholeGrows
<1> DEFINE Ahead(n) == \A g \in Slots : g > n => (P[g] \cap side) \cap Held(r[n]) = {}
           M == {n \in Nat : /\ Halves(r[n], P, side, Q, rest) /\ Ahead(n)
                             /\ Held(r[n]) \subseteq Held(q) \cup side}
<1>3. 0 \in M
  <2>1. r[0] = q
    BY <1>2 DEF WholeRun
  <2> QED BY <2>1
<1>4. ASSUME NEW n \in 0..(MaxGroups - 1), n \in M PROVE n + 1 \in M
  <2>1. n \in Nat /\ n + 1 \in Nat /\ n + 1 \in Slots /\ (n + 1) - 1 = n /\ n + 1 > n
    BY MaxGroupsAssumption DEF Slots
  <2>2. PICK s : s = r[n]
    OBVIOUS
  <2>3. r[n + 1] = WithWhole(s, P[n + 1], side)
    BY <1>2, <2>1, <2>2 DEF WholeRun
  <2>4. Halves(s, P, side, Q, rest) /\ Held(s) \subseteq Held(q) \cup side
    BY <1>4, <2>2
  <2>5. \A g \in Slots : g > n => (P[g] \cap side) \cap Held(s) = {}
    BY <1>4, <2>2
  <2>6. /\ Halves(r[n + 1], P, side, Q, rest)
        /\ Held(r[n + 1]) \subseteq Held(s) \cup (P[n + 1] \cap side)
    BY <2>1, <2>3, <2>4, <2>5, WholeStep
  <2>7. ASSUME NEW g \in Slots, g > n + 1 PROVE (P[g] \cap side) \cap Held(r[n + 1]) = {}
    <3>1. g > n /\ g # n + 1
      BY <2>1, <2>7, MaxGroupsAssumption DEF Slots
    <3>2. P[g] \cap P[n + 1] = {}
      BY <2>1, <3>1 DEF Halved, Parent, Apart
    <3> QED BY <2>5, <2>6, <3>1, <3>2
  <2>8. Held(r[n + 1]) \subseteq Held(q) \cup side
    BY <2>4, <2>6
  <2> QED BY <2>1, <2>6, <2>7, <2>8
<1>5. 0..MaxGroups \subseteq M
  <2> HIDE DEF M
  <2> QED BY <1>3, <1>4, InductionUpTo, MaxGroupsAssumption
<1>6. MaxGroups \in M
  BY <1>5, MaxGroupsAssumption
<1>7. Whole(q, P, side) = r[MaxGroups]
  BY <1>2 DEF WholeRun
<1> QED BY <1>6, <1>7

LEMMA RestKeepsHalves ==
  ASSUME NEW q, NEW P, NEW side, NEW Q, NEW rest, Halved(P, side, Q, rest),
         Halves(q, P, side, Q, rest)
  PROVE  Halves(Truncated(q, P, side), P, side, Q, rest)
<1>1. q \in Seq(SUBSET Ops) /\ P \in [Slots -> SUBSET Ops]
  BY DEF Halves, CutInto, Halved, Parent
<1>2. PICK r : RestRun(r, q, P, side)
  BY <1>1, TruncatedGrows
<1> DEFINE M == {n \in Nat : Halves(r[n], P, side, Q, rest)}
<1>3. 0 \in M
  BY <1>2 DEF RestRun
<1>4. ASSUME NEW n \in 0..(MaxGroups - 1), n \in M PROVE n + 1 \in M
  <2>1. n \in Nat /\ n + 1 \in Nat /\ n + 1 \in Slots /\ (n + 1) - 1 = n
    BY MaxGroupsAssumption DEF Slots
  <2>2. PICK s : s = r[n]
    OBVIOUS
  <2>3. r[n + 1] = WithRest(s, P[n + 1] \cap side)
    BY <1>2, <2>1, <2>2 DEF RestRun
  <2>4. Halves(s, P, side, Q, rest)
    BY <1>4, <2>2
  <2>5. Halves(r[n + 1], P, side, Q, rest)
    BY <2>1, <2>3, <2>4, RestStep
  <2> QED BY <2>1, <2>5
<1>5. 0..MaxGroups \subseteq M
  <2> HIDE DEF M
  <2> QED BY <1>3, <1>4, InductionUpTo, MaxGroupsAssumption
<1>6. MaxGroups \in M
  BY <1>5, MaxGroupsAssumption
<1> QED BY <1>2, <1>6 DEF RestRun

LEMMA CutChildInto ==
  ASSUME NEW L, NEW R, NEW left, Halved(L, left, R, Ops \ left), Complete(L), Complete(R)
  PROVE  CutInto(CutChild(L, R, left), L, left, R, Ops \ left)
<1> DEFINE right == Ops \ left
<1>1. Halved(R, right, L, left)
  BY DEF Halved
<1>2. PICK e : e = <<>>
  OBVIOUS
<1>3. Halves(e, L, left, R, right) /\ Held(e) = {}
  <2>1. e \in Seq(SUBSET Ops) /\ DOMAIN e = {}
    BY <1>2
  <2>2. Held(e) = {}
    BY <2>1 DEF Held
  <2> QED BY <2>1, <2>2 DEF Halves, CutInto, AllOrNone, Separate
<1>4. PICK a : a = Whole(e, L, left)
  OBVIOUS
<1>5. Halves(a, L, left, R, right) /\ Held(a) \subseteq left
  <2>1. left \cap Held(e) = {}
    BY <1>3
  <2>2. Halves(a, L, left, R, right) /\ Held(a) \subseteq Held(e) \cup left
    BY <1>3, <1>4, <2>1, WholeKeepsHalves
  <2> QED BY <1>3, <2>2
<1>6. PICK b : b = Whole(a, R, right)
  OBVIOUS
<1>7. Halves(b, L, left, R, right)
  <2>1. Halves(a, R, right, L, left)
    BY <1>5, HalvesSwap
  <2>2. right \cap Held(a) = {}
    BY <1>5
  <2>3. Halves(b, R, right, L, left)
    BY <1>1, <1>6, <2>1, <2>2, WholeKeepsHalves
  <2> QED BY <2>3, HalvesSwap
<1>8. PICK c : c = Truncated(b, L, left)
  OBVIOUS
<1>9. Halves(c, L, left, R, right)
  BY <1>7, <1>8, RestKeepsHalves
<1>10. PICK d : d = Truncated(c, R, right)
  OBVIOUS
<1>11. CutInto(d, L, left, R, right)
  <2>1. Halves(c, R, right, L, left)
    BY <1>9, HalvesSwap
  <2>2. Halves(d, R, right, L, left)
    BY <1>1, <1>10, <2>1, RestKeepsHalves
  <2> QED BY <2>2, HalvesSwap DEF Halves
<1>12. PICK S \in SUBSET Ops : S = Ops \ Held(d)
  OBVIOUS
<1>13. CutChild(L, R, left) = d \o Singles(S)
  BY <1>2, <1>4, <1>6, <1>8, <1>10, <1>12 DEF CutChild
<1>14. PICK p : p = Singles(S)
  OBVIOUS
<1>15. Pieces(p, S)
  BY <1>14, SinglePieces DEF Halved
<1>16. ASSUME NEW i \in DOMAIN p PROVE CutFrom(p[i], L, left) \/ CutFrom(p[i], R, right)
  <2>1. PICK o \in S : p[i] \subseteq {o}
    BY <1>14, SinglesApart, Zenon
  <2>2. CASE o \in left
    <3>1. PICK g \in Slots : o \in L[g]
      BY <2>1 DEF Complete
    <3> QED BY <2>1, <2>2, <3>1 DEF CutFrom, PartOf
  <2>3. CASE o \notin left
    <3>1. PICK g \in Slots : o \in R[g]
      BY <2>1 DEF Complete
    <3>2. o \in right
      BY <2>1, <2>3
    <3> QED BY <2>1, <3>1, <3>2 DEF CutFrom, PartOf
  <2> QED BY <2>2, <2>3
<1>17. S \cap Held(d) = {}
  BY <1>12
<1>18. CutInto(d \o p, L, left, R, right)
  <2> HIDE DEF right
  <2> QED BY <1>11, <1>15, <1>16, <1>17, PiecesJoin
<1> QED BY <1>13, <1>14, <1>18

(* Groups cut from one parent: the group all of whose ops come first in    *)
(* the parent starts, or one of the ops it was taken apart into.           *)
LEMMA SideStarts ==
  ASSUME prob \in Problems, NEW P, Parent(P), NEW side \in SUBSET Ops,
         NEW table \in [Slots -> SUBSET Ops], Apart(table),
         NEW X \in (SUBSET Slots) \ {{}}, \A i \in X : CutFrom(table[i], P, side)
  PROVE  Starts(table, X)
<1> DEFINE From(i, g) == PartOf(table[i], P[g] \cap side)
           G == {g \in Slots : \E i \in X : From(i, g)}
<1>1. G \in (SUBSET Slots) \ {{}}
  BY DEF CutFrom
<1>2. PICK g \in G : \A h \in G : ~DependsOn(P, g, h)
  <2> HIDE DEF G
  <2> QED BY <1>1 DEF Parent, Orderly, Starts
<1>3. \A i \in X, h \in Slots : From(i, h) => table[i] \subseteq P[h] \cap side
  BY DEF PartOf
<1> DEFINE Y == {i \in X : From(i, g)}
<1>4. Y # {} /\ Y \subseteq X
  BY <1>2
<1>5. ASSUME NEW i \in Y, NEW j \in X \ Y PROVE ~DependsOn(table, i, j)
  <2> SUFFICES ASSUME DependsOn(table, i, j) PROVE FALSE
    OBVIOUS
  <2>1. PICK h \in Slots : From(j, h)
    BY DEF CutFrom
  <2>2. h \in G /\ h # g /\ g \in Slots
    BY <2>1
  <2>3. PICK p \in table[j] : Consumers(p) \cap table[i] # {}
    BY DEF DependsOn
  <2>4. table[i] \subseteq P[g] /\ table[j] \subseteq P[h]
    BY <1>3, <2>1, <2>2
  <2>5. DependsOn(P, g, h)
    BY <2>2, <2>3, <2>4 DEF DependsOn
  <2> QED BY <1>2, <2>2, <2>5
<1>6. \E i \in Y : \A j \in Y : ~DependsOn(table, i, j)
  <2>1. CASE \E i \in Y : table[i] = {}
    BY <2>1 DEF DependsOn
  <2>2. CASE \E i \in Y : table[i] = P[g] \cap side
    <3>1. PICK i \in Y : table[i] = P[g] \cap side
      BY <2>2
    <3>2. ASSUME NEW j \in Y, j # i PROVE table[j] = {}
      <4>1. table[j] \cap table[i] = {}
        BY <1>4, <3>2 DEF Apart
      <4>2. table[j] \subseteq P[g] \cap side
        BY <1>2, <1>3
      <4> QED BY <3>1, <4>1, <4>2
    <3> QED BY <3>1, <3>2 DEF DependsOn
  <2>3. CASE \A i \in Y : table[i] # {} /\ table[i] # P[g] \cap side
    <3>1. \A i \in Y : \E o : table[i] = {o}
      BY <2>3 DEF PartOf
    <3> DEFINE U == UNION {table[i] : i \in Y}
    <3>2. U \in (SUBSET Ops) \ {{}}
      <4>1. U \subseteq Ops
        BY <1>4
      <4>2. U # {}
        BY <1>4, <2>3
      <4> QED BY <4>1, <4>2
    <3>3. PICK o \in U : prob.reads[o] \cap U = {}
      <4> HIDE DEF U
      <4> QED BY <3>2, ProblemsAssumption
    <3>4. PICK i \in Y : o \in table[i]
      OBVIOUS
    <3>5. table[i] = {o}
      BY <3>1, <3>4
    <3>6. ASSUME NEW j \in Y, DependsOn(table, i, j) PROVE FALSE
      <4>1. PICK p \in table[j] : Consumers(p) \cap table[i] # {}
        BY <3>6 DEF DependsOn
      <4>2. p \in U /\ o \in Consumers(p)
        BY <3>5, <4>1
      <4>3. p \in prob.reads[o]
        BY <4>2 DEF Consumers
      <4> QED BY <3>3, <4>2, <4>3
    <3> QED BY <3>6
  <2> QED BY <2>1, <2>2, <2>3
<1>7. PICK i \in Y : \A j \in Y : ~DependsOn(table, i, j)
  BY <1>6
<1>8. i \in X /\ \A j \in X : ~DependsOn(table, i, j)
  BY <1>4, <1>5, <1>7
<1> QED BY <1>8 DEF Starts

(* Nothing before the cut reads what is behind it. *)
LEMMA CutIsOrderly ==
  ASSUME NEW L, NEW R, NEW left, Halved(L, left, R, Ops \ left), CutAt(left),
         NEW table \in [Slots -> SUBSET Ops], Apart(table),
         \A i \in Slots : CutFrom(table[i], L, left) \/ CutFrom(table[i], R, Ops \ left)
  PROVE  Orderly(table)
<1> SUFFICES ASSUME NEW X \in (SUBSET Slots) \ {{}} PROVE Starts(table, X)
  BY DEF Orderly
<1> DEFINE A == {i \in X : CutFrom(table[i], L, left)}
<1>1. prob \in Problems /\ Parent(L) /\ Parent(R) /\ left \in SUBSET Ops
  BY DEF Halved
<1>2. CASE A = {}
  <2>1. \A i \in X : CutFrom(table[i], R, Ops \ left)
    BY <1>2
  <2> QED BY <1>1, <2>1, SideStarts
<1>3. CASE A # {}
  <2>1. A \in (SUBSET Slots) \ {{}} /\ \A i \in A : CutFrom(table[i], L, left)
    BY <1>3
  <2>2. Starts(table, A)
    <3> HIDE DEF A
    <3> QED BY <1>1, <2>1, SideStarts
  <2>3. PICK i \in A : \A j \in A : ~DependsOn(table, i, j)
    BY <2>2 DEF Starts
  <2>4. ASSUME NEW j \in X \ A, DependsOn(table, i, j) PROVE FALSE
    <3>1. CutFrom(table[j], R, Ops \ left) /\ CutFrom(table[i], L, left)
      BY <2>3
    <3>2. table[j] \cap left = {} /\ table[i] \subseteq left
      BY <3>1 DEF CutFrom, PartOf
    <3>3. PICK p \in table[j] : Consumers(p) \cap table[i] # {}
      BY <2>4 DEF DependsOn
    <3>4. PICK c \in table[i] : c \in Consumers(p)
      BY <3>3
    <3>5. p \in Ops /\ c \in left
      BY <3>2, <3>3, <3>4
    <3>6. p \in left
      BY <3>4, <3>5 DEF CutAt, Producers, Consumers
    <3> QED BY <3>2, <3>3, <3>6
  <2>5. i \in X /\ \A j \in X : ~DependsOn(table, i, j)
    BY <2>3, <2>4
  <2> QED BY <2>5 DEF Starts
<1> QED BY <1>2, <1>3

(* What it means that a parent was accepted. *)
LEMMA AcceptedIsParent ==
  ASSUME NEW table \in [Slots -> SUBSET Ops], Accepted(table), Apart(table)
  PROVE  Parent(table)
<1>1. Entry(table)!IsAcyclic /\ ~Entry(table)!HasGapBeyond({})
  BY DEF Accepted, Entry!Refused
<1>2. /\ \A o \in Ops : Entry(table)!GroupsOf(o) = {h \in Slots : o \in table[h]}
      /\ Entry(table)!Alive = {g \in Slots : table[g] # {}}
  BY DEF Entry!GroupsOf, Entry!Alive, Entry!Slots, Slots, IndexOf
<1>3. \A t : Consumers(t) \subseteq Ops
  BY DEF Consumers
<1>4. ASSUME NEW X \in (SUBSET Slots) \ {{}} PROVE Starts(table, X)
  <2>1. CASE \E g \in X : table[g] = {}
    BY <2>1 DEF Starts, DependsOn
  <2>2. CASE \A g \in X : table[g] # {}
    <3>1. X \in (SUBSET Entry(table)!Alive) \ {{}}
      BY <1>2, <2>2
    <3>2. PICK g \in X : \A t \in Entry(table)!Dependencies(g) :
                           (Entry(table)!GroupsOf(t) \cap Entry(table)!Alive) \ X # {}
      BY <1>1, <3>1 DEF Entry!IsAcyclic
    <3>3. ASSUME NEW h \in X, DependsOn(table, g, h) PROVE FALSE
      <4>1. PICK p \in table[h] : Consumers(p) \cap table[g] # {}
        BY <3>3 DEF DependsOn
      <4>2. PICK c \in Consumers(p) : c \in table[g]
        BY <4>1
      <4>3. g # h /\ p \in Ops /\ c \in Ops /\ p \in Producers(c)
        BY <3>3, <4>1, <4>2 DEF DependsOn, Consumers, Producers
      <4>4. \A k \in Slots : p \in table[k] => k = h
        BY <4>1 DEF Apart
      <4>5. Entry(table)!GroupsOf(p) = {h} /\ h \in Entry(table)!Alive
        BY <1>2, <4>1, <4>3, <4>4
      <4>6. p \in Entry(table)!Producers(c) /\ g \in Entry(table)!GroupsOf(c)
        BY <1>2, <4>2, <4>3 DEF Producers, Entry!Producers
      <4>7. p \in Entry(table)!Dependencies(g)
        BY <4>3, <4>5, <4>6 DEF Entry!Dependencies
      <4> QED BY <3>2, <4>5, <4>7
    <3> QED BY <3>3 DEF Starts
  <2> QED BY <2>1, <2>2
<1>5. ASSUME NEW g \in Slots, NEW t \in table[g], t \notin prob.required,
             ConsumedIn(t, table[g]), NEW c \in Consumers(t), c \notin table[g]
      PROVE  FALSE
  <2>1. t \in Ops /\ c \in Ops /\ \A k \in Slots : t \in table[k] => k = g
    BY <1>3 DEF Apart
  <2>2. g \in Entry(table)!Alive
    BY <1>2
  <2>3. Entry(table)!IsEphemeral(table[g], t)
    BY <1>5 DEF ConsumedIn, Consumers, Entry!IsEphemeral, Entry!IsBoundaryOutput,
                Entry!ConsumedIn, Entry!Consumers
  <2>4. ~Entry(table)!Exported(t, g)
    BY <1>2, <2>1 DEF Entry!Exported
  <2>5. \A h \in Entry(table)!GroupsOf(c) \cap Entry(table)!Alive : t \notin table[h]
    BY <1>2, <1>5, <2>1
  <2>6. c \in Entry(table)!Consumers(t)
    BY DEF Consumers, Entry!Consumers
  <2>7. Entry(table)!HasGapBeyond({})
    BY <1>5, <2>2, <2>3, <2>4, <2>5, <2>6 DEF Entry!HasGapBeyond
  <2> QED BY <1>1, <2>7
<1> QED BY <1>4, <1>5 DEF Parent, Orderly, Unbroken

LEMMA NotRefused ==
  Indexed /\ Apart(groups) /\ Orderly(groups) /\ Unbroken(groups) /\ CoversAll => ~Refused({})
  BY OrderlyWhenIndexed, UnbrokenWhenIndexed DEF Refused, HasEphemeralGap, CoversAll

LEMMA NotRefusedNext ==
  Indexed' /\ Apart(groups)' /\ Orderly(groups)' /\ Unbroken(groups)' /\ CoversAll'
    => ~Refused({})'
  BY NotRefused, PTL

LEMMA DagCutAccepted ==
  ASSUME EvoInv, DagCut
  PROVE  CutAccepted'
<1> SUFFICES ASSUME OnceOnly(mates[1])', OnceOnly(mates[2])' PROVE ~Refused({})'
  BY DEF CutAccepted
<1>1. /\ phase = "entry" /\ phase' = "cut" /\ prob' = prob /\ index' = IndexOf(groups')
  BY DEF DagCut, Child
<1>2. prob \in Problems
  BY <1>1 DEF EvoInv, Working, Inv, Consistent, TypeOK
<1>3. PICK m \in Pairs, left \in DagPrefixes :
        LET q == CutChild(TableOf(m[1]), TableOf(m[2]), left)
        IN  /\ Len(q) <= MaxGroups
            /\ groups' = TableOf(q) /\ ngroups' = Len(q)
            /\ mates' = <<TableOf(m[1]), TableOf(m[2])>>
  BY DEF DagCut
<1>4. PICK L, R : L = TableOf(m[1]) /\ R = TableOf(m[2])
  OBVIOUS
<1>5. PICK q : q = CutChild(L, R, left)
  OBVIOUS
<1>6. Len(q) <= MaxGroups /\ groups' = TableOf(q) /\ mates' = <<L, R>>
  BY <1>3, <1>4, <1>5
<1>7. Accepted(L) /\ Accepted(R) /\ Complete(L) /\ Complete(R)
  BY <1>3, <1>4, MatesAreComplete DEF Pairs
<1>8. Apart(L) /\ Apart(R)
  BY <1>6 DEF OnceOnly, Apart
<1>9. Parent(L) /\ Parent(R)
  BY <1>7, <1>8, AcceptedIsParent DEF Complete
<1>10. left \in SUBSET Ops /\ CutAt(left)
  BY <1>3 DEF DagPrefixes
<1>11. Halved(L, left, R, Ops \ left)
  BY <1>2, <1>9, <1>10 DEF Halved
<1>12. CutInto(q, L, left, R, Ops \ left)
  BY <1>5, <1>7, <1>11, CutChildInto
<1>13. PICK table : table = TableOf(q)
  OBVIOUS
<1>14. /\ table \in [Slots -> SUBSET Ops]
       /\ \A i \in DOMAIN q : table[i] = q[i]
       /\ \A g \in Slots : g \notin DOMAIN q => table[g] = {}
  <2>1. q \in Seq(SUBSET Ops)
    BY <1>12 DEF CutInto
  <2>2. \A g \in Slots : g \notin DOMAIN q => TableOf(q)[g] = {}
    BY DEF TableOf
  <2> QED BY <1>6, <1>13, <2>1, <2>2, TableOfSets
<1>15. Apart(table)
  BY <1>12, <1>14 DEF CutInto, Separate, Apart
<1>16. Unbroken(table)
  <2>1. \A i \in DOMAIN q : Tight(q[i])
    BY <1>12 DEF CutInto
  <2> QED BY <1>14, <2>1 DEF Unbroken, Tight
<1>17. \A i \in Slots : CutFrom(table[i], L, left) \/ CutFrom(table[i], R, Ops \ left)
  <2>1. ASSUME NEW i \in Slots, i \notin DOMAIN q PROVE CutFrom(table[i], L, left)
    <3>1. table[i] = {}
      BY <1>14, <2>1
    <3> QED BY <3>1 DEF CutFrom, PartOf
  <2> QED BY <1>12, <1>14, <2>1 DEF CutInto
<1>18. Orderly(table)
  BY <1>10, <1>11, <1>14, <1>15, <1>17, CutIsOrderly
<1>19. groups' = table
  BY <1>6, <1>13
<1>20. Indexed'
  BY <1>1, <1>14, <1>19 DEF Indexed, GroupsOf, IndexOf
<1>21. Apart(groups)' /\ Orderly(groups)' /\ Unbroken(groups)'
  <2>1. Apart(groups)'
    BY <1>15, <1>19 DEF Apart
  <2>2. Unbroken(groups)'
    BY <1>1, <1>16, <1>19 DEF Unbroken, ConsumedIn, Consumers
  <2>3. \A g, h : DependsOn(groups, g, h)' <=> DependsOn(table, g, h)
    BY <1>1, <1>19 DEF DependsOn, Consumers
  <2>4. Orderly(groups)'
    BY <1>18, <2>3 DEF Orderly, Starts
  <2> QED BY <2>1, <2>2, <2>4
<1>22. CoversAll'
  BY <1>1, DagCutHolds DEF EvoInv
<1> QED BY <1>20, <1>21, <1>22, NotRefusedNext

-----------------------------------------------------------------------------
(* The alignment *)

LEMMA FlattenTyped ==
  ASSUME NEW E, NEW s \in Seq(Seq(E))
  PROVE  FlattenSeq(s) \in Seq(E)
<1> DEFINE N == Len(s)
           D == Seq(E)
           F == [p \in Nat \X D |-> IF p[1] \in 1..N
                                    THEN IF p[1] = 1 THEN s[1] ELSE p[2] \o s[p[1]] ELSE p[2]]
           Body(f) == [i \in 1..N |-> IF i = 1 THEN s[i] ELSE f[i - 1] \o s[i]]
<1>1. N \in Nat /\ \A i \in 1..N : s[i] \in D
  OBVIOUS
<1>2. ASSUME N # 0 PROVE FlattenSeq(s) \in D
  <2>1. F \in [Nat \X D -> D]
    <3>1. ASSUME NEW n \in 1..N, NEW M \in D PROVE M \o s[n] \in D
      BY <1>1
    <3>2. N > 0 /\ s[1] \in D
      BY <1>1, <1>2
    <3> HIDE DEF N, D
    <3> QED BY <3>1, <3>2
  <2>2. <<>> \in D
    OBVIOUS
  <2>3. PICK f : Iterates(f, N, D, <<>>, F)
    <3> HIDE DEF F, D, N
    <3> QED BY <1>1, <2>1, <2>2, IterationExists
  <2>4. /\ f \in [0..N -> D]
        /\ \A n \in 1..N : f[n] = IF n = 1 THEN s[1] ELSE f[n - 1] \o s[n]
    <3>1. f \in [0..N -> D] /\ \A n \in 1..N : f[n] = F[<<n, f[n - 1]>>]
      <4> HIDE DEF F, D, N
      <4> QED BY <2>3 DEF Iterates
    <3>2. ASSUME NEW n \in 1..N PROVE f[n] = IF n = 1 THEN s[1] ELSE f[n - 1] \o s[n]
      <4>1. n \in Nat /\ f[n - 1] \in D
        <5> HIDE DEF N, D
        <5> QED BY <1>1, <3>1
      <4>2. <<n, f[n - 1]>> \in Nat \X D
        BY <4>1
      <4> HIDE DEF N, D
      <4> QED BY <3>1, <4>2
    <3> QED BY <3>1, <3>2
  <2> HIDE DEF N, D, F
  <2>5. \E g : g = Body(g)
    <3>1. PICK g : g = [i \in 1..N |-> f[i]]
      OBVIOUS
    <3>2. ASSUME NEW i \in 1..N
          PROVE  g[i] = IF i = 1 THEN s[i] ELSE g[i - 1] \o s[i]
      <4>1. i # 1 => i - 1 \in 1..N
        BY <1>1
      <4> QED BY <2>4, <3>1, <4>1
    <3>3. g = Body(g)
      BY <3>1, <3>2
    <3> QED BY <3>3
  <2> DEFINE r == CHOOSE g : g = Body(g)
  <2>6. r = Body(r)
    BY <2>5, Zenon
  <2>7. FlattenSeq(s) = r[N]
    BY <1>2 DEF FlattenSeq, N
  <2> HIDE DEF r
  <2>8. ASSUME NEW i \in 1..N PROVE r[i] = IF i = 1 THEN s[i] ELSE r[i - 1] \o s[i]
    <3>1. Body(r)[i] = IF i = 1 THEN s[i] ELSE r[i - 1] \o s[i]
      OBVIOUS
    <3>2. r[i] = Body(r)[i]
      <4> HIDE DEF Body
      <4> QED BY <2>6
    <3> HIDE DEF Body
    <3> QED BY <3>1, <3>2
  <2> DEFINE S == {n \in Nat : n \in 1..N => r[n] \in D}
  <2>9. 0 \in S
    OBVIOUS
  <2>10. ASSUME NEW n \in 0..(N - 1), n \in S PROVE n + 1 \in S
    <3>1. n + 1 \in 1..N /\ (n + 1) - 1 = n /\ n + 1 \in Nat /\ (n = 0 \/ n \in 1..N)
      BY <1>1
    <3>2. s[n + 1] \in D
      BY <1>1, <3>1
    <3>3. n \in 1..N => r[n] \in D
      BY <2>10
    <3>4. r[n + 1] = IF n = 0 THEN s[n + 1] ELSE r[n] \o s[n + 1]
      BY <2>8, <3>1
    <3>5. r[n + 1] \in D
      BY <3>1, <3>2, <3>3, <3>4 DEF D
    <3> QED BY <3>1, <3>5
  <2>11. 0..N \subseteq S
    <3> HIDE DEF S
    <3> QED BY <1>1, <2>9, <2>10, InductionUpTo
  <2>12. N \in 0..N /\ N \in 1..N
    BY <1>1, <1>2 DEF N
  <2> QED BY <2>7, <2>11, <2>12
<1>3. CASE N = 0
  BY <1>3 DEF FlattenSeq
<1> QED BY <1>2, <1>3

LEMMA SequenceOfSets ==
  ASSUME NEW n \in Nat, NEW s \in [1..n -> SUBSET Ops]
  PROVE  s \in Seq(SUBSET Ops) /\ Len(s) = n
<1>1. PICK D : D = SUBSET Ops
  OBVIOUS
<1>2. s \in [1..n -> D]
  BY <1>1
<1>3. s \in Seq(D) /\ Len(s) = n
  BY <1>2
<1> QED BY <1>1, <1>3

LEMMA ConfigTyped ==
  ASSUME groups \in [Slots -> SUBSET Ops], NEW C \in SUBSET Ops
  PROVE  Config(C) \in Seq(SUBSET Ops)
<1> DEFINE shared(g)        == groups[g] \cap C
           foundFirst(g, h) == \/ Least(shared(g)) < Least(shared(h))
                               \/ Least(shared(g)) = Least(shared(h)) /\ g < h
           sharing          == {g \in Alive : Cardinality(shared(g)) >= 2}
           found            == Sorted(sharing, foundFirst)
<1>1. Config(C) = [i \in DOMAIN found |-> shared(found[i])]
  BY DEF Config
<1>2. PICK n \in Nat : DOMAIN found = 1..n
  <2>1. IsFiniteSet(sharing)
    BY SlotsFinite, FS_Subset DEF Alive
  <2>2. Cardinality(sharing) \in Nat
    BY <2>1, FS_CardinalityType
  <2>3. DOMAIN found = 1..Cardinality(sharing)
    BY DEF Sorted
  <2> QED BY <2>2, <2>3
<1> HIDE DEF found
<1>3. \A g : shared(g) \in SUBSET Ops
  OBVIOUS
<1>4. Config(C) \in [1..n -> SUBSET Ops]
  <2> HIDE DEF shared
  <2> QED BY <1>1, <1>2, <1>3
<1> QED BY <1>4, SequenceOfSets

LEMMA MappedTyped ==
  ASSUME NEW config \in Seq(SUBSET Ops), NEW from \in Seq(Ops), NEW to \in Seq(Ops),
         Len(to) = Len(from)
  PROVE  Mapped(config, from, to) \in Seq(SUBSET Ops)
<1>1. PICK n \in Nat : n = Len(config) /\ DOMAIN config = 1..n
  OBVIOUS
<1>2. DOMAIN from = DOMAIN to /\ \A k \in DOMAIN to : to[k] \in Ops
  OBVIOUS
<1>3. \A S : {to[k] : k \in {k \in DOMAIN from : from[k] \in S}} \in SUBSET Ops
  BY <1>2
<1>4. Mapped(config, from, to) \in [1..n -> SUBSET Ops]
  BY <1>1, <1>3 DEF Mapped
<1> QED BY <1>4, SequenceOfSets

LEMMA ReplicatedTyped ==
  ASSUME groups \in [Slots -> SUBSET Ops], NEW pat \in Seq(Seq(Ops)),
         \A i \in DOMAIN pat : Len(pat[i]) = Len(pat[1]), NEW d \in DOMAIN pat
  PROVE  Replicated(pat, d) \in Seq(SUBSET Ops)
<1>1. PICK n \in Nat : n = Len(pat) /\ DOMAIN pat = 1..n
  OBVIOUS
<1>2. \A i \in 1..n : pat[i] \in Seq(Ops) /\ Len(pat[i]) = Len(pat[d])
  BY <1>1
<1>3. CompOps(pat[d]) \in SUBSET Ops
  BY <1>1, <1>2 DEF CompOps
<1>4. PICK config \in Seq(SUBSET Ops) : config = Config(CompOps(pat[d]))
  BY <1>3, ConfigTyped
<1>5. PICK E : E = SUBSET Ops
  OBVIOUS
<1>6. PICK s : s = [i \in 1..n |-> IF i = d THEN <<>> ELSE Mapped(config, pat[d], pat[i])]
  OBVIOUS
<1>7. s \in Seq(Seq(E))
  <2>1. ASSUME NEW i \in 1..n PROVE s[i] \in Seq(E)
    <3>1. CASE i = d
      BY <1>6, <3>1
    <3>2. CASE i # d
      <4>1. Mapped(config, pat[d], pat[i]) \in Seq(SUBSET Ops)
        BY <1>1, <1>2, MappedTyped
      <4> QED BY <1>5, <1>6, <3>2, <4>1
    <3> QED BY <3>1, <3>2
  <2>2. PICK Q : Q = Seq(E)
    OBVIOUS
  <2>3. s \in [1..n -> Q]
    BY <1>6, <2>1, <2>2
  <2>4. s \in Seq(Q)
    BY <2>3
  <2> QED BY <2>2, <2>4
<1>8. FlattenSeq(s) \in Seq(SUBSET Ops)
  BY <1>5, <1>7, FlattenTyped
<1>9. Replicated(pat, d) = config \o FlattenSeq(s)
  BY <1>1, <1>4, <1>6 DEF Replicated
<1> QED BY <1>8, <1>9, Joined

LEMMA InjectedTyped ==
  ASSUME NEW config \in Seq(SUBSET Ops)
  PROVE  Injected(config) \in Seq(SUBSET Ops)
<1>1. PICK n \in Nat : n = Len(config) /\ DOMAIN config = 1..n
  OBVIOUS
<1>2. \A i \in 1..n : config[i] \in SUBSET Ops
  BY <1>1
<1>3. PICK E : E = SUBSET Ops
  OBVIOUS
<1>4. PICK s : s = [i \in 1..n |-> IF Fits(config[i]) THEN <<config[i]>> ELSE Singles(config[i])]
  OBVIOUS
<1>5. s \in Seq(Seq(E))
  <2>1. ASSUME NEW i \in 1..n PROVE s[i] \in Seq(E)
    <3>1. config[i] \in E /\ Singles(config[i]) \in Seq(E)
      BY <1>2, <1>3, SinglesCover
    <3>2. <<config[i]>> \in Seq(E)
      BY <3>1
    <3> QED BY <1>4, <3>1, <3>2
  <2>2. PICK Q : Q = Seq(E)
    OBVIOUS
  <2>3. s \in [1..n -> Q]
    BY <1>4, <2>1, <2>2
  <2>4. s \in Seq(Q)
    BY <2>3
  <2> QED BY <2>2, <2>4
<1>6. Injected(config) = FlattenSeq(s)
  BY <1>1, <1>4 DEF Injected
<1> QED BY <1>3, <1>5, <1>6, FlattenTyped

LEMMA RemaindersAreSets ==
  ASSUME groups \in [Slots -> SUBSET Ops], NEW T, NEW x \in Remainders(T)
  PROVE  x[2] \in SUBSET Ops
<1>1. PICK g \in Met(T) : x \in Leftover(g, groups[g] \ T)
  BY DEF Remainders
<1>2. groups[g] \ T \in SUBSET Ops
  BY DEF Met
<1>3. x[2] \in SUBSET (groups[g] \ T)
  BY <1>1, <1>2, LeftoverCovers
<1> QED BY <1>2, <1>3

(* What is added to the table, and which ops it holds. *)
LEMMA AddedTyped ==
  ASSUME TypeOK, NEW T \in SUBSET Ops, NEW config \in Seq(SUBSET Ops),
         NEW q \in Layouts(Remainders(T))
  PROVE  /\ Added(q, T, config) \in Seq(SUBSET Ops)
         /\ \A x \in Remainders(T) : \E i \in DOMAIN Added(q, T, config) : Added(q, T, config)[i] = x[2]
         /\ \A o \in T : \E i \in DOMAIN Added(q, T, config) : o \in Added(q, T, config)[i]
<1>1. groups \in [Slots -> SUBSET Ops]
  BY DEF TypeOK
<1>2. PICK pieces : pieces = Remainders(T)
  OBVIOUS
<1>3. PICK n \in 0..(MaxGroups - ngroups) :
        /\ q \in [1..n -> pieces]
        /\ \A x \in pieces : \E g \in Appended(q) : q[g - ngroups] = x
        /\ \A g \in Slots : g \in Appended(q) <=> g - ngroups \in DOMAIN q
  BY <1>2, AppendedSlots
<1>4. n \in Nat /\ \A x \in pieces : \E i \in 1..n : q[i] = x
  <2>1. ASSUME NEW x \in pieces PROVE \E i \in 1..n : q[i] = x
    <3>1. PICK g \in Appended(q) : q[g - ngroups] = x
      BY <1>3
    <3>2. g \in Slots
      BY DEF Appended
    <3>3. g - ngroups \in 1..n
      BY <1>3, <3>2
    <3> QED BY <3>1, <3>3
  <2> QED BY <2>1
<1>5. PICK rests : rests = [i \in 1..n |-> q[i][2]]
  OBVIOUS
<1>6. rests \in Seq(SUBSET Ops) /\ DOMAIN rests = 1..n
  <2>1. \A i \in 1..n : q[i][2] \in SUBSET Ops
    BY <1>1, <1>2, <1>3, RemaindersAreSets
  <2>2. rests \in [1..n -> SUBSET Ops]
    BY <1>5, <2>1
  <2> QED BY <1>4, <2>2, SequenceOfSets
<1>7. PICK new \in Seq(SUBSET Ops) : new = Injected(config)
  BY InjectedTyped
<1>8. PICK alone : alone = Singles(T \ Held(new))
  OBVIOUS
<1>9. alone \in Seq(SUBSET Ops) /\ \A o \in T \ Held(new) : \E i \in DOMAIN alone : alone[i] = {o}
  <2>1. PICK S \in SUBSET Ops : S = T \ Held(new)
    OBVIOUS
  <2>2. Singles(S) \in Seq(SUBSET Ops) /\ \A o \in S : \E i \in DOMAIN Singles(S) : Singles(S)[i] = {o}
    BY SinglesCover, Zenon
  <2> QED BY <1>8, <2>1, <2>2
<1>10. PICK first : first = rests \o new
  OBVIOUS
<1>11. /\ first \in Seq(SUBSET Ops)
       /\ \A i \in DOMAIN rests : \E j \in DOMAIN first : first[j] = rests[i]
       /\ \A i \in DOMAIN new : \E j \in DOMAIN first : first[j] = new[i]
  BY <1>6, <1>10, Joined
<1>12. Added(q, T, config) = first \o alone
  BY <1>3, <1>5, <1>7, <1>8, <1>10 DEF Added
<1>13. PICK added : added = first \o alone
  OBVIOUS
<1>14. /\ added \in Seq(SUBSET Ops)
       /\ \A i \in DOMAIN first : \E j \in DOMAIN added : added[j] = first[i]
       /\ \A i \in DOMAIN alone : \E j \in DOMAIN added : added[j] = alone[i]
  <2>1. PICK front \in Seq(SUBSET Ops), back \in Seq(SUBSET Ops) : front = first /\ back = alone
    BY <1>9, <1>11
  <2>2. /\ front \o back \in Seq(SUBSET Ops)
        /\ \A i \in DOMAIN front : \E j \in DOMAIN (front \o back) : (front \o back)[j] = front[i]
        /\ \A i \in DOMAIN back : \E j \in DOMAIN (front \o back) : (front \o back)[j] = back[i]
    BY Joined, Zenon
  <2> QED BY <1>13, <2>1, <2>2
<1>15. ASSUME NEW x \in pieces PROVE \E i \in DOMAIN added : added[i] = x[2]
  <2>1. PICK i \in DOMAIN rests : rests[i] = x[2]
    BY <1>4, <1>5, <1>6
  <2> QED BY <1>11, <1>14, <2>1
<1>16. ASSUME NEW o \in T PROVE \E i \in DOMAIN added : o \in added[i]
  <2>1. CASE o \in Held(new)
    <3>1. PICK i \in DOMAIN new : o \in new[i]
      BY <2>1 DEF Held
    <3> QED BY <1>11, <1>14, <3>1
  <2>2. CASE o \notin Held(new)
    <3>1. PICK i \in DOMAIN alone : o \in alone[i]
      BY <1>9, <2>2
    <3> QED BY <1>14, <3>1
  <2> QED BY <2>1, <2>2
<1>17. Added(q, T, config) = added
  BY <1>12, <1>13
<1> QED BY <1>2, <1>14, <1>15, <1>16, <1>17

(* Every op keeps a holder when the components are implanted, ... *)
LEMMA ImplantedCovers ==
  ASSUME Inv, NEW T \in SUBSET Ops, NEW added \in Seq(SUBSET Ops),
         ngroups + Len(added) <= MaxGroups,
         \A x \in Remainders(T) : \E i \in DOMAIN added : added[i] = x[2],
         \A o \in T : \E i \in DOMAIN added : o \in added[i]
  PROVE  /\ Complete(Implanted(T, added))
         /\ \A g \in Slots : g > ngroups + Len(added) => Implanted(T, added)[g] = {}
         /\ ngroups + Len(added) \in 0..MaxGroups
<1>1. /\ groups \in [Slots -> SUBSET Ops] /\ ngroups \in 0..MaxGroups
      /\ \A g \in Slots : g > ngroups => groups[g] = {}
  BY DEF Inv, Consistent, TypeOK
<1>2. /\ DOMAIN added = 1..Len(added) /\ Len(added) \in Nat
      /\ \A i \in 1..Len(added) : added[i] \in SUBSET Ops
      /\ Slots \subseteq Nat /\ MaxGroups \in Nat /\ ngroups \in Nat
  BY <1>1, MaxGroupsAssumption DEF Slots
<1>3. PICK table : table = Implanted(T, added)
  OBVIOUS
<1>4. /\ DOMAIN table = Slots
      /\ \A g \in Slots : g - ngroups \in 1..Len(added) => table[g] = added[g - ngroups]
      /\ \A g \in Slots : g - ngroups \notin 1..Len(added) =>
           table[g] = IF g \in Met(T) THEN FirstComponent(groups[g] \ T) ELSE groups[g]
      /\ table = [g \in Slots |-> table[g]]
  BY <1>2, <1>3 DEF Implanted
<1>5. ASSUME NEW g \in Slots PROVE FirstComponent(groups[g] \ T) \in SUBSET groups[g]
  <2>1. groups[g] \ T \in SUBSET Ops
    BY <1>1
  <2>2. FirstComponent(groups[g] \ T) \subseteq groups[g] \ T
    BY <2>1, FirstInside
  <2> QED BY <2>2
<1>6. ASSUME NEW g \in Slots
      PROVE  /\ table[g] \in SUBSET Ops
             /\ g > ngroups + Len(added) => table[g] = {}
  <2>1. CASE g - ngroups \in 1..Len(added)
    <3>1. ~(g > ngroups + Len(added))
      BY <1>2, <2>1
    <3> QED BY <1>2, <1>4, <2>1, <3>1
  <2>2. CASE g - ngroups \notin 1..Len(added)
    <3>1. table[g] \in SUBSET groups[g]
      BY <1>4, <1>5, <2>2
    <3>2. g > ngroups + Len(added) => g > ngroups
      BY <1>2
    <3> QED BY <1>1, <3>1, <3>2
  <2> QED BY <2>1, <2>2
<1>7. ASSUME NEW i \in DOMAIN added PROVE \E g \in Slots : table[g] = added[i]
  <2>1. ngroups + i \in Slots /\ (ngroups + i) - ngroups = i
    BY <1>2 DEF Slots
  <2> QED BY <1>2, <1>4, <2>1
<1>8. ASSUME NEW o \in Ops PROVE \E g \in Slots : o \in table[g]
  <2>1. CASE o \in T
    BY <1>7, <2>1
  <2>2. CASE o \notin T
    <3>1. PICK g \in Slots : o \in groups[g]
      BY DEF Inv, Consistent, AllHeld
    <3>2. g - ngroups \notin 1..Len(added)
      <4>1. ~(g > ngroups)
        BY <1>1, <3>1
      <4> QED BY <1>2, <4>1
    <3>3. CASE g \notin Met(T)
      BY <1>4, <3>1, <3>2, <3>3
    <3>4. CASE g \in Met(T) /\ o \in FirstComponent(groups[g] \ T)
      BY <1>4, <3>2, <3>4
    <3>5. CASE g \in Met(T) /\ o \notin FirstComponent(groups[g] \ T)
      <4>1. groups[g] \ T \in SUBSET Ops /\ o \in groups[g] \ T
        BY <1>1, <2>2, <3>1
      <4>2. PICK x \in Leftover(g, groups[g] \ T) : o \in x[2]
        BY <3>5, <4>1, LeftoverCovers
      <4>3. x \in Remainders(T)
        BY <3>5, <4>2 DEF Remainders
      <4>4. PICK i \in DOMAIN added : added[i] = x[2]
        BY <4>3
      <4> QED BY <1>7, <4>2, <4>4
    <3> QED BY <3>3, <3>4, <3>5
  <2> QED BY <2>1, <2>2
<1>9. table \in [Slots -> SUBSET Ops]
  BY <1>4, <1>6
<1> QED BY <1>2, <1>3, <1>6, <1>8, <1>9 DEF Complete

(* ... and the last one that holds it is never redundant. *)
LEMMA NoneIsTheLast ==
  ASSUME NEW table, Complete(table), NEW covered
  PROVE  /\ Complete(WithoutRedundant(table, covered))
         /\ \A g \in Slots : table[g] = {} => WithoutRedundant(table, covered)[g] = {}
<1>1. table \in [Slots -> SUBSET Ops] /\ Slots \subseteq Nat /\ MaxGroups \in Nat
  BY MaxGroupsAssumption DEF Complete, Slots
<1>2. PICK left : left = WithoutRedundant(table, covered)
  OBVIOUS
<1>3. /\ \A g \in Slots : g \in Redundant(table, covered) => left[g] = {}
      /\ \A g \in Slots : g \notin Redundant(table, covered) => left[g] = table[g]
      /\ left \in [Slots -> SUBSET Ops]
  BY <1>1, <1>2 DEF WithoutRedundant
<1>4. ASSUME NEW o \in Ops PROVE \E g \in Slots : o \in left[g]
  <2> DEFINE H == {g \in Slots : o \in table[g]}
  <2>1. PICK g0 \in Slots : o \in table[g0]
    BY DEF Complete
  <2>2. CASE \E g \in H : table[g] # {o}
    <3>1. PICK g \in Slots : o \in table[g] /\ table[g] # {o}
      BY <2>2
    <3>2. g \notin Redundant(table, covered)
      BY <3>1 DEF Redundant
    <3> QED BY <1>3, <3>1, <3>2
  <2>3. CASE \A g \in H : table[g] = {o}
    <3> DEFINE K == {n \in 0..MaxGroups : MaxGroups - n \in H}
    <3>1. K \in SUBSET Nat
      OBVIOUS
    <3>2. MaxGroups - g0 \in 0..MaxGroups /\ MaxGroups - (MaxGroups - g0) = g0
      BY <1>1, MaxGroupsAssumption DEF Slots
    <3>3. MaxGroups - g0 \in K
      BY <2>1, <3>2
    <3>4. PICK n \in K : \A m \in K : n <= m
      <4> HIDE DEF K
      <4> QED BY <3>1, <3>3, LeastNatural
    <3>5. PICK g \in Slots : g = MaxGroups - n /\ o \in table[g]
      BY <3>4
    <3>6. ASSUME NEW h \in Slots, o \in table[h] PROVE ~(h > g)
      <4>1. h \in 1..MaxGroups /\ n \in 0..MaxGroups
        BY <3>4 DEF Slots
      <4>2. MaxGroups - h \in 0..MaxGroups /\ MaxGroups - (MaxGroups - h) = h
        BY <1>1, <4>1
      <4>3. MaxGroups - h \in K
        BY <3>6, <4>2
      <4>4. n <= MaxGroups - h
        BY <3>4, <4>3
      <4> QED BY <1>1, <3>5, <4>1, <4>4
    <3>7. table[g] = {o} /\ \A h \in Slots : o \in table[h] => table[h] = {o}
      BY <2>3, <3>5
    <3>8. g \notin Redundant(table, covered)
      BY <3>6, <3>7 DEF Redundant
    <3> QED BY <1>3, <3>5, <3>8
  <2> QED BY <2>2, <2>3
<1>5. \A g \in Slots : table[g] = {} => left[g] = {}
  BY <1>3
<1> QED BY <1>2, <1>3, <1>4, <1>5 DEF Complete

LEMMA AlignHolds ==
  ASSUME EvoInv, Align
  PROVE  EvoInv'
<1>1. /\ phase = "entry" /\ links' = NoLinks /\ phase' = "child" /\ prob' = prob
      /\ index' = IndexOf(groups') /\ edges' = BuildEdges(groups', index')
  BY DEF Align, Child
<1>2. Inv
  BY <1>1 DEF EvoInv, Working
<1>3. TypeOK /\ prob \in Problems
  BY <1>2 DEF Inv, Consistent, TypeOK
<1>4. PICK pat \in Patterns[prob] :
        \E d \in Donors(pat) : \E q \in Layouts(Remainders(AllOps(pat))) :
          LET config == Replicated(pat, d)
              added  == Added(q, AllOps(pat), config)
          IN  /\ ngroups + Len(added) <= MaxGroups
              /\ groups' = WithoutRedundant(Implanted(AllOps(pat), added), Held(config))
              /\ ngroups' = ngroups + Len(added)
  BY DEF Align
<1>5. PICK d \in Donors(pat), q \in Layouts(Remainders(AllOps(pat))) :
          LET config == Replicated(pat, d)
              added  == Added(q, AllOps(pat), config)
          IN  /\ ngroups + Len(added) <= MaxGroups
              /\ groups' = WithoutRedundant(Implanted(AllOps(pat), added), Held(config))
              /\ ngroups' = ngroups + Len(added)
  BY <1>4
<1>6. pat \in Seq(Seq(Ops)) /\ \A i \in DOMAIN pat : Len(pat[i]) = Len(pat[1])
  BY <1>3, <1>4, PatternsAssumption
<1>7. d \in DOMAIN pat
  BY DEF Donors
<1>8. PICK T \in SUBSET Ops : T = AllOps(pat)
  <2>1. \A i \in DOMAIN pat : pat[i] \in Seq(Ops)
    BY <1>6
  <2>2. \A i \in DOMAIN pat : \A k \in DOMAIN pat[i] : pat[i][k] \in Ops
    BY <2>1
  <2> QED BY <2>2 DEF AllOps, CompOps
<1>9. PICK config \in Seq(SUBSET Ops) : config = Replicated(pat, d)
  BY <1>3, <1>6, <1>7, ReplicatedTyped DEF TypeOK
<1>10. PICK added : added = Added(q, T, config)
  OBVIOUS
<1>11. /\ added \in Seq(SUBSET Ops)
       /\ \A x \in Remainders(T) : \E i \in DOMAIN added : added[i] = x[2]
       /\ \A o \in T : \E i \in DOMAIN added : o \in added[i]
  BY <1>3, <1>5, <1>8, <1>10, AddedTyped
<1>12. /\ ngroups + Len(added) <= MaxGroups
       /\ groups' = WithoutRedundant(Implanted(T, added), Held(config))
       /\ ngroups' = ngroups + Len(added)
  BY <1>5, <1>8, <1>9, <1>10
<1>13. /\ Complete(Implanted(T, added))
       /\ \A g \in Slots : g > ngroups' => Implanted(T, added)[g] = {}
       /\ ngroups' \in 0..MaxGroups
  BY <1>2, <1>11, <1>12, ImplantedCovers
<1>14. /\ Complete(groups')
       /\ \A g \in Slots : g > ngroups' => groups'[g] = {}
  BY <1>12, <1>13, NoneIsTheLast
<1>15. Inv'
  BY <1>1, <1>3, <1>13, <1>14, BuiltAnew DEF Complete
<1>16. LinkInv'
  BY <1>1, NoLinksInOrder
<1> QED BY <1>1, <1>15, <1>16 DEF EvoInv, Working

-----------------------------------------------------------------------------
(* Every step *)

LEMMA MutationHolds ==
  ASSUME EvoInv, Mutation
  PROVE  EvoInv'
<1>1. phase \in {"mutating", "emptied"} /\ phase' = phase
  BY DEF Mutation, MutateMerge, MutateReassign, MutateSplit, MutateEject, MutateTensorMerge,
         MutateForceRecompute, Mutate
<1>2. CASE phase = "mutating"
  <2>1. Inv /\ LinkInv
    BY <1>2 DEF EvoInv, Working
  <2> QED BY <1>1, <1>2, <2>1, MutationKeeps DEF EvoInv, Working, Upheld, Inv
<1>3. CASE phase = "emptied"
  BY <1>1, <1>3, MutationKeeps DEF EvoInv, Working, Upheld
<1> QED BY <1>1, <1>2, <1>3

LEMMA LinkStepHolds ==
  ASSUME EvoInv, Descend \/ StartMutation \/ Repair \/ LinkMutation \/ SeedLink
  PROVE  EvoInv'
<1>1. phase \in {"entry", "descent", "mutating", "linking", "child"} /\ Inv /\ LinkInv
  <2>1. CASE Descend
    BY <2>1 DEF Descend, StartDescent, EndDescent, Couple, InSearch, EvoInv, Working
  <2>2. CASE StartMutation \/ Repair \/ SeedLink
    BY <2>2 DEF StartMutation, Repair, SeedLink, EvoInv, Working
  <2>3. CASE LinkMutation
    BY <2>3 DEF LinkMutation, MutateUncouple, MutateCouple, MutateRetainForceSplit,
                MutateForceRetain, MutateFuse, Relink, EvoInv, Working
  <2> QED BY <2>1, <2>2, <2>3
<1>2. phase' \in {"entry", "descent", "mutating", "linking", "child"}
  <2>1. CASE Descend
    BY <1>1, <2>1 DEF Descend, StartDescent, EndDescent, Couple, InSearch
  <2>2. CASE StartMutation \/ Repair \/ SeedLink
    BY <1>1, <2>2 DEF StartMutation, Repair, SeedLink
  <2>3. CASE LinkMutation
    BY <1>1, <2>3 DEF LinkMutation, MutateUncouple, MutateCouple, MutateRetainForceSplit,
                      MutateForceRetain, MutateFuse, Relink
  <2> QED BY <2>1, <2>2, <2>3
<1>3. Inv' /\ LinkInv'
  <2>1. CASE StartMutation
    BY <1>1, <2>1, NothingMoves DEF StartMutation, Upheld, Inv
  <2> QED BY <1>1, <2>1, DescendKeeps, RepairKeeps, LinkMutationKeeps, SeedLinkKeeps
<1> QED BY <1>2, <1>3 DEF EvoInv, Working

(* Without groups the tables are in order: there is nothing to list.       *)
LEMMA FallBackHolds ==
  ASSUME EvoInv, FallBack
  PROVE  EvoInv'
<1>1. /\ phase' = "emptied" /\ groups' = TableOf(<<>>) /\ index' = IndexOf(groups')
      /\ edges' = {} /\ ngroups' = 0 /\ links' = NoLinks
  BY DEF FallBack
<1>2. prob' \in Problems
  BY DEF FallBack, EvoInv, Working, Inv, Consistent, TypeOK
<1>3. groups' \in [Slots -> SUBSET Ops] /\ \A g \in Slots : groups'[g] = {}
  BY <1>1 DEF TableOf
<1>4. /\ index' \in [Ops -> [Slots -> Nat]]
      /\ \A o \in Ops, g \in Slots : index'[o][g] = 0
  BY <1>1, <1>3 DEF IndexOf
<1>5. TypeOK'
  BY <1>1, <1>2, <1>3, <1>4, MaxGroupsAssumption DEF TypeOK
<1>6. IndexCurrent'
  BY <1>3, <1>4 DEF IndexCurrent, GroupsOf
<1>7. GdagSound' /\ GdagComplete'
  BY <1>1, <1>3 DEF GdagSound, GdagComplete, Alive
<1>8. LinkInv'
  BY <1>1, NoLinksInOrder
<1> QED BY <1>1, <1>5, <1>6, <1>7, <1>8 DEF EvoInv, Working, Consistent

(* The gap filter lets no child through that has lost an op. *)
LEMMA AdmitHolds ==
  ASSUME EvoInv, Admit
  PROVE  EvoInv'
<1>1. phase' = "done" /\ UNCHANGED partVars /\ \A o \in Ops : Covered(o)
  BY DEF Admit, Refused
<1>2. CoversAll'
  BY <1>1 DEF CoversAll, Covered, GroupsOf, Alive, partVars
<1> QED BY <1>1, <1>2 DEF EvoInv, Working

LEMMA EvoStutters ==
  ASSUME EvoInv, UNCHANGED evoVars
  PROVE  EvoInv'
<1>1. UNCHANGED partVars /\ links' = links /\ phase' = phase /\ mates' = mates /\ todo' = todo
  BY DEF evoVars, partVars
<1>2. /\ Working => Inv' /\ LinkInv'
      /\ phase = "emptied" => Consistent' /\ LinkInv'
  BY <1>1, NothingMoves DEF EvoInv, Upheld, Inv
<1>3. Parents => Parents'
  BY <1>1 DEF Parents, Complete
<1>4. UnderConstruction => UnderConstruction'
  BY <1>1, <1>3 DEF UnderConstruction, IndexOf, partVars
<1>5. PlacedOrToPlace => PlacedOrToPlace'
  BY <1>1 DEF PlacedOrToPlace, partVars
<1>6. CoversAll => CoversAll'
  BY <1>1 DEF CoversAll, Covered, GroupsOf, Alive, partVars
<1> QED BY <1>1, <1>2, <1>4, <1>5, <1>6 DEF EvoInv, Working

LEMMA EvoNextHolds == EvoInv /\ [EvoNext]_evoVars => EvoInv'
  BY LinkStepHolds, MutationHolds, StartCrossoverHolds, PlaceClusterHolds, SettleHolds,
     DagCutHolds, AlignHolds, FallBackHolds, AdmitHolds, EvoStutters DEF EvoNext

(* The invariant of the evolution tasks: the copy a task works on keeps a  *)
(* current index, a group graph that is right and links in order, a child  *)
(* under construction lies between two complete parents, and what is cut   *)
(* out or let through holds every op.                                      *)
THEOREM EvoInvariance == EvoSpec => []EvoInv
<1>1. EvoInit => EvoInv
  BY EvoInitHolds
<1>2. EvoInv /\ [EvoNext]_evoVars => EvoInv'
  BY EvoNextHolds
<1> QED BY <1>1, <1>2, PTL DEF EvoSpec

LEMMA InvCovers == Inv => CoversAll
<1> SUFFICES ASSUME Inv, NEW o \in Ops PROVE Covered(o)
  BY DEF CoversAll
<1>1. PICK g \in Slots : o \in groups[g]
  BY DEF Inv, Consistent, AllHeld
<1>2. g \in GroupsOf(o)
  BY <1>1 DEF Inv, Consistent, IndexCurrent
<1> QED BY <1>1, <1>2 DEF Covered, Alive

(* KeepsEveryOp: evolution.cpp, mutate_compound "Verify coverage only      *)
(* after successful mutations (the only case where ops can be lost)".  No  *)
(* mutation, crossover, cut or alignment loses an op, in any op graph and  *)
(* whatever the cost model accepts.                                        *)
THEOREM KeepsEveryOpHolds == EvoSpec => []KeepsEveryOp
<1>1. EvoInv => KeepsEveryOp
  BY InvCovers DEF EvoInv, Working, KeepsEveryOp
<1> QED BY <1>1, EvoInvariance, PTL

(* A step that leaves a cut child behind has just cut it, or does nothing. *)
LEMMA CutStays ==
  ASSUME EvoInv, CutAccepted, [EvoNext]_evoVars
  PROVE  CutAccepted'
<1>1. CASE DagCut
  BY <1>1, DagCutAccepted
<1>2. CASE UNCHANGED evoVars
  <2>1. UNCHANGED partVars /\ phase' = phase /\ mates' = mates
    BY <1>2 DEF evoVars, partVars
  <2>2. Refused({})' <=> Refused({})
    BY <2>1 DEF partVars, Refused, IsAcyclic, Dependencies, GroupsOf, Alive, Producers, Covered,
                HasGapBeyond, IsEphemeral, IsBoundaryOutput, ConsumedIn, Consumers, Exported
  <2> QED BY <2>1, <2>2 DEF CutAccepted, OnceOnly
<1>3. CASE EvoNext /\ ~DagCut
  <2>1. phase' # "cut"
    <3>1. CASE Descend
      BY <3>1 DEF Descend, StartDescent, EndDescent, Couple, InSearch
    <3>2. CASE StartMutation \/ Repair \/ SeedLink
      BY <3>2 DEF StartMutation, Repair, SeedLink
    <3>3. CASE LinkMutation
      BY <3>3 DEF LinkMutation, MutateUncouple, MutateCouple, MutateRetainForceSplit,
                  MutateForceRetain, MutateFuse, Relink
    <3>4. CASE Mutation
      BY <3>4 DEF Mutation, MutateMerge, MutateReassign, MutateSplit, MutateEject,
                  MutateTensorMerge, MutateForceRecompute, Mutate
    <3>5. CASE StartCrossover \/ PlaceCluster
      BY <3>5 DEF StartCrossover, PlaceCluster
    <3>6. CASE Settle
      BY <3>6 DEF Settle
    <3>7. CASE Align \/ FallBack \/ Admit
      BY <3>7 DEF Align, FallBack, Admit
    <3> QED BY <1>3, <3>1, <3>2, <3>3, <3>4, <3>5, <3>6, <3>7 DEF EvoNext
  <2> QED BY <2>1 DEF CutAccepted
<1> QED BY <1>1, <1>2, <1>3

(* CutAccepted: evolution.cpp, crossover_dag_cut gives up a truncated      *)
(* group that would strand a tensor and takes its ops one by one instead.  *)
(* That suffices: a child of two accepted partitions that hold every op    *)
(* once has no gap and no cycle, wherever the order is cut.                *)
THEOREM CutIsAccepted == EvoSpec => []CutAccepted
<1>1. EvoInit => EvoInv /\ CutAccepted
  BY EvoInitHolds DEF EvoInit, CutAccepted
<1>2. EvoInv /\ CutAccepted /\ [EvoNext]_evoVars => CutAccepted'
  BY CutStays
<1> QED BY <1>1, <1>2, EvoInvariance, PTL DEF EvoSpec

-----------------------------------------------------------------------------
(* The mutations with checks, judged by what the checks promise of the     *)
(* parts they are shown (FmMovesProofs).                                   *)

(* What the property asks of the partition before the step.                *)
InShape == Consistent /\ Consistent' /\ Disjoint /\ IsAcyclic /\ ~HasEphemeralGap

LEMMA InShapeMeans ==
  ASSUME InShape
  PROVE  Apart(groups) /\ Unbroken(groups) /\ Orderly(groups)
  BY ApartMeans, UnbrokenMeans, OrderlyMeans DEF InShape

LEMMA StaysRunnable ==
  ASSUME InShape, Orderly(groups') /\ prob' = prob /\ Apart(groups')
  PROVE  IsAcyclic'
<1>1. Orderly(groups)'
  BY OrderlyTable
<1>2. Apart(groups)'
  BY DEF Apart
<1> QED BY <1>1, <1>2, OrderlyMeansNext DEF InShape

LEMMA MutateMergeIsSound ==
  ASSUME InShape, MutateMerge
  PROVE  ~HasEphemeralGap' /\ IsAcyclic'
<1>1. PICK ga \in Alive : \E gb \in NeighborGroups(ga) :
        LET whole == groups[ga] \cup groups[gb]
        IN  /\ ~MergeCreatesCycle({ga, gb}) /\ ~CreatesEphemeralGap(whole, {ga, gb})
            /\ ga < gb
            /\ Becomes([groups EXCEPT ![ga] = whole, ![gb] = {}], 0, {ga, gb})
  BY DEF MutateMerge
<1>2. PICK gb \in NeighborGroups(ga) :
        LET whole == groups[ga] \cup groups[gb]
        IN  /\ ~MergeCreatesCycle({ga, gb}) /\ ~CreatesEphemeralGap(whole, {ga, gb})
            /\ ga < gb
            /\ Becomes([groups EXCEPT ![ga] = whole, ![gb] = {}], 0, {ga, gb})
  BY <1>1
<1>3. PICK G, whole : G = {ga, gb} /\ whole = groups[ga] \cup groups[gb]
  OBVIOUS
<1>4. /\ ~MergeCreatesCycle(G) /\ ~CreatesEphemeralGap(whole, G)
      /\ prob' = prob /\ groups' = [groups EXCEPT ![ga] = whole, ![gb] = {}]
  BY <1>2, <1>3 DEF Becomes
<1>5. ga \in Slots /\ gb \in Slots /\ ga # gb /\ gb \in Alive
  <2>1. gb \in Slots /\ ga \in Slots /\ ga # gb
    BY <1>2, SlotsFinite DEF NeighborGroups, Alive
  <2>2. PICK o \in (UNION {OpNeighbors(u) : u \in groups[ga]}) : gb \in GroupsOf(o)
    BY <1>2 DEF NeighborGroups
  <2>3. o \in Ops
    BY <2>2, NeighborsAreOps
  <2> QED BY <2>1, <2>2, <2>3, HoldersAreLive DEF InShape
<1>6. Apart(groups) /\ Unbroken(groups) /\ Orderly(groups) /\ Consistent
  BY InShapeMeans DEF InShape
<1>7. Union(G) = whole /\ G \in SUBSET Alive /\ G \in SUBSET Slots /\ ga \in G
  BY <1>3, <1>5 DEF Union
<1>8. Gathers(G, ga)
  <2>1. PICK kept : kept = [g \in G |-> IF g = ga THEN Union(G) ELSE {}]
    OBVIOUS
  <2>2. DOMAIN kept = G /\ kept[ga] = whole /\ kept[gb] = {} /\ DOMAIN <<>> = {}
    BY <1>3, <1>5, <1>7, <2>1
  <2>3. groups \in [Slots -> SUBSET Ops]
    BY <1>6 DEF Consistent, TypeOK
  <2>4. NewTable(kept, <<>>) = [g \in Slots |-> IF g \in G THEN kept[g] ELSE groups[g]]
    BY <2>2 DEF NewTable
  <2>5. groups' = [g \in Slots |-> IF g \in G THEN kept[g] ELSE groups[g]]
    BY <1>3, <1>4, <1>5, <2>2, <2>3
  <2> QED BY <1>4, <1>7, <2>1, <2>4, <2>5 DEF Gathers
<1>9. Intact(Union(G))
  <2>1. whole \in SUBSET Union(G)
    BY <1>7
  <2> QED BY <1>4, <1>6, <1>7, <2>1, CheckedUnion
<1>10. ~HasEphemeralGap'
  <2>1. Mends
    BY <1>6, <1>8, <1>9, GatherMends
  <2> QED BY <2>1, MendedHasNoGap DEF InShape
<1>11. IsAcyclic'
  BY <1>4, <1>6, <1>8, GatherStaysOrderly, StaysRunnable
<1> QED BY <1>10, <1>11

LEMMA MutateSplitIsSound ==
  ASSUME InShape, MutateSplit
  PROVE  ~HasEphemeralGap' /\ IsAcyclic'
<1>1. PICK g \in Alive : \E u \in groups[g] : \E v \in OpNeighbors(u) :
        SplitHarmless(u, v, g) /\ ApplySplit(u, v, g)
  BY DEF MutateSplit
<1>2. PICK u \in groups[g] : \E v \in OpNeighbors(u) :
        SplitHarmless(u, v, g) /\ ApplySplit(u, v, g)
  BY <1>1
<1>3. PICK v : SplitHarmless(u, v, g) /\ ApplySplit(u, v, g)
  BY <1>2
<1>4. Apart(groups) /\ Orderly(groups) /\ Consistent
  BY InShapeMeans DEF InShape
<1>5. g \in Slots /\ u \in Ops /\ groups[g] \subseteq Ops
  BY <1>2, <1>4 DEF Alive, Consistent, TypeOK
<1>6. PICK stay, moved : stay = SideOf(groups[g], u, v) /\ moved = groups[g] \ stay
  OBVIOUS
<1>7. PICK parts, G : parts = {stay, moved} /\ G = {g}
  OBVIOUS
<1>8. /\ \A S \in parts : S \subseteq Union(G)
      /\ \A S, T \in parts : S # T => S \cap T = {}
  <2>1. stay \subseteq groups[g] /\ moved \subseteq groups[g] /\ stay \cap moved = {}
    BY <1>6 DEF SideOf
  <2>2. Union(G) = groups[g]
    BY <1>7 DEF Union
  <2> QED BY <1>7, <2>1, <2>2
<1>9. ~SplitCreatesEphemeralGap(parts, G) /\ G \in SUBSET Slots
  BY <1>3, <1>5, <1>6, <1>7 DEF SplitHarmless
<1>10. Intact(stay) /\ Intact(moved)
  <2>1. \A S \in parts : Intact(S)
    BY <1>4, <1>8, <1>9, CheckedParts
  <2> QED BY <1>7, <2>1
<1>11. ~HasEphemeralGap'
  <2>1. Mends
    BY <1>3, <1>4, <1>5, <1>6, <1>10, CutMends
  <2> QED BY <2>1, MendedHasNoGap DEF InShape
<1>12. IsAcyclic'
  BY <1>3, <1>4, <1>5, CutStaysOrderly, StaysRunnable
<1> QED BY <1>11, <1>12

LEMMA MutateEjectIsSound ==
  ASSUME InShape, MutateEject
  PROVE  ~HasEphemeralGap'
<1>1. PICK g \in Alive : \E op \in groups[g] : EjectHarmless(op, g) /\ ApplyEject(op, g)
  BY DEF MutateEject
<1>2. PICK op \in groups[g] : EjectHarmless(op, g) /\ ApplyEject(op, g)
  BY <1>1
<1>3. Apart(groups) /\ Consistent
  BY InShapeMeans DEF InShape
<1>4. g \in Slots /\ op \in Ops /\ groups[g] \subseteq Ops
  BY <1>2, <1>3 DEF Alive, Consistent, TypeOK
<1>5. PICK rest : rest = groups[g] \ {op}
  OBVIOUS
<1>6. PICK parts, G : parts = {{op}} \cup Components(rest) /\ G = {g}
  OBVIOUS
<1>7. /\ rest \in SUBSET Ops /\ op \notin rest
      /\ \A C \in Components(rest) : C \subseteq rest
      /\ \A C, D \in Components(rest) : C # D => C \cap D = {}
  <2>1. rest \in SUBSET Ops
    BY <1>4, <1>5
  <2> QED BY <1>5, <2>1, ComponentInside, ComponentsApart DEF Components
<1>8. /\ \A S \in parts : S \subseteq Union(G)
      /\ \A S, T \in parts : S # T => S \cap T = {}
  <2>1. Union(G) = groups[g]
    BY <1>6 DEF Union
  <2>2. \A S \in parts : S = {op} \/ S \in Components(rest)
    BY <1>6
  <2>3. ASSUME NEW S \in parts PROVE S \subseteq Union(G)
    <3>1. CASE S = {op}
      BY <1>2, <2>1, <3>1
    <3>2. CASE S \in Components(rest)
      <4>1. S \subseteq rest
        BY <1>7, <3>2
      <4> QED BY <1>5, <2>1, <4>1
    <3> QED BY <2>2, <3>1, <3>2
  <2>4. ASSUME NEW S \in parts, NEW T \in parts, S # T PROVE S \cap T = {}
    <3>1. CASE S \in Components(rest) /\ T \in Components(rest)
      BY <1>7, <2>4, <3>1
    <3>2. CASE S = {op} /\ T \in Components(rest)
      BY <1>7, <3>2
    <3>3. CASE S \in Components(rest) /\ T = {op}
      BY <1>7, <3>3
    <3> QED BY <2>2, <2>4, <3>1, <3>2, <3>3
  <2> QED BY <2>3, <2>4
<1>9. ~SplitCreatesEphemeralGap(parts, G) /\ G \in SUBSET Slots
  BY <1>2, <1>4, <1>5, <1>6 DEF EjectHarmless
<1>10. \A S \in parts : Intact(S)
  BY <1>3, <1>8, <1>9, CheckedParts
<1>11. Mends
  BY <1>2, <1>3, <1>4, <1>5, <1>6, <1>10, TakenOutMends
<1> QED BY <1>11, MendedHasNoGap DEF InShape

LEMMA MutateReassignIsSound ==
  ASSUME InShape, MutateReassign
  PROVE  ~HasEphemeralGap'
<1>1. PICK from \in Alive : \E op \in groups[from] :
        \E to \in (UNION {GroupsOf(n) : n \in OpNeighbors(op)}) \ {from} :
          /\ ReassignFeasible(op, from, to)
          /\ Becomes([groups EXCEPT ![from] = @ \ {op}, ![to] = @ \cup {op}], 0, {from, to})
  BY DEF MutateReassign
<1>2. PICK op \in groups[from] :
        \E to \in (UNION {GroupsOf(n) : n \in OpNeighbors(op)}) \ {from} :
          /\ ReassignFeasible(op, from, to)
          /\ Becomes([groups EXCEPT ![from] = @ \ {op}, ![to] = @ \cup {op}], 0, {from, to})
  BY <1>1
<1>3. PICK to \in (UNION {GroupsOf(n) : n \in OpNeighbors(op)}) \ {from} :
          /\ ReassignFeasible(op, from, to)
          /\ Becomes([groups EXCEPT ![from] = @ \ {op}, ![to] = @ \cup {op}], 0, {from, to})
  BY <1>2
<1>4. Apart(groups) /\ Consistent /\ groups \in [Slots -> SUBSET Ops]
  BY InShapeMeans DEF InShape, Consistent, TypeOK
<1>5. to # from /\ to \in Alive /\ from \in Slots /\ to \in Slots /\ op \in Ops
  <2>1. PICK n \in OpNeighbors(op) : to \in GroupsOf(n)
    BY <1>3
  <2>2. n \in Ops
    BY <2>1, NeighborsAreOps
  <2> QED BY <1>2, <1>3, <1>4, <2>1, <2>2, HoldersAreLive DEF Alive
<1>6. PICK rest, into : rest = groups[from] \ {op} /\ into = groups[to] \cup {op}
  OBVIOUS
<1>7. Intact(into) /\ Intact(rest)
  <2>1. from \in Holders(op)
    BY <1>2, <1>4, <1>5, HoldersAreLive
  <2>2. ~SplitCreatesEphemeralGap({into, rest}, {from, to})
    BY <1>3, <1>6 DEF ReassignFeasible
  <2> QED BY <1>4, <1>5, <1>6, <2>1, <2>2, StealIntact
<1>8. PICK G : G = {from, to}
  OBVIOUS
<1>9. PICK kept : kept = [g \in G |-> IF g = to THEN into ELSE rest]
  OBVIOUS
<1>10. DOMAIN kept = G /\ kept[to] = into /\ kept[from] = rest
  BY <1>5, <1>8, <1>9
<1>11. rest \cap into = {}
  BY <1>5, <1>4, <1>6 DEF Apart
<1>12. Shares(G, kept, {})
  <2>1. G \subseteq Alive
    BY <1>5, <1>8
  <2>2. \A g \in G : kept[g] \subseteq Union(G)
    BY <1>2, <1>6, <1>8, <1>10 DEF Union
  <2>3. \A g, h \in G : g # h => kept[g] \cap kept[h] = {}
    BY <1>8, <1>10, <1>11
  <2> QED BY <2>1, <2>2, <2>3 DEF Shares
<1>13. groups' = NewTable(kept, <<>>) /\ prob' = prob
  <2>1. groups' = [groups EXCEPT ![from] = @ \ {op}, ![to] = @ \cup {op}] /\ prob' = prob
    BY <1>3 DEF Becomes
  <2>2. DOMAIN <<>> = {}
    OBVIOUS
  <2>3. NewTable(kept, <<>>) = [g \in Slots |-> IF g \in G THEN kept[g] ELSE groups[g]]
    BY <1>10, <2>2 DEF NewTable
  <2>4. groups' = [g \in Slots |-> IF g \in G THEN kept[g] ELSE groups[g]]
    BY <1>4, <1>5, <1>6, <1>8, <1>10, <2>1
  <2> QED BY <2>1, <2>3, <2>4
<1>14. Regroups(G, kept, {}, <<>>)
  BY <1>4, <1>10, <1>12, <1>13, EmptyLayout DEF Regroups
<1>15. \A S \in Parts(G, kept, {}) : Intact(S)
  <2>1. \A S \in Parts(G, kept, {}) : S = into \/ S = rest \/ S = {}
    BY <1>8, <1>10 DEF Parts
  <2>2. Intact({})
    BY DEF Intact
  <2> QED BY <1>7, <2>1, <2>2
<1>16. Mends
  BY <1>14, <1>15 DEF Mends
<1> QED BY <1>16, MendedHasNoGap DEF InShape

(* No other step makes one of these mutations.                             *)
Checked == {"MUTATE_MERGE", "MUTATE_SPLIT", "MUTATE_REASSIGN", "MUTATE_EJECT"}

LEMMA CheckedMutations ==
  ASSUME EvoNext, MutatedBy(Checked)
  PROVE  /\ MutateMerge \/ MutateSplit \/ MutateReassign \/ MutateEject
         /\ last' \in {"MUTATE_MERGE", "MUTATE_SPLIT"} => MutateMerge \/ MutateSplit
         /\ phase' = phase /\ phase \in {"mutating", "emptied"}
<1> USE DEF MutatedBy, Checked
<1>1. ~Descend
  BY DEF Descend, StartDescent, EndDescent, Couple, InSearch, Take
<1>2. ~StartMutation /\ ~Repair /\ ~SeedLink
  BY DEF StartMutation, Repair, SeedLink
<1>3. ~LinkMutation
  BY DEF LinkMutation, MutateUncouple, MutateCouple, MutateRetainForceSplit,
         MutateForceRetain, MutateFuse, Relink, Take
<1>4. ~StartCrossover /\ ~PlaceCluster /\ ~Settle /\ ~DagCut
  BY DEF StartCrossover, PlaceCluster, Settle, DagCut, Child
<1>5. ~Align /\ ~FallBack /\ ~Admit
  BY DEF Align, FallBack, Admit, Child
<1>6. Mutation
  BY <1>1, <1>2, <1>3, <1>4, <1>5 DEF EvoNext
<1>7. ~MutateTensorMerge /\ ~MutateForceRecompute
  BY DEF MutateTensorMerge, MutateForceRecompute, Mutate, Take
<1>8. /\ MutateReassign => last' = "MUTATE_REASSIGN"
      /\ MutateEject => last' = "MUTATE_EJECT"
  BY DEF MutateReassign, MutateEject, Mutate, Take
<1>9. phase' = phase /\ phase \in {"mutating", "emptied"}
  BY <1>6, <1>7 DEF Mutation, MutateMerge, MutateReassign, MutateSplit, MutateEject, Mutate
<1> QED BY <1>6, <1>7, <1>8, <1>9 DEF Mutation

(* MutationsSound: evolution.cpp, mutate_merge, mutate_split,              *)
(* mutate_reassign and mutate_eject return the partition unchanged when    *)
(* the sets they would form have an ephemeral gap or the group graph shows *)
(* a cycle.  They look only at the groups they edit; that is enough, in    *)
(* any op graph, for a partition that holds no op twice and can run.  They *)
(* may also follow an alignment that came to nothing: then the partition   *)
(* has lost its ops, but its tables are still in order.                    *)
THEOREM MutationsAreSound == EvoSpec => MutationsSound
<1>1. ASSUME EvoInv, EvoInv', EvoNext, Sound, MutatedBy(Checked)
      PROVE  /\ ~HasEphemeralGap'
             /\ MutatedBy({"MUTATE_MERGE", "MUTATE_SPLIT"}) => IsAcyclic'
  <2>1. InShape
    BY <1>1, CheckedMutations DEF EvoInv, Working, Inv, InShape, Sound
  <2>2. /\ MutateMerge \/ MutateSplit \/ MutateReassign \/ MutateEject
        /\ MutatedBy({"MUTATE_MERGE", "MUTATE_SPLIT"}) => MutateMerge \/ MutateSplit
    BY <1>1, CheckedMutations DEF MutatedBy
  <2> QED BY <2>1, <2>2, MutateMergeIsSound, MutateSplitIsSound, MutateReassignIsSound,
             MutateEjectIsSound
<1>2. ASSUME MutatedBy({"MUTATE_MERGE", "MUTATE_SPLIT"}) PROVE MutatedBy(Checked)
  BY <1>2 DEF MutatedBy, Checked
<1>3. EvoInv /\ EvoInv' /\ [EvoNext]_evoVars =>
        [Sound /\ edges = BuildEdges(groups, index) =>
           /\ MutatedBy({"MUTATE_MERGE", "MUTATE_SPLIT", "MUTATE_REASSIGN", "MUTATE_EJECT"})
                => ~HasEphemeralGap'
           /\ MutatedBy({"MUTATE_MERGE", "MUTATE_SPLIT"}) => IsAcyclic']_evoVars
  BY <1>1, <1>2 DEF Checked
<1> QED BY <1>3, EvoInvariance, PTL DEF EvoSpec, MutationsSound
=============================================================================
