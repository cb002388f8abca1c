--------------------------- MODULE FmMovesProofs ---------------------------
(***************************************************************************)
(* For every op graph and every bound: the partition moves keep the index  *)
(* and the incremental group graph consistent with the groups, and lose no *)
(* op.                                                                     *)
(*                                                                         *)
(* Every move has the same shape: it edits some groups, appends others,    *)
(* brings the index up to date and hands the edited and appended slots to  *)
(* GroupDAG::update.  Maintained says so.  The proof shows once that such  *)
(* a step preserves the invariant, and for each move that it is such a     *)
(* step.                                                                   *)
(*                                                                         *)
(* And the local checks of the moves are enough: from a partition that     *)
(* holds every op once, a move that looks at the group graph leaves it     *)
(* acyclic, and a move that looks for ephemeral gaps leaves none.  These   *)
(* arguments are about tables of disjoint groups.  A table is orderly when *)
(* no set of groups waits for itself, and unbroken when a tensor that      *)
(* stays on chip in a group has all its consumers there.                   *)
(***************************************************************************)
EXTENDS FmMoves, DataInduction

AllHeld == \A o \in Ops : \E g \in Slots : o \in groups[g]

(* The index and the group graph say what the groups say.                  *)
Consistent == TypeOK /\ IndexCurrent /\ GdagSound /\ GdagComplete

Inv == Consistent /\ AllHeld

(* What the tables must satisfy after a step that touched only `affected`. *)
Maintained(affected) ==
  /\ affected \subseteq Slots
  /\ prob' = prob
  /\ ngroups' \in 0..MaxGroups
  /\ groups' \in [Slots -> SUBSET Ops]
  /\ index' \in [Ops -> [Slots -> Nat]]
  /\ \A g \in Slots : g > ngroups' => groups'[g] = {}
  /\ \A g \in Slots \ affected : groups'[g] = groups[g]
  /\ \A o \in Ops, g \in Slots : index'[o][g] > 0 <=> o \in groups'[g]
  /\ \A o \in Ops : (\E g \in Slots : o \in groups[g]) => \E g \in Slots : o \in groups'[g]

-----------------------------------------------------------------------------
(* Components *)

LEMMA ComponentInside ==
  ASSUME NEW S \in SUBSET Ops, NEW o \in S
  PROVE  o \in Component(S, o) /\ Component(S, o) \subseteq S
  BY DEF Component

LEMMA FirstInside ==
  ASSUME NEW S \in SUBSET Ops
  PROVE  FirstComponent(S) \subseteq S
  BY DEF FirstComponent, Component

(* The component that stays and the pieces that leave make up the set. *)
LEMMA LeftoverCovers ==
  ASSUME NEW g, NEW S \in SUBSET Ops
  PROVE  /\ \A x \in Leftover(g, S) : x[2] \in SUBSET S
         /\ \A o \in S : o \in FirstComponent(S) \/ \E x \in Leftover(g, S) : o \in x[2]
  <1>1. ASSUME NEW x \in Leftover(g, S) PROVE x[2] \in SUBSET S
    BY <1>1 DEF Leftover, Components, Component
  <1>2. ASSUME NEW o \in S, o \notin FirstComponent(S)
        PROVE  \E x \in Leftover(g, S) : o \in x[2]
    <2>1. Component(S, o) \in Components(S) \ {FirstComponent(S)}
      BY <1>2, ComponentInside DEF Components
    <2>2. <<g, Component(S, o)>> \in Leftover(g, S)
      BY <2>1 DEF Leftover
    <2> QED BY <2>2, ComponentInside
  <1> QED BY <1>1, <1>2

-----------------------------------------------------------------------------
(* Appending *)

LEMMA AppendedSlots ==
  ASSUME TypeOK, NEW pieces, NEW q \in Layouts(pieces)
  PROVE  \E n \in 0..(MaxGroups - ngroups) :
           /\ q \in [1..n -> pieces]
           /\ Len(q) = n
           /\ Appended(q) = (ngroups + 1)..(ngroups + n)
           /\ ngroups + n \in 0..MaxGroups
           /\ \A x \in pieces : \E g \in Appended(q) : q[g - ngroups] = x
           /\ \A g \in Slots : g \in Appended(q) <=> g - ngroups \in DOMAIN q
  <1>1. ngroups \in 0..MaxGroups /\ MaxGroups \in Nat
    BY MaxGroupsAssumption DEF TypeOK
  <1>2. PICK n \in 0..(MaxGroups - ngroups) : q \in [1..n -> pieces]
    BY DEF Layouts
  <1>3. \A x \in pieces : \E i \in 1..n : q[i] = x
    BY <1>2 DEF Layouts
  <1>4. Len(q) = n
    <2>1. q \in Seq(pieces) BY <1>2
    <2>2. DOMAIN q = 1..Len(q) BY <2>1
    <2> QED BY <1>1, <1>2, <2>1, <2>2
  <1>5. Appended(q) = (ngroups + 1)..(ngroups + n)
    BY <1>1, <1>2 DEF Appended, Slots
  <1>6. ASSUME NEW x \in pieces PROVE \E g \in Appended(q) : q[g - ngroups] = x
    <2>1. PICK i \in 1..n : q[i] = x BY <1>3
    <2>2. ngroups + i \in Appended(q) /\ (ngroups + i) - ngroups = i
      BY <1>1, <1>5, <2>1
    <2> QED BY <2>1, <2>2
  <1> QED BY <1>1, <1>2, <1>4, <1>5, <1>6 DEF Appended

-----------------------------------------------------------------------------
(* The incremental group graph *)

(* An edge that a full build enters when it visits a, or when it visits b. *)
OutEdge(table, ix, a, b) ==
  table[b] # {} /\ \E p \in table[a] : \E c \in Consumers(p) \ table[a] : ix[c][b] > 0

InEdge(table, ix, a, b) ==
  table[a] # {} /\ \E c \in table[b] : \E p \in Producers(c) \ table[b] : ix[p][a] > 0

LEMMA EdgesForMembers ==
  ASSUME NEW table, NEW ix, NEW g \in Slots
  PROVE  /\ EdgesFor(table, ix, g) \subseteq Slots \X Slots
         /\ \A a, b \in Slots : <<a, b>> \in EdgesFor(table, ix, g) <=>
              a # b /\ (\/ a = g /\ OutEdge(table, ix, a, b)
                        \/ b = g /\ InEdge(table, ix, a, b))
  BY DEF EdgesFor, OutEdge, InEdge

LEMMA BuildMembers ==
  ASSUME NEW table, NEW ix
  PROVE  /\ BuildEdges(table, ix) \subseteq Slots \X Slots
         /\ \A a, b \in Slots : <<a, b>> \in BuildEdges(table, ix) <=>
              a # b /\ (OutEdge(table, ix, a, b) \/ InEdge(table, ix, a, b))
  BY EdgesForMembers DEF BuildEdges

(* A dependency of b on a that the consumer's group cannot hide.           *)
FeedsDirectly(table, a, b) ==
  \E p \in table[a] \ table[b] : Consumers(p) \cap (table[b] \ table[a]) # {}

LEMMA DirectIsEdge ==
  ASSUME NEW table \in [Slots -> SUBSET Ops], NEW ix,
         \A o \in Ops, g \in Slots : ix[o][g] > 0 <=> o \in table[g],
         NEW a \in Slots, NEW b \in Slots, FeedsDirectly(table, a, b)
  PROVE  a # b /\ OutEdge(table, ix, a, b) /\ InEdge(table, ix, a, b)
  <1>1. PICK p \in table[a] \ table[b], c \in table[b] \ table[a] : c \in Consumers(p)
    BY DEF FeedsDirectly
  <1>2. p \in Ops /\ c \in Ops /\ p \in Producers(c)
    BY <1>1 DEF Consumers, Producers
  <1> QED BY <1>1, <1>2 DEF OutEdge, InEdge

(* GroupDAG::update, started from a graph that is right away from the      *)
(* affected groups, gives one that is right everywhere.                    *)
LEMMA UpdateIsRight ==
  ASSUME NEW table \in [Slots -> SUBSET Ops], NEW ix,
         \A o \in Ops, g \in Slots : ix[o][g] > 0 <=> o \in table[g],
         NEW affected \in SUBSET Slots,
         NEW E \in SUBSET (Slots \X Slots),
         \A a, b \in Slots \ affected : <<a, b>> \in E => <<a, b>> \in BuildEdges(table, ix),
         \A a, b \in Slots \ affected : FeedsDirectly(table, a, b) => <<a, b>> \in E
  PROVE  /\ UpdateEdges(E, table, ix, affected) \subseteq BuildEdges(table, ix)
         /\ \A a, b \in Slots : FeedsDirectly(table, a, b)
               => <<a, b>> \in UpdateEdges(E, table, ix, affected)
  <1> DEFINE rebuild == affected \cup UNION {Neighbours(E, g) : g \in affected}
             kept    == {e \in E : e[1] \notin rebuild /\ e[2] \notin rebuild}
             fresh   == UNION {EdgesFor(table, ix, g) : g \in rebuild}
  <1>1. UpdateEdges(E, table, ix, affected) = kept \cup fresh
    BY DEF UpdateEdges
  <1>2. rebuild \subseteq Slots
    BY DEF Neighbours
  <1>3. kept \subseteq BuildEdges(table, ix)
    OBVIOUS
  <1>4. fresh \subseteq BuildEdges(table, ix)
    BY <1>2 DEF BuildEdges
  <1>5. ASSUME NEW a \in Slots, NEW b \in Slots, FeedsDirectly(table, a, b)
        PROVE  <<a, b>> \in kept \cup fresh
    <2>1. a # b /\ OutEdge(table, ix, a, b) /\ InEdge(table, ix, a, b)
      BY <1>5, DirectIsEdge
    <2>2. CASE a \in rebuild
      <3>1. <<a, b>> \in EdgesFor(table, ix, a) BY <2>1, EdgesForMembers
      <3> QED BY <2>2, <3>1
    <2>3. CASE b \in rebuild
      <3>1. <<a, b>> \in EdgesFor(table, ix, b) BY <2>1, EdgesForMembers
      <3> QED BY <2>3, <3>1
    <2>4. CASE a \notin rebuild /\ b \notin rebuild
      <3>1. <<a, b>> \in E BY <2>4, <1>5
      <3> QED BY <2>4, <3>1
    <2> QED BY <2>2, <2>3, <2>4
  <1> HIDE DEF rebuild, kept, fresh
  <1> QED BY <1>1, <1>3, <1>4, <1>5

LEMMA GdagCompleteDirect ==
  ASSUME TypeOK
  PROVE  GdagComplete <=> \A a, b \in Slots : FeedsDirectly(groups, a, b) => <<a, b>> \in edges
  BY DEF GdagComplete, FeedsDirectly, Alive, TypeOK

(* A step of the common shape preserves the invariant.                     *)
LEMMA EditKeepsConsistent ==
  ASSUME Consistent, NEW affected, Maintained(affected),
         \/ edges' = UpdateEdges(edges, groups', index', affected)
         \/ edges' = UpdateEdges(BuildEdges(groups', index'), groups', index', affected)
         \/ edges' = BuildEdges(groups', index')
  PROVE  Consistent' /\ (AllHeld => AllHeld')
  <1> USE DEF Maintained
  <1>1. /\ edges \subseteq BuildEdges(groups, index)
        /\ edges \subseteq Slots \X Slots
        /\ \A a, b \in Slots : FeedsDirectly(groups, a, b) => <<a, b>> \in edges
    BY GdagCompleteDirect DEF Consistent, GdagSound, TypeOK
  <1>2. ASSUME NEW a \in Slots \ affected, NEW b \in Slots \ affected
        PROVE  /\ <<a, b>> \in edges => <<a, b>> \in BuildEdges(groups', index')
               /\ FeedsDirectly(groups', a, b) => <<a, b>> \in edges
    <2>1. groups'[a] = groups[a] /\ groups'[b] = groups[b]
      OBVIOUS
    <2>2. \A o \in Ops : Consumers(o) \subseteq Ops /\ Producers(o) \subseteq Ops
      BY DEF Consumers, Producers
    <2>3. groups[a] \subseteq Ops /\ groups[b] \subseteq Ops
      BY DEF Consistent, TypeOK
    <2>4. \A o \in Ops : index'[o][b] > 0 <=> index[o][b] > 0
      BY <2>1 DEF Consistent, IndexCurrent, GroupsOf
    <2>5. \A o \in Ops : index'[o][a] > 0 <=> index[o][a] > 0
      BY <2>1 DEF Consistent, IndexCurrent, GroupsOf
    <2>6. OutEdge(groups, index, a, b) <=> OutEdge(groups', index', a, b)
      <3>1. \A p \in groups[a] : Consumers(p) \ groups[a] \subseteq Ops
        BY <2>2, <2>3
      <3> QED BY ONLY <2>1, <2>4, <3>1 DEF OutEdge
    <2>7. InEdge(groups, index, a, b) <=> InEdge(groups', index', a, b)
      <3>1. \A c \in groups[b] : Producers(c) \ groups[b] \subseteq Ops
        BY <2>2, <2>3
      <3> QED BY ONLY <2>1, <2>5, <3>1 DEF InEdge
    <2>8. <<a, b>> \in edges => <<a, b>> \in BuildEdges(groups', index')
      BY <1>1, <2>6, <2>7, BuildMembers
    <2>9. FeedsDirectly(groups', a, b) => FeedsDirectly(groups, a, b)
      BY <2>1 DEF FeedsDirectly
    <2> QED BY <1>1, <2>8, <2>9
  <1>3. /\ edges' \subseteq BuildEdges(groups', index')
        /\ \A a, b \in Slots : FeedsDirectly(groups', a, b) => <<a, b>> \in edges'
    <2>1. CASE edges' = UpdateEdges(edges, groups', index', affected)
      BY <1>1, <1>2, <2>1, UpdateIsRight
    <2>2. CASE edges' = UpdateEdges(BuildEdges(groups', index'), groups', index', affected)
      <3>1. BuildEdges(groups', index') \subseteq Slots \X Slots
        BY BuildMembers
      <3>2. \A a, b \in Slots : FeedsDirectly(groups', a, b) => <<a, b>> \in BuildEdges(groups', index')
        BY DirectIsEdge, BuildMembers
      <3> QED BY <2>2, <3>1, <3>2, UpdateIsRight
    <2>3. CASE edges' = BuildEdges(groups', index')
      BY <2>3, DirectIsEdge, BuildMembers
    <2> QED BY <2>1, <2>2, <2>3
  <1>4. TypeOK'
    <2>1. edges' \subseteq Slots \X Slots BY <1>3, BuildMembers
    <2> QED BY <2>1 DEF Consistent, TypeOK
  <1>5. IndexCurrent'
    BY DEF IndexCurrent, GroupsOf
  <1>6. AllHeld => AllHeld'
    BY DEF AllHeld
  <1>7. GdagSound'
    <2>1. BuildEdges(groups, index)' = BuildEdges(groups', index')
      BY DEF BuildEdges, EdgesFor, Consumers, Producers
    <2> QED BY <1>3, <2>1 DEF GdagSound
  <1>8. GdagComplete'
    BY <1>3 DEF GdagComplete, FeedsDirectly, Alive, Consumers
  <1> QED BY <1>4, <1>5, <1>6, <1>7, <1>8 DEF Consistent

LEMMA EditKeepsInv ==
  ASSUME Inv, NEW affected, Maintained(affected),
         \/ edges' = UpdateEdges(edges, groups', index', affected)
         \/ edges' = UpdateEdges(BuildEdges(groups', index'), groups', index', affected)
         \/ edges' = BuildEdges(groups', index')
  PROVE  Inv'
  BY EditKeepsConsistent DEF Inv

-----------------------------------------------------------------------------
(* The common shape of the moves *)

LEMMA IndexAppendLists ==
  ASSUME Consistent, NEW pieces, \A x \in pieces : x[2] \in SUBSET Ops, NEW q \in Layouts(pieces)
  PROVE  /\ IndexAppend(index, q) \in [Ops -> [Slots -> Nat]]
         /\ \A o \in Ops, g \in Slots : IndexAppend(index, q)[o][g] > 0 <=>
              \/ g \in Appended(q) /\ o \in q[g - ngroups][2]
              \/ o \in groups[g]
  <1>1. \A o \in Ops, g \in Slots : index[o][g] \in Nat /\ (index[o][g] > 0 <=> o \in groups[g])
    BY DEF Consistent, TypeOK, IndexCurrent, GroupsOf
  <1> QED BY <1>1 DEF IndexAppend, Appended

(* Groups G are cut down or enlarged to `kept`, the pieces are appended,   *)
(* the index says so, and no op is left behind.                            *)
Move(G, kept, pieces, q) ==
  /\ G \subseteq Alive
  /\ kept \in [G -> SUBSET Ops]
  /\ \A x \in pieces : x[2] \in SUBSET Ops
  /\ q \in Layouts(pieces)
  /\ prob' = prob
  /\ groups' = NewTable(kept, q)
  /\ ngroups' = ngroups + Len(q)
  /\ index' \in [Ops -> [Slots -> Nat]]
  /\ \A o \in Ops, g \in G : index'[o][g] > 0 <=> o \in kept[g]
  /\ \A o \in Ops, g \in Slots \ G :
       index'[o][g] > 0 <=> IndexAppend(index, q)[o][g] > 0
  /\ \A g \in Slots : \A o \in groups[g] : \/ \E h \in Slots \ G : o \in groups[h]
                                          \/ \E h \in G : o \in kept[h]
                                          \/ \E x \in pieces : o \in x[2]

LEMMA MoveIsEdit ==
  ASSUME Consistent, NEW G, NEW kept, NEW pieces, NEW q, Move(G, kept, pieces, q)
  PROVE  Maintained(G \cup Appended(q))
  <1> USE DEF Move
  <1>1. TypeOK BY DEF Consistent
  <1>2. PICK n \in 0..(MaxGroups - ngroups) :
           /\ q \in [1..n -> pieces]
           /\ Len(q) = n
           /\ Appended(q) = (ngroups + 1)..(ngroups + n)
           /\ ngroups + n \in 0..MaxGroups
           /\ \A x \in pieces : \E g \in Appended(q) : q[g - ngroups] = x
           /\ \A g \in Slots : g \in Appended(q) <=> g - ngroups \in DOMAIN q
    BY <1>1, AppendedSlots
  <1>3. /\ ngroups \in 0..MaxGroups
        /\ MaxGroups \in Nat
        /\ groups \in [Slots -> SUBSET Ops]
        /\ \A g \in Slots : g > ngroups => groups[g] = {}
    BY <1>1, MaxGroupsAssumption DEF TypeOK
  <1>4. Appended(q) \subseteq Slots /\ G \subseteq Slots
    BY <1>2, <1>3 DEF Appended, Alive
  <1>5. G \cap Appended(q) = {} /\ \A g \in Appended(q) : groups[g] = {}
    BY <1>2, <1>3 DEF Alive, Slots
  <1>6. \A g \in Appended(q) : q[g - ngroups][2] \in SUBSET Ops
    BY <1>2, <1>4
  <1>7. \A g \in Slots :
          groups'[g] = IF g \in G THEN kept[g]
                       ELSE IF g \in Appended(q) THEN q[g - ngroups][2] ELSE groups[g]
    BY <1>2, <1>4 DEF NewTable
  <1>8. groups' \in [Slots -> SUBSET Ops]
    <2>1. groups' = [g \in Slots |-> groups'[g]]
      BY DEF NewTable
    <2>2. \A g \in Slots : groups'[g] \in SUBSET Ops
      BY <1>3, <1>6, <1>7
    <2> QED BY <2>1, <2>2
  <1>9. ngroups' = ngroups + n /\ ngroups' \in 0..MaxGroups
    BY <1>2
  <1>10. ASSUME NEW g \in Slots, g > ngroups' PROVE groups'[g] = {}
    <2>1. g > ngroups /\ g \notin Appended(q)
      BY <1>2, <1>3, <1>9, <1>10 DEF Slots
    <2>2. groups[g] = {} /\ g \notin G
      BY <1>3, <2>1 DEF Alive
    <2> QED BY <1>7, <2>1, <2>2
  <1>11. ASSUME NEW o \in Ops, NEW g \in Slots
         PROVE  index'[o][g] > 0 <=> o \in groups'[g]
    <2>1. CASE g \in G
      BY <1>7, <2>1
    <2>2. CASE g \notin G
      <3>1. index'[o][g] > 0 <=> (g \in Appended(q) /\ o \in q[g - ngroups][2]) \/ o \in groups[g]
        BY <2>2, IndexAppendLists
      <3> QED BY <1>5, <1>7, <2>2, <3>1
    <2> QED BY <2>1, <2>2
  <1>12. ASSUME NEW o \in Ops, \E g \in Slots : o \in groups[g]
         PROVE  \E g \in Slots : o \in groups'[g]
    <2>1. CASE \E g \in Slots \ G : o \in groups[g]
      BY <1>5, <1>7, <2>1
    <2>2. CASE \E g \in G : o \in kept[g]
      BY <1>4, <1>7, <2>2
    <2>3. CASE \E x \in pieces : o \in x[2]
      <3>1. PICK g \in Appended(q) : o \in q[g - ngroups][2] BY <1>2, <2>3
      <3> QED BY <1>4, <1>5, <1>7, <3>1
    <2> QED BY <1>12, <2>1, <2>2, <2>3
  <1> QED BY <1>4, <1>7, <1>8, <1>9, <1>10, <1>11, <1>12 DEF Maintained

(* Such a move, with the group graph brought up to date.  Every op of the  *)
(* groups it edits is in them or in the appended ones afterwards, but for  *)
(* op, whose move it is and which another group may hold.                  *)
Shifts(op, G) ==
  \E kept, pieces, q :
    /\ Move(G, kept, pieces, q)
    /\ \/ edges' = UpdateEdges(edges, groups', index', G \cup Appended(q))
       \/ edges' = UpdateEdges(BuildEdges(groups', index'), groups', index', G \cup Appended(q))
    /\ \A g \in G : \A o \in groups[g] \ {op} :
         (\E h \in G : o \in kept[h]) \/ \E x \in pieces : o \in x[2]

LEMMA ShiftKeepsConsistent ==
  ASSUME Consistent, NEW op, NEW G, Shifts(op, G)
  PROVE  Consistent' /\ (AllHeld => AllHeld')
  <1>1. PICK kept, pieces, q :
          /\ Move(G, kept, pieces, q)
          /\ \/ edges' = UpdateEdges(edges, groups', index', G \cup Appended(q))
             \/ edges' = UpdateEdges(BuildEdges(groups', index'), groups', index', G \cup Appended(q))
    BY DEF Shifts
  <1>2. Maintained(G \cup Appended(q))
    BY <1>1, MoveIsEdit
  <1> QED BY <1>1, <1>2, EditKeepsConsistent

LEMMA ShiftKeepsInv ==
  ASSUME Inv, NEW op, NEW G, Shifts(op, G)
  PROVE  Inv'
  BY ShiftKeepsConsistent DEF Inv

(* The index after a group was cut down. *)
LEMMA ShrunkIndexLists ==
  ASSUME Consistent, NEW ga \in Alive, NEW stay \in SUBSET groups[ga],
         NEW pieces, \A x \in pieces : x[2] \in SUBSET Ops, NEW q \in Layouts(pieces)
  PROVE  /\ ShrunkIndex(q, ga, stay) \in [Ops -> [Slots -> Nat]]
         /\ \A o \in Ops : ShrunkIndex(q, ga, stay)[o][ga] > 0 <=> o \in stay
         /\ \A o \in Ops, g \in Slots \ {ga} :
              ShrunkIndex(q, ga, stay)[o][g] > 0 <=> IndexAppend(index, q)[o][g] > 0
  <1> DEFINE appended == IndexAppend(index, q)
             removed  == IndexRemove(appended, groups[ga], ga)
  <1>1. appended \in [Ops -> [Slots -> Nat]]
    BY IndexAppendLists
  <1>2. ga \in Slots /\ groups[ga] \subseteq Ops /\ ga \notin Appended(q)
    <2>1. TypeOK BY DEF Consistent
    <2>2. \A g \in Appended(q) : groups[g] = {}
      <3>1. \A g \in Appended(q) : g > ngroups /\ g \in Slots
        BY <2>1, AppendedSlots, MaxGroupsAssumption DEF TypeOK, Slots, Appended
      <3> QED BY <2>1, <3>1 DEF TypeOK
    <2> QED BY <2>1, <2>2 DEF Alive, TypeOK
  <1>3. \A o \in Ops : appended[o][ga] > 0 <=> o \in groups[ga]
    BY <1>2, IndexAppendLists
  <1> HIDE DEF appended
  <1>4. /\ removed \in [Ops -> [Slots -> Nat]]
        /\ \A o \in Ops : removed[o][ga] = 0
        /\ \A o \in Ops, g \in Slots \ {ga} : removed[o][g] = appended[o][g]
    <2>1. \A o \in Ops : appended[o] \in [Slots -> Nat] /\ appended[o][ga] \in Nat
      BY <1>1, <1>2
    <2>2. \A o \in Ops : removed[o] = IF o \in groups[ga] THEN [appended[o] EXCEPT ![ga] = 0]
                                      ELSE appended[o]
      BY DEF IndexRemove
    <2>3. ASSUME NEW o \in Ops
          PROVE  removed[o] \in [Slots -> Nat] /\ removed[o][ga] = 0
      <3>1. CASE o \in groups[ga]
        <4>1. removed[o] = [appended[o] EXCEPT ![ga] = 0] BY <2>2, <3>1
        <4> QED BY <1>2, <2>1, <4>1
      <3>2. CASE o \notin groups[ga]
        <4>1. removed[o] = appended[o] BY <2>2, <3>2
        <4>2. ~(appended[o][ga] > 0) /\ appended[o][ga] \in Nat BY <1>3, <2>1, <3>2
        <4>3. appended[o][ga] = 0 BY <4>2
        <4> QED BY <2>1, <4>1, <4>3
      <3> QED BY <3>1, <3>2
    <2>4. removed \in [Ops -> [Slots -> Nat]]
      BY <2>3 DEF IndexRemove
    <2>5. \A o \in Ops : removed[o][ga] = 0
      BY <2>3
    <2>6. \A o \in Ops, g \in Slots \ {ga} : removed[o][g] = appended[o][g]
      BY <2>1, <2>2
    <2> QED BY <2>4, <2>5, <2>6
  <1> HIDE DEF removed
  <1>5. ShrunkIndex(q, ga, stay) = IndexAdd(removed, stay, ga)
    BY DEF ShrunkIndex, removed, appended
  <1>6. /\ IndexAdd(removed, stay, ga) \in [Ops -> [Slots -> Nat]]
        /\ \A o \in Ops : IndexAdd(removed, stay, ga)[o][ga] > 0 <=> o \in stay
        /\ \A o \in Ops, g \in Slots \ {ga} : IndexAdd(removed, stay, ga)[o][g] = appended[o][g]
    BY <1>2, <1>4 DEF IndexAdd
  <1> QED BY <1>5, <1>6 DEF appended

(* One group ga is cut down by an op; the rest of it stays, in pieces.     *)
LEMMA CutShifts ==
  ASSUME Consistent, NEW op \in Ops, NEW ga \in Alive,
         NEW rest, rest = groups[ga] \ {op},
         NEW alone, \A x \in alone : x[2] \in SUBSET Ops,
         \/ \E h \in Alive \ {ga} : op \in groups[h]
         \/ \E x \in alone : op \in x[2],
         NEW q \in Layouts(Leftover(ga, rest) \cup alone),
         Commit(NewTable([g \in {ga} |-> FirstComponent(rest)], q),
                ShrunkIndex(q, ga, FirstComponent(rest)), q, {ga} \cup Appended(q))
  PROVE  Shifts(op, {ga})
  <1> DEFINE stay   == FirstComponent(rest)
             pieces == Leftover(ga, rest) \cup alone
             kept   == [g \in {ga} |-> stay]
  <1>1. ga \in Slots /\ groups \in [Slots -> SUBSET Ops] /\ rest \in SUBSET Ops
    BY DEF Consistent, TypeOK, Alive
  <1>2. /\ \A x \in Leftover(ga, rest) : x[2] \in SUBSET Ops
        /\ \A o \in rest : o \in stay \/ \E x \in Leftover(ga, rest) : o \in x[2]
        /\ stay \subseteq rest
    <2>1. /\ \A x \in Leftover(ga, rest) : x[2] \in SUBSET rest
          /\ \A o \in rest : \/ o \in FirstComponent(rest)
                             \/ \E x \in Leftover(ga, rest) : o \in x[2]
      BY ONLY <1>1, LeftoverCovers
    <2>2. FirstComponent(rest) \subseteq rest
      BY ONLY <1>1, FirstInside
    <2> QED BY <1>1, <2>1, <2>2
  <1>3. \A x \in pieces : x[2] \in SUBSET Ops
    BY <1>2
  <1>4. kept \in [{ga} -> SUBSET Ops] /\ stay \in SUBSET groups[ga] /\ kept[ga] = stay
    BY <1>1, <1>2
  <1>5. ASSUME NEW g \in Slots, NEW o \in groups[g]
        PROVE  \/ \E h \in Slots \ {ga} : o \in groups[h]
               \/ \E h \in {ga} : o \in kept[h]
               \/ \E x \in pieces : o \in x[2]
    <2>2. CASE g # ga BY <2>2
    <2>3. CASE o = op BY <2>3 DEF Alive
    <2>4. CASE g = ga /\ o # op
      <3>1. o \in rest BY <2>4
      <3> QED BY <1>2, <1>4, <3>1
    <2> QED BY <2>2, <2>3, <2>4
  <1>6. q \in Layouts(pieces)
    OBVIOUS
  <1>11. ASSUME NEW g \in {ga}, NEW o \in groups[g] \ {op}
         PROVE  (\E h \in {ga} : o \in kept[h]) \/ \E x \in pieces : o \in x[2]
    <2>1. o \in rest OBVIOUS
    <2> QED BY <1>2, <1>4, <2>1
  <1> HIDE DEF pieces, stay
  <1>7. /\ ShrunkIndex(q, ga, stay) \in [Ops -> [Slots -> Nat]]
        /\ \A o \in Ops : ShrunkIndex(q, ga, stay)[o][ga] > 0 <=> o \in stay
        /\ \A o \in Ops, g \in Slots \ {ga} :
             ShrunkIndex(q, ga, stay)[o][g] > 0 <=> IndexAppend(index, q)[o][g] > 0
    BY <1>3, <1>4, <1>6, ShrunkIndexLists
  <1>8. /\ prob' = prob /\ groups' = NewTable(kept, q) /\ ngroups' = ngroups + Len(q)
        /\ index' = ShrunkIndex(q, ga, stay)
        /\ edges' = UpdateEdges(edges, groups', index', {ga} \cup Appended(q))
    BY DEF Commit, stay
  <1>9. /\ \A o \in Ops, g \in {ga} : index'[o][g] > 0 <=> o \in kept[g]
        /\ \A o \in Ops, g \in Slots \ {ga} : index'[o][g] > 0 <=> IndexAppend(index, q)[o][g] > 0
    BY <1>4, <1>7, <1>8
  <1> HIDE DEF kept
  <1>10. Move({ga}, kept, pieces, q)
    BY <1>3, <1>4, <1>5, <1>6, <1>7, <1>8, <1>9 DEF Move
  <1> QED BY <1>8, <1>10, <1>11 DEF Shifts

LEMMA HoldersAreLive ==
  ASSUME Consistent, NEW o \in Ops
  PROVE  /\ GroupsOf(o) = {g \in Slots : o \in groups[g]}
         /\ GroupsOf(o) \subseteq Alive
         /\ Holders(o) = GroupsOf(o)
  BY DEF Consistent, IndexCurrent, Alive, Holders, GroupsOf

LEMMA DeRecomputeShifts ==
  ASSUME Consistent, NEW op \in Ops, NEW ga \in Slots, NEW h \in Slots \ {ga}, op \in groups[h],
         ApplyDeRecompute(op, ga)
  PROVE  Shifts(op, {ga})
  <1>1. ga \in Alive /\ \E k \in Alive \ {ga} : op \in groups[k]
    BY DEF ApplyDeRecompute, DeRecomputeApplies, Alive
  <1>2. PICK rest, alone : rest = groups[ga] \ {op} /\ alone = {}
    OBVIOUS
  <1>3. PICK q \in Layouts(Leftover(ga, rest) \cup alone) :
          Commit(NewTable([g \in {ga} |-> FirstComponent(rest)], q),
                 ShrunkIndex(q, ga, FirstComponent(rest)), q, {ga} \cup Appended(q))
    <2>1. Leftover(ga, rest) \cup alone = Leftover(ga, rest)
      BY <1>2
    <2> QED BY <1>2, <2>1 DEF ApplyDeRecompute
  <1>4. Consistent /\ op \in Ops /\ rest = groups[ga] \ {op} /\ \A x \in alone : x[2] \in SUBSET Ops
    BY <1>2
  <1> QED BY ONLY <1>1, <1>3, <1>4, CutShifts

LEMMA EjectShifts ==
  ASSUME Consistent, NEW op \in Ops, NEW ga \in Slots, ApplyEject(op, ga)
  PROVE  Shifts(op, {ga})
  <1>1. ga \in Alive
    BY DEF ApplyEject, EjectApplies, EjectFeasible, Alive
  <1>2. PICK rest : rest = groups[ga] \ {op}
    OBVIOUS
  <1>3. PICK alone :
          alone = IF GroupsOf(op) \ {ga} # {} THEN {} ELSE {<<Rank(0), {op}>>}
    OBVIOUS
  <1>4. PICK q \in Layouts(Leftover(ga, rest) \cup alone) :
          Commit(NewTable([g \in {ga} |-> FirstComponent(rest)], q),
                 ShrunkIndex(q, ga, FirstComponent(rest)), q, {ga} \cup Appended(q))
    BY <1>2, <1>3 DEF ApplyEject
  <1>5. \A x \in alone : x[2] \in SUBSET Ops
    BY <1>3
  <1>6. \/ \E h \in Alive \ {ga} : op \in groups[h]
        \/ \E x \in alone : op \in x[2]
    BY <1>3, HoldersAreLive
  <1> QED BY <1>1, <1>2, <1>4, <1>5, <1>6, CutShifts

(* Appended slots were not in use. *)
LEMMA AppendedAreFresh ==
  ASSUME Consistent, NEW pieces, \A x \in pieces : x[2] \in SUBSET Ops, NEW q \in Layouts(pieces),
         NEW g \in Alive
  PROVE  /\ g \notin Appended(q)
         /\ \A o \in Ops : IndexAppend(index, q)[o][g] > 0 <=> o \in groups[g]
  <1>1. TypeOK BY DEF Consistent
  <1>3. ngroups \in Nat /\ g \in Slots /\ g \in Nat /\ groups[g] # {} /\ ~(g > ngroups)
    BY <1>1, MaxGroupsAssumption DEF TypeOK, Slots, Alive
  <1>4. PICK n \in 0..(MaxGroups - ngroups) : Appended(q) = (ngroups + 1)..(ngroups + n)
    BY <1>1, AppendedSlots
  <1>2. g \notin Appended(q)
    BY <1>3, <1>4
  <1> QED BY <1>2, IndexAppendLists DEF Alive

LEMMA SplitShifts ==
  ASSUME Consistent, NEW op \in Ops, NEW v, NEW ga \in Slots, ApplySplit(op, v, ga)
  PROVE  Shifts(op, {ga})
  <1>3. PICK stay : stay = SideOf(groups[ga], op, v)
    OBVIOUS
  <1>4. PICK moved : moved = groups[ga] \ stay
    OBVIOUS
  <1> DEFINE pieces == {<<Rank(0), moved>>}
             kept   == [g \in {ga} |-> stay]
  <1>5. PICK q \in Layouts(pieces) :
          Commit(NewTable(kept, q), IndexRemove(IndexAppend(index, q), moved, ga),
                 q, {ga} \cup Appended(q))
    BY <1>3, <1>4 DEF ApplySplit
  <1>6. ga \in Alive /\ ga \in Slots /\ groups[ga] \subseteq Ops
    BY DEF ApplySplit, SplitApplies, SplitFeasible, IsBridge, Alive, Consistent, TypeOK
  <1>7. stay \subseteq groups[ga] /\ moved \subseteq Ops
    BY <1>3, <1>4, <1>6 DEF SideOf
  <1>8. \A x \in pieces : x[2] \in SUBSET Ops
    BY <1>7
  <1>9. kept \in [{ga} -> SUBSET Ops] /\ kept[ga] = stay
    BY <1>6, <1>7
  <1>10. ASSUME NEW g \in Slots, NEW o \in groups[g]
         PROVE  \/ \E h \in Slots \ {ga} : o \in groups[h]
                \/ \E h \in {ga} : o \in kept[h]
                \/ \E x \in pieces : o \in x[2]
    <2>2. CASE g # ga BY <2>2
    <2>3. CASE g = ga /\ o \in stay BY <1>9, <2>3
    <2>4. CASE g = ga /\ o \notin stay
      <3>1. o \in moved BY <1>4, <2>4
      <3> QED BY <3>1
    <2> QED BY <2>2, <2>3, <2>4
  <1>16. ASSUME NEW g \in {ga}, NEW o \in groups[g] \ {op}
         PROVE  (\E h \in {ga} : o \in kept[h]) \/ \E x \in pieces : o \in x[2]
    BY <1>4, <1>9
  <1>11. /\ IndexAppend(index, q) \in [Ops -> [Slots -> Nat]]
         /\ \A o \in Ops : IndexAppend(index, q)[o][ga] > 0 <=> o \in groups[ga]
    BY <1>5, <1>6, <1>8, IndexAppendLists, AppendedAreFresh
  <1>12. /\ prob' = prob /\ groups' = NewTable(kept, q) /\ ngroups' = ngroups + Len(q)
         /\ index' = IndexRemove(IndexAppend(index, q), moved, ga)
         /\ edges' = UpdateEdges(edges, groups', index', {ga} \cup Appended(q))
    BY <1>5 DEF Commit
  <1>13. /\ index' \in [Ops -> [Slots -> Nat]]
         /\ \A o \in Ops : index'[o][ga] > 0 <=> o \in stay
         /\ \A o \in Ops, g \in Slots \ {ga} : index'[o][g] > 0 <=> IndexAppend(index, q)[o][g] > 0
    <2>1. PICK ix : ix = IndexAppend(index, q)
      OBVIOUS
    <2>2. index' = [o \in Ops |-> IF o \in moved THEN [ix[o] EXCEPT ![ga] = 0] ELSE ix[o]]
      BY <1>12, <2>1 DEF IndexRemove
    <2>3. ASSUME NEW o \in Ops
          PROVE  /\ index'[o] \in [Slots -> Nat]
                 /\ index'[o][ga] > 0 <=> o \in stay
                 /\ \A g \in Slots \ {ga} : index'[o][g] > 0 <=> ix[o][g] > 0
      <3>1. ix[o] \in [Slots -> Nat] /\ (ix[o][ga] > 0 <=> o \in groups[ga])
        BY <1>11, <2>1
      <3>2. CASE o \in moved
        <4>1. index'[o] = [ix[o] EXCEPT ![ga] = 0] BY <2>2, <3>2
        <4> QED BY <1>4, <1>6, <3>1, <3>2, <4>1
      <3>3. CASE o \notin moved
        <4>1. index'[o] = ix[o] BY <2>2, <3>3
        <4>2. o \in groups[ga] <=> o \in stay BY <1>4, <1>7, <3>3
        <4> QED BY <3>1, <4>1, <4>2
      <3> QED BY <3>2, <3>3
    <2>4. index' \in [Ops -> [Slots -> Nat]]
      BY <2>2, <2>3
    <2> QED BY <2>1, <2>3, <2>4
  <1>14. \A o \in Ops, g \in {ga} : index'[o][g] > 0 <=> o \in kept[g]
    BY <1>9, <1>13
  <1> HIDE DEF pieces, kept
  <1>15. Move({ga}, kept, pieces, q)
    BY <1>5, <1>6, <1>8, <1>9, <1>10, <1>12, <1>13, <1>14 DEF Move
  <1> QED BY <1>12, <1>15, <1>16 DEF Shifts

LEMMA StealShifts ==
  ASSUME Consistent, NEW op \in Ops, NEW from \in Slots, NEW to \in Slots, from # to,
         ApplySteal(op, from, to)
  PROVE  Shifts(op, {from, to})
  <1>3. PICK rest : rest = groups[from] \ {op}
    OBVIOUS
  <1>4. PICK stay : stay = FirstComponent(rest)
    OBVIOUS
  <1> DEFINE pieces == Leftover(from, rest)
             kept   == [g \in {from, to} |-> IF g = to THEN groups[to] \cup {op} ELSE stay]
  <1>5. PICK q \in Layouts(pieces) :
          Commit(NewTable(kept, q), IndexAdd(ShrunkIndex(q, from, stay), {op}, to),
                 q, {from, to} \cup Appended(q))
    BY <1>3, <1>4 DEF ApplySteal
  <1>6. /\ {from, to} \subseteq Alive /\ {from, to} \subseteq Slots
        /\ groups[from] \subseteq Ops /\ groups[to] \subseteq Ops
    BY DEF ApplySteal, StealApplies, Alive, Consistent, TypeOK
  <1>7. rest \in SUBSET Ops
    BY <1>3, <1>6
  <1>8. /\ \A x \in pieces : x[2] \in SUBSET Ops
        /\ \A o \in rest : o \in stay \/ \E x \in pieces : o \in x[2]
        /\ stay \in SUBSET groups[from]
    <2>1. /\ \A x \in Leftover(from, rest) : x[2] \in SUBSET rest
          /\ \A o \in rest : \/ o \in FirstComponent(rest)
                             \/ \E x \in Leftover(from, rest) : o \in x[2]
      BY ONLY <1>7, LeftoverCovers
    <2>2. FirstComponent(rest) \subseteq rest
      BY ONLY <1>7, FirstInside
    <2> QED BY <1>3, <1>4, <1>7, <2>1, <2>2
  <1>9. /\ kept \in [{from, to} -> SUBSET Ops]
        /\ kept[from] = stay /\ kept[to] = groups[to] \cup {op}
    BY <1>6, <1>8
  <1>10. ASSUME NEW g \in Slots, NEW o \in groups[g]
         PROVE  \/ \E h \in Slots \ {from, to} : o \in groups[h]
                \/ \E h \in {from, to} : o \in kept[h]
                \/ \E x \in pieces : o \in x[2]
    <2>2. CASE g \notin {from, to} BY <2>2
    <2>3. CASE g = to \/ o = op BY <1>9, <2>3
    <2>4. CASE g = from /\ o # op
      <3>1. o \in rest BY <1>3, <2>4
      <3> QED BY <1>8, <1>9, <3>1
    <2> QED BY <2>2, <2>3, <2>4
  <1>11. /\ prob' = prob /\ groups' = NewTable(kept, q) /\ ngroups' = ngroups + Len(q)
         /\ index' = IndexAdd(ShrunkIndex(q, from, stay), {op}, to)
         /\ edges' = UpdateEdges(edges, groups', index', {from, to} \cup Appended(q))
    BY <1>5 DEF Commit
  <1>15. ASSUME NEW g \in {from, to}, NEW o \in groups[g] \ {op}
         PROVE  (\E h \in {from, to} : o \in kept[h]) \/ \E x \in pieces : o \in x[2]
    <2>1. g = from => o \in rest
      BY <1>3
    <2> QED BY <1>8, <1>9, <2>1
  <1> HIDE DEF pieces, kept
  <1>12. /\ index' \in [Ops -> [Slots -> Nat]]
         /\ \A o \in Ops : index'[o][from] > 0 <=> o \in stay
         /\ \A o \in Ops : index'[o][to] > 0 <=> o \in groups[to] \cup {op}
         /\ \A o \in Ops, g \in Slots \ {from, to} :
              index'[o][g] > 0 <=> IndexAppend(index, q)[o][g] > 0
    <2>1. PICK ix : ix = ShrunkIndex(q, from, stay)
      OBVIOUS
    <2>2. /\ ix \in [Ops -> [Slots -> Nat]]
          /\ \A o \in Ops : ix[o][from] > 0 <=> o \in stay
          /\ \A o \in Ops, g \in Slots \ {from} : ix[o][g] > 0 <=> IndexAppend(index, q)[o][g] > 0
      BY <1>5, <1>6, <1>8, <2>1, ShrunkIndexLists
    <2>3. \A o \in Ops : ix[o][to] > 0 <=> o \in groups[to]
      BY <1>5, <1>6, <1>8, <2>2, AppendedAreFresh
    <2>4. index' = [o \in Ops |-> IF o \in {op} THEN [ix[o] EXCEPT ![to] = @ + 1] ELSE ix[o]]
      BY <1>11, <2>1 DEF IndexAdd
    <2> QED BY ONLY from # to, op \in Ops, <1>6, <2>2, <2>3, <2>4
  <1>13. \A o \in Ops, g \in {from, to} : index'[o][g] > 0 <=> o \in kept[g]
    BY <1>9, <1>12
  <1>14. Move({from, to}, kept, pieces, q)
    BY <1>5, <1>6, <1>8, <1>9, <1>10, <1>11, <1>12, <1>13 DEF Move
  <1> QED BY <1>11, <1>14, <1>15 DEF Shifts

-----------------------------------------------------------------------------
(* Moves that append nothing *)

LEMMA EmptyLayout ==
  ASSUME Consistent
  PROVE  /\ <<>> \in Layouts({})
         /\ Appended(<<>>) = {}
         /\ \A o \in Ops, g \in Slots : IndexAppend(index, <<>>)[o][g] = index[o][g]
  <1>1. ngroups \in 0..MaxGroups /\ MaxGroups \in Nat
    BY MaxGroupsAssumption DEF Consistent, TypeOK
  <1>2. <<>> \in [1..0 -> {}] /\ 0 \in 0..(MaxGroups - ngroups)
    BY <1>1
  <1>3. DOMAIN <<>> = {}
    BY <1>2
  <1>4. <<>> \in Layouts({})
    BY <1>2, <1>3 DEF Layouts
  <1> QED BY <1>3, <1>4 DEF Appended, IndexAppend

(* The groups G become `kept`, which loses none of their ops.              *)
PlainEdit(G, kept, ix) ==
  /\ G \subseteq Alive
  /\ kept \in [G -> SUBSET Ops]
  /\ ix \in [Ops -> [Slots -> Nat]]
  /\ Commit(NewTable(kept, <<>>), ix, <<>>, G)
  /\ \A o \in Ops, g \in G : ix[o][g] > 0 <=> o \in kept[g]
  /\ \A o \in Ops, g \in Slots \ G : ix[o][g] = index[o][g]
  /\ \A g \in G : \A o \in groups[g] : \E h \in G : o \in kept[h]

LEMMA PlainEditShifts ==
  ASSUME Consistent, NEW op, NEW G, NEW kept, NEW ix, PlainEdit(G, kept, ix)
  PROVE  Shifts(op, G)
  <1> USE DEF PlainEdit
  <1>1. /\ prob' = prob /\ groups' = NewTable(kept, <<>>) /\ ngroups' = ngroups + Len(<<>>)
        /\ index' = ix
        /\ edges' = UpdateEdges(edges, groups', index', G)
    BY DEF Commit
  <1>2. PICK pieces : pieces = {}
    OBVIOUS
  <1>3. PICK q : q = <<>>
    OBVIOUS
  <1>4. /\ q \in Layouts(pieces) /\ Appended(q) = {}
        /\ \A o \in Ops, g \in Slots : IndexAppend(index, q)[o][g] = index[o][g]
    BY <1>2, <1>3, EmptyLayout
  <1>5. \A o \in Ops, g \in Slots \ G : index'[o][g] > 0 <=> IndexAppend(index, q)[o][g] > 0
    BY <1>1, <1>4
  <1>6. ASSUME NEW g \in Slots, NEW o \in groups[g]
        PROVE  \/ \E h \in Slots \ G : o \in groups[h]
               \/ \E h \in G : o \in kept[h]
               \/ \E x \in pieces : o \in x[2]
    OBVIOUS
  <1>7. \A x \in pieces : x[2] \in SUBSET Ops
    BY <1>2
  <1>8. Move(G, kept, pieces, q)
    <2>1. groups' = NewTable(kept, q) /\ ngroups' = ngroups + Len(q)
      BY <1>1, <1>3
    <2>2. index' \in [Ops -> [Slots -> Nat]] /\ \A o \in Ops, g \in G : index'[o][g] > 0 <=> o \in kept[g]
      BY <1>1
    <2> QED BY <1>1, <1>4, <1>5, <1>6, <1>7, <2>1, <2>2 DEF Move
  <1>9. G \cup Appended(q) = G
    BY <1>4
  <1> QED BY <1>1, <1>8, <1>9 DEF Shifts

LEMMA MergeShifts ==
  ASSUME Consistent, NEW op, NEW ga, NEW gb, ApplyMerge(ga, gb)
  PROVE  Shifts(op, {ga, gb})
  <1> DEFINE kept == [g \in {ga, gb} |-> IF g = ga THEN groups[ga] \cup groups[gb] ELSE {}]
  <1>3. /\ ga # gb /\ {ga, gb} \subseteq Alive /\ {ga, gb} \subseteq Slots
        /\ groups[ga] \subseteq Ops /\ groups[gb] \subseteq Ops
    BY DEF ApplyMerge, MergeApplies, Alive, Consistent, TypeOK
  <1>4. PICK ix : ix = IndexAdd(IndexRemove(index, groups[gb], gb), groups[gb], ga)
    OBVIOUS
  <1>5. Commit(NewTable(kept, <<>>), ix, <<>>, {ga, gb})
    BY <1>4 DEF ApplyMerge
  <1>6. /\ kept \in [{ga, gb} -> SUBSET Ops]
        /\ kept[ga] = groups[ga] \cup groups[gb] /\ kept[gb] = {}
    BY <1>3
  <1>7. /\ ix \in [Ops -> [Slots -> Nat]]
        /\ \A o \in Ops : ix[o][ga] > 0 <=> o \in groups[ga] \cup groups[gb]
        /\ \A o \in Ops : ~(ix[o][gb] > 0)
        /\ \A o \in Ops, g \in Slots \ {ga, gb} : ix[o][g] = index[o][g]
    <2>1. /\ index \in [Ops -> [Slots -> Nat]]
          /\ \A o \in Ops, g \in Slots : index[o][g] > 0 <=> o \in groups[g]
      BY DEF Consistent, TypeOK, IndexCurrent, GroupsOf
    <2>2. ix = [o \in Ops |-> IF o \in groups[gb]
                              THEN [[index[o] EXCEPT ![gb] = 0] EXCEPT ![ga] = @ + 1]
                              ELSE index[o]]
      BY <1>4 DEF IndexAdd, IndexRemove
    <2> QED BY ONLY <1>3, <2>1, <2>2
  <1>8. \A o \in Ops, g \in {ga, gb} : ix[o][g] > 0 <=> o \in kept[g]
    BY <1>6, <1>7
  <1>9. \A g \in {ga, gb} : \A o \in groups[g] : \E h \in {ga, gb} : o \in kept[h]
    BY <1>6
  <1> HIDE DEF kept
  <1>10. PlainEdit({ga, gb}, kept, ix)
    BY <1>3, <1>5, <1>6, <1>7, <1>8, <1>9 DEF PlainEdit
  <1> QED BY <1>10, PlainEditShifts

LEMMA RecomputeShifts ==
  ASSUME Consistent, NEW op \in Ops, NEW into, ApplyRecompute(op, into)
  PROVE  Shifts(op, {into})
  <1> DEFINE kept == [g \in {into} |-> groups[into] \cup {op}]
  <1>3. into \in Alive /\ into \in Slots /\ groups[into] \subseteq Ops
    BY DEF ApplyRecompute, RecomputeApplies, Alive, Consistent, TypeOK
  <1>4. PICK ix : ix = IndexAdd(index, {op}, into)
    OBVIOUS
  <1>5. Commit(NewTable(kept, <<>>), ix, <<>>, {into})
    BY <1>4 DEF ApplyRecompute
  <1>6. kept \in [{into} -> SUBSET Ops] /\ kept[into] = groups[into] \cup {op}
    BY <1>3
  <1>7. /\ ix \in [Ops -> [Slots -> Nat]]
        /\ \A o \in Ops : ix[o][into] > 0 <=> o \in groups[into] \cup {op}
        /\ \A o \in Ops, g \in Slots \ {into} : ix[o][g] = index[o][g]
    <2>1. /\ index \in [Ops -> [Slots -> Nat]]
          /\ \A o \in Ops, g \in Slots : index[o][g] > 0 <=> o \in groups[g]
      BY DEF Consistent, TypeOK, IndexCurrent, GroupsOf
    <2>2. ix = [o \in Ops |-> IF o \in {op} THEN [index[o] EXCEPT ![into] = @ + 1] ELSE index[o]]
      BY <1>4 DEF IndexAdd
    <2> QED BY ONLY <1>3, <2>1, <2>2
  <1>8. \A o \in Ops, g \in {into} : ix[o][g] > 0 <=> o \in kept[g]
    BY <1>6, <1>7
  <1>9. \A g \in {into} : \A o \in groups[g] : \E h \in {into} : o \in kept[h]
    BY <1>6
  <1> HIDE DEF kept
  <1>10. PlainEdit({into}, kept, ix)
    BY <1>3, <1>5, <1>6, <1>7, <1>8, <1>9 DEF PlainEdit
  <1> QED BY <1>10, PlainEditShifts

LEMMA LeastIsMember ==
  ASSUME NEW S \in SUBSET Nat, S # {}
  PROVE  Least(S) \in S
  <1>1. PICK x \in S : \A y \in S : ~(<<y, x>> \in OpToRel(<, Nat))
    BY WFMin, NatLessThanWellFounded
  <1>2. ASSUME NEW y \in S, y < x
        PROVE  FALSE
    <2>1. <<y, x>> \in {ss \in Nat \X Nat : ss[1] < ss[2]} BY <1>2
    <2>2. <<y, x>> \in OpToRel(<, Nat) BY <2>1, Zenon DEF OpToRel
    <2> QED BY <1>1, <2>2
  <1>3. \A y \in S : x <= y
    BY <1>2
  <1> QED BY <1>3 DEF Least

LEMMA NonEmptyCounts ==
  ASSUME NEW S, IsFiniteSet(S), NEW R \in SUBSET S
  PROVE  Cardinality(R) \in Nat /\ (Cardinality(R) > 0 <=> R # {})
  BY FS_Subset, FS_EmptySet, FS_CardinalityType

LEMMA SlotsFinite == IsFiniteSet(Slots) /\ Slots \subseteq Nat
  BY FS_Interval, MaxGroupsAssumption DEF Slots

LEMMA TensorMergeShifts ==
  ASSUME Consistent, NEW op, NEW G, G # {}, ApplyTensorMerge(G)
  PROVE  Shifts(op, G)
  <1>5. G \in SUBSET Alive /\ G \subseteq Slots
    BY DEF ApplyTensorMerge, TensorMergeApplies, Alive
  <1>7. PICK survivor : survivor = Least(G)
    OBVIOUS
  <1>8. survivor \in G
    BY <1>5, <1>7, SlotsFinite, LeastIsMember
  <1>9. PICK killed : killed = G \ {survivor}
    OBVIOUS
  <1>10. PICK kept : kept = [g \in G |-> IF g = survivor THEN Union(G) ELSE {}]
    OBVIOUS
  <1>11. PICK ix : ix = [o \in Ops |-> [g \in Slots |->
                   IF g = survivor
                   THEN index[o][g] + Cardinality({k \in killed : o \in groups[k]})
                   ELSE IF g \in killed /\ o \in groups[g] THEN 0 ELSE index[o][g]]]
    OBVIOUS
  <1>12. Commit(NewTable(kept, <<>>), ix, <<>>, G)
    BY <1>7, <1>9, <1>10, <1>11 DEF ApplyTensorMerge
  <1>13. /\ groups \in [Slots -> SUBSET Ops]
         /\ \A o \in Ops, g \in Slots : index[o][g] \in Nat /\ (index[o][g] > 0 <=> o \in groups[g])
    BY DEF Consistent, TypeOK, IndexCurrent, GroupsOf
  <1>14. kept \in [G -> SUBSET Ops]
    BY <1>5, <1>10, <1>13 DEF Union
  <1>15. \A o \in Ops : LET n == Cardinality({k \in killed : o \in groups[k]})
                        IN  n \in Nat /\ (n > 0 <=> \E k \in killed : o \in groups[k])
    <2>1. ASSUME NEW o \in Ops
          PROVE  LET n == Cardinality({k \in killed : o \in groups[k]})
                 IN  n \in Nat /\ (n > 0 <=> \E k \in killed : o \in groups[k])
      <3>1. PICK R : R = {k \in killed : o \in groups[k]} OBVIOUS
      <3>2. R \in SUBSET Slots BY <1>5, <1>9, <3>1
      <3>3. Cardinality(R) \in Nat /\ (Cardinality(R) > 0 <=> R # {})
        BY <3>2, SlotsFinite, NonEmptyCounts
      <3> QED BY <3>1, <3>3
    <2> QED BY <2>1
  <1>16. /\ ix \in [Ops -> [Slots -> Nat]]
         /\ \A o \in Ops, g \in G : ix[o][g] > 0 <=> o \in kept[g]
         /\ \A o \in Ops, g \in Slots \ G : ix[o][g] = index[o][g]
    <2>1. ASSUME NEW o \in Ops, NEW g \in Slots
          PROVE  /\ ix[o][g] \in Nat
                 /\ g \in G => (ix[o][g] > 0 <=> o \in kept[g])
                 /\ g \notin G => ix[o][g] = index[o][g]
      <3>1. CASE g = survivor
        <4>1. ix[o][g] = index[o][g] + Cardinality({k \in killed : o \in groups[k]})
          BY <1>11, <3>1
        <4>2. ix[o][g] \in Nat
              /\ (ix[o][g] > 0 <=> o \in groups[g] \/ \E k \in killed : o \in groups[k])
          BY <1>13, <1>15, <4>1
        <4>3. kept[g] = Union(G) BY <1>8, <1>10, <3>1
        <4> QED BY <1>8, <1>9, <3>1, <4>2, <4>3 DEF Union
      <3>2. CASE g \in killed
        <4>1. ix[o][g] = IF o \in groups[g] THEN 0 ELSE index[o][g]
          BY <1>9, <1>11, <3>2
        <4>2. kept[g] = {} BY <1>9, <1>10, <3>2
        <4> QED BY <1>9, <1>13, <3>2, <4>1, <4>2
      <3>3. CASE g \notin G
        <4>1. ix[o][g] = index[o][g] BY <1>8, <1>9, <1>11, <3>3
        <4> QED BY <1>13, <3>3, <4>1
      <3> QED BY <1>9, <3>1, <3>2, <3>3
    <2>2. ix \in [Ops -> [Slots -> Nat]]
      BY <1>11, <2>1
    <2> QED BY <1>5, <2>1, <2>2
  <1>17. \A g \in G : \A o \in groups[g] : \E h \in G : o \in kept[h]
    <2>1. kept[survivor] = Union(G) BY <1>8, <1>10
    <2> QED BY <1>8, <2>1 DEF Union
  <1>18. PlainEdit(G, kept, ix)
    BY <1>5, <1>12, <1>14, <1>16, <1>17 DEF PlainEdit
  <1> QED BY <1>18, PlainEditShifts

-----------------------------------------------------------------------------
(* Moves that pull a set of ops out of several groups *)

(* What Scatter leaves of the groups G and what it appends cover G.        *)
Covers(G, X, pieces) ==
  /\ \A x \in pieces : x[2] \in SUBSET Ops
  /\ \A g \in G : FirstComponent(groups[g] \ X) \subseteq groups[g]
  /\ \A g \in G : \A o \in groups[g] :
       \/ o \in FirstComponent(groups[g] \ X)
       \/ \E x \in pieces : o \in x[2]

Forms(formed, X) == /\ \A x \in formed : x[2] \in SUBSET Ops
                    /\ \A o \in X \cap Ops : \E x \in formed : o \in x[2]

LEMMA ScatterCovers ==
  ASSUME Consistent, NEW G, G \subseteq Alive, NEW X, NEW formed, Forms(formed, X),
         NEW pieces, pieces = (UNION {Leftover(g, groups[g] \ X) : g \in G}) \cup formed
  PROVE  Covers(G, X, pieces)
  <1> USE DEF Forms
  <1>0. \A x : x \in pieces <=> x \in formed \/ \E g \in G : x \in Leftover(g, groups[g] \ X)
    <2>1. \A x : x \in UNION {Leftover(g, groups[g] \ X) : g \in G}
                 <=> \E g \in G : x \in Leftover(g, groups[g] \ X)
      OBVIOUS
    <2> QED BY <2>1
  <1>1. \A g \in G : groups[g] \in SUBSET Ops
    BY DEF Alive, Consistent, TypeOK
  <1>2. ASSUME NEW g \in G
        PROVE  /\ \A x \in Leftover(g, groups[g] \ X) : x[2] \in SUBSET Ops
               /\ \A o \in groups[g] \ X : \/ o \in FirstComponent(groups[g] \ X)
                                           \/ \E x \in Leftover(g, groups[g] \ X) : o \in x[2]
               /\ FirstComponent(groups[g] \ X) \subseteq groups[g]
    <2>1. PICK rest : rest = groups[g] \ X OBVIOUS
    <2>2. rest \in SUBSET Ops /\ rest \subseteq groups[g] BY <1>1, <2>1
    <2>3. /\ \A x \in Leftover(g, rest) : x[2] \in SUBSET rest
          /\ \A o \in rest : \/ o \in FirstComponent(rest)
                             \/ \E x \in Leftover(g, rest) : o \in x[2]
      BY ONLY <2>2, LeftoverCovers
    <2>4. FirstComponent(rest) \subseteq rest
      BY ONLY <2>2, FirstInside
    <2> QED BY <2>1, <2>2, <2>3, <2>4
  <1>3. ASSUME NEW x \in pieces PROVE x[2] \in SUBSET Ops
    <2>1. CASE x \in formed BY <2>1
    <2>2. CASE x \notin formed
      <3>1. PICK g \in G : x \in Leftover(g, groups[g] \ X) BY <1>0, <2>2
      <3> QED BY <1>2, <3>1
    <2> QED BY <2>1, <2>2
  <1>4. ASSUME NEW g \in G, NEW o \in groups[g], o \notin FirstComponent(groups[g] \ X)
        PROVE  \E x \in pieces : o \in x[2]
    <2>1. CASE o \in X
      <3>1. PICK x \in formed : o \in x[2] BY <1>1, <2>1
      <3>2. x \in pieces BY <1>0
      <3> QED BY <3>1, <3>2
    <2>2. CASE o \notin X
      <3>1. PICK x \in Leftover(g, groups[g] \ X) : o \in x[2] BY <1>2, <1>4, <2>2
      <3> QED BY <1>0, <3>1
    <2> QED BY <2>1, <2>2
  <1> QED BY <1>2, <1>3, <1>4 DEF Covers

LEMMA ScatterShifts ==
  ASSUME Consistent, NEW op, NEW G, G \subseteq Alive, NEW X, NEW formed, Forms(formed, X),
         Scatter(G, X, formed)
  PROVE  Shifts(op, G)
  <1>1. PICK pieces : pieces = (UNION {Leftover(g, groups[g] \ X) : g \in G}) \cup formed
    OBVIOUS
  <1>2. PICK kept : kept = [g \in G |-> FirstComponent(groups[g] \ X)]
    OBVIOUS
  <1>3. PICK q \in Layouts(pieces) :
          Commit(NewTable(kept, q),
                 [o \in Ops |-> [g \in Slots |->
                    IF g \in G /\ o \in groups[g]
                    THEN IF o \in FirstComponent(groups[g] \ X) THEN 1 ELSE 0
                    ELSE IndexAppend(index, q)[o][g]]],
                 q, G \cup Appended(q))
    BY <1>1, <1>2 DEF Scatter
  <1>4. Covers(G, X, pieces)
    BY <1>1, ScatterCovers
  <1>5. groups \in [Slots -> SUBSET Ops] /\ G \subseteq Slots
    BY DEF Alive, Consistent, TypeOK
  <1>6. /\ kept \in [G -> SUBSET Ops]
        /\ \A g \in G : kept[g] = FirstComponent(groups[g] \ X) /\ kept[g] \subseteq groups[g]
    BY <1>2, <1>4, <1>5 DEF Covers
  <1>7. /\ prob' = prob /\ groups' = NewTable(kept, q) /\ ngroups' = ngroups + Len(q)
        /\ index' = [o \in Ops |-> [g \in Slots |->
                       IF g \in G /\ o \in groups[g]
                       THEN IF o \in FirstComponent(groups[g] \ X) THEN 1 ELSE 0
                       ELSE IndexAppend(index, q)[o][g]]]
        /\ edges' = UpdateEdges(edges, groups', index', G \cup Appended(q))
    BY <1>3 DEF Commit
  <1>8. /\ IndexAppend(index, q) \in [Ops -> [Slots -> Nat]]
        /\ \A o \in Ops, g \in G : IndexAppend(index, q)[o][g] > 0 <=> o \in groups[g]
    BY <1>3, <1>4, IndexAppendLists, AppendedAreFresh DEF Covers
  <1>9. ASSUME NEW o \in Ops, NEW g \in Slots
        PROVE  /\ index'[o][g] \in Nat
               /\ g \in G => (index'[o][g] > 0 <=> o \in kept[g])
               /\ g \notin G => index'[o][g] = IndexAppend(index, q)[o][g]
    <2>1. CASE g \in G /\ o \in groups[g]
      <3>1. index'[o][g] = IF o \in kept[g] THEN 1 ELSE 0 BY <1>6, <1>7, <2>1
      <3> QED BY <2>1, <3>1
    <2>2. CASE g \in G /\ o \notin groups[g]
      <3>1. index'[o][g] = IndexAppend(index, q)[o][g] BY <1>7, <2>2
      <3>2. o \notin kept[g] BY <1>6, <2>2
      <3>3. ~(index'[o][g] > 0) BY <1>8, <2>2, <3>1
      <3>4. index'[o][g] \in Nat BY <1>8, <3>1
      <3> QED BY <2>2, <3>2, <3>3, <3>4
    <2>3. CASE g \notin G
      <3>1. index'[o][g] = IndexAppend(index, q)[o][g] BY <1>7, <2>3
      <3> QED BY <1>8, <2>3, <3>1
    <2> QED BY <2>1, <2>2, <2>3
  <1>10. /\ index' \in [Ops -> [Slots -> Nat]]
         /\ \A o \in Ops, g \in G : index'[o][g] > 0 <=> o \in kept[g]
         /\ \A o \in Ops, g \in Slots \ G : index'[o][g] > 0 <=> IndexAppend(index, q)[o][g] > 0
    BY <1>5, <1>7, <1>9
  <1>11. ASSUME NEW g \in Slots, NEW o \in groups[g]
         PROVE  \/ \E h \in Slots \ G : o \in groups[h]
                \/ \E h \in G : o \in kept[h]
                \/ \E x \in pieces : o \in x[2]
    <2>1. CASE g \in G
      BY <1>4, <1>6, <2>1 DEF Covers
    <2> QED BY <2>1
  <1>15. ASSUME NEW g \in G, NEW o \in groups[g] \ {op}
         PROVE  (\E h \in G : o \in kept[h]) \/ \E x \in pieces : o \in x[2]
    BY <1>4, <1>6 DEF Covers
  <1>12. G \in SUBSET Alive
    OBVIOUS
  <1>13. /\ prob' = prob /\ groups' = NewTable(kept, q) /\ ngroups' = ngroups + Len(q)
    BY <1>7
  <1>14. Move(G, kept, pieces, q)
    BY <1>3, <1>4, <1>6, <1>10, <1>11, <1>12, <1>13 DEF Move, Covers
  <1> QED BY <1>7, <1>14, <1>15 DEF Shifts

LEMMA TensorExtractShifts ==
  ASSUME Consistent, NEW op, NEW t, NEW G, ApplyTensorExtract(t, G)
  PROVE  Shifts(op, G)
  <1>3. PICK X : X = Extracted(t)
    OBVIOUS
  <1>4. PICK formed : formed = {<<Rank(0), X>>}
    OBVIOUS
  <1>5. G \subseteq Alive /\ Scatter(G, X, formed)
    BY <1>3, <1>4 DEF ApplyTensorExtract, TensorExtractApplies
  <1>6. X \subseteq Ops
    BY <1>3 DEF Extracted, Consumers
  <1>7. Forms(formed, X)
    BY <1>4, <1>6 DEF Forms
  <1> QED BY <1>5, <1>7, ScatterShifts

(* The pairs of FORCE_RECOMPUTE, however the group graph is brought up to  *)
(* date.                                                                   *)
PairPieces(t) == {<<Rank(c), {t, c}>> : c \in Consumers(t)}

PairsCut(t) ==
  LET X == Extracted(t)
      G == TouchedGroups(t)
  IN  \E q \in Layouts((UNION {Leftover(g, groups[g] \ X) : g \in G}) \cup PairPieces(t)) :
        /\ groups' = NewTable([g \in G |-> FirstComponent(groups[g] \ X)], q)
        /\ index' = IndexOf(groups')
        /\ ngroups' = ngroups + Len(q) /\ prob' = prob
        /\ \/ edges' = UpdateEdges(edges, groups', index', G \cup Appended(q))
           \/ edges' = UpdateEdges(BuildEdges(groups', index'), groups', index', G \cup Appended(q))

LEMMA PairsShift ==
  ASSUME Consistent, NEW op, NEW t \in Ops, PairsFit(t), PairsCut(t)
  PROVE  Shifts(op, TouchedGroups(t))
  <1>5. PICK X : X = Extracted(t)
    OBVIOUS
  <1>6. PICK formed : formed = PairPieces(t)
    OBVIOUS
  <1>7. PICK G : G = TouchedGroups(t)
    OBVIOUS
  <1>8. PICK pieces : pieces = (UNION {Leftover(g, groups[g] \ X) : g \in G}) \cup formed
    OBVIOUS
  <1>9. PICK kept : kept = [g \in G |-> FirstComponent(groups[g] \ X)]
    OBVIOUS
  <1>10. PICK q \in Layouts(pieces) :
           /\ groups' = NewTable(kept, q)
           /\ index' = IndexOf(groups')
           /\ ngroups' = ngroups + Len(q)
           /\ prob' = prob
           /\ \/ edges' = UpdateEdges(edges, groups', index', G \cup Appended(q))
              \/ edges' = UpdateEdges(BuildEdges(groups', index'), groups', index', G \cup Appended(q))
    BY <1>5, <1>6, <1>7, <1>8, <1>9 DEF PairsCut
  <1>31. Cardinality(Consumers(t)) >= 2
    BY DEF PairsFit
  <1>11. Consumers(t) # {} /\ Consumers(t) \subseteq Ops
    BY <1>31, FS_EmptySet DEF Consumers
  <1>12. Forms(formed, X)
    <2>1. ASSUME NEW x \in formed PROVE x[2] \in SUBSET Ops
      BY <1>6, <1>11 DEF PairPieces
    <2>2. ASSUME NEW o \in X PROVE \E x \in formed : o \in x[2]
      <3>1. CASE o \in Consumers(t)
        <4>1. <<Rank(o), {t, o}>> \in formed BY <1>6, <3>1 DEF PairPieces
        <4> QED BY <4>1
      <3>2. CASE o = t
        <4>1. PICK c \in Consumers(t) : TRUE BY <1>11
        <4>2. <<Rank(c), {t, c}>> \in formed BY <1>6, <4>1 DEF PairPieces
        <4> QED BY <3>2, <4>2
      <3> QED BY <1>5, <3>1, <3>2 DEF Extracted
    <2> QED BY <2>1, <2>2 DEF Forms
  <1>13. G \in SUBSET Alive
    BY <1>7 DEF TouchedGroups, Holders
  <1>14. Covers(G, X, pieces)
    BY <1>8, <1>12, <1>13, ScatterCovers
  <1>15. groups \in [Slots -> SUBSET Ops] /\ G \subseteq Slots
    BY <1>13 DEF Alive, Consistent, TypeOK
  <1>16. /\ kept \in [G -> SUBSET Ops]
         /\ \A g \in G : kept[g] = FirstComponent(groups[g] \ X)
    BY <1>9, <1>14, <1>15 DEF Covers
  <1>17. /\ index' \in [Ops -> [Slots -> Nat]]
         /\ \A o \in Ops, g \in Slots : index'[o][g] > 0 <=> o \in groups'[g]
    BY <1>10 DEF IndexOf
  <1>18. \A o \in Ops, g \in G : index'[o][g] > 0 <=> o \in kept[g]
    BY <1>10, <1>15, <1>16, <1>17 DEF NewTable
  <1>19. ASSUME NEW o \in Ops, NEW g \in Slots \ G
         PROVE  index'[o][g] > 0 <=> IndexAppend(index, q)[o][g] > 0
    <2>1. groups'[g] = IF g \in Appended(q) THEN q[g - ngroups][2] ELSE groups[g]
      BY <1>10, <1>16 DEF NewTable, Appended
    <2>2. IndexAppend(index, q)[o][g] > 0 <=>
             (g \in Appended(q) /\ o \in q[g - ngroups][2]) \/ o \in groups[g]
      BY <1>10, <1>14, IndexAppendLists DEF Covers
    <2>3. g \in Appended(q) => groups[g] = {}
      BY <1>10, <1>14, AppendedAreFresh DEF Alive, Covers
    <2> QED BY <1>17, <2>1, <2>2, <2>3
  <1>20. ASSUME NEW g \in Slots, NEW o \in groups[g]
         PROVE  \/ \E h \in Slots \ G : o \in groups[h]
                \/ \E h \in G : o \in kept[h]
                \/ \E x \in pieces : o \in x[2]
    <2>1. CASE g \in G
      BY <1>14, <1>16, <2>1 DEF Covers
    <2> QED BY <2>1
  <1>25. ASSUME NEW g \in G, NEW o \in groups[g] \ {op}
         PROVE  (\E h \in G : o \in kept[h]) \/ \E x \in pieces : o \in x[2]
    BY <1>14, <1>16 DEF Covers
  <1>21. groups' = NewTable(kept, q) /\ ngroups' = ngroups + Len(q) /\ prob' = prob
    BY <1>10
  <1>22. /\ index' \in [Ops -> [Slots -> Nat]]
         /\ \A o \in Ops, g \in Slots \ G : index'[o][g] > 0 <=> IndexAppend(index, q)[o][g] > 0
    BY <1>17, <1>19
  <1>23. Move(G, kept, pieces, q)
    BY <1>10, <1>13, <1>14, <1>16, <1>18, <1>20, <1>21, <1>22 DEF Move, Covers
  <1>24. \/ edges' = UpdateEdges(edges, groups', index', G \cup Appended(q))
         \/ edges' = UpdateEdges(BuildEdges(groups', index'), groups', index', G \cup Appended(q))
    BY <1>10
  <1> QED BY <1>7, <1>23, <1>24, <1>25 DEF Shifts

LEMMA ForceRecomputeShifts ==
  ASSUME Consistent, NEW op, NEW t \in Ops, ApplyForceRecompute(t)
  PROVE  Shifts(op, TouchedGroups(t))
  <1>1. PairsFit(t) /\ PairsCut(t)
    BY DEF ApplyForceRecompute, PairsCut, PairPieces
  <1> QED BY <1>1, PairsShift

(* Dealing n consumers out in runs of `per` uses the sub-groups 0..k-1.    *)
LEMMA Dealing ==
  ASSUME NEW n \in Nat, NEW k \in Nat, k >= 2, n >= k, NEW pos \in Nat, pos < n
  PROVE  pos \div ((n + k - 1) \div k) \in 0..(k - 1)
  <1> DEFINE per == (n + k - 1) \div k
             i   == pos \div per
  <1>1. per \in Nat /\ per * k <= n + k - 1 /\ n + k - 1 < (per + 1) * k
    <2>1. n + k - 1 \in Nat /\ k > 0
      OBVIOUS
    <2>2. per \in Int /\ (n + k - 1) = k * per + ((n + k - 1) % k)
          /\ (n + k - 1) % k \in 0..(k - 1)
      BY <2>1
    <2>3. per >= 0
      BY <2>1
    <2> QED BY <2>2, <2>3
  <1>2. per * k >= n
    BY <1>1
  <1>3. per > 0
    BY <1>1, <1>2
  <1> HIDE DEF per
  <1>4. i \in Int /\ i >= 0 /\ i * per <= pos
    <2>1. i \in Int /\ pos = per * i + (pos % per) /\ pos % per \in 0..(per - 1)
      BY <1>1, <1>3
    <2>2. i >= 0
      BY <1>1, <1>3
    <2> QED BY <1>1, <2>1, <2>2
  <1> HIDE DEF i
  <1>5. ASSUME i >= k PROVE FALSE
    <2>1. per * i >= per * k BY <1>1, <1>3, <1>4, <1>5
    <2> QED BY <1>1, <1>2, <1>4, <2>1
  <1>6. i \in 0..(k - 1)
    BY <1>4, <1>5
  <1> QED BY <1>6 DEF i, per

LEMMA TensorExtractSplitShifts ==
  ASSUME Consistent, NEW op, NEW t \in Ops, NEW gs, NEW k \in SplitFactors(Cardinality(Consumers(t))),
         ApplyTensorExtractSplit(t, gs, k)
  PROVE  Shifts(op, gs \cap Alive)
  <1>4. PICK G : G = gs \cap Alive
    OBVIOUS
  <1>5. PICK X : X = Extracted(t)
    OBVIOUS
  <1>6. PICK formed : formed = {<<Rank(i), SubGroup(t, k, i)>> : i \in 0..(k - 1)}
    OBVIOUS
  <1>7. Scatter(G, X, formed)
    BY <1>4, <1>5, <1>6 DEF ApplyTensorExtractSplit
  <1>8. PICK S : S = Consumers(t)
    OBVIOUS
  <1>9. IsFiniteSet(S) /\ S \subseteq Nat /\ S \subseteq Ops
    BY <1>8, FS_Subset, OpsAssumption DEF Consumers
  <1>10. PICK n : n = Cardinality(S)
    OBVIOUS
  <1>11. n \in Nat /\ k \in Nat /\ k >= 2 /\ n >= k
    BY <1>8, <1>9, <1>10, FS_CardinalityType DEF SplitFactors
  <1>12. ASSUME NEW c \in S
         PROVE  Position(c, S) \in Nat /\ Position(c, S) < n
    <2>1. PICK R : R = {d \in S : d < c} OBVIOUS
    <2>2. R \in SUBSET S /\ c \notin R BY <1>9, <2>1
    <2>3. Cardinality(R) \in Nat /\ Cardinality(R) <= n /\ Cardinality(R) # n
      BY <1>9, <1>10, <1>11, <2>2, FS_Subset, FS_CardinalityType
    <2> QED BY <1>11, <2>1, <2>3 DEF Position
  <1>13. \A x \in formed : x[2] \in SUBSET Ops
    <2>1. ASSUME NEW i \in 0..(k - 1) PROVE SubGroup(t, k, i) \in SUBSET Ops
      BY DEF SubGroup, Consumers
    <2> QED BY <1>6, <2>1
  <1>14. ASSUME NEW o \in X PROVE \E x \in formed : o \in x[2]
    <2>1. CASE o = t
      <3>1. <<Rank(0), SubGroup(t, k, 0)>> \in formed BY <1>6, <1>11
      <3>2. t \in SubGroup(t, k, 0) BY DEF SubGroup
      <3> QED BY <2>1, <3>1, <3>2
    <2>2. CASE o \in S
      <3>1. PICK i : i = Position(o, S) \div ((n + k - 1) \div k)
        OBVIOUS
      <3>2. i \in 0..(k - 1)
        BY <1>11, <1>12, <2>2, <3>1, Dealing
      <3>3. <<Rank(i), SubGroup(t, k, i)>> \in formed BY <1>6, <3>2
      <3>4. o \in SubGroup(t, k, i) BY <1>8, <1>10, <2>2, <3>1 DEF SubGroup
      <3> QED BY <3>3, <3>4
    <2> QED BY <1>5, <1>8, <2>1, <2>2 DEF Extracted
  <1>15. Forms(formed, X)
    BY <1>13, <1>14 DEF Forms
  <1>16. G \subseteq Alive
    BY <1>4
  <1> QED BY <1>4, <1>7, <1>15, <1>16, ScatterShifts

-----------------------------------------------------------------------------
(* The initial partition *)

LEMMA InitEstablishesInv ==
  ASSUME PartitionInit
  PROVE  Inv
  <1>1. Cardinality(Ops) \in Nat /\ MaxGroups \in Nat /\ Cardinality(Ops) <= MaxGroups
    BY FS_CardinalityType, OpsAssumption, MaxGroupsAssumption, RoomAssumption
  <1>2. ASSUME NEW o \in Ops
        PROVE  SlotOf(o) \in 1..Cardinality(Ops)
    <2>1. PICK R : R = {p \in Ops : p <= o} OBVIOUS
    <2>2. R \in SUBSET Ops /\ o \in R BY <2>1, OpsAssumption
    <2>3. Cardinality(R) \in Nat /\ Cardinality(R) > 0 /\ Cardinality(R) <= Cardinality(Ops)
      BY <2>2, OpsAssumption, FS_Subset, NonEmptyCounts
    <2> QED BY <1>1, <2>1, <2>3 DEF SlotOf
  <1>3. /\ groups \in [Slots -> SUBSET Ops]
        /\ \A o \in Ops, g \in Slots : o \in groups[g] <=> SlotOf(o) = g
    BY DEF PartitionInit, TrivialTable
  <1>4. /\ index \in [Ops -> [Slots -> Nat]]
        /\ \A o \in Ops, g \in Slots : index[o][g] > 0 <=> o \in groups[g]
    BY DEF PartitionInit, IndexOf
  <1>5. \A g \in Slots : g > ngroups => groups[g] = {}
    BY <1>1, <1>2, <1>3 DEF PartitionInit, Slots
  <1>6. edges \subseteq Slots \X Slots
    BY BuildMembers DEF PartitionInit
  <1>7. TypeOK
    BY <1>1, <1>3, <1>4, <1>5, <1>6 DEF TypeOK, PartitionInit
  <1>8. IndexCurrent
    BY <1>4 DEF IndexCurrent, GroupsOf
  <1>9. AllHeld
    BY <1>1, <1>2, <1>3 DEF AllHeld, Slots
  <1>10. GdagSound
    BY DEF GdagSound, PartitionInit
  <1>11. GdagComplete
    <2>1. \A a, b \in Slots : FeedsDirectly(groups, a, b) => <<a, b>> \in edges
      BY <1>3, <1>4, DirectIsEdge, BuildMembers DEF PartitionInit
    <2> QED BY <1>7, <2>1, GdagCompleteDirect
  <1> QED BY <1>7, <1>8, <1>9, <1>10, <1>11 DEF Inv, Consistent

-----------------------------------------------------------------------------
(* What is known of a candidate *)

LEMMA DeRecomputeMove ==
  ASSUME NEW op \in Ops, NEW m \in DeRecomputeMoves(op)
  PROVE  /\ m.type = "DE_RECOMPUTE" /\ m.op = op
         /\ m.ga \in Holders(op) /\ DeRecomputeFeasible(op, m.ga)
  BY DEF DeRecomputeMoves

LEMMA EjectMove ==
  ASSUME NEW op \in Ops, NEW m \in EjectMoves(op)
  PROVE  /\ m.type = "EJECT" /\ m.op = op
         /\ m.ga \in GroupsOf(op) /\ EjectFeasible(op, m.ga) /\ EjectAdmitted(op, m.ga)
  BY DEF EjectMoves

LEMMA SplitMove ==
  ASSUME NEW op \in Ops, NEW m \in SplitMoves(op)
  PROVE  /\ m.type = "SPLIT" /\ m.op = op
         /\ m.ga \in GroupsOf(op) /\ m.v \in OpNeighbors(op) /\ m.v \in groups[m.ga]
         /\ SplitFeasible(op, m.v, m.ga)
         /\ ~SplitCreatesGapLocal(SideOf(groups[m.ga], op, m.v),
                                  groups[m.ga] \ SideOf(groups[m.ga], op, m.v), m.ga)
  <1>1. PICK c \in GroupsOf(op) \X OpNeighbors(op) :
          /\ m = [type |-> "SPLIT", op |-> op, ga |-> c[1], v |-> c[2]]
          /\ c[2] \in groups[c[1]]
          /\ SplitFeasible(op, c[2], c[1])
          /\ ~SplitCreatesGapLocal(SideOf(groups[c[1]], op, c[2]),
                                   groups[c[1]] \ SideOf(groups[c[1]], op, c[2]), c[1])
    BY DEF SplitMoves
  <1>2. m.ga = c[1] /\ m.v = c[2] /\ m.type = "SPLIT" /\ m.op = op
    BY <1>1
  <1> QED BY <1>1, <1>2

LEMMA StealMove ==
  ASSUME NEW op \in Ops, NEW m \in StealMoves(op)
  PROVE  /\ m.type = "STEAL" /\ m.op = op
         /\ m.ga \in Holders(op) /\ m.gb \in AdjGroups(op) /\ m.ga # m.gb
         /\ ~SplitCreatesEphemeralGap({groups[m.gb] \cup {op}, groups[m.ga] \ {op}}, {m.ga, m.gb})
  <1>1. PICK c \in Holders(op) \X AdjGroups(op) :
          /\ m = [type |-> "STEAL", op |-> op, ga |-> c[1], gb |-> c[2]]
          /\ c[1] # c[2]
          /\ ~SplitCreatesEphemeralGap({groups[c[2]] \cup {op}, groups[c[1]] \ {op}}, {c[1], c[2]})
    BY DEF StealMoves
  <1>2. m.ga = c[1] /\ m.gb = c[2] /\ m.type = "STEAL" /\ m.op = op
    BY <1>1
  <1> QED BY <1>1, <1>2

LEMMA MergeMove ==
  ASSUME NEW op \in Ops, NEW m \in MergeMoves(op)
  PROVE  /\ m.type = "MERGE" /\ m.op = op
         /\ m.ga \in AdjGroups(op) /\ m.gb \in Holders(op) /\ m.ga # m.gb
         /\ ~MergeCreatesCycle({m.ga, m.gb})
         /\ ~CreatesEphemeralGap(groups[m.ga] \cup groups[m.gb], {m.ga, m.gb})
         /\ Fits(groups[m.ga] \cup groups[m.gb])
  <1>1. PICK c \in AdjGroups(op) \X Holders(op) :
          /\ m = [type |-> "MERGE", op |-> op, ga |-> c[1], gb |-> c[2]]
          /\ c[1] # c[2]
          /\ ~MergeCreatesCycle({c[1], c[2]})
          /\ ~CreatesEphemeralGap(groups[c[1]] \cup groups[c[2]], {c[1], c[2]})
          /\ Fits(groups[c[1]] \cup groups[c[2]])
    BY DEF MergeMoves
  <1>2. m.ga = c[1] /\ m.gb = c[2] /\ m.type = "MERGE" /\ m.op = op
    BY <1>1
  <1> QED BY <1>1, <1>2

LEMMA RecomputeMove ==
  ASSUME NEW op \in Ops, NEW m \in RecomputeMoves(op)
  PROVE  /\ m.type = "RECOMPUTE" /\ m.op = op
         /\ m.gb \in AdjGroups(op) /\ RecomputeFeasible(op, m.gb) /\ ~RecomputeCreatesCycle(op, m.gb)
  BY DEF RecomputeMoves

(* t is read by op and by others; gs holds all its consumers, if none of   *)
(* them is locked.                                                         *)
Around(op, locked, t, gs) == <<t, gs>> \in TensorCandidates(op, locked)

LEMMA AroundIsLive ==
  ASSUME NEW op \in Ops, NEW locked, NEW t, NEW gs, Around(op, locked, t, gs)
  PROVE  /\ t \in SharedTensors(op) /\ gs \in TensorGroups(t)
         /\ gs \in (SUBSET Alive) \ {{}}
  <1>1. /\ t \in SharedTensors(op) /\ gs \in TensorGroups(t)
        /\ Cardinality(gs) >= 2 /\ \A g \in gs : g \in Alive
    BY DEF Around, TensorCandidates
  <1>2. gs # {}
    BY <1>1, FS_EmptySet
  <1> QED BY <1>1, <1>2

LEMMA TensorMergeMove ==
  ASSUME NEW op \in Ops, NEW locked, NEW m \in TensorMergeMoves(op, locked)
  PROVE  /\ m.type = "TENSOR_MERGE" /\ m.op = op
         /\ Around(op, locked, m.t, m.gs)
         /\ ~MergeCreatesCycle(m.gs)
         /\ Fits(Union(m.gs))
         /\ ~CreatesEphemeralGap(Union(m.gs), m.gs)
  <1>1. PICK c \in TensorCandidates(op, locked) :
          /\ m = [type |-> "TENSOR_MERGE", op |-> op, t |-> c[1], gs |-> c[2]]
          /\ ~MergeCreatesCycle(c[2])
          /\ Fits(Union(c[2]))
          /\ ~CreatesEphemeralGap(Union(c[2]), c[2])
    BY DEF TensorMergeMoves
  <1>2. m.t = c[1] /\ m.gs = c[2] /\ m.type = "TENSOR_MERGE" /\ m.op = op
    BY <1>1
  <1>3. c = <<c[1], c[2]>>
    BY DEF TensorCandidates
  <1> QED BY <1>1, <1>2, <1>3 DEF Around

(* What is left of the groups G without the ops of X.                      *)
Remains(G, X) == UNION {Components(groups[g] \ X) : g \in G}

LEMMA TensorExtractMove ==
  ASSUME NEW op \in Ops, NEW locked, NEW m \in TensorExtractMoves(op, locked)
  PROVE  /\ m.type = "TENSOR_EXTRACT" /\ m.op = op
         /\ Around(op, locked, m.t, m.gs)
         /\ ~ExtractCreatesCycle(Extracted(m.t))
         /\ \A C \in Remains(m.gs, Extracted(m.t)) : Fits(C)
         /\ Fits(Extracted(m.t))
         /\ ~SplitCreatesEphemeralGap({Extracted(m.t)} \cup Remains(m.gs, Extracted(m.t)), m.gs)
  <1>1. PICK c \in TensorCandidates(op, locked) :
          /\ m = [type |-> "TENSOR_EXTRACT", op |-> op, t |-> c[1], gs |-> c[2]]
          /\ ~ExtractCreatesCycle(Extracted(c[1]))
          /\ \A C \in Remains(c[2], Extracted(c[1])) : Fits(C)
          /\ Fits(Extracted(c[1]))
          /\ ~SplitCreatesEphemeralGap({Extracted(c[1])} \cup Remains(c[2], Extracted(c[1])), c[2])
    BY DEF TensorExtractMoves, Remains
  <1>2. m.t = c[1] /\ m.gs = c[2] /\ m.type = "TENSOR_EXTRACT" /\ m.op = op
    BY <1>1
  <1>3. c = <<c[1], c[2]>>
    BY DEF TensorCandidates
  <1> QED BY <1>1, <1>2, <1>3 DEF Around

LEMMA TensorExtractSplitMove ==
  ASSUME NEW op \in Ops, NEW locked, NEW m \in TensorExtractSplitMoves(op, locked)
  PROVE  /\ m.type = "TENSOR_EXTRACT_SPLIT" /\ m.op = op
         /\ Around(op, locked, m.t, m.gs)
         /\ m.t \in Ops /\ m.k \in SplitFactors(Cardinality(Consumers(m.t)))
  <1>1. PICK c \in TensorCandidates(op, locked) \X (2..Cardinality(Ops)) :
          /\ m = [type |-> "TENSOR_EXTRACT_SPLIT", op |-> op, t |-> c[1][1], gs |-> c[1][2], k |-> c[2]]
          /\ c[1][1] \in Ops
          /\ c[2] \in SplitFactors(Cardinality(Consumers(c[1][1])))
    BY DEF TensorExtractSplitMoves
  <1>2. /\ m.t = c[1][1] /\ m.gs = c[1][2] /\ m.k = c[2]
        /\ m.type = "TENSOR_EXTRACT_SPLIT" /\ m.op = op
    BY <1>1
  <1>3. c[1] \in TensorCandidates(op, locked) /\ c[1] = <<c[1][1], c[1][2]>>
    BY DEF TensorCandidates
  <1> QED BY <1>1, <1>2, <1>3 DEF Around

LEMMA ForceRecomputeMove ==
  ASSUME NEW op \in Ops, NEW locked, NEW m \in ForceRecomputeMoves(op, locked)
  PROVE  /\ m.type = "FORCE_RECOMPUTE" /\ m.op = op
         /\ m.t \in Producers(op) /\ m.t \in Ops /\ PairsFit(m.t)
  BY DEF ForceRecomputeMoves, Producers

-----------------------------------------------------------------------------
(* No move disturbs what the invariant says.                               *)
LEMMA StepKeepsInv ==
  ASSUME Inv, [Next]_fmVars
  PROVE  Inv'
  <1>0. \A o \in Ops : Holders(o) \subseteq Slots /\ GroupsOf(o) \subseteq Slots
    BY DEF Holders, GroupsOf
  <1>1. CASE DeRecompute
    <2>0. PICK op \in Ops : \E m \in DeRecomputeMoves(op) : ApplyDeRecompute(op, m.ga)
      BY <1>1 DEF DeRecompute
    <2>1. PICK m \in DeRecomputeMoves(op) : ApplyDeRecompute(op, m.ga)
      BY <2>0
    <2>3. m.ga \in Holders(op) /\ DeRecomputeFeasible(op, m.ga)
      BY DeRecomputeMove
    <2>4. PICK h \in Holders(op) : h # m.ga
      BY <2>3 DEF DeRecomputeFeasible
    <2>2. m.ga \in Slots /\ \E k \in Slots \ {m.ga} : op \in groups[k]
      BY <1>0, <2>3, <2>4, HoldersAreLive DEF Inv
    <2> QED BY <2>1, <2>2, DeRecomputeShifts, ShiftKeepsInv DEF Inv
  <1>2. CASE Eject
    <2>0. PICK op \in Ops : \E m \in EjectMoves(op) : ApplyEject(op, m.ga)
      BY <1>2 DEF Eject
    <2>1. PICK m \in EjectMoves(op) : ApplyEject(op, m.ga)
      BY <2>0
    <2> QED BY <1>0, <2>1, EjectMove, EjectShifts, ShiftKeepsInv DEF Inv
  <1>3. CASE Split
    <2>0. PICK op \in Ops : \E m \in SplitMoves(op) : ApplySplit(op, m.v, m.ga)
      BY <1>3 DEF Split
    <2>1. PICK m \in SplitMoves(op) : ApplySplit(op, m.v, m.ga)
      BY <2>0
    <2> QED BY <1>0, <2>1, SplitMove, SplitShifts, ShiftKeepsInv DEF Inv
  <1>4. CASE Steal
    <2>0. PICK op \in Ops : \E m \in StealMoves(op) : ApplySteal(op, m.ga, m.gb)
      BY <1>4 DEF Steal
    <2>1. PICK m \in StealMoves(op) : ApplySteal(op, m.ga, m.gb)
      BY <2>0
    <2>2. m.ga \in Slots /\ m.gb \in Slots /\ m.ga # m.gb
      BY <1>0, StealMove DEF AdjGroups, Alive
    <2> QED BY <2>1, <2>2, StealShifts, ShiftKeepsInv DEF Inv
  <1>5. CASE Merge
    <2>0. PICK op \in Ops : \E m \in MergeMoves(op) : ApplyMerge(m.ga, m.gb)
      BY <1>5 DEF Merge
    <2>1. PICK m \in MergeMoves(op) : ApplyMerge(m.ga, m.gb)
      BY <2>0
    <2> QED BY <2>1, MergeShifts, ShiftKeepsInv DEF Inv
  <1>6. CASE Recompute
    <2>0. PICK op \in Ops : \E m \in RecomputeMoves(op) : ApplyRecompute(op, m.gb)
      BY <1>6 DEF Recompute
    <2>1. PICK m \in RecomputeMoves(op) : ApplyRecompute(op, m.gb)
      BY <2>0
    <2> QED BY <2>1, RecomputeShifts, ShiftKeepsInv DEF Inv
  <1>7. CASE TensorMerge
    <2>0. PICK op \in Ops : \E m \in TensorMergeMoves(op, {}) : ApplyTensorMerge(m.gs)
      BY <1>7 DEF TensorMerge
    <2>1. PICK m \in TensorMergeMoves(op, {}) : ApplyTensorMerge(m.gs)
      BY <2>0
    <2>2. m.gs # {}
      BY TensorMergeMove, AroundIsLive
    <2> QED BY <2>1, <2>2, TensorMergeShifts, ShiftKeepsInv DEF Inv
  <1>8. CASE TensorExtract
    <2>0. PICK op \in Ops : \E m \in TensorExtractMoves(op, {}) : ApplyTensorExtract(m.t, m.gs)
      BY <1>8 DEF TensorExtract
    <2>1. PICK m \in TensorExtractMoves(op, {}) : ApplyTensorExtract(m.t, m.gs)
      BY <2>0
    <2> QED BY <2>1, TensorExtractShifts, ShiftKeepsInv DEF Inv
  <1>9. CASE TensorExtractSplit
    <2>0. PICK op \in Ops : \E m \in TensorExtractSplitMoves(op, {}) : ApplyTensorExtractSplit(m.t, m.gs, m.k)
      BY <1>9 DEF TensorExtractSplit
    <2>1. PICK m \in TensorExtractSplitMoves(op, {}) : ApplyTensorExtractSplit(m.t, m.gs, m.k)
      BY <2>0
    <2>2. m.t \in Ops /\ m.k \in SplitFactors(Cardinality(Consumers(m.t)))
      BY TensorExtractSplitMove
    <2> QED BY <2>1, <2>2, TensorExtractSplitShifts, ShiftKeepsInv DEF Inv
  <1>10. CASE ForceRecompute
    <2>0. PICK op \in Ops : \E m \in ForceRecomputeMoves(op, {}) : ApplyForceRecompute(m.t)
      BY <1>10 DEF ForceRecompute
    <2>1. PICK m \in ForceRecomputeMoves(op, {}) : ApplyForceRecompute(m.t)
      BY <2>0
    <2>2. m.t \in Ops
      BY ForceRecomputeMove
    <2> QED BY <2>1, <2>2, ForceRecomputeShifts, ShiftKeepsInv DEF Inv
  <1>11. CASE UNCHANGED fmVars
    <2>1. prob' = prob /\ ngroups' = ngroups /\ groups' = groups /\ index' = index
          /\ edges' = edges
      BY <1>11 DEF fmVars
    <2>2. TypeOK' BY <2>1 DEF Inv, Consistent, TypeOK
    <2>3. IndexCurrent' BY <2>1 DEF Inv, Consistent, IndexCurrent, GroupsOf
    <2>4. AllHeld' BY <2>1 DEF Inv, Consistent, AllHeld
    <2>5. GdagSound'
      BY <2>1 DEF Inv, Consistent, GdagSound, BuildEdges, EdgesFor, Consumers, Producers
    <2>6. GdagComplete' BY <2>1 DEF Inv, Consistent, GdagComplete, Alive, Consumers
    <2> QED BY <2>2, <2>3, <2>4, <2>5, <2>6 DEF Inv, Consistent
  <1> QED BY <1>1, <1>2, <1>3, <1>4, <1>5, <1>6, <1>7, <1>8, <1>9, <1>10, <1>11 DEF Next

(* The invariant holds in every reachable state.                           *)
THEOREM Invariance == Spec => []Inv
  <1>1. Init => Inv
    BY InitEstablishesInv DEF Init
  <1>2. Inv /\ [Next]_fmVars => Inv'
    BY StepKeepsInv
  <1> QED BY <1>1, <1>2, PTL DEF Spec

(* Group table, index and group graph keep their types, and a slot that    *)
(* has not been handed out is empty.                                       *)
THEOREM TypeCorrect == Spec => []TypeOK
  <1>1. Inv => TypeOK BY DEF Inv, Consistent
  <1> QED BY <1>1, Invariance, PTL

(* The incrementally maintained op_to_groups_ names exactly the live       *)
(* holders of every op, whatever moves were made.                          *)
THEOREM IndexIsCurrent == Spec => []IndexCurrent
  <1>1. Inv => IndexCurrent BY DEF Inv, Consistent
  <1> QED BY <1>1, Invariance, PTL

(* No sequence of moves leaves an op without a live group.                 *)
THEOREM NoOpIsLost == Spec => []NoOpLost
  <1>1. ASSUME Inv PROVE NoOpLost
    BY <1>1, HoldersAreLive DEF Inv, Consistent, AllHeld, NoOpLost, Covered
  <1> QED BY <1>1, Invariance, PTL

(* GroupDAG::update never leaves an edge a full build would not make.      *)
THEOREM GroupGraphIsSound == Spec => []GdagSound
  <1>1. Inv => GdagSound BY DEF Inv, Consistent
  <1> QED BY <1>1, Invariance, PTL

(* GroupDAG::update misses no dependency between groups neither of which   *)
(* holds both ends.                                                        *)
THEOREM GroupGraphIsComplete == Spec => []GdagComplete
  <1>1. Inv => GdagComplete BY DEF Inv, Consistent
  <1> QED BY <1>1, Invariance, PTL

-----------------------------------------------------------------------------
(* The local checks: tables of disjoint groups.                            *)

Apart(tab) == \A g, h \in Slots : g # h => tab[g] \cap tab[h] = {}

(* g reads what only h holds.                                              *)
DependsOn(tab, g, h) ==
  g # h /\ \E p \in tab[h] : Consumers(p) \cap tab[g] # {}

(* Some group waits for nobody in X.                                       *)
Starts(tab, X) == \E g \in X : \A h \in X : ~DependsOn(tab, g, h)

Orderly(tab) == \A X \in (SUBSET Slots) \ {{}} : Starts(tab, X)

Unbroken(tab) ==
  \A g \in Slots : \A t \in tab[g] :
    t \notin prob.required /\ ConsumedIn(t, tab[g]) => Consumers(t) \subseteq tab[g]

-----------------------------------------------------------------------------
(* What the predicates of the model say of a partition of disjoint groups. *)

LEMMA ApartMeans == Consistent => (Disjoint <=> Apart(groups))
  BY DEF Consistent, TypeOK, Disjoint, Apart, Alive

(* The index lists the holders of every op: all that the two predicates    *)
(* look at.                                                                *)
Indexed == /\ groups \in [Slots -> SUBSET Ops]
           /\ \A o \in Ops : GroupsOf(o) = {h \in Slots : o \in groups[h]}

LEMMA InvIsIndexed == Consistent => Indexed
  BY HoldersAreLive DEF Consistent, TypeOK, Indexed

LEMMA WaitsFor ==
  ASSUME Indexed, Apart(groups), NEW X \in SUBSET Slots, NEW g \in Slots
  PROVE  (\E t \in Dependencies(g) : (GroupsOf(t) \cap Alive) \subseteq X)
            <=> \E h \in X : DependsOn(groups, g, h)
<1>1. /\ \A o \in Ops : GroupsOf(o) = {h \in Slots : o \in groups[h]}
      /\ \A o \in Ops : GroupsOf(o) \subseteq Alive
      /\ groups \in [Slots -> SUBSET Ops]
  BY DEF Indexed, Alive
<1>2. ASSUME NEW t \in Dependencies(g), (GroupsOf(t) \cap Alive) \subseteq X
      PROVE  \E h \in X : DependsOn(groups, g, h)
  <2>1. PICK c \in Ops : g \in GroupsOf(c) /\ t \in Producers(c)
    BY DEF Dependencies
  <2>2. t \in Ops /\ c \in Consumers(t) /\ g \notin GroupsOf(t) /\ GroupsOf(t) \cap Alive # {}
    BY <2>1 DEF Dependencies, Producers, Consumers
  <2>3. PICK h \in GroupsOf(t) : h \in X
    BY <1>2, <2>2
  <2>4. h \in Slots /\ t \in groups[h] /\ c \in groups[g] /\ h # g
    BY <1>1, <2>1, <2>2, <2>3
  <2> QED BY <2>2, <2>3, <2>4 DEF DependsOn
<1>3. ASSUME NEW h \in X, DependsOn(groups, g, h)
      PROVE  \E t \in Dependencies(g) : (GroupsOf(t) \cap Alive) \subseteq X
  <2>1. PICK p \in groups[h] : Consumers(p) \cap groups[g] # {}
    BY <1>3 DEF DependsOn
  <2>2. PICK c \in Consumers(p) : c \in groups[g]
    BY <2>1
  <2>3. h \in Slots /\ g # h /\ p \in Ops /\ c \in Ops
    BY <1>1, <1>3 DEF DependsOn, Consumers
  <2>4. \A k \in Slots : p \in groups[k] => k = h
    BY <2>1, <2>3 DEF Apart
  <2>5. GroupsOf(p) = {h} /\ h \in Alive
    BY <1>1, <2>1, <2>3, <2>4
  <2>6. p \in Producers(c) /\ g \in GroupsOf(c)
    BY <1>1, <2>2, <2>3 DEF Producers, Consumers
  <2>7. p \in Dependencies(g)
    BY <2>3, <2>5, <2>6 DEF Dependencies
  <2> QED BY <2>5, <2>7
<1> QED BY <1>2, <1>3

LEMMA OrderlyWhenIndexed == Indexed /\ Apart(groups) => (IsAcyclic <=> Orderly(groups))
<1> SUFFICES ASSUME Indexed, Apart(groups) PROVE IsAcyclic <=> Orderly(groups)
  OBVIOUS
<1>1. ASSUME NEW X \in SUBSET Slots, NEW g \in Slots
      PROVE  (\A t \in Dependencies(g) : (GroupsOf(t) \cap Alive) \ X # {})
                <=> \A h \in X : ~DependsOn(groups, g, h)
  BY WaitsFor
<1>2. Alive \subseteq Slots
  BY DEF Alive
<1>3. ASSUME IsAcyclic, NEW X \in (SUBSET Slots) \ {{}} PROVE Starts(groups, X)
  <2>1. CASE X \subseteq Alive
    <3>1. PICK g \in X : \A t \in Dependencies(g) : (GroupsOf(t) \cap Alive) \ X # {}
      BY <1>3, <2>1 DEF IsAcyclic
    <3> QED BY <1>1, <3>1 DEF Starts
  <2>2. CASE ~(X \subseteq Alive)
    <3>1. PICK g \in X : groups[g] = {}
      BY <2>2 DEF Alive
    <3>2. \A h \in X : ~DependsOn(groups, g, h)
      BY <3>1 DEF DependsOn
    <3> QED BY <3>2 DEF Starts
  <2> QED BY <2>1, <2>2
<1>4. ASSUME Orderly(groups), NEW X \in (SUBSET Alive) \ {{}}
      PROVE  \E g \in X : \A t \in Dependencies(g) : (GroupsOf(t) \cap Alive) \ X # {}
  <2>1. X \in (SUBSET Slots) \ {{}}
    BY <1>2
  <2>2. PICK g \in X : \A h \in X : ~DependsOn(groups, g, h)
    BY <1>4, <2>1 DEF Orderly, Starts
  <2> QED BY <1>1, <2>1, <2>2
<1> QED BY <1>3, <1>4 DEF IsAcyclic, Orderly

LEMMA OrderlyMeans == Consistent /\ Apart(groups) => (IsAcyclic <=> Orderly(groups))
  BY InvIsIndexed, OrderlyWhenIndexed

LEMMA UnbrokenWhenIndexed == Indexed /\ Apart(groups) => (HasEphemeralGap <=> ~Unbroken(groups))
<1> SUFFICES ASSUME Indexed, Apart(groups) PROVE HasEphemeralGap <=> ~Unbroken(groups)
  OBVIOUS
<1>1. /\ \A o \in Ops : GroupsOf(o) = {h \in Slots : o \in groups[h]}
      /\ \A o \in Ops : GroupsOf(o) \subseteq Alive
      /\ groups \in [Slots -> SUBSET Ops]
      /\ Alive = {g \in Slots : groups[g] # {}}
  BY DEF Indexed, Alive
<1>2. \A t : Consumers(t) \subseteq Ops
  BY DEF Consumers
<1>3. ASSUME NEW g \in Slots, NEW t \in groups[g]
      PROVE  (/\ IsEphemeral(groups[g], t)
              /\ ~Exported(t, g)
              /\ \E c \in Consumers(t) :
                   \/ c \notin groups[g] /\ \A h \in GroupsOf(c) \cap Alive : t \notin groups[h]
                   \/ c \in groups[g] /\ \E h \in (GroupsOf(c) \cap Alive) \ {g} : t \notin groups[h])
             <=> ~(t \notin prob.required /\ ConsumedIn(t, groups[g])
                     => Consumers(t) \subseteq groups[g])
  <2>1. t \in Ops /\ \A h \in Slots \ {g} : t \notin groups[h]
    BY <1>1 DEF Apart
  <2>2. ~Exported(t, g)
    BY <1>1, <2>1 DEF Exported, IsBoundaryOutput
  <2>3. IsEphemeral(groups[g], t) <=> t \notin prob.required /\ ConsumedIn(t, groups[g])
    BY DEF IsEphemeral, IsBoundaryOutput
  <2>4. ASSUME NEW c \in Consumers(t)
        PROVE  (\/ c \notin groups[g] /\ \A h \in GroupsOf(c) \cap Alive : t \notin groups[h]
                \/ c \in groups[g] /\ \E h \in (GroupsOf(c) \cap Alive) \ {g} : t \notin groups[h])
               <=> c \notin groups[g]
    <3>1. c \in Ops /\ \A h \in GroupsOf(c) : h \in Slots /\ c \in groups[h]
      BY <1>1, <1>2
    <3>2. c \in groups[g] => GroupsOf(c) \subseteq {g}
      BY <3>1 DEF Apart
    <3>3. c \notin groups[g] => g \notin GroupsOf(c)
      BY <3>1
    <3> QED BY <2>1, <3>1, <3>2, <3>3
  <2> QED BY <2>2, <2>3, <2>4
<1>4. \A g \in Slots : g \notin Alive => groups[g] = {}
  BY <1>1
<1> QED BY <1>1, <1>3, <1>4 DEF HasEphemeralGap, HasGapBeyond, Unbroken

LEMMA UnbrokenMeans == Consistent /\ Apart(groups) => (HasEphemeralGap <=> ~Unbroken(groups))
  BY InvIsIndexed, UnbrokenWhenIndexed

-----------------------------------------------------------------------------
(* Components fall apart along no flow.                                    *)

LEMMA NeighborsMutual ==
  ASSUME NEW o \in Ops, NEW u \in OpNeighbors(o)
  PROVE  u \in Ops /\ o \in OpNeighbors(u)
  BY DEF OpNeighbors, Producers, Consumers, Reads

LEMMA ComponentClosed ==
  ASSUME NEW S \in SUBSET Ops, NEW o \in S, NEW x \in Component(S, o),
         NEW y \in OpNeighbors(x) \cap S
  PROVE  y \in Component(S, o)
  BY DEF Component

LEMMA ComponentSymmetric ==
  ASSUME NEW S \in SUBSET Ops, NEW o \in S, NEW x \in Component(S, o)
  PROVE  Component(S, x) = Component(S, o)
<1>1. x \in S
  BY DEF Component
<1>2. \A u \in S : u \in Component(S, u)
  BY ComponentInside
<1>3. ASSUME NEW a \in S, NEW b \in Component(S, a) PROVE Component(S, b) \subseteq Component(S, a)
  BY ComponentClosed, <1>2 DEF Component
<1>4. o \in Component(S, x)
  <2> DEFINE C == S \ Component(S, x)
  <2> SUFFICES ASSUME o \in C PROVE FALSE
    OBVIOUS
  <2>1. ASSUME NEW v \in C, NEW w \in OpNeighbors(v) \cap S PROVE w \in C
    <3>1. v \in OpNeighbors(w) /\ v \in S
      BY NeighborsMutual
    <3> QED BY <1>1, <3>1, ComponentClosed
  <2>2. x \in C
    <3>1. \A v \in C : OpNeighbors(v) \cap S \subseteq C
      BY <2>1
    <3>2. C \in SUBSET S
      OBVIOUS
    <3> HIDE DEF C
    <3> QED BY <3>1, <3>2 DEF Component
  <2> QED BY <1>1, <1>2, <2>2
<1> QED BY <1>1, <1>3, <1>4

LEMMA ComponentsApart ==
  ASSUME NEW S \in SUBSET Ops, NEW C \in Components(S), NEW D \in Components(S)
  PROVE  C = D \/ C \cap D = {}
<1>1. PICK a \in S : C = Component(S, a)
  BY DEF Components
<1>2. PICK b \in S : D = Component(S, b)
  BY DEF Components
<1>3. ASSUME NEW x \in C \cap D PROVE C = D
  BY <1>1, <1>2, ComponentSymmetric
<1> QED BY <1>3

LEMMA FlowStays ==
  ASSUME NEW S \in SUBSET Ops, NEW C \in Components(S), NEW t \in C, NEW c \in Consumers(t) \cap S
  PROVE  c \in C
<1>1. PICK a \in S : C = Component(S, a)
  BY DEF Components
<1>2. CASE c # t
  <2>1. c \in OpNeighbors(t)
    BY <1>2 DEF OpNeighbors
  <2> QED BY <1>1, <2>1, ComponentClosed
<1> QED BY <1>2

(* What is left of a group: the component that stays and those that leave. *)
LEMMA FallsApart ==
  ASSUME NEW S \in SUBSET Ops, NEW g
  PROVE  /\ FirstComponent(S) \in Components(S) \cup {{}}
         /\ \A x \in Leftover(g, S) : /\ x[1] = g
                                      /\ x[2] \in Components(S)
                                      /\ x[2] \in (SUBSET S) \ {{}}
                                      /\ x[2] \cap FirstComponent(S) = {}
         /\ \A x, y \in Leftover(g, S) : x # y => x[2] \cap y[2] = {}
<1>1. FirstComponent(S) \in Components(S) \cup {{}}
  <2>1. CASE S # {}
    <3>1. Least(S) \in S
      BY <2>1, LeastIsMember, OpsAssumption
    <3> QED BY <2>1, <3>1 DEF FirstComponent, Components
  <2>2. CASE S = {}
    BY <2>2 DEF FirstComponent
  <2> QED BY <2>1, <2>2
<1>2. ASSUME NEW x \in Leftover(g, S)
      PROVE  /\ x[1] = g
             /\ x[2] \in Components(S)
             /\ x[2] # FirstComponent(S)
             /\ x = <<g, x[2]>>
  BY DEF Leftover
<1>3. \A C \in Components(S) : C \in (SUBSET S) \ {{}}
  BY ComponentInside DEF Components
<1>4. ASSUME NEW x \in Leftover(g, S) PROVE x[2] \cap FirstComponent(S) = {}
  BY <1>1, <1>2, ComponentsApart
<1>5. ASSUME NEW x \in Leftover(g, S), NEW y \in Leftover(g, S), x # y PROVE x[2] \cap y[2] = {}
  <2>1. x[2] # y[2]
    BY <1>2, <1>5
  <2> QED BY <1>2, <2>1, ComponentsApart
<1> QED BY <1>1, <1>2, <1>3, <1>4, <1>5

-----------------------------------------------------------------------------
(* A new table.  The groups in G, which are cut down or enlarged to kept,  *)
(* and the pieces appended share out the ops of G among them.              *)

LEMMA LayoutInjective ==
  ASSUME NEW pieces, NEW q \in Layouts(pieces),
         \A x \in pieces : x[1] \in Int /\ x[2] \in (SUBSET Ops) \ {{}}
  PROVE  \A i, j \in DOMAIN q : q[i] = q[j] => i = j
<1>1. PICK n \in 0..(MaxGroups - ngroups) : q \in [1..n -> pieces]
  BY DEF Layouts
<1>2. \A i, j \in 1..n : i < j => Before(q[i], q[j])
  BY <1>1 DEF Layouts
<1>3. ASSUME NEW x \in pieces PROVE ~Before(x, x)
  <2>1. x[2] \in SUBSET Nat /\ x[2] # {} /\ x[1] \in Int
    BY OpsAssumption
  <2>2. Least(x[2]) \in Int
    BY <2>1, LeastIsMember
  <2> QED BY <2>1, <2>2 DEF Before
<1>4. ASSUME NEW i \in 1..n, NEW j \in 1..n, q[i] = q[j], i # j PROVE FALSE
  <2>1. i < j \/ j < i
    BY <1>4
  <2>2. q[i] \in pieces /\ q[j] \in pieces
    BY <1>1
  <2> QED BY <1>2, <1>3, <1>4, <2>1, <2>2
<1> QED BY <1>1, <1>4

Shares(G, kept, pieces) ==
  /\ G \subseteq Alive
  /\ \A g \in G : kept[g] \subseteq Union(G)
  /\ \A x \in pieces : x[1] \in Int /\ x[2] \in (SUBSET Union(G)) \ {{}}
  /\ \A g, h \in G : g # h => kept[g] \cap kept[h] = {}
  /\ \A g \in G, x \in pieces : kept[g] \cap x[2] = {}
  /\ \A x, y \in pieces : x # y => x[2] \cap y[2] = {}

Parts(G, kept, pieces) == {kept[g] : g \in G} \cup {x[2] : x \in pieces}

(* Where a group of the new table comes from.                              *)
LEMMA NewTableParts ==
  ASSUME Consistent, NEW G, NEW kept, DOMAIN kept = G, NEW pieces, Shares(G, kept, pieces),
         NEW q \in Layouts(pieces), NEW tab, tab = NewTable(kept, q)
  PROVE  /\ \A g \in G : tab[g] = kept[g]
         /\ \A g \in Appended(q) : /\ g \notin G /\ groups[g] = {} /\ g - ngroups \in DOMAIN q
                                   /\ q[g - ngroups] \in pieces
                                   /\ tab[g] = q[g - ngroups][2]
         /\ \A g \in Slots \ (G \cup Appended(q)) : tab[g] = groups[g]
         /\ \A x \in pieces : \E g \in Appended(q) : q[g - ngroups] = x
         /\ G \subseteq Slots /\ Appended(q) \subseteq Slots
<1>1. PICK n \in 0..(MaxGroups - ngroups) :
           /\ q \in [1..n -> pieces]
           /\ Appended(q) = (ngroups + 1)..(ngroups + n)
           /\ \A x \in pieces : \E g \in Appended(q) : q[g - ngroups] = x
           /\ \A g \in Slots : g \in Appended(q) <=> g - ngroups \in DOMAIN q
  BY AppendedSlots DEF Consistent
<1>2. ngroups \in Nat /\ \A g \in Slots : g > ngroups => groups[g] = {}
  BY DEF Consistent, TypeOK
<1>3. G \subseteq Alive /\ G \subseteq Slots /\ \A g \in G : groups[g] # {}
  BY DEF Shares, Alive
<1>4. Appended(q) \subseteq Slots
  BY DEF Appended
<1>5. ASSUME NEW g \in Appended(q)
      PROVE  g \notin G /\ groups[g] = {} /\ g - ngroups \in DOMAIN q /\ q[g - ngroups] \in pieces
  <2>1. g \in Slots /\ g > ngroups
    BY <1>1, <1>2, <1>4
  <2> QED BY <1>1, <1>2, <1>3, <2>1
<1>6. \A g \in Slots : tab[g] = IF g \in G THEN kept[g]
                                ELSE IF g - ngroups \in DOMAIN q THEN q[g - ngroups][2]
                                ELSE groups[g]
  BY DEF NewTable
<1>7. \A g \in G : tab[g] = kept[g]
  BY <1>3, <1>6
<1>8. \A g \in Appended(q) : tab[g] = q[g - ngroups][2]
  BY <1>4, <1>5, <1>6
<1>9. \A g \in Slots \ (G \cup Appended(q)) : tab[g] = groups[g]
  BY <1>1, <1>6
<1> QED BY <1>1, <1>3, <1>4, <1>5, <1>7, <1>8, <1>9

(* Groups outside G share no op with any other.                            *)
ApartBeyond(G) ==
  \A g \in Slots \ G : \A h \in Slots : g # h => groups[g] \cap groups[h] = {}

LEMMA RegroupedTable ==
  ASSUME Consistent, NEW G, ApartBeyond(G), NEW kept, DOMAIN kept = G, NEW pieces,
         Shares(G, kept, pieces), NEW q \in Layouts(pieces), NEW tab, tab = NewTable(kept, q)
  PROVE  /\ Apart(tab)
         /\ \A g \in Slots : \/ tab[g] \in Parts(G, kept, pieces)
                             \/ g \notin G /\ tab[g] = groups[g]
<1>1. /\ \A g \in G : tab[g] = kept[g]
      /\ \A g \in Appended(q) : /\ g \notin G /\ groups[g] = {} /\ g - ngroups \in DOMAIN q
                                /\ q[g - ngroups] \in pieces
                                /\ tab[g] = q[g - ngroups][2]
      /\ \A g \in Slots \ (G \cup Appended(q)) : tab[g] = groups[g]
      /\ G \subseteq Slots /\ Appended(q) \subseteq Slots
  BY NewTableParts
<1>2. groups \in [Slots -> SUBSET Ops] /\ ngroups \in Int
  BY DEF Consistent, TypeOK
<1>3. Union(G) \subseteq Ops
  BY <1>1, <1>2 DEF Union
<1>4. \A g \in G \cup Appended(q) : tab[g] \subseteq Union(G)
  BY <1>1 DEF Shares
<1>5. \A g \in Slots \ G : groups[g] \cap Union(G) = {}
  BY <1>1 DEF ApartBeyond, Union
<1>6. ASSUME NEW g \in G \cup Appended(q), NEW h \in G \cup Appended(q), g # h
      PROVE  tab[g] \cap tab[h] = {}
  <2>1. CASE g \in G /\ h \in G
    BY <1>1, <1>6, <2>1 DEF Shares
  <2>2. CASE g \in G /\ h \in Appended(q)
    BY <1>1, <2>2 DEF Shares
  <2>3. CASE g \in Appended(q) /\ h \in G
    BY <1>1, <2>3 DEF Shares
  <2>4. CASE g \in Appended(q) /\ h \in Appended(q)
    <3>1. g \in Int /\ h \in Int
      BY <1>1, <2>4 DEF Slots
    <3>2. g - ngroups # h - ngroups
      BY <1>2, <1>6, <3>1
    <3>3. \A x \in pieces : x[1] \in Int /\ x[2] \in (SUBSET Ops) \ {{}}
      BY <1>3 DEF Shares
    <3>4. q[g - ngroups] # q[h - ngroups]
      BY <1>1, <2>4, <3>2, <3>3, LayoutInjective
    <3> QED BY <1>1, <2>4, <3>4 DEF Shares
  <2> QED BY <2>1, <2>2, <2>3, <2>4
<1>7. Apart(tab)
  <2> SUFFICES ASSUME NEW g \in Slots, NEW h \in Slots, g # h PROVE tab[g] \cap tab[h] = {}
    BY DEF Apart
  <2>1. CASE g \in G \cup Appended(q) /\ h \in G \cup Appended(q)
    BY <1>6, <2>1
  <2>2. CASE g \in G \cup Appended(q) /\ h \notin G \cup Appended(q)
    BY <1>1, <1>4, <1>5, <2>2
  <2>3. CASE g \notin G \cup Appended(q) /\ h \in G \cup Appended(q)
    BY <1>1, <1>4, <1>5, <2>3
  <2>4. CASE g \notin G \cup Appended(q) /\ h \notin G \cup Appended(q)
    BY <1>1, <2>4 DEF ApartBeyond
  <2> QED BY <2>1, <2>2, <2>3, <2>4
<1>8. \A g \in Slots : \/ tab[g] \in Parts(G, kept, pieces)
                       \/ g \notin G /\ tab[g] = groups[g]
  BY <1>1 DEF Parts
<1> QED BY <1>7, <1>8

LEMMA SharedTable ==
  ASSUME Consistent, Apart(groups), NEW G, NEW kept, DOMAIN kept = G, NEW pieces,
         Shares(G, kept, pieces), NEW q \in Layouts(pieces), NEW tab, tab = NewTable(kept, q)
  PROVE  /\ Apart(tab)
         /\ \A g \in Slots : \/ tab[g] \in Parts(G, kept, pieces)
                             \/ g \notin G /\ tab[g] = groups[g]
<1>1. ApartBeyond(G)
  BY DEF Apart, ApartBeyond
<1> QED BY <1>1, RegroupedTable

(* A part of a new table in which no tensor on chip is wanted elsewhere.   *)
Intact(S) ==
  \A t \in S : t \notin prob.required /\ ConsumedIn(t, S) => Consumers(t) \subseteq S

LEMMA PieceIntact ==
  ASSUME NEW S \in SUBSET Ops, Intact(S), NEW C \in Components(S) \cup {{}}
  PROVE  Intact(C)
<1> SUFFICES ASSUME NEW t \in C, t \notin prob.required, ConsumedIn(t, C)
             PROVE  Consumers(t) \subseteq C
  BY DEF Intact
<1>1. C \in Components(S)
  OBVIOUS
<1>2. C \subseteq S
  BY <1>1, ComponentInside DEF Components
<1>3. Consumers(t) \subseteq S
  BY <1>2 DEF Intact, ConsumedIn
<1> QED BY <1>1, <1>3, FlowStays

(* The step replaces the groups in G as NewTable says.                     *)
Regroups(G, kept, pieces, q) ==
  /\ DOMAIN kept = G
  /\ Shares(G, kept, pieces)
  /\ q \in Layouts(pieces)
  /\ groups' = NewTable(kept, q)
  /\ prob' = prob

LEMMA ApartMeansNext == Consistent' => (Disjoint' <=> Apart(groups)')
  BY ApartMeans, PTL

LEMMA OrderlyMeansNext == Consistent' /\ Apart(groups)' => (IsAcyclic' <=> Orderly(groups)')
  BY OrderlyMeans, PTL

LEMMA UnbrokenMeansNext ==
  Consistent' /\ Apart(groups)' => (HasEphemeralGap' <=> ~Unbroken(groups)')
  BY UnbrokenMeans, PTL

LEMMA RegroupStaysApart ==
  ASSUME Consistent, Consistent', Disjoint, NEW G, NEW kept, NEW pieces, NEW q, Regroups(G, kept, pieces, q)
  PROVE  Disjoint'
<1>1. Apart(groups')
  BY SharedTable, ApartMeans DEF Regroups
<1>2. Apart(groups)'
  BY <1>1 DEF Apart
<1> QED BY <1>2, ApartMeansNext

LEMMA RegroupStaysGapFree ==
  ASSUME Consistent, Consistent', Disjoint, ~HasEphemeralGap,
         NEW G, NEW kept, NEW pieces, NEW q, Regroups(G, kept, pieces, q),
         \A S \in Parts(G, kept, pieces) : Intact(S)
  PROVE  ~HasEphemeralGap'
<1>1. Apart(groups) /\ Unbroken(groups)
  BY ApartMeans, UnbrokenMeans
<1>2. /\ Apart(groups')
      /\ \A g \in Slots : \/ groups'[g] \in Parts(G, kept, pieces)
                          \/ g \notin G /\ groups'[g] = groups[g]
  BY <1>1, SharedTable DEF Regroups
<1>3. \A g \in Slots : Intact(groups'[g])
  BY <1>1, <1>2 DEF Unbroken, Intact
<1>4. Unbroken(groups)'
  BY <1>3 DEF Unbroken, Intact, ConsumedIn, Consumers, Regroups
<1>5. Apart(groups)'
  BY <1>2 DEF Apart
<1> QED BY <1>4, <1>5, UnbrokenMeansNext
-----------------------------------------------------------------------------
(* What the gap checks promise of the parts they are shown.                *)

LEMMA SuppliersGone ==
  ASSUME Consistent, Apart(groups), NEW G \in SUBSET Slots, NEW t \in Union(G), NEW c
  PROVE  ~ServedByGroups(t, c, G)
<1>1. PICK g \in G : t \in groups[g]
  BY DEF Union
<1>2. \A h \in Slots \ G : t \notin groups[h]
  BY <1>1 DEF Apart
<1>3. t \in Ops /\ \A h \in GroupsOf(t) : h \in Slots /\ t \in groups[h]
  BY <1>1, HoldersAreLive DEF Consistent, TypeOK
<1>4. \A h \in GroupsOf(c) : h \in Slots
  BY DEF GroupsOf
<1> QED BY <1>2, <1>3, <1>4 DEF ServedByGroups

LEMMA CheckedParts ==
  ASSUME Consistent, Apart(groups), NEW G \in SUBSET Slots, NEW parts,
         \A S \in parts : S \subseteq Union(G),
         \A S, T \in parts : S # T => S \cap T = {},
         ~SplitCreatesEphemeralGap(parts, G), NEW S \in parts
  PROVE  Intact(S)
<1> SUFFICES ASSUME NEW t \in S, t \notin prob.required, ConsumedIn(t, S), NEW c \in Consumers(t) \ S
             PROVE  FALSE
  BY DEF Intact
<1>1. IsEphemeral(S, t)
  BY DEF IsEphemeral, IsBoundaryOutput
<1>2. ~ServedByGroups(t, c, G)
  BY SuppliersGone
<1>3. PICK T \in parts : Supplies(T, t) \/ (c \in T /\ t \in T)
  BY <1>1, <1>2 DEF SplitCreatesEphemeralGap
<1>4. T = S
  BY <1>3 DEF Supplies
<1> QED BY <1>3, <1>4 DEF Supplies

LEMMA CheckedUnion ==
  ASSUME Consistent, Apart(groups), NEW G \in SUBSET Slots, NEW S \in SUBSET Union(G),
         ~CreatesEphemeralGap(S, G)
  PROVE  Intact(S)
<1> SUFFICES ASSUME NEW t \in S, t \notin prob.required, ConsumedIn(t, S), NEW c \in Consumers(t) \ S
             PROVE  FALSE
  BY DEF Intact
<1>1. IsEphemeral(S, t)
  BY DEF IsEphemeral, IsBoundaryOutput
<1>2. ~ServedByGroups(t, c, G)
  BY SuppliersGone
<1> QED BY <1>1, <1>2 DEF CreatesEphemeralGap

-----------------------------------------------------------------------------
(* Each move with a gap check, as a regrouping into intact parts.          *)

(* The step is a regrouping and what it makes is intact.                   *)
Mends == \E G, kept, pieces, q : /\ Regroups(G, kept, pieces, q)
                                 /\ \A S \in Parts(G, kept, pieces) : Intact(S)

(* The step gathers all of G in s.                                         *)
Gathers(G, s) ==
  /\ G \in SUBSET Alive /\ s \in G
  /\ prob' = prob
  /\ groups' = NewTable([g \in G |-> IF g = s THEN Union(G) ELSE {}], <<>>)

LEMMA GatherRegroups ==
  ASSUME Consistent, NEW G, NEW s, Gathers(G, s),
         NEW kept, kept = [g \in G |-> IF g = s THEN Union(G) ELSE {}]
  PROVE  /\ Regroups(G, kept, {}, <<>>)
         /\ Parts(G, kept, {}) \subseteq {Union(G), {}}
<1> USE DEF Gathers
<1>1. <<>> \in Layouts({})
  BY EmptyLayout
<1>2. /\ DOMAIN kept = G
      /\ \A g \in G : kept[g] = IF g = s THEN Union(G) ELSE {}
  OBVIOUS
<1>3. Shares(G, kept, {})
  <2>1. \A g \in G : kept[g] \subseteq Union(G)
    BY <1>2
  <2>2. \A g, h \in G : g # h => kept[g] \cap kept[h] = {}
    BY <1>2
  <2> QED BY <2>1, <2>2 DEF Shares
<1>4. Parts(G, kept, {}) \subseteq {Union(G), {}}
  BY <1>2 DEF Parts
<1> QED BY <1>1, <1>2, <1>3, <1>4 DEF Regroups

LEMMA GatherMends ==
  ASSUME Consistent, Apart(groups), NEW G, NEW s, Gathers(G, s), Intact(Union(G))
  PROVE  Mends
<1>1. PICK kept : kept = [g \in G |-> IF g = s THEN Union(G) ELSE {}]
  OBVIOUS
<1>2. /\ Regroups(G, kept, {}, <<>>)
      /\ Parts(G, kept, {}) \subseteq {Union(G), {}}
  BY <1>1, GatherRegroups
<1>5. Intact({})
  BY DEF Intact
<1>6. ASSUME NEW S \in Parts(G, kept, {}) PROVE Intact(S)
  <2>1. S = Union(G) \/ S = {}
    BY <1>2
  <2>2. CASE S = Union(G)
    BY <2>2
  <2>3. CASE S = {}
    BY <1>5, <2>3
  <2> QED BY <2>1, <2>2, <2>3
<1> QED BY <1>2, <1>6 DEF Mends

LEMMA MergeGathers ==
  ASSUME NEW ga, NEW gb, ApplyMerge(ga, gb)
  PROVE  Gathers({ga, gb}, ga) /\ Union({ga, gb}) = groups[ga] \cup groups[gb]
<1>1. PICK G : G = {ga, gb}
  OBVIOUS
<1>2. Union(G) = groups[ga] \cup groups[gb]
  BY <1>1 DEF Union
<1>3. [g \in G |-> IF g = ga THEN Union(G) ELSE {}]
        = [g \in {ga, gb} |-> IF g = ga THEN groups[ga] \cup groups[gb] ELSE {}]
  BY <1>1, <1>2
<1>4. /\ G \in SUBSET Alive /\ ga \in G /\ prob' = prob
      /\ groups' = NewTable([g \in G |-> IF g = ga THEN Union(G) ELSE {}], <<>>)
  BY <1>1, <1>3 DEF ApplyMerge, MergeApplies, Commit
<1> QED BY <1>1, <1>2, <1>4 DEF Gathers

LEMMA TensorMergeGathers ==
  ASSUME NEW G, G # {}, ApplyTensorMerge(G)
  PROVE  Gathers(G, Least(G))
<1>1. G \in SUBSET Alive /\ G \subseteq Slots
  BY DEF ApplyTensorMerge, TensorMergeApplies, Alive
<1>2. Least(G) \in G
  BY <1>1, SlotsFinite, LeastIsMember
<1>3. /\ prob' = prob
      /\ groups' = NewTable([g \in G |-> IF g = Least(G) THEN Union(G) ELSE {}], <<>>)
  BY DEF ApplyTensorMerge, Commit
<1> QED BY <1>1, <1>2, <1>3 DEF Gathers

(* A STEAL as its check saw it forms two intact sets.                      *)
LEMMA StealIntact ==
  ASSUME Consistent, Apart(groups), NEW op \in Ops, NEW from \in Holders(op), NEW to \in Slots, from # to,
         ~SplitCreatesEphemeralGap({groups[to] \cup {op}, groups[from] \ {op}}, {from, to})
  PROVE  Intact(groups[to] \cup {op}) /\ Intact(groups[from] \ {op})
<1>1. PICK into, rest : into = groups[to] \cup {op} /\ rest = groups[from] \ {op}
  OBVIOUS
<1>2. from \in Slots /\ op \in groups[from] /\ {from, to} \in SUBSET Slots
  BY HoldersAreLive DEF Holders, Alive
<1>3. groups[from] \cap groups[to] = {}
  BY <1>2 DEF Apart
<1>4. into \subseteq Union({from, to}) /\ rest \subseteq Union({from, to}) /\ into \cap rest = {}
  BY <1>1, <1>2, <1>3 DEF Union
<1>5. PICK parts : parts = {into, rest}
  OBVIOUS
<1>6. /\ \A S \in parts : S \subseteq Union({from, to})
      /\ \A S, T \in parts : S # T => S \cap T = {}
      /\ ~SplitCreatesEphemeralGap(parts, {from, to})
  BY <1>1, <1>4, <1>5
<1>7. \A S \in parts : Intact(S)
  BY <1>2, <1>6, CheckedParts
<1> QED BY <1>1, <1>5, <1>7

LEMMA StealMends ==
  ASSUME Consistent, Apart(groups), NEW op \in Ops, NEW from \in Slots, NEW to \in Slots, from # to,
         ApplySteal(op, from, to),
         Intact(groups[to] \cup {op}), Intact(groups[from] \ {op})
  PROVE  Mends
<1>4. PICK into, rest : into = groups[to] \cup {op} /\ rest = groups[from] \ {op}
  OBVIOUS
<1>5. ApplySteal(op, from, to) /\ op \in groups[from] /\ to \in Alive
  BY DEF ApplySteal, StealApplies
<1>6. PICK stay, pieces : stay = FirstComponent(rest) /\ pieces = Leftover(from, rest)
  OBVIOUS
<1>7. PICK kept : kept = [g \in {from, to} |-> IF g = to THEN into ELSE stay]
  OBVIOUS
<1>8. PICK q \in Layouts(pieces) : groups' = NewTable(kept, q) /\ prob' = prob
  BY <1>4, <1>5, <1>6, <1>7 DEF ApplySteal, Commit
<1>9. /\ from \in Alive /\ from \in Slots /\ to \in Slots
      /\ groups[from] \subseteq Ops /\ op \in groups[from]
      /\ rest \in SUBSET Ops /\ into \cap rest = {}
  <2>1. from \in Slots /\ op \in groups[from] /\ from \in Alive /\ to \in Slots
    BY <1>5 DEF Alive
  <2>2. groups[from] \subseteq Ops /\ groups[from] \cap groups[to] = {}
    BY <1>5, <2>1 DEF Consistent, TypeOK, Apart
  <2> QED BY <1>4, <2>1, <2>2
<1>10. into \subseteq Union({from, to}) /\ rest \subseteq Union({from, to})
  BY <1>4, <1>9 DEF Union
<1>11. Intact(into) /\ Intact(rest)
  BY <1>4
<1>12. /\ stay \in Components(rest) \cup {{}} /\ stay \subseteq rest
       /\ \A x \in pieces : /\ x[1] = from
                            /\ x[2] \in Components(rest)
                            /\ x[2] \in (SUBSET rest) \ {{}}
                            /\ x[2] \cap stay = {}
       /\ \A x, y \in pieces : x # y => x[2] \cap y[2] = {}
  BY <1>6, <1>9, FallsApart, FirstInside
<1>13. kept[to] = into /\ kept[from] = stay /\ DOMAIN kept = {from, to}
  BY <1>5, <1>7
<1>14. Shares({from, to}, kept, pieces)
  <2>1. {from, to} \subseteq Alive
    BY <1>5, <1>9
  <2>2. \A g \in {from, to} : kept[g] \subseteq Union({from, to})
    BY <1>10, <1>12, <1>13
  <2>3. ASSUME NEW x \in pieces
        PROVE  x[1] \in Int /\ x[2] \in (SUBSET Union({from, to})) \ {{}}
    <3>1. x[1] \in Int
      BY <1>9, <1>12, SlotsFinite
    <3>2. x[2] \subseteq rest /\ x[2] # {}
      BY <1>12
    <3> QED BY <1>10, <3>1, <3>2
  <2>4. \A g, h \in {from, to} : g # h => kept[g] \cap kept[h] = {}
    BY <1>9, <1>12, <1>13
  <2>5. \A g \in {from, to}, x \in pieces : kept[g] \cap x[2] = {}
    BY <1>9, <1>12, <1>13
  <2> QED BY <1>12, <2>1, <2>2, <2>3, <2>4, <2>5 DEF Shares
<1>15. \A S \in Parts({from, to}, kept, pieces) : Intact(S)
  <2>1. \A C \in Components(rest) \cup {{}} : Intact(C)
    BY <1>9, <1>11, PieceIntact
  <2> QED BY <1>11, <1>12, <1>13, <2>1 DEF Parts
<1>16. Regroups({from, to}, kept, pieces, q)
  BY <1>8, <1>13, <1>14 DEF Regroups
<1> QED BY <1>15, <1>16 DEF Mends

LEMMA NobodyReadsItself ==
  ASSUME Consistent, NEW o \in Ops
  PROVE  o \notin Reads(o)
<1>1. {o} \in (SUBSET Ops) \ {{}} /\ prob \in Problems
  BY DEF Consistent, TypeOK
<1> QED BY <1>1, ProblemsAssumption DEF Reads

LEMMA SoleHolder ==
  ASSUME Consistent, Apart(groups), NEW g \in Slots, NEW t \in groups[g]
  PROVE  t \in Ops /\ GroupsOf(t) = {g} /\ ~SuppliedElsewhere(t, g)
<1>1. t \in Ops /\ \A h \in Slots : t \in groups[h] => h = g
  BY DEF Consistent, TypeOK, Apart
<1>2. GroupsOf(t) = {g} /\ Holders(t) = {g}
  BY <1>1, HoldersAreLive
<1> QED BY <1>1, <1>2 DEF SuppliedElsewhere

(* What op reads in S and others there read as well, op can read from slow *)
(* memory.                                                                 *)
Leaves(op, S) ==
  \A t \in Producers(op) \cap S : (Consumers(t) \ {op}) \cap S # {} => t \in prob.required

LEMMA EjectLeaves ==
  ASSUME Consistent, Apart(groups), NEW op, NEW ga \in Slots, ~EjectCreatesEphemeralGap(op, ga)
  PROVE  Leaves(op, groups[ga])
  BY SoleHolder DEF Leaves, EjectCreatesEphemeralGap

LEMMA TakenOutMends ==
  ASSUME Consistent, Apart(groups), NEW op \in Ops, NEW ga \in Slots, ApplyEject(op, ga),
         \A C \in Components(groups[ga] \ {op}) : Intact(C)
  PROVE  Mends
<1>1. PICK rest, stay, left :
        /\ rest = groups[ga] \ {op}
        /\ stay = FirstComponent(rest) /\ left = Leftover(ga, rest)
  OBVIOUS
<1>2. /\ ga \in Slots /\ ga \in Alive /\ op \in groups[ga] /\ groups[ga] \subseteq Ops
      /\ rest \in SUBSET Ops /\ Union({ga}) = groups[ga]
  BY <1>1 DEF Consistent, TypeOK, Union, ApplyEject, EjectApplies, EjectFeasible, Alive
<1>3. PICK pieces : pieces = left \cup {<<Rank(0), {op}>>}
  OBVIOUS
<1>4. PICK kept : kept = [g \in {ga} |-> stay]
  OBVIOUS
<1>5. PICK q \in Layouts(pieces) : groups' = NewTable(kept, q) /\ prob' = prob
  <2>1. GroupsOf(op) \ {ga} = {}
    BY <1>2, SoleHolder
  <2> QED BY <1>1, <1>3, <1>4, <2>1 DEF ApplyEject, Commit
<1>6. /\ stay \in Components(rest) \cup {{}} /\ stay \subseteq rest
      /\ \A x \in left : /\ x[1] = ga
                                      /\ x[2] \in Components(rest)
                                      /\ x[2] \in (SUBSET rest) \ {{}}
                                      /\ x[2] \cap stay = {}
      /\ \A x, y \in left : x # y => x[2] \cap y[2] = {}
  <2>1. rest \in SUBSET Ops
    BY <1>2
  <2>2. stay = FirstComponent(rest) /\ left = Leftover(ga, rest)
    BY <1>1
  <2> QED BY ONLY <2>1, <2>2, FallsApart, FirstInside
<1>7. /\ DOMAIN kept = {ga} /\ kept[ga] = stay
      /\ Rank(0) \in Int /\ ga \in Int
      /\ op \notin rest
  BY <1>1, <1>2, <1>4, SlotsFinite, MaxGroupsAssumption DEF Rank
<1>8. \A x \in pieces : x \in left \/ (x[1] = Rank(0) /\ x[2] = {op} /\ x = <<Rank(0), {op}>>)
  BY <1>3
<1>9. Shares({ga}, kept, pieces)
  <2>1. {ga} \subseteq Alive /\ \A g \in {ga} : kept[g] \subseteq Union({ga})
    <3>1. stay \subseteq rest /\ rest \subseteq Union({ga})
      BY <1>1, <1>2, <1>6
    <3> QED BY ONLY <1>2, <1>7, <3>1
  <2>2. ASSUME NEW x \in pieces
        PROVE  x[1] \in Int /\ x[2] \in (SUBSET Union({ga})) \ {{}} /\ x[2] \cap stay = {}
    <3>1. CASE x \in left
      <4>1. x[1] = ga /\ x[2] \subseteq rest /\ x[2] # {} /\ x[2] \cap stay = {}
        BY <1>6, <3>1
      <4> QED BY <1>1, <1>2, <1>7, <4>1
    <3>2. CASE x[1] = Rank(0) /\ x[2] = {op}
      BY <1>2, <1>6, <1>7, <3>2
    <3> QED BY <1>8, <3>1, <3>2
  <2>3. ASSUME NEW x \in pieces, NEW y \in pieces, x # y PROVE x[2] \cap y[2] = {}
    <3>1. CASE x \in left /\ y \in left
      BY <1>6, <2>3, <3>1
    <3>2. CASE x \in left /\ y[2] = {op}
      BY <1>6, <1>7, <3>2
    <3>3. CASE y \in left /\ x[2] = {op}
      BY <1>6, <1>7, <3>3
    <3> QED BY <1>8, <2>3, <3>1, <3>2, <3>3
  <2> QED BY <1>7, <2>1, <2>2, <2>3 DEF Shares
<1>10. Intact({op})
  BY NobodyReadsItself DEF Intact, ConsumedIn, Consumers, Reads
<1>11. \A S \in Parts({ga}, kept, pieces) : Intact(S)
  <2>1. \A C \in Components(rest) \cup {{}} : Intact(C)
    BY <1>1 DEF Intact
  <2>2. ASSUME NEW S \in Parts({ga}, kept, pieces)
        PROVE  S \in Components(rest) \cup {{}} \/ S = {op}
    BY <1>6, <1>7, <1>8 DEF Parts
  <2> QED BY <1>10, <2>1, <2>2
<1>12. Regroups({ga}, kept, pieces, q)
  BY <1>5, <1>7, <1>9 DEF Regroups
<1> QED BY <1>11, <1>12 DEF Mends

LEMMA EjectMends ==
  ASSUME Consistent, Apart(groups), Unbroken(groups), NEW op \in Ops, NEW ga \in Slots,
         ApplyEject(op, ga), Leaves(op, groups[ga])
  PROVE  Mends
<1>1. PICK rest : rest = groups[ga] \ {op} /\ rest \in SUBSET Ops /\ op \in groups[ga]
  BY DEF Consistent, TypeOK, ApplyEject, EjectApplies, EjectFeasible
<1>2. Intact(rest)
  <2> SUFFICES ASSUME NEW t \in rest, t \notin prob.required, ConsumedIn(t, rest),
                      NEW c \in Consumers(t) \ rest
               PROVE  FALSE
    BY DEF Intact
  <2>1. t \in groups[ga] /\ ConsumedIn(t, groups[ga])
    BY <1>1 DEF ConsumedIn
  <2>2. c = op
    BY <1>1, <2>1 DEF Unbroken
  <2>3. t \in Producers(op) \cap groups[ga]
    BY <1>1, <2>1, <2>2 DEF Producers, Consumers
  <2>4. (Consumers(t) \ {op}) \cap groups[ga] # {}
    BY <1>1 DEF ConsumedIn
  <2> QED BY <2>3, <2>4 DEF Leaves
<1>3. \A C \in Components(rest) : Intact(C)
  BY <1>1, <1>2, PieceIntact
<1> QED BY <1>1, <1>3, TakenOutMends

(* T reads nothing that S produces and keeps on chip.                      *)
Sheds(S, T) == \A c \in T : \A t \in Producers(c) \cap S : ~IsEphemeral(S, t)

LEMMA SplitSheds ==
  ASSUME Consistent, Apart(groups), NEW ga \in Slots, NEW S \in SUBSET groups[ga], NEW T,
         ~SplitCreatesGapLocal(S, T, ga), T \subseteq groups[ga]
  PROVE  Sheds(S, T) /\ Sheds(T, S)
  BY SoleHolder DEF Sheds, SplitCreatesGapLocal, Strands

LEMMA CutMends ==
  ASSUME Consistent, NEW op \in Ops, NEW ga \in Slots, NEW v, ApplySplit(op, v, ga),
         NEW stay, stay = SideOf(groups[ga], op, v), NEW moved, moved = groups[ga] \ stay,
         Intact(stay), Intact(moved)
  PROVE  Mends
<1>1. PICK pieces : pieces = {<<Rank(0), moved>>}
  OBVIOUS
<1>2. PICK kept : kept = [g \in {ga} |-> stay]
  OBVIOUS
<1>3. PICK q \in Layouts(pieces) : groups' = NewTable(kept, q) /\ prob' = prob
  BY <1>1, <1>2 DEF ApplySplit, Commit
<1>4. /\ ga \in Slots /\ ga \in Alive /\ groups[ga] \subseteq Ops
      /\ Union({ga}) = groups[ga]
      /\ stay \subseteq groups[ga] /\ moved \subseteq groups[ga] /\ moved # {}
  <2>1. v \in groups[ga] /\ v \notin stay
    BY DEF ApplySplit, SplitApplies, SplitFeasible, IsBridge
  <2>2. stay \subseteq groups[ga]
    BY DEF SideOf
  <2> QED BY <2>1, <2>2 DEF Consistent, TypeOK, Union, Alive
<1>5. /\ DOMAIN kept = {ga} /\ kept[ga] = stay
       /\ \A x \in pieces : x[1] = Rank(0) /\ x[2] = moved /\ x = <<Rank(0), moved>>
       /\ Rank(0) \in Int
  BY <1>1, <1>2, MaxGroupsAssumption DEF Rank
<1>6. Shares({ga}, kept, pieces)
  BY <1>4, <1>5 DEF Shares
<1>7. ASSUME NEW S \in Parts({ga}, kept, pieces) PROVE Intact(S)
  <2>1. S = stay \/ S = moved
    BY <1>5 DEF Parts
  <2> QED BY <2>1
<1>8. Regroups({ga}, kept, pieces, q)
  BY <1>3, <1>5, <1>6 DEF Regroups
<1> QED BY <1>7, <1>8 DEF Mends

LEMMA SplitMends ==
  ASSUME Consistent, Apart(groups), Unbroken(groups), NEW op \in Ops, NEW ga \in Slots, NEW v,
         ApplySplit(op, v, ga),
         NEW stay, stay = SideOf(groups[ga], op, v), NEW moved, moved = groups[ga] \ stay,
         Sheds(stay, moved), Sheds(moved, stay)
  PROVE  Mends
<1>1. groups[ga] \subseteq Ops /\ stay \subseteq groups[ga]
  BY DEF SideOf, Consistent, TypeOK
<1>2. ASSUME NEW S, NEW T, S \cup T = groups[ga], Sheds(S, T) PROVE Intact(S)
  <2> SUFFICES ASSUME NEW t \in S, t \notin prob.required, ConsumedIn(t, S),
                      NEW c \in Consumers(t) \ S
               PROVE  FALSE
    BY DEF Intact
  <2>1. t \in groups[ga] /\ ConsumedIn(t, groups[ga]) /\ t \in Ops
    BY <1>1, <1>2 DEF ConsumedIn
  <2>2. c \in T
    BY <1>1, <1>2, <2>1 DEF Unbroken
  <2>3. t \in Producers(c)
    BY <2>1 DEF Producers, Consumers
  <2>4. IsEphemeral(S, t)
    BY DEF IsEphemeral, IsBoundaryOutput
  <2> QED BY <1>2, <2>2, <2>3, <2>4 DEF Sheds
<1>3. Intact(stay) /\ Intact(moved)
  <2>1. stay \cup moved = groups[ga] /\ moved \cup stay = groups[ga]
    BY <1>1
  <2>2. Intact(stay)
    BY <1>2, <2>1
  <2>3. Intact(moved)
    BY <1>2, <2>1
  <2> QED BY <2>2, <2>3
<1> QED BY <1>3, CutMends

(* Pulling X out of the groups G, into a group of its own.                 *)
Trimmed(G, X) == [g \in G |-> FirstComponent(groups[g] \ X)]

Remnants(G, X) == (UNION {Leftover(g, groups[g] \ X) : g \in G}) \cup {<<Rank(0), X>>}

LEMMA ExtractRegroups ==
  ASSUME Consistent, Apart(groups), NEW G \in SUBSET Alive, NEW X \in (SUBSET Union(G)) \ {{}},
         NEW pieces, pieces = Remnants(G, X), NEW kept, kept = Trimmed(G, X),
         NEW q \in Layouts(pieces), groups' = NewTable(kept, q), prob' = prob
  PROVE  /\ Regroups(G, kept, pieces, q)
         /\ \A S \in Parts(G, kept, pieces) :
              \/ S = X \/ S = {}
              \/ \E g \in G : S \in Components(groups[g] \ X)
<1> USE DEF Trimmed, Remnants
<1>1. \A g \in G : g \in Slots /\ groups[g] \in SUBSET Ops /\ g \in Int
  BY SlotsFinite DEF Alive, Consistent, TypeOK
<1>2. ASSUME NEW g \in G
      PROVE  /\ kept[g] \in Components(groups[g] \ X) \cup {{}}
             /\ kept[g] \subseteq groups[g] \ X
             /\ \A x \in Leftover(g, groups[g] \ X) :
                  /\ x[1] = g
                  /\ x[2] \in Components(groups[g] \ X)
                  /\ x[2] \in (SUBSET (groups[g] \ X)) \ {{}}
                  /\ x[2] \cap kept[g] = {}
             /\ \A x, y \in Leftover(g, groups[g] \ X) : x # y => x[2] \cap y[2] = {}
  <2>1. PICK rest : rest = groups[g] \ X
    OBVIOUS
  <2>2. rest \in SUBSET Ops
    BY <1>1, <2>1
  <2>3. kept[g] = FirstComponent(rest)
    BY <2>1
  <2>4. /\ FirstComponent(rest) \subseteq rest
        /\ FirstComponent(rest) \in Components(rest) \cup {{}}
        /\ \A x \in Leftover(g, rest) : /\ x[1] = g
                                        /\ x[2] \in Components(rest)
                                        /\ x[2] \in (SUBSET rest) \ {{}}
                                        /\ x[2] \cap FirstComponent(rest) = {}
        /\ \A x, y \in Leftover(g, rest) : x # y => x[2] \cap y[2] = {}
    BY ONLY <2>2, FallsApart, FirstInside
  <2> QED BY <2>1, <2>3, <2>4
<1>3. ASSUME NEW x \in pieces
      PROVE  \/ x = <<Rank(0), X>> /\ x[1] = Rank(0) /\ x[2] = X
             \/ \E g \in G : x \in Leftover(g, groups[g] \ X)
  <2>1. CASE x = <<Rank(0), X>>
    BY <2>1
  <2>2. CASE x # <<Rank(0), X>>
    <3>1. x \in UNION {Leftover(g, groups[g] \ X) : g \in G}
      BY <2>2
    <3> QED BY <3>1
  <2> QED BY <2>1, <2>2
<1>4. DOMAIN kept = G /\ Rank(0) \in Int
  BY MaxGroupsAssumption DEF Rank
<1>5. \A g \in G : groups[g] \subseteq Union(G)
  BY DEF Union
<1>6. \A g, h \in G : g # h => groups[g] \cap groups[h] = {}
  BY <1>1 DEF Apart
<1>7. ASSUME NEW x \in pieces
      PROVE  /\ x[1] \in Int /\ x[2] \in (SUBSET Union(G)) \ {{}}
             /\ \A g \in G : kept[g] \cap x[2] = {}
  <2>1. CASE x[1] = Rank(0) /\ x[2] = X
    <3>1. \A g \in G : kept[g] \cap X = {}
      <4>1. \A g \in G : kept[g] \subseteq groups[g] \ X
        BY ONLY <1>2
      <4> QED BY ONLY <4>1
    <3>2. x[1] \in Int /\ x[2] \in (SUBSET Union(G)) \ {{}}
      BY ONLY <1>4, <2>1, X \in (SUBSET Union(G)) \ {{}}
    <3>3. \A g \in G : kept[g] \cap x[2] = {}
      BY ONLY <2>1, <3>1
    <3> QED BY ONLY <3>2, <3>3
  <2>2. CASE \E g \in G : x \in Leftover(g, groups[g] \ X)
    <3>1. PICK g \in G : x \in Leftover(g, groups[g] \ X)
      BY <2>2
    <3>2. x[1] = g /\ x[2] \subseteq groups[g] \ X /\ x[2] # {} /\ x[2] \cap kept[g] = {}
      BY <1>2, <3>1
    <3>3. ASSUME NEW h \in G PROVE kept[h] \cap x[2] = {}
      <4>1. CASE h = g
        BY <3>2, <4>1
      <4>2. CASE h # g
        <5>1. kept[h] \subseteq groups[h] /\ groups[h] \cap groups[g] = {}
          BY <1>2, <1>6, <4>2
        <5> QED BY <3>2, <5>1
      <4> QED BY <4>1, <4>2
    <3> QED BY ONLY <1>1, <1>5, <3>1, <3>2, <3>3
  <2> QED BY ONLY <1>3, <2>1, <2>2, x \in pieces
<1>8. ASSUME NEW x \in pieces, NEW y \in pieces, x # y PROVE x[2] \cap y[2] = {}
  <2>4. ASSUME NEW z, NEW g \in G, z \in Leftover(g, groups[g] \ X) PROVE z[2] \cap X = {}
    <3>1. z[2] \subseteq groups[g] \ X
      BY ONLY <1>2, <2>4
    <3> QED BY ONLY <3>1
  <2>1. CASE x[2] = X /\ \E g \in G : y \in Leftover(g, groups[g] \ X)
    BY ONLY <2>1, <2>4
  <2>2. CASE y[2] = X /\ \E g \in G : x \in Leftover(g, groups[g] \ X)
    BY ONLY <2>2, <2>4
  <2>3. CASE /\ \E g \in G : x \in Leftover(g, groups[g] \ X)
             /\ \E g \in G : y \in Leftover(g, groups[g] \ X)
    <3>1. PICK g \in G : x \in Leftover(g, groups[g] \ X)
      BY <2>3
    <3>2. PICK h \in G : y \in Leftover(h, groups[h] \ X)
      BY <2>3
    <3>3. CASE g = h
      BY <1>2, <1>8, <3>1, <3>2, <3>3
    <3>4. CASE g # h
      <4>1. x[2] \subseteq groups[g] /\ y[2] \subseteq groups[h]
        BY <1>2, <3>1, <3>2
      <4>2. groups[g] \cap groups[h] = {}
        BY <1>6, <3>4
      <4> QED BY <4>1, <4>2
    <3> QED BY <3>3, <3>4
  <2> QED BY <1>3, <1>8, <2>1, <2>2, <2>3
<1>9. Shares(G, kept, pieces)
  <2>1. \A g \in G : kept[g] \subseteq Union(G)
    BY <1>2, <1>5
  <2>2. ASSUME NEW g \in G, NEW h \in G, g # h PROVE kept[g] \cap kept[h] = {}
    <3>1. kept[g] \subseteq groups[g] /\ kept[h] \subseteq groups[h]
      BY <1>2
    <3>2. groups[g] \cap groups[h] = {}
      BY <1>6, <2>2
    <3> QED BY <3>1, <3>2
  <2> QED BY <1>7, <1>8, <2>1, <2>2 DEF Shares
<1>10. ASSUME NEW S \in Parts(G, kept, pieces)
       PROVE  \/ S = X \/ S = {}
              \/ \E g \in G : S \in Components(groups[g] \ X)
  <2>1. CASE \E g \in G : S = kept[g]
    <3>1. PICK g \in G : S = kept[g]
      BY <2>1
    <3>2. S \in Components(groups[g] \ X) \/ S = {}
      BY <1>2, <3>1
    <3> QED BY <3>2
  <2>2. CASE \E x \in pieces : S = x[2]
    <3>1. PICK x \in pieces : S = x[2]
      BY <2>2
    <3>2. CASE x[2] = X
      BY <3>1, <3>2
    <3>3. CASE \E g \in G : x \in Leftover(g, groups[g] \ X)
      <4>1. PICK g \in G : x \in Leftover(g, groups[g] \ X)
        BY <3>3
      <4>2. S \in Components(groups[g] \ X)
        BY <1>2, <3>1, <4>1
      <4> QED BY <4>2
    <3> QED BY <1>3, <3>2, <3>3
  <2> QED BY <2>1, <2>2 DEF Parts
<1>11. Regroups(G, kept, pieces, q)
  BY <1>4, <1>9 DEF Regroups
<1> QED BY <1>10, <1>11

(* A tensor move takes every op of t from the groups it names.             *)
LEMMA CandidateHoldsAll ==
  ASSUME Inv, NEW op \in Ops, NEW locked, NEW t, NEW G, Around(op, locked, t, G)
  PROVE  Extracted(t) \in (SUBSET Union(G)) \ {{}}
<1>1. t \in SharedTensors(op) /\ G \in TensorGroups(t)
  BY AroundIsLive
<1>6. Cardinality(Consumers(t)) >= 2
  BY <1>1 DEF SharedTensors
<1>7. Consumers(t) # {} /\ Consumers(t) \subseteq Ops
  BY <1>6, FS_EmptySet DEF Consumers
<1>8. \A o \in Ops : GroupsOf(o) # {} /\ \A g \in GroupsOf(o) : o \in groups[g]
  BY HoldersAreLive DEF Inv, Consistent, AllHeld
<1>9. PICK users : users = UNION {GroupsOf(c) : c \in Consumers(t)}
  OBVIOUS
<1>10. G = users \/ \E h \in GroupsOf(t) : t \in Ops /\ G = users \cup {h}
  BY <1>1, <1>9 DEF TensorGroups
<1>11. t \in Ops => \E h \in GroupsOf(t) : G = users \cup {h}
  BY <1>1, <1>8, <1>9 DEF TensorGroups
<1>12. ASSUME NEW c \in Consumers(t) PROVE c \in Union(G)
  <2>1. PICK g \in GroupsOf(c) : c \in groups[g]
    BY <1>7, <1>8
  <2>2. g \in G
    BY <1>9, <1>10, <2>1
  <2> QED BY <2>1, <2>2 DEF Union
<1>13. ASSUME t \in Ops PROVE t \in Union(G)
  <2>1. PICK h \in GroupsOf(t) : G = users \cup {h}
    BY <1>11, <1>13
  <2>2. t \in groups[h] /\ h \in G
    BY <1>8, <1>13, <2>1
  <2> QED BY <2>2 DEF Union
<1> QED BY <1>7, <1>12, <1>13 DEF Extracted

(* What a TENSOR_EXTRACT step does.                                        *)
Extracts(t, G, kept, pieces, q) ==
  /\ G \in SUBSET Alive
  /\ Extracted(t) \in (SUBSET Union(G)) \ {{}}
  /\ Regroups(G, kept, pieces, q)
  /\ \A S \in Parts(G, kept, pieces) :
       \/ S = Extracted(t) \/ S = {}
       \/ \E g \in G : S \in Components(groups[g] \ Extracted(t))

LEMMA TensorExtractExtracts ==
  ASSUME Consistent, Apart(groups), NEW t, NEW G, ApplyTensorExtract(t, G),
         Extracted(t) \in (SUBSET Union(G)) \ {{}}
  PROVE  \E kept, pieces, q : Extracts(t, G, kept, pieces, q)
<1>5. PICK X : X = Extracted(t)
  OBVIOUS
<1>6. PICK pieces : pieces = Remnants(G, X)
  OBVIOUS
<1>7. PICK kept : kept = Trimmed(G, X)
  OBVIOUS
<1>8. PICK q \in Layouts(pieces) : groups' = NewTable(kept, q) /\ prob' = prob
  <2>1. Scatter(G, X, {<<Rank(0), X>>})
    BY <1>5 DEF ApplyTensorExtract
  <2> QED BY <1>6, <1>7, <2>1 DEF Scatter, Commit, Trimmed, Remnants
<1>9. G \in SUBSET Alive /\ X \in (SUBSET Union(G)) \ {{}}
  BY <1>5 DEF ApplyTensorExtract, TensorExtractApplies
<1>10. /\ Regroups(G, kept, pieces, q)
       /\ \A S \in Parts(G, kept, pieces) :
            \/ S = X \/ S = {}
            \/ \E g \in G : S \in Components(groups[g] \ X)
  BY ONLY Consistent, Apart(groups), <1>6, <1>7, <1>8, <1>9, ExtractRegroups
<1>11. Extracts(t, G, kept, pieces, q)
  BY <1>5, <1>9, <1>10 DEF Extracts
<1> QED BY <1>11

(* The parts a TENSOR_EXTRACT leaves, as its check saw them.               *)
LEMMA ExtractIntact ==
  ASSUME Consistent, Apart(groups), NEW G \in SUBSET Alive, NEW X \in (SUBSET Union(G)) \ {{}},
         NEW parts, parts = {X} \cup Remains(G, X), ~SplitCreatesEphemeralGap(parts, G)
  PROVE  \A S \in parts : Intact(S)
<1>5. /\ \A g \in G : groups[g] \in SUBSET Ops /\ groups[g] \subseteq Union(G)
      /\ G \in SUBSET Slots
      /\ \A g, h \in G : g # h => groups[g] \cap groups[h] = {}
  BY DEF Alive, Consistent, TypeOK, Union, Apart
<1>6. ASSUME NEW S \in parts PROVE S = X \/ \E g \in G : S \in Components(groups[g] \ X)
  BY DEF Remains
<1>7. ASSUME NEW g \in G, NEW S \in Components(groups[g] \ X) PROVE S \subseteq groups[g] \ X
  <2>1. groups[g] \ X \in SUBSET Ops
    BY <1>5
  <2> QED BY <2>1, ComponentInside DEF Components
<1>8. \A S \in parts : S \subseteq Union(G)
  <2> SUFFICES ASSUME NEW S \in parts PROVE S \subseteq Union(G)
    OBVIOUS
  <2>1. CASE S = X
    BY <2>1
  <2>2. CASE \E g \in G : S \in Components(groups[g] \ X)
    <3>1. PICK g \in G : S \in Components(groups[g] \ X)
      BY <2>2
    <3>2. S \subseteq groups[g] \ X /\ groups[g] \subseteq Union(G)
      BY <1>5, <1>7, <3>1
    <3> QED BY ONLY <3>2
  <2> QED BY <1>6, <2>1, <2>2
<1>9. ASSUME NEW S \in parts, NEW T \in parts, S # T PROVE S \cap T = {}
  <2>1. CASE S = X /\ \E g \in G : T \in Components(groups[g] \ X)
    BY <1>7, <2>1
  <2>2. CASE T = X /\ \E g \in G : S \in Components(groups[g] \ X)
    BY <1>7, <2>2
  <2>3. CASE /\ \E g \in G : S \in Components(groups[g] \ X)
             /\ \E g \in G : T \in Components(groups[g] \ X)
    <3>1. PICK g \in G : S \in Components(groups[g] \ X)
      BY <2>3
    <3>2. PICK h \in G : T \in Components(groups[h] \ X)
      BY <2>3
    <3>3. CASE g = h
      <4>1. groups[g] \ X \in SUBSET Ops
        BY <1>5
      <4> QED BY <1>9, <3>1, <3>2, <3>3, <4>1, ComponentsApart
    <3>4. CASE g # h
      BY <1>5, <1>7, <3>1, <3>2, <3>4
    <3> QED BY <3>3, <3>4
  <2> QED BY <1>6, <1>9, <2>1, <2>2, <2>3
<1> QED BY <1>5, <1>8, <1>9, CheckedParts

LEMMA TensorExtractMends ==
  ASSUME Consistent, Apart(groups), NEW t, NEW G, ApplyTensorExtract(t, G),
         NEW X, X = Extracted(t), X \in (SUBSET Union(G)) \ {{}},
         \A S \in {X} \cup Remains(G, X) : Intact(S)
  PROVE  Mends
<1>1. PICK kept, pieces, q : Extracts(t, G, kept, pieces, q)
  BY TensorExtractExtracts
<1>2. ASSUME NEW S \in Parts(G, kept, pieces) PROVE Intact(S)
  <2>1. CASE S = {}
    BY <2>1 DEF Intact
  <2>2. CASE S # {}
    <3>1. S \in {X} \cup Remains(G, X)
      BY <1>1, <2>2 DEF Extracts, Remains
    <3> QED BY <3>1
  <2> QED BY <2>1, <2>2
<1> QED BY <1>1, <1>2 DEF Mends, Extracts

-----------------------------------------------------------------------------
LEMMA CandidatesMend ==
  ASSUME Inv, Apart(groups), Unbroken(groups), Next, last' \in GapChecked
  PROVE  Mends
<1>0. \A o \in Ops : Holders(o) \subseteq Slots /\ GroupsOf(o) \subseteq Slots
  BY DEF Holders, GroupsOf
<1>1. CASE Eject
  <2>1. PICK op \in Ops : \E m \in EjectMoves(op) : ApplyEject(op, m.ga)
    BY <1>1 DEF Eject
  <2>2. PICK m \in EjectMoves(op) : ApplyEject(op, m.ga)
    BY <2>1
  <2>3. m.ga \in Slots /\ ~EjectCreatesEphemeralGap(op, m.ga)
    BY <1>0, EjectMove DEF EjectAdmitted
  <2>4. Leaves(op, groups[m.ga])
    BY <2>3, EjectLeaves DEF Inv
  <2> QED BY <2>2, <2>3, <2>4, EjectMends DEF Inv
<1>2. CASE Split
  <2>1. PICK op \in Ops : \E m \in SplitMoves(op) : ApplySplit(op, m.v, m.ga)
    BY <1>2 DEF Split
  <2>2. PICK m \in SplitMoves(op) : ApplySplit(op, m.v, m.ga)
    BY <2>1
  <2>3. PICK stay : stay = SideOf(groups[m.ga], op, m.v)
    OBVIOUS
  <2>4. PICK moved : moved = groups[m.ga] \ stay
    OBVIOUS
  <2>5. m.ga \in Slots /\ ~SplitCreatesGapLocal(stay, moved, m.ga)
    BY <1>0, <2>3, <2>4, SplitMove
  <2>6. stay \in SUBSET groups[m.ga] /\ moved \subseteq groups[m.ga]
    BY <2>3, <2>4 DEF SideOf
  <2>7. Sheds(stay, moved) /\ Sheds(moved, stay)
    BY <2>5, <2>6, SplitSheds DEF Inv
  <2> QED BY <2>2, <2>3, <2>4, <2>5, <2>7, SplitMends DEF Inv
<1>3. CASE Steal
  <2>1. PICK op \in Ops : \E m \in StealMoves(op) : ApplySteal(op, m.ga, m.gb)
    BY <1>3 DEF Steal
  <2>2. PICK m \in StealMoves(op) : ApplySteal(op, m.ga, m.gb)
    BY <2>1
  <2>3. /\ m.ga \in Holders(op) /\ m.ga \in Slots /\ m.gb \in Slots /\ m.ga # m.gb
        /\ ~SplitCreatesEphemeralGap({groups[m.gb] \cup {op}, groups[m.ga] \ {op}}, {m.ga, m.gb})
    BY <1>0, StealMove DEF AdjGroups, Alive
  <2>4. Intact(groups[m.gb] \cup {op}) /\ Intact(groups[m.ga] \ {op})
    BY <2>3, StealIntact DEF Inv
  <2> QED BY <2>2, <2>3, <2>4, StealMends DEF Inv
<1>4. CASE Merge
  <2>1. PICK op \in Ops : \E m \in MergeMoves(op) : ApplyMerge(m.ga, m.gb)
    BY <1>4 DEF Merge
  <2>2. PICK m \in MergeMoves(op) : ApplyMerge(m.ga, m.gb)
    BY <2>1
  <2>3. Gathers({m.ga, m.gb}, m.ga) /\ Union({m.ga, m.gb}) = groups[m.ga] \cup groups[m.gb]
    BY <2>2, MergeGathers
  <2>6. m.ga \in AdjGroups(op) /\ m.gb \in Holders(op)
        /\ ~CreatesEphemeralGap(groups[m.ga] \cup groups[m.gb], {m.ga, m.gb})
    BY MergeMove
  <2>7. m.ga \in Slots /\ m.gb \in Slots
    BY <1>0, <2>6 DEF AdjGroups, Alive
  <2>4. ~CreatesEphemeralGap(Union({m.ga, m.gb}), {m.ga, m.gb}) /\ {m.ga, m.gb} \in SUBSET Slots
    BY <2>3, <2>6, <2>7
  <2>5. Intact(Union({m.ga, m.gb}))
    BY <2>4, CheckedUnion DEF Inv
  <2> QED BY <2>3, <2>5, GatherMends DEF Inv
<1>5. CASE TensorMerge
  <2>1. PICK op \in Ops : \E m \in TensorMergeMoves(op, {}) : ApplyTensorMerge(m.gs)
    BY <1>5 DEF TensorMerge
  <2>2. PICK m \in TensorMergeMoves(op, {}) : ApplyTensorMerge(m.gs)
    BY <2>1
  <2>3. m.gs \in (SUBSET Alive) \ {{}} /\ ~CreatesEphemeralGap(Union(m.gs), m.gs)
    BY TensorMergeMove, AroundIsLive
  <2>4. m.gs \in SUBSET Slots
    BY <2>3 DEF Alive
  <2>5. Intact(Union(m.gs))
    BY <2>3, <2>4, CheckedUnion DEF Inv
  <2> QED BY <2>2, <2>3, <2>5, TensorMergeGathers, GatherMends DEF Inv
<1>6. CASE TensorExtract
  <2>1. PICK op \in Ops : \E m \in TensorExtractMoves(op, {}) : ApplyTensorExtract(m.t, m.gs)
    BY <1>6 DEF TensorExtract
  <2>2. PICK m \in TensorExtractMoves(op, {}) : ApplyTensorExtract(m.t, m.gs)
    BY <2>1
  <2>3. PICK X : X = Extracted(m.t)
    OBVIOUS
  <2>4. PICK parts : parts = {X} \cup Remains(m.gs, X)
    OBVIOUS
  <2>5. Around(op, {}, m.t, m.gs) /\ ~SplitCreatesEphemeralGap(parts, m.gs)
    BY <2>3, <2>4, TensorExtractMove
  <2>6. m.gs \in SUBSET Alive /\ X \in (SUBSET Union(m.gs)) \ {{}}
    BY <2>3, <2>5, AroundIsLive, CandidateHoldsAll
  <2>7. \A S \in parts : Intact(S)
    BY <2>4, <2>5, <2>6, ExtractIntact DEF Inv
  <2> QED BY <2>2, <2>3, <2>4, <2>6, <2>7, TensorExtractMends DEF Inv
<1>7. ~DeRecompute /\ ~Recompute /\ ~TensorExtractSplit /\ ~ForceRecompute
  BY DEF GapChecked, DeRecompute, Recompute, TensorExtractSplit, ForceRecompute, Take
<1> QED BY <1>1, <1>2, <1>3, <1>4, <1>5, <1>6, <1>7 DEF Next

LEMMA MendedHasNoGap ==
  ASSUME Consistent, Consistent', Disjoint, ~HasEphemeralGap, Mends
  PROVE  ~HasEphemeralGap'
<1>1. PICK G, kept, pieces, q : /\ Regroups(G, kept, pieces, q)
                                /\ \A S \in Parts(G, kept, pieces) : Intact(S)
  BY DEF Mends
<1> QED BY <1>1, RegroupStaysGapFree

(* A move that looks for ephemeral gaps leaves none in a partition that    *)
(* had none and recomputes nothing: the check each move makes of the sets  *)
(* it forms (creates_ephemeral_gap, split_creates_ephemeral_gap and their  *)
(* kin, looking only at the groups it edits) is as good as                 *)
(* partition_has_gap looking at them all.                                  *)
THEOREM ChecksKeepGapFree == Spec => StaysGapFree
<1>1. ASSUME Inv, Inv', [Next]_fmVars, Disjoint, ~HasEphemeralGap, last' \in GapChecked
      PROVE  ~HasEphemeralGap' \/ UNCHANGED fmVars
  <2>1. Apart(groups) /\ Unbroken(groups)
    BY <1>1, ApartMeans, UnbrokenMeans DEF Inv
  <2> QED BY <1>1, <2>1, CandidatesMend, MendedHasNoGap DEF Inv
<1>2. ASSUME Inv, UNCHANGED fmVars, ~HasEphemeralGap PROVE ~HasEphemeralGap'
  BY <1>2 DEF fmVars, HasEphemeralGap, HasGapBeyond, Exported, IsEphemeral, IsBoundaryOutput,
              ConsumedIn, Consumers, GroupsOf, Alive
<1>3. Inv /\ Inv' /\ [Next]_fmVars =>
        [Disjoint /\ ~HasEphemeralGap /\ last' \in GapChecked => ~HasEphemeralGap']_fmVars
  BY <1>1, <1>2
<1> QED BY <1>3, Invariance, PTL DEF Spec, StaysGapFree
-----------------------------------------------------------------------------
(* Reachability: what the searches of the cycle checks return is closed.   *)

LEMMA SlotsCount == IsFiniteSet(Slots) /\ Cardinality(Slots) <= MaxGroups
  BY FS_Interval, MaxGroupsAssumption DEF Slots

LEMMA ReachIsClosed ==
  ASSUME NEW X \in SUBSET Slots
  PROVE  /\ X \subseteq ReachFrom(X) /\ ReachFrom(X) \subseteq Slots
         /\ \A g \in ReachFrom(X), h \in Slots : <<g, h>> \in edges => h \in ReachFrom(X)
<1> DEFINE Body(g) == [n \in 0..MaxGroups |->
                         IF n = 0 THEN X ELSE g[n - 1] \cup Succs(g[n - 1])]
           F == [S \in SUBSET Slots |-> Succs(S)]
<1>1. F \in [SUBSET Slots -> SUBSET Slots]
  BY DEF Succs
<1>2. PICK f \in [0..MaxGroups -> SUBSET Slots] : Grows(f, MaxGroups, X, F)
  <2> HIDE DEF F
  <2> QED BY <1>1, GrowthExists, MaxGroupsAssumption
<1>3. f = Body(f)
  <2>1. f[0] = X
    BY <1>2 DEF Grows
  <2>2. ASSUME NEW n \in 1..MaxGroups PROVE f[n] = f[n - 1] \cup Succs(f[n - 1])
    <3>1. f[n - 1] \in SUBSET Slots
      BY MaxGroupsAssumption
    <3> QED BY <1>2, <3>1 DEF Grows
  <2> QED BY <2>1, <2>2, MaxGroupsAssumption
<1>4. \E g : g = Body(g)
  BY <1>3
<1> DEFINE r == CHOOSE g : g = Body(g)
<1>5. r = Body(r)
  BY <1>4, Zenon
<1>6. ReachFrom(X) = r[MaxGroups]
  BY DEF ReachFrom
<1> HIDE DEF r
<1>7. /\ r[0] = X
      /\ \A n \in 1..MaxGroups : r[n] = r[n - 1] \cup Succs(r[n - 1])
  <2>1. ASSUME NEW n \in 0..MaxGroups
        PROVE  r[n] = IF n = 0 THEN X ELSE r[n - 1] \cup Succs(r[n - 1])
    <3>1. Body(r)[n] = IF n = 0 THEN X ELSE r[n - 1] \cup Succs(r[n - 1])
      OBVIOUS
    <3>2. r[n] = Body(r)[n]
      <4> HIDE DEF Body
      <4> QED BY <1>5
    <3> HIDE DEF Body
    <3> QED BY <3>1, <3>2
  <2> HIDE DEF Body
  <2>2. r[0] = X
    <3>1. 0 \in 0..MaxGroups
      BY MaxGroupsAssumption
    <3> QED BY <2>1, <3>1
  <2>3. ASSUME NEW n \in 1..MaxGroups PROVE r[n] = r[n - 1] \cup Succs(r[n - 1])
    <3>1. n \in 0..MaxGroups /\ n # 0
      BY MaxGroupsAssumption
    <3> QED BY <2>1, <3>1
  <2> QED BY <2>2, <2>3
<1>8. Grows(r, MaxGroups, X, F)
  <2> DEFINE T == {n \in Nat : r[n] \in SUBSET Slots}
  <2>1. 0 \in T
    BY <1>7
  <2>2. ASSUME NEW n \in 0..(MaxGroups - 1), n \in T PROVE n + 1 \in T
    <3>1. n + 1 \in 1..MaxGroups /\ (n + 1) - 1 = n /\ r[n] \in SUBSET Slots
      BY <2>2, MaxGroupsAssumption
    <3>2. r[n + 1] = r[n] \cup Succs(r[n])
      BY <1>7, <3>1
    <3> QED BY <3>1, <3>2 DEF Succs
  <2>3. 0..MaxGroups \subseteq T
    <3> HIDE DEF T
    <3> QED BY <2>1, <2>2, InductionUpTo, MaxGroupsAssumption
  <2>4. ASSUME NEW n \in 1..MaxGroups PROVE r[n] = r[n - 1] \cup F[r[n - 1]]
    <3>1. n - 1 \in 0..MaxGroups
      BY MaxGroupsAssumption
    <3>2. r[n - 1] \in SUBSET Slots
      BY <2>3, <3>1
    <3> QED BY <1>7, <3>2
  <2> QED BY <1>7, <2>4 DEF Grows
<1>9. X \subseteq r[MaxGroups] /\ r[MaxGroups] \in SUBSET Slots /\ F[r[MaxGroups]] \subseteq r[MaxGroups]
  <2> HIDE DEF F
  <2> QED BY <1>1, <1>8, GrowthStops, SlotsCount, MaxGroupsAssumption
<1> QED BY <1>6, <1>9 DEF Succs

(* A group that waits for h is one edge away from h.                       *)
LEMMA WaitingIsEdge ==
  ASSUME Consistent, Apart(groups), NEW g \in Slots, NEW h \in Slots, DependsOn(groups, g, h)
  PROVE  <<h, g>> \in edges
<1>1. PICK p \in groups[h], c \in groups[g] : c \in Consumers(p) /\ g # h
  BY DEF DependsOn
<1>2. p \notin groups[g] /\ c \notin groups[h]
  BY <1>1 DEF Apart
<1>3. g \in Alive /\ h \in Alive
  BY <1>1 DEF Alive
<1> QED BY <1>1, <1>2, <1>3 DEF Consistent, GdagComplete

(* A set of groups in which every member waits for another.                *)
Stuck(tab, Y) ==
  /\ Y \in (SUBSET Slots) \ {{}}
  /\ \A g \in Y : \E h \in Y : DependsOn(tab, g, h)

LEMMA OrderlyIsNeverStuck ==
  ASSUME NEW tab
  PROVE  Orderly(tab) <=> \A Y : ~Stuck(tab, Y)
  BY DEF Orderly, Starts, Stuck

(* Gathering G in s.                                                       *)
LEMMA GatherStaysOrderly ==
  ASSUME Consistent, Apart(groups), Orderly(groups), NEW G, NEW s, Gathers(G, s), ~MergeCreatesCycle(G)
  PROVE  Orderly(groups') /\ prob' = prob /\ Apart(groups')
<1> USE DEF Gathers
<1>1. PICK tab : tab = groups'
  OBVIOUS
<1>2. G \subseteq Slots
  BY DEF Alive
<1>3. \A g \in Slots : tab[g] = IF g = s THEN Union(G) ELSE IF g \in G THEN {} ELSE groups[g]
  <2>1. DOMAIN <<>> = {}
    OBVIOUS
  <2> QED BY <1>1, <2>1 DEF NewTable
<1>4. Apart(tab)
  <2>1. PICK kept : kept = [g \in G |-> IF g = s THEN Union(G) ELSE {}]
    OBVIOUS
  <2>2. Regroups(G, kept, {}, <<>>)
    BY <2>1, GatherRegroups
  <2> QED BY <1>1, <2>2, SharedTable DEF Regroups
<1> SUFFICES ASSUME NEW Y, Stuck(tab, Y) PROVE FALSE
  BY <1>1, <1>4, OrderlyIsNeverStuck
<1>5. /\ Y \in (SUBSET Slots) \ {{}}
      /\ \A g \in Y : \E h \in Y : DependsOn(tab, g, h)
  BY DEF Stuck
<1>6. \A Z : ~Stuck(groups, Z)
  BY OrderlyIsNeverStuck
<1>8. ASSUME NEW g \in Y PROVE g = s \/ g \notin G
  BY <1>3, <1>5 DEF DependsOn
<1>9. PICK R : R = ReachFrom(Succs(G) \ G)
  OBVIOUS
<1>10. /\ Succs(G) \ G \subseteq R /\ R \cap G = {}
      /\ \A g \in R, h \in Slots : <<g, h>> \in edges => h \in R
  <2>1. Succs(G) \ G \in SUBSET Slots
    BY DEF Succs
  <2> QED BY <1>9, <2>1, ReachIsClosed DEF MergeCreatesCycle
<1>11. ASSUME NEW g \in Y \ {s}, NEW h \in Y \ {s}, DependsOn(tab, g, h)
      PROVE  DependsOn(groups, g, h) /\ (h \in R => g \in R)
  <2>1. tab[g] = groups[g] /\ tab[h] = groups[h] /\ g \in Slots /\ h \in Slots
    BY <1>3, <1>5, <1>8
  <2>2. DependsOn(groups, g, h)
    BY <1>11, <2>1 DEF DependsOn
  <2> QED BY <1>10, <2>1, <2>2, WaitingIsEdge
<1>12. CASE s \notin Y
  <2>1. Stuck(groups, Y)
    BY <1>5, <1>11, <1>12 DEF Stuck
  <2> QED BY <1>6, <2>1
<1>13. CASE s \in Y
  <2>1. PICK h \in Y : DependsOn(tab, s, h)
    BY <1>5, <1>13
  <2>2. h # s /\ h \notin G /\ h \in Slots
    BY <1>5, <1>8, <2>1 DEF DependsOn
  <2>3. h \notin R
    <3>1. PICK p \in groups[h], c \in Union(G) : c \in Consumers(p)
      BY <1>2, <1>3, <2>1, <2>2 DEF DependsOn
    <3>2. PICK g \in G : c \in groups[g]
      BY <3>1 DEF Union
    <3>3. g \in Slots /\ DependsOn(groups, g, h)
      BY <1>2, <2>2, <3>1, <3>2 DEF DependsOn
    <3> QED BY <1>10, <2>2, <3>2, <3>3, WaitingIsEdge
  <2> DEFINE B == {k \in Y \ {s} : k \notin R}
  <2>4. ASSUME NEW k \in B PROVE \E l \in B : DependsOn(groups, k, l)
    <3>1. PICK l \in Y : DependsOn(tab, k, l)
      BY <1>5
    <3>2. l # s
      <4> SUFFICES ASSUME l = s PROVE FALSE
        OBVIOUS
      <4>1. k \in Slots /\ k \notin G /\ tab[k] = groups[k] /\ tab[s] = Union(G)
        BY <1>2, <1>3, <1>5, <1>8
      <4>2. PICK p \in Union(G), c \in groups[k] : c \in Consumers(p)
        BY <3>1, <4>1 DEF DependsOn
      <4>3. PICK g \in G : p \in groups[g]
        BY <4>2 DEF Union
      <4>4. g \in Slots /\ DependsOn(groups, k, g)
        BY <1>2, <4>1, <4>2, <4>3 DEF DependsOn
      <4>5. <<g, k>> \in edges
        BY <4>1, <4>4, WaitingIsEdge
      <4>6. k \in Succs(G) \ G
        BY <4>1, <4>3, <4>5 DEF Succs
      <4> QED BY <1>10, <4>6
    <3> QED BY <1>11, <3>1, <3>2
  <2>5. h \in B
    BY <2>2, <2>3
  <2>6. B \in (SUBSET Slots) \ {{}}
    BY <1>5, <2>5
  <2>7. Stuck(groups, B)
    <3> HIDE DEF B
    <3> QED BY <2>4, <2>6 DEF Stuck
  <2> QED BY <1>6, <2>7
<1> QED BY <1>12, <1>13
LEMMA OrderlyTable ==
  ASSUME prob' = prob, NEW tab, tab = groups', Orderly(tab)
  PROVE  Orderly(groups)'
  BY DEF Orderly, Starts, DependsOn, Consumers

(* The op that is copied is the only one with two holders.                 *)
LEMMA RecomputeStaysAcyclic ==
  ASSUME Inv, Inv', Apart(groups), Orderly(groups), Recompute
  PROVE  IsAcyclic'
<1>1. PICK op \in Ops : \E m \in RecomputeMoves(op) : ApplyRecompute(op, m.gb)
  BY DEF Recompute
<1>2. PICK g \in AdjGroups(op) : ~RecomputeCreatesCycle(op, g) /\ ApplyRecompute(op, g)
  BY <1>1 DEF RecomputeMoves
<1>3. /\ prob' = prob
      /\ groups' = NewTable([k \in {g} |-> groups[g] \cup {op}], <<>>)
  BY <1>2 DEF ApplyRecompute, Commit
<1>4. g \in Slots /\ g \in Alive /\ op \notin groups[g] /\ groups \in [Slots -> SUBSET Ops]
  BY <1>2 DEF AdjGroups, Alive, Inv, Consistent, TypeOK
<1>5. \A k \in Slots : groups'[k] = IF k = g THEN groups[g] \cup {op} ELSE groups[k]
  <2>1. DOMAIN <<>> = {}
    OBVIOUS
  <2> QED BY <1>3, <1>4, <2>1 DEF NewTable
<1>6. \A o \in Ops : /\ GroupsOf(o)' = {k \in Slots : o \in groups'[k]}
                     /\ (GroupsOf(o) \cap Alive)' = {k \in Slots : o \in groups'[k]}
  BY DEF Inv, Consistent, IndexCurrent, Alive, GroupsOf
<1> SUFFICES ASSUME NEW Y \in (SUBSET Alive') \ {{}},
                    \A k \in Y : ~\A t \in Dependencies(k)' : ((GroupsOf(t) \cap Alive)') \ Y # {}
             PROVE  FALSE
  BY DEF IsAcyclic
<1>7. Y \subseteq Slots
  BY DEF Alive
<1>8. ASSUME NEW k \in Y
      PROVE  \E c \in Ops, t \in Ops, h \in Slots :
               /\ c \in Consumers(t) /\ c \in groups'[k] /\ t \notin groups'[k]
               /\ h \in Y /\ t \in groups[h]
  <2>1. PICK t \in Dependencies(k)' : (GroupsOf(t) \cap Alive)' \subseteq Y
    OBVIOUS
  <2>2. PICK c \in Ops : k \in GroupsOf(c)' /\ t \in Producers(c)
    BY <1>3, <2>1 DEF Dependencies, Producers
  <2>3. t \in Ops /\ c \in Consumers(t) /\ k \notin GroupsOf(t)'
    BY <2>1, <2>2 DEF Dependencies, Producers, Consumers
  <2>4. PICK h \in Slots : t \in groups[h]
    BY <2>3 DEF Inv, Consistent, AllHeld
  <2>5. t \in groups'[h]
    BY <1>5, <2>4
  <2>6. h \in Y
    BY <1>6, <2>1, <2>3, <2>5
  <2>7. c \in groups'[k] /\ t \notin groups'[k]
    BY <1>6, <1>7, <2>2, <2>3
  <2> QED BY <2>2, <2>3, <2>4, <2>6, <2>7
<1>9. ASSUME NEW k \in Slots, NEW c \in groups[k], NEW t, c \in Consumers(t),
             t \notin groups[k], NEW h \in Slots, t \in groups[h]
      PROVE  DependsOn(groups, k, h)
  BY <1>9 DEF DependsOn
<1>10. ASSUME NEW k \in Y, k # g PROVE \E h \in Y : DependsOn(groups, k, h)
  <2>1. PICK c \in Ops, t \in Ops, h \in Slots :
               /\ c \in Consumers(t) /\ c \in groups'[k] /\ t \notin groups'[k]
               /\ h \in Y /\ t \in groups[h]
    BY <1>8
  <2>2. k \in Slots /\ groups'[k] = groups[k]
    BY <1>5, <1>7, <1>10
  <2> QED BY <1>9, <2>1, <2>2
<1>11. PICK R : R = ReachFrom({g})
  OBVIOUS
<1>12. g \in R /\ \A a \in R, b \in Slots : <<a, b>> \in edges => b \in R
  <2>1. {g} \in SUBSET Slots
    BY <1>4
  <2> QED BY <1>11, <2>1, ReachIsClosed
<1>13. \A Z : ~Stuck(groups, Z)
  BY OrderlyIsNeverStuck
<1>14. ASSUME NEW h \in Y, h \notin R PROVE FALSE
  <2> DEFINE B == {k \in Y : k \notin R}
  <2>1. ASSUME NEW k \in B PROVE \E l \in B : DependsOn(groups, k, l)
    <3>1. PICK l \in Y : DependsOn(groups, k, l)
      BY <1>10, <1>12
    <3>2. l \notin R
      BY <1>7, <1>12, <3>1, WaitingIsEdge DEF Inv
    <3> QED BY <3>1, <3>2
  <2>2. B \in (SUBSET Slots) \ {{}}
    BY <1>7, <1>14
  <2>3. Stuck(groups, B)
    <3> HIDE DEF B
    <3> QED BY <2>1, <2>2 DEF Stuck
  <2> QED BY <1>13, <2>3
<1>15. ASSUME g \in Y PROVE \E h \in Y : DependsOn(groups, g, h)
  <2>1. PICK c \in Ops, t \in Ops, h \in Slots :
               /\ c \in Consumers(t) /\ c \in groups'[g] /\ t \notin groups'[g]
               /\ h \in Y /\ t \in groups[h]
    BY <1>8, <1>15
  <2>2. groups'[g] = groups[g] \cup {op}
    BY <1>4, <1>5
  <2>3. CASE c \in groups[g]
    BY <1>4, <1>9, <2>1, <2>2, <2>3
  <2>4. CASE c = op
    <3>1. t \in Producers(op) /\ t \notin groups[g]
      BY <2>1, <2>2, <2>4 DEF Producers, Consumers
    <3>2. GroupsOf(t) \cap Alive = {h} /\ h # g
      BY <2>1, <3>1, SoleHolder, HoldersAreLive DEF Inv
    <3>3. CanReach(g, h)
      BY <1>11, <1>14, <2>1 DEF CanReach
    <3>4. (Consumers(t) \ {op}) \cap groups[g] # {}
      BY <1>2, <3>1, <3>2, <3>3 DEF RecomputeCreatesCycle, AllBehind
    <3>5. PICK d \in groups[g] : d \in Consumers(t)
      BY <3>4
    <3> QED BY <1>4, <1>9, <2>1, <3>1, <3>5
  <2> QED BY <2>1, <2>2, <2>3, <2>4
<1>16. Stuck(groups, Y)
  BY <1>7, <1>10, <1>15 DEF Stuck
<1> QED BY <1>13, <1>16
(* Nothing but the cut edge joins the two sides of a bridge.               *)
LEMMA SideClosed ==
  ASSUME NEW S \in SUBSET Ops, NEW u \in S, NEW v \in S,
         NEW x \in SideOf(S, u, v), NEW y \in (OpNeighbors(x) \cap S) \ SideOf(S, u, v)
  PROVE  x = u /\ y = v
<1>1. x \in S
  BY DEF SideOf
<1>2. ASSUME x # u \/ y # v PROVE y \in SideOf(S, u, v)
  <2> SUFFICES ASSUME NEW C \in SUBSET S, u \in C,
                      \A z \in C : (OpNeighbors(z) \ (IF z = u THEN {v} ELSE {})) \cap S \subseteq C
               PROVE  y \in C
    BY DEF SideOf
  <2>1. x \in C
    BY DEF SideOf
  <2>2. y \in (OpNeighbors(x) \ (IF x = u THEN {v} ELSE {})) \cap S
    BY <1>2
  <2> QED BY <2>1, <2>2
<1> QED BY <1>2

LEMMA NoMutualReads ==
  ASSUME Consistent, NEW u \in Ops, NEW v \in Ops, v \in Consumers(u)
  PROVE  u \notin Consumers(v)
<1>1. {u, v} \in (SUBSET Ops) \ {{}} /\ prob \in Problems
  BY DEF Consistent, TypeOK
<1>2. PICK o \in {u, v} : prob.reads[o] \cap {u, v} = {}
  BY <1>1, ProblemsAssumption
<1> QED BY <1>2 DEF Consumers

(* Cutting a group in two at a bridge.                                     *)
LEMMA CutStaysOrderly ==
  ASSUME Consistent, Apart(groups), Orderly(groups),
         NEW op \in Ops, NEW v, NEW ga \in Slots, ApplySplit(op, v, ga)
  PROVE  Orderly(groups') /\ prob' = prob /\ Apart(groups')
<1>1. PICK stay, moved : stay = SideOf(groups[ga], op, v) /\ moved = groups[ga] \ stay
  OBVIOUS
<1>2. PICK pieces : pieces = {<<Rank(0), moved>>}
  OBVIOUS
<1>3. PICK kept : kept = [g \in {ga} |-> stay]
  OBVIOUS
<1>4. PICK q \in Layouts(pieces) : groups' = NewTable(kept, q) /\ prob' = prob
  BY <1>1, <1>2, <1>3 DEF ApplySplit, Commit
<1>5. /\ ga \in Slots /\ ga \in Alive /\ groups[ga] \in SUBSET Ops
      /\ Union({ga}) = groups[ga] /\ op \in groups[ga] /\ v \in groups[ga]
      /\ stay \subseteq groups[ga] /\ moved \subseteq groups[ga] /\ moved # {}
  <2>1. op \in groups[ga] /\ v \in groups[ga] /\ v \notin stay
    BY <1>1 DEF ApplySplit, SplitApplies, SplitFeasible, IsBridge
  <2>2. stay \subseteq groups[ga]
    BY <1>1 DEF SideOf
  <2> QED BY <1>1, <2>1, <2>2 DEF Consistent, TypeOK, Union, Alive
<1>6. /\ DOMAIN kept = {ga} /\ kept[ga] = stay
       /\ \A x \in pieces : x[1] = Rank(0) /\ x[2] = moved /\ x = <<Rank(0), moved>>
       /\ Rank(0) \in Int
  BY <1>2, <1>3, MaxGroupsAssumption DEF Rank
<1>7. Shares({ga}, kept, pieces)
  <2>1. {ga} \subseteq Alive /\ kept[ga] \subseteq Union({ga})
    BY <1>5, <1>6
  <2>2. \A x \in pieces : x[1] \in Int /\ x[2] \in (SUBSET Union({ga})) \ {{}} /\ kept[ga] \cap x[2] = {}
    BY <1>1, <1>5, <1>6
  <2>3. \A x, y \in pieces : x # y => x[2] \cap y[2] = {}
    BY <1>6
  <2> QED BY <2>1, <2>2, <2>3 DEF Shares
<1>8. PICK tab : tab = groups'
  OBVIOUS
<1>9. /\ Apart(tab)
       /\ \A g \in Slots : \/ tab[g] = stay \/ tab[g] = moved
                           \/ g # ga /\ tab[g] = groups[g]
  <2>1. /\ Apart(tab)
        /\ \A g \in Slots : \/ tab[g] \in Parts({ga}, kept, pieces)
                            \/ g \notin {ga} /\ tab[g] = groups[g]
    BY <1>4, <1>6, <1>7, <1>8, SharedTable
  <2> QED BY <1>6, <2>1 DEF Parts
(* Groups of the new table by the old group they come from.                *)
<1> DEFINE Old(g) == {k \in Slots : tab[g] \subseteq groups[k] /\ tab[g] # {}}
<1>10. ASSUME NEW g \in Slots, tab[g] # {} PROVE \E k \in Slots : Old(g) = {k} /\ tab[g] \subseteq groups[k]
  <2>1. \E k \in Slots : tab[g] \subseteq groups[k]
    BY <1>5, <1>9
  <2> QED BY <1>10, <2>1 DEF Apart
<1> HIDE DEF Old
<1>11. ASSUME NEW x \in stay, NEW y \in moved
       PROVE  ~(y \in Consumers(x) /\ (x # op \/ y # v)) /\ ~(x \in Consumers(y) /\ (x # op \/ y # v))
  <2>1. x \in Ops /\ y \in Ops /\ x # y
    BY <1>1, <1>5
  <2>2. y \in Consumers(x) \/ x \in Consumers(y) => y \in OpNeighbors(x)
    BY <2>1 DEF OpNeighbors, Producers, Consumers, Reads
  <2>3. y \in OpNeighbors(x) => x = op /\ y = v
    BY <1>1, <1>5, SideClosed
  <2> QED BY <2>2, <2>3
<1> SUFFICES ASSUME NEW Y, Stuck(tab, Y) PROVE FALSE
  BY <1>4, <1>8, <1>9, OrderlyIsNeverStuck
<1>12. /\ Y \in (SUBSET Slots) \ {{}}
       /\ \A g \in Y : \E h \in Y : DependsOn(tab, g, h)
  BY DEF Stuck
<1>13. \A Z : ~Stuck(groups, Z)
  BY OrderlyIsNeverStuck
<1>14. \A g \in Y : tab[g] # {}
  BY <1>12 DEF DependsOn
<1> DEFINE B == {k \in Slots : \E g \in Y : tab[g] \subseteq groups[k]}
<1>15. ASSUME NEW g \in Y, NEW h \in Y, DependsOn(tab, g, h), NEW k \in Slots,
              tab[g] \subseteq groups[k], ~(tab[h] \subseteq groups[k])
       PROVE  \E l \in B : DependsOn(groups, k, l)
  <2>1. PICK l \in Slots : tab[h] \subseteq groups[l]
    BY <1>10, <1>12, <1>14
  <2>2. l # k /\ l \in B
    BY <1>15, <2>1
  <2> QED BY <1>15, <2>1, <2>2 DEF DependsOn
<1>16. ASSUME NEW k \in B PROVE \E l \in B : DependsOn(groups, k, l)
  <2>1. PICK g \in Y : tab[g] \subseteq groups[k]
    BY DEF B
  <2>2. PICK h \in Y : DependsOn(tab, g, h)
    BY <1>12
  <2>3. CASE ~(tab[h] \subseteq groups[k])
    BY <1>15, <2>1, <2>2, <2>3
  <2>4. CASE tab[h] \subseteq groups[k]
    <3>1. g # h /\ tab[g] \cap tab[h] = {} /\ g \in Slots /\ h \in Slots
      BY <1>9, <1>12, <2>2 DEF DependsOn, Apart
    <3>2. k = ga /\ ((tab[g] = stay /\ tab[h] = moved) \/ (tab[g] = moved /\ tab[h] = stay))
      <4>1. tab[g] # {} /\ tab[h] # {} /\ tab[g] \subseteq groups[k] /\ tab[h] \subseteq groups[k] /\ k \in Slots
        BY <1>14, <2>1, <2>4
      <4>2. ASSUME NEW a \in {g, h}, a # ga, tab[a] = groups[a] PROVE a = k
        BY <3>1, <4>1, <4>2 DEF Apart
      <4>3. \A a \in {g, h} : a # ga /\ tab[a] = groups[a] => groups[k] \subseteq tab[a]
        BY <4>2
      <4>4. \A a \in {g, h} : tab[a] = stay \/ tab[a] = moved
        BY <1>9, <3>1, <4>1, <4>3
      <4>5. k = ga
        BY <1>5, <4>1, <4>4 DEF Apart
      <4> QED BY <3>1, <4>1, <4>4, <4>5
    <3>3. PICK i \in Y : DependsOn(tab, h, i)
      BY <1>12
    <3>4. ~(tab[i] \subseteq groups[k])
      <4> SUFFICES ASSUME tab[i] \subseteq groups[k] PROVE FALSE
        OBVIOUS
      <4>1. i \in Slots /\ i # h /\ tab[i] # {} /\ tab[i] \cap tab[h] = {}
        BY <1>9, <1>12, <1>14, <3>1, <3>3 DEF DependsOn, Apart
      <4>2. tab[g] \cup tab[h] = groups[k]
        BY <1>1, <1>5, <3>2
      <4>3. i = g
        BY <1>9, <3>1, <4>1, <4>2 DEF Apart
      <4>4. PICK p \in tab[h], c \in tab[g] : c \in Consumers(p)
        BY <2>2 DEF DependsOn
      <4>5. PICK r \in tab[g], d \in tab[h] : d \in Consumers(r)
        BY <3>3, <4>3 DEF DependsOn
      <4>6. v \in Consumers(op) /\ op \in Consumers(v)
        <5>1. CASE tab[g] = stay /\ tab[h] = moved
          BY <1>11, <4>4, <4>5, <5>1
        <5>2. CASE tab[g] = moved /\ tab[h] = stay
          BY <1>11, <4>4, <4>5, <5>2
        <5> QED BY <3>2, <5>1, <5>2
      <4> QED BY <1>5, <4>6, NoMutualReads
    <3>5. h \in Y /\ tab[h] \subseteq groups[k] /\ k \in Slots
      BY <2>4
    <3> QED BY <1>15, <3>3, <3>4, <3>5
  <2> QED BY <2>3, <2>4
<1>17. B \in (SUBSET Slots) \ {{}}
  <2>1. PICK g \in Y : TRUE
    BY <1>12
  <2>2. PICK k \in Slots : tab[g] \subseteq groups[k]
    BY <1>10, <1>12, <1>14
  <2> QED BY <2>2
<1>18. Stuck(groups, B)
  <2> HIDE DEF B
  <2> QED BY <1>16, <1>17 DEF Stuck
<1> QED BY <1>13, <1>18

LEMMA SplitStaysOrderly ==
  ASSUME Consistent, Apart(groups), Orderly(groups), Split
  PROVE  Orderly(groups') /\ prob' = prob /\ Apart(groups')
<1>1. PICK op \in Ops : \E m \in SplitMoves(op) : ApplySplit(op, m.v, m.ga)
  BY DEF Split
<1>2. PICK m \in SplitMoves(op) : ApplySplit(op, m.v, m.ga)
  BY <1>1
<1>3. PICK mm \in GroupsOf(op) \X OpNeighbors(op) :
        m = [type |-> "SPLIT", op |-> op, ga |-> mm[1], v |-> mm[2]]
  BY DEF SplitMoves
<1>4. m.ga \in Slots
  BY <1>3 DEF GroupsOf
<1> QED BY <1>2, <1>4, CutStaysOrderly

(* The groups ExtractCreatesCycle visits.                                  *)
Outside(X, S) == (UNION {Consumers(o) : o \in S}) \ X

FedGroups(X, S) == (UNION {GroupsOf(c) : c \in Outside(X, S \ X)}) \cap Alive

LEMMA ExtractSearch ==
  ASSUME NEW X, ~ExtractCreatesCycle(X)
  PROVE  \E R \in SUBSET Slots :
           /\ (UNION {GroupsOf(c) : c \in Outside(X, X)}) \cap Alive \subseteq R
           /\ \A g \in R : FedGroups(X, groups[g]) \subseteq R
           /\ \A g \in R : \A o \in groups[g] \ X : ~ConsumedIn(o, X)
<1> DEFINE seeds == (UNION {GroupsOf(c) : c \in Outside(X, X)}) \cap Alive
           Fed(S) == UNION {FedGroups(X, groups[g]) : g \in S}
           Body(g) == [n \in 0..MaxGroups |-> IF n = 0 THEN seeds ELSE g[n - 1] \cup Fed(g[n - 1])]
           F == [S \in SUBSET Slots |-> Fed(S)]
<1>1. F \in [SUBSET Slots -> SUBSET Slots] /\ seeds \in SUBSET Slots
  BY DEF FedGroups, Alive
<1>2. PICK f \in [0..MaxGroups -> SUBSET Slots] : Grows(f, MaxGroups, seeds, F)
  <2> HIDE DEF F, seeds
  <2> QED BY <1>1, GrowthExists, MaxGroupsAssumption
<1>3. f = Body(f)
  <2>1. f[0] = seeds
    BY <1>2 DEF Grows
  <2> HIDE DEF seeds
  <2>2. ASSUME NEW n \in 1..MaxGroups PROVE f[n] = f[n - 1] \cup Fed(f[n - 1])
    <3>1. f[n - 1] \in SUBSET Slots
      BY MaxGroupsAssumption
    <3> QED BY <1>2, <3>1 DEF Grows
  <2> HIDE DEF Fed
  <2> QED BY <2>1, <2>2, MaxGroupsAssumption
<1>4. \E g : g = Body(g)
  BY <1>3
<1> DEFINE r == CHOOSE g : g = Body(g)
<1>5. r = Body(r)
  BY <1>4, Zenon
<1>6. \A g \in r[MaxGroups] : \A o \in groups[g] \ X : ~ConsumedIn(o, X)
  BY DEF ExtractCreatesCycle, Outside, FedGroups
<1> HIDE DEF r
<1>7. /\ r[0] = seeds
      /\ \A n \in 1..MaxGroups : r[n] = r[n - 1] \cup Fed(r[n - 1])
  <2> HIDE DEF seeds, Fed
  <2>1. ASSUME NEW n \in 0..MaxGroups
        PROVE  r[n] = IF n = 0 THEN seeds ELSE r[n - 1] \cup Fed(r[n - 1])
    <3>1. Body(r)[n] = IF n = 0 THEN seeds ELSE r[n - 1] \cup Fed(r[n - 1])
      OBVIOUS
    <3>2. r[n] = Body(r)[n]
      <4> HIDE DEF Body
      <4> QED BY <1>5
    <3> HIDE DEF Body
    <3> QED BY <3>1, <3>2
  <2> HIDE DEF Body
  <2>2. r[0] = seeds
    <3>1. 0 \in 0..MaxGroups
      BY MaxGroupsAssumption
    <3> QED BY <2>1, <3>1
  <2>3. ASSUME NEW n \in 1..MaxGroups PROVE r[n] = r[n - 1] \cup Fed(r[n - 1])
    <3>1. n \in 0..MaxGroups /\ n # 0
      BY MaxGroupsAssumption
    <3> QED BY <2>1, <3>1
  <2> QED BY <2>2, <2>3
<1>8. Grows(r, MaxGroups, seeds, F)
  <2> DEFINE T == {n \in Nat : r[n] \in SUBSET Slots}
  <2>1. 0 \in T
    <3> HIDE DEF seeds
    <3> QED BY <1>1, <1>7
  <2> HIDE DEF seeds
  <2>2. ASSUME NEW n \in 0..(MaxGroups - 1), n \in T PROVE n + 1 \in T
    <3>1. n + 1 \in 1..MaxGroups /\ (n + 1) - 1 = n /\ r[n] \in SUBSET Slots
      BY <2>2, MaxGroupsAssumption
    <3>2. r[n + 1] = r[n] \cup Fed(r[n])
      <4> HIDE DEF Fed
      <4> QED BY <1>7, <3>1
    <3>3. Fed(r[n]) \in SUBSET Slots
      BY DEF FedGroups, Alive
    <3> HIDE DEF Fed
    <3> QED BY <3>1, <3>2, <3>3
  <2>3. 0..MaxGroups \subseteq T
    <3> HIDE DEF T
    <3> QED BY <2>1, <2>2, InductionUpTo, MaxGroupsAssumption
  <2> HIDE DEF Fed
  <2>4. ASSUME NEW n \in 1..MaxGroups PROVE r[n] = r[n - 1] \cup F[r[n - 1]]
    <3>1. n - 1 \in 0..MaxGroups
      BY MaxGroupsAssumption
    <3>2. r[n - 1] \in SUBSET Slots
      BY <2>3, <3>1
    <3> QED BY <1>7, <3>2
  <2> QED BY <1>7, <2>4 DEF Grows
<1>9. seeds \subseteq r[MaxGroups] /\ r[MaxGroups] \in SUBSET Slots /\ F[r[MaxGroups]] \subseteq r[MaxGroups]
  <2> HIDE DEF F, seeds
  <2> QED BY <1>1, <1>8, GrowthStops, SlotsCount, MaxGroupsAssumption
<1>10. \A g \in r[MaxGroups] : FedGroups(X, groups[g]) \subseteq r[MaxGroups]
  <2>1. Fed(r[MaxGroups]) \subseteq r[MaxGroups]
    <3> HIDE DEF Fed
    <3> QED BY <1>9
  <2> QED BY <2>1
<1> QED BY <1>6, <1>9, <1>10

LEMMA ExtractStaysOrderly ==
  ASSUME Consistent, Apart(groups), Orderly(groups), NEW t, NEW G, ApplyTensorExtract(t, G),
         Extracted(t) \in (SUBSET Union(G)) \ {{}}, ~ExtractCreatesCycle(Extracted(t))
  PROVE  Orderly(groups') /\ prob' = prob /\ Apart(groups')
<1>1. PICK kept, pieces, q : Extracts(t, G, kept, pieces, q)
  BY TensorExtractExtracts
<1>2. PICK X : X = Extracted(t)
  OBVIOUS
<1>3. /\ G \in SUBSET Alive /\ X \in (SUBSET Union(G)) \ {{}}
      /\ ~ExtractCreatesCycle(X)
      /\ Regroups(G, kept, pieces, q)
      /\ \A S \in Parts(G, kept, pieces) :
           \/ S = X \/ S = {}
           \/ \E g \in G : S \in Components(groups[g] \ X)
  BY <1>1, <1>2 DEF Extracts
<1>4. PICK tab : tab = groups'
  OBVIOUS
<1>5. /\ Apart(tab) /\ prob' = prob
      /\ \A g \in Slots : \/ tab[g] \in Parts(G, kept, pieces)
                          \/ g \notin G /\ tab[g] = groups[g]
  BY <1>3, <1>4, SharedTable DEF Regroups
<1>6. /\ groups \in [Slots -> SUBSET Ops] /\ G \subseteq Slots
      /\ \A k \in Slots \ G : groups[k] \cap X = {}
  <2>1. groups \in [Slots -> SUBSET Ops] /\ G \subseteq Slots
    BY <1>3 DEF Consistent, TypeOK, Alive
  <2>2. \A k \in Slots \ G : groups[k] \cap Union(G) = {}
    BY <2>1 DEF Apart, Union
  <2> QED BY <1>3, <2>1, <2>2
(* A group of the new table is X or flow-closed in what is left of one.    *)
<1>7. ASSUME NEW k \in Slots, tab[k] # {}, tab[k] # X
      PROVE  \E g \in Slots : /\ tab[k] \subseteq groups[g] \ X
                              /\ \A p \in tab[k] : Consumers(p) \cap (groups[g] \ X) \subseteq tab[k]
  <2>1. CASE k \notin G /\ tab[k] = groups[k]
    BY <1>6, <2>1
  <2>2. CASE \E g \in G : tab[k] \in Components(groups[g] \ X)
    <3>1. PICK g \in G : tab[k] \in Components(groups[g] \ X)
      BY <2>2
    <3>2. PICK S : S = groups[g] \ X
      OBVIOUS
    <3>3. S \in SUBSET Ops /\ tab[k] \in Components(S) /\ g \in Slots
      BY <1>6, <3>1, <3>2
    <3>4. tab[k] \subseteq S
      BY <3>3, ComponentInside DEF Components
    <3>5. \A p \in tab[k] : Consumers(p) \cap S \subseteq tab[k]
      BY <3>3, FlowStays
    <3> QED BY <3>2, <3>3, <3>4, <3>5
  <2> QED BY <1>3, <1>5, <1>7, <2>1, <2>2
<1>8. PICK R \in SUBSET Slots :
        /\ (UNION {GroupsOf(c) : c \in Outside(X, X)}) \cap Alive \subseteq R
        /\ \A g \in R : FedGroups(X, groups[g]) \subseteq R
        /\ \A g \in R : \A o \in groups[g] \ X : ~ConsumedIn(o, X)
  BY <1>3, ExtractSearch
<1> SUFFICES ASSUME NEW Y, Stuck(tab, Y) PROVE FALSE
  BY <1>4, <1>5, OrderlyIsNeverStuck
<1>9. /\ Y \in (SUBSET Slots) \ {{}}
      /\ \A g \in Y : \E h \in Y : DependsOn(tab, g, h)
      /\ \A g \in Y : tab[g] # {}
  BY DEF Stuck, DependsOn
<1>10. \A Z : ~Stuck(groups, Z)
  BY OrderlyIsNeverStuck
(* Two groups of the new table that are not X and wait for one another     *)
(* come from groups that did.                                              *)
<1>11. ASSUME NEW k \in Y, NEW l \in Y, tab[k] # X, tab[l] # X, DependsOn(tab, k, l),
              NEW a \in Slots, tab[k] \subseteq groups[a] \ X
       PROVE  \E b \in Slots : /\ tab[l] \subseteq groups[b] \ X /\ DependsOn(groups, a, b)
                               /\ b \in R => a \in R
  <2>1. PICK b \in Slots : /\ tab[l] \subseteq groups[b] \ X
                           /\ \A p \in tab[l] : Consumers(p) \cap (groups[b] \ X) \subseteq tab[l]
    BY <1>7, <1>9, <1>11
  <2>2. PICK p \in tab[l], c \in tab[k] : c \in Consumers(p)
    BY <1>11 DEF DependsOn
  <2>3. k # l /\ tab[k] \cap tab[l] = {}
    BY <1>5, <1>9, <1>11 DEF DependsOn, Apart
  <2>4. a # b
    BY <1>11, <2>1, <2>2, <2>3
  <2>5. DependsOn(groups, a, b)
    BY <1>11, <2>1, <2>2, <2>4 DEF DependsOn
  <2>6. ASSUME b \in R PROVE a \in R
    <3>1. c \in Outside(X, groups[b] \ X)
      BY <1>11, <2>1, <2>2 DEF Outside
    <3>2. c \in Ops /\ c \in groups[a] /\ a \in GroupsOf(c) /\ a \in Alive
      BY <1>6, <1>11, <2>2, HoldersAreLive
    <3>3. a \in FedGroups(X, groups[b])
      BY <3>1, <3>2 DEF FedGroups
    <3> QED BY <1>8, <2>6, <3>3
  <2> QED BY <2>1, <2>5, <2>6
<1> DEFINE From(k, a) == tab[k] # X /\ tab[k] \subseteq groups[a] \ X
           B == {a \in Slots : a \notin R /\ \E k \in Y : From(k, a)}
           A == {a \in Slots : \E k \in Y : From(k, a)}
<1>12. CASE \A k \in Y : tab[k] # X
  <2>1. ASSUME NEW a \in A PROVE \E b \in A : DependsOn(groups, a, b)
    <3>1. PICK k \in Y : tab[k] \subseteq groups[a] \ X
      OBVIOUS
    <3>2. PICK l \in Y : DependsOn(tab, k, l)
      BY <1>9
    <3>3. a \in Slots /\ tab[k] # X /\ tab[l] # X
      BY <1>12
    <3> HIDE DEF A
    <3>4. PICK b \in Slots : tab[l] \subseteq groups[b] \ X /\ DependsOn(groups, a, b)
      BY <1>11, <3>1, <3>2, <3>3, Zenon
    <3>5. b \in A
      BY <3>3, <3>4 DEF A
    <3> QED BY <3>4, <3>5
  <2>2. A \in (SUBSET Slots) \ {{}}
    <3>1. PICK k \in Y : TRUE
      BY <1>9
    <3>2. PICK a \in Slots : tab[k] \subseteq groups[a] \ X
      BY <1>7, <1>9, <1>12
    <3> QED BY <1>12, <3>2
  <2>3. Stuck(groups, A)
    <3> HIDE DEF A
    <3> QED BY <2>1, <2>2 DEF Stuck
  <2> QED BY <1>10, <2>3
<1>13. CASE \E n \in Y : tab[n] = X
  <2>1. PICK n \in Y : tab[n] = X
    BY <1>13
  <2>2. \A k \in Y : tab[k] = X => k = n
    BY <1>3, <1>5, <1>9, <2>1 DEF Apart
  <2>3. PICK h \in Y : DependsOn(tab, n, h)
    BY <1>9
  <2>4. h # n /\ tab[h] # X
    BY <2>2, <2>3 DEF DependsOn
  <2>5. PICK a \in Slots : tab[h] \subseteq groups[a] \ X
    BY <1>7, <1>9, <2>4
  <2>6. a \notin R
    <3>1. PICK p \in tab[h], c \in X : c \in Consumers(p)
      BY <2>1, <2>3 DEF DependsOn
    <3>2. p \in groups[a] \ X /\ ConsumedIn(p, X)
      BY <2>5, <3>1 DEF ConsumedIn
    <3> QED BY <1>8, <3>2
  <2>7. B \in (SUBSET Slots) \ {{}}
    BY <2>4, <2>5, <2>6
  <2>8. ASSUME NEW b \in B PROVE \E e \in B : DependsOn(groups, b, e)
    <3>1. PICK k \in Y : tab[k] # X /\ tab[k] \subseteq groups[b] \ X
      OBVIOUS
    <3>2. PICK l \in Y : DependsOn(tab, k, l)
      BY <1>9
    <3>3. tab[l] # X
      <4> SUFFICES ASSUME tab[l] = X PROVE FALSE
        OBVIOUS
      <4>1. PICK p \in X, c \in tab[k] : c \in Consumers(p)
        BY <3>2 DEF DependsOn
      <4>2. c \in Outside(X, X)
        BY <3>1, <4>1 DEF Outside
      <4>3. b \in GroupsOf(c) /\ b \in Alive
        BY <1>6, <3>1, <4>1, HoldersAreLive
      <4>4. b \in R
        BY <1>8, <4>2, <4>3
      <4> QED BY <4>4
    <3>4. PICK e \in Slots : /\ tab[l] \subseteq groups[e] \ X /\ DependsOn(groups, b, e)
                             /\ e \in R => b \in R
      BY <1>11, <3>1, <3>2, <3>3
    <3>5. b \notin R
      OBVIOUS
    <3>6. e \notin R
      BY <3>4, <3>5
    <3>7. From(l, e) /\ e \in Slots
      BY <3>3, <3>4
    <3>8. e \in B
      <4> HIDE DEF From
      <4> QED BY <3>6, <3>7
    <3> HIDE DEF B
    <3> QED BY <3>4, <3>8
  <2>9. Stuck(groups, B)
    <3> HIDE DEF B
    <3> QED BY <2>7, <2>8 DEF Stuck
  <2> QED BY <1>10, <2>9
<1> QED BY <1>12, <1>13
(* A move whose local cycle check passes leaves a partition without        *)
(* recomputed ops acyclic: merge_creates_cycle, recompute_creates_cycle,   *)
(* the split check and extract_creates_cycle, which search the             *)
(* incrementally maintained group graph from the edited groups, miss no    *)
(* cycle Kahn's algorithm would find in the whole partition.               *)
THEOREM ChecksKeepAcyclic == Spec => StaysAcyclic
<1>1. ASSUME Inv, Inv', [Next]_fmVars, Disjoint, IsAcyclic, last' \in CycleChecked
      PROVE  IsAcyclic' \/ UNCHANGED fmVars
  <2>1. Apart(groups) /\ Orderly(groups)
    BY <1>1, ApartMeans, OrderlyMeans DEF Inv
  <2>2. ASSUME Orderly(groups'), prob' = prob, Apart(groups') PROVE IsAcyclic'
    <3>1. Apart(groups)'
      BY <2>2 DEF Apart
    <3>2. Orderly(groups)'
      BY <2>2, OrderlyTable
    <3> QED BY <1>1, <3>1, <3>2, OrderlyMeansNext DEF Inv
  <2>3. ASSUME Next PROVE IsAcyclic'
    <3>1. CASE Merge
      <4>1. PICK op \in Ops : \E m \in MergeMoves(op) : ApplyMerge(m.ga, m.gb)
        BY <3>1 DEF Merge
      <4>2. PICK m \in MergeMoves(op) : ApplyMerge(m.ga, m.gb)
        BY <4>1
      <4>3. Gathers({m.ga, m.gb}, m.ga) /\ ~MergeCreatesCycle({m.ga, m.gb})
        BY <4>2, MergeGathers, MergeMove
      <4> QED BY <1>1, <2>1, <2>2, <4>3, GatherStaysOrderly DEF Inv
    <3>2. CASE TensorMerge
      <4>1. PICK op \in Ops : \E m \in TensorMergeMoves(op, {}) : ApplyTensorMerge(m.gs)
        BY <3>2 DEF TensorMerge
      <4>2. PICK m \in TensorMergeMoves(op, {}) : ApplyTensorMerge(m.gs)
        BY <4>1
      <4>3. m.gs # {} /\ ~MergeCreatesCycle(m.gs)
        BY TensorMergeMove, AroundIsLive
      <4>4. Gathers(m.gs, Least(m.gs))
        BY <4>2, <4>3, TensorMergeGathers
      <4> QED BY <1>1, <2>1, <2>2, <4>3, <4>4, GatherStaysOrderly DEF Inv
    <3>3. CASE Split BY <1>1, <2>1, <2>2, <3>3, SplitStaysOrderly DEF Inv
    <3>4. CASE TensorExtract
      <4>1. PICK op \in Ops : \E m \in TensorExtractMoves(op, {}) : ApplyTensorExtract(m.t, m.gs)
        BY <3>4 DEF TensorExtract
      <4>2. PICK m \in TensorExtractMoves(op, {}) : ApplyTensorExtract(m.t, m.gs)
        BY <4>1
      <4>3. Around(op, {}, m.t, m.gs) /\ ~ExtractCreatesCycle(Extracted(m.t))
        BY TensorExtractMove
      <4>4. Extracted(m.t) \in (SUBSET Union(m.gs)) \ {{}}
        BY <1>1, <4>3, CandidateHoldsAll
      <4> QED BY <1>1, <2>1, <2>2, <4>2, <4>3, <4>4, ExtractStaysOrderly DEF Inv
    <3>5. CASE Recompute BY <1>1, <2>1, <3>5, RecomputeStaysAcyclic
    <3>6. ~DeRecompute /\ ~Eject /\ ~Steal /\ ~TensorExtractSplit /\ ~ForceRecompute
      BY <1>1 DEF CycleChecked, DeRecompute, Eject, Steal, TensorExtractSplit, ForceRecompute, Take
    <3> QED BY <2>3, <3>1, <3>2, <3>3, <3>4, <3>5, <3>6 DEF Next
  <2> QED BY <1>1, <2>3
<1>2. ASSUME UNCHANGED fmVars, IsAcyclic PROVE IsAcyclic'
  <2>1. prob' = prob /\ groups' = groups /\ index' = index
    BY <1>2 DEF fmVars
  <2>2. Alive' = Alive /\ \A o : GroupsOf(o)' = GroupsOf(o) /\ Producers(o)' = Producers(o)
    BY <2>1 DEF Alive, GroupsOf, Producers
  <2>3. \A g : Dependencies(g)' = Dependencies(g)
    BY <2>2 DEF Dependencies
  <2> QED BY <1>2, <2>2, <2>3 DEF IsAcyclic
<1>3. Inv /\ Inv' /\ [Next]_fmVars =>
        [Disjoint /\ IsAcyclic /\ last' \in CycleChecked => IsAcyclic']_fmVars
  BY <1>1, <1>2
<1> QED BY <1>3, Invariance, PTL DEF Spec, StaysAcyclic

-----------------------------------------------------------------------------
(* A search starts with groups of one op each, and these fit.              *)

LiveFit == \A g \in Alive : Fits(groups[g])

LEMMA SlotsOfOps ==
  /\ Cardinality(Ops) \in Nat
  /\ \A o \in Ops : SlotOf(o) \in 1..Cardinality(Ops)
  /\ \A o, u \in Ops : SlotOf(o) = SlotOf(u) => o = u
<1> DEFINE B(x) == {p \in Ops : p <= x}
<1>1. Cardinality(Ops) \in Nat /\ \A p \in Ops : p \in Nat
  BY FS_CardinalityType, OpsAssumption
<1>2. ASSUME NEW o \in Ops
      PROVE  /\ IsFiniteSet(B(o)) /\ Cardinality(B(o)) = SlotOf(o)
             /\ SlotOf(o) \in 1..Cardinality(Ops)
  <2>1. PICK R : R = B(o)
    OBVIOUS
  <2>2. R \in SUBSET Ops /\ o \in R /\ IsFiniteSet(R)
    BY <1>1, <2>1, OpsAssumption, FS_Subset
  <2>3. Cardinality(R) \in Nat /\ Cardinality(R) > 0 /\ Cardinality(R) <= Cardinality(Ops)
    BY <2>2, OpsAssumption, FS_Subset, NonEmptyCounts
  <2> QED BY <1>1, <2>1, <2>2, <2>3 DEF SlotOf
<1>3. ASSUME NEW o \in Ops, NEW u \in Ops, o < u PROVE SlotOf(o) # SlotOf(u)
  <2>1. B(o) \subseteq B(u) /\ B(o) # B(u)
    <3>1. u \in B(u) /\ u \notin B(o)
      BY <1>1, <1>3
    <3>2. ASSUME NEW p \in B(o) PROVE p \in B(u)
      BY <1>1, <1>3, <3>2
    <3> QED BY <3>1, <3>2
  <2>2. PICK C, D : C = B(o) /\ D = B(u)
    OBVIOUS
  <2>3. /\ IsFiniteSet(C) /\ IsFiniteSet(D)
        /\ Cardinality(C) = SlotOf(o) /\ Cardinality(D) = SlotOf(u)
    BY <1>2, <2>2
  <2>4. Cardinality(C) \in Nat /\ Cardinality(D) \in Nat
    BY <2>3, FS_CardinalityType
  <2>5. Cardinality(C) < Cardinality(D)
    BY <2>1, <2>2, <2>3, FS_Subset, FS_CardinalityType
  <2> QED BY <2>3, <2>4, <2>5
<1>4. ASSUME NEW o \in Ops, NEW u \in Ops, SlotOf(o) = SlotOf(u) PROVE o = u
  <2>1. ~(o < u) /\ ~(u < o)
    BY <1>3, <1>4
  <2> QED BY <1>1, <2>1
<1> QED BY <1>1, <1>2, <1>4

LEMMA TrivialGroups ==
  ASSUME PartitionInit, NEW g \in Slots, groups[g] # {}
  PROVE  \E o \in Ops : groups[g] = {o}
<1>1. groups[g] = {o \in Ops : SlotOf(o) = g}
  BY DEF PartitionInit, TrivialTable
<1>2. PICK o \in Ops : SlotOf(o) = g
  BY <1>1
<1>3. \A u \in Ops : SlotOf(u) = g => u = o
  BY <1>2, SlotsOfOps
<1> QED BY <1>1, <1>2, <1>3

LEMMA InitFits ==
  ASSUME PartitionInit
  PROVE  LiveFit
<1> SUFFICES ASSUME NEW g \in Slots, groups[g] # {} PROVE Fits(groups[g])
  BY DEF LiveFit, Alive
<1>1. PICK o \in Ops : groups[g] = {o}
  BY TrivialGroups
<1>2. prob \in Problems
  BY DEF PartitionInit
<1>3. {o} \in prob.fits
  BY <1>2, ProblemsAssumption
<1> QED BY <1>1, <1>3 DEF Fits
=============================================================================
