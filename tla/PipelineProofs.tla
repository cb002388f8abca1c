--------------------------- MODULE PipelineProofs ---------------------------
(***************************************************************************)
(* What solve() makes of a partition is a schedule the validator accepts.  *)
(*                                                                         *)
(* The argument follows the stages.  The search keeps the tables in step   *)
(* and its groups within the cost model (Inv of FmMovesProofs, LiveFit);   *)
(* taking the recomputed ops out leaves disjoint groups that strand nobody *)
(* (MaterializeMends); Kahn's order then places every group of a partition *)
(* without a cycle (KahnPlacesAll), so an order that takes one ready group *)
(* after another leaves none out (GreedyPlacesAll), and launching every    *)
(* group by itself in that order is valid (BareIsValid).  from_partition   *)
(* looks at that plan first and never trades a valid plan for another.     *)
(***************************************************************************)
EXTENDS Pipeline, FmMovesProofs

-----------------------------------------------------------------------------
(* What the validator promises of a plan it accepts.                       *)

(* A plan is a sequence of steps.                                          *)
IsPlan(steps) == \E n \in Nat : DOMAIN steps = 1..n

(* A valid plan that launches each op once finds every input in place: the *)
(* one step that launches the producer comes first, and it is the one that *)
(* writes the result if any does.                                          *)
LEMMA ValidRuns ==
  ASSUME NEW steps, IsPlan(steps), Valid(steps, TRUE)
  PROVE  InputsReady(steps)
<1> SUFFICES ASSUME NEW i \in DOMAIN steps, NEW t \in Needs(steps[i].ops),
                    t \notin LeftByStepBefore(steps, i)
             PROVE  \E j \in 1..(i - 1) : t \in Writes(steps[j].ops)
  BY DEF InputsReady
<1>1. PICK n \in Nat : DOMAIN steps = 1..n
  BY DEF IsPlan
<1>2. PICK j \in 1..(i - 1) : t \in steps[j].ops
  BY DEF Valid, InOrder
<1>3. j \in DOMAIN steps
  BY <1>1, <1>2
<1>4. WritingSteps(steps, t) # {}
  BY DEF Valid, NoMissingInput
<1>5. PICK k \in DOMAIN steps : t \in Writes(steps[k].ops)
  BY <1>4 DEF WritingSteps
<1>6. t \in steps[k].ops
  BY <1>5 DEF Writes
<1>7. k = j
  BY <1>2, <1>3, <1>6 DEF Valid, LaunchedOnce
<1> QED BY <1>2, <1>5, <1>7

LEMMA ValidLaunchesOnce ==
  ASSUME NEW steps, Valid(steps, TRUE), NEW o \in Ops
  PROVE  Cardinality({i \in DOMAIN steps : o \in steps[i].ops}) = 1
<1>1. PICK i \in DOMAIN steps : o \in steps[i].ops
  BY DEF Valid, Launched
<1>2. {j \in DOMAIN steps : o \in steps[j].ops} = {i}
  BY <1>1 DEF Valid, LaunchedOnce
<1>3. Cardinality({i}) = 1
  BY FS_Singleton
<1> QED BY <1>2, <1>3
-----------------------------------------------------------------------------
(* The search leaves only groups the cost model accepts.                   *)

LEMMA TableFits ==
  ASSUME LiveFit, prob' = prob, NEW G, NEW kept, DOMAIN kept = G,
         \A g \in G : kept[g] = {} \/ Fits(kept[g]),
         NEW pieces, \A x \in pieces : Fits(x[2]),
         NEW q \in Layouts(pieces), groups' = NewTable(kept, q)
  PROVE  LiveFit'
<1>1. PICK n \in 0..(MaxGroups - ngroups) : q \in [1..n -> pieces]
  BY DEF Layouts
<1>2. ASSUME NEW g \in Slots, groups'[g] # {} PROVE Fits(groups'[g])
  <2>1. groups'[g] = IF g \in G THEN kept[g]
                     ELSE IF g - ngroups \in 1..n THEN q[g - ngroups][2]
                     ELSE groups[g]
    BY <1>1 DEF NewTable
  <2>2. CASE g \in G
    BY <1>2, <2>1, <2>2
  <2>3. CASE g \notin G /\ g - ngroups \in 1..n
    BY <1>1, <2>1, <2>3
  <2>4. CASE g \notin G /\ g - ngroups \notin 1..n
    BY <1>2, <2>1, <2>4 DEF LiveFit, Alive
  <2> QED BY <2>2, <2>3, <2>4
<1> QED BY <1>2 DEF LiveFit, Alive, Fits

LEMMA PiecesFit ==
  ASSUME NEW S \in SUBSET Ops, AllFit(S), NEW g
  PROVE  /\ FirstComponent(S) = {} \/ Fits(FirstComponent(S))
         /\ \A x \in Leftover(g, S) : Fits(x[2])
<1>1. FirstComponent(S) \in Components(S) \cup {{}}
  BY FallsApart
<1>2. \A x \in Leftover(g, S) : x[2] \in Components(S)
  BY FallsApart
<1> QED BY <1>1, <1>2 DEF AllFit

(* Group g is cut down to components that fit; alone is what is formed.    *)
LEMMA CutFits ==
  ASSUME Inv, LiveFit, prob' = prob, NEW g \in Slots, NEW rest \in SUBSET Ops, AllFit(rest),
         NEW alone, \A x \in alone : Fits(x[2]),
         NEW q \in Layouts(Leftover(g, rest) \cup alone),
         groups' = NewTable([h \in {g} |-> FirstComponent(rest)], q)
  PROVE  LiveFit'
<1>1. PICK kept : kept = [h \in {g} |-> FirstComponent(rest)]
  OBVIOUS
<1>2. PICK pieces : pieces = Leftover(g, rest) \cup alone
  OBVIOUS
<1>3. DOMAIN kept = {g} /\ \A h \in {g} : kept[h] = {} \/ Fits(kept[h])
  BY <1>1, PiecesFit
<1>4. \A x \in pieces : Fits(x[2])
  BY <1>2, PiecesFit
<1>5. q \in Layouts(pieces) /\ groups' = NewTable(kept, q)
  BY <1>1, <1>2
<1> QED BY <1>3, <1>4, <1>5, TableFits

LEMMA DeRecomputeFits ==
  ASSUME Inv, LiveFit, DeRecompute
  PROVE  LiveFit'
<1>1. PICK op \in Ops : \E m \in DeRecomputeMoves(op) : ApplyDeRecompute(op, m.ga)
  BY DEF DeRecompute
<1>2. PICK ga \in Holders(op) : DeRecomputeFeasible(op, ga) /\ ApplyDeRecompute(op, ga)
  BY <1>1 DEF DeRecomputeMoves
<1>3. PICK rest : rest = groups[ga] \ {op}
  OBVIOUS
<1>4. ga \in Slots /\ rest \in SUBSET Ops /\ AllFit(rest)
  BY <1>2, <1>3 DEF Holders, Alive, Inv, Consistent, TypeOK, DeRecomputeFeasible
<1>5. PICK q \in Layouts(Leftover(ga, rest)) :
        groups' = NewTable([h \in {ga} |-> FirstComponent(rest)], q) /\ prob' = prob
  BY <1>2, <1>3 DEF ApplyDeRecompute, Commit
<1>6. Leftover(ga, rest) \cup {} = Leftover(ga, rest)
  OBVIOUS
<1> QED BY <1>4, <1>5, <1>6, CutFits

LEMMA EjectFits ==
  ASSUME Inv, LiveFit, Eject
  PROVE  LiveFit'
<1>1. PICK op \in Ops : \E m \in EjectMoves(op) : ApplyEject(op, m.ga)
  BY DEF Eject
<1>2. PICK ga \in GroupsOf(op) : EjectFeasible(op, ga) /\ ApplyEject(op, ga)
  BY ONLY <1>1 DEF EjectMoves
<1>3. PICK rest, alone :
        /\ rest = groups[ga] \ {op}
        /\ alone = IF GroupsOf(op) \ {ga} # {} THEN {} ELSE {<<Rank(0), {op}>>}
  OBVIOUS
<1>4. ga \in Slots /\ rest \in SUBSET Ops /\ AllFit(rest)
  BY <1>2, <1>3 DEF GroupsOf, Inv, Consistent, TypeOK, EjectFeasible
<1>5. \A x \in alone : Fits(x[2])
  <2>1. CASE GroupsOf(op) \ {ga} # {}
    BY ONLY <1>3, <2>1
  <2>2. CASE GroupsOf(op) \ {ga} = {}
    <3>1. Fits({op})
      BY ONLY <1>2, <2>2 DEF EjectFeasible
    <3>2. alone = {<<Rank(0), {op}>>}
      BY ONLY <1>3, <2>2
    <3> QED BY ONLY <3>1, <3>2
  <2> QED BY <2>1, <2>2
<1>6. PICK q \in Layouts(Leftover(ga, rest) \cup alone) :
        groups' = NewTable([h \in {ga} |-> FirstComponent(rest)], q) /\ prob' = prob
  <2>1. PICK q \in Layouts(Leftover(ga, rest) \cup alone) :
          Commit(NewTable([h \in {ga} |-> FirstComponent(rest)], q),
                 ShrunkIndex(q, ga, FirstComponent(rest)), q, {ga} \cup Appended(q))
    BY ONLY <1>2, <1>3 DEF ApplyEject
  <2> QED BY ONLY <2>1 DEF Commit
<1> QED BY <1>4, <1>5, <1>6, CutFits

LEMMA SplitFits ==
  ASSUME Inv, LiveFit, Split
  PROVE  LiveFit'
<1>1. PICK op \in Ops : \E m \in SplitMoves(op) : ApplySplit(op, m.v, m.ga)
  BY DEF Split
<1>2. PICK m \in SplitMoves(op) : ApplySplit(op, m.v, m.ga)
  BY <1>1
<1>3. PICK ga, stay, moved : /\ ga = m.ga /\ stay = SideOf(groups[ga], op, m.v)
                             /\ moved = groups[ga] \ stay
  OBVIOUS
<1>4. Fits(stay) /\ Fits(moved)
  BY <1>2, <1>3 DEF ApplySplit, SplitApplies, SplitFeasible
<1>5. PICK q \in Layouts({<<Rank(0), moved>>}) :
        groups' = NewTable([g \in {ga} |-> stay], q) /\ prob' = prob
  BY <1>2, <1>3 DEF ApplySplit, Commit
<1>6. PICK kept : kept = [g \in {ga} |-> stay]
  OBVIOUS
<1>7. DOMAIN kept = {ga} /\ \A g \in {ga} : kept[g] = {} \/ Fits(kept[g])
  BY <1>4, <1>6
<1>8. \A x \in {<<Rank(0), moved>>} : Fits(x[2])
  BY <1>4
<1> QED BY <1>5, <1>6, <1>7, <1>8, TableFits

LEMMA StealFits ==
  ASSUME Inv, LiveFit, Steal
  PROVE  LiveFit'
<1>1. PICK op \in Ops : \E m \in StealMoves(op) : ApplySteal(op, m.ga, m.gb)
  BY DEF Steal
<1>2. PICK m \in StealMoves(op) : ApplySteal(op, m.ga, m.gb)
  BY <1>1
<1>3. PICK mm \in Holders(op) \X AdjGroups(op) :
        /\ m = [type |-> "STEAL", op |-> op, ga |-> mm[1], gb |-> mm[2]]
        /\ Fits(groups[mm[2]] \cup {op}) /\ AllFit(groups[mm[1]] \ {op})
  BY <1>2 DEF StealMoves
<1>4. PICK from, to, rest : from = mm[1] /\ to = mm[2] /\ rest = groups[from] \ {op}
  OBVIOUS
<1>5. PICK kept : kept = [g \in {from, to} |-> IF g = to THEN groups[to] \cup {op}
                                               ELSE FirstComponent(rest)]
  OBVIOUS
<1>6. ApplySteal(op, from, to) /\ Fits(groups[to] \cup {op}) /\ AllFit(rest)
  BY <1>2, <1>3, <1>4
<1>7. PICK q \in Layouts(Leftover(from, rest)) : groups' = NewTable(kept, q) /\ prob' = prob
  BY <1>4, <1>5, <1>6 DEF ApplySteal, Commit
<1>8. rest \in SUBSET Ops
  BY <1>3, <1>4 DEF Holders, Alive, Inv, Consistent, TypeOK
<1>9. /\ FirstComponent(rest) = {} \/ Fits(FirstComponent(rest))
      /\ \A x \in Leftover(from, rest) : Fits(x[2])
  BY <1>6, <1>8, PiecesFit
<1>10. DOMAIN kept = {from, to} /\ \A g \in {from, to} : kept[g] = {} \/ Fits(kept[g])
  BY <1>5, <1>6, <1>9
<1> QED BY <1>7, <1>9, <1>10, TableFits

LEMMA MergeFits ==
  ASSUME Inv, LiveFit, Merge
  PROVE  LiveFit'
<1>1. PICK op \in Ops : \E m \in MergeMoves(op) : ApplyMerge(m.ga, m.gb)
  BY DEF Merge
<1>2. PICK ga, gb : ApplyMerge(ga, gb)
  BY <1>1
<1>3. PICK kept : kept = [g \in {ga, gb} |-> IF g = ga THEN groups[ga] \cup groups[gb] ELSE {}]
  OBVIOUS
<1>4. DOMAIN kept = {ga, gb} /\ \A g \in {ga, gb} : kept[g] = {} \/ Fits(kept[g])
  BY <1>2, <1>3 DEF ApplyMerge, MergeApplies
<1>5. <<>> \in Layouts({}) /\ groups' = NewTable(kept, <<>>) /\ prob' = prob
  BY <1>2, <1>3, EmptyLayout DEF Inv, ApplyMerge, Commit
<1>6. \A x \in {} : Fits(x[2])
  OBVIOUS
<1> QED BY <1>4, <1>5, <1>6, TableFits

LEMMA RecomputeFits ==
  ASSUME Inv, LiveFit, Recompute
  PROVE  LiveFit'
<1>1. PICK op \in Ops : \E m \in RecomputeMoves(op) : ApplyRecompute(op, m.gb)
  BY DEF Recompute
<1>2. PICK into : ApplyRecompute(op, into)
  BY <1>1
<1>3. PICK kept : kept = [g \in {into} |-> groups[into] \cup {op}]
  OBVIOUS
<1>4. DOMAIN kept = {into} /\ \A g \in {into} : kept[g] = {} \/ Fits(kept[g])
  BY <1>2, <1>3 DEF ApplyRecompute, RecomputeApplies
<1>5. <<>> \in Layouts({}) /\ groups' = NewTable(kept, <<>>) /\ prob' = prob
  BY <1>2, <1>3, EmptyLayout DEF Inv, ApplyRecompute, Commit
<1>6. \A x \in {} : Fits(x[2])
  OBVIOUS
<1> QED BY <1>4, <1>5, <1>6, TableFits

LEMMA TensorMergeFits ==
  ASSUME Inv, LiveFit, TensorMerge
  PROVE  LiveFit'
<1>1. PICK op \in Ops : \E m \in TensorMergeMoves(op, {}) : ApplyTensorMerge(m.gs)
  BY DEF TensorMerge
<1>2. PICK G : ApplyTensorMerge(G)
  BY <1>1
<1>3. PICK kept : kept = [g \in G |-> IF g = Least(G) THEN Union(G) ELSE {}]
  OBVIOUS
<1>4. DOMAIN kept = G /\ \A g \in G : kept[g] = {} \/ Fits(kept[g])
  BY <1>2, <1>3 DEF ApplyTensorMerge, TensorMergeApplies
<1>5. <<>> \in Layouts({}) /\ groups' = NewTable(kept, <<>>) /\ prob' = prob
  BY <1>2, <1>3, EmptyLayout DEF Inv, ApplyTensorMerge, Commit
<1>6. \A x \in {} : Fits(x[2])
  OBVIOUS
<1> QED BY <1>4, <1>5, <1>6, TableFits

(* The ops of X leave the groups of G, and what is left and what is formed *)
(* fits.                                                                   *)
LEMMA LeavingFits ==
  ASSUME Inv, LiveFit, prob' = prob, NEW G \in SUBSET Slots, NEW X,
         \A g \in G : AllFit(groups[g] \ X),
         NEW formed, \A x \in formed : Fits(x[2]),
         NEW pieces, pieces = (UNION {Leftover(g, groups[g] \ X) : g \in G}) \cup formed,
         NEW q \in Layouts(pieces),
         groups' = NewTable([g \in G |-> FirstComponent(groups[g] \ X)], q)
  PROVE  LiveFit'
<1>1. PICK kept : kept = [g \in G |-> FirstComponent(groups[g] \ X)]
  OBVIOUS
<1>2. ASSUME NEW g \in G
      PROVE  /\ FirstComponent(groups[g] \ X) = {} \/ Fits(FirstComponent(groups[g] \ X))
             /\ \A x \in Leftover(g, groups[g] \ X) : Fits(x[2])
  <2>1. groups[g] \ X \in SUBSET Ops /\ AllFit(groups[g] \ X)
    BY DEF Inv, Consistent, TypeOK
  <2> QED BY <2>1, PiecesFit
<1>3. DOMAIN kept = G /\ \A g \in G : kept[g] = {} \/ Fits(kept[g])
  BY <1>1, <1>2
<1>4. \A x \in pieces : Fits(x[2])
  BY <1>2
<1>5. groups' = NewTable(kept, q)
  BY <1>1
<1> QED BY <1>3, <1>4, <1>5, TableFits

LEMMA ScatterFits ==
  ASSUME Inv, LiveFit, NEW G \in SUBSET Slots, NEW X, \A g \in G : AllFit(groups[g] \ X),
         NEW formed, \A x \in formed : Fits(x[2]), Scatter(G, X, formed)
  PROVE  LiveFit'
<1>1. PICK pieces : pieces = (UNION {Leftover(g, groups[g] \ X) : g \in G}) \cup formed
  OBVIOUS
<1>2. PICK q \in Layouts(pieces) :
        groups' = NewTable([g \in G |-> FirstComponent(groups[g] \ X)], q) /\ prob' = prob
  BY <1>1 DEF Scatter, Commit
<1> QED BY <1>1, <1>2, LeavingFits

LEMMA TensorExtractFits ==
  ASSUME Inv, LiveFit, TensorExtract
  PROVE  LiveFit'
<1>1. PICK op \in Ops : \E m \in TensorExtractMoves(op, {}) : ApplyTensorExtract(m.t, m.gs)
  BY DEF TensorExtract
<1>2. PICK m \in TensorExtractMoves(op, {}) : ApplyTensorExtract(m.t, m.gs)
  BY <1>1
<1>3. PICK mm \in TensorCandidates(op, {}) :
        /\ m = [type |-> "TENSOR_EXTRACT", op |-> op, t |-> mm[1], gs |-> mm[2]]
        /\ \A C \in UNION {Components(groups[g] \ Extracted(mm[1])) : g \in mm[2]} : Fits(C)
  BY <1>2 DEF TensorExtractMoves
<1>4. PICK G, X : G = m.gs /\ X = Extracted(m.t)
  OBVIOUS
<1>5. /\ G \in SUBSET Slots /\ Fits(X)
      /\ Scatter(G, X, {<<Rank(0), X>>})
  BY <1>2, <1>4 DEF ApplyTensorExtract, TensorExtractApplies, Alive
<1>6. \A g \in G : AllFit(groups[g] \ X)
  BY <1>3, <1>4 DEF AllFit
<1>7. \A x \in {<<Rank(0), X>>} : Fits(x[2])
  BY <1>5
<1> QED BY <1>5, <1>6, <1>7, ScatterFits

LEMMA TensorExtractSplitFits ==
  ASSUME Inv, LiveFit, TensorExtractSplit
  PROVE  LiveFit'
<1>1. PICK op \in Ops : \E m \in TensorExtractSplitMoves(op, {}) :
        ApplyTensorExtractSplit(m.t, m.gs, m.k)
  BY DEF TensorExtractSplit
<1>2. PICK m \in TensorExtractSplitMoves(op, {}) : ApplyTensorExtractSplit(m.t, m.gs, m.k)
  BY <1>1
<1>3. PICK mm \in TensorCandidates(op, {}) \X (2..Cardinality(Ops)) :
        /\ m = [type |-> "TENSOR_EXTRACT_SPLIT", op |-> op, t |-> mm[1][1], gs |-> mm[1][2],
                k |-> mm[2]]
        /\ \A g \in mm[1][2] : AllFit(groups[g] \ Extracted(mm[1][1]))
        /\ \A i \in 0..(mm[2] - 1) : Fits(SubGroup(mm[1][1], mm[2], i))
  BY <1>2 DEF TensorExtractSplitMoves
<1>4. PICK t, G, k, X : t = m.t /\ G = m.gs /\ k = m.k /\ X = Extracted(t)
  OBVIOUS
<1>5. /\ \A g \in G : AllFit(groups[g] \ X)
      /\ \A i \in 0..(k - 1) : Fits(SubGroup(t, k, i))
  BY <1>3, <1>4
<1>6. PICK formed : formed = {<<Rank(i), SubGroup(t, k, i)>> : i \in 0..(k - 1)}
  OBVIOUS
<1>7. Scatter(G \cap Alive, X, formed)
  BY <1>2, <1>4, <1>6 DEF ApplyTensorExtractSplit
<1>8. G \cap Alive \in SUBSET Slots /\ \A x \in formed : Fits(x[2])
  BY <1>5, <1>6 DEF Alive
<1> QED BY <1>5, <1>7, <1>8, ScatterFits

LEMMA ForceRecomputeFits ==
  ASSUME Inv, LiveFit, ForceRecompute
  PROVE  LiveFit'
<1>1. PICK op \in Ops : \E m \in ForceRecomputeMoves(op, {}) : ApplyForceRecompute(m.t)
  BY DEF ForceRecompute
<1>2. PICK t \in Producers(op) : /\ \A g \in TouchedGroups(t) : AllFit(groups[g] \ Extracted(t))
                                 /\ PairsFit(t) /\ ApplyForceRecompute(t)
  BY <1>1 DEF ForceRecomputeMoves
<1>3. PICK X, G, formed : /\ X = Extracted(t) /\ G = TouchedGroups(t)
                          /\ formed = {<<Rank(c), {t, c}>> : c \in Consumers(t)}
  OBVIOUS
<1>4. PICK pieces : pieces = (UNION {Leftover(g, groups[g] \ X) : g \in G}) \cup formed
  OBVIOUS
<1>5. PICK q \in Layouts(pieces) :
        groups' = NewTable([g \in G |-> FirstComponent(groups[g] \ X)], q) /\ prob' = prob
  BY <1>2, <1>3, <1>4 DEF ApplyForceRecompute
<1>6. G \in SUBSET Slots /\ \A x \in formed : Fits(x[2])
  BY <1>2, <1>3 DEF TouchedGroups, Holders, Alive, PairsFit
<1>7. \A g \in G : AllFit(groups[g] \ X)
  BY <1>2, <1>3
<1> QED BY <1>4, <1>5, <1>6, <1>7, LeavingFits

LEMMA SearchFits ==
  ASSUME Inv, LiveFit, Next
  PROVE  LiveFit'
BY DeRecomputeFits, EjectFits, SplitFits, StealFits, MergeFits, RecomputeFits, TensorMergeFits,
   TensorExtractFits, TensorExtractSplitFits, ForceRecomputeFits DEF Next
-----------------------------------------------------------------------------
(* Taking the recomputed ops out.                                          *)

(* What is left of two groups shares nothing.                              *)
LEMMA SharedIsRecomputed ==
  ASSUME Inv, NEW g \in Slots, NEW h \in Slots, g # h, NEW o \in groups[g] \cap groups[h]
  PROVE  o \in Recomputed
<1>1. PICK H : H = {k \in Alive : o \in groups[k]}
  OBVIOUS
<1>2. {g, h} \subseteq H /\ H \subseteq Slots
  BY <1>1 DEF Alive
<1>3. IsFiniteSet(H)
  BY <1>2, SlotsFinite, FS_Subset
<1>4. Cardinality({g, h}) = 2
  <2>1. IsFiniteSet({g}) /\ Cardinality({g}) = 1
    BY FS_Singleton
  <2>2. Cardinality({g} \cup {h}) = 2
    BY <2>1, FS_AddElement
  <2>3. {g} \cup {h} = {g, h}
    OBVIOUS
  <2> QED BY <2>2, <2>3
<1>5. Cardinality(H) \in Nat /\ Cardinality({g, h}) <= Cardinality(H)
  BY <1>2, <1>3, FS_Subset, FS_CardinalityType
<1>6. o \in Ops
  BY DEF Inv, Consistent, TypeOK
<1> QED BY <1>1, <1>4, <1>5, <1>6 DEF Recomputed

LEMMA RecomputedIsShared ==
  ASSUME Inv, NEW g \in Slots, NEW o \in Recomputed, o \in groups[g]
  PROVE  \E h \in Slots : h # g /\ o \in groups[h]
<1>1. PICK H : H = {k \in Alive : o \in groups[k]}
  OBVIOUS
<1>2. CASE H = {g}
  <2>1. Cardinality(H) = 1
    BY <1>2, FS_Singleton
  <2> QED BY <1>1, <2>1 DEF Recomputed
<1>3. CASE H # {g}
  BY <1>1, <1>3 DEF Alive
<1> QED BY <1>2, <1>3

(* An op of one group only that is on chip there has all its consumers in  *)
(* the group, and none of them is recomputed.                              *)
LEMMA RestIntact ==
  ASSUME Inv, ~HasEphemeralGap, NEW g \in Slots
  PROVE  Intact(groups[g] \ Recomputed)
<1>1. PICK S : S = groups[g] \ Recomputed
  OBVIOUS
<1>2. SUFFICES ASSUME NEW t \in S, t \notin prob.required, ConsumedIn(t, S), NEW c \in Consumers(t)
               PROVE  c \in S
  BY <1>1 DEF Intact
<1>3. t \in groups[g] /\ t \in Ops /\ g \in Alive /\ c \in Ops
  BY <1>1, <1>2 DEF Alive, Inv, Consistent, TypeOK, Consumers
<1>4. \A h \in Slots : t \in groups[h] => h = g
  BY <1>1, <1>2, <1>3, SharedIsRecomputed
<1>5. IsEphemeral(groups[g], t)
  BY <1>1, <1>2 DEF IsEphemeral, IsBoundaryOutput, ConsumedIn
<1>6. ~Exported(t, g)
  BY <1>3, <1>4, HoldersAreLive DEF Inv, Exported
<1>7. /\ ~(c \notin groups[g] /\ \A h \in GroupsOf(c) \cap Alive : t \notin groups[h])
      /\ ~(c \in groups[g] /\ \E h \in (GroupsOf(c) \cap Alive) \ {g} : t \notin groups[h])
  BY <1>2, <1>3, <1>5, <1>6 DEF HasEphemeralGap, HasGapBeyond
<1>8. GroupsOf(c) \cap Alive = {h \in Slots : c \in groups[h]}
  BY <1>3, HoldersAreLive DEF Inv, Holders
<1>9. c \in groups[g]
  BY <1>4, <1>7, <1>8
<1>10. \A h \in Slots : c \in groups[h] => h = g
  BY <1>4, <1>7, <1>8, <1>9
<1>11. c \notin Recomputed
  BY <1>9, <1>10, RecomputedIsShared
<1> QED BY <1>1, <1>9, <1>11

Stripped == [g \in Alive |-> FirstComponent(groups[g] \ Recomputed)]

Freed == {<<0, {o}>> : o \in Recomputed}
         \cup UNION {Leftover(g, groups[g] \ Recomputed) : g \in Alive}

(* Every piece is one recomputed op or falls off the rest of a group.      *)
LEMMA FreedPieces ==
  ASSUME Inv
  PROVE  /\ \A g \in Alive :
              /\ Stripped[g] \in Components(groups[g] \ Recomputed) \cup {{}}
              /\ Stripped[g] \subseteq groups[g] \ Recomputed
         /\ \A x \in Freed :
              \/ \E o \in Recomputed : x = <<0, {o}>>
              \/ \E g \in Alive : /\ x \in Leftover(g, groups[g] \ Recomputed)
                                  /\ x[1] = g
                                  /\ x[2] \in Components(groups[g] \ Recomputed)
                                  /\ x[2] \in (SUBSET (groups[g] \ Recomputed)) \ {{}}
                                  /\ x[2] \cap Stripped[g] = {}
<1>1. ASSUME NEW g \in Alive, NEW S, S = groups[g] \ Recomputed
      PROVE  S \in SUBSET Ops /\ Stripped[g] = FirstComponent(S)
  BY <1>1 DEF Inv, Consistent, TypeOK, Alive, Stripped
<1>2. ASSUME NEW g \in Alive
      PROVE  /\ Stripped[g] \in Components(groups[g] \ Recomputed) \cup {{}}
             /\ Stripped[g] \subseteq groups[g] \ Recomputed
  <2>1. PICK S : S = groups[g] \ Recomputed
    OBVIOUS
  <2>2. S \in SUBSET Ops /\ Stripped[g] = FirstComponent(S)
    BY <1>1, <2>1
  <2>3. FirstComponent(S) \in Components(S) \cup {{}} /\ FirstComponent(S) \subseteq S
    BY <2>2, FallsApart, FirstInside
  <2> QED BY <2>1, <2>2, <2>3
<1>3. ASSUME NEW x \in Freed, \A o \in Recomputed : x # <<0, {o}>>
      PROVE  \E g \in Alive : /\ x \in Leftover(g, groups[g] \ Recomputed)
                              /\ x[1] = g
                              /\ x[2] \in Components(groups[g] \ Recomputed)
                              /\ x[2] \in (SUBSET (groups[g] \ Recomputed)) \ {{}}
                              /\ x[2] \cap Stripped[g] = {}
  <2>1. PICK g \in Alive : x \in Leftover(g, groups[g] \ Recomputed)
    BY <1>3 DEF Freed
  <2>2. PICK S : S = groups[g] \ Recomputed
    OBVIOUS
  <2>3. S \in SUBSET Ops /\ Stripped[g] = FirstComponent(S) /\ x \in Leftover(g, S)
    BY <1>1, <2>1, <2>2
  <2>4. /\ x[1] = g
        /\ x[2] \in Components(S)
        /\ x[2] \in (SUBSET S) \ {{}}
        /\ x[2] \cap FirstComponent(S) = {}
    BY <2>3, FallsApart
  <2>5. /\ x \in Leftover(g, groups[g] \ Recomputed)
        /\ x[1] = g
        /\ x[2] \in Components(groups[g] \ Recomputed)
        /\ x[2] \in (SUBSET (groups[g] \ Recomputed)) \ {{}}
        /\ x[2] \cap Stripped[g] = {}
    BY <2>1, <2>2, <2>3, <2>4
  <2> QED BY <2>5
<1> QED BY <1>2, <1>3

LEMMA MaterializeShares ==
  ASSUME Inv
  PROVE  Shares(Alive, Stripped, Freed) /\ ApartBeyond(Alive)
<1> DEFINE R(g) == groups[g] \ Recomputed
<1>1. /\ groups \in [Slots -> SUBSET Ops] /\ Alive \subseteq Slots
      /\ \A g \in Slots \ Alive : groups[g] = {}
  BY DEF Inv, Consistent, TypeOK, Alive
<1>2. \A g, h \in Alive : g # h => R(g) \cap R(h) = {}
  BY <1>1, SharedIsRecomputed
<1>3. \A g \in Alive : R(g) \subseteq Union(Alive)
  BY DEF Union
<1>4. Recomputed \subseteq Union(Alive)
  <2> SUFFICES ASSUME NEW o \in Recomputed PROVE o \in Union(Alive)
    OBVIOUS
  <2>1. o \in Ops
    BY DEF Recomputed
  <2>2. PICK g \in Slots : o \in groups[g]
    BY <2>1 DEF Inv, Consistent, AllHeld
  <2> QED BY <2>2 DEF Union, Alive
<1>5. \A g \in Alive : Stripped[g] \subseteq R(g)
  BY FreedPieces
<1>6. ASSUME NEW x \in Freed
      PROVE  \/ \E o \in Recomputed : x = <<0, {o}>>
             \/ \E g \in Alive : /\ x \in Leftover(g, R(g)) /\ x[1] = g
                                 /\ x[2] \in (SUBSET R(g)) \ {{}}
                                 /\ x[2] \cap Stripped[g] = {}
  BY FreedPieces
<1> HIDE DEF R
<1>7. ASSUME NEW x \in Freed
      PROVE  x[1] \in Int /\ x[2] \in (SUBSET Union(Alive)) \ {{}}
  <2>1. CASE \E o \in Recomputed : x = <<0, {o}>>
    <3>1. PICK o \in Recomputed : x = <<0, {o}>>
      BY <2>1
    <3> QED BY <1>4, <3>1
  <2>2. CASE \E g \in Alive : x[1] = g /\ x[2] \in (SUBSET R(g)) \ {{}}
    <3>1. PICK g \in Alive : x[1] = g /\ x[2] \in (SUBSET R(g)) \ {{}}
      BY <2>2
    <3>2. g \in Int
      BY <1>1, SlotsFinite
    <3> QED BY <1>3, <3>1, <3>2
  <2> QED BY <1>6, <2>1, <2>2
<1>8. \A g, h \in Alive : g # h => Stripped[g] \cap Stripped[h] = {}
  BY <1>2, <1>5
<1>9. \A g \in Alive : R(g) \cap Recomputed = {}
  BY DEF R
<1>10. ASSUME NEW g \in Alive, NEW x \in Freed PROVE Stripped[g] \cap x[2] = {}
  <2>1. CASE \E o \in Recomputed : x = <<0, {o}>>
    BY <1>5, <1>9, <2>1
  <2>2. CASE \E h \in Alive : x[2] \in (SUBSET R(h)) \ {{}} /\ x[2] \cap Stripped[h] = {}
    <3>1. PICK h \in Alive : x[2] \in (SUBSET R(h)) \ {{}} /\ x[2] \cap Stripped[h] = {}
      BY <2>2
    <3>2. CASE h = g
      BY <3>1, <3>2
    <3>3. CASE h # g
      BY <1>2, <1>5, <3>1, <3>3
    <3> QED BY <3>2, <3>3
  <2> QED BY <1>6, <2>1, <2>2
<1>11. ASSUME NEW x \in Freed, NEW y \in Freed, x # y PROVE x[2] \cap y[2] = {}
  <2>1. CASE \E o \in Recomputed : x = <<0, {o}>>
    <3>1. PICK o \in Recomputed : x = <<0, {o}>>
      BY <2>1
    <3>2. CASE \E u \in Recomputed : y = <<0, {u}>>
      BY <1>11, <3>1, <3>2
    <3>3. CASE \E g \in Alive : y[2] \in (SUBSET R(g)) \ {{}}
      BY <1>9, <3>1, <3>3
    <3> QED BY <1>6, <3>2, <3>3
  <2>2. CASE \E g \in Alive : x \in Leftover(g, R(g)) /\ x[2] \in (SUBSET R(g)) \ {{}}
    <3>1. PICK g \in Alive : x \in Leftover(g, R(g)) /\ x[2] \in (SUBSET R(g)) \ {{}}
      BY <2>2
    <3>2. CASE \E u \in Recomputed : y = <<0, {u}>>
      BY <1>9, <3>1, <3>2
    <3>3. CASE \E h \in Alive : y \in Leftover(h, R(h)) /\ y[2] \in (SUBSET R(h)) \ {{}}
      <4>1. PICK h \in Alive : y \in Leftover(h, R(h)) /\ y[2] \in (SUBSET R(h)) \ {{}}
        BY <3>3
      <4>2. CASE h = g
        <5>1. R(g) \in SUBSET Ops
          BY <1>1 DEF R
        <5> QED BY <1>11, <3>1, <4>1, <4>2, <5>1, FallsApart
      <4>3. CASE h # g
        BY <1>2, <3>1, <4>1, <4>3
      <4> QED BY <4>2, <4>3
    <3> QED BY <1>6, <3>2, <3>3
  <2> QED BY <1>6, <2>1, <2>2
<1>12. \A g \in Alive : Stripped[g] \subseteq Union(Alive)
  BY <1>3, <1>5
<1>13. ApartBeyond(Alive)
  BY <1>1 DEF ApartBeyond
<1> QED BY <1>7, <1>8, <1>10, <1>11, <1>12, <1>13 DEF Shares

LEMMA MaterializedPartsIntact ==
  ASSUME Inv, ~HasEphemeralGap, NEW S \in Parts(Alive, Stripped, Freed)
  PROVE  Intact(S)
<1>1. Alive \subseteq Slots /\ \A g \in Alive : groups[g] \ Recomputed \in SUBSET Ops
  BY DEF Alive, Inv, Consistent, TypeOK
<1>2. ASSUME NEW g \in Alive, NEW C \in Components(groups[g] \ Recomputed) \cup {{}}
      PROVE  Intact(C)
  <2>1. Intact(groups[g] \ Recomputed)
    BY <1>1, RestIntact
  <2> QED BY <1>1, <2>1, PieceIntact
<1>3. ASSUME NEW o \in Recomputed PROVE Intact({o})
  <2>1. o \in Ops /\ o \notin Reads(o)
    BY NobodyReadsItself DEF Inv, Recomputed
  <2> QED BY <2>1 DEF Intact, ConsumedIn, Consumers, Reads
<1>4. CASE \E g \in Alive : S = Stripped[g]
  BY <1>2, <1>4, FreedPieces
<1>5. CASE \E x \in Freed : S = x[2]
  <2>1. PICK x \in Freed : S = x[2]
    BY <1>5
  <2>2. CASE \E o \in Recomputed : x = <<0, {o}>>
    <3>1. PICK o \in Recomputed : x = <<0, {o}>>
      BY <2>2
    <3>2. S = {o}
      BY <2>1, <3>1
    <3> QED BY <1>3, <3>2
  <2>3. CASE \E g \in Alive : x[2] \in Components(groups[g] \ Recomputed)
    BY <1>2, <2>1, <2>3
  <2> QED BY <2>2, <2>3, FreedPieces
<1> QED BY <1>4, <1>5 DEF Parts
LEMMA MaterializeEdits ==
  ASSUME Inv, Materialize
  PROVE  /\ Inv'
         /\ \E q \in Layouts(Freed) : groups' = NewTable(Stripped, q) /\ prob' = prob
<1>1. PICK q \in Layouts(Freed) :
        /\ groups' = NewTable(Stripped, q)
        /\ index' = IndexOf(NewTable(Stripped, q))
        /\ edges' = BuildEdges(NewTable(Stripped, q), IndexOf(NewTable(Stripped, q)))
        /\ ngroups' = ngroups + Len(q)
        /\ prob' = prob
  BY DEF Materialize, Rebuild, Materialized, Freed, Stripped
<1>2. /\ Alive \subseteq Slots /\ groups \in [Slots -> SUBSET Ops]
      /\ \A g \in Slots \ Alive : groups[g] = {}
  BY DEF Alive, Inv, Consistent, TypeOK
<1>3. \A g \in Alive : Stripped[g] \in SUBSET Ops
  BY <1>2, FreedPieces
<1>4. Stripped \in [Alive -> SUBSET Ops]
  BY <1>3 DEF Stripped
<1>5. \A x \in Freed : x[2] \in SUBSET Ops
  <2>1. Union(Alive) \subseteq Ops
    BY <1>2 DEF Union
  <2> QED BY <2>1, MaterializeShares DEF Shares
<1>6. /\ index' \in [Ops -> [Slots -> Nat]]
      /\ \A o \in Ops, g \in Slots : index'[o][g] > 0 <=> o \in groups'[g]
  BY <1>1 DEF IndexOf
<1>7. \A o \in Ops, g \in Alive : index'[o][g] > 0 <=> o \in Stripped[g]
  BY <1>1, <1>2, <1>4, <1>6 DEF NewTable
<1>8. ASSUME NEW o \in Ops, NEW g \in Slots \ Alive
      PROVE  index'[o][g] > 0 <=> IndexAppend(index, q)[o][g] > 0
  <2>1. groups'[g] = IF g \in Appended(q) THEN q[g - ngroups][2] ELSE groups[g]
    BY <1>1, <1>4 DEF NewTable, Appended
  <2>2. IndexAppend(index, q)[o][g] > 0 <=>
           (g \in Appended(q) /\ o \in q[g - ngroups][2]) \/ o \in groups[g]
    BY <1>1, <1>5, IndexAppendLists DEF Inv
  <2> QED BY <1>2, <1>6, <2>1, <2>2
<1>9. ASSUME NEW g \in Slots, NEW o \in groups[g]
      PROVE  \/ \E h \in Slots \ Alive : o \in groups[h]
             \/ \E h \in Alive : o \in Stripped[h]
             \/ \E x \in Freed : o \in x[2]
  <2>1. CASE o \in Recomputed
    <3>1. <<0, {o}>> \in Freed
      BY <2>1 DEF Freed
    <3> QED BY <3>1
  <2>2. CASE o \notin Recomputed
    <3>2. g \in Alive
      BY DEF Alive
    <3>3. PICK S : S = groups[g] \ Recomputed
      OBVIOUS
    <3>4. S \in SUBSET Ops /\ o \in S
      BY <1>2, <2>2, <3>3
    <3>5. o \in FirstComponent(S) \/ \E x \in Leftover(g, S) : o \in x[2]
      BY <3>4, LeftoverCovers
    <3>6. Stripped[g] = FirstComponent(S) /\ Leftover(g, S) \subseteq Freed
      BY <3>2, <3>3 DEF Stripped, Freed
    <3> QED BY <3>2, <3>5, <3>6
  <2> QED BY <2>1, <2>2
<1>10. Move(Alive, Stripped, Freed, q)
  BY <1>1, <1>4, <1>5, <1>6, <1>7, <1>8, <1>9 DEF Move
<1>11. Maintained(Alive \cup Appended(q))
  BY <1>10, MoveIsEdit DEF Inv
<1>12. edges' = BuildEdges(groups', index')
  BY <1>1
<1>13. Inv'
  BY <1>11, <1>12, EditKeepsInv
<1> QED BY <1>1, <1>13

LEMMA MaterializeMends ==
  ASSUME Inv, Materialize
  PROVE  Inv' /\ Disjoint' /\ ~HasEphemeralGap'
<1>1. ~HasEphemeralGap
  BY DEF Materialize, PartitionHasGap, Refused, HasEphemeralGap
<1>2. PICK q \in Layouts(Freed) : groups' = NewTable(Stripped, q) /\ prob' = prob
  BY MaterializeEdits
<1>3. Inv'
  BY MaterializeEdits
<1>4. DOMAIN Stripped = Alive
  BY DEF Stripped
<1>5. PICK tab : tab = groups'
  OBVIOUS
<1>6. /\ Apart(tab)
      /\ \A g \in Slots : \/ tab[g] \in Parts(Alive, Stripped, Freed)
                          \/ g \notin Alive /\ tab[g] = groups[g]
  BY <1>2, <1>4, <1>5, MaterializeShares, RegroupedTable DEF Inv
<1>7. ASSUME NEW g \in Slots PROVE Intact(tab[g])
  <2>1. CASE tab[g] \in Parts(Alive, Stripped, Freed)
    BY <1>1, <2>1, MaterializedPartsIntact
  <2>2. CASE g \notin Alive /\ tab[g] = groups[g]
    <3>1. tab[g] = {}
      BY <2>2 DEF Alive
    <3> QED BY <3>1 DEF Intact
  <2> QED BY <1>6, <2>1, <2>2
<1>8. Apart(groups)'
  BY <1>5, <1>6 DEF Apart
<1>9. Unbroken(groups)'
  BY <1>2, <1>5, <1>7 DEF Unbroken, Intact, ConsumedIn, Consumers
<1> QED BY <1>3, <1>8, <1>9, ApartMeansNext, UnbrokenMeansNext DEF Inv
-----------------------------------------------------------------------------
(* The invariant: what is known of the partition before and after the      *)
(* search hands it on.                                                     *)

(* The tables agree and no op is missing.                                  *)
Tabled == /\ prob \in Problems
          /\ groups \in [Slots -> SUBSET Ops]
          /\ IndexCurrent
          /\ AllHeld

(* What is put in order.                                                   *)
Sound == /\ Tabled
         /\ ~HasEphemeralGap
         /\ source => Disjoint
         /\ ~source => IsAcyclic /\ LiveFit

Partitioned == /\ source \in BOOLEAN
               /\ stage = "search" => Inv /\ LiveFit
               /\ stage # "search" => Sound

LEMMA TabledListed ==
  ASSUME Tabled, NEW o \in Ops
  PROVE  /\ GroupsOf(o) = {g \in Slots : o \in groups[g]}
         /\ GroupsOf(o) \subseteq Alive
         /\ Covered(o)
<1>1. GroupsOf(o) = {g \in Slots : o \in groups[g]}
  BY DEF Tabled, IndexCurrent
<1>2. GroupsOf(o) \subseteq Alive
  BY <1>1 DEF Alive
<1>3. PICK g \in Slots : o \in groups[g]
  BY DEF Tabled, AllHeld
<1> QED BY <1>1, <1>2, <1>3 DEF Covered

(* An index made from the table agrees with it.                            *)
LEMMA RebuiltTabled ==
  ASSUME NEW table \in [Slots -> SUBSET Ops], \A o \in Ops : \E g \in Slots : o \in table[g],
         prob \in Problems, prob' = prob, Rebuild(table)
  PROVE  Tabled'
<1>1. groups' = table /\ index' = IndexOf(table)
  BY DEF Rebuild
<1>2. \A o \in Ops, g \in Slots : index'[o][g] > 0 <=> o \in table[g]
  BY <1>1 DEF IndexOf
<1>3. IndexCurrent'
  BY <1>1, <1>2 DEF IndexCurrent, GroupsOf
<1>4. AllHeld'
  BY <1>1 DEF AllHeld
<1> QED BY <1>1, <1>3, <1>4 DEF Tabled

LEMMA AuditSound ==
  ASSUME Inv, Audit
  PROVE  Tabled' /\ Disjoint' /\ ~HasEphemeralGap'
<1>1. PICK table \in AuditTables : Rebuild(table) /\ ~PartitionHasGap'
  BY DEF Audit
<1>2. PICK block \in [Ops -> 1..Cardinality(Ops)] :
        table = [g \in Slots |-> {o \in Ops : block[o] = g}]
  BY <1>1 DEF AuditTables
<1>3. \A o \in Ops : block[o] \in Slots /\ o \in table[block[o]]
  <2>1. Cardinality(Ops) \in Nat /\ Cardinality(Ops) <= MaxGroups /\ MaxGroups \in Nat
    BY OpsAssumption, RoomAssumption, MaxGroupsAssumption, FS_CardinalityType
  <2> QED BY <1>2, <2>1 DEF Slots
<1>4. table \in [Slots -> SUBSET Ops]
  BY <1>2
<1>5. Tabled'
  <2>1. \A o \in Ops : \E g \in Slots : o \in table[g]
    BY <1>3
  <2>2. prob \in Problems /\ prob' = prob
    BY DEF Inv, Consistent, TypeOK, Audit
  <2> QED BY <1>1, <1>4, <2>1, <2>2, RebuiltTabled
<1>6. Disjoint'
  <2>1. groups' = table
    BY <1>1 DEF Rebuild
  <2> QED BY <1>2, <2>1 DEF Disjoint, Alive
<1>7. ~HasEphemeralGap'
  BY <1>1 DEF PartitionHasGap, Refused, HasEphemeralGap
<1> QED BY <1>5, <1>6, <1>7

(* The groups stay, their index is made anew: nothing changes for what is  *)
(* asked of the partition.                                                 *)
LEMMA AcceptSound ==
  ASSUME Inv, LiveFit, Accept
  PROVE  Tabled' /\ ~HasEphemeralGap' /\ IsAcyclic' /\ LiveFit'
<1>1. Rebuild(groups) /\ ~PartitionHasGap /\ prob' = prob /\ groups' = groups
  BY DEF Accept, Rebuild
<1>2. Tabled'
  BY <1>1, RebuiltTabled DEF Inv, Consistent, TypeOK, AllHeld
<1>3. \A o \in Ops : GroupsOf(o)' = GroupsOf(o)
  BY <1>1, <1>2 DEF Inv, Consistent, Tabled, IndexCurrent
<1>4. Alive' = Alive
  BY <1>1 DEF Alive
<1>5. LiveFit'
  BY <1>1, <1>4 DEF LiveFit, Fits
<1>6. ~HasEphemeralGap'
  <2>1. ~HasEphemeralGap
    BY <1>1 DEF PartitionHasGap, Refused, HasEphemeralGap
  <2>2. \A t \in Ops : Consumers(t) \subseteq Ops /\ Consumers(t)' = Consumers(t)
    BY <1>1 DEF Consumers
  <2>3. \A g \in Alive : groups[g] \subseteq Ops
    BY DEF Alive, Inv, Consistent, TypeOK
  <2>4. \A t \in Ops, g \in Alive : IsBoundaryOutput(groups[g], t)' = IsBoundaryOutput(groups[g], t)
    BY <1>1 DEF IsBoundaryOutput, ConsumedIn, Consumers
  <2>5. \A t \in Ops, g \in Alive : Exported(t, g)' = Exported(t, g)
    BY <1>1, <1>3, <1>4, <2>4 DEF Exported
  <2>6. \A t \in Ops, g \in Alive : IsEphemeral(groups[g], t)' = IsEphemeral(groups[g], t)
    BY <1>1, <2>4 DEF IsEphemeral
  <2> QED BY <1>1, <1>3, <1>4, <2>1, <2>2, <2>3, <2>5, <2>6 DEF HasEphemeralGap, HasGapBeyond
<1>7. IsAcyclic'
  <2>1. IsAcyclic
    BY <1>1 DEF PartitionHasGap, Refused
  <2>2. \A c \in Ops : Producers(c) \subseteq Ops /\ Producers(c)' = Producers(c)
    BY <1>1 DEF Producers
  <2>3. \A g \in Alive : Dependencies(g)' = Dependencies(g) /\ Dependencies(g) \subseteq Ops
    BY <1>3, <1>4, <2>2 DEF Dependencies
  <2> QED BY <1>3, <1>4, <2>1, <2>3 DEF IsAcyclic
<1> QED BY <1>2, <1>5, <1>6, <1>7
LEMMA SoundStays ==
  ASSUME Sound, prob' = prob, groups' = groups, index' = index, source' = source
  PROVE  Sound'
<1>1. Tabled'
  BY DEF Sound, Tabled, IndexCurrent, GroupsOf, AllHeld
<1>2. ~HasEphemeralGap'
  BY DEF Sound, HasEphemeralGap, HasGapBeyond, IsEphemeral, IsBoundaryOutput, Exported, ConsumedIn,
         Consumers, GroupsOf, Alive
<1>3. source' => Disjoint'
  BY DEF Sound, Disjoint, Alive
<1>4. IsAcyclic => IsAcyclic'
  <2>1. Alive' = Alive
    BY DEF Alive
  <2>2. \A o : GroupsOf(o)' = GroupsOf(o) /\ Producers(o)' = Producers(o)
    BY DEF GroupsOf, Producers
  <2>3. \A g : Dependencies(g)' = Dependencies(g)
    BY <2>1, <2>2 DEF Dependencies
  <2> QED BY <2>1, <2>2, <2>3 DEF IsAcyclic
<1>5. LiveFit => LiveFit'
  BY DEF LiveFit, Fits, Alive
<1> QED BY <1>1, <1>2, <1>3, <1>4, <1>5 DEF Sound

LEMMA StepPartitioned ==
  ASSUME Partitioned, [PipelineNext]_pipelineVars
  PROVE  Partitioned'
<1>1. CASE Search
  <2>1. stage = "search" /\ Next /\ stage' = "search" /\ source' = source
    BY <1>1 DEF Search
  <2>2. Inv' /\ LiveFit'
    BY <2>1, StepKeepsInv, SearchFits DEF Partitioned
  <2> QED BY <2>1, <2>2 DEF Partitioned
<1>2. CASE Materialize
  <2>1. /\ stage = "search" /\ source /\ stage' = "order" /\ source' = source
        /\ Inv
    BY <1>2 DEF Materialize, Partitioned
  <2>2. Inv' /\ Disjoint' /\ ~HasEphemeralGap'
    BY <1>2, <2>1, MaterializeMends
  <2>3. Sound'
    BY <2>1, <2>2 DEF Sound, Tabled, Inv, Consistent, TypeOK
  <2> QED BY <2>1, <2>3 DEF Partitioned
<1>3. CASE Audit
  <2>1. stage = "search" /\ source /\ stage' = "order" /\ source' = source /\ Inv
    BY <1>3 DEF Audit, Partitioned
  <2>2. Sound'
    BY <1>3, <2>1, AuditSound DEF Sound
  <2> QED BY <2>1, <2>2 DEF Partitioned
<1>4. CASE Accept
  <2>1. stage = "search" /\ ~source /\ stage' = "order" /\ source' = source /\ Inv /\ LiveFit
    BY <1>4 DEF Accept, Partitioned
  <2>2. Sound'
    BY <1>4, <2>1, AcceptSound DEF Sound
  <2> QED BY <2>1, <2>2 DEF Partitioned
<1>5. CASE Direct \/ Compare \/ Beam
  <2>1. /\ stage # "search" /\ stage' # "search" /\ source' = source
        /\ prob' = prob /\ groups' = groups /\ index' = index
    BY <1>5 DEF Direct, Compare, Beam, fmVars
  <2> QED BY <2>1, SoundStays DEF Partitioned
<1>6. CASE UNCHANGED pipelineVars
  <2>1. UNCHANGED fmVars /\ stage' = stage /\ source' = source
        /\ prob' = prob /\ groups' = groups /\ index' = index
    BY <1>6 DEF pipelineVars, fmVars
  <2>2. CASE stage = "search"
    <3>1. Inv'
      BY <2>1, <2>2, StepKeepsInv DEF Partitioned
    <3>2. LiveFit'
      BY <2>1, <2>2 DEF Partitioned, LiveFit, Fits, Alive
    <3> QED BY <2>1, <2>2, <3>1, <3>2 DEF Partitioned
  <2>3. CASE stage # "search"
    BY <2>1, <2>3, SoundStays DEF Partitioned
  <2> QED BY <2>2, <2>3
<1> QED BY <1>1, <1>2, <1>3, <1>4, <1>5, <1>6 DEF PipelineNext

(* The search hands on a partition whose tables agree, and everything that *)
(* happens to it until the schedule is made keeps it so: no op is missing, *)
(* no consumer is stranded (solver.cpp, solve).                            *)
THEOREM PartitionIsSound == PipelineSpec => []Partitioned
<1>1. PipelineInit => Partitioned
  <2> SUFFICES ASSUME PipelineInit PROVE Partitioned
    OBVIOUS
  <2>1. PartitionInit /\ source \in BOOLEAN /\ stage = "search"
    BY DEF PipelineInit, Init
  <2> QED BY <2>1, InitEstablishesInv, InitFits DEF Partitioned
<1>2. Partitioned /\ [PipelineNext]_pipelineVars => Partitioned'
  BY StepPartitioned
<1> QED BY <1>1, <1>2, PTL DEF PipelineSpec

(* A partition made ready for source code has disjoint groups, holds every *)
(* op and strands no consumer, however the groups overlapped before        *)
(* (MaterializeRecomputedSourceOps, and the audit).                        *)
THEOREM MaterializationIsSound == PipelineSpec => []MaterializedSound
<1>1. ASSUME Partitioned PROVE MaterializedSound
  BY <1>1, TabledListed DEF Partitioned, Sound, MaterializedSound, NoOpLost
<1> QED BY <1>1, PartitionIsSound, PTL
-----------------------------------------------------------------------------
(* Counting.  A finite set is put in order by a rank that tells its        *)
(* members apart.                                                          *)

(* A finite set of naturals that is not empty has a greatest member.       *)
LEMMA GreatestNatural ==
  ASSUME NEW S \in SUBSET Nat, IsFiniteSet(S), S # {}
  PROVE  Greatest(S) \in S /\ \A x \in S : x <= Greatest(S)
<1> DEFINE Topped(R) == \E x \in R : \A y \in R : y <= x
           T == {n \in Nat : \A R \in SUBSET Nat :
                   IsFiniteSet(R) /\ R # {} /\ Cardinality(R) <= n => Topped(R)}
<1>1. 0 \in T
  <2> SUFFICES ASSUME NEW R \in SUBSET Nat, IsFiniteSet(R), R # {}, Cardinality(R) <= 0
               PROVE  FALSE
    OBVIOUS
  <2> QED BY FS_EmptySet, FS_CardinalityType
<1>2. ASSUME NEW n \in Nat, n \in T PROVE n + 1 \in T
  <2> SUFFICES ASSUME NEW R \in SUBSET Nat, IsFiniteSet(R), R # {}, Cardinality(R) <= n + 1
               PROVE  Topped(R)
    OBVIOUS
  <2>1. PICK r \in R : TRUE
    OBVIOUS
  <2>2. PICK Q : Q = R \ {r}
    OBVIOUS
  <2>3. IsFiniteSet(Q) /\ Cardinality(Q) = Cardinality(R) - 1 /\ Cardinality(R) \in Nat
    BY <2>1, <2>2, FS_RemoveElement, FS_CardinalityType
  <2>4. CASE Q = {}
    BY <2>1, <2>2, <2>4
  <2>5. CASE Q # {}
    <3>1. Topped(Q)
      BY <1>2, <2>2, <2>3, <2>5
    <3>2. PICK x \in Q : \A y \in Q : y <= x
      BY <3>1
    <3>3. CASE r <= x
      BY <2>2, <3>2, <3>3
    <3>4. CASE ~(r <= x)
      <4>1. \A y \in R : y <= r
        BY <2>1, <2>2, <3>2, <3>4
      <4> QED BY <2>1, <4>1
    <3> QED BY <3>3, <3>4
  <2> QED BY <2>4, <2>5
<1>3. PICK N \in Nat : N = Cardinality(S)
  BY FS_CardinalityType
<1>4. 0..N \subseteq T
  <2> HIDE DEF T
  <2> QED BY <1>1, <1>2, InductionUpTo
<1>5. N \in T
  <2> HIDE DEF T
  <2> QED BY <1>4
<1>6. Topped(S)
  BY <1>3, <1>5
<1> QED BY <1>6 DEF Greatest

(* q lists the members of G, each once.                                    *)
Lists(q, G) == /\ q \in Seq(G)
               /\ Members(q) = G
               /\ \A i, j \in DOMAIN q : q[i] = q[j] => i = j

LEMMA RankedLists ==
  ASSUME NEW G, IsFiniteSet(G), NEW rank \in [G -> Int],
         \A g, h \in G : rank[g] = rank[h] => g = h
  PROVE  Lists(Ranked(G, rank), G)
<1>1. PICK N \in Nat : N = Cardinality(G)
  BY FS_CardinalityType
<1>2. /\ \A g \in G : Cardinality(Earlier(G, rank, g)) \in 0..(N - 1)
      /\ \A n \in 0..(N - 1) : \E g \in G : Cardinality(Earlier(G, rank, g)) = n
      /\ \A g, h \in G : Cardinality(Earlier(G, rank, g)) = Cardinality(Earlier(G, rank, h))
                              => g = h
  BY <1>1, RankedByCount
<1>3. PICK r : r = Ranked(G, rank)
  OBVIOUS
<1>4. r = [i \in 1..N |-> CHOOSE g \in G : Cardinality(Earlier(G, rank, g)) = i - 1]
  BY <1>1, <1>3 DEF Ranked, Earlier
<1>5. ASSUME NEW i \in 1..N PROVE r[i] \in G /\ Cardinality(Earlier(G, rank, r[i])) = i - 1
  <2>1. r[i] = CHOOSE g \in G : Cardinality(Earlier(G, rank, g)) = i - 1
    BY <1>4
  <2>2. i - 1 \in 0..(N - 1)
    OBVIOUS
  <2>3. \E g \in G : Cardinality(Earlier(G, rank, g)) = i - 1
    BY <1>2, <2>2
  <2> QED BY <2>1, <2>3
<1>6. r \in [1..N -> G]
  BY <1>4, <1>5
<1>7. r \in Seq(G) /\ DOMAIN r = 1..N
  BY <1>6
<1>8. ASSUME NEW g \in G PROVE \E i \in 1..N : r[i] = g
  <2>1. PICK i : i = Cardinality(Earlier(G, rank, g)) + 1
    OBVIOUS
  <2>2. i \in 1..N /\ Cardinality(Earlier(G, rank, g)) = i - 1
    BY <1>2, <2>1
  <2> QED BY <1>2, <1>5, <2>2
<1>9. Members(r) = G
  <2>1. Members(r) \subseteq G
    BY <1>5, <1>7 DEF Members
  <2>2. G \subseteq Members(r)
    BY <1>7, <1>8 DEF Members
  <2> QED BY <2>1, <2>2
<1>10. \A i, j \in 1..N : r[i] = r[j] => i = j
  BY <1>5
<1> QED BY <1>3, <1>7, <1>9, <1>10 DEF Lists

LEMMA AscendingLists ==
  ASSUME NEW G \in SUBSET Slots
  PROVE  Lists(Ascending(G), G)
<1>1. IsFiniteSet(G) /\ G \subseteq Int
  <2>1. IsFiniteSet(Slots) /\ Slots \subseteq Nat
    BY SlotsFinite
  <2>2. IsFiniteSet(G)
    BY <2>1, FS_Subset
  <2>3. G \subseteq Int
    BY <2>1
  <2> QED BY <2>2, <2>3
<1>2. PICK rank : rank = [g \in G |-> g]
  OBVIOUS
<1>3. rank \in [G -> Int] /\ \A g, h \in G : rank[g] = rank[h] => g = h
  BY <1>1, <1>2
<1> QED BY <1>1, <1>2, <1>3, RankedLists DEF Ascending

(* A list put behind another.                                              *)
LEMMA ListsJoin ==
  ASSUME NEW G, NEW H, G \cap H = {}, NEW q, NEW r, Lists(q, G), Lists(r, H)
  PROVE  /\ Lists(q \o r, G \cup H)
         /\ \A i \in DOMAIN q : i \in DOMAIN (q \o r) /\ (q \o r)[i] = q[i]
         /\ \A i \in DOMAIN (q \o r) \ DOMAIN q : i > Len(q) /\ (q \o r)[i] \in H
<1>1. q \in Seq(G) /\ r \in Seq(H) /\ q \in Seq(G \cup H) /\ r \in Seq(G \cup H)
  BY DEF Lists
<1>2. PICK p : p = q \o r
  OBVIOUS
<1>3. /\ p \in Seq(G \cup H) /\ Len(p) = Len(q) + Len(r)
      /\ Len(q) \in Nat /\ Len(r) \in Nat
      /\ DOMAIN q = 1..Len(q) /\ DOMAIN r = 1..Len(r) /\ DOMAIN p = 1..(Len(q) + Len(r))
      /\ \A i \in 1..Len(p) : p[i] = IF i <= Len(q) THEN q[i] ELSE r[i - Len(q)]
  BY <1>1, <1>2
<1>4. \A i \in DOMAIN q : i \in DOMAIN p /\ p[i] = q[i] /\ q[i] \in G
  BY <1>3 DEF Lists, Members
<1>5. ASSUME NEW i \in DOMAIN p, i \notin DOMAIN q
      PROVE  i > Len(q) /\ i - Len(q) \in DOMAIN r /\ p[i] = r[i - Len(q)] /\ p[i] \in H
  <2>1. i > Len(q) /\ i - Len(q) \in DOMAIN r /\ p[i] = r[i - Len(q)]
    BY ONLY <1>3, <1>5
  <2> QED BY <1>1, <2>1
<1>6. ASSUME NEW j \in DOMAIN r PROVE \E i \in DOMAIN p : p[i] = r[j]
  <2>1. j + Len(q) \in DOMAIN p /\ p[j + Len(q)] = r[j]
    BY <1>3
  <2> QED BY <2>1
<1>7. Members(p) = G \cup H
  <2>1. Members(p) \subseteq G \cup H
    BY <1>4, <1>5 DEF Members
  <2>2. G \subseteq Members(p)
    BY <1>4 DEF Members, Lists
  <2>3. H \subseteq Members(p)
    BY <1>6 DEF Members, Lists
  <2> QED BY <2>1, <2>2, <2>3
<1>8. ASSUME NEW i \in DOMAIN p, NEW j \in DOMAIN p, p[i] = p[j] PROVE i = j
  <2>1. CASE i \in DOMAIN q /\ j \in DOMAIN q
    BY <1>4, <1>8, <2>1 DEF Lists
  <2>2. CASE i \notin DOMAIN q /\ j \notin DOMAIN q
    <3>1. i - Len(q) = j - Len(q)
      BY <1>5, <1>8, <2>2 DEF Lists
    <3> QED BY <1>3, <3>1
  <2>3. CASE i \in DOMAIN q /\ j \notin DOMAIN q
    BY <1>4, <1>5, <1>8, <2>3
  <2>4. CASE i \notin DOMAIN q /\ j \in DOMAIN q
    BY <1>4, <1>5, <1>8, <2>4
  <2> QED BY <2>1, <2>2, <2>3, <2>4
<1>9. Lists(p, G \cup H)
  BY <1>3, <1>7, <1>8 DEF Lists
<1> QED BY <1>2, <1>4, <1>5, <1>9
-----------------------------------------------------------------------------
(* Kahn's order.                                                           *)

FirstOf(q, n) == {q[i] : i \in (1..n) \cap DOMAIN q}

(* The queue after its first n entries have been looked at: it holds what  *)
(* they free, and each entry was freed by those before it.                 *)
KahnSoFar(n, q) ==
  /\ Members(q) \subseteq Alive
  /\ Lists(q, Members(q))
  /\ FreedBy(FirstOf(q, n)) \subseteq Members(q)
  /\ \A i \in DOMAIN q : q[i] \in FreedBy(FirstOf(q, i - 1))

LEMMA FreedMore ==
  ASSUME NEW D, NEW E, D \subseteq E
  PROVE  FreedBy(D) \subseteq FreedBy(E)
BY DEF FreedBy

(* A group that u frees has an op whose input u is the first to have.      *)
LEMMA UnlocksSome ==
  ASSUME Tabled, NEW u, NEW done, NEW g \in FreedBy(done \cup {u}) \ FreedBy(done)
  PROVE  Unlocks(u, done, g) # {} /\ Unlocks(u, done, g) \subseteq Ops /\ g \in Slots
<1>1. g \in Alive /\ g \in Slots
  BY DEF FreedBy, Alive
<1>2. PICK t \in Dependencies(g) : GroupsOf(t) \cap done = {} /\ GroupsOf(t) \cap (done \cup {u}) # {}
  BY <1>1 DEF FreedBy
<1>3. u \in GroupsOf(t)
  BY <1>2
<1>4. PICK c \in Ops : g \in GroupsOf(c) /\ t \in Producers(c)
  BY DEF Dependencies
<1>5. c \in groups[g]
  BY <1>4, TabledListed
<1>6. c \in Unlocks(u, done, g)
  BY <1>2, <1>3, <1>4, <1>5 DEF Unlocks
<1>7. groups[g] \subseteq Ops
  BY <1>1 DEF Tabled
<1> QED BY <1>1, <1>6, <1>7 DEF Unlocks

(* Groups are told apart by when they are freed and, then, by their index. *)
LEMMA PairsDiffer ==
  ASSUME NEW M \in Nat, NEW a \in Nat, NEW b \in Nat, NEW g \in 1..M, NEW h \in 1..M,
         a * (M + 1) + g = b * (M + 1) + h
  PROVE  g = h
<1>1. PICK K \in Nat : K = M + 1 /\ g < K /\ h < K /\ g > 0 /\ h > 0
  OBVIOUS
<1>2. ASSUME NEW x \in Nat, NEW y \in Nat, x < y PROVE y * K >= x * K + K
  <2>1. PICK d \in Nat : y = x + 1 + d
    <3>1. y - x - 1 \in Nat /\ y = x + 1 + (y - x - 1)
      BY <1>2
    <3> QED BY <3>1
  <2>2. y * K = x * K + K + d * K
    BY <2>1
  <2>3. d * K \in Nat /\ x * K \in Nat
    OBVIOUS
  <2> QED BY <2>2, <2>3
<1>3. a * K \in Nat /\ b * K \in Nat /\ a * K + g = b * K + h
  BY <1>1
<1>4. ~(a < b)
  <2> SUFFICES ASSUME a < b PROVE FALSE
    OBVIOUS
  <2>1. b * K >= a * K + K
    BY <1>2
  <2> QED BY <1>1, <1>3, <2>1
<1>5. ~(b < a)
  <2> SUFFICES ASSUME b < a PROVE FALSE
    OBVIOUS
  <2>1. a * K >= b * K + K
    BY <1>2
  <2> QED BY <1>1, <1>3, <2>1
<1>6. a = b
  BY <1>4, <1>5
<1> QED BY <1>3, <1>6

KahnStep(n, q) ==
  IF n > Len(q) THEN q
  ELSE LET done == {q[i] : i \in 1..(n - 1)}
           new  == FreedBy(done \cup {q[n]}) \ Members(q)
           late(g) == Greatest(Unlocks(q[n], done, g))
       IN  q \o Ranked(new, [g \in new |-> late(g) * (MaxGroups + 1) + g])

LEMMA KahnStepKeeps ==
  ASSUME Tabled, NEW n \in Nat \ {0}, NEW q, KahnSoFar(n - 1, q)
  PROVE  KahnSoFar(n, KahnStep(n, q))
<1>1. /\ q \in Seq(Members(q)) /\ Members(q) \subseteq Alive /\ Alive \subseteq Slots
      /\ Len(q) \in Nat /\ DOMAIN q = 1..Len(q)
  BY DEF KahnSoFar, Lists, Alive
<1>2. CASE n > Len(q)
  <2>1. FirstOf(q, n) = FirstOf(q, n - 1)
    BY <1>1, <1>2 DEF FirstOf
  <2>2. KahnStep(n, q) = q
    BY <1>2 DEF KahnStep
  <2> QED BY <2>1, <2>2 DEF KahnSoFar
<1>3. CASE ~(n > Len(q))
  <2>1. n \in DOMAIN q /\ n - 1 \in Nat
    BY <1>1, <1>3
  <2>2. PICK done : done = {q[i] : i \in 1..(n - 1)}
    OBVIOUS
  <2>3. done = FirstOf(q, n - 1) /\ done \cup {q[n]} = FirstOf(q, n)
    BY <1>1, <2>1, <2>2 DEF FirstOf
  <2>4. PICK new : new = FreedBy(done \cup {q[n]}) \ Members(q)
    OBVIOUS
  <2>5. new \subseteq Alive /\ new \in SUBSET Slots
    BY <1>1, <2>4 DEF FreedBy
  <2>6. PICK rank : rank = [g \in new |-> Greatest(Unlocks(q[n], done, g)) * (MaxGroups + 1) + g]
    OBVIOUS
  <2>7. ASSUME NEW g \in new PROVE Greatest(Unlocks(q[n], done, g)) \in Nat
    <3>1. g \in FreedBy(done \cup {q[n]}) \ FreedBy(done)
      BY <2>3, <2>4 DEF KahnSoFar
    <3>2. PICK U : U = Unlocks(q[n], done, g)
      OBVIOUS
    <3>3. U # {} /\ U \subseteq Ops
      BY <3>1, <3>2, UnlocksSome
    <3>4. U \in SUBSET Nat /\ IsFiniteSet(U)
      BY <3>3, OpsAssumption, FS_Subset
    <3> QED BY <3>2, <3>3, <3>4, GreatestNatural
  <2>8. rank \in [new -> Int]
    BY <2>5, <2>6, <2>7, SlotsFinite, MaxGroupsAssumption
  <2>9. ASSUME NEW g \in new, NEW h \in new, rank[g] = rank[h] PROVE g = h
    <3>1. PICK a, b : a = Greatest(Unlocks(q[n], done, g)) /\ b = Greatest(Unlocks(q[n], done, h))
      OBVIOUS
    <3>2. a \in Nat /\ b \in Nat /\ a * (MaxGroups + 1) + g = b * (MaxGroups + 1) + h
      BY <2>6, <2>7, <2>9, <3>1
    <3>3. g \in 1..MaxGroups /\ h \in 1..MaxGroups
      BY <2>5 DEF Slots
    <3> QED BY <3>2, <3>3, MaxGroupsAssumption, PairsDiffer
  <2>10. IsFiniteSet(new)
    BY <2>5, SlotsFinite, FS_Subset
  <2>11. PICK r : r = Ranked(new, rank)
    OBVIOUS
  <2>12. Lists(r, new)
    BY <2>8, <2>9, <2>10, <2>11, RankedLists
  <2>13. PICK p : p = q \o r
    OBVIOUS
  <2>14. KahnStep(n, q) = p
    BY ONLY <1>3, <2>2, <2>4, <2>6, <2>11, <2>13 DEF KahnStep
  <2>15. Members(q) \cap new = {}
    BY <2>4
  <2>16. /\ Lists(p, Members(q) \cup new)
         /\ \A i \in DOMAIN q : i \in DOMAIN p /\ p[i] = q[i]
         /\ \A i \in DOMAIN p \ DOMAIN q : i > Len(q) /\ p[i] \in new
    BY <2>12, <2>13, <2>15, ListsJoin DEF KahnSoFar
  <2>17. Members(p) = Members(q) \cup new /\ DOMAIN p \subseteq Nat
    BY <2>16 DEF Lists
  <2>18. ASSUME NEW m \in 0..Len(q) PROVE FirstOf(p, m) = FirstOf(q, m)
    <3>1. (1..m) \cap DOMAIN p = 1..m /\ (1..m) \cap DOMAIN q = 1..m
      BY <1>1, <2>16
    <3> QED BY <1>1, <2>16, <3>1 DEF FirstOf
  <2>19. FirstOf(p, n) = FirstOf(q, n)
    BY <1>1, <2>1, <2>18
  <2>20. FreedBy(FirstOf(p, n)) \subseteq Members(p)
    BY <2>3, <2>4, <2>17, <2>19
  <2>21. ASSUME NEW i \in DOMAIN p PROVE p[i] \in FreedBy(FirstOf(p, i - 1))
    <3>1. CASE i \in DOMAIN q
      <4>1. i - 1 \in 0..Len(q)
        BY <1>1, <3>1
      <4> QED BY <2>16, <2>18, <3>1, <4>1 DEF KahnSoFar
    <3>2. CASE i \notin DOMAIN q
      <4>1. i > Len(q) /\ p[i] \in FreedBy(FirstOf(q, n)) /\ i \in Nat
        BY <2>3, <2>4, <2>16, <2>17, <3>2
      <4>2. n <= i - 1
        BY <1>1, <2>1, <4>1
      <4>3. FirstOf(p, n) \subseteq FirstOf(p, i - 1)
        BY <2>17, <4>1, <4>2 DEF FirstOf
      <4> QED BY <2>19, <4>1, <4>3, FreedMore
    <3> QED BY <3>1, <3>2
  <2>22. Members(p) \subseteq Alive /\ Lists(p, Members(p))
    BY <1>1, <2>5, <2>16, <2>17
  <2>23. KahnSoFar(n, p)
    BY <2>20, <2>21, <2>22 DEF KahnSoFar
  <2> QED BY <2>14, <2>23
<1> QED BY <1>2, <1>3

LEMMA KahnStart ==
  ASSUME Tabled
  PROVE  KahnSoFar(0, Ascending(FreedBy({})))
<1>1. FreedBy({}) \subseteq Alive /\ FreedBy({}) \in SUBSET Slots
  BY DEF FreedBy, Alive
<1>2. PICK q : q = Ascending(FreedBy({}))
  OBVIOUS
<1>3. Lists(q, FreedBy({}))
  BY <1>1, <1>2, AscendingLists
<1>4. Members(q) = FreedBy({}) /\ \A i \in DOMAIN q : q[i] \in FreedBy({})
  BY <1>3 DEF Lists, Members
<1>5. FirstOf(q, 0) = {}
  BY DEF FirstOf
<1>6. \A i : FreedBy({}) \subseteq FreedBy(FirstOf(q, i))
  BY FreedMore
<1>7. KahnSoFar(0, q)
  BY <1>1, <1>3, <1>4, <1>5, <1>6 DEF KahnSoFar
<1> QED BY <1>2, <1>7
(* The recursion runs, and what it ends with has looked at every entry.    *)
LEMMA KahnEnds ==
  ASSUME Tabled
  PROVE  KahnSoFar(MaxGroups, KahnOrder)
<1> DEFINE d0 == Ascending(FreedBy({}))
           D == Seq(Slots)
           F == [x \in Nat \X D |-> IF KahnStep(x[1], x[2]) \in D THEN KahnStep(x[1], x[2]) ELSE <<>>]
           Body(f) == [n \in 0..MaxGroups |-> IF n = 0 THEN d0 ELSE KahnStep(n, f[n - 1])]
<1>1. ASSUME NEW n, NEW q, KahnSoFar(n, q) PROVE q \in D
  <2>1. q \in Seq(Members(q)) /\ Members(q) \subseteq Slots
    BY <1>1 DEF KahnSoFar, Lists, Alive
  <2> QED BY <2>1
<1>2. d0 \in D /\ KahnSoFar(0, d0)
  BY <1>1, KahnStart
<1>3. F \in [Nat \X D -> D]
  OBVIOUS
<1>4. PICK f : Iterates(f, MaxGroups, D, d0, F)
  <2> HIDE DEF F, d0, D
  <2> QED BY <1>2, <1>3, IterationExists, MaxGroupsAssumption
<1>5. ASSUME NEW n \in 1..MaxGroups, KahnSoFar(n - 1, f[n - 1])
      PROVE  f[n] = KahnStep(n, f[n - 1]) /\ KahnSoFar(n, f[n])
  <2>1. n \in Nat \ {0} /\ f[n - 1] \in D
    BY <1>1, <1>5
  <2>2. KahnSoFar(n, KahnStep(n, f[n - 1])) /\ KahnStep(n, f[n - 1]) \in D
    BY <1>1, <1>5, <2>1, KahnStepKeeps
  <2>3. PICK x : x = <<n, f[n - 1]>>
    OBVIOUS
  <2>4. x \in Nat \X D /\ x[1] = n /\ x[2] = f[n - 1]
    BY <2>1, <2>3
  <2>5. F[x] = KahnStep(n, f[n - 1])
    <3> HIDE DEF D
    <3> QED BY <2>2, <2>4
  <2>6. f[n] = F[x]
    <3> HIDE DEF F, D, d0
    <3> QED BY <1>4, <2>3 DEF Iterates
  <2> QED BY <2>2, <2>5, <2>6
<1>6. \A n \in 0..MaxGroups : KahnSoFar(n, f[n])
  <2> DEFINE T == {n \in Nat : KahnSoFar(n, f[n])}
  <2>1. 0 \in T
    <3> HIDE DEF F, D, d0
    <3> QED BY <1>2, <1>4 DEF Iterates
  <2>2. ASSUME NEW n \in 0..(MaxGroups - 1), n \in T PROVE n + 1 \in T
    <3>1. n + 1 \in 1..MaxGroups /\ (n + 1) - 1 = n /\ n + 1 \in Nat
      BY MaxGroupsAssumption
    <3>2. KahnSoFar(n + 1, f[n + 1])
      BY <1>5, <2>2, <3>1
    <3> QED BY <3>1, <3>2
  <2>3. 0..MaxGroups \subseteq T
    <3> HIDE DEF T
    <3> QED BY <2>1, <2>2, InductionUpTo, MaxGroupsAssumption
  <2> QED BY <2>3
<1>7. f = Body(f)
  <2>1. f[0] = d0 /\ f \in [0..MaxGroups -> D]
    <3> HIDE DEF F, D, d0
    <3> QED BY <1>4 DEF Iterates
  <2>2. ASSUME NEW n \in 1..MaxGroups PROVE f[n] = KahnStep(n, f[n - 1])
    <3>1. n - 1 \in 0..MaxGroups
      BY MaxGroupsAssumption
    <3> QED BY <1>5, <1>6, <3>1
  <2> HIDE DEF d0, D
  <2> QED BY <2>1, <2>2, MaxGroupsAssumption
<1>8. \E g : g = Body(g)
  BY <1>7
<1> DEFINE r == CHOOSE g : g = Body(g)
<1>9. r = Body(r)
  BY <1>8, Zenon
<1>10. KahnOrder = r[MaxGroups]
  BY DEF KahnOrder, KahnStep
<1> HIDE DEF r
<1>11. /\ r[0] = d0
       /\ \A n \in 1..MaxGroups : r[n] = KahnStep(n, r[n - 1])
  <2> HIDE DEF d0
  <2>1. ASSUME NEW n \in 0..MaxGroups
        PROVE  r[n] = IF n = 0 THEN d0 ELSE KahnStep(n, r[n - 1])
    <3>1. Body(r)[n] = IF n = 0 THEN d0 ELSE KahnStep(n, r[n - 1])
      OBVIOUS
    <3>2. r[n] = Body(r)[n]
      <4> HIDE DEF Body
      <4> QED BY <1>9
    <3> HIDE DEF Body
    <3> QED BY <3>1, <3>2
  <2> HIDE DEF Body
  <2>2. r[0] = d0
    <3>1. 0 \in 0..MaxGroups
      BY MaxGroupsAssumption
    <3> QED BY <2>1, <3>1
  <2>3. ASSUME NEW n \in 1..MaxGroups PROVE r[n] = KahnStep(n, r[n - 1])
    <3>1. n \in 0..MaxGroups /\ n # 0
      BY MaxGroupsAssumption
    <3> QED BY <2>1, <3>1
  <2> QED BY <2>2, <2>3
<1>12. \A n \in 0..MaxGroups : KahnSoFar(n, r[n])
  <2> DEFINE T == {n \in Nat : KahnSoFar(n, r[n])}
  <2>1. 0 \in T
    <3> HIDE DEF d0
    <3> QED BY <1>2, <1>11
  <2>2. ASSUME NEW n \in 0..(MaxGroups - 1), n \in T PROVE n + 1 \in T
    <3>1. n + 1 \in 1..MaxGroups /\ (n + 1) - 1 = n /\ n + 1 \in Nat \ {0}
      BY MaxGroupsAssumption
    <3>2. KahnSoFar(n + 1, KahnStep(n + 1, r[n]))
      BY <2>2, <3>1, KahnStepKeeps
    <3> HIDE DEF d0
    <3>3. r[n + 1] = KahnStep(n + 1, r[n])
      BY <1>11, <3>1
    <3> QED BY <3>1, <3>2, <3>3
  <2>3. 0..MaxGroups \subseteq T
    <3> HIDE DEF T
    <3> QED BY <2>1, <2>2, InductionUpTo, MaxGroupsAssumption
  <2> QED BY <2>3
<1>13. MaxGroups \in 0..MaxGroups
  BY MaxGroupsAssumption
<1> QED BY <1>10, <1>12, <1>13

(* A list of groups is no longer than there are slots.                     *)
LEMMA ListIsShort ==
  ASSUME NEW q, NEW G \in SUBSET Slots, Lists(q, G)
  PROVE  /\ Len(q) \in 0..MaxGroups /\ DOMAIN q = 1..Len(q)
         /\ Len(q) = MaxGroups => G = Slots
<1>1. PICK n \in Nat : n = Len(q) /\ DOMAIN q = 1..n /\ q \in [1..n -> G]
  BY DEF Lists
<1>2. q \in Injection(1..n, G)
  BY <1>1, Fun_IsInj DEF Lists
<1>3. IsFiniteSet(Slots) /\ Cardinality(Slots) <= MaxGroups /\ Cardinality(Slots) \in Nat
  BY SlotsCount, FS_CardinalityType
<1>4. IsFiniteSet(G) /\ Cardinality(G) <= Cardinality(Slots) /\ Cardinality(G) \in Nat
  BY <1>3, FS_Subset, FS_CardinalityType
<1>5. Cardinality(1..n) <= Cardinality(G)
  BY <1>2, <1>4, FS_Injection
<1>6. Cardinality(1..n) = n
  BY FS_Interval
<1>7. n = MaxGroups => G = Slots
  <2>1. n = MaxGroups => Cardinality(G) = Cardinality(Slots)
    BY <1>3, <1>4, <1>5, <1>6, MaxGroupsAssumption
  <2> QED BY <1>3, <2>1, FS_Subset
<1>8. n <= MaxGroups
  BY ONLY <1>3, <1>4, <1>5, <1>6, MaxGroupsAssumption
<1>9. n \in 0..MaxGroups
  BY <1>8, MaxGroupsAssumption
<1> QED BY <1>1, <1>7, <1>9

(* Kahn's algorithm reaches every group of a partition without a cycle.    *)
LEMMA KahnPlacesAll ==
  ASSUME Tabled, IsAcyclic
  PROVE  Lists(KahnOrder, Alive)
<1>1. PICK q : q = KahnOrder
  OBVIOUS
<1>2. KahnSoFar(MaxGroups, q)
  BY <1>1, KahnEnds
<1>3. Members(q) \subseteq Alive /\ Alive \subseteq Slots /\ Lists(q, Members(q))
  BY <1>2 DEF KahnSoFar, Alive
<1>4. Len(q) \in 0..MaxGroups /\ DOMAIN q = 1..Len(q)
  BY <1>3, ListIsShort
<1>5. FirstOf(q, MaxGroups) = Members(q)
  <2>1. (1..MaxGroups) \cap DOMAIN q = DOMAIN q
    BY <1>4, MaxGroupsAssumption
  <2> QED BY <2>1 DEF FirstOf, Members
<1>6. Alive \subseteq Members(q)
  <2> SUFFICES ASSUME Alive \ Members(q) # {} PROVE FALSE
    OBVIOUS
  <2>1. PICK X : X = Alive \ Members(q)
    OBVIOUS
  <2>2. PICK g \in X : \A t \in Dependencies(g) : (GroupsOf(t) \cap Alive) \ X # {}
    BY <2>1 DEF IsAcyclic
  <2>3. g \in FreedBy(Members(q))
    BY <2>1, <2>2 DEF FreedBy
  <2> QED BY <1>2, <1>5, <2>1, <2>2, <2>3 DEF KahnSoFar
<1> QED BY <1>1, <1>3, <1>6

(* In that order a group comes after the groups the graph feeds it from.   *)
LEMMA FeedsForward ==
  ASSUME Tabled, NEW i \in DOMAIN KahnOrder, NEW h, <<h, KahnOrder[i]>> \in Feeds(KahnOrder)
  PROVE  h \in FirstOf(KahnOrder, i - 1)
<1>1. PICK q : q = KahnOrder
  OBVIOUS
<1>2. PICK g : g = q[i]
  OBVIOUS
<1>3. /\ g \in Alive /\ h \in Alive
      /\ \E t \in Needs(groups[g]) : OtherHolders(t, g) # {} /\ h = Supplier(q, g, t)
  <2>1. PICK e : e = <<h, g>>
    OBVIOUS
  <2>2. e \in Feeds(q) /\ e[1] = h /\ e[2] = g
    BY <1>1, <1>2, <2>1
  <2>3. e \in Alive \X Alive /\ \E t \in Needs(groups[e[2]]) :
          OtherHolders(t, e[2]) # {} /\ e[1] = Supplier(q, e[2], t)
    BY <2>2 DEF Feeds
  <2> QED BY <2>2, <2>3
<1>4. PICK t \in Needs(groups[g]) : OtherHolders(t, g) # {} /\ h = Supplier(q, g, t)
  BY <1>3
<1>5. KahnSoFar(MaxGroups, q)
  BY <1>1, KahnEnds
<1>6. /\ g \in FreedBy(FirstOf(q, i - 1)) /\ i \in DOMAIN q /\ Members(q) \subseteq Alive
      /\ \A j, k \in DOMAIN q : q[j] = q[k] => j = k
      /\ DOMAIN q \subseteq Nat /\ DOMAIN q = 1..Len(q)
  BY <1>1, <1>2, <1>5 DEF KahnSoFar, Lists
<1>7. PICK c \in groups[g] : c \in Ops /\ t \in Producers(c) /\ t \notin groups[g] /\ t \in Ops
  BY <1>3, <1>4 DEF Needs, Inputs, Reads, Producers, Tabled, Alive
<1>8. g \in GroupsOf(c) /\ g \notin GroupsOf(t)
  BY <1>3, <1>7, TabledListed DEF Alive
<1>9. t \in Dependencies(g)
  BY <1>4, <1>7, <1>8 DEF Dependencies, OtherHolders
<1>10. PICK k \in GroupsOf(t) : k \in FirstOf(q, i - 1)
  BY <1>6, <1>9 DEF FreedBy
<1>11. PICK b \in DOMAIN q : b \in 1..(i - 1) /\ q[b] = k
  BY <1>10 DEF FirstOf
<1>12. PICK reached : reached = ((GroupsOf(t) \cap Alive) \ {g}) \cap Members(q)
  OBVIOUS
<1>13. k \in reached
  BY <1>6, <1>8, <1>10, <1>11, <1>12 DEF Members
<1>14. \E u \in reached : \A v \in reached : \E m, j \in DOMAIN q : q[m] = u /\ q[j] = v /\ m <= j
  <2> DEFINE P == {m \in DOMAIN q : q[m] \in reached}
  <2>1. P \in SUBSET Nat /\ P # {}
    BY <1>6, <1>11, <1>13
  <2>2. PICK m \in P : \A j \in P : m <= j
    BY <2>1, LeastNatural
  <2>3. \A v \in reached : \E j \in P : q[j] = v
    BY <1>12 DEF Members
  <2> QED BY <2>2, <2>3
<1>15. h = CHOOSE u \in reached : \A v \in reached :
                    \E m, j \in DOMAIN q : q[m] = u /\ q[j] = v /\ m <= j
  BY <1>4, <1>12, <1>13 DEF Supplier
<1>16. \A v \in reached : \E m, j \in DOMAIN q : q[m] = h /\ q[j] = v /\ m <= j
  BY <1>14, <1>15
<1>17. PICK m, j \in DOMAIN q : q[m] = h /\ q[j] = k /\ m <= j
  BY <1>13, <1>16
<1>18. j = b
  BY <1>6, <1>11, <1>17
<1>19. m \in 1..(i - 1)
  BY <1>6, <1>11, <1>17, <1>18
<1> QED BY <1>1, <1>17, <1>19 DEF FirstOf-----------------------------------------------------------------------------
(* Orders that take one ready group after another.                         *)

(* Each group comes after the groups that feed it.                         *)
FedInOrder(feeds, q) ==
  /\ Members(q) \subseteq Alive
  /\ Lists(q, Members(q))
  /\ \A i \in DOMAIN q : \A h \in Alive : <<h, q[i]>> \in feeds => h \in FirstOf(q, i - 1)

(* The orders after n rounds: n long, or nothing more is ready.            *)
GreedySoFar(feeds, n, Q) ==
  \A q \in Q : FedInOrder(feeds, q) /\ (Len(q) = n \/ Ready(feeds, Members(q)) = {})

GreedyStep(feeds, Q) ==
  UNION {IF Ready(feeds, Members(q)) = {} THEN {q}
         ELSE {Append(q, g) : g \in Ready(feeds, Members(q))} : q \in Q}

LEMMA TakeReady ==
  ASSUME NEW feeds, NEW q, FedInOrder(feeds, q), NEW g \in Ready(feeds, Members(q))
  PROVE  FedInOrder(feeds, Append(q, g)) /\ Len(Append(q, g)) = Len(q) + 1
<1>1. /\ q \in Seq(Members(q)) /\ Members(q) \subseteq Alive
      /\ Len(q) \in Nat /\ DOMAIN q = 1..Len(q)
      /\ \A i, j \in DOMAIN q : q[i] = q[j] => i = j
  BY DEF FedInOrder, Lists
<1>2. g \in Alive \ Members(q) /\ \A h \in Alive : <<h, g>> \in feeds => h \in Members(q)
  BY DEF Ready
<1>3. PICK M : M = Members(q) \cup {g}
  OBVIOUS
<1>4. PICK p : p = Append(q, g)
  OBVIOUS
<1>5. q \in Seq(M) /\ g \in M
  BY <1>1, <1>3
<1>6. /\ p \in Seq(M) /\ Len(p) = Len(q) + 1 /\ DOMAIN p = 1..(Len(q) + 1)
      /\ p[Len(q) + 1] = g /\ \A i \in 1..Len(q) : p[i] = q[i]
  BY <1>1, <1>4, <1>5
<1>7. Members(p) = M
  <2>1. \A i \in DOMAIN p : i \in DOMAIN q \/ i = Len(q) + 1
    BY <1>1, <1>6
  <2>2. Members(p) \subseteq M
    BY <1>1, <1>3, <1>6, <2>1 DEF Members
  <2>3. \A i \in DOMAIN q : i \in DOMAIN p /\ p[i] = q[i]
    BY <1>1, <1>6
  <2>4. Len(q) + 1 \in DOMAIN p
    BY <1>1, <1>6
  <2>5. M \subseteq Members(p)
    BY <1>3, <1>6, <2>3, <2>4 DEF Members
  <2> QED BY <2>2, <2>5
<1>8. \A i \in DOMAIN q : q[i] # g
  BY <1>2 DEF Members
<1>9. Lists(p, M)
  <2>1. ASSUME NEW i \in DOMAIN p, NEW j \in DOMAIN p, p[i] = p[j] PROVE i = j
    <3>1. (i \in DOMAIN q /\ p[i] = q[i]) \/ (i = Len(q) + 1 /\ p[i] = g)
      BY <1>1, <1>6
    <3>2. (j \in DOMAIN q /\ p[j] = q[j]) \/ (j = Len(q) + 1 /\ p[j] = g)
      BY <1>1, <1>6
    <3> QED BY <1>1, <1>8, <2>1, <3>1, <3>2
  <2> QED BY <1>6, <1>7, <2>1 DEF Lists
<1>10. ASSUME NEW m \in 0..Len(q) PROVE FirstOf(p, m) = FirstOf(q, m)
  <2>1. (1..m) \cap DOMAIN p = 1..m /\ (1..m) \cap DOMAIN q = 1..m
    BY <1>1, <1>6
  <2> QED BY <1>1, <1>6, <2>1 DEF FirstOf
<1>11. FirstOf(q, Len(q)) = Members(q)
  BY <1>1 DEF FirstOf, Members
<1>12. ASSUME NEW i \in DOMAIN p, NEW h \in Alive, <<h, p[i]>> \in feeds
       PROVE  h \in FirstOf(p, i - 1)
  <2>1. CASE i \in DOMAIN q
    <3>1. i - 1 \in 0..Len(q) /\ p[i] = q[i]
      BY <1>1, <1>6, <2>1
    <3> QED BY <1>10, <1>12, <2>1, <3>1 DEF FedInOrder
  <2>2. CASE i = Len(q) + 1
    <3>1. i - 1 = Len(q) /\ Len(q) \in 0..Len(q) /\ p[i] = g
      BY <1>1, <1>6, <2>2
    <3> QED BY <1>2, <1>10, <1>11, <1>12, <3>1
  <2> QED BY <1>1, <1>6, <2>1, <2>2
<1>13. Members(p) \subseteq Alive /\ Lists(p, Members(p))
  BY <1>1, <1>2, <1>3, <1>7, <1>9
<1> QED BY <1>4, <1>6, <1>12, <1>13 DEF FedInOrder

LEMMA GreedyStepKeeps ==
  ASSUME NEW feeds, NEW n \in Nat, NEW Q, GreedySoFar(feeds, n, Q)
  PROVE  GreedySoFar(feeds, n + 1, GreedyStep(feeds, Q))
<1> SUFFICES ASSUME NEW p \in GreedyStep(feeds, Q)
             PROVE  FedInOrder(feeds, p) /\ (Len(p) = n + 1 \/ Ready(feeds, Members(p)) = {})
  BY DEF GreedySoFar
<1>1. PICK q \in Q : p \in IF Ready(feeds, Members(q)) = {} THEN {q}
                           ELSE {Append(q, g) : g \in Ready(feeds, Members(q))}
  BY DEF GreedyStep
<1>2. FedInOrder(feeds, q) /\ (Len(q) = n \/ Ready(feeds, Members(q)) = {})
  BY DEF GreedySoFar
<1>3. CASE Ready(feeds, Members(q)) = {}
  BY <1>1, <1>2, <1>3
<1>4. CASE Ready(feeds, Members(q)) # {}
  <2>1. PICK g \in Ready(feeds, Members(q)) : p = Append(q, g)
    BY <1>1, <1>4
  <2> QED BY <1>2, <1>4, <2>1, TakeReady
<1> QED BY <1>3, <1>4

(* The recursion runs, and its orders cannot be carried on.                *)
LEMMA GreedyEnds ==
  ASSUME NEW feeds
  PROVE  GreedySoFar(feeds, MaxGroups, GreedyOrders(feeds))
<1> DEFINE d0 == {<<>>}
           D == SUBSET Seq(Slots)
           F == [x \in Nat \X D |-> GreedyStep(feeds, x[2])]
           Body(f) == [n \in 0..MaxGroups |-> IF n = 0 THEN d0 ELSE GreedyStep(feeds, f[n - 1])]
<1>1. d0 \in D /\ GreedySoFar(feeds, 0, d0)
  <2>1. <<>> \in Seq(Slots) /\ <<>> \in Seq({}) /\ DOMAIN <<>> = {} /\ Len(<<>>) = 0
    OBVIOUS
  <2>2. Members(<<>>) = {}
    BY <2>1 DEF Members
  <2>3. Lists(<<>>, {})
    BY <2>1, <2>2 DEF Lists
  <2>4. FedInOrder(feeds, <<>>)
    BY <2>1, <2>2, <2>3 DEF FedInOrder
  <2> QED BY <2>1, <2>4 DEF GreedySoFar
<1>2. ASSUME NEW Q \in D PROVE GreedyStep(feeds, Q) \in D
  <2> SUFFICES ASSUME NEW p \in GreedyStep(feeds, Q) PROVE p \in Seq(Slots)
    OBVIOUS
  <2>1. PICK q \in Q : p \in IF Ready(feeds, Members(q)) = {} THEN {q}
                             ELSE {Append(q, g) : g \in Ready(feeds, Members(q))}
    BY DEF GreedyStep
  <2>2. q \in Seq(Slots) /\ Ready(feeds, Members(q)) \subseteq Slots
    BY DEF Ready, Alive
  <2>3. CASE p = q
    BY <2>2, <2>3
  <2>4. CASE p # q
    <3>1. PICK g \in Ready(feeds, Members(q)) : p = Append(q, g)
      BY <2>1, <2>4
    <3> QED BY <2>2, <3>1
  <2> QED BY <2>3, <2>4
<1>3. F \in [Nat \X D -> D]
  <2>1. \A x \in Nat \X D : GreedyStep(feeds, x[2]) \in D
    BY <1>2
  <2> HIDE DEF D
  <2> QED BY <2>1
<1>4. PICK f : Iterates(f, MaxGroups, D, d0, F)
  <2> HIDE DEF F, d0, D
  <2> QED BY <1>1, <1>3, IterationExists, MaxGroupsAssumption
<1>5. f = Body(f)
  <2>1. f[0] = d0 /\ f \in [0..MaxGroups -> D] /\ \A n \in 1..MaxGroups : f[n] = F[<<n, f[n - 1]>>]
    <3> HIDE DEF F, D, d0
    <3> QED BY <1>4 DEF Iterates
  <2>2. ASSUME NEW n \in 1..MaxGroups PROVE f[n] = GreedyStep(feeds, f[n - 1])
    <3>1. n \in Nat /\ f[n - 1] \in D
      <4> HIDE DEF D, d0, F
      <4>1. n - 1 \in 0..MaxGroups
        BY MaxGroupsAssumption
      <4> QED BY <2>1, <4>1
    <3>2. PICK x : x = <<n, f[n - 1]>>
      OBVIOUS
    <3>3. x \in Nat \X D /\ x[2] = f[n - 1]
      <4> HIDE DEF D
      <4> QED BY <3>1, <3>2
    <3>4. F[x] = GreedyStep(feeds, f[n - 1])
      <4> HIDE DEF D
      <4> QED BY <3>3
    <3> QED BY <2>1, <3>2, <3>4
  <2> HIDE DEF d0, D, F
  <2> QED BY <2>1, <2>2, MaxGroupsAssumption
<1>6. \E g : g = Body(g)
  BY <1>5
<1> DEFINE r == CHOOSE g : g = Body(g)
<1>7. r = Body(r)
  BY <1>6, Zenon
<1>8. GreedyOrders(feeds) = r[MaxGroups]
  BY DEF GreedyOrders, GreedyStep
<1> HIDE DEF r
<1>9. ASSUME NEW n \in 0..MaxGroups
      PROVE  r[n] = IF n = 0 THEN d0 ELSE GreedyStep(feeds, r[n - 1])
  <2> HIDE DEF d0
  <2>1. Body(r)[n] = IF n = 0 THEN d0 ELSE GreedyStep(feeds, r[n - 1])
    OBVIOUS
  <2>2. r[n] = Body(r)[n]
    <3> HIDE DEF Body
    <3> QED BY <1>7
  <2> HIDE DEF Body
  <2> QED BY <2>1, <2>2
<1>10. \A n \in 0..MaxGroups : GreedySoFar(feeds, n, r[n])
  <2> DEFINE T == {n \in Nat : GreedySoFar(feeds, n, r[n])}
  <2>1. 0 \in T
    <3>1. 0 \in 0..MaxGroups
      BY MaxGroupsAssumption
    <3> HIDE DEF d0
    <3> QED BY <1>1, <1>9, <3>1
  <2>2. ASSUME NEW n \in 0..(MaxGroups - 1), n \in T PROVE n + 1 \in T
    <3>1. n \in Nat /\ n + 1 \in 0..MaxGroups /\ n + 1 # 0 /\ (n + 1) - 1 = n /\ n + 1 \in Nat
      BY MaxGroupsAssumption
    <3>2. GreedySoFar(feeds, n + 1, GreedyStep(feeds, r[n]))
      BY <2>2, <3>1, GreedyStepKeeps
    <3> HIDE DEF d0
    <3>3. r[n + 1] = GreedyStep(feeds, r[n])
      BY <1>9, <3>1
    <3> QED BY <3>1, <3>2, <3>3
  <2>3. 0..MaxGroups \subseteq T
    <3> HIDE DEF T
    <3> QED BY <2>1, <2>2, InductionUpTo, MaxGroupsAssumption
  <2> QED BY <2>3
<1>11. MaxGroups \in 0..MaxGroups
  BY MaxGroupsAssumption
<1> QED BY <1>8, <1>10, <1>11
LEMMA GreedyOrder ==
  ASSUME NEW feeds, NEW q \in GreedyOrders(feeds)
  PROVE  FedInOrder(feeds, q) /\ Ready(feeds, Members(q)) = {}
<1>1. FedInOrder(feeds, q) /\ (Len(q) = MaxGroups \/ Ready(feeds, Members(q)) = {})
  BY GreedyEnds DEF GreedySoFar
<1>2. CASE Len(q) = MaxGroups
  <2>1. Lists(q, Members(q)) /\ Members(q) \in SUBSET Slots
    BY <1>1 DEF FedInOrder, Alive
  <2>2. Members(q) = Slots
    BY <1>2, <2>1, ListIsShort
  <2> QED BY <1>1, <2>2 DEF Ready, Alive
<1> QED BY <1>1, <1>2

(* Without a cycle no group is left over: of those left, the first in      *)
(* Kahn's order would be ready.                                            *)
LEMMA GreedyPlacesAll ==
  ASSUME Tabled, IsAcyclic, NEW q \in GreedyOrders(Graph)
  PROVE  Members(q) = Alive
<1>1. FedInOrder(Graph, q) /\ Ready(Graph, Members(q)) = {}
  BY GreedyOrder
<1>2. PICK k : k = KahnOrder
  OBVIOUS
<1>3. Lists(k, Alive)
  BY <1>2, KahnPlacesAll
<1>4. DOMAIN k \subseteq Nat /\ \A g \in Alive : \E i \in DOMAIN k : k[i] = g
  <2>1. k \in Seq(Alive)
    BY <1>3 DEF Lists
  <2>2. DOMAIN k = 1..Len(k) /\ Len(k) \in Nat
    BY <2>1
  <2> QED BY <1>3, <2>2 DEF Lists, Members
<1> SUFFICES ASSUME Alive \ Members(q) # {} PROVE FALSE
  BY <1>1 DEF FedInOrder
<1> DEFINE P == {i \in DOMAIN k : k[i] \in Alive \ Members(q)}
<1>5. P \in SUBSET Nat /\ P # {}
  BY <1>4
<1>6. PICK i \in P : \A j \in P : i <= j
  BY <1>5, LeastNatural
<1>7. ASSUME NEW h \in Alive, <<h, k[i]>> \in Graph PROVE h \in Members(q)
  <2>1. h \in FirstOf(k, i - 1)
    BY <1>2, <1>6, <1>7, FeedsForward DEF Graph
  <2>2. PICK j \in DOMAIN k : j \in 1..(i - 1) /\ k[j] = h
    BY <2>1 DEF FirstOf
  <2>3. j \notin P
    BY <1>4, <1>6, <2>2
  <2> QED BY <1>7, <2>2, <2>3
<1>8. k[i] \in Ready(Graph, Members(q))
  BY <1>6, <1>7 DEF Ready
<1> QED BY <1>1, <1>8

LEMMA DfsOrderLists ==
  ASSUME NEW feeds, NEW q \in DfsOrders(feeds)
  PROVE  Lists(q, Alive)
<1>1. PICK r \in GreedyOrders(feeds) : q = r \o Ascending(Alive \ Members(r))
  BY DEF DfsOrders
<1>2. Members(r) \subseteq Alive /\ Lists(r, Members(r))
  BY <1>1, GreedyOrder DEF FedInOrder
<1>3. PICK G : G = Alive \ Members(r)
  OBVIOUS
<1>4. G \in SUBSET Slots /\ Members(r) \cap G = {} /\ Members(r) \cup G = Alive
  BY <1>2, <1>3 DEF Alive
<1>5. PICK e : e = Ascending(G)
  OBVIOUS
<1>6. Lists(e, G)
  BY <1>4, <1>5, AscendingLists
<1>7. Lists(r \o e, Members(r) \cup G)
  BY <1>2, <1>4, <1>6, ListsJoin
<1>8. q = r \o e
  BY <1>1, <1>3, <1>5
<1> QED BY <1>4, <1>7, <1>8

LEMMA DfsOrderFed ==
  ASSUME Tabled, IsAcyclic, NEW q \in DfsOrders(Graph)
  PROVE  FedInOrder(Graph, q)
<1>1. PICK r \in GreedyOrders(Graph) : q = r \o Ascending(Alive \ Members(r))
  BY DEF DfsOrders
<1>2. FedInOrder(Graph, r) /\ Members(r) = Alive
  BY <1>1, GreedyOrder, GreedyPlacesAll
<1>3. r \in Seq(Alive)
  BY <1>2 DEF FedInOrder, Lists
<1>4. PICK e : e = Ascending({})
  OBVIOUS
<1>5. Lists(e, {})
  BY <1>4, AscendingLists
<1>6. e = <<>>
  BY <1>5 DEF Lists
<1>7. Alive \ Members(r) = {}
  BY <1>2
<1>8. q = r \o <<>>
  BY <1>1, <1>4, <1>6, <1>7
<1>9. q = r
  BY <1>3, <1>8
<1> QED BY <1>2, <1>9
-----------------------------------------------------------------------------
(* Pricing an order gives one step for each of its groups.                 *)

StepsFor(q, hint, i) == [ops : {OpsOf(q, i)}, retain : {{}, hint[i]}, fits : BOOLEAN]

StepsForAll(q, hint) == UNION {StepsFor(q, hint, i) : i \in 1..Len(q)}

(* The steps of p launch the first n groups of q.                          *)
Launches(p, q, n) == DOMAIN p = 1..n /\ \A i \in 1..n : p[i].ops = OpsOf(q, i)

PricedSoFar(q, hint, n, P) ==
  \A p \in P : p \in Seq(StepsForAll(q, hint)) /\ Launches(p, q, n)

PriceStep(q, hint, n, P) ==
  LET entering(p) == IF p = <<>> THEN {} ELSE p[Len(p)].retain
  IN  UNION {{Append(p, s) :
                s \in {s \in StepsFor(q, hint, n) :
                         Priced(OpsOf(q, n), entering(p), hint[n], s)}} :
             p \in P}

LEMMA PriceStepKeeps ==
  ASSUME NEW q, NEW hint, NEW n \in 1..Len(q), Len(q) \in Nat,
         NEW P, PricedSoFar(q, hint, n - 1, P)
  PROVE  PricedSoFar(q, hint, n, PriceStep(q, hint, n, P))
<1> SUFFICES ASSUME NEW r \in PriceStep(q, hint, n, P)
             PROVE  r \in Seq(StepsForAll(q, hint)) /\ Launches(r, q, n)
  BY DEF PricedSoFar
<1>1. PICK p \in P, s \in StepsFor(q, hint, n) : r = Append(p, s)
  BY DEF PriceStep
<1>2. p \in Seq(StepsForAll(q, hint)) /\ DOMAIN p = 1..(n - 1)
      /\ \A i \in 1..(n - 1) : p[i].ops = OpsOf(q, i)
  BY DEF PricedSoFar, Launches
<1>3. s \in StepsForAll(q, hint) /\ s.ops = OpsOf(q, n)
  BY DEF StepsForAll, StepsFor
<1>4. PICK X : X = StepsForAll(q, hint)
  OBVIOUS
<1>5. Len(p) = n - 1
  <2>1. Len(p) \in Nat /\ DOMAIN p = 1..Len(p) /\ n \in Nat
    BY <1>2, <1>4
  <2> QED BY <1>2, <2>1
<1>6. /\ r \in Seq(X) /\ DOMAIN r = 1..n /\ r[n] = s
      /\ \A i \in 1..(n - 1) : r[i] = p[i]
  BY <1>1, <1>2, <1>3, <1>4, <1>5
<1>7. \A i \in 1..n : i = n \/ i \in 1..(n - 1)
  OBVIOUS
<1>8. \A i \in 1..n : r[i].ops = OpsOf(q, i)
  BY <1>2, <1>3, <1>6, <1>7
<1> QED BY <1>4, <1>6, <1>8 DEF Launches

LEMMA PricingsLaunch ==
  ASSUME NEW q, Len(q) \in Nat, NEW hint, NEW p \in Pricings(q, hint)
  PROVE  Launches(p, q, Len(q))
<1> DEFINE d0 == {<<>>}
           D == SUBSET Seq(StepsForAll(q, hint))
           F == [x \in Nat \X D |-> IF PriceStep(q, hint, x[1], x[2]) \in D
                                    THEN PriceStep(q, hint, x[1], x[2]) ELSE {}]
           Body(f) == [n \in 0..Len(q) |-> IF n = 0 THEN d0 ELSE PriceStep(q, hint, n, f[n - 1])]
<1>1. ASSUME NEW n, NEW P, PricedSoFar(q, hint, n, P) PROVE P \in D
  BY <1>1 DEF PricedSoFar
<1>2. d0 \in D /\ PricedSoFar(q, hint, 0, d0)
  <2>1. <<>> \in Seq(StepsForAll(q, hint)) /\ DOMAIN <<>> = {} /\ 1..0 = {}
    OBVIOUS
  <2> QED BY <2>1 DEF PricedSoFar, Launches
<1>3. F \in [Nat \X D -> D]
  <2>1. {} \in D
    OBVIOUS
  <2> HIDE DEF D
  <2> QED BY <2>1
<1>4. PICK f : Iterates(f, Len(q), D, d0, F)
  <2> HIDE DEF F, d0, D
  <2> QED BY <1>2, <1>3, IterationExists
<1>5. ASSUME NEW n \in 1..Len(q), PricedSoFar(q, hint, n - 1, f[n - 1])
      PROVE  f[n] = PriceStep(q, hint, n, f[n - 1]) /\ PricedSoFar(q, hint, n, f[n])
  <2>1. n \in Nat /\ f[n - 1] \in D
    BY <1>1, <1>5
  <2>2. /\ PricedSoFar(q, hint, n, PriceStep(q, hint, n, f[n - 1]))
        /\ PriceStep(q, hint, n, f[n - 1]) \in D
    BY <1>1, <1>5, PriceStepKeeps
  <2>3. PICK x : x = <<n, f[n - 1]>>
    OBVIOUS
  <2>4. x \in Nat \X D /\ x[1] = n /\ x[2] = f[n - 1]
    <3> HIDE DEF D
    <3> QED BY <2>1, <2>3
  <2>5. F[x] = PriceStep(q, hint, n, f[n - 1])
    <3> HIDE DEF D
    <3> QED BY <2>2, <2>4
  <2>6. f[n] = F[x]
    <3> HIDE DEF F, D, d0
    <3> QED BY <1>4, <2>3 DEF Iterates
  <2> QED BY <2>2, <2>5, <2>6
<1>6. \A n \in 0..Len(q) : PricedSoFar(q, hint, n, f[n])
  <2> DEFINE T == {n \in Nat : PricedSoFar(q, hint, n, f[n])}
  <2>1. 0 \in T
    <3> HIDE DEF F, D, d0
    <3> QED BY <1>2, <1>4 DEF Iterates
  <2>2. ASSUME NEW n \in 0..(Len(q) - 1), n \in T PROVE n + 1 \in T
    <3>1. n + 1 \in 1..Len(q) /\ (n + 1) - 1 = n /\ n + 1 \in Nat
      OBVIOUS
    <3>2. PricedSoFar(q, hint, n + 1, f[n + 1])
      BY <1>5, <2>2, <3>1
    <3> QED BY <3>1, <3>2
  <2>3. 0..Len(q) \subseteq T
    <3> HIDE DEF T
    <3> QED BY <2>1, <2>2, InductionUpTo
  <2> QED BY <2>3
<1>7. f = Body(f)
  <2>1. f[0] = d0 /\ f \in [0..Len(q) -> D]
    <3> HIDE DEF F, D, d0
    <3> QED BY <1>4 DEF Iterates
  <2>2. ASSUME NEW n \in 1..Len(q) PROVE f[n] = PriceStep(q, hint, n, f[n - 1])
    <3>1. n - 1 \in 0..Len(q)
      OBVIOUS
    <3> QED BY <1>5, <1>6, <3>1
  <2> HIDE DEF d0, D
  <2> QED BY <2>1, <2>2
<1>8. \E g : g = Body(g)
  BY <1>7
<1> DEFINE r == CHOOSE g : g = Body(g)
<1>9. r = Body(r)
  BY <1>8, Zenon
<1>10. Pricings(q, hint) = r[Len(q)]
  BY DEF Pricings, PriceStep, StepsFor
<1> HIDE DEF r
<1>11. ASSUME NEW n \in 0..Len(q)
       PROVE  r[n] = IF n = 0 THEN d0 ELSE PriceStep(q, hint, n, r[n - 1])
  <2> HIDE DEF d0
  <2>1. Body(r)[n] = IF n = 0 THEN d0 ELSE PriceStep(q, hint, n, r[n - 1])
    OBVIOUS
  <2>2. r[n] = Body(r)[n]
    <3> HIDE DEF Body
    <3> QED BY <1>9
  <2> HIDE DEF Body
  <2> QED BY <2>1, <2>2
<1>12. \A n \in 0..Len(q) : PricedSoFar(q, hint, n, r[n])
  <2> DEFINE T == {n \in Nat : PricedSoFar(q, hint, n, r[n])}
  <2>1. 0 \in T
    <3>1. 0 \in 0..Len(q)
      OBVIOUS
    <3> HIDE DEF d0
    <3> QED BY <1>2, <1>11, <3>1
  <2>2. ASSUME NEW n \in 0..(Len(q) - 1), n \in T PROVE n + 1 \in T
    <3>1. n + 1 \in 1..Len(q) /\ n + 1 \in 0..Len(q) /\ n + 1 # 0 /\ (n + 1) - 1 = n /\ n + 1 \in Nat
      OBVIOUS
    <3>2. PricedSoFar(q, hint, n + 1, PriceStep(q, hint, n + 1, r[n]))
      BY <2>2, <3>1, PriceStepKeeps
    <3> HIDE DEF d0
    <3>3. r[n + 1] = PriceStep(q, hint, n + 1, r[n])
      BY <1>11, <3>1
    <3> QED BY <3>1, <3>2, <3>3
  <2>3. 0..Len(q) \subseteq T
    <3> HIDE DEF T
    <3> QED BY <2>1, <2>2, InductionUpTo
  <2> QED BY <2>3
<1>13. Len(q) \in 0..Len(q)
  OBVIOUS
<1> QED BY <1>10, <1>12, <1>13 DEF PricedSoFar-----------------------------------------------------------------------------
(* Every group by itself, in an order in which each is fed.                *)

LEMMA SupplierHolds ==
  ASSUME NEW q, DOMAIN q \subseteq Nat, NEW g, NEW t, OtherHolders(t, g) # {}
  PROVE  Supplier(q, g, t) \in OtherHolders(t, g)
<1>1. PICK others : others = (GroupsOf(t) \cap Alive) \ {g}
  OBVIOUS
<1>2. others # {} /\ others \in SUBSET Nat
  <2>1. Slots \subseteq Nat
    BY SlotsFinite
  <2> QED BY <1>1, <2>1 DEF OtherHolders, Alive
<1>3. PICK reached : reached = others \cap Members(q)
  OBVIOUS
<1>4. CASE reached = {}
  <2>1. Least(others) \in others
    BY <1>2, LeastNatural DEF Least
  <2> QED BY <1>1, <1>3, <1>4, <2>1 DEF Supplier, OtherHolders
<1>5. CASE reached # {}
  <2> DEFINE P == {m \in DOMAIN q : q[m] \in reached}
  <2>1. P \in SUBSET Nat /\ P # {}
    BY <1>3, <1>5 DEF Members
  <2>2. PICK m \in P : \A j \in P : m <= j
    BY <2>1, LeastNatural
  <2>3. \A v \in reached : \E j \in P : q[j] = v
    BY <1>3 DEF Members
  <2>4. \E u \in reached : \A v \in reached : \E i, j \in DOMAIN q : q[i] = u /\ q[j] = v /\ i <= j
    BY <2>2, <2>3
  <2>5. Supplier(q, g, t) = CHOOSE u \in reached : \A v \in reached :
                              \E i, j \in DOMAIN q : q[i] = u /\ q[j] = v /\ i <= j
    BY <1>1, <1>3, <1>5 DEF Supplier
  <2>6. Supplier(q, g, t) \in reached
    BY <2>4, <2>5
  <2> QED BY <1>1, <1>3, <2>6 DEF OtherHolders
<1> QED BY <1>4, <1>5

(* A group gets what it needs from a group that feeds it.                  *)
LEMMA NeedsAreFed ==
  ASSUME Tabled, NEW g \in Alive, NEW t \in Needs(groups[g])
  PROVE  \E h \in Alive : t \in groups[h] /\ <<h, g>> \in Graph
<1>1. t \in Ops /\ t \notin groups[g]
  BY DEF Needs, Inputs
<1>2. PICK k \in Alive : t \in groups[k] /\ k \in GroupsOf(t)
  BY <1>1, TabledListed DEF Covered
<1>3. OtherHolders(t, g) # {}
  BY <1>1, <1>2 DEF OtherHolders
<1>4. KahnSoFar(MaxGroups, KahnOrder)
  BY KahnEnds
<1>5. PICK q : q = KahnOrder
  OBVIOUS
<1>6. DOMAIN q \subseteq Nat
  <2>1. q \in Seq(Members(q))
    BY <1>4, <1>5 DEF KahnSoFar, Lists
  <2> QED BY <2>1
<1>7. PICK h : h = Supplier(q, g, t)
  OBVIOUS
<1>8. h \in OtherHolders(t, g)
  BY <1>3, <1>6, <1>7, SupplierHolds
<1>9. h \in Alive /\ t \in groups[h]
  BY <1>1, <1>8, TabledListed DEF OtherHolders
<1>10. PICK e : e = <<h, g>>
  OBVIOUS
<1>11. e \in Alive \X Alive /\ e[1] = h /\ e[2] = g
  BY <1>9, <1>10
<1>12. e \in Feeds(q)
  BY <1>3, <1>7, <1>11 DEF Feeds
<1> QED BY <1>5, <1>9, <1>10, <1>12 DEF Graph

(* A needed result is written by some group when no consumer is stranded.  *)
LEMMA NeedsAreWritten ==
  ASSUME Tabled, ~HasEphemeralGap, NEW g \in Alive, NEW t \in Needs(groups[g])
  PROVE  \E k \in Alive : t \in Writes(groups[k])
<1> SUFFICES ASSUME \A k \in Alive : t \notin Writes(groups[k])
             PROVE  HasEphemeralGap
  OBVIOUS
<1>1. t \in Ops /\ t \notin groups[g]
  BY DEF Needs, Inputs
<1>2. PICK c \in groups[g] : c \in Consumers(t) /\ c \in Ops
  <2>1. groups[g] \subseteq Ops
    BY DEF Tabled, Alive
  <2> QED BY <2>1 DEF Needs, Inputs, Reads, Consumers
<1>3. PICK h \in Alive : t \in groups[h]
  BY <1>1, TabledListed DEF Covered
<1>4. ASSUME NEW k \in Alive, t \in groups[k]
      PROVE  IsEphemeral(groups[k], t) /\ ~Exported(t, k)
  <2>1. \A j \in Alive : ~IsBoundaryOutput(groups[j], t)
    BY DEF Writes, IsBoundaryOutput
  <2> QED BY <1>4, <2>1 DEF IsEphemeral, Exported
<1>5. g \in GroupsOf(c) \cap Alive
  BY <1>2, TabledListed DEF Alive
<1>6. ASSUME NEW k \in Alive, t \in groups[k], c \in groups[k] PROVE HasEphemeralGap
  <2>1. g \in (GroupsOf(c) \cap Alive) \ {k} /\ t \notin groups[g]
    BY <1>1, <1>5, <1>6
  <2> QED BY <1>2, <1>4, <1>6, <2>1 DEF HasEphemeralGap, HasGapBeyond
<1>7. CASE c \in groups[h]
  BY <1>3, <1>6, <1>7
<1>8. CASE c \notin groups[h] /\ \A k \in GroupsOf(c) \cap Alive : t \notin groups[k]
  BY <1>2, <1>3, <1>4, <1>8 DEF HasEphemeralGap, HasGapBeyond
<1>9. CASE \E k \in GroupsOf(c) \cap Alive : t \in groups[k]
  BY <1>2, <1>6, <1>9, TabledListed
<1> QED BY <1>7, <1>8, <1>9

(* The bare plan is one the validator accepts.                             *)
LEMMA BareIsValid ==
  ASSUME Tabled, ~HasEphemeralGap, IsAcyclic, LiveFit, Ops # {},
         NEW once \in BOOLEAN, once => Disjoint,
         NEW q, FedInOrder(Graph, q), Lists(q, Alive), NEW p, Launches(p, q, Len(q))
  PROVE  Valid(Bare(p), once)
<1>1. PICK n \in Nat : n = Len(q) /\ DOMAIN q = 1..n
  BY DEF Lists
<1>2. PICK b : b = Bare(p)
  OBVIOUS
<1>3. /\ DOMAIN b = 1..n
      /\ \A i \in 1..n : /\ b[i].ops = groups[q[i]] /\ b[i].retain = {}
                         /\ b[i].fits = Fits(groups[q[i]])
                         /\ q[i] \in Alive
  <2>1. DOMAIN p = 1..n /\ \A i \in 1..n : p[i].ops = groups[q[i]] /\ q[i] \in Alive
    BY <1>1 DEF Launches, OpsOf, Lists, Members
  <2> QED BY <1>2, <2>1 DEF Bare
<1>4. \A g \in Alive : \E i \in 1..n : q[i] = g
  BY <1>1 DEF Lists, Members
<1>5. \A g \in Alive : groups[g] \subseteq Ops
  BY DEF Tabled, Alive
<1>6. \A o \in Ops : \E i \in 1..n : o \in groups[q[i]]
  BY <1>4, TabledListed DEF Covered
<1>7. b # <<>>
  <2>1. 1..n # {}
    BY <1>6
  <2> QED BY <1>3, <2>1
<1>8. once => LaunchedOnce(b)
  <2>1. \A i, j \in 1..n : i # j => q[i] # q[j]
    BY <1>1 DEF Lists
  <2> QED BY <1>3, <2>1 DEF LaunchedOnce, Disjoint
<1>9. Launched(b) = Ops
  <2>1. Launched(b) \subseteq Ops
    BY <1>3, <1>5 DEF Launched
  <2>2. Ops \subseteq Launched(b)
    BY <1>3, <1>6 DEF Launched
  <2> QED BY <2>1, <2>2
<1>10. \A i \in DOMAIN b : b[i].fits
  BY <1>3 DEF LiveFit
<1>11. InOrder(b)
  <2> SUFFICES ASSUME NEW i \in 1..n, NEW t \in Needs(groups[q[i]])
               PROVE  \E j \in 1..(i - 1) : t \in b[j].ops
    BY <1>3 DEF InOrder
  <2>1. PICK h \in Alive : t \in groups[h] /\ <<h, q[i]>> \in Graph
    BY <1>3, NeedsAreFed
  <2>2. h \in FirstOf(q, i - 1)
    BY <1>1, <2>1 DEF FedInOrder
  <2>3. PICK j \in 1..(i - 1) : j \in 1..n /\ q[j] = h
    BY <1>1, <2>2 DEF FirstOf
  <2> QED BY <1>3, <2>1, <2>3
<1>12. \A i \in DOMAIN b : b[i].retain \subseteq b[i].ops
  BY <1>3
<1>13. NoMissingInput(b)
  <2> SUFFICES ASSUME NEW i \in 1..n, NEW t \in Needs(groups[q[i]])
               PROVE  WritingSteps(b, t) # {}
    BY <1>3 DEF NoMissingInput
  <2>1. PICK k \in Alive : t \in Writes(groups[k])
    BY <1>3, NeedsAreWritten
  <2> QED BY <1>3, <1>4, <2>1 DEF WritingSteps
<1>14. ConsumersServed(b)
  <2> SUFFICES ASSUME NEW i \in 1..n, NEW t \in groups[q[i]], IsEphemeral(groups[q[i]], t),
                      WritingSteps(b, t) \ {i} = {},
                      NEW c \in Consumers(t) \ groups[q[i]]
               PROVE  \E j \in (1..n) \ {i} : {c, t} \subseteq groups[q[j]]
    BY <1>3 DEF ConsumersServed
  <2>1. ~Exported(t, q[i])
    <3> SUFFICES ASSUME Exported(t, q[i]) PROVE FALSE
      OBVIOUS
    <3>1. PICK h \in Alive \ {q[i]} : IsBoundaryOutput(groups[h], t)
      BY DEF Exported
    <3>2. PICK j \in 1..n : q[j] = h
      BY <1>4, <3>1
    <3>3. j # i /\ t \in Writes(groups[h])
      BY <3>1, <3>2 DEF Writes, IsBoundaryOutput
    <3> QED BY <1>3, <3>2, <3>3 DEF WritingSteps
  <2>2. PICK h \in GroupsOf(c) \cap Alive : t \in groups[h]
    BY <1>3, <2>1 DEF HasEphemeralGap, HasGapBeyond
  <2>3. c \in groups[h]
    BY <2>2, TabledListed DEF Consumers
  <2>4. PICK j \in 1..n : q[j] = h
    BY <1>4, <2>2
  <2>5. j # i
    BY <2>3, <2>4
  <2> QED BY <2>2, <2>3, <2>4, <2>5
<1> QED BY <1>2, <1>7, <1>8, <1>9, <1>10, <1>11, <1>12, <1>13, <1>14 DEF Valid

-----------------------------------------------------------------------------
(* The plans: what is known of the solution while it is being chosen.      *)

(* Its steps are of ops of the problem.                                    *)
OverOps(steps) == \A i \in DOMAIN steps : steps[i].ops \subseteq Ops

Planned ==
  /\ Partitioned
  /\ stage \in {"beam", "done", "dropped"} => IsPlan(plan) /\ OverOps(plan)
  /\ stage = "beam" /\ IsAcyclic /\ LiveFit /\ Ops # {} => Valid(plan, source)
  /\ stage = "done" /\ (source \/ Ops # {}) => Valid(plan, source)
  /\ stage = "dropped" /\ Ops # {} => ~(IsAcyclic /\ LiveFit)

LEMMA SamePartition ==
  ASSUME prob' = prob, groups' = groups, index' = index
  PROVE  (IsAcyclic' <=> IsAcyclic) /\ (LiveFit' <=> LiveFit)
<1>1. Alive' = Alive
  BY DEF Alive
<1>2. \A o : GroupsOf(o)' = GroupsOf(o) /\ Producers(o)' = Producers(o)
  BY DEF GroupsOf, Producers
<1>3. \A g : Dependencies(g)' = Dependencies(g)
  BY <1>1, <1>2 DEF Dependencies
<1>4. IsAcyclic' <=> IsAcyclic
  BY <1>1, <1>2, <1>3 DEF IsAcyclic
<1>5. LiveFit' <=> LiveFit
  BY <1>1 DEF LiveFit, Fits
<1> QED BY <1>4, <1>5

LEMMA SameProblem ==
  ASSUME prob' = prob, NEW p, plan' = p, NEW s, source' = s
  PROVE  Valid(plan, source)' <=> Valid(p, s)
<1>1. \A S : Needs(S)' = Needs(S)
  BY DEF Needs, Inputs, Reads
<1>2. \A t : Consumers(t)' = Consumers(t)
  BY DEF Consumers
<1>3. \A S, t : /\ IsBoundaryOutput(S, t)' = IsBoundaryOutput(S, t)
                /\ IsEphemeral(S, t)' = IsEphemeral(S, t)
  BY <1>2 DEF IsBoundaryOutput, IsEphemeral, ConsumedIn
<1>4. \A S : Writes(S)' = Writes(S)
  BY <1>3 DEF Writes
<1>5. LaunchedOnce(plan)' <=> LaunchedOnce(p)
  BY DEF LaunchedOnce
<1>6. Launched(plan)' = Launched(p)
  BY DEF Launched
<1>7. InOrder(plan)' <=> InOrder(p)
  BY <1>1 DEF InOrder
<1>8. \A t : WritingSteps(plan, t)' = WritingSteps(p, t)
  BY <1>4 DEF WritingSteps
<1>9. NoMissingInput(plan)' <=> NoMissingInput(p)
  BY <1>1, <1>8 DEF NoMissingInput, LeftByStepBefore
<1>10. ConsumersServed(plan)' <=> ConsumersServed(p)
  BY <1>2, <1>3, <1>8 DEF ConsumersServed
<1> QED BY <1>5, <1>6, <1>7, <1>9, <1>10 DEF Valid

(* Every depth-first plan and every plan of the beam is a sequence of      *)
(* steps; the bare one of a partition without a cycle is valid.            *)
LEMMA DfsPlanShape ==
  ASSUME NEW p \in DfsPlans(Graph)
  PROVE  \E q \in DfsOrders(Graph) : Lists(q, Alive) /\ Launches(p, q, Len(q)) /\ Len(q) \in Nat
<1>1. PICK q \in DfsOrders(Graph) : p \in Pricings(q, FullHint(q))
  BY DEF DfsPlans
<1>2. Lists(q, Alive)
  BY DfsOrderLists
<1>3. Len(q) \in Nat
  BY <1>2 DEF Lists
<1> QED BY <1>1, <1>2, <1>3, PricingsLaunch

LEMMA LaunchesOverOps ==
  ASSUME Tabled, NEW q, Lists(q, Members(q)), Members(q) \subseteq Alive,
         NEW p, Launches(p, q, Len(q))
  PROVE  OverOps(p)
<1>1. DOMAIN q = 1..Len(q) /\ \A i \in DOMAIN q : q[i] \in Slots
  BY DEF Lists, Members, Alive
<1>2. \A i \in DOMAIN p : p[i].ops = groups[q[i]] /\ q[i] \in Slots
  BY <1>1 DEF Launches, OpsOf
<1> QED BY <1>2 DEF OverOps, Tabled

LEMMA BeamPlanShape ==
  ASSUME Tabled, NEW p \in BeamPlans(Graph)
  PROVE  IsPlan(p) /\ OverOps(p)
<1>1. PICK q \in GreedyOrders(Graph) : \E h \in Hints(q) : p \in Pricings(q, h)
  BY DEF BeamPlans, BeamOrders
<1>2. PICK h \in Hints(q) : p \in Pricings(q, h)
  BY <1>1
<1>3. Lists(q, Members(q)) /\ Members(q) \subseteq Alive
  BY GreedyOrder DEF FedInOrder
<1>4. Len(q) \in Nat
  BY <1>3 DEF Lists
<1>5. Launches(p, q, Len(q))
  BY <1>2, <1>4, PricingsLaunch
<1>6. OverOps(p)
  BY <1>3, <1>5, LaunchesOverOps
<1> QED BY <1>4, <1>5, <1>6 DEF IsPlan, Launches

LEMMA BareShape ==
  ASSUME Tabled, NEW p \in DfsPlans(Graph)
  PROVE  IsPlan(p) /\ OverOps(p) /\ IsPlan(Bare(p)) /\ OverOps(Bare(p))
<1>1. PICK q \in DfsOrders(Graph) : Lists(q, Alive) /\ Launches(p, q, Len(q)) /\ Len(q) \in Nat
  BY DfsPlanShape
<1>2. IsPlan(p)
  BY <1>1 DEF IsPlan, Launches
<1>3. Members(q) = Alive
  BY <1>1 DEF Lists
<1>4. OverOps(p)
  BY <1>1, <1>3, LaunchesOverOps
<1>5. DOMAIN Bare(p) = DOMAIN p /\ \A i \in DOMAIN p : Bare(p)[i].ops = p[i].ops
  BY DEF Bare
<1> QED BY <1>2, <1>4, <1>5 DEF IsPlan, OverOps

LEMMA BareDfsValid ==
  ASSUME Sound, source \in BOOLEAN, IsAcyclic, LiveFit, Ops # {}, NEW p \in DfsPlans(Graph)
  PROVE  Valid(Bare(p), source)
<1>1. PICK q \in DfsOrders(Graph) : Lists(q, Alive) /\ Launches(p, q, Len(q))
  BY DfsPlanShape
<1>2. FedInOrder(Graph, q)
  BY DfsOrderFed DEF Sound
<1>3. PICK once \in BOOLEAN : once = source
  OBVIOUS
<1>4. Valid(Bare(p), once)
  BY <1>1, <1>2, <1>3, BareIsValid DEF Sound
<1> QED BY <1>3, <1>4

(* Once a valid plan is kept a valid plan is kept.                         *)
LEMMA KeepStaysValid ==
  ASSUME NEW best, NEW p, NEW r \in Keep(best, p)
  PROVE  /\ Valid(best, source) => Valid(r, source)
         /\ r = best \/ r = p
BY DEF Keep

LEMMA StepPlanned ==
  ASSUME Planned, [PipelineNext]_pipelineVars
  PROVE  Planned'
<1>1. Partitioned'
  BY StepPartitioned DEF Planned
<1>2. CASE Search \/ Materialize \/ Audit \/ Accept
  <2>1. stage' \in {"search", "order"}
    BY <1>2 DEF Search, Materialize, Audit, Accept
  <2> QED BY <1>1, <2>1 DEF Planned
<1>3. CASE Direct
  <2>1. /\ prob' = prob /\ source' = source /\ stage = "order" /\ ~source
        /\ stage' \in {"done", "fallback"}
    BY <1>3 DEF Direct, fmVars
  <2>2. PICK p \in DfsPlans(Graph) : IF Valid(p, source) THEN plan' = p /\ stage' = "done"
                                                         ELSE plan' = plan /\ stage' = "fallback"
    BY <1>3 DEF Direct
  <2>3. CASE stage' = "fallback"
    BY <1>1, <2>3 DEF Planned
  <2>4. CASE stage' = "done"
    <3>1. Valid(p, source) /\ plan' = p
      BY <2>2, <2>4
    <3>2. Valid(plan, source)'
      BY <2>1, <3>1, SameProblem
    <3>3. (IsPlan(plan) /\ OverOps(plan))'
      <4>1. Tabled
        BY <2>1 DEF Planned, Partitioned, Sound
      <4>2. IsPlan(p) /\ OverOps(p)
        BY <4>1, BareShape
      <4> QED BY <3>1, <4>2 DEF IsPlan, OverOps
    <3> QED BY <1>1, <2>4, <3>2, <3>3 DEF Planned
  <2> QED BY <2>1, <2>3, <2>4
<1>4. CASE Compare
  <2>1. /\ prob' = prob /\ groups' = groups /\ index' = index /\ source' = source
        /\ stage # "search" /\ stage' = "beam"
    BY <1>4 DEF Compare, fmVars
  <2>2. PICK p \in DfsPlans(Graph) : plan' \in Keep(Bare(p), p)
    BY <1>4 DEF Compare
  <2>3. PICK r : r = plan'
    OBVIOUS
  <2>4. r \in Keep(Bare(p), p)
    BY <2>2, <2>3
  <2>5. (IsPlan(plan) /\ OverOps(plan))'
    <3>1. Tabled
      BY <2>1 DEF Planned, Partitioned, Sound
    <3>2. IsPlan(p) /\ OverOps(p) /\ IsPlan(Bare(p)) /\ OverOps(Bare(p))
      BY <3>1, BareShape
    <3>3. r = Bare(p) \/ r = p
      BY <2>4, KeepStaysValid
    <3>4. IsPlan(r) /\ OverOps(r)
      BY <3>2, <3>3
    <3> QED BY <2>3, <3>4 DEF IsPlan, OverOps
  <2>6. ASSUME IsAcyclic', LiveFit', Ops # {} PROVE Valid(plan, source)'
    <3>1. IsAcyclic /\ LiveFit
      BY <2>1, <2>6, SamePartition
    <3>2. Sound /\ source \in BOOLEAN
      BY <2>1 DEF Planned, Partitioned
    <3>3. Valid(Bare(p), source)
      BY <2>6, <3>1, <3>2, BareDfsValid
    <3>4. Valid(r, source)
      BY <2>4, <3>3, KeepStaysValid
    <3> QED BY <2>1, <2>3, <3>4, SameProblem
  <2> QED BY <1>1, <2>1, <2>5, <2>6 DEF Planned
<1>5. CASE Beam
  <2>1. /\ prob' = prob /\ groups' = groups /\ index' = index /\ source' = source
        /\ stage = "beam" /\ stage' \in {"done", "dropped"}
    BY <1>5 DEF Beam, fmVars
  <2>2. PICK p \in BeamPlans(Graph) : plan' \in Keep(plan, p)
    BY <1>5 DEF Beam
  <2>3. PICK r : r = plan'
    OBVIOUS
  <2>4. r \in Keep(plan, p) /\ (r = plan \/ r = p)
    BY <2>2, <2>3, KeepStaysValid
  <2>5. stage' = IF source /\ ~Valid(r, source) THEN "dropped" ELSE "done"
    BY <1>5, <2>3 DEF Beam
  <2>6. (IsPlan(plan) /\ OverOps(plan))'
    <3>1. Tabled
      BY <2>1 DEF Planned, Partitioned, Sound
    <3>2. IsPlan(p) /\ OverOps(p)
      BY <3>1, BeamPlanShape
    <3>3. IsPlan(r) /\ OverOps(r)
      BY <2>1, <2>4, <3>2 DEF Planned
    <3> QED BY <2>3, <3>3 DEF IsPlan, OverOps
  <2>7. (IsAcyclic' <=> IsAcyclic) /\ (LiveFit' <=> LiveFit)
    BY <2>1, SamePartition
  <2>8. IsAcyclic /\ LiveFit /\ Ops # {} => Valid(r, source)
    BY <2>1, <2>4, KeepStaysValid DEF Planned
  <2>9. ~source => IsAcyclic /\ LiveFit
    BY <2>1 DEF Planned, Partitioned, Sound
  <2>10. Valid(plan, source)' <=> Valid(r, source)
    BY <2>1, <2>3, SameProblem
  <2>11. stage' = "done" /\ (source' \/ Ops # {}) => Valid(plan, source)'
    BY <2>1, <2>5, <2>8, <2>9, <2>10
  <2>12. stage' = "dropped" /\ Ops # {} => ~(IsAcyclic' /\ LiveFit')
    BY <2>5, <2>7, <2>8
  <2> QED BY <1>1, <2>1, <2>6, <2>11, <2>12 DEF Planned
<1>6. CASE UNCHANGED pipelineVars
  <2>1. /\ prob' = prob /\ groups' = groups /\ index' = index /\ source' = source
        /\ stage' = stage /\ plan' = plan
    BY <1>6 DEF pipelineVars, fmVars
  <2>2. (IsAcyclic' <=> IsAcyclic) /\ (LiveFit' <=> LiveFit)
    BY <2>1, SamePartition
  <2>3. Valid(plan, source)' <=> Valid(plan, source)
    BY <2>1, SameProblem
  <2>4. (IsPlan(plan) /\ OverOps(plan))' <=> (IsPlan(plan) /\ OverOps(plan))
    BY <2>1 DEF IsPlan, OverOps
  <2> QED BY <1>1, <2>1, <2>2, <2>3, <2>4 DEF Planned
<1> QED BY <1>2, <1>3, <1>4, <1>5, <1>6 DEF PipelineNext

(* What solve() knows of its best candidate at each of its stages.         *)
THEOREM PlansAreSound == PipelineSpec => []Planned
<1>1. PipelineInit => Planned
  <2> SUFFICES ASSUME PipelineInit PROVE Planned
    OBVIOUS
  <2>1. PartitionInit /\ source \in BOOLEAN /\ stage = "search"
    BY DEF PipelineInit, Init
  <2> QED BY <2>1, InitEstablishesInv, InitFits DEF Planned, Partitioned
<1>2. Planned /\ [PipelineNext]_pipelineVars => Planned'
  BY StepPlanned
<1> QED BY <1>1, <1>2, PTL DEF PipelineSpec

(* A solve ends with a schedule Solution::validate accepts: whatever the   *)
(* search has done, and whichever candidates from_partition prices, the    *)
(* invalid fallback is never returned (solver.cpp, from_partition).        *)
THEOREM AlwaysEndsScheduled ==
  ASSUME Ops # {}
  PROVE  PipelineSpec => []AlwaysScheduled
<1>1. ASSUME Planned PROVE AlwaysScheduled
  BY <1>1 DEF Planned, AlwaysScheduled
<1> QED BY <1>1, PlansAreSound, PTL

(* A plan that becomes source code launches each op once and finds every   *)
(* input where it looks for it (solver.cpp,                                *)
(* MaterializeRecomputedSourceOps and from_partition).                     *)
THEOREM SourcePlanRuns == PipelineSpec => []SourceRuns
<1>1. ASSUME Planned PROVE SourceRuns
  <2> SUFFICES ASSUME source, stage = "done"
               PROVE  /\ InputsReady(plan)
                      /\ \A o \in Ops : Cardinality({i \in DOMAIN plan : o \in plan[i].ops}) = 1
    BY DEF SourceRuns
  <2>1. IsPlan(plan) /\ Valid(plan, TRUE)
    BY <1>1 DEF Planned, Partitioned
  <2> QED BY <2>1, ValidRuns, ValidLaunchesOnce
<1> QED BY <1>1, PlansAreSound, PTL

(* A source plan is dropped for a cycle among the groups or for a group    *)
(* that does not fit, and for nothing else (solver.cpp, from_partition and *)
(* the disjoint fallback of solve()).                                      *)
THEOREM DroppedOnlyForCause ==
  ASSUME Ops # {}
  PROVE  PipelineSpec => []DroppedForCause
<1>1. ASSUME Planned PROVE DroppedForCause
  BY <1>1 DEF Planned, DroppedForCause, LiveFit
<1> QED BY <1>1, PlansAreSound, PTL-----------------------------------------------------------------------------
(* The order in which the ops of a step are replayed.                      *)

(* DAG::topo_sort: each op after those whose results it reads.             *)
TopoSoFar(n, q) ==
  /\ Len(q) = n
  /\ Members(q) \subseteq Ops
  /\ Lists(q, Members(q))
  /\ \A i \in DOMAIN q : Producers(q[i]) \subseteq FirstOf(q, i - 1)

TopoStep(q) ==
  LET done == {q[i] : i \in DOMAIN q}
  IN  Append(q, Least({o \in Ops \ done : Producers(o) \subseteq done}))

(* p is the list q of the set G with o put behind.                         *)
Extends(p, q, G, o) ==
  /\ Lists(p, G \cup {o}) /\ Members(p) = G \cup {o}
  /\ Len(p) = Len(q) + 1 /\ Len(q) \in Nat
  /\ DOMAIN q = 1..Len(q) /\ DOMAIN p = 1..(Len(q) + 1)
  /\ p[Len(q) + 1] = o /\ \A i \in 1..Len(q) : p[i] = q[i]
  /\ \A m \in 0..Len(q) : FirstOf(p, m) = FirstOf(q, m)
  /\ FirstOf(p, Len(q)) = G

LEMMA ListsAppend ==
  ASSUME NEW q, NEW G, Lists(q, G), NEW o, o \notin G
  PROVE  Extends(Append(q, o), q, G, o)
<1>0. PICK p : p = Append(q, o)
  OBVIOUS
<1>1. /\ q \in Seq(G) /\ Len(q) \in Nat /\ DOMAIN q = 1..Len(q) /\ Members(q) = G
      /\ \A i, j \in DOMAIN q : q[i] = q[j] => i = j
  BY DEF Lists
<1>2. PICK M : M = G \cup {o}
  OBVIOUS
<1>3. q \in Seq(M) /\ o \in M
  BY <1>1, <1>2
<1>4. /\ p \in Seq(M) /\ Len(p) = Len(q) + 1 /\ DOMAIN p = 1..(Len(q) + 1)
      /\ p[Len(q) + 1] = o /\ \A i \in 1..Len(q) : p[i] = q[i]
  BY <1>0, <1>1, <1>3
<1>5. Members(p) = M
  <2>1. \A i \in DOMAIN p : i \in DOMAIN q \/ i = Len(q) + 1
    BY <1>1, <1>4
  <2>2. Members(p) \subseteq M
    BY <1>1, <1>2, <1>4, <2>1 DEF Members
  <2>3. \A i \in DOMAIN q : i \in DOMAIN p /\ p[i] = q[i]
    BY <1>1, <1>4
  <2>4. Len(q) + 1 \in DOMAIN p
    BY <1>1, <1>4
  <2>5. M \subseteq Members(p)
    BY <1>1, <1>2, <1>4, <2>3, <2>4 DEF Members
  <2> QED BY <2>2, <2>5
<1>6. \A i \in DOMAIN q : q[i] # o
  BY <1>1 DEF Members
<1>7. ASSUME NEW i \in DOMAIN p, NEW j \in DOMAIN p, p[i] = p[j] PROVE i = j
  <2>1. (i \in DOMAIN q /\ p[i] = q[i]) \/ (i = Len(q) + 1 /\ p[i] = o)
    BY <1>1, <1>4
  <2>2. (j \in DOMAIN q /\ p[j] = q[j]) \/ (j = Len(q) + 1 /\ p[j] = o)
    BY <1>1, <1>4
  <2> QED BY <1>1, <1>6, <1>7, <2>1, <2>2
<1>8. ASSUME NEW m \in 0..Len(q) PROVE FirstOf(p, m) = FirstOf(q, m)
  <2>1. (1..m) \cap DOMAIN p = 1..m /\ (1..m) \cap DOMAIN q = 1..m
    BY <1>1, <1>4
  <2> QED BY <1>1, <1>4, <2>1 DEF FirstOf
<1>9. FirstOf(q, Len(q)) = G
  BY <1>1 DEF FirstOf, Members
<1>10. FirstOf(p, Len(q)) = G
  BY <1>1, <1>8, <1>9
<1> QED BY <1>0, <1>1, <1>2, <1>4, <1>5, <1>7, <1>8, <1>10 DEF Lists, Extends

(* A list of a finite set is as long as the set is large.                  *)
LEMMA ListLength ==
  ASSUME NEW q, NEW G, Lists(q, G), IsFiniteSet(G)
  PROVE  Len(q) = Cardinality(G)
<1>1. PICK n \in Nat : n = Len(q) /\ DOMAIN q = 1..n /\ q \in [1..n -> G]
  BY DEF Lists
<1>2. q \in Bijection(1..n, G)
  BY <1>1, Fun_IsBij DEF Lists, Members
<1>3. ExistsBijection(1..n, G)
  BY <1>2 DEF ExistsBijection
<1>4. Cardinality(1..n) = n /\ IsFiniteSet(1..n)
  BY FS_Interval
<1>5. Cardinality(1..n) = Cardinality(G)
  BY <1>3, <1>4, FS_Bijection
<1> QED BY <1>1, <1>4, <1>5
LEMMA TopoStepKeeps ==
  ASSUME prob \in Problems, NEW n \in Nat, n < Cardinality(Ops), NEW q, TopoSoFar(n, q)
  PROVE  TopoSoFar(n + 1, TopoStep(q))
<1>1. Lists(q, Members(q)) /\ Members(q) \subseteq Ops /\ Len(q) = n
  BY DEF TopoSoFar
<1>2. IsFiniteSet(Ops) /\ Ops \subseteq Nat
  BY OpsAssumption
<1>3. PICK R : R = {o \in Ops \ Members(q) : Producers(o) \subseteq Members(q)}
  OBVIOUS
<1>4. R # {}
  <2>1. Members(q) # Ops
    BY <1>1, <1>2, ListLength
  <2>2. PICK X : X = Ops \ Members(q)
    OBVIOUS
  <2>3. X \in (SUBSET Ops) \ {{}}
    BY <1>1, <2>1, <2>2
  <2>4. PICK o \in X : prob.reads[o] \cap X = {}
    BY <2>3, ProblemsAssumption
  <2>5. Producers(o) \subseteq Members(q)
    BY <2>2, <2>4 DEF Producers
  <2> QED BY <1>3, <2>2, <2>5
<1>5. PICK o : o = Least(R)
  OBVIOUS
<1>6. o \in R
  <2>1. R \in SUBSET Nat
    BY <1>2, <1>3
  <2>2. \E x \in R : \A y \in R : x <= y
    BY <1>4, <2>1, LeastNatural
  <2> QED BY <1>5, <2>2 DEF Least
<1>7. PICK p : p = Append(q, o)
  OBVIOUS
<1>8. TopoStep(q) = p
  BY <1>3, <1>5, <1>7 DEF TopoStep, Members
<1>9. /\ Lists(p, Members(p)) /\ Members(p) = Members(q) \cup {o}
      /\ Len(p) = n + 1
      /\ DOMAIN q = 1..n /\ DOMAIN p = 1..(n + 1)
      /\ p[n + 1] = o /\ \A i \in 1..n : p[i] = q[i]
      /\ \A m \in 0..n : FirstOf(p, m) = FirstOf(q, m)
      /\ FirstOf(p, n) = Members(q)
  <2>1. PICK G : G = Members(q)
    OBVIOUS
  <2>2. o \notin G /\ Lists(q, G)
    BY <1>1, <1>3, <1>6, <2>1
  <2>3. Extends(p, q, G, o)
    BY <1>7, <2>2, ListsAppend
  <2> QED BY <1>1, <2>1, <2>3 DEF Extends
<1>10. ASSUME NEW i \in DOMAIN p PROVE Producers(p[i]) \subseteq FirstOf(p, i - 1)
  <2>1. CASE i = n + 1
    BY <1>3, <1>6, <1>9, <2>1
  <2>2. CASE i \in 1..n
    <3>1. i - 1 \in 0..n /\ p[i] = q[i] /\ i \in DOMAIN q
      BY <1>9, <2>2
    <3>2. Producers(q[i]) \subseteq FirstOf(q, i - 1)
      BY <3>1 DEF TopoSoFar
    <3> QED BY <1>9, <3>1, <3>2
  <2> QED BY <1>9, <2>1, <2>2
<1>11. Members(p) \subseteq Ops
  BY <1>1, <1>3, <1>6, <1>9
<1>12. TopoSoFar(n + 1, p)
  BY <1>9, <1>10, <1>11 DEF TopoSoFar
<1> QED BY <1>8, <1>12

LEMMA TopoEnds ==
  ASSUME prob \in Problems
  PROVE  TopoSoFar(Cardinality(Ops), TopoSort)
<1>0. PICK N \in Nat : N = Cardinality(Ops)
  BY OpsAssumption, FS_CardinalityType
<1> DEFINE d0 == <<>>
           D == Seq(Ops)
           F == [x \in Nat \X D |-> IF TopoStep(x[2]) \in D THEN TopoStep(x[2]) ELSE <<>>]
           Body(f) == [n \in 0..N |-> IF n = 0 THEN d0 ELSE TopoStep(f[n - 1])]
<1>1. ASSUME NEW n, NEW q, TopoSoFar(n, q) PROVE q \in D
  <2>1. q \in Seq(Members(q)) /\ Members(q) \subseteq Ops
    BY <1>1 DEF TopoSoFar, Lists
  <2> QED BY <2>1
<1>2. d0 \in D /\ TopoSoFar(0, d0)
  <2>1. <<>> \in Seq({}) /\ DOMAIN <<>> = {} /\ Len(<<>>) = 0 /\ <<>> \in Seq(Ops)
    OBVIOUS
  <2>2. Members(<<>>) = {}
    BY <2>1 DEF Members
  <2> QED BY <2>1, <2>2 DEF TopoSoFar, Lists
<1>3. F \in [Nat \X D -> D]
  OBVIOUS
<1>4. PICK f : Iterates(f, N, D, d0, F)
  <2> HIDE DEF F, d0, D
  <2> QED BY <1>2, <1>3, IterationExists
<1>5. ASSUME NEW n \in 1..N, TopoSoFar(n - 1, f[n - 1])
      PROVE  f[n] = TopoStep(f[n - 1]) /\ TopoSoFar(n, f[n])
  <2>1. n \in Nat /\ f[n - 1] \in D /\ n - 1 \in Nat /\ n - 1 < Cardinality(Ops) /\ (n - 1) + 1 = n
    BY <1>0, <1>1, <1>5
  <2>2. TopoSoFar(n, TopoStep(f[n - 1])) /\ TopoStep(f[n - 1]) \in D
    BY <1>1, <1>5, <2>1, TopoStepKeeps
  <2>3. PICK x : x = <<n, f[n - 1]>>
    OBVIOUS
  <2>4. x \in Nat \X D /\ x[2] = f[n - 1]
    <3> HIDE DEF D
    <3> QED BY <2>1, <2>3
  <2>5. F[x] = TopoStep(f[n - 1])
    <3> HIDE DEF D
    <3> QED BY <2>2, <2>4
  <2>6. f[n] = F[x]
    <3> HIDE DEF F, D, d0
    <3> QED BY <1>4, <2>3 DEF Iterates
  <2> QED BY <2>2, <2>5, <2>6
<1>6. \A n \in 0..N : TopoSoFar(n, f[n])
  <2> DEFINE T == {n \in Nat : TopoSoFar(n, f[n])}
  <2>1. 0 \in T
    <3> HIDE DEF F, D, d0
    <3> QED BY <1>2, <1>4 DEF Iterates
  <2>2. ASSUME NEW n \in 0..(N - 1), n \in T PROVE n + 1 \in T
    <3>1. n + 1 \in 1..N /\ (n + 1) - 1 = n /\ n + 1 \in Nat
      OBVIOUS
    <3>2. TopoSoFar(n + 1, f[n + 1])
      BY <1>5, <2>2, <3>1
    <3> QED BY <3>1, <3>2
  <2>3. 0..N \subseteq T
    <3> HIDE DEF T
    <3> QED BY <2>1, <2>2, InductionUpTo
  <2> QED BY <2>3
<1>7. f = Body(f)
  <2>1. f[0] = d0 /\ f \in [0..N -> D]
    <3> HIDE DEF F, D, d0
    <3> QED BY <1>4 DEF Iterates
  <2>2. ASSUME NEW n \in 1..N PROVE f[n] = TopoStep(f[n - 1])
    <3>1. n - 1 \in 0..N
      OBVIOUS
    <3> QED BY <1>5, <1>6, <3>1
  <2> HIDE DEF d0, D
  <2> QED BY <2>1, <2>2
<1>8. \E g : g = Body(g)
  BY <1>7
<1> DEFINE r == CHOOSE g : g = Body(g)
<1>9. r = Body(r)
  BY <1>8, Zenon
<1>10. TopoSort = r[N]
  BY <1>0 DEF TopoSort, TopoStep
<1> HIDE DEF r
<1>11. ASSUME NEW n \in 0..N PROVE r[n] = IF n = 0 THEN d0 ELSE TopoStep(r[n - 1])
  <2> HIDE DEF d0
  <2>1. Body(r)[n] = IF n = 0 THEN d0 ELSE TopoStep(r[n - 1])
    OBVIOUS
  <2>2. r[n] = Body(r)[n]
    <3> HIDE DEF Body
    <3> QED BY <1>9
  <2> HIDE DEF Body
  <2> QED BY <2>1, <2>2
<1>12. \A n \in 0..N : TopoSoFar(n, r[n])
  <2> DEFINE T == {n \in Nat : TopoSoFar(n, r[n])}
  <2>1. 0 \in T
    <3>1. 0 \in 0..N
      OBVIOUS
    <3> HIDE DEF d0
    <3> QED BY <1>2, <1>11, <3>1
  <2>2. ASSUME NEW n \in 0..(N - 1), n \in T PROVE n + 1 \in T
    <3>1. n + 1 \in 0..N /\ n + 1 # 0 /\ (n + 1) - 1 = n /\ n + 1 \in Nat /\ n < Cardinality(Ops) /\ n \in Nat
      BY <1>0
    <3>2. TopoSoFar(n + 1, TopoStep(r[n]))
      BY <2>2, <3>1, TopoStepKeeps
    <3> HIDE DEF d0
    <3>3. r[n + 1] = TopoStep(r[n])
      BY <1>11, <3>1
    <3> QED BY <3>1, <3>2, <3>3
  <2>3. 0..N \subseteq T
    <3> HIDE DEF T
    <3> QED BY <2>1, <2>2, InductionUpTo
  <2> QED BY <2>3
<1>13. N \in 0..N
  OBVIOUS
<1> QED BY <1>0, <1>10, <1>12, <1>13

(* The positions in that order tell the ops apart, and those of the ops an *)
(* op reads from are lower.                                                *)
Positioned ==
  /\ \A o \in Ops : TopoPosition(o) \in 1..Cardinality(Ops)
  /\ Cardinality(Ops) \in Nat
  /\ \A o, u \in Ops : TopoPosition(o) = TopoPosition(u) => o = u
  /\ \A o \in Ops : \A u \in Producers(o) : TopoPosition(u) < TopoPosition(o)

LEMMA TopoPositions ==
  ASSUME prob \in Problems
  PROVE  Positioned
<1>1. PICK q : q = TopoSort
  OBVIOUS
<1>2. TopoSoFar(Cardinality(Ops), q)
  BY <1>1, TopoEnds
<1>3. /\ Lists(q, Members(q)) /\ Members(q) \subseteq Ops /\ Len(q) = Cardinality(Ops)
      /\ DOMAIN q \subseteq Nat /\ Len(q) \in Nat /\ DOMAIN q = 1..Len(q)
  <2>1. q \in Seq(Members(q))
    BY <1>2 DEF TopoSoFar, Lists
  <2> QED BY <1>2, <2>1 DEF TopoSoFar
<1>4. Members(q) = Ops
  <2>1. IsFiniteSet(Members(q)) /\ IsFiniteSet(Ops)
    BY <1>3, OpsAssumption, FS_Subset
  <2>2. Cardinality(Members(q)) = Cardinality(Ops)
    BY <1>3, <2>1, ListLength
  <2> QED BY <1>3, <2>1, <2>2, FS_Subset
<1>5. ASSUME NEW o \in Ops PROVE TopoPosition(o) \in DOMAIN q /\ q[TopoPosition(o)] = o
  <2>1. \E i \in DOMAIN q : q[i] = o
    BY <1>4 DEF Members
  <2> QED BY <1>1, <2>1 DEF TopoPosition
<1>6. ASSUME NEW o \in Ops, NEW u \in Producers(o) PROVE TopoPosition(u) < TopoPosition(o)
  <2>1. PICK i \in DOMAIN q : i = TopoPosition(o) /\ q[i] = o
    BY <1>5
  <2>2. u \in FirstOf(q, i - 1)
    BY <1>2, <1>6, <2>1 DEF TopoSoFar
  <2>3. PICK j \in DOMAIN q : j \in 1..(i - 1) /\ q[j] = u
    BY <2>2 DEF FirstOf
  <2>4. u \in Ops
    BY DEF Producers
  <2>5. j = TopoPosition(u)
    BY <1>3, <1>5, <2>3, <2>4 DEF Lists
  <2> QED BY <1>3, <2>1, <2>3, <2>5
<1> QED BY <1>3, <1>5, <1>6 DEF Positioned

LEMMA ByPositionLists ==
  ASSUME prob \in Problems, NEW S \in SUBSET Ops
  PROVE  Lists(ByPosition(S), S)
<1>1. Positioned
  BY TopoPositions
<1>2. IsFiniteSet(S)
  BY OpsAssumption, FS_Subset
<1>3. PICK rank : rank = [o \in S |-> TopoPosition(o)]
  OBVIOUS
<1>4. rank \in [S -> Int] /\ \A g, h \in S : rank[g] = rank[h] => g = h
  BY <1>1, <1>3 DEF Positioned
<1> DEFINE a(i) == CHOOSE o \in S : Cardinality({u \in S : TopoPosition(u) < TopoPosition(o)}) = i - 1
           b(i) == CHOOSE o \in S : Cardinality({u \in S : rank[u] < rank[o]}) = i - 1
<1>5. \A o \in S : {u \in S : TopoPosition(u) < TopoPosition(o)} = {u \in S : rank[u] < rank[o]}
  BY <1>3
<1>6. \A i : a(i) = b(i)
  BY <1>5
<1>7. ByPosition(S) = [i \in 1..Cardinality(S) |-> a(i)]
  BY DEF ByPosition
<1>8. Ranked(S, rank) = [i \in 1..Cardinality(S) |-> b(i)]
  BY DEF Ranked
<1>9. Ranked(S, rank) = ByPosition(S)
  <2> HIDE DEF a, b
  <2> QED BY <1>6, <1>7, <1>8
<1> QED BY <1>2, <1>4, <1>9, RankedLists-----------------------------------------------------------------------------
(* The depth-first post-order.                                             *)

Entries(S) == [op : S, expanded : BOOLEAN]

Walks(S) == [stack : Seq(Entries(S)), visited : SUBSET S, order : Seq(S)]

(* Every op of the order comes after those of S whose results it reads.    *)
Ordered(order, S) ==
  /\ Members(order) \subseteq S
  /\ Lists(order, Members(order))
  /\ \A i \in DOMAIN order : Preds(order[i], S) \subseteq FirstOf(order, i - 1)

(* An op is expanded while its predecessors are taken: it is visited and   *)
(* not yet in the order; the entries above it are of ops it depends on,    *)
(* and those among them that it waits for are all there.                   *)
Nested(stack, visited, order) ==
  \A l \in 1..Len(stack) : stack[l].expanded =>
    /\ stack[l].op \in visited \ Members(order)
    /\ \A k \in 1..(l - 1) : TopoPosition(stack[k].op) < TopoPosition(stack[l].op)

Awaited(stack, visited, S) ==
  \A l \in 1..Len(stack) : stack[l].expanded =>
    \A p \in Preds(stack[l].op, S) : p \in visited \/ \E k \in 1..(l - 1) : stack[k].op = p

Accounted(stack, visited, order) ==
  /\ Members(order) \subseteq visited
  /\ \A o \in visited \ Members(order) :
       \E l \in 1..Len(stack) : stack[l].expanded /\ stack[l].op = o

RootsMet(stack, visited, S) ==
  \A o \in Roots(S) : o \in visited \/ \E k \in 1..Len(stack) : stack[k].op = o

Walked(st, S) ==
  /\ st \in Walks(S)
  /\ Ordered(st.order, S)
  /\ Nested(st.stack, st.visited, st.order)
  /\ Awaited(st.stack, st.visited, S)
  /\ Accounted(st.stack, st.visited, st.order)
  /\ RootsMet(st.stack, st.visited, S)

LEMMA PredsBefore ==
  ASSUME prob \in Problems, NEW S \in SUBSET Ops, NEW o \in S, NEW p \in Preds(o, S)
  PROVE  /\ p \in S /\ p # o /\ TopoPosition(p) < TopoPosition(o)
         /\ TopoPosition(o) \in Nat /\ TopoPosition(p) \in Nat
<1>1. Positioned
  BY TopoPositions
<1>2. p \in Producers(o) /\ p \in S /\ p \in Ops /\ o \in Ops
  BY DEF Preds
<1>3. TopoPosition(p) < TopoPosition(o) /\ TopoPosition(p) \in Nat /\ TopoPosition(o) \in Nat
  BY <1>1, <1>2 DEF Positioned
<1> QED BY <1>2, <1>3

(* The top of the stack has been dealt with before: it goes.               *)
LEMMA PopVisited ==
  ASSUME prob \in Problems, NEW S \in SUBSET Ops, NEW st, Walked(st, S), st.stack # <<>>,
         ~st.stack[1].expanded, st.stack[1].op \in st.visited
  PROVE  Walked([st EXCEPT !.stack = Tail(st.stack)], S)
<1>1. PICK s, v, q : s = st.stack /\ v = st.visited /\ q = st.order
  OBVIOUS
<1>2. PICK r : r = Tail(s)
  OBVIOUS
<1>3. PICK su : su = [st EXCEPT !.stack = r]
  OBVIOUS
<1>4. s \in Seq(Entries(S)) /\ v \in SUBSET S /\ q \in Seq(S)
  BY <1>1 DEF Walked, Walks
<1>5. /\ r \in Seq(Entries(S)) /\ Len(s) \in Nat /\ Len(r) = Len(s) - 1
      /\ \A k \in 1..Len(r) : k + 1 \in 2..Len(s) /\ r[k] = s[k + 1]
      /\ \A k \in 2..Len(s) : k - 1 \in 1..Len(r) /\ r[k - 1] = s[k]
  BY <1>1, <1>2, <1>4
<1>6. su \in Walks(S) /\ su.stack = r /\ su.visited = v /\ su.order = q
  BY <1>1, <1>3, <1>5 DEF Walked, Walks
<1>7. /\ Ordered(q, S) /\ Nested(s, v, q) /\ Awaited(s, v, S) /\ Accounted(s, v, q)
      /\ RootsMet(s, v, S) /\ ~s[1].expanded /\ s[1].op \in v
  BY <1>1 DEF Walked
<1>8. Nested(r, v, q)
  <2> SUFFICES ASSUME NEW l \in 1..Len(r), r[l].expanded
               PROVE  /\ r[l].op \in v \ Members(q)
                      /\ \A k \in 1..(l - 1) : TopoPosition(r[k].op) < TopoPosition(r[l].op)
    BY DEF Nested
  <2>1. l + 1 \in 1..Len(s) /\ r[l] = s[l + 1]
    BY <1>5
  <2>2. \A k \in 1..(l - 1) : k + 1 \in 1..((l + 1) - 1) /\ r[k] = s[k + 1]
    BY <1>5
  <2> QED BY <1>7, <2>1, <2>2 DEF Nested
<1>9. Awaited(r, v, S)
  <2> SUFFICES ASSUME NEW l \in 1..Len(r), r[l].expanded, NEW p \in Preds(r[l].op, S), p \notin v
               PROVE  \E k \in 1..(l - 1) : r[k].op = p
    BY DEF Awaited
  <2>1. l + 1 \in 1..Len(s) /\ r[l] = s[l + 1]
    BY <1>5
  <2>2. PICK k \in 1..((l + 1) - 1) : s[k].op = p
    BY <1>7, <2>1 DEF Awaited
  <2>3. k # 1
    BY <1>7, <2>2
  <2>4. k - 1 \in 1..(l - 1) /\ r[k - 1] = s[k]
    BY <1>5, <2>1, <2>2, <2>3
  <2> QED BY <2>2, <2>4
<1>10. Accounted(r, v, q)
  <2> SUFFICES ASSUME NEW o \in v \ Members(q)
               PROVE  \E l \in 1..Len(r) : r[l].expanded /\ r[l].op = o
    BY <1>7 DEF Accounted
  <2>1. PICK l \in 1..Len(s) : s[l].expanded /\ s[l].op = o
    BY <1>7 DEF Accounted
  <2>2. l \in 2..Len(s)
    BY <1>5, <1>7, <2>1
  <2> QED BY <1>5, <2>1, <2>2
<1>11. RootsMet(r, v, S)
  <2> SUFFICES ASSUME NEW o \in Roots(S), o \notin v PROVE \E k \in 1..Len(r) : r[k].op = o
    BY DEF RootsMet
  <2>1. PICK l \in 1..Len(s) : s[l].op = o
    BY <1>7 DEF RootsMet
  <2>2. l \in 2..Len(s)
    BY <1>5, <1>7, <2>1
  <2> QED BY <1>5, <2>1, <2>2
<1>12. Walked(su, S)
  BY <1>6, <1>7, <1>8, <1>9, <1>10, <1>11 DEF Walked
<1> QED BY <1>1, <1>2, <1>3, <1>12
(* The top of the stack surfaces again: it is taken into the order.        *)
LEMMA PopExpanded ==
  ASSUME prob \in Problems, NEW S \in SUBSET Ops, NEW st, Walked(st, S), st.stack # <<>>,
         st.stack[1].expanded
  PROVE  Walked([st EXCEPT !.stack = Tail(st.stack),
                           !.order = Append(@, st.stack[1].op)], S)
<1>1. PICK s, v, q : s = st.stack /\ v = st.visited /\ q = st.order
  OBVIOUS
<1>2. PICK r, o, p : r = Tail(s) /\ o = s[1].op /\ p = Append(q, o)
  OBVIOUS
<1>3. PICK su : su = [st EXCEPT !.stack = r, !.order = p]
  OBVIOUS
<1>4. s \in Seq(Entries(S)) /\ v \in SUBSET S /\ q \in Seq(S) /\ s # <<>>
  BY <1>1 DEF Walked, Walks
<1>5. /\ r \in Seq(Entries(S)) /\ Len(s) \in Nat /\ Len(r) = Len(s) - 1
      /\ \A k \in 1..Len(r) : k + 1 \in 2..Len(s) /\ r[k] = s[k + 1]
      /\ \A k \in 2..Len(s) : k - 1 \in 1..Len(r) /\ r[k - 1] = s[k]
      /\ 1 \in 1..Len(s) /\ s[1] \in Entries(S) /\ \A k \in 1..Len(s) : s[k] \in Entries(S)
  BY <1>1, <1>2, <1>4
<1>6. o \in S /\ p \in Seq(S) /\ \A k \in 1..Len(s) : s[k].op \in S
  BY <1>2, <1>4, <1>5 DEF Entries
<1>7. su \in Walks(S) /\ su.stack = r /\ su.visited = v /\ su.order = p
  BY <1>1, <1>3, <1>5, <1>6 DEF Walked, Walks
<1>8. /\ Ordered(q, S) /\ Nested(s, v, q) /\ Awaited(s, v, S) /\ Accounted(s, v, q)
      /\ RootsMet(s, v, S) /\ s[1].expanded
  BY <1>1 DEF Walked
<1>9. o \in v \ Members(q)
  BY <1>2, <1>5, <1>8 DEF Nested
<1>10. PICK G : G = Members(q)
  OBVIOUS
<1>11. Extends(p, q, G, o)
  BY <1>2, <1>8, <1>9, <1>10, ListsAppend DEF Ordered
<1>12. Members(p) = Members(q) \cup {o}
  BY <1>10, <1>11 DEF Extends
<1>13. \A k \in 2..Len(s) : s[k].expanded =>
         TopoPosition(o) < TopoPosition(s[k].op)
  BY <1>2, <1>5, <1>8 DEF Nested
<1>14. TopoPosition(o) \in Nat /\ \A k \in 1..Len(s) : TopoPosition(s[k].op) \in Nat
  BY <1>6, TopoPositions DEF Positioned
<1>15. \A k \in 2..Len(s) : s[k].expanded => s[k].op # o
  BY <1>13, <1>14
<1>16. Preds(o, S) \subseteq Members(q)
  <2> SUFFICES ASSUME NEW u \in Preds(o, S), u \notin Members(q) PROVE FALSE
    OBVIOUS
  <2>1. u \in v
    <3>1. u \in v \/ \E k \in 1..(1 - 1) : s[k].op = u
      BY <1>2, <1>5, <1>8 DEF Awaited
    <3> QED BY <3>1
  <2>2. PICK l \in 1..Len(s) : s[l].expanded /\ s[l].op = u
    BY <1>8, <2>1 DEF Accounted
  <2>3. u # o /\ TopoPosition(u) < TopoPosition(o)
    BY <1>6, PredsBefore
  <2>4. l \in 2..Len(s)
    BY <1>2, <1>5, <2>2, <2>3
  <2> QED BY <1>13, <1>14, <2>2, <2>3, <2>4
<1>17. Ordered(p, S)
  <2>1. Members(p) \subseteq S
    BY <1>6, <1>8, <1>12 DEF Ordered
  <2>2. Lists(p, Members(p))
    BY <1>11 DEF Extends
  <2>3. ASSUME NEW i \in DOMAIN p PROVE Preds(p[i], S) \subseteq FirstOf(p, i - 1)
    <3>1. CASE i = Len(q) + 1
      BY <1>10, <1>11, <1>16, <3>1 DEF Extends
    <3>2. CASE i \in 1..Len(q)
      <4>1. i - 1 \in 0..Len(q) /\ p[i] = q[i] /\ i \in DOMAIN q
        BY <1>11, <3>2 DEF Extends
      <4>2. Preds(q[i], S) \subseteq FirstOf(q, i - 1)
        BY <1>8, <4>1 DEF Ordered
      <4> QED BY <1>11, <4>1, <4>2 DEF Extends
    <3> QED BY <1>11, <3>1, <3>2 DEF Extends
  <2> QED BY <2>1, <2>2, <2>3 DEF Ordered
<1>18. Nested(r, v, p)
  <2> SUFFICES ASSUME NEW l \in 1..Len(r), r[l].expanded
               PROVE  /\ r[l].op \in v \ Members(p)
                      /\ \A k \in 1..(l - 1) : TopoPosition(r[k].op) < TopoPosition(r[l].op)
    BY DEF Nested
  <2>1. l + 1 \in 1..Len(s) /\ l + 1 \in 2..Len(s) /\ r[l] = s[l + 1]
    BY <1>5
  <2>2. \A k \in 1..(l - 1) : k + 1 \in 1..((l + 1) - 1) /\ r[k] = s[k + 1]
    BY <1>5
  <2>3. r[l].op \in v \ Members(q) /\ r[l].op # o
    BY <1>8, <1>15, <2>1 DEF Nested
  <2> QED BY <1>8, <1>12, <2>1, <2>2, <2>3 DEF Nested
<1>19. Awaited(r, v, S)
  <2> SUFFICES ASSUME NEW l \in 1..Len(r), r[l].expanded, NEW u \in Preds(r[l].op, S), u \notin v
               PROVE  \E k \in 1..(l - 1) : r[k].op = u
    BY DEF Awaited
  <2>1. l + 1 \in 1..Len(s) /\ r[l] = s[l + 1]
    BY <1>5
  <2>2. PICK k \in 1..((l + 1) - 1) : s[k].op = u
    BY <1>8, <2>1 DEF Awaited
  <2>3. k # 1
    BY <1>2, <1>9, <2>2
  <2>4. k - 1 \in 1..(l - 1) /\ r[k - 1] = s[k]
    BY <1>5, <2>1, <2>2, <2>3
  <2> QED BY <2>2, <2>4
<1>20. Accounted(r, v, p)
  <2>1. Members(p) \subseteq v
    BY <1>8, <1>9, <1>12 DEF Accounted
  <2>2. ASSUME NEW u \in v \ Members(p)
        PROVE  \E l \in 1..Len(r) : r[l].expanded /\ r[l].op = u
    <3>1. u \in v \ Members(q) /\ u # o
      BY <1>12
    <3>2. PICK l \in 1..Len(s) : s[l].expanded /\ s[l].op = u
      BY <1>8, <3>1 DEF Accounted
    <3>3. l \in 2..Len(s)
      BY <1>2, <1>5, <3>1, <3>2
    <3> QED BY <1>5, <3>2, <3>3
  <2> QED BY <2>1, <2>2 DEF Accounted
<1>21. RootsMet(r, v, S)
  <2> SUFFICES ASSUME NEW u \in Roots(S), u \notin v PROVE \E k \in 1..Len(r) : r[k].op = u
    BY DEF RootsMet
  <2>1. PICK l \in 1..Len(s) : s[l].op = u
    BY <1>8 DEF RootsMet
  <2>2. l \in 2..Len(s)
    BY <1>2, <1>5, <1>9, <2>1
  <2> QED BY <1>5, <2>1, <2>2
<1>22. Walked(su, S)
  BY <1>7, <1>17, <1>18, <1>19, <1>20, <1>21 DEF Walked
<1>23. [st EXCEPT !.stack = Tail(st.stack), !.order = Append(@, st.stack[1].op)] = su
  BY <1>1, <1>2, <1>3
<1> QED BY <1>22, <1>23
LEMMA StackPushed ==
  ASSUME NEW E, NEW e \in Seq(E), NEW x \in E, NEW s \in Seq(E), s # <<>>,
         NEW u, u = e \o <<x>> \o Tail(s)
  PROVE  /\ u \in Seq(E) /\ Len(u) = Len(e) + Len(s) /\ Len(e) \in Nat /\ Len(s) \in Nat
         /\ \A k \in 1..Len(e) : u[k] = e[k]
         /\ u[Len(e) + 1] = x
         /\ \A k \in 2..Len(s) : u[Len(e) + k] = s[k]
<1>1. PICK r : r = Tail(s)
  OBVIOUS
<1>2. /\ r \in Seq(E) /\ Len(s) \in Nat \ {0} /\ Len(r) = Len(s) - 1
      /\ \A k \in 1..Len(r) : r[k] = s[k + 1]
  BY <1>1
<1>3. PICK d : d = e \o <<x>>
  OBVIOUS
<1>4. /\ d \in Seq(E) /\ Len(d) = Len(e) + 1 /\ Len(e) \in Nat
      /\ \A k \in 1..Len(e) : d[k] = e[k]
      /\ d[Len(e) + 1] = x
  <2>1. PICK y : y = <<x>>
    OBVIOUS
  <2>2. y \in Seq(E) /\ Len(y) = 1 /\ y[1] = x
    BY <2>1
  <2> QED BY <1>3, <2>1, <2>2
<1>5. u = d \o r
  BY <1>1, <1>3
<1>6. /\ u \in Seq(E) /\ Len(u) = Len(d) + Len(r)
      /\ \A k \in 1..Len(u) : u[k] = IF k <= Len(d) THEN d[k] ELSE r[k - Len(d)]
  <2>1. u \in Seq(E) /\ Len(u) = Len(d) + Len(r) /\ Len(d) \in Nat /\ Len(r) \in Nat
    BY <1>2, <1>4, <1>5
  <2>2. ASSUME NEW k \in 1..(Len(d) + Len(r))
        PROVE  u[k] = IF k <= Len(d) THEN d[k] ELSE r[k - Len(d)]
    <3>1. d \in Seq(E) /\ r \in Seq(E)
      BY <1>2, <1>4
    <3>2. k \in 1..(Len(d) + Len(r))
      OBVIOUS
    <3> QED BY ONLY <1>5, <3>1, <3>2
  <2> QED BY <2>1, <2>2
<1>7. Len(u) = Len(e) + Len(s)
  BY <1>2, <1>4, <1>6
<1>8. ASSUME NEW k \in 1..Len(e) PROVE u[k] = e[k]
  BY <1>2, <1>4, <1>6, <1>7
<1>9. u[Len(e) + 1] = x
  BY <1>2, <1>4, <1>6, <1>7
<1>10. ASSUME NEW k \in 2..Len(s) PROVE u[Len(e) + k] = s[k]
  <2>1. Len(e) + k \in 1..Len(u) /\ ~(Len(e) + k <= Len(d))
    BY <1>2, <1>4, <1>7
  <2>2. (Len(e) + k) - Len(d) = k - 1 /\ k - 1 \in 1..Len(r) /\ (k - 1) + 1 = k
    BY <1>2, <1>4
  <2> QED BY <1>2, <1>6, <2>1, <2>2
<1> QED BY <1>2, <1>4, <1>6, <1>7, <1>8, <1>9, <1>10

(* What goes on the stack above an op that is met for the first time.      *)
Above(o, visited, S) == ByPosition(Preds(o, S) \ (visited \cup {o}))

Pushed(o, visited, S) == [i \in DOMAIN Above(o, visited, S) |-> Entry(Above(o, visited, S)[i], FALSE)]

LEMMA PushedEntries ==
  ASSUME prob \in Problems, NEW S \in SUBSET Ops, NEW o \in S, NEW v \in SUBSET S,
         NEW e, e = Pushed(o, v, S)
  PROVE  /\ e \in Seq(Entries(S)) /\ Len(e) \in Nat /\ Len(e) <= Cardinality(S)
         /\ \A k \in 1..Len(e) : ~e[k].expanded /\ e[k].op \in Preds(o, S)
         /\ \A p \in Preds(o, S) \ v : \E k \in 1..Len(e) : e[k].op = p
<1>1. PICK G : G = Preds(o, S) \ (v \cup {o})
  OBVIOUS
<1>2. G \in SUBSET Ops /\ G \in SUBSET S
  BY <1>1 DEF Preds
<1>3. PICK a : a = ByPosition(G)
  OBVIOUS
<1>4. Lists(a, G)
  BY <1>2, <1>3, ByPositionLists
<1>5. IsFiniteSet(S) /\ IsFiniteSet(G) /\ Cardinality(G) <= Cardinality(S)
  <2>1. IsFiniteSet(S)
    BY OpsAssumption, FS_Subset
  <2> QED BY <1>2, <2>1, FS_Subset
<1>6. Len(a) = Cardinality(G)
  BY <1>4, <1>5, ListLength
<1>7. a \in Seq(G) /\ Len(a) \in Nat /\ DOMAIN a = 1..Len(a)
  BY <1>4 DEF Lists
<1>8. e = [i \in 1..Len(a) |-> Entry(a[i], FALSE)]
  BY <1>1, <1>3, <1>7 DEF Pushed, Above
<1>9. \A i \in 1..Len(a) : a[i] \in G /\ Entry(a[i], FALSE) \in Entries(S)
  BY <1>2, <1>7 DEF Entry, Entries
<1>10. e \in Seq(Entries(S)) /\ Len(e) = Len(a)
  <2>1. PICK n \in Nat : n = Len(a)
    BY <1>7
  <2>2. e \in [1..n -> Entries(S)]
    BY <1>8, <1>9, <2>1
  <2>3. e \in Seq(Entries(S)) /\ Len(e) = n
    BY <2>2
  <2> QED BY <2>1, <2>3
<1>11. \A k \in 1..Len(e) : ~e[k].expanded /\ e[k].op = a[k] /\ e[k].op \in G
  BY <1>8, <1>9, <1>10 DEF Entry
<1>12. ASSUME NEW p \in Preds(o, S) \ v PROVE \E k \in 1..Len(e) : e[k].op = p
  <2>1. p \in G
    BY <1>1, PredsBefore
  <2>2. PICK k \in DOMAIN a : a[k] = p
    BY <1>4, <2>1 DEF Lists, Members
  <2> QED BY <1>7, <1>10, <1>11, <2>2
<1> QED BY <1>1, <1>5, <1>6, <1>7, <1>10, <1>11, <1>12

(* The top of the stack is met for the first time: it is put back under    *)
(* the ops it waits for.                                                   *)
LEMMA PopNew ==
  ASSUME prob \in Problems, NEW S \in SUBSET Ops, NEW st, Walked(st, S), st.stack # <<>>,
         ~st.stack[1].expanded, st.stack[1].op \notin st.visited
  PROVE  Walked([st EXCEPT !.stack = Pushed(st.stack[1].op, st.visited, S)
                                     \o <<Entry(st.stack[1].op, TRUE)>> \o Tail(st.stack),
                           !.visited = @ \cup {st.stack[1].op}], S)
<1>1. PICK s, v, q : s = st.stack /\ v = st.visited /\ q = st.order
  OBVIOUS
<1>2. PICK o, w : o = s[1].op /\ w = v \cup {s[1].op}
  OBVIOUS
<1>3. PICK e : e = Pushed(o, v, S)
  OBVIOUS
<1>4. PICK x : x = Entry(o, TRUE)
  OBVIOUS
<1>5. PICK u : u = e \o <<x>> \o Tail(s)
  OBVIOUS
<1>6. PICK su : su = [st EXCEPT !.stack = u, !.visited = w]
  OBVIOUS
<1>7. s \in Seq(Entries(S)) /\ v \in SUBSET S /\ q \in Seq(S) /\ s # <<>>
  BY <1>1 DEF Walked, Walks
<1>8. /\ Len(s) \in Nat /\ 1 \in 1..Len(s) /\ \A k \in 1..Len(s) : s[k] \in Entries(S)
  BY <1>7
<1>9. o \in S /\ w \in SUBSET S /\ \A k \in 1..Len(s) : s[k].op \in S
  BY <1>2, <1>7, <1>8 DEF Entries
<1>10. x \in Entries(S) /\ x.expanded /\ x.op = o
  BY <1>4, <1>9 DEF Entry, Entries
<1>11. PICK m \in Nat : m = Len(e)
  BY <1>3, <1>7, <1>9, PushedEntries
<1>12. /\ e \in Seq(Entries(S))
       /\ \A k \in 1..m : ~e[k].expanded /\ e[k].op \in Preds(o, S)
       /\ \A p \in Preds(o, S) \ v : \E k \in 1..m : e[k].op = p
  BY <1>3, <1>7, <1>9, <1>11, PushedEntries
<1>13. /\ u \in Seq(Entries(S)) /\ Len(u) = m + Len(s)
       /\ \A k \in 1..m : u[k] = e[k]
       /\ u[m + 1] = x
       /\ \A k \in 2..Len(s) : u[m + k] = s[k]
  BY <1>5, <1>7, <1>10, <1>11, <1>12, StackPushed
<1>14. su \in Walks(S) /\ su.stack = u /\ su.visited = w /\ su.order = q
  BY <1>1, <1>6, <1>9, <1>13 DEF Walked, Walks
<1>15. /\ Ordered(q, S) /\ Nested(s, v, q) /\ Awaited(s, v, S) /\ Accounted(s, v, q)
       /\ RootsMet(s, v, S) /\ ~s[1].expanded /\ o \notin v /\ w = v \cup {o}
  BY <1>1, <1>2 DEF Walked
<1>16. ASSUME NEW l \in 1..Len(u)
       PROVE  l \in 1..m \/ l = m + 1 \/ (l - m \in 2..Len(s) /\ u[l] = s[l - m])
  <2>1. CASE l <= m + 1
    BY <1>11, <2>1
  <2>2. CASE ~(l <= m + 1)
    <3>1. l - m \in 2..Len(s) /\ m + (l - m) = l
      BY <1>8, <1>11, <1>13, <2>2
    <3> QED BY <1>13, <3>1
  <2> QED BY <2>1, <2>2
<1>17. TopoPosition(o) \in Nat /\ \A k \in 1..Len(s) : TopoPosition(s[k].op) \in Nat
  BY <1>9, TopoPositions DEF Positioned
<1>18. \A k \in 1..m : TopoPosition(u[k].op) \in Nat /\ TopoPosition(u[k].op) < TopoPosition(o)
  BY <1>9, <1>12, <1>13, PredsBefore
<1>19. Nested(u, w, q)
  <2> SUFFICES ASSUME NEW l \in 1..Len(u), u[l].expanded
               PROVE  /\ u[l].op \in w \ Members(q)
                      /\ \A k \in 1..(l - 1) : TopoPosition(u[k].op) < TopoPosition(u[l].op)
    BY DEF Nested
  <2>1. l \notin 1..m
    BY <1>12, <1>13
  <2>2. CASE l = m + 1
    <3>1. o \in w \ Members(q)
      BY <1>15 DEF Accounted
    <3>2. l - 1 = m
      BY <2>2
    <3> QED BY <1>10, <1>13, <1>18, <2>2, <3>1, <3>2
  <2>3. CASE l - m \in 2..Len(s) /\ u[l] = s[l - m]
    <3>1. PICK j \in 2..Len(s) : j = l - m /\ u[l] = s[j] /\ j \in 1..Len(s) /\ s[j].expanded
      BY <2>3
    <3>2. s[j].op \in v \ Members(q) /\ \A k \in 1..(j - 1) : TopoPosition(s[k].op) < TopoPosition(s[j].op)
      BY <1>15, <3>1 DEF Nested
    <3>3. TopoPosition(o) < TopoPosition(s[j].op)
      <4>1. 1 \in 1..(j - 1)
        BY <3>1
      <4> QED BY <1>2, <3>2, <4>1
    <3>4. ASSUME NEW k \in 1..(l - 1) PROVE TopoPosition(u[k].op) < TopoPosition(s[j].op)
      <4>1. k \in 1..Len(u)
        BY <1>8, <1>11, <1>13
      <4>2. CASE k \in 1..m
        BY <1>17, <1>18, <3>1, <3>3, <4>2
      <4>3. CASE k = m + 1
        BY <1>10, <1>13, <3>3, <4>3
      <4>4. CASE k - m \in 2..Len(s) /\ u[k] = s[k - m]
        <5>1. k - m \in 1..(j - 1)
          BY <1>11, <3>1, <4>4
        <5> QED BY <3>2, <4>4, <5>1
      <4> QED BY <1>16, <4>1, <4>2, <4>3, <4>4
    <3> QED BY <1>15, <3>1, <3>2, <3>4
  <2> QED BY <1>16, <2>1, <2>2, <2>3
<1>20. Awaited(u, w, S)
  <2> SUFFICES ASSUME NEW l \in 1..Len(u), u[l].expanded, NEW p \in Preds(u[l].op, S), p \notin w
               PROVE  \E k \in 1..(l - 1) : u[k].op = p
    BY DEF Awaited
  <2>1. l \notin 1..m
    BY <1>12, <1>13
  <2>2. CASE l = m + 1
    <3>1. p \in Preds(o, S) \ v
      BY <1>10, <1>13, <1>15, <2>2
    <3>2. PICK k \in 1..m : e[k].op = p
      BY <1>12, <3>1
    <3> QED BY <1>13, <2>2, <3>2
  <2>3. CASE l - m \in 2..Len(s) /\ u[l] = s[l - m]
    <3>1. PICK j \in 2..Len(s) : j = l - m /\ u[l] = s[j] /\ j \in 1..Len(s) /\ s[j].expanded
      BY <2>3
    <3>2. PICK k \in 1..(j - 1) : s[k].op = p
      BY <1>15, <3>1 DEF Awaited
    <3>3. k # 1
      BY <1>2, <1>15, <3>2
    <3>4. k \in 2..Len(s) /\ m + k \in 1..(l - 1) /\ u[m + k] = s[k]
      <4>1. k \in 2..Len(s) /\ m + k \in 1..(l - 1)
        BY <1>8, <1>11, <3>1, <3>2, <3>3
      <4> QED BY <1>13, <4>1
    <3> QED BY <3>2, <3>4
  <2> QED BY <1>16, <2>1, <2>2, <2>3
<1>21. Accounted(u, w, q)
  <2>1. Members(q) \subseteq w
    BY <1>15 DEF Accounted
  <2>2. ASSUME NEW p \in w \ Members(q)
        PROVE  \E l \in 1..Len(u) : u[l].expanded /\ u[l].op = p
    <3>1. CASE p = o
      <4>1. m + 1 \in 1..Len(u)
        BY <1>8, <1>11, <1>13
      <4> QED BY <1>10, <1>13, <3>1, <4>1
    <3>2. CASE p # o
      <4>1. PICK l \in 1..Len(s) : s[l].expanded /\ s[l].op = p
        BY <1>15, <2>2, <3>2 DEF Accounted
      <4>2. l \in 2..Len(s) /\ m + l \in 1..Len(u)
        BY <1>8, <1>11, <1>13, <1>15, <4>1
      <4> QED BY <1>13, <4>1, <4>2
    <3> QED BY <3>1, <3>2
  <2> QED BY <2>1, <2>2 DEF Accounted
<1>22. RootsMet(u, w, S)
  <2> SUFFICES ASSUME NEW p \in Roots(S), p \notin w PROVE \E k \in 1..Len(u) : u[k].op = p
    BY DEF RootsMet
  <2>1. PICK l \in 1..Len(s) : s[l].op = p
    BY <1>15 DEF RootsMet
  <2>2. l \in 2..Len(s) /\ m + l \in 1..Len(u)
    BY <1>2, <1>8, <1>11, <1>13, <1>15, <2>1
  <2> QED BY <1>13, <2>1, <2>2
<1>23. Walked(su, S)
  BY <1>14, <1>15, <1>19, <1>20, <1>21, <1>22 DEF Walked
<1>24. su = [st EXCEPT !.stack = Pushed(st.stack[1].op, st.visited, S)
                                 \o <<Entry(st.stack[1].op, TRUE)>> \o Tail(st.stack),
                       !.visited = @ \cup {st.stack[1].op}]
  BY <1>1, <1>2, <1>3, <1>4, <1>5, <1>6
<1> QED BY <1>23, <1>24
(* How many more turns the stack can take.                                 *)
Left(st, S) ==
  Len(st.stack) + (Cardinality(S) - Cardinality(st.visited)) * (Cardinality(S) + 1)

Turns(S) == Cardinality(S) * (Cardinality(S) + 2)

WalkStep(st, S) == IF st.stack = <<>> THEN st ELSE Popped(st, S)

WalkSoFar(n, st, S) == Walked(st, S) /\ (st.stack = <<>> \/ Left(st, S) + n <= Turns(S))

LEMMA LeftCounts ==
  ASSUME NEW S \in SUBSET Ops, NEW st, Walked(st, S)
  PROVE  /\ Cardinality(S) \in Nat /\ IsFiniteSet(S)
         /\ Cardinality(st.visited) \in Nat /\ IsFiniteSet(st.visited)
         /\ Cardinality(st.visited) <= Cardinality(S)
         /\ Len(st.stack) \in Nat
         /\ Left(st, S) \in Nat /\ Left(st, S) >= Len(st.stack)
<1>1. st.visited \in SUBSET S /\ st.stack \in Seq(Entries(S))
  BY DEF Walked, Walks
<1>2. IsFiniteSet(S)
  BY OpsAssumption, FS_Subset
<1>3. PICK c \in Nat : c = Cardinality(S)
  BY <1>2, FS_CardinalityType
<1>4. IsFiniteSet(st.visited) /\ Cardinality(st.visited) <= Cardinality(S)
  BY <1>1, <1>2, FS_Subset
<1>5. PICK a \in Nat : a = Cardinality(st.visited) /\ a <= c
  BY <1>3, <1>4, FS_CardinalityType
<1>6. PICK d \in Nat : d = c - a
  BY <1>5
<1>7. PICK k \in Nat : k = c + 1
  OBVIOUS
<1>8. d * k \in Nat
  OBVIOUS
<1>9. Len(st.stack) \in Nat
  BY <1>1
<1>10. Left(st, S) = Len(st.stack) + d * k
  BY <1>3, <1>5, <1>6, <1>7 DEF Left
<1>11. PICK e \in Nat : e = d * k
  BY <1>8
<1>12. Left(st, S) = Len(st.stack) + e
  BY <1>10, <1>11
<1>13. Left(st, S) \in Nat /\ Left(st, S) >= Len(st.stack)
  <2>1. PICK z \in Nat : z = Len(st.stack)
    BY <1>9
  <2>2. z + e \in Nat /\ z + e >= z
    OBVIOUS
  <2> QED BY <1>12, <2>1, <2>2
<1>14. Cardinality(st.visited) \in Nat /\ Cardinality(S) \in Nat
  BY <1>3, <1>5
<1> QED BY <1>2, <1>4, <1>9, <1>13, <1>14

LEMMA WalkStepKeeps ==
  ASSUME prob \in Problems, NEW S \in SUBSET Ops, NEW n \in Nat, NEW st, WalkSoFar(n, st, S)
  PROVE  WalkSoFar(n + 1, WalkStep(st, S), S)
<1>1. Walked(st, S)
  BY DEF WalkSoFar
<1>2. CASE st.stack = <<>>
  BY <1>1, <1>2 DEF WalkSoFar, WalkStep
<1>3. CASE st.stack # <<>>
  <2>1. PICK o, v, s : o = st.stack[1].op /\ v = st.visited /\ s = st.stack
    OBVIOUS
  <2>2. PICK N : N = Turns(S)
    OBVIOUS
  <2>3. s \in Seq(Entries(S)) /\ v \in SUBSET S /\ st \in Walks(S) /\ s # <<>> /\ Len(s) \in Nat
    BY <1>1, <1>3, <2>1 DEF Walked, Walks
  <2>4. o \in S
    <3>1. s[1] \in Entries(S)
      BY <2>3
    <3> QED BY <2>1, <3>1 DEF Entries
  <2>5. PICK su : su = Popped(st, S)
    OBVIOUS
  <2>6. WalkStep(st, S) = su
    BY <1>3, <2>5 DEF WalkStep
  <2>7. PICK c \in Nat : c = Cardinality(S)
    BY <1>1, LeftCounts
  <2>8. N \in Nat /\ Left(st, S) \in Nat /\ Left(st, S) + n <= N
    <3>1. N = c * (c + 2)
      BY <2>2, <2>7 DEF Turns
    <3>2. c * (c + 2) \in Nat
      OBVIOUS
    <3> QED BY <1>1, <1>3, <2>2, <3>1, <3>2, LeftCounts DEF WalkSoFar
  <2>9. Len(Tail(s)) = Len(s) - 1
    BY <2>3
  <2>10. ASSUME Walked(su, S), su.visited = v, su.stack = Tail(s)
         PROVE  WalkSoFar(n + 1, su, S)
    <3>1. Left(su, S) = Left(st, S) - 1
      <4>1. PICK z : z = (Cardinality(S) - Cardinality(v)) * (Cardinality(S) + 1)
        OBVIOUS
      <4>2. Left(st, S) = Len(s) + z /\ Left(su, S) = Len(Tail(s)) + z
        BY <2>1, <2>10, <4>1 DEF Left
      <4>3. z \in Int
        <5>1. PICK a \in Nat : a = Cardinality(v)
          BY <1>1, <2>1, LeftCounts
        <5>2. z = (c - a) * (c + 1)
          BY <2>7, <4>1, <5>1
        <5> QED BY <5>2
      <4> QED BY <2>3, <2>9, <4>2, <4>3
    <3> QED BY <2>2, <2>8, <2>10, <3>1 DEF WalkSoFar
  <2>11. CASE st.stack[1].expanded
    <3>1. su = [st EXCEPT !.stack = Tail(st.stack), !.order = Append(@, st.stack[1].op)]
      BY <2>5, <2>11 DEF Popped
    <3>2. su.visited = v /\ su.stack = Tail(s)
      BY <2>1, <2>3, <3>1 DEF Walks
    <3>3. Walked(su, S)
      BY <1>1, <1>3, <2>11, <3>1, PopExpanded
    <3> QED BY <2>6, <2>10, <3>2, <3>3
  <2>12. CASE ~st.stack[1].expanded /\ o \in v
    <3>1. su = [st EXCEPT !.stack = Tail(st.stack)]
      BY <2>1, <2>5, <2>12 DEF Popped
    <3>2. su.visited = v /\ su.stack = Tail(s)
      BY <2>1, <2>3, <3>1 DEF Walks
    <3>3. Walked(su, S)
      BY <1>1, <1>3, <2>1, <2>12, <3>1, PopVisited
    <3> QED BY <2>6, <2>10, <3>2, <3>3
  <2>13. CASE ~st.stack[1].expanded /\ o \notin v
    <3>1. PICK e : e = Pushed(o, v, S)
      OBVIOUS
    <3>2. e \in Seq(Entries(S)) /\ Len(e) \in Nat /\ Len(e) <= c
      BY <2>3, <2>4, <2>7, <3>1, PushedEntries
    <3>3. su = [st EXCEPT !.stack = e \o <<Entry(o, TRUE)>> \o Tail(st.stack),
                          !.visited = @ \cup {o}]
      BY <2>1, <2>5, <2>13, <3>1 DEF Popped, Pushed, Above
    <3>4. Walked(su, S)
      BY <1>1, <1>3, <2>1, <2>13, <3>1, <3>3, PopNew
    <3>5. PICK x : x = Entry(o, TRUE)
      OBVIOUS
    <3>6. x \in Entries(S)
      BY <2>4, <3>5 DEF Entry, Entries
    <3>7. PICK u : u = e \o <<x>> \o Tail(s)
      OBVIOUS
    <3>8. Len(u) = Len(e) + Len(s)
      BY <2>3, <3>2, <3>6, <3>7, StackPushed
    <3>9. su.stack = u /\ su.visited = v \cup {o}
      BY <2>1, <2>3, <3>3, <3>5, <3>7 DEF Walks
    <3>10. PICK a \in Nat : a = Cardinality(v) /\ IsFiniteSet(v)
      BY <1>1, <2>1, LeftCounts
    <3>11. Cardinality(v \cup {o}) = a + 1
      BY <2>13, <3>10, FS_AddElement
    <3>12. Left(st, S) = Len(s) + (c - a) * (c + 1)
      BY <2>1, <2>7, <3>10 DEF Left
    <3>13. Left(su, S) = Len(e) + Len(s) + (c - (a + 1)) * (c + 1)
      BY <2>7, <3>8, <3>9, <3>11 DEF Left
    <3>14. (c - (a + 1)) * (c + 1) = (c - a) * (c + 1) - (c + 1) /\ (c - a) * (c + 1) \in Int
      OBVIOUS
    <3>15. Left(su, S) <= Left(st, S) - 1
      BY <2>3, <3>2, <3>12, <3>13, <3>14
    <3>16. Left(su, S) \in Nat
      BY <3>4, LeftCounts
    <3>17. Left(su, S) + (n + 1) <= N
      BY <2>8, <3>15, <3>16
    <3> QED BY <2>2, <2>6, <3>4, <3>17 DEF WalkSoFar
  <2> QED BY <2>11, <2>12, <2>13
<1> QED BY <1>2, <1>3

FirstWalk(S) ==
  LET roots == ByPosition(Roots(S))
  IN  [stack |-> [i \in DOMAIN roots |-> Entry(roots[i], FALSE)], visited |-> {}, order |-> <<>>]

LEMMA WalkStarts ==
  ASSUME prob \in Problems, NEW S \in SUBSET Ops
  PROVE  WalkSoFar(0, FirstWalk(S), S)
<1>1. PICK R : R = Roots(S)
  OBVIOUS
<1>2. R \in SUBSET S /\ R \in SUBSET Ops
  BY <1>1 DEF Roots
<1>3. PICK a : a = ByPosition(R)
  OBVIOUS
<1>4. Lists(a, R)
  BY <1>2, <1>3, ByPositionLists
<1>5. IsFiniteSet(S) /\ IsFiniteSet(R) /\ Cardinality(R) <= Cardinality(S)
  <2>1. IsFiniteSet(S)
    BY OpsAssumption, FS_Subset
  <2> QED BY <1>2, <2>1, FS_Subset
<1>6. PICK n \in Nat : n = Len(a) /\ n = Cardinality(R) /\ DOMAIN a = 1..n /\ a \in [1..n -> R]
  BY <1>4, <1>5, ListLength DEF Lists
<1>7. PICK s : s = [i \in 1..n |-> Entry(a[i], FALSE)]
  OBVIOUS
<1>8. \A i \in 1..n : a[i] \in R /\ Entry(a[i], FALSE) \in Entries(S)
  BY <1>2, <1>6 DEF Entry, Entries
<1>9. s \in Seq(Entries(S)) /\ Len(s) = n /\ \A i \in 1..n : ~s[i].expanded /\ s[i].op = a[i]
  <2>1. s \in [1..n -> Entries(S)]
    BY <1>7, <1>8
  <2>2. s \in Seq(Entries(S)) /\ Len(s) = n
    BY <2>1
  <2> QED BY <1>7, <1>8, <2>2 DEF Entry
<1>10. PICK st : st = [stack |-> s, visited |-> {}, order |-> <<>>]
  OBVIOUS
<1>11. FirstWalk(S) = st
  BY <1>1, <1>3, <1>6, <1>7, <1>10 DEF FirstWalk
<1>12. /\ st \in Walks(S) /\ st.stack = s /\ st.visited = {} /\ st.order = <<>>
       /\ <<>> \in Seq({}) /\ DOMAIN <<>> = {}
  BY <1>9, <1>10 DEF Walks
<1>13. Members(<<>>) = {}
  BY <1>12 DEF Members
<1>14. Ordered(<<>>, S)
  BY <1>12, <1>13 DEF Ordered, Lists
<1>15. Nested(s, {}, <<>>) /\ Awaited(s, {}, S) /\ Accounted(s, {}, <<>>)
  BY <1>9, <1>13 DEF Nested, Awaited, Accounted
<1>16. RootsMet(s, {}, S)
  <2> SUFFICES ASSUME NEW o \in R PROVE \E k \in 1..n : s[k].op = o
    BY <1>1, <1>9 DEF RootsMet
  <2>1. PICK k \in 1..n : a[k] = o
    BY <1>4, <1>6 DEF Lists, Members
  <2> QED BY <1>9, <2>1
<1>17. Walked(st, S)
  BY <1>12, <1>14, <1>15, <1>16 DEF Walked
<1>18. Left(st, S) + 0 <= Turns(S)
  <2>1. PICK c \in Nat : c = Cardinality(S) /\ n <= c
    BY <1>5, <1>6, FS_CardinalityType
  <2>2. Cardinality({}) = 0
    BY FS_EmptySet
  <2>3. Left(st, S) = n + (c - 0) * (c + 1)
    BY <1>9, <1>12, <2>1, <2>2 DEF Left
  <2>4. Turns(S) = c * (c + 2)
    BY <2>1 DEF Turns
  <2>5. (c - 0) * (c + 1) = c * c + c /\ c * (c + 2) = c * c + 2 * c /\ c * c \in Nat
    OBVIOUS
  <2> QED BY <2>1, <2>3, <2>4, <2>5
<1> QED BY <1>11, <1>17, <1>18 DEF WalkSoFar
LEMMA WalkEnds ==
  ASSUME prob \in Problems, NEW S \in SUBSET Ops
  PROVE  \E st : /\ WalkSoFar(Turns(S), st, S)
                 /\ DfsPostOrder(S) = st.order
<1>0. PICK N \in Nat : N = Turns(S)
  <2>1. Cardinality(S) \in Nat
    BY OpsAssumption, FS_Subset, FS_CardinalityType
  <2>2. Turns(S) \in Nat
    BY <2>1 DEF Turns
  <2> QED BY <2>2
<1> DEFINE d0 == FirstWalk(S)
           D == Walks(S)
           F == [x \in Nat \X D |-> IF WalkStep(x[2], S) \in D THEN WalkStep(x[2], S) ELSE d0]
           Body(f) == [n \in 0..N |-> IF n = 0 THEN d0 ELSE WalkStep(f[n - 1], S)]
<1>1. ASSUME NEW n, NEW st, WalkSoFar(n, st, S) PROVE st \in D
  BY <1>1 DEF WalkSoFar, Walked
<1>2. d0 \in D /\ WalkSoFar(0, d0, S)
  BY <1>1, WalkStarts
<1>3. F \in [Nat \X D -> D]
  <2> HIDE DEF D, d0
  <2> QED BY <1>2
<1>4. PICK f : Iterates(f, N, D, d0, F)
  <2> HIDE DEF F, d0, D
  <2> QED BY <1>2, <1>3, IterationExists
<1>5. ASSUME NEW n \in 1..N, WalkSoFar(n - 1, f[n - 1], S)
      PROVE  f[n] = WalkStep(f[n - 1], S) /\ WalkSoFar(n, f[n], S)
  <2>1. n \in Nat /\ f[n - 1] \in D /\ n - 1 \in Nat /\ (n - 1) + 1 = n
    BY <1>1, <1>5
  <2>2. WalkSoFar(n, WalkStep(f[n - 1], S), S) /\ WalkStep(f[n - 1], S) \in D
    BY <1>1, <1>5, <2>1, WalkStepKeeps
  <2>3. PICK x : x = <<n, f[n - 1]>>
    OBVIOUS
  <2>4. x \in Nat \X D /\ x[2] = f[n - 1]
    <3> HIDE DEF D
    <3> QED BY <2>1, <2>3
  <2>5. F[x] = WalkStep(f[n - 1], S)
    <3> HIDE DEF D, d0
    <3> QED BY <2>2, <2>4
  <2>6. f[n] = F[x]
    <3> HIDE DEF F, D, d0
    <3> QED BY <1>4, <2>3 DEF Iterates
  <2> QED BY <2>2, <2>5, <2>6
<1>6. \A n \in 0..N : WalkSoFar(n, f[n], S)
  <2> DEFINE T == {n \in Nat : WalkSoFar(n, f[n], S)}
  <2>1. 0 \in T
    <3> HIDE DEF F, D, d0
    <3> QED BY <1>2, <1>4 DEF Iterates
  <2>2. ASSUME NEW n \in 0..(N - 1), n \in T PROVE n + 1 \in T
    <3>1. n + 1 \in 1..N /\ (n + 1) - 1 = n /\ n + 1 \in Nat
      OBVIOUS
    <3>2. WalkSoFar(n + 1, f[n + 1], S)
      BY <1>5, <2>2, <3>1
    <3> QED BY <3>1, <3>2
  <2>3. 0..N \subseteq T
    <3> HIDE DEF T
    <3> QED BY <2>1, <2>2, InductionUpTo
  <2> QED BY <2>3
<1>7. f = Body(f)
  <2>1. f[0] = d0 /\ f \in [0..N -> D]
    <3> HIDE DEF F, D, d0
    <3> QED BY <1>4 DEF Iterates
  <2>2. ASSUME NEW n \in 1..N PROVE f[n] = WalkStep(f[n - 1], S)
    <3>1. n - 1 \in 0..N
      OBVIOUS
    <3> QED BY <1>5, <1>6, <3>1
  <2> HIDE DEF d0, D
  <2> QED BY <2>1, <2>2
<1>8. \E g : g = Body(g)
  BY <1>7
<1> DEFINE r == CHOOSE g : g = Body(g)
<1>9. r = Body(r)
  BY <1>8, Zenon
<1>10. DfsPostOrder(S) = r[N].order
  BY <1>0 DEF DfsPostOrder, FirstWalk, WalkStep, Turns
<1> HIDE DEF r
<1>11. ASSUME NEW n \in 0..N PROVE r[n] = IF n = 0 THEN d0 ELSE WalkStep(r[n - 1], S)
  <2> HIDE DEF d0
  <2>1. Body(r)[n] = IF n = 0 THEN d0 ELSE WalkStep(r[n - 1], S)
    OBVIOUS
  <2>2. r[n] = Body(r)[n]
    <3> HIDE DEF Body
    <3> QED BY <1>9
  <2> HIDE DEF Body
  <2> QED BY <2>1, <2>2
<1>12. \A n \in 0..N : WalkSoFar(n, r[n], S)
  <2> DEFINE T == {n \in Nat : WalkSoFar(n, r[n], S)}
  <2>1. 0 \in T
    <3>1. 0 \in 0..N
      OBVIOUS
    <3> HIDE DEF d0
    <3> QED BY <1>2, <1>11, <3>1
  <2>2. ASSUME NEW n \in 0..(N - 1), n \in T PROVE n + 1 \in T
    <3>1. n + 1 \in 0..N /\ n + 1 # 0 /\ (n + 1) - 1 = n /\ n + 1 \in Nat /\ n \in Nat
      OBVIOUS
    <3>2. WalkSoFar(n + 1, WalkStep(r[n], S), S)
      BY <2>2, <3>1, WalkStepKeeps
    <3> HIDE DEF d0
    <3>3. r[n + 1] = WalkStep(r[n], S)
      BY <1>11, <3>1
    <3> QED BY <3>1, <3>2, <3>3
  <2>3. 0..N \subseteq T
    <3> HIDE DEF T
    <3> QED BY <2>1, <2>2, InductionUpTo
  <2> QED BY <2>3
<1>13. N \in 0..N
  OBVIOUS
<1> QED BY <1>0, <1>10, <1>12, <1>13

(* When the stack is empty every op has been met.                          *)
LEMMA WalkMeetsAll ==
  ASSUME prob \in Problems, NEW S \in SUBSET Ops, NEW st, Walked(st, S), st.stack = <<>>
  PROVE  Members(st.order) = S
<1>1. PICK q, v : q = st.order /\ v = st.visited
  OBVIOUS
<1>2. /\ v \in SUBSET S /\ Ordered(q, S)
      /\ Accounted(st.stack, v, q) /\ RootsMet(st.stack, v, S)
  BY <1>1 DEF Walked, Walks
<1>3. 1..Len(st.stack) = {}
  <2>1. Len(st.stack) = 0
    OBVIOUS
  <2> QED BY <2>1
<1>4. Members(q) = v /\ Roots(S) \subseteq v
  <2>1. v \subseteq Members(q)
    BY <1>2, <1>3 DEF Accounted
  <2>2. Roots(S) \subseteq v
    BY <1>2, <1>3 DEF RootsMet
  <2> QED BY <1>2, <2>1, <2>2 DEF Accounted
<1> SUFFICES ASSUME S \ v # {} PROVE FALSE
  BY <1>1, <1>2, <1>4
<1>5. Positioned
  BY TopoPositions
<1>6. PICK N \in Nat : N = Cardinality(Ops) /\ \A o \in Ops : TopoPosition(o) \in 1..N
  BY <1>5 DEF Positioned
<1> DEFINE P == {n \in Nat : \E o \in S \ v : n = N - TopoPosition(o)}
<1>7. P \in SUBSET Nat /\ P # {}
  <2>1. PICK o \in S \ v : TRUE
    OBVIOUS
  <2>2. N - TopoPosition(o) \in Nat
    BY <1>6
  <2> QED BY <2>1, <2>2
<1>8. PICK n \in P : \A m \in P : n <= m
  BY <1>7, LeastNatural
<1>9. PICK o \in S \ v : n = N - TopoPosition(o)
  BY <1>8
<1>10. ASSUME NEW c \in S \ v PROVE TopoPosition(c) <= TopoPosition(o)
  <2>1. N - TopoPosition(c) \in P
    BY <1>6
  <2>2. TopoPosition(c) \in Nat /\ TopoPosition(o) \in Nat
    BY <1>6
  <2> QED BY <1>6, <1>8, <1>9, <2>1, <2>2
<1>11. PICK c \in S : c \in Consumers(o)
  BY <1>4, <1>9 DEF Roots, ConsumedIn
<1>12. o \in Preds(c, S)
  BY <1>11 DEF Preds, Producers, Consumers
<1>13. c \in v
  <2>1. TopoPosition(o) < TopoPosition(c) /\ TopoPosition(o) \in Nat /\ TopoPosition(c) \in Nat
    BY <1>11, <1>12, PredsBefore
  <2> QED BY <1>10, <1>11, <2>1
<1>14. PICK i \in DOMAIN q : q[i] = c
  BY <1>4, <1>13 DEF Members
<1>15. o \in FirstOf(q, i - 1)
  BY <1>2, <1>12, <1>14 DEF Ordered
<1>16. o \in Members(q)
  BY <1>15 DEF FirstOf, Members
<1> QED BY <1>4, <1>9, <1>16

(* An order that lists S with every op after those it reads from.          *)
Replays(order, S) ==
  /\ Len(order) = Cardinality(S)
  /\ Members(order) = S
  /\ PlanValid(order, S)

LEMMA OrderedReplays ==
  ASSUME NEW S \in SUBSET Ops, NEW q, Ordered(q, S), Members(q) = S
  PROVE  Replays(q, S)
<1>1. Lists(q, S)
  BY DEF Ordered
<1>2. IsFiniteSet(S)
  BY OpsAssumption, FS_Subset
<1>3. Len(q) = Cardinality(S)
  BY <1>1, <1>2, ListLength
<1>4. Len(q) \in Nat /\ DOMAIN q = 1..Len(q) /\ \A i, j \in DOMAIN q : q[i] = q[j] => i = j
  BY <1>1 DEF Lists
<1>5. ASSUME NEW o \in S PROVE At(q, o) \in DOMAIN q /\ q[At(q, o)] = o
  <2>1. \E i \in DOMAIN q : q[i] = o
    BY DEF Members
  <2> QED BY <2>1 DEF At
<1>6. ASSUME NEW t \in S, NEW o \in Consumers(t) \cap S PROVE At(q, t) <= At(q, o)
  <2>1. PICK i \in DOMAIN q : i = At(q, o) /\ q[i] = o
    BY <1>5
  <2>2. t \in Preds(o, S)
    BY DEF Preds, Producers, Consumers
  <2>3. t \in FirstOf(q, i - 1)
    BY <2>1, <2>2 DEF Ordered
  <2>4. PICK j \in DOMAIN q : j \in 1..(i - 1) /\ q[j] = t
    BY <2>3 DEF FirstOf
  <2>5. j = At(q, t)
    BY <1>4, <1>5, <2>4
  <2> QED BY <1>4, <2>1, <2>4, <2>5
<1> QED BY <1>3, <1>6 DEF Replays, PlanValid

(* The depth-first post-order is complete within the turns the stack can   *)
(* take.                                                                   *)
LEMMA DfsReplays ==
  ASSUME prob \in Problems, NEW S \in SUBSET Ops
  PROVE  Replays(DfsPostOrder(S), S)
<1>1. PICK st : WalkSoFar(Turns(S), st, S) /\ DfsPostOrder(S) = st.order
  BY WalkEnds
<1>2. Walked(st, S)
  BY <1>1 DEF WalkSoFar
<1>3. st.stack = <<>>
  <2> SUFFICES ASSUME st.stack # <<>> PROVE FALSE
    OBVIOUS
  <2>1. Left(st, S) + Turns(S) <= Turns(S)
    BY <1>1 DEF WalkSoFar
  <2>2. Left(st, S) \in Nat /\ Left(st, S) >= Len(st.stack) /\ Cardinality(S) \in Nat
    BY <1>2, LeftCounts
  <2>3. Turns(S) \in Nat
    BY <2>2 DEF Turns
  <2>4. st.stack \in Seq(Entries(S))
    BY <1>2 DEF Walked, Walks
  <2>5. Len(st.stack) \in Nat \ {0}
    BY <2>4
  <2> QED BY <2>1, <2>2, <2>3, <2>5
<1>4. Members(st.order) = S
  BY <1>2, <1>3, WalkMeetsAll
<1>5. Ordered(st.order, S)
  BY <1>2 DEF Walked
<1> QED BY <1>1, <1>4, <1>5, OrderedReplays-----------------------------------------------------------------------------
(* How near an op is to those in the window.                               *)

(* f adds up, position by position, how near u is to the ops of w.         *)
Sums(f, u, w, S) ==
  /\ f \in [0..Len(w) -> Nat]
  /\ f[0] = 0
  /\ \A n \in 1..Len(w) : f[n] = f[n - 1] + Pair(w[n], u, S)

(* A node is a number of steps away, and the node's side finds the same.   *)
LEMMA PairIsDelta ==
  ASSUME prob \in Problems, NEW S \in SUBSET Ops, NEW o \in S, NEW u \in S
  PROVE  /\ Pair(o, u, S) \in Nat
         /\ u # o => Delta(o, u, S) = Pair(o, u, S)
<1>1. PICK A, B : A = Preds(o, S) /\ B = Preds(u, S)
  OBVIOUS
<1>2. PICK V, W : V = Values(o, S) /\ W = Values(u, S)
  OBVIOUS
<1>3. A \subseteq S /\ B \subseteq S /\ o \notin A /\ u \notin B
  BY <1>1, PredsBefore DEF Preds
<1>4. IsFiniteSet(S) /\ IsFiniteSet(A \cap B)
  BY <1>3, OpsAssumption, FS_Subset
<1>5. IsFiniteSet(V \cap W)
  <2>1. o \in Ops /\ prob \in Problem
    BY ProblemsAssumption
  <2>2. prob.reads[o] \subseteq Tensors
    BY <2>1 DEF Problem
  <2>3. IsFiniteSet(Ops \cup GraphInputs)
    BY OpsAssumption, GraphInputsAssumption, FS_Union
  <2>4. V \cap W \subseteq Ops \cup GraphInputs
    BY <1>2, <2>2 DEF Values, Reads, Tensors
  <2> QED BY <2>3, <2>4, FS_Subset
<1>6. Cardinality(A \cap B) \in Nat /\ Cardinality(V \cap W) \in Nat
  BY <1>4, <1>5, FS_CardinalityType
<1>7. PICK E : E = {o, u} \cap (A \cup B)
  OBVIOUS
<1>8. Pair(o, u, S) = Cardinality(E) + Cardinality(A \cap B) + Cardinality(V \cap W)
  BY <1>1, <1>2, <1>7 DEF Pair
<1>9. IsFiniteSet(E) /\ Cardinality(E) \in Nat
  BY <1>3, <1>4, <1>7, FS_Subset, FS_CardinalityType
<1>10. Pair(o, u, S) \in Nat
  BY <1>6, <1>8, <1>9
<1>11. ASSUME u # o PROVE Delta(o, u, S) = Pair(o, u, S)
  <2>1. (u \in Succs1(o, S)) <=> (o \in B)
    BY <1>1 DEF Succs1, Consumers, Preds, Producers
  <2>2. {p \in A : u \in Succs1(p, S) \ {o}} = A \cap B
    <3>1. ASSUME NEW p \in A PROVE (u \in Succs1(p, S) \ {o}) <=> (p \in B)
      BY <1>1, <1>11 DEF Succs1, Consumers, Preds, Producers
    <3> QED BY <3>1
  <2>3. {v \in V : u # o /\ v \in W} = V \cap W
    BY <1>11
  <2>4. Cardinality(E) = (IF u \in A THEN 1 ELSE 0) + (IF o \in B THEN 1 ELSE 0)
    <3>1. CASE u \in A /\ o \in B
      <4>1. E = {u} \cup {o}
        BY <1>7, <3>1
      <4>2. IsFiniteSet({u}) /\ Cardinality({u}) = 1
        BY FS_Singleton
      <4>3. Cardinality(E) = 2
        BY <1>11, <4>1, <4>2, FS_AddElement
      <4> QED BY <3>1, <4>3
    <3>2. CASE u \in A /\ o \notin B
      <4>1. E = {u}
        BY <1>3, <1>7, <3>2
      <4> QED BY <3>2, <4>1, FS_Singleton
    <3>3. CASE u \notin A /\ o \in B
      <4>1. E = {o}
        BY <1>3, <1>7, <3>3
      <4> QED BY <3>3, <4>1, FS_Singleton
    <3>4. CASE u \notin A /\ o \notin B
      <4>1. E = {}
        BY <1>3, <1>7, <3>4
      <4> QED BY <3>4, <4>1, FS_EmptySet
    <3> QED BY <3>1, <3>2, <3>3, <3>4
  <2>5. Delta(o, u, S) = (IF u \in A THEN 1 ELSE 0) + (IF o \in B THEN 1 ELSE 0)
                         + Cardinality(A \cap B) + Cardinality(V \cap W)
    BY <1>1, <1>2, <2>1, <2>2, <2>3 DEF Delta
  <2> QED BY <1>8, <2>4, <2>5
<1> QED BY <1>10, <1>11

LEMMA NearSums ==
  ASSUME prob \in Problems, NEW S \in SUBSET Ops, NEW u \in S, NEW w \in Seq(S)
  PROVE  \E f : Sums(f, u, w, S) /\ NearTo(u, w, S) = f[Len(w)]
<1>0. PICK N \in Nat : N = Len(w)
  OBVIOUS
<1>1. \A n \in 1..N : Pair(w[n], u, S) \in Nat
  BY <1>0, PairIsDelta
<1> DEFINE F == [x \in Nat \X Nat |-> IF x[1] \in 1..N THEN x[2] + Pair(w[x[1]], u, S) ELSE 0]
           Body(f) == [n \in 0..N |-> IF n = 0 THEN 0 ELSE f[n - 1] + Pair(w[n], u, S)]
<1>2. F \in [Nat \X Nat -> Nat]
  BY <1>1
<1>3. PICK f : Iterates(f, N, Nat, 0, F)
  <2> HIDE DEF F
  <2> QED BY <1>2, IterationExists
<1>4. f \in [0..N -> Nat] /\ f[0] = 0 /\ \A n \in 1..N : f[n] = f[n - 1] + Pair(w[n], u, S)
  <2>1. f \in [0..N -> Nat] /\ f[0] = 0 /\ \A n \in 1..N : f[n] = F[<<n, f[n - 1]>>]
    <3> HIDE DEF F
    <3> QED BY <1>3 DEF Iterates
  <2>2. ASSUME NEW n \in 1..N PROVE f[n] = f[n - 1] + Pair(w[n], u, S)
    <3>1. f[n - 1] \in Nat /\ n \in Nat
      BY <2>1
    <3>2. PICK x : x = <<n, f[n - 1]>>
      OBVIOUS
    <3>3. x \in Nat \X Nat /\ x[1] = n /\ x[2] = f[n - 1]
      BY <3>1, <3>2
    <3>4. F[x] = f[n - 1] + Pair(w[n], u, S)
      BY <3>3
    <3> HIDE DEF F
    <3> QED BY <2>1, <3>2, <3>4
  <2> QED BY <2>1, <2>2
<1>5. f = Body(f)
  BY <1>4
<1> DEFINE r == CHOOSE g : g = Body(g)
<1>6. r = Body(r)
  <2>1. \E g : g = Body(g)
    BY <1>5
  <2> QED BY <2>1, Zenon
<1>7. NearTo(u, w, S) = r[N]
  BY <1>0 DEF NearTo
<1> HIDE DEF r
<1>8. ASSUME NEW n \in 0..N PROVE r[n] = IF n = 0 THEN 0 ELSE r[n - 1] + Pair(w[n], u, S)
  <2>1. Body(r)[n] = IF n = 0 THEN 0 ELSE r[n - 1] + Pair(w[n], u, S)
    OBVIOUS
  <2>2. r[n] = Body(r)[n]
    <3> HIDE DEF Body
    <3> QED BY <1>6
  <2> HIDE DEF Body
  <2> QED BY <2>1, <2>2
<1>9. \A n \in 0..N : r[n] = f[n]
  <2> DEFINE T == {n \in Nat : r[n] = f[n]}
  <2>1. 0 \in T
    <3>1. 0 \in 0..N
      OBVIOUS
    <3> QED BY <1>4, <1>8, <3>1
  <2>2. ASSUME NEW n \in 0..(N - 1), n \in T PROVE n + 1 \in T
    <3>1. n + 1 \in 0..N /\ n + 1 \in 1..N /\ n + 1 # 0 /\ (n + 1) - 1 = n /\ n + 1 \in Nat
      OBVIOUS
    <3>2. r[n + 1] = r[n] + Pair(w[n + 1], u, S)
      BY <1>8, <3>1
    <3>3. f[n + 1] = f[n] + Pair(w[n + 1], u, S)
      BY <1>4, <3>1
    <3> QED BY <2>2, <3>1, <3>2, <3>3
  <2>3. 0..N \subseteq T
    <3> HIDE DEF T
    <3> QED BY <2>1, <2>2, InductionUpTo
  <2> QED BY <2>3
<1>10. NearTo(u, w, S) = f[Len(w)] /\ Sums(f, u, w, S)
  <2>1. N \in 0..N
    OBVIOUS
  <2> QED BY <1>0, <1>4, <1>7, <1>9, <2>1 DEF Sums
<1> QED BY <1>10

LEMMA NearAppend ==
  ASSUME prob \in Problems, NEW S \in SUBSET Ops, NEW u \in S, NEW w \in Seq(S), NEW o \in S
  PROVE  /\ NearTo(u, w, S) \in Nat
         /\ NearTo(u, Append(w, o), S) = NearTo(u, w, S) + Pair(o, u, S)
<1>1. PICK x : x = Append(w, o)
  OBVIOUS
<1>2. PICK N \in Nat : N = Len(w)
  OBVIOUS
<1>3. x \in Seq(S) /\ Len(x) = N + 1 /\ x[N + 1] = o /\ \A n \in 1..N : x[n] = w[n]
  BY <1>1, <1>2
<1>4. PICK f : Sums(f, u, w, S) /\ NearTo(u, w, S) = f[Len(w)]
  BY NearSums
<1>5. PICK g : Sums(g, u, x, S) /\ NearTo(u, x, S) = g[Len(x)]
  BY <1>3, NearSums
<1>6. /\ f \in [0..N -> Nat] /\ f[0] = 0 /\ \A n \in 1..N : f[n] = f[n - 1] + Pair(w[n], u, S)
      /\ g \in [0..(N + 1) -> Nat] /\ g[0] = 0
      /\ \A n \in 1..(N + 1) : g[n] = g[n - 1] + Pair(x[n], u, S)
  BY <1>2, <1>3, <1>4, <1>5 DEF Sums
<1>7. \A n \in 0..N : g[n] = f[n]
  <2> DEFINE T == {n \in Nat : g[n] = f[n]}
  <2>1. 0 \in T
    BY <1>6
  <2>2. ASSUME NEW n \in 0..(N - 1), n \in T PROVE n + 1 \in T
    <3>1. n + 1 \in 1..N /\ n + 1 \in 1..(N + 1) /\ (n + 1) - 1 = n /\ n + 1 \in Nat
      OBVIOUS
    <3>2. g[n + 1] = g[n] + Pair(x[n + 1], u, S) /\ f[n + 1] = f[n] + Pair(w[n + 1], u, S)
      BY <1>6, <3>1
    <3> QED BY <1>3, <2>2, <3>1, <3>2
  <2>3. 0..N \subseteq T
    <3> HIDE DEF T
    <3> QED BY <2>1, <2>2, InductionUpTo
  <2> QED BY <2>3
<1>8. N \in 0..N /\ N + 1 \in 1..(N + 1) /\ (N + 1) - 1 = N
  OBVIOUS
<1>9. g[N + 1] = f[N] + Pair(o, u, S) /\ f[N] \in Nat
  BY <1>3, <1>6, <1>7, <1>8
<1> QED BY <1>1, <1>2, <1>3, <1>4, <1>5, <1>9

LEMMA NearTail ==
  ASSUME prob \in Problems, NEW S \in SUBSET Ops, NEW u \in S, NEW w \in Seq(S), w # <<>>
  PROVE  NearTo(u, w, S) = Pair(Head(w), u, S) + NearTo(u, Tail(w), S)
<1>1. PICK x : x = Tail(w)
  OBVIOUS
<1>2. PICK N \in Nat : Len(w) = N + 1
  <2>1. Len(w) \in Nat \ {0}
    OBVIOUS
  <2>2. Len(w) - 1 \in Nat /\ Len(w) = (Len(w) - 1) + 1
    BY <2>1
  <2> QED BY <2>2
<1>3. x \in Seq(S) /\ Len(x) = N /\ Head(w) = w[1] /\ \A n \in 1..N : x[n] = w[n + 1]
  BY <1>1, <1>2
<1>4. PICK f : Sums(f, u, w, S) /\ NearTo(u, w, S) = f[Len(w)]
  BY NearSums
<1>5. PICK g : Sums(g, u, x, S) /\ NearTo(u, x, S) = g[Len(x)]
  BY <1>3, NearSums
<1>6. /\ f \in [0..(N + 1) -> Nat] /\ f[0] = 0
      /\ \A n \in 1..(N + 1) : f[n] = f[n - 1] + Pair(w[n], u, S)
      /\ g \in [0..N -> Nat] /\ g[0] = 0
      /\ \A n \in 1..N : g[n] = g[n - 1] + Pair(x[n], u, S)
  BY <1>2, <1>3, <1>4, <1>5 DEF Sums
<1>7. PICK a \in Nat : a = Pair(w[1], u, S)
  <2>1. w[1] \in S
    BY <1>2
  <2> QED BY <2>1, PairIsDelta
<1>8. \A n \in 0..N : f[n + 1] = a + g[n]
  <2> DEFINE T == {n \in Nat : f[n + 1] = a + g[n]}
  <2>1. 0 \in T
    <3>1. 1 \in 1..(N + 1) /\ 0 + 1 = 1 /\ 1 - 1 = 0
      OBVIOUS
    <3>2. f[1] = 0 + a
      BY <1>6, <1>7, <3>1
    <3> QED BY <1>6, <3>2
  <2>2. ASSUME NEW n \in 0..(N - 1), n \in T PROVE n + 1 \in T
    <3>1. PICK m \in Nat : m = n + 1 /\ m \in 1..N /\ m + 1 \in 1..(N + 1) /\ (m + 1) - 1 = m /\ m - 1 = n
      OBVIOUS
    <3>2. f[m + 1] = f[m] + Pair(w[m + 1], u, S) /\ g[m] = g[n] + Pair(x[m], u, S)
      BY <1>6, <3>1
    <3>3. x[m] = w[m + 1] /\ f[m] = a + g[n]
      BY <1>3, <2>2, <3>1
    <3>4. PICK b \in Nat : b = Pair(w[m + 1], u, S)
      <4>1. w[m + 1] \in S
        BY <1>2, <3>1
      <4> QED BY <4>1, PairIsDelta
    <3>5. g[n] \in Nat
      BY <1>6
    <3>6. f[m + 1] = a + g[m]
      BY <3>2, <3>3, <3>4, <3>5
    <3> QED BY <3>1, <3>6
  <2>3. 0..N \subseteq T
    <3> HIDE DEF T
    <3> QED BY <2>1, <2>2, InductionUpTo
  <2> QED BY <2>3
<1>9. f[N + 1] = a + g[N]
  BY <1>8
<1> QED BY <1>1, <1>2, <1>3, <1>4, <1>5, <1>7, <1>9-----------------------------------------------------------------------------
(* The greedy order: its scores are what the window adds up to.            *)

GorderTurns(S) == [order : Seq(S), window : Seq(S), score : [S -> Int]]

Scored(order, window, score, S) ==
  \A u \in S \ Members(order) : score[u] = NearTo(u, window, S)

Turned(n, st, S) ==
  /\ st \in GorderTurns(S)
  /\ Ordered(st.order, S)
  /\ Len(st.order) = n
  /\ Members(st.window) \subseteq Members(st.order)
  /\ Scored(st.order, st.window, st.score, S)

(* The nodes that would be taken before o.                                 *)
Beats(score, R, o) ==
  {u \in R : score[u] > score[o] \/ (score[u] = score[o] /\ TopoPosition(u) < TopoPosition(o))}

LEMMA BestIsThere ==
  ASSUME prob \in Problems, NEW R \in SUBSET Ops, R # {},
         NEW score, \A u \in R : score[u] \in Int
  PROVE  Best(score, R) \in R
<1>1. Positioned
  BY TopoPositions
<1>2. /\ \A o \in R : TopoPosition(o) \in Nat
      /\ \A o, u \in R : TopoPosition(o) = TopoPosition(u) => o = u
  BY <1>1 DEF Positioned
<1>3. IsFiniteSet(R)
  BY OpsAssumption, FS_Subset
<1>4. ASSUME NEW o \in R
      PROVE  IsFiniteSet(Beats(score, R, o)) /\ Cardinality(Beats(score, R, o)) \in Nat
  <2>1. Beats(score, R, o) \subseteq R
    BY DEF Beats
  <2> QED BY <1>3, <2>1, FS_Subset, FS_CardinalityType
<1> DEFINE P == {n \in Nat : \E o \in R : n = Cardinality(Beats(score, R, o))}
<1>5. P \in SUBSET Nat /\ P # {}
  <2>1. PICK o \in R : TRUE
    OBVIOUS
  <2>2. Cardinality(Beats(score, R, o)) \in P
    BY <1>4
  <2> QED BY <2>2
<1>6. PICK n \in P : \A m \in P : n <= m
  <2> HIDE DEF P
  <2> QED BY <1>5, LeastNatural
<1>7. PICK o \in R : n = Cardinality(Beats(score, R, o))
  BY <1>6
<1>8. Beats(score, R, o) = {}
  <2> SUFFICES ASSUME NEW v \in Beats(score, R, o) PROVE FALSE
    OBVIOUS
  <2>1. v \in R /\ (score[v] > score[o]
                    \/ (score[v] = score[o] /\ TopoPosition(v) < TopoPosition(o)))
    BY DEF Beats
  <2>2. score[v] \in Int /\ score[o] \in Int /\ TopoPosition(v) \in Nat /\ TopoPosition(o) \in Nat
    BY <1>2, <2>1
  <2>3. v \notin Beats(score, R, v)
    <3>1. ~(score[v] > score[v]) /\ ~(TopoPosition(v) < TopoPosition(v))
      BY <2>2
    <3> QED BY <3>1 DEF Beats
  <2>4. ASSUME NEW u \in Beats(score, R, v) PROVE u \in Beats(score, R, o)
    <3>1. u \in R /\ (score[u] > score[v]
                      \/ (score[u] = score[v] /\ TopoPosition(u) < TopoPosition(v)))
      BY DEF Beats
    <3>2. score[u] \in Int /\ TopoPosition(u) \in Nat
      BY <1>2, <3>1
    <3>3. score[u] > score[o] \/ (score[u] = score[o] /\ TopoPosition(u) < TopoPosition(o))
      BY <2>1, <2>2, <3>1, <3>2
    <3> QED BY <3>1, <3>3 DEF Beats
  <2>5. PICK A, B : A = Beats(score, R, v) /\ B = Beats(score, R, o)
    OBVIOUS
  <2>6. A \subseteq B /\ A # B /\ IsFiniteSet(B)
    BY <1>4, <2>3, <2>4, <2>5
  <2>7. Cardinality(A) < Cardinality(B)
    <3>1. Cardinality(A) <= Cardinality(B) /\ Cardinality(A) # Cardinality(B)
      BY <2>6, FS_Subset
    <3>2. Cardinality(A) \in Nat /\ Cardinality(B) \in Nat
      BY <1>4, <2>1, <2>5
    <3> QED BY <3>1, <3>2
  <2>8. Cardinality(A) \in P
    BY <1>4, <2>1, <2>5
  <2>9. Cardinality(A) \in Nat /\ Cardinality(B) \in Nat
    BY <1>4, <2>1, <2>5
  <2> QED BY <1>6, <1>7, <2>5, <2>7, <2>8, <2>9
<1>9. ASSUME NEW u \in R \ {o}
      PROVE  score[o] > score[u] \/ (score[o] = score[u] /\ TopoPosition(o) < TopoPosition(u))
  <2>1. ~(score[u] > score[o] \/ (score[u] = score[o] /\ TopoPosition(u) < TopoPosition(o)))
    BY <1>8 DEF Beats
  <2>2. score[u] \in Int /\ score[o] \in Int /\ TopoPosition(u) \in Nat /\ TopoPosition(o) \in Nat
    BY <1>2
  <2>3. TopoPosition(u) # TopoPosition(o)
    BY <1>2
  <2> QED BY <2>1, <2>2, <2>3
<1>10. \E b \in R : \A u \in R \ {b} :
         \/ score[b] > score[u]
         \/ score[b] = score[u] /\ TopoPosition(b) < TopoPosition(u)
  BY <1>9
<1> QED BY <1>10, Zenon DEF Best

(* The first turn's state, with nothing taken and no scores.               *)
FirstTurn(S) == [order |-> <<>>, window |-> <<>>, score |-> [o \in S |-> 0]]

LEMMA TurnStarts ==
  ASSUME prob \in Problems, NEW S \in SUBSET Ops
  PROVE  Turned(0, FirstTurn(S), S)
<1>1. <<>> \in Seq(S) /\ Len(<<>>) = 0 /\ DOMAIN <<>> = {} /\ <<>> \in Seq({})
  OBVIOUS
<1>2. Members(<<>>) = {}
  BY <1>1 DEF Members
<1>3. PICK st : st = FirstTurn(S)
  OBVIOUS
<1>4. st \in GorderTurns(S) /\ st.order = <<>> /\ st.window = <<>> /\ st.score = [o \in S |-> 0]
  BY <1>1, <1>3 DEF FirstTurn, GorderTurns
<1>5. Ordered(<<>>, S)
  BY <1>1, <1>2 DEF Ordered, Lists
<1>6. ASSUME NEW u \in S PROVE NearTo(u, <<>>, S) = 0
  <2>1. PICK f : Sums(f, u, <<>>, S) /\ NearTo(u, <<>>, S) = f[Len(<<>>)]
    BY <1>1, NearSums
  <2> QED BY <1>1, <2>1 DEF Sums
<1>7. Scored(st.order, st.window, st.score, S)
  BY <1>4, <1>6 DEF Scored
<1> QED BY <1>1, <1>2, <1>3, <1>4, <1>5, <1>7 DEF Turned
(* While an op is left, one of them has all its predecessors taken.        *)
LEMMA SomeReady ==
  ASSUME prob \in Problems, NEW S \in SUBSET Ops, NEW done, S \ done # {}
  PROVE  ReadyNodes(S, done) # {}
<1>1. S \ done \in (SUBSET Ops) \ {{}}
  OBVIOUS
<1>2. PICK o \in S \ done : prob.reads[o] \cap (S \ done) = {}
  BY <1>1, ProblemsAssumption
<1>3. Preds(o, S) \subseteq done
  BY <1>2 DEF Preds, Producers
<1> QED BY <1>2, <1>3 DEF ReadyNodes

(* The op taken goes behind the order.                                     *)
LEMMA OrderedAppend ==
  ASSUME NEW S, NEW q, Ordered(q, S), NEW o \in ReadyNodes(S, Members(q))
  PROVE  /\ Extends(Append(q, o), q, Members(q), o)
         /\ Ordered(Append(q, o), S)
<1>1. o \in S /\ o \notin Members(q) /\ Preds(o, S) \subseteq Members(q)
  BY DEF ReadyNodes
<1>2. Lists(q, Members(q)) /\ Members(q) \subseteq S
      /\ \A i \in DOMAIN q : Preds(q[i], S) \subseteq FirstOf(q, i - 1)
  BY DEF Ordered
<1>3. PICK p : p = Append(q, o)
  OBVIOUS
<1>4. Extends(p, q, Members(q), o)
  BY <1>1, <1>2, <1>3, ListsAppend
<1>5. /\ Lists(p, Members(p)) /\ Members(p) = Members(q) \cup {o}
      /\ Len(q) \in Nat /\ DOMAIN q = 1..Len(q) /\ DOMAIN p = 1..(Len(q) + 1)
      /\ p[Len(q) + 1] = o /\ \A i \in 1..Len(q) : p[i] = q[i]
      /\ \A m \in 0..Len(q) : FirstOf(p, m) = FirstOf(q, m)
      /\ FirstOf(p, Len(q)) = Members(q)
  BY <1>4 DEF Extends
<1>6. ASSUME NEW i \in DOMAIN p PROVE Preds(p[i], S) \subseteq FirstOf(p, i - 1)
  <2>1. CASE i = Len(q) + 1
    <3>1. p[i] = o /\ i - 1 = Len(q)
      BY <1>5, <2>1
    <3> QED BY <1>1, <1>5, <3>1
  <2>2. CASE i # Len(q) + 1
    <3>1. i \in 1..Len(q) /\ i - 1 \in 0..Len(q)
      BY <1>5, <2>2
    <3>2. p[i] = q[i] /\ FirstOf(p, i - 1) = FirstOf(q, i - 1) /\ i \in DOMAIN q
      BY <1>5, <3>1
    <3> QED BY <1>2, <3>2
  <2> QED BY <2>1, <2>2
<1>7. Ordered(p, S)
  BY <1>1, <1>2, <1>5, <1>6 DEF Ordered
<1> QED BY <1>3, <1>4, <1>7

(* The op taken is ready, and its entering the window is scored.           *)
LEMMA EntersScored ==
  ASSUME prob \in Problems, NEW S \in SUBSET Ops, NEW w \in Seq(S), NEW o \in S,
         NEW score \in [S -> Int], NEW left \in SUBSET S, o \notin left,
         \A u \in left : score[u] = NearTo(u, w, S)
  PROVE  /\ Add(score, o, S, left) \in [S -> Int]
         /\ \A u \in left : Add(score, o, S, left)[u] = NearTo(u, Append(w, o), S)
<1>1. ASSUME NEW u \in left
      PROVE  score[u] + Delta(o, u, S) \in Int
             /\ score[u] + Delta(o, u, S) = NearTo(u, Append(w, o), S)
  <2>1. Pair(o, u, S) \in Nat /\ Delta(o, u, S) = Pair(o, u, S)
    BY PairIsDelta
  <2>2. NearTo(u, w, S) \in Nat /\ NearTo(u, Append(w, o), S) = NearTo(u, w, S) + Pair(o, u, S)
    BY NearAppend
  <2> QED BY <2>1, <2>2
<1> QED BY <1>1 DEF Add

(* The oldest of the window takes back what it gave.                       *)
LEMMA LeavesScored ==
  ASSUME prob \in Problems, NEW S \in SUBSET Ops, NEW w \in Seq(S), w # <<>>,
         NEW score \in [S -> Int], NEW left \in SUBSET S, Head(w) \notin left,
         \A u \in left : score[u] = NearTo(u, w, S)
  PROVE  /\ Drop(score, Head(w), S, left) \in [S -> Int]
         /\ \A u \in left : Drop(score, Head(w), S, left)[u] = NearTo(u, Tail(w), S)
<1>0. PICK o : o = Head(w)
  OBVIOUS
<1>1. o \in S /\ Tail(w) \in Seq(S)
  BY <1>0
<1>2. ASSUME NEW u \in left
      PROVE  score[u] - Delta(o, u, S) \in Int
             /\ score[u] - Delta(o, u, S) = NearTo(u, Tail(w), S)
  <2>1. Pair(o, u, S) \in Nat /\ Delta(o, u, S) = Pair(o, u, S)
    BY <1>0, <1>1, PairIsDelta
  <2>2. NearTo(u, w, S) = Pair(o, u, S) + NearTo(u, Tail(w), S)
    BY <1>0, NearTail
  <2>3. NearTo(u, Tail(w), S) \in Nat
    BY <1>1, NearAppend
  <2> QED BY <2>1, <2>2, <2>3
<1> QED BY <1>0, <1>2 DEF Drop

(* Members of a list that grows at its end and shrinks at its start.       *)
LEMMA WindowMembers ==
  ASSUME NEW S, NEW w \in Seq(S), NEW o \in S
  PROVE  /\ Append(w, o) \in Seq(S) /\ Append(w, o) # <<>>
         /\ Members(Append(w, o)) \subseteq Members(w) \cup {o}
         /\ Tail(Append(w, o)) \in Seq(S)
         /\ Members(Tail(Append(w, o))) \subseteq Members(w) \cup {o}
         /\ Head(Append(w, o)) \in Members(w) \cup {o}
<1>1. PICK x : x = Append(w, o)
  OBVIOUS
<1>2. PICK n \in Nat : n = Len(w) /\ DOMAIN w = 1..n
  OBVIOUS
<1>3. x \in Seq(S) /\ x # <<>> /\ Len(x) = n + 1 /\ DOMAIN x = 1..(n + 1)
      /\ x[n + 1] = o /\ \A i \in 1..n : x[i] = w[i]
  BY <1>1, <1>2
<1>4. ASSUME NEW i \in 1..(n + 1) PROVE x[i] \in Members(w) \cup {o}
  <2>1. i = n + 1 \/ i \in 1..n
    OBVIOUS
  <2>2. \A j \in 1..n : w[j] \in Members(w)
    BY <1>2 DEF Members
  <2> QED BY <1>3, <2>1, <2>2
<1>5. PICK y : y = Tail(x)
  OBVIOUS
<1>6. y \in Seq(S) /\ DOMAIN y = 1..n /\ Head(x) = x[1] /\ \A i \in 1..n : y[i] = x[i + 1]
  BY <1>3, <1>5
<1>7. Members(x) \subseteq Members(w) \cup {o}
  <2>1. Members(x) = {x[i] : i \in 1..(n + 1)}
    BY <1>3 DEF Members
  <2> QED BY <1>4, <2>1
<1>8. Members(y) \subseteq Members(w) \cup {o}
  <2>1. Members(y) = {y[i] : i \in 1..n}
    BY <1>6 DEF Members
  <2>2. \A i \in 1..n : i + 1 \in 1..(n + 1)
    OBVIOUS
  <2> QED BY <1>4, <1>6, <2>1, <2>2
<1>9. Head(x) \in Members(w) \cup {o}
  <2>1. 1 \in 1..(n + 1)
    OBVIOUS
  <2> QED BY <1>4, <1>6, <2>1
<1> QED BY <1>1, <1>3, <1>5, <1>6, <1>7, <1>8, <1>9

LEMMA TurnKeeps ==
  ASSUME prob \in Problems, NEW S \in SUBSET Ops, NEW n \in Nat, n < Cardinality(S),
         NEW st, Turned(n, st, S)
  PROVE  Turned(n + 1, Turn(st, S), S)
<1>1. PICK q, w, sc : q = st.order /\ w = st.window /\ sc = st.score
  OBVIOUS
<1>2. /\ q \in Seq(S) /\ w \in Seq(S) /\ sc \in [S -> Int]
      /\ Ordered(q, S) /\ Len(q) = n
      /\ Members(w) \subseteq Members(q) /\ Scored(q, w, sc, S)
  BY <1>1 DEF Turned, GorderTurns
<1>3. PICK done : done = Members(q)
  OBVIOUS
<1>4. done \subseteq S /\ Lists(q, done) /\ IsFiniteSet(done) /\ IsFiniteSet(S)
  BY <1>2, <1>3, OpsAssumption, FS_Subset DEF Ordered
<1>5. S \ done # {}
  <2>1. Len(q) = Cardinality(done)
    BY <1>4, ListLength
  <2>2. Cardinality(S) \in Nat /\ Cardinality(done) = n
    BY <1>2, <1>4, <2>1, FS_CardinalityType
  <2>3. S # done
    BY <2>2
  <2> QED BY <1>4, <2>3
<1>6. PICK R : R = ReadyNodes(S, done)
  OBVIOUS
<1>7. R # {} /\ R \subseteq S
  BY <1>5, <1>6, SomeReady DEF ReadyNodes
<1>8. PICK o : o = Best(sc, R)
  OBVIOUS
<1>9. o \in R /\ o \in S /\ o \notin done
  <2>1. R \in SUBSET Ops /\ \A u \in R : sc[u] \in Int
    BY <1>2, <1>7
  <2>2. o \in R
    BY <1>7, <1>8, <2>1, BestIsThere
  <2> QED BY <1>6, <2>2 DEF ReadyNodes
<1>10. PICK p : p = Append(q, o)
  OBVIOUS
<1>11. Extends(p, q, done, o) /\ Ordered(p, S)
  BY <1>2, <1>3, <1>6, <1>9, <1>10, OrderedAppend
<1>12. Members(p) = done \cup {o} /\ Len(p) = n + 1
  BY <1>2, <1>11 DEF Extends
<1>13. p \in Seq(S)
  BY <1>2, <1>9, <1>10
<1>14. PICK left : left = S \ (done \cup {o})
  OBVIOUS
<1>15. PICK x : x = Append(w, o)
  OBVIOUS
<1>16. /\ x \in Seq(S) /\ x # <<>> /\ Members(x) \subseteq Members(p)
       /\ Tail(x) \in Seq(S) /\ Members(Tail(x)) \subseteq Members(p)
       /\ Head(x) \in Members(p)
  <2>1. Members(w) \cup {o} \subseteq Members(p)
    BY <1>2, <1>3, <1>12
  <2> QED BY <1>2, <1>9, <1>15, <2>1, WindowMembers
<1>17. PICK more : more = Add(sc, o, S, left)
  OBVIOUS
<1>18. more \in [S -> Int] /\ \A u \in left : more[u] = NearTo(u, x, S)
  <2>1. \A u \in left : sc[u] = NearTo(u, w, S)
    BY <1>2, <1>3, <1>14 DEF Scored
  <2>2. left \in SUBSET S /\ o \notin left
    BY <1>14
  <2>3. /\ Add(sc, o, S, left) \in [S -> Int]
        /\ \A u \in left : Add(sc, o, S, left)[u] = NearTo(u, Append(w, o), S)
    BY <1>2, <1>9, <2>1, <2>2, EntersScored
  <2> QED BY <1>15, <1>17, <2>3
<1>19. PICK less : less = Drop(more, Head(x), S, left)
  OBVIOUS
<1>20. less \in [S -> Int] /\ \A u \in left : less[u] = NearTo(u, Tail(x), S)
  <2>1. left \in SUBSET S /\ Head(x) \notin left
    BY <1>12, <1>14, <1>16
  <2> QED BY <1>16, <1>18, <1>19, <2>1, LeavesScored
<1>21. left = S \ Members(p)
  BY <1>12, <1>14
<1>22. Turn(st, S) = [order  |-> p,
                      window |-> IF Len(x) > Window THEN Tail(x) ELSE x,
                      score  |-> IF Len(x) > Window THEN less ELSE more]
  BY <1>1, <1>3, <1>6, <1>8, <1>10, <1>14, <1>15, <1>17, <1>19 DEF Turn, Members
<1>23. CASE Len(x) > Window
  <2>1. PICK t : t = Turn(st, S)
    OBVIOUS
  <2>2. t = [order |-> p, window |-> Tail(x), score |-> less]
    BY <1>22, <1>23, <2>1
  <2>3. t \in GorderTurns(S) /\ t.order = p /\ t.window = Tail(x) /\ t.score = less
    BY <1>13, <1>16, <1>20, <2>2 DEF GorderTurns
  <2>4. Scored(t.order, t.window, t.score, S)
    BY <1>20, <1>21, <2>3 DEF Scored
  <2> QED BY <1>11, <1>12, <1>16, <2>1, <2>3, <2>4 DEF Turned
<1>24. CASE ~(Len(x) > Window)
  <2>1. PICK t : t = Turn(st, S)
    OBVIOUS
  <2>2. t = [order |-> p, window |-> x, score |-> more]
    BY <1>22, <1>24, <2>1
  <2>3. t \in GorderTurns(S) /\ t.order = p /\ t.window = x /\ t.score = more
    BY <1>13, <1>16, <1>18, <2>2 DEF GorderTurns
  <2>4. Scored(t.order, t.window, t.score, S)
    BY <1>18, <1>21, <2>3 DEF Scored
  <2> QED BY <1>11, <1>12, <1>16, <2>1, <2>3, <2>4 DEF Turned
<1> QED BY <1>23, <1>24
LEMMA GorderTurned ==
  ASSUME prob \in Problems, NEW S \in SUBSET Ops
  PROVE  \A n \in 0..Cardinality(S) : Turned(n, GorderStates(S)[n], S)
<1>0. PICK N \in Nat : N = Cardinality(S)
  BY OpsAssumption, FS_Subset, FS_CardinalityType
<1> DEFINE d0 == FirstTurn(S)
           D == GorderTurns(S)
           F == [x \in Nat \X D |-> IF Turn(x[2], S) \in D THEN Turn(x[2], S) ELSE d0]
           Body(f) == [n \in 0..N |-> IF n = 0 THEN d0 ELSE Turn(f[n - 1], S)]
<1>1. ASSUME NEW n, NEW st, Turned(n, st, S) PROVE st \in D
  BY <1>1 DEF Turned
<1>2. d0 \in D /\ Turned(0, d0, S)
  BY <1>1, TurnStarts
<1>3. F \in [Nat \X D -> D]
  <2> HIDE DEF D, d0
  <2> QED BY <1>2
<1>4. PICK f : Iterates(f, N, D, d0, F)
  <2> HIDE DEF F, d0, D
  <2> QED BY <1>2, <1>3, IterationExists
<1>5. ASSUME NEW n \in 1..N, Turned(n - 1, f[n - 1], S)
      PROVE  f[n] = Turn(f[n - 1], S) /\ Turned(n, f[n], S)
  <2>1. n \in Nat /\ f[n - 1] \in D /\ n - 1 \in Nat /\ (n - 1) + 1 = n
        /\ n - 1 < Cardinality(S)
    BY <1>0, <1>1, <1>5
  <2>2. Turned(n, Turn(f[n - 1], S), S) /\ Turn(f[n - 1], S) \in D
    BY <1>1, <1>5, <2>1, TurnKeeps
  <2>3. PICK x : x = <<n, f[n - 1]>>
    OBVIOUS
  <2>4. x \in Nat \X D /\ x[2] = f[n - 1]
    <3> HIDE DEF D
    <3> QED BY <2>1, <2>3
  <2>5. F[x] = Turn(f[n - 1], S)
    <3> HIDE DEF D, d0
    <3> QED BY <2>2, <2>4
  <2>6. f[n] = F[x]
    <3> HIDE DEF F, D, d0
    <3> QED BY <1>4, <2>3 DEF Iterates
  <2> QED BY <2>2, <2>5, <2>6
<1>6. \A n \in 0..N : Turned(n, f[n], S)
  <2> DEFINE T == {n \in Nat : Turned(n, f[n], S)}
  <2>1. 0 \in T
    <3> HIDE DEF F, D, d0
    <3> QED BY <1>2, <1>4 DEF Iterates
  <2>2. ASSUME NEW n \in 0..(N - 1), n \in T PROVE n + 1 \in T
    <3>1. n + 1 \in 1..N /\ (n + 1) - 1 = n /\ n + 1 \in Nat
      OBVIOUS
    <3>2. Turned(n + 1, f[n + 1], S)
      BY <1>5, <2>2, <3>1
    <3> QED BY <3>1, <3>2
  <2>3. 0..N \subseteq T
    <3> HIDE DEF T
    <3> QED BY <2>1, <2>2, InductionUpTo
  <2> QED BY <2>3
<1>7. f = Body(f)
  <2>1. f[0] = d0 /\ f \in [0..N -> D]
    <3> HIDE DEF F, D, d0
    <3> QED BY <1>4 DEF Iterates
  <2>2. ASSUME NEW n \in 1..N PROVE f[n] = Turn(f[n - 1], S)
    <3>1. n - 1 \in 0..N
      OBVIOUS
    <3> QED BY <1>5, <1>6, <3>1
  <2> HIDE DEF d0, D
  <2> QED BY <2>1, <2>2
<1>8. \E g : g = Body(g)
  BY <1>7
<1> DEFINE r == CHOOSE g : g = Body(g)
<1>9. r = Body(r)
  BY <1>8, Zenon
<1>10. GorderStates(S) = r
  BY <1>0 DEF GorderStates, FirstTurn
<1> HIDE DEF r
<1>11. ASSUME NEW n \in 0..N PROVE r[n] = IF n = 0 THEN d0 ELSE Turn(r[n - 1], S)
  <2> HIDE DEF d0
  <2>1. Body(r)[n] = IF n = 0 THEN d0 ELSE Turn(r[n - 1], S)
    OBVIOUS
  <2>2. r[n] = Body(r)[n]
    <3> HIDE DEF Body
    <3> QED BY <1>9
  <2> HIDE DEF Body
  <2> QED BY <2>1, <2>2
<1>12. \A n \in 0..N : Turned(n, r[n], S)
  <2> DEFINE T == {n \in Nat : Turned(n, r[n], S)}
  <2>1. 0 \in T
    <3>1. 0 \in 0..N
      OBVIOUS
    <3> HIDE DEF d0
    <3> QED BY <1>2, <1>11, <3>1
  <2>2. ASSUME NEW n \in 0..(N - 1), n \in T PROVE n + 1 \in T
    <3>1. n + 1 \in 0..N /\ n + 1 # 0 /\ (n + 1) - 1 = n /\ n + 1 \in Nat /\ n \in Nat
          /\ n < Cardinality(S)
      BY <1>0
    <3>2. Turned(n + 1, Turn(r[n], S), S)
      BY <2>2, <3>1, TurnKeeps
    <3> HIDE DEF d0
    <3>3. r[n + 1] = Turn(r[n], S)
      BY <1>11, <3>1
    <3> QED BY <3>1, <3>2, <3>3
  <2>3. 0..N \subseteq T
    <3> HIDE DEF T
    <3> QED BY <2>1, <2>2, InductionUpTo
  <2> QED BY <2>3
<1> QED BY <1>0, <1>10, <1>12

LEMMA GorderReplays ==
  ASSUME prob \in Problems, NEW S \in SUBSET Ops
  PROVE  /\ Replays(Gorder(S), S)
         /\ \A n \in 0..Cardinality(S) :
              LET st == GorderStates(S)[n]
              IN  \A u \in S \ Members(st.order) : st.score[u] = NearTo(u, st.window, S)
<1>0. PICK N \in Nat : N = Cardinality(S)
  BY OpsAssumption, FS_Subset, FS_CardinalityType
<1>1. \A n \in 0..N : Turned(n, GorderStates(S)[n], S)
  BY <1>0, GorderTurned
<1>2. PICK st : st = GorderStates(S)[N]
  OBVIOUS
<1>3. Ordered(st.order, S) /\ Len(st.order) = N
  BY <1>0, <1>1, <1>2 DEF Turned
<1>4. Members(st.order) = S
  <2>1. Members(st.order) \subseteq S /\ Lists(st.order, Members(st.order))
    BY <1>3 DEF Ordered
  <2>2. IsFiniteSet(S) /\ IsFiniteSet(Members(st.order))
    BY <2>1, OpsAssumption, FS_Subset
  <2>3. Cardinality(Members(st.order)) = Cardinality(S)
    BY <1>0, <1>3, <2>1, <2>2, ListLength
  <2> QED BY <2>1, <2>2, <2>3, FS_Subset
<1>5. Replays(st.order, S)
  BY <1>3, <1>4, OrderedReplays
<1>6. Gorder(S) = st.order
  BY <1>0, <1>2 DEF Gorder
<1>7. ASSUME NEW n \in 0..N, NEW s, s = GorderStates(S)[n]
      PROVE  \A u \in S \ Members(s.order) : s.score[u] = NearTo(u, s.window, S)
  BY <1>1, <1>7 DEF Turned, Scored
<1> QED BY <1>0, <1>5, <1>6, <1>7
-----------------------------------------------------------------------------
(* Whichever order the build asks for, the ops of a step are replayed once *)
(* each and after those they read from (pebbling_order.cpp,                *)
(* DfsPostOrderStrategy and DependencyConstrainedGorderStrategy).          *)
THEOREM ReplaysAreOrdered == PipelineSpec => []ReplayOrdered
<1>1. ASSUME Planned PROVE ReplayOrdered
  <2> SUFFICES ASSUME stage = "done", NEW i \in DOMAIN plan, NEW S, S = plan[i].ops,
                      NEW order \in {DfsPostOrder(S), Gorder(S)}
               PROVE  Replays(order, S)
    BY DEF ReplayOrdered, Replays
  <2>1. prob \in Problems /\ S \in SUBSET Ops
    BY <1>1 DEF Planned, Partitioned, Sound, Tabled, OverOps
  <2> QED BY <2>1, DfsReplays, GorderReplays
<1> QED BY <1>1, PlansAreSound, PTL

(* The scores kept up to date as nodes enter and leave the window are what *)
(* the window adds up to, so none ever falls below zero                    *)
(* (pebbling_order.cpp, adjust_window_score).                              *)
THEOREM ScoresAreExact == PipelineSpec => []ScoresExact
<1>1. ASSUME Planned PROVE ScoresExact
  <2> SUFFICES ASSUME stage = "done", NEW i \in DOMAIN plan, NEW S, S = plan[i].ops,
                      NEW n \in 0..Cardinality(S), NEW st, st = GorderStates(S)[n],
                      NEW u \in S \ Members(st.order)
               PROVE  st.score[u] = NearTo(u, st.window, S)
    BY DEF ScoresExact
  <2>1. prob \in Problems /\ S \in SUBSET Ops
    BY <1>1 DEF Planned, Partitioned, Sound, Tabled, OverOps
  <2> QED BY <2>1, GorderReplays
<1> QED BY <1>1, PlansAreSound, PTL
=============================================================================
