------------------------------ MODULE FmMoves ------------------------------
(***************************************************************************)
(* The eleven partition moves of the FM search.  For each kind: the        *)
(* candidates best_move_for may return for an op (XMoves), the conditions  *)
(* the apply function re-checks (XApplies), and the mutation together with *)
(* the index maintenance of apply_fm_move (ApplyX).                        *)
(*                                                                         *)
(* Costs are left open: a cost is only known to be finite (Fits) or not,   *)
(* so any admissible candidate may be the one with the best saving.        *)
(* The specification of this module takes every move from the state it was *)
(* evaluated in; FmSearch adds the heap in which candidates wait.          *)
(***************************************************************************)
EXTENDS Partition

CONSTANT MaxMoves       \* bound: moves a behaviour may make
ASSUME MaxMovesAssumption == MaxMoves \in Nat

VARIABLES
  last,      \* history: the kind of the last move
  applied    \* moves made so far

fmVars == <<prob, ngroups, groups, index, edges, last, applied>>

Holders(o) == GroupsOf(o) \cap Alive

(* Groups op may be pulled into.                                           *)
AdjGroups(op) == {g \in Alive : /\ op \notin groups[g]
                                /\ \E n \in OpNeighbors(op) : g \in GroupsOf(n)}

(* A holder of t other than g exports it.                                  *)
SuppliedElsewhere(t, g) == \E h \in Holders(t) \ {g} : ~ConsumedIn(t, groups[h])

(* Mutant of ShrunkIndex: the old entries of g are not removed.            *)
GrownIndex(q, g, stay) == IndexAdd(IndexAppend(index, q), stay, g)

(* Index after group g was cut down to `stay` and the pieces q appended.   *)
ShrunkIndex(q, g, stay) ==
  IndexAdd(IndexRemove(IndexAppend(index, q), groups[g], g), stay, g)

-----------------------------------------------------------------------------
(* DE_RECOMPUTE: drop one copy of a recomputed op.                         *)

DeRecomputeFeasible(op, ga) ==
  /\ op \in groups[ga]
  /\ Holders(op) \ {ga} # {}
  /\ AllFit(groups[ga] \ {op})
  /\ \/ SuppliedElsewhere(op, ga)
     \/ \A c \in Consumers(op) : \E h \in Holders(c) \ {ga} : op \in groups[h]

DeRecomputeMoves(op) ==
  {[type |-> "DE_RECOMPUTE", op |-> op, ga |-> g] : g \in {g \in Holders(op) :
     /\ InMultiple(op)
     /\ ~DeRecomputeCreatesCycle(op, g)
     /\ DeRecomputeFeasible(op, g)}}

DeRecomputeApplies(op, ga) ==
  /\ op \in groups[ga]
  /\ \/ groups[ga] = {op}
     \/ DeRecomputeFeasible(op, ga) /\ Fits(groups[ga] \ {op})

ApplyDeRecompute(op, ga) ==
  LET rest   == groups[ga] \ {op}
      stay   == FirstComponent(rest)
      pieces == Leftover(ga, rest)
  IN  /\ DeRecomputeApplies(op, ga)
      /\ \E q \in Layouts(pieces) :
           Commit(NewTable([g \in {ga} |-> stay], q), ShrunkIndex(q, ga, stay),
                  q, {ga} \cup Appended(q))

-----------------------------------------------------------------------------
(* EJECT and INTERNAL_EJECT: op leaves ga for a group of its own, or just  *)
(* leaves when another group holds it (singleton_cost = 0).                *)

(* Mutant of EjectCreatesEphemeralGap: asks for a consumer outside ga.     *)
EjectStrandsOutsider(op, ga) ==
  \E t \in Producers(op) \cap groups[ga] :
    /\ (Consumers(t) \ {op}) \ groups[ga] # {}
    /\ t \notin prob.required
    /\ ~SuppliedElsewhere(t, ga)

EjectCreatesEphemeralGap(op, ga) ==
  \E t \in Producers(op) \cap groups[ga] :
    /\ (Consumers(t) \ {op}) \cap groups[ga] # {}
    /\ t \notin prob.required
    /\ ~SuppliedElsewhere(t, ga)

EjectFeasible(op, ga) ==
  /\ op \in groups[ga] /\ groups[ga] # {op}
  /\ AllFit(groups[ga] \ {op})
  /\ GroupsOf(op) \ {ga} # {} \/ Fits({op})

EjectAdmitted(op, g) ==
  /\ ~EjectCreatesEphemeralGap(op, g)
  /\ InMultiple(op) => ~DeRecomputeCreatesCycle(op, g)

MidSized(g) == Cardinality(groups[g]) \in 3..15

EjectMoves(op) ==
  {[type |-> "EJECT", op |-> op, ga |-> g] : g \in {g \in GroupsOf(op) :
     /\ IsBorderOp(op, g) \/ MidSized(g)
     /\ EjectAdmitted(op, g)
     /\ EjectFeasible(op, g)}}

EjectApplies(op, ga) == EjectFeasible(op, ga)

ApplyEject(op, ga) ==
  LET rest   == groups[ga] \ {op}
      stay   == FirstComponent(rest)
      alone  == IF GroupsOf(op) \ {ga} # {} THEN {} ELSE {<<Rank(0), {op}>>}
      pieces == Leftover(ga, rest) \cup alone
  IN  /\ EjectApplies(op, ga)
      /\ \E q \in Layouts(pieces) :
           Commit(NewTable([g \in {ga} |-> stay], q), ShrunkIndex(q, ga, stay),
                  q, {ga} \cup Appended(q))

-----------------------------------------------------------------------------
(* SPLIT: cut ga at a bridge edge.                                         *)

SplitFeasible(op, v, ga) ==
  /\ IsBridge(groups[ga], op, v)
  /\ Fits(SideOf(groups[ga], op, v))
  /\ Fits(groups[ga] \ SideOf(groups[ga], op, v))

(* split_creates_ephemeral_gap_local: a tensor that stays on chip on one   *)
(* side is needed on the other.                                            *)
Strands(in, out, ga) ==
  \E c \in out : \E t \in Producers(c) \cap in :
    IsEphemeral(in, t) /\ ~SuppliedElsewhere(t, ga)

SplitCreatesGapLocal(S, T, ga) == Strands(S, T, ga) \/ Strands(T, S, ga)

SplitMoves(op) ==
  {[type |-> "SPLIT", op |-> op, ga |-> m[1], v |-> m[2]] :
     m \in {m \in GroupsOf(op) \X OpNeighbors(op) :
       LET g == m[1]
           side == SideOf(groups[g], op, m[2])
       IN  /\ ~IsBorderOp(op, g) /\ MidSized(g) /\ m[2] \in groups[g]
           \* a refused INTERNAL_EJECT of a recomputed op skips the splits too
           /\ EjectCreatesEphemeralGap(op, g) \/ EjectAdmitted(op, g)
           /\ SplitFeasible(op, m[2], g)
           /\ ~SplitCreatesGapLocal(side, groups[g] \ side, g)
           /\ ~SplitCreatesCycle(g)}}

SplitApplies(op, v, ga) == SplitFeasible(op, v, ga)

ApplySplit(op, v, ga) ==
  LET stay   == SideOf(groups[ga], op, v)
      moved  == groups[ga] \ stay
      pieces == {<<Rank(0), moved>>}
  IN  /\ SplitApplies(op, v, ga)
      /\ \E q \in Layouts(pieces) :
           Commit(NewTable([g \in {ga} |-> stay], q),
                  IndexRemove(IndexAppend(index, q), moved, ga),
                  q, {ga} \cup Appended(q))

-----------------------------------------------------------------------------
(* STEAL: op moves from one group into an adjacent one.                    *)

StealMoves(op) ==
  {[type |-> "STEAL", op |-> op, ga |-> m[1], gb |-> m[2]] :
     m \in {m \in Holders(op) \X AdjGroups(op) :
       LET rest == groups[m[1]] \ {op}
           into == groups[m[2]] \cup {op}
       IN  /\ m[1] # m[2]
           /\ Fits(into) /\ AllFit(rest)
           /\ ~StealCreatesCycle(op, m[1], m[2])
           /\ ~SplitCreatesEphemeralGap({into, rest}, {m[1], m[2]})}}

StealApplies(op, from, to) ==
  /\ op \in groups[from] /\ to \in Alive
  /\ ~StealCreatesCycle(op, from, to)
  /\ Fits(groups[to] \cup {op})
  /\ groups[from] = {op} \/ Fits(groups[from] \ {op})

ApplySteal(op, from, to) ==
  LET rest   == groups[from] \ {op}
      stay   == FirstComponent(rest)
      pieces == Leftover(from, rest)
  IN  /\ StealApplies(op, from, to)
      /\ \E q \in Layouts(pieces) :
           Commit(NewTable([g \in {from, to} |->
                              IF g = to THEN groups[to] \cup {op} ELSE stay], q),
                  IndexAdd(ShrunkIndex(q, from, stay), {op}, to),
                  q, {from, to} \cup Appended(q))

-----------------------------------------------------------------------------
(* MERGE: ga, which does not hold op, absorbs gb, which does.  When op is  *)
(* all of gb, a STEAL saves the same and is looked at first.               *)

StolenInstead(op, ga, gb) ==
  /\ groups[gb] = {op}
  /\ \E m \in StealMoves(op) : m.ga = gb /\ m.gb = ga

MergeMoves(op) ==
  {[type |-> "MERGE", op |-> op, ga |-> m[1], gb |-> m[2]] :
     m \in {m \in AdjGroups(op) \X Holders(op) :
       LET merged == groups[m[1]] \cup groups[m[2]]
       IN  /\ m[1] # m[2]
           /\ ~StolenInstead(op, m[1], m[2])
           /\ Fits(groups[m[1]] \cup {op})
           /\ ~MergeCreatesCycle({m[1], m[2]})
           /\ ~CreatesEphemeralGap(merged, {m[1], m[2]})
           /\ Fits(merged)}}

MergeApplies(ga, gb) ==
  ga # gb /\ {ga, gb} \subseteq Alive /\ Fits(groups[ga] \cup groups[gb])

ApplyMerge(ga, gb) ==
  /\ MergeApplies(ga, gb)
  /\ Commit(NewTable([g \in {ga, gb} |->
                        IF g = ga THEN groups[ga] \cup groups[gb] ELSE {}], <<>>),
            IndexAdd(IndexRemove(index, groups[gb], gb), groups[gb], ga),
            <<>>, {ga, gb})

-----------------------------------------------------------------------------
(* RECOMPUTE: copy op into an adjacent group.                              *)

RecomputeFeasible(op, into) ==
  LET new == groups[into] \cup {op}
  IN  /\ into \in Alive
      /\ Fits(new)
      /\ ~CreatesEphemeralGap(new, {into})
      /\ \A t \in Producers(op) \ new :
           \E h \in Holders(t) : IsBoundaryOutput(groups[h], t)

RecomputeMoves(op) ==
  {[type |-> "RECOMPUTE", op |-> op, gb |-> g] : g \in {g \in AdjGroups(op) :
     /\ ~RecomputeCreatesCycle(op, g)
     /\ RecomputeFeasible(op, g)}}

RecomputeApplies(op, into) == into \in Alive /\ Fits(groups[into] \cup {op})

ApplyRecompute(op, into) ==
  /\ RecomputeApplies(op, into)
  /\ Commit(NewTable([g \in {into} |-> groups[into] \cup {op}], <<>>),
            IndexAdd(index, {op}, into), <<>>, {into})

-----------------------------------------------------------------------------
(* Moves around a tensor t that op reads and several ops consume.          *)
(* `locked` ops may not be dragged along; it is empty in greedy descent.   *)

(* The groups of t's consumers and one holder of its producer.  Which      *)
(* holder comes first in op_to_groups_ depends on the moves made before,   *)
(* so each may.                                                            *)
TensorGroups(t) ==
  LET users == UNION {GroupsOf(c) : c \in Consumers(t)}
      first == IF t \in Ops THEN GroupsOf(t) ELSE {}
  IN  IF first = {} THEN {users} ELSE {users \cup {h} : h \in first}

SharedTensors(op) == {t \in Reads(op) : Cardinality(Consumers(t)) >= 2}

TensorCandidates(op, locked) ==
  {m \in UNION {{t} \X TensorGroups(t) : t \in SharedTensors(op)} :
     /\ Cardinality(m[2]) >= 2
     /\ \A g \in m[2] : g \in Alive /\ groups[g] \cap locked = {}}

Union(G) == UNION {groups[g] : g \in G}

(* TENSOR_MERGE: the group with the least index absorbs the others.        *)
TensorMergeMoves(op, locked) ==
  {[type |-> "TENSOR_MERGE", op |-> op, t |-> m[1], gs |-> m[2]] :
     m \in {m \in TensorCandidates(op, locked) :
       /\ ~MergeCreatesCycle(m[2])
       /\ Fits(Union(m[2]))
       /\ ~CreatesEphemeralGap(Union(m[2]), m[2])}}

TensorMergeApplies(G) == G \subseteq Alive /\ Fits(Union(G))

ApplyTensorMerge(G) ==
  LET survivor == Least(G)
      killed   == G \ {survivor}
  IN  /\ TensorMergeApplies(G)
      /\ Commit(NewTable([g \in G |-> IF g = survivor THEN Union(G) ELSE {}], <<>>),
                [o \in Ops |-> [g \in Slots |->
                   IF g = survivor
                   THEN index[o][g] + Cardinality({k \in killed : o \in groups[k]})
                   ELSE IF g \in killed /\ o \in groups[g] THEN 0 ELSE index[o][g]]],
                <<>>, G)

-----------------------------------------------------------------------------
(* The ops of X leave the groups G, whose remainders fall apart into       *)
(* components, and `formed` is appended.                                   *)
Scatter(G, X, formed) ==
  LET rest(g) == groups[g] \ X
      stay(g) == FirstComponent(rest(g))
      pieces  == (UNION {Leftover(g, rest(g)) : g \in G}) \cup formed
  IN  /\ \E q \in Layouts(pieces) :
           LET appended == IndexAppend(index, q)
           IN  Commit(NewTable([g \in G |-> stay(g)], q),
                      [o \in Ops |-> [g \in Slots |->
                         IF g \in G /\ o \in groups[g]
                         THEN IF o \in stay(g) THEN 1 ELSE 0
                         ELSE appended[o][g]]],
                      q, G \cup Appended(q))

Extracted(t) == Consumers(t) \cup ({t} \cap Ops)

(* TENSOR_EXTRACT: producer and consumers of t form one group.             *)
TensorExtractMoves(op, locked) ==
  {[type |-> "TENSOR_EXTRACT", op |-> op, t |-> m[1], gs |-> m[2]] :
     m \in {m \in TensorCandidates(op, locked) :
       LET X     == Extracted(m[1])
           parts == UNION {Components(groups[g] \ X) : g \in m[2]}
       IN  /\ ~ExtractCreatesCycle(X)
           /\ \A C \in parts : Fits(C)
           /\ Fits(X)
           /\ ~SplitCreatesEphemeralGap({X} \cup parts, m[2])}}

TensorExtractApplies(t, G) ==
  /\ G \subseteq Alive
  /\ Fits(Extracted(t))
  /\ \A g \in G : groups[g] \subseteq Extracted(t) \/ Fits(groups[g] \ Extracted(t))

ApplyTensorExtract(t, G) ==
  /\ TensorExtractApplies(t, G)
  /\ Scatter(G, Extracted(t), {<<Rank(0), Extracted(t)>>})

-----------------------------------------------------------------------------
(* TENSOR_EXTRACT_SPLIT: the consumers are dealt out in op order to k sub- *)
(* groups, each with its own copy of the producer.                         *)

Position(c, S) == Cardinality({d \in S : d < c})

SubGroup(t, k, i) ==
  LET n   == Cardinality(Consumers(t))
      per == (n + k - 1) \div k
  IN  {t} \cup {c \in Consumers(t) : Position(c, Consumers(t)) \div per = i}

SplitFactors(n) == {k \in 2..n : \E e \in 1..n : k = 2^e}

TensorExtractSplitMoves(op, locked) ==
  {[type |-> "TENSOR_EXTRACT_SPLIT", op |-> op, t |-> m[1][1], gs |-> m[1][2], k |-> m[2]] :
     m \in {m \in TensorCandidates(op, locked) \X (2..Cardinality(Ops)) :
       LET t == m[1][1]
           k == m[2]
       IN  /\ t \in Ops
           /\ k \in SplitFactors(Cardinality(Consumers(t)))
           /\ \A g \in m[1][2] : AllFit(groups[g] \ Extracted(t))
           /\ \A i \in 0..(k - 1) : Fits(SubGroup(t, k, i))}}

(* Nothing is re-checked: dead sources are passed over.                    *)
ApplyTensorExtractSplit(t, G, k) ==
  Scatter(G \cap Alive, Extracted(t),
          {<<Rank(i), SubGroup(t, k, i)>> : i \in 0..(k - 1)})

-----------------------------------------------------------------------------
(* FORCE_RECOMPUTE: each consumer of t is paired with a copy of t.         *)

PairsFit(t) == /\ Cardinality(Consumers(t)) >= 2
               /\ \A c \in Consumers(t) : Fits({t, c})

TouchedGroups(t) == UNION {Holders(o) : o \in Extracted(t)}

(* A remainder that does not fit costs 1e18, so no such move is taken.     *)
ForceRecomputeMoves(op, locked) ==
  {[type |-> "FORCE_RECOMPUTE", op |-> op, t |-> t] : t \in {t \in Producers(op) :
     /\ PairsFit(t)
     /\ \A g \in TouchedGroups(t) : AllFit(groups[g] \ Extracted(t))
     /\ Extracted(t) \cap locked = {}}}

ApplyForceRecompute(t) ==
  LET G       == TouchedGroups(t)
      rest(g) == groups[g] \ Extracted(t)
      pieces  == (UNION {Leftover(g, rest(g)) : g \in G})
                 \cup {<<Rank(c), {t, c}>> : c \in Consumers(t)}
  IN  /\ PairsFit(t)
      /\ \E q \in Layouts(pieces) :
           LET table == NewTable([g \in G |-> FirstComponent(rest(g))], q)
           IN  /\ groups' = table
               /\ index' = IndexOf(table)          \* rebuild_index()
               /\ ngroups' = ngroups + Len(q)
               /\ edges' = UpdateEdges(BuildEdges(table, IndexOf(table)), table,
                                       IndexOf(table), G \cup Appended(q))
               /\ prob' = prob

-----------------------------------------------------------------------------
(* Everything best_move_for considers for op.                              *)
Candidates(op, locked) ==
  IF op \in locked \/ GroupsOf(op) = {} THEN {}
  ELSE DeRecomputeMoves(op) \cup EjectMoves(op) \cup SplitMoves(op)
       \cup StealMoves(op) \cup MergeMoves(op) \cup RecomputeMoves(op)
       \cup TensorMergeMoves(op, locked) \cup TensorExtractMoves(op, locked)
       \cup TensorExtractSplitMoves(op, locked) \cup ForceRecomputeMoves(op, locked)

(* Best is the move a step takes: `last` remembers its kind.               *)
Take(kind) == /\ applied < MaxMoves
              /\ applied' = applied + 1
              /\ last' = kind

DeRecompute ==
  /\ Take("DE_RECOMPUTE")
  /\ \E op \in Ops : \E m \in DeRecomputeMoves(op) : ApplyDeRecompute(op, m.ga)

Eject ==
  /\ Take("EJECT")
  /\ \E op \in Ops : \E m \in EjectMoves(op) : ApplyEject(op, m.ga)

Split ==
  /\ Take("SPLIT")
  /\ \E op \in Ops : \E m \in SplitMoves(op) : ApplySplit(op, m.v, m.ga)

Steal ==
  /\ Take("STEAL")
  /\ \E op \in Ops : \E m \in StealMoves(op) : ApplySteal(op, m.ga, m.gb)

Merge ==
  /\ Take("MERGE")
  /\ \E op \in Ops : \E m \in MergeMoves(op) : ApplyMerge(m.ga, m.gb)

Recompute ==
  /\ Take("RECOMPUTE")
  /\ \E op \in Ops : \E m \in RecomputeMoves(op) : ApplyRecompute(op, m.gb)

TensorMerge ==
  /\ Take("TENSOR_MERGE")
  /\ \E op \in Ops : \E m \in TensorMergeMoves(op, {}) : ApplyTensorMerge(m.gs)

TensorExtract ==
  /\ Take("TENSOR_EXTRACT")
  /\ \E op \in Ops : \E m \in TensorExtractMoves(op, {}) : ApplyTensorExtract(m.t, m.gs)

TensorExtractSplit ==
  /\ Take("TENSOR_EXTRACT_SPLIT")
  /\ \E op \in Ops : \E m \in TensorExtractSplitMoves(op, {}) :
       ApplyTensorExtractSplit(m.t, m.gs, m.k)

ForceRecompute ==
  /\ Take("FORCE_RECOMPUTE")
  /\ \E op \in Ops : \E m \in ForceRecomputeMoves(op, {}) : ApplyForceRecompute(m.t)

Next == \/ DeRecompute   \/ Eject         \/ Split
        \/ Steal         \/ Merge         \/ Recompute
        \/ TensorMerge   \/ TensorExtract \/ TensorExtractSplit
        \/ ForceRecompute

Init == PartitionInit /\ last = "none" /\ applied = 0

Spec == Init /\ [][Next]_fmVars

-----------------------------------------------------------------------------
TypeOK ==
  /\ prob \in Problems
  /\ ngroups \in 0..MaxGroups
  /\ groups \in [Slots -> SUBSET Ops]
  /\ index \in [Ops -> [Slots -> Nat]]
  /\ edges \subseteq Slots \X Slots
  /\ \A g \in Slots : g > ngroups => groups[g] = {}

(* groups_of(o) lists exactly the live holders of o: it neither misses a   *)
(* copy nor returns a group the op has left (the incremental index upkeep  *)
(* of apply_fm_move, fm_search.cpp).                                       *)
IndexCurrent == \A o \in Ops : GroupsOf(o) = {g \in Slots : o \in groups[g]}

(* No move loses an op: "apply_fm_move lost an op" never fires.            *)
NoOpLost == \A o \in Ops : Covered(o)

(* The incremental group graph stays between two bounds.  It invents no    *)
(* dependency a full build would not have ...                              *)
GdagSound == edges \subseteq BuildEdges(groups, index)

(* ... and it has every dependency of a group on a producer it lacks, when *)
(* the producing group does not hold the consumer as well.                 *)
GdagComplete ==
  \A g, h \in Alive :
    (\E p \in groups[g] \ groups[h] : Consumers(p) \cap (groups[h] \ groups[g]) # {})
      => <<g, h>> \in edges

(* As long as no op is recomputed, the local cycle checks are right for    *)
(* the moves that have one and move whole groups: such a move never turns  *)
(* an acyclic partition into a cyclic one.                                 *)
Disjoint == \A g, h \in Alive : g # h => groups[g] \cap groups[h] = {}

CycleChecked == {"MERGE", "RECOMPUTE", "SPLIT", "TENSOR_MERGE", "TENSOR_EXTRACT"}

StaysAcyclic ==
  [][Disjoint /\ IsAcyclic /\ last' \in CycleChecked => IsAcyclic']_fmVars

(* Likewise for the ephemeral-gap checks: a move that has one leaves no    *)
(* consumer without a source for a tensor.                                 *)
GapChecked == {"EJECT", "SPLIT", "STEAL", "MERGE", "TENSOR_MERGE", "TENSOR_EXTRACT"}

StaysGapFree ==
  [][Disjoint /\ ~HasEphemeralGap /\ last' \in GapChecked => ~HasEphemeralGap']_fmVars
=============================================================================
