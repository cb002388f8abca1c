------------------------------ MODULE FmSearch ------------------------------
(***************************************************************************)
(* The two refinements a worker runs on a partition of its own: greedy     *)
(* descent and the passes of the FM outer loop.  Both keep, for every op,  *)
(* the best move found for it in a heap.  A move is applied long after it  *)
(* was evaluated: only ops near a change have theirs evaluated again.      *)
(*                                                                         *)
(* Costs are left open, so an entry of the heap is the set of moves any of *)
(* which may have been the best one when the op was last evaluated; the    *)
(* choice among them, and whether its saving clears the floor, is made     *)
(* when the op is popped.                                                  *)
(***************************************************************************)
EXTENDS FmMoves

CONSTANT InitCount      \* FMConfig::init_count: ops activated for a pass
ASSUME InitCountAssumption == InitCount \in Nat \ {0}

VARIABLES
  mode,      \* "idle", "greedy" or "pass"
  due,       \* ops whose entry was evaluated in the present state
  heap,      \* op -> what the others' entries may be ({}: not in the heap)
  locked,    \* ActiveSet::locked_
  base,      \* fm_outer_loop's part, which the next pass starts from
  best,      \* the pass's checkpoint: best_groups
  tidy       \* history: no op was recomputed when a move of this heap was made

searchVars == <<fmVars, mode, due, heap, locked, base, best, tidy>>

(* The heap entry of op.  best_move_for runs as soon as a move is made; its*)
(* result is written down here when the state it saw is about to change.   *)
Entry(op) == IF op \in due THEN Candidates(op, locked) ELSE heap[op]

(* What the heap holds once it has entries of the ops in S only.           *)
Keep(S) == [o \in Ops |-> IF o \in S THEN Entry(o) ELSE {}]

Empty == [o \in Ops |-> {}]

-----------------------------------------------------------------------------
(* Applying a move from the heap.                                          *)

ApplyMove(m) ==
  \/ m.type = "STEAL"           /\ ApplySteal(m.op, m.ga, m.gb)
  \/ m.type = "MERGE"           /\ ApplyMerge(m.ga, m.gb)
  \/ m.type = "RECOMPUTE"       /\ ApplyRecompute(m.op, m.gb)
  \/ m.type = "DE_RECOMPUTE"    /\ ApplyDeRecompute(m.op, m.ga)
  \/ m.type = "EJECT"           /\ ApplyEject(m.op, m.ga)
  \/ m.type = "SPLIT"           /\ ApplySplit(m.op, m.v, m.ga)
  \/ m.type = "TENSOR_MERGE"    /\ ApplyTensorMerge(m.gs)
  \/ m.type = "TENSOR_EXTRACT"  /\ ApplyTensorExtract(m.t, m.gs)
  \/ m.type = "TENSOR_EXTRACT_SPLIT" /\ ApplyTensorExtractSplit(m.t, m.gs, m.k)
  \/ m.type = "FORCE_RECOMPUTE" /\ ApplyForceRecompute(m.t)

(* The move's own checks, all it has left to notice that it is stale.      *)
MoveApplies(m) ==
  \/ m.type = "STEAL"           /\ StealApplies(m.op, m.ga, m.gb)
  \/ m.type = "MERGE"           /\ MergeApplies(m.ga, m.gb)
  \/ m.type = "RECOMPUTE"       /\ RecomputeApplies(m.op, m.gb)
  \/ m.type = "DE_RECOMPUTE"    /\ DeRecomputeApplies(m.op, m.ga)
  \/ m.type = "EJECT"           /\ EjectApplies(m.op, m.ga)
  \/ m.type = "SPLIT"           /\ SplitApplies(m.op, m.v, m.ga)
  \/ m.type = "TENSOR_MERGE"    /\ TensorMergeApplies(m.gs)
  \/ m.type = "TENSOR_EXTRACT"  /\ TensorExtractApplies(m.t, m.gs)
  \/ m.type = "TENSOR_EXTRACT_SPLIT"
  \/ m.type = "FORCE_RECOMPUTE" /\ PairsFit(m.t)

(* The groups a move edits.                                                *)
Edits(m) ==
  CASE m.type \in {"STEAL", "MERGE"}                   -> {m.ga, m.gb}
    [] m.type = "RECOMPUTE"                            -> {m.gb}
    [] m.type \in {"DE_RECOMPUTE", "EJECT", "SPLIT"}   -> {m.ga}
    [] m.type \in {"TENSOR_MERGE", "TENSOR_EXTRACT"}   -> m.gs
    [] m.type = "TENSOR_EXTRACT_SPLIT"                 -> m.gs \cap Alive
    [] m.type = "FORCE_RECOMPUTE"                      -> TouchedGroups(m.t)

(* Ops that may not move again in this pass, besides the popped one.       *)
ExtraLocks(m) ==
  CASE m.type = "MERGE"                              -> Union({m.ga, m.gb})
    [] m.type \in {"TENSOR_MERGE", "TENSOR_EXTRACT"} -> Union(m.gs)
    [] m.type = "SPLIT"                              -> groups[m.ga]
    [] m.type = "STEAL" -> OpNeighbors(m.op) \cap Union({m.ga, m.gb})
    [] m.type = "EJECT" -> OpNeighbors(m.op) \cap groups[m.ga]
    [] m.type = "FORCE_RECOMPUTE"                    -> Consumers(m.t)
    [] OTHER                                         -> {}

-----------------------------------------------------------------------------
(* Whose entries are evaluated again.                                      *)

(* Mutant of WithNeighbors: only the ops themselves.                       *)
WithoutNeighbors(S) == S

WithNeighbors(S) == S \cup UNION {OpNeighbors(o) : o \in S}

BoundaryNeighbors(g) == (UNION {OpNeighbors(o) : o \in groups[g]}) \ groups[g]

AdjacentGroups(g) == (UNION {GroupsOf(o) : o \in BoundaryNeighbors(g)}) \ {g}

(* ActiveSet::refresh_after_move.  Activating the border and internal ops  *)
(* of the relevant groups once more adds no op.                            *)
PassRefresh(affected) ==
  LET relevant == affected \cup UNION {AdjacentGroups(g) : g \in affected \cap Alive}
  IN  WithNeighbors(Union(relevant \cap Alive))

GreedyRefresh(op, affected) == WithNeighbors({op} \cup Union(affected \cap Alive))

-----------------------------------------------------------------------------
(* part.groups, copied.                                                    *)
Snapshot == [groups |-> groups, ngroups |-> ngroups]

Part == [groups |-> groups, ngroups |-> ngroups, index |-> index, edges |-> edges]

(* rebuild_index() and the group graph built from it.                      *)
Rebuilt(s) == [groups |-> s.groups, ngroups |-> s.ngroups,
               index |-> IndexOf(s.groups), edges |-> BuildEdges(s.groups, IndexOf(s.groups))]

(* From here on the search works on p.                                     *)
Become(p) ==
  /\ groups' = p.groups /\ ngroups' = p.ngroups
  /\ index' = p.index   /\ edges' = p.edges
  /\ last' = "none"
  /\ UNCHANGED <<prob, applied>>

Activatable ==
  {o \in Ops : \E g \in Alive : /\ o \in groups[g]
                                /\ IsBorderOp(o, g) \/ Cardinality(groups[g]) >= 3}

(* random_subset_n: all, or any InitCount of them.                         *)
Selections ==
  IF Cardinality(Activatable) <= 3 \/ Cardinality(Activatable) <= InitCount
  THEN {Activatable}
  ELSE {S \in SUBSET Activatable : Cardinality(S) = InitCount}

-----------------------------------------------------------------------------
(* greedy_descent evaluates every op and never locks one.  It starts from  *)
(* a fresh partition or from one whose index was just rebuilt.             *)
StartGreedy ==
  /\ mode = "idle"
  /\ mode' = "greedy"
  /\ Become(Rebuilt(Snapshot))
  /\ due' = Ops
  /\ heap' = Empty
  /\ tidy' = TRUE
  /\ UNCHANGED <<locked, base, best>>

(* fm_inner_pass on a copy of the outer loop's partition.                  *)
StartPass ==
  /\ mode = "idle"
  /\ mode' = "pass"
  /\ \E S \in Selections :
       due' = S
  /\ heap' = Empty
  /\ base' = Part
  /\ best' = Snapshot
  /\ locked' = {}
  /\ tidy' = TRUE
  /\ UNCHANGED fmVars

(* The popped move is applied and the ops around it are evaluated again;   *)
(* the entries of all other ops stay as they are.                          *)
GreedyMove ==
  /\ mode = "greedy"
  /\ \E op \in Ops : \E m \in Entry(op) :
       /\ Take(m.type)
       /\ ApplyMove(m)
       /\ \E affected \in {Edits(m) \cup ((ngroups + 1)..ngroups')} :
            due' = GreedyRefresh(op, affected)'
       /\ heap' = Keep(Ops \ ({op} \cup due'))
  /\ tidy' = (tidy /\ Disjoint)
  /\ UNCHANGED <<mode, locked, base, best>>

(* One iteration of the pass.  A new least cost makes a new checkpoint.    *)
PassMove ==
  /\ mode = "pass"
  /\ \E op \in Ops : \E m \in Entry(op) :
       /\ Take(m.type)
       /\ ApplyMove(m)
       /\ locked' = locked \cup {op} \cup ExtraLocks(m)
       /\ \E affected \in {Edits(m) \cup ((ngroups + 1)..ngroups')} :
            due' = PassRefresh(affected)' \ locked'
       /\ heap' = Keep(Ops \ (locked' \cup due'))
  /\ best' \in {best, Snapshot'}
  /\ tidy' = (tidy /\ Disjoint)
  /\ UNCHANGED <<mode, base>>

(* The popped move no longer applies.  Nothing is evaluated again, and in  *)
(* a pass the op stays locked.                                             *)
StaleMove ==
  /\ mode # "idle"
  /\ \E op \in Ops : \E m \in Entry(op) :
       /\ ~MoveApplies(m)
       /\ due' = {}
       /\ heap' = Keep(Ops \ {op})
       /\ locked' = IF mode = "pass" THEN locked \cup {op} ELSE locked
  /\ UNCHANGED <<fmVars, mode, base, best, tidy>>

(* No entry is left, or none that saves anything, or the iteration cap.    *)
EndGreedy ==
  /\ mode = "greedy"
  /\ mode' = "idle"
  /\ due' = {}
  /\ heap' = Empty
  /\ UNCHANGED <<fmVars, locked, base, best, tidy>>

(* Exhausted, drifted too far, nothing gained for too long, or deadline:   *)
(* the outer loop goes on from the checkpoint if the pass made one and     *)
(* from where it was otherwise.                                            *)
EndPass ==
  /\ mode = "pass"
  /\ mode' = "idle"
  /\ Become(IF best.groups = base.groups THEN base ELSE Rebuilt(best))
  /\ due' = {}
  /\ heap' = Empty
  /\ locked' = {}
  /\ UNCHANGED <<base, best, tidy>>

SearchNext == \/ StartGreedy \/ GreedyMove \/ EndGreedy
              \/ StartPass   \/ PassMove   \/ EndPass
              \/ StaleMove

SearchInit ==
  /\ Init
  /\ mode = "idle"
  /\ due = {}
  /\ heap = Empty
  /\ locked = {}
  /\ base = Part
  /\ best = Snapshot
  /\ tidy = TRUE

SearchSpec == SearchInit /\ [][SearchNext]_searchVars

-----------------------------------------------------------------------------
(* The ephemeral-gap checks are made when a move is evaluated, never when  *)
(* it is applied: refreshing the neighbourhood of each change is enough    *)
(* for them, as long as no op was recomputed since the heap was filled.    *)
StaleStaysGapFree ==
  [][mode = mode' => (tidy /\ Disjoint /\ ~HasEphemeralGap /\ last' \in GapChecked
                       => ~HasEphemeralGap')]_searchVars

(* While every move since the heap was filled was made without recomputed  *)
(* ops, a pending move can still be applied, but for a STEAL, which makes  *)
(* its cycle check once more: whatever could be refused is evaluated anew. *)
(* An evaluation prices what is left behind piece by piece and some moves  *)
(* price it again as one set; for those to agree, such a set must fit when *)
(* its pieces do.                                                          *)
PiecesFit == \A S \in (SUBSET Ops) \ {{}} : AllFit(S) => Fits(S)

PendingApplies ==
  tidy /\ PiecesFit =>
    \A o \in Ops : \A m \in Entry(o) : m.type # "STEAL" => MoveApplies(m)
=============================================================================
