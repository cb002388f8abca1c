------------------------------ MODULE Coupling ------------------------------
(***************************************************************************)
(* The coupled search: a partition whose groups may be linked into chains. *)
(* A link a -> b says that b runs right after a and finds some tensors     *)
(* still on chip; it is written on both sides (next_group and prev_group)  *)
(* with the tensors in a map of their own, and the partition moves of the  *)
(* FM pass edit the groups under it.  This module has the upkeep of the    *)
(* links after every partition move, the five moves on links, the repairs  *)
(* of the outer loop, and greedy descent.                                  *)
(*                                                                         *)
(* Costs are left open as in FmMoves, and so is which candidate wins, the  *)
(* locks and the drift limits: a pass may stop, and fall back to its best  *)
(* checkpoint, in any state.                                               *)
(***************************************************************************)
EXTENDS FmMoves

CONSTANTS
  Retainable,    \* feasibly_ret: tensors that can stay in fast memory
  StartTables    \* sequences of op sets: the partitions a search may start from
ASSUME RetainableAssumption == Retainable \subseteq Ops
ASSUME StartTablesAssumption ==
  \A q \in StartTables : q \in Seq(SUBSET Ops) /\ Len(q) <= MaxGroups

VARIABLES
  links,    \* next_group, prev_group and retained, as triples <<a, b, t>>
  phase     \* which part of the task has the partition

couplingVars == <<prob, ngroups, groups, index, edges, last, applied, links, phase>>

None == 0       \* SIZE_MAX: no link

NoLinks == [next |-> [g \in Slots |-> None],
            prev |-> [g \in Slots |-> None],
            kept |-> {}]

(* retained[{a, b}]; the code has no entry when it is empty.               *)
Kept(L, a, b) == {t \in Ops : <<a, b, t>> \in L.kept}

Triples(a, b, S) == {<<a, b, t>> : t \in S}

(* is_boundary_input_of *)
IsBoundaryInput(S, t) == t \notin S /\ ConsumedIn(t, S)

(* Tensors the link a -> b may keep: produced in a, read by b from outside.*)
Keepable(T, a, b) == {t \in T[a] : IsBoundaryInput(T[b], t)}

-----------------------------------------------------------------------------
(* Elementary edits.                                                       *)

Unlink(L, a, b) ==
  [next |-> [L.next EXCEPT ![a] = None],
   prev |-> [L.prev EXCEPT ![b] = None],
   kept |-> L.kept \ Triples(a, b, Ops)]

Link(L, a, b, S) ==
  [next |-> [L.next EXCEPT ![a] = b],
   prev |-> [L.prev EXCEPT ![b] = a],
   kept |-> L.kept \cup Triples(a, b, S)]

Redirected(L, a, b, c, d, S) == Link(Unlink(L, a, b), c, d, S)

(* Keep only S on the link; without anything left the link goes.           *)
PruneLink(L, a, b, S) ==
  IF Kept(L, a, b) = {} THEN L
  ELSE IF Kept(L, a, b) \cap S = {} THEN Unlink(L, a, b)
  ELSE [L EXCEPT !.kept = @ \ Triples(a, b, Ops \ S)]

(* Mutant of Validated: the consumer side is not looked at.                *)
ValidatedProducerOnly(L, T, a, b) == PruneLink(L, a, b, T[a])

(* validate_edge: a dead group has no ops, so its links keep nothing.      *)
Validated(L, T, a, b) == PruneLink(L, a, b, Keepable(T, a, b))

(* validate_group_edges: g's outgoing link, then its incoming one.         *)
OutValidated(L, T, g) == IF L.next[g] = None THEN L ELSE Validated(L, T, g, L.next[g])

InValidated(L, T, g) == IF L.prev[g] = None THEN L ELSE Validated(L, T, L.prev[g], g)

(* The same for the groups G in ascending order.                           *)
ValidateEdges(L, T, G) ==
  LET done[g \in 0..MaxGroups] ==
        IF g = 0 THEN L
        ELSE IF g \in G THEN InValidated(OutValidated(done[g - 1], T, g), T, g)
        ELSE done[g - 1]
  IN  done[MaxGroups]

-----------------------------------------------------------------------------
(* Chains.                                                                 *)

(* in_forward_chain, for all targets: the groups next leads to from a.     *)
Forward(L, a) ==
  LET walk[n \in 0..MaxGroups] ==
        IF n = 0 THEN {a}
        ELSE UNION {{g, L.next[g]} \ {None} : g \in walk[n - 1]}
  IN  walk[MaxGroups]

(* chain_head takes at most ngroups + 1 steps: on a ring it stops anywhere.*)
ChainHead(L, g) ==
  LET walk[n \in 0..(MaxGroups + 1)] ==
        IF n = 0 THEN {g}
        ELSE {IF L.prev[h] = None THEN h ELSE L.prev[h] : h \in walk[n - 1]}
  IN  CHOOSE h \in walk[ngroups + 1] : TRUE

ChainOf(L, g) == Forward(L, ChainHead(L, g))

(* merge_creates_cycle on a group graph E: a path leaves G and comes back. *)
ReachVia(E, X) ==
  LET reach[n \in 0..MaxGroups] ==
        IF n = 0 THEN X
        ELSE UNION {{g} \cup {h \in Slots : <<g, h>> \in E} : g \in reach[n - 1]}
  IN  reach[MaxGroups]

LeavesAndReturns(E, G) ==
  ReachVia(E, {h \in Slots \ G : \E g \in G : <<g, h>> \in E}) \cap G # {}

(* Mutant of ChainsJoinable: the two groups instead of their chains.       *)
GroupsJoinable(L, E, G) == ~LeavesAndReturns(E, G)

(* acyclic_chain_merge_groups, and the chain check of eval_couple.         *)
ChainsJoinable(L, E, G) == ~LeavesAndReturns(E, UNION {ChainOf(L, g) : g \in G})

-----------------------------------------------------------------------------
(* The upkeep of the links after a partition move; T is the new table.     *)

(* fixup_coupling_merge: ga has absorbed gb.  The link between the two     *)
(* goes; an outer link of gb becomes one of ga when ga has none there and  *)
(* no loop arises, and goes otherwise.  What ga's links keep must now be   *)
(* a boundary output on the producing side.  gb's own pointers, which the  *)
(* code clears last, go with its links: no search from ga meets gb before  *)
(* it has met gb's predecessor, where it ends.                             *)
Absorbed(L, ga, gb) ==
  LET L1 == IF L.next[ga] = gb THEN Unlink(L, ga, gb) ELSE L
  IN  IF L1.prev[ga] = gb THEN Unlink(L1, gb, ga) ELSE L1

TakeNext(L, ga, gb, gn) ==
  IF gn \in {None, ga, gb} THEN L
  ELSE IF L.next[ga] = None /\ ga \notin Forward(L, gn)
  THEN Redirected(L, gb, gn, ga, gn, Kept(L, gb, gn))
  ELSE Unlink(L, gb, gn)

TakePrev(L, ga, gb, gp) ==
  IF gp \in {None, ga, gb} THEN L
  ELSE IF L.prev[ga] = None /\ gp \notin Forward(L, ga)
  THEN Redirected(L, gp, gb, gp, ga, Kept(L, gp, gb))
  ELSE Unlink(L, gp, gb)

(* filter_retained; a dead end is not looked at.                           *)
Filtered(L, T, a, b) ==
  PruneLink(L, a, b, {t \in Ops : /\ T[a] # {} => IsBoundaryOutput(T[a], t)
                                  /\ T[b] # {} => IsBoundaryInput(T[b], t)})

FilterEnds(L, T, g) ==
  LET L1 == IF L.next[g] = None THEN L ELSE Filtered(L, T, g, L.next[g])
  IN  IF L1.prev[g] = None THEN L1 ELSE Filtered(L1, T, L1.prev[g], g)

FixupMerge(L, T, ga, gb) ==
  LET gn == IF L.prev[ga] = gb THEN None ELSE L.next[gb]
      gp == IF L.next[ga] = gb THEN None ELSE L.prev[gb]
      L1 == TakePrev(TakeNext(Absorbed(L, ga, gb), ga, gb, gn), ga, gb, gp)
  IN  [FilterEnds(L1, T, ga) EXCEPT !.next[gb] = None, !.prev[gb] = None]

FixupTensorMerge(L, T, G) ==
  LET done[g \in 0..MaxGroups] ==
        IF g = 0 THEN L
        ELSE IF g \in G \ {Least(G)} THEN FixupMerge(done[g - 1], T, Least(G), g)
        ELSE done[g - 1]
  IN  done[MaxGroups]

(* fixup_coupling_steal: what only op read in ga follows it to gb, if gb   *)
(* has no incoming link.  When ga still needs some of the tensors the link *)
(* stays with ga -- and gb's side is written all the same.                 *)
FixupSteal(L, T, op, ga, gb) ==
  LET p        == L.prev[ga]
      follows  == {t \in Kept(L, p, ga) : op \in Consumers(t) /\ ~ConsumedIn(t, T[ga] \ {op})}
      stays    == Kept(L, p, ga) \ follows
  IN  IF p = None \/ follows = {} \/ L.prev[gb] # None THEN L
      ELSE IF stays = {} THEN Link(Unlink(L, p, ga), p, gb, follows)
      ELSE [L EXCEPT !.kept = @ \ Triples(p, ga, follows), !.prev[gb] = p]

(* fixup_coupling_split: ga was cut and `new` holds the other side.  Each  *)
(* of ga's links stays with the side that can still serve it.              *)
FixupSplitIn(L, T, ga, new) ==
  LET p     == L.prev[ga]
      stays == {t \in Kept(L, p, ga) : IsBoundaryInput(T[ga], t)}
      moves == {t \in Kept(L, p, ga) \ stays : IsBoundaryInput(T[new], t)}
  IN  IF p = None \/ Kept(L, p, ga) = {} THEN L
      ELSE IF stays = {} /\ moves # {} THEN Redirected(L, p, ga, p, new, moves)
      ELSE PruneLink(L, p, ga, stays)

FixupSplitOut(L, T, ga, new) ==
  LET n     == L.next[ga]
      stays == {t \in Kept(L, ga, n) : IsBoundaryOutput(T[ga], t)}
      moves == {t \in Kept(L, ga, n) \ stays : IsBoundaryOutput(T[new], t)}
  IN  IF n = None \/ Kept(L, ga, n) = {} THEN L
      ELSE IF stays = {} /\ moves # {} THEN Redirected(L, ga, n, new, n, moves)
      ELSE PruneLink(L, ga, n, stays)

FixupSplit(L, T, ga, new) == FixupSplitOut(FixupSplitIn(L, T, ga, new), T, ga, new)

-----------------------------------------------------------------------------
(* Repairs over all links.                                                 *)

(* invalidate_couplings, on table T, looks at every outgoing link.         *)
OutChecked(L, T, g) ==
  LET h == L.next[g]
  IN  IF h = None THEN L
      ELSE IF T[g] = {} \/ T[h] = {} THEN Unlink(L, g, h)
      ELSE Validated(L, T, g, h)

Invalidated(L, T) ==
  LET done[g \in 0..MaxGroups] == IF g = 0 THEN L ELSE OutChecked(done[g - 1], T, g)
  IN  done[MaxGroups]

(* A link whose chain, cut in two there, does not join on graph E.         *)
BadLinks(L, T, E) ==
  {g \in Slots : /\ L.next[g] # None /\ T[g] # {} /\ T[L.next[g]] # {}
                 /\ ~ChainsJoinable(Unlink(L, g, L.next[g]), E, {g, L.next[g]})}

(* fix_chain_couplings: the first bad link goes, until there is none.      *)
FirstBadGone(L, T, E) ==
  LET bad == BadLinks(L, T, E)
  IN  IF bad = {} THEN L ELSE Unlink(L, Least(bad), L.next[Least(bad)])

ChainsFixed(L, T, E) ==
  LET done[n \in 0..MaxGroups] == IF n = 0 THEN L ELSE FirstBadGone(done[n - 1], T, E)
  IN  done[MaxGroups]

-----------------------------------------------------------------------------
(* Moves on links.                                                         *)

FreeTail(g) == g \in Alive /\ links.next[g] = None
FreeHead(g) == g \in Alive /\ links.prev[g] = None

Linked(a, b) == links.next[a] = b /\ links.prev[b] = a

(* eval_couple                                                             *)
CoupleFeasible(a, b, t) ==
  /\ a # b /\ {a, b} \subseteq Alive
  /\ \/ Linked(a, b) /\ t \notin Kept(links, a, b)
     \/ FreeTail(a) /\ FreeHead(b)
  /\ t \in Keepable(groups, a, b)
  /\ ChainsJoinable(links, edges, {a, b})

(* eval_uncouple: a tensor that a keeps on chip must have another source.  *)
UncoupleFeasible(a, b, t) ==
  /\ links.next[a] = b
  /\ t \in Kept(links, a, b)
  /\ \/ IsBoundaryOutput(groups[a], t)
     \/ \E h \in Holders(t) \ {a} : IsBoundaryOutput(groups[h], t)
     \/ b \in GroupsOf(t)

(* apply_uncouple                                                          *)
Uncoupled(L, a, b, t) == PruneLink(L, a, b, Ops \ {t})

(* The part of a split RETAIN_FORCE_SPLIT and FORCE_RETAIN check.          *)
CutAllowed(u, v, g) == SplitFeasible(u, v, g) /\ ~SplitCreatesCycle(g)

(* eval_retain_force_split: t = op is on chip in g and is cut off from b.  *)
RetainForceSplitFeasible(op, b, g) ==
  /\ op \in groups[g] /\ b \in groups[g] \cap Consumers(op)
  /\ ~IsBoundaryOutput(groups[g], op)
  /\ CutAllowed(op, b, g)
  /\ IsBoundaryInput(groups[g] \ SideOf(groups[g], op, b), op)

(* eval_force_retain: cut gd at (c, v) so that c's side can be linked.     *)
ForceRetainFeasible(op, a, c, v, gd) ==
  /\ op \in groups[a]
  /\ a # gd /\ FreeTail(a) /\ FreeHead(gd)
  /\ {c, v} \subseteq groups[gd]
  /\ IsBoundaryInput(groups[gd], op)
  /\ ChainsJoinable(links, edges, {a, gd})
  /\ CutAllowed(c, v, gd)
  /\ IsBoundaryInput(SideOf(groups[gd], c, v), op)

(* rebuild_index() and rebuild_group_dag() after a cut of g at (u, v).     *)
Rebuilt(table, n) ==
  /\ groups' = table
  /\ index' = IndexOf(table)
  /\ ngroups' = ngroups + n
  /\ edges' = BuildEdges(table, IndexOf(table))
  /\ prob' = prob

CutInTwo(u, v, g) ==
  LET stay == SideOf(groups[g], u, v)
  IN  /\ ngroups < MaxGroups
      /\ Rebuilt([groups EXCEPT ![g] = stay, ![ngroups + 1] = groups[g] \ stay], 1)

(* The new slot inherits g's outgoing link with what it kept.              *)
HandOver(L, g, new) ==
  IF L.next[g] = None THEN L
  ELSE LET n == L.next[g] IN Link(Unlink(L, g, n), new, n, Kept(L, g, n))

(* apply_retain_force_split: g keeps op and is linked to the part cut off. *)
ApplyRetainForceSplit(op, b, g) ==
  /\ CutInTwo(op, b, g)
  /\ links' = Link(HandOver(links, g, ngroups + 1), g, ngroups + 1, {op})

(* apply_force_retain: a is linked to c's side; the other side takes gd's  *)
(* outgoing link.                                                          *)
ApplyForceRetain(op, a, c, v, gd) ==
  LET n     == links.next[gd]
      freed == IF n = None THEN links ELSE Unlink(links, gd, n)
      L1    == Link(freed, a, gd, {op})
  IN  /\ CutInTwo(c, v, gd)
      /\ links' = IF n = None THEN L1 ELSE Link(L1, ngroups + 1, n, Kept(links, gd, n))

(* EPHEMERAL_FUSE: producer p of t = p and one consumer c form a group,    *)
(* and t is kept for group d, which holds another consumer.                *)
Fused(p, c, gp, gc, g) ==
  groups[g] \ ((IF g = gp THEN {p} ELSE {}) \cup (IF g = gc THEN {c} ELSE {}))

FuseFeasible(p, c, gp, gc, d) ==
  /\ c \in Consumers(p)
  /\ \E g \in Holders(p) : c \in groups[g]
  /\ FreeHead(d) /\ groups[d] \cap (Consumers(p) \ {c}) # {}
  /\ IsBoundaryInput(Fused(p, c, gp, gc, d), p)
  /\ Fits({p, c})
  /\ \A g \in {gp, gc, d} : AllFit(Fused(p, c, gp, gc, g))

ApplyFuse(p, c, gp, gc, d) ==
  LET rest(g) == Fused(p, c, gp, gc, g)
      pieces  == (UNION {Leftover(g, rest(g)) : g \in {gp, gc}}) \cup {<<Rank(0), {p, c}>>}
  IN  \E q \in Layouts(pieces) :
        LET table == NewTable([g \in {gp, gc} |-> FirstComponent(rest(g))], q)
            new   == ngroups + Len(q)
        IN  /\ Rebuilt(table, Len(q))
            /\ links' = Invalidated(Link(links, new, d, {p}), table)

-----------------------------------------------------------------------------
(* Partition moves under links.                                            *)

Fm(kind) == phase = "fm" /\ Take(kind) /\ UNCHANGED phase

(* Groups whose op set the step changes.                                   *)
Edited == {g \in Slots : groups'[g] # groups[g]}

(* Moves without a fixup of their own: the links of the edited groups are  *)
(* validated.                                                              *)
Revalidate == links' = ValidateEdges(links, groups', Edited)

CoupledDeRecompute ==
  /\ Fm("DE_RECOMPUTE")
  /\ \E op \in Ops : \E m \in DeRecomputeMoves(op) : ApplyDeRecompute(op, m.ga)
  /\ Revalidate

CoupledEject ==
  /\ Fm("EJECT")
  /\ \E op \in Ops : \E m \in EjectMoves(op) : ApplyEject(op, m.ga)
  /\ Revalidate

CoupledRecompute ==
  /\ Fm("RECOMPUTE")
  /\ \E op \in Ops : \E m \in RecomputeMoves(op) : ApplyRecompute(op, m.gb)
  /\ Revalidate

CoupledTensorExtract ==
  /\ Fm("TENSOR_EXTRACT")
  /\ \E op \in Ops : \E m \in TensorExtractMoves(op, {}) : ApplyTensorExtract(m.t, m.gs)
  /\ Revalidate

CoupledForceRecompute ==
  /\ Fm("FORCE_RECOMPUTE")
  /\ \E op \in Ops : \E m \in ForceRecomputeMoves(op, {}) : ApplyForceRecompute(m.t)
  /\ Revalidate

CoupledSplit ==
  /\ Fm("SPLIT")
  /\ \E op \in Ops : \E m \in SplitMoves(op) :
       /\ ApplySplit(op, m.v, m.ga)
       /\ links' = FixupSplit(links, groups', m.ga, ngroups + 1)

CoupledSteal ==
  /\ Fm("STEAL")
  /\ \E op \in Ops : \E m \in StealMoves(op) :
       /\ ApplySteal(op, m.ga, m.gb)
       /\ links' = ValidateEdges(
                     ValidateEdges(FixupSteal(links, groups', op, m.ga, m.gb), groups', {m.ga}),
                     groups', {m.gb})

CoupledMerge ==
  /\ Fm("MERGE")
  /\ \E op \in Ops : \E m \in MergeMoves(op) :
       /\ ChainsJoinable(links, edges, {m.ga, m.gb})
       /\ ApplyMerge(m.ga, m.gb)
       /\ links' = FixupMerge(links, groups', m.ga, m.gb)

CoupledTensorMerge ==
  /\ Fm("TENSOR_MERGE")
  /\ \E op \in Ops : \E m \in TensorMergeMoves(op, {}) :
       /\ ChainsJoinable(links, edges, m.gs)
       /\ ApplyTensorMerge(m.gs)
       /\ links' = FixupTensorMerge(links, groups', m.gs)

-----------------------------------------------------------------------------
(* The link moves.  FORCE_RETAIN is not part of greedy descent, which also *)
(* adds no tensor to a link that exists.                                   *)

InSearch(kind) == phase \in {"fm", "descent"} /\ Take(kind) /\ UNCHANGED phase

Couple ==
  /\ InSearch("COUPLE")
  /\ \E a, b \in Slots : \E t \in Retainable :
       /\ phase = "descent" => links.next[a] = None
       /\ CoupleFeasible(a, b, t)
       /\ links' = Link(links, a, b, {t})
  /\ UNCHANGED partVars

Uncouple ==
  /\ InSearch("UNCOUPLE")
  /\ \E a, b \in Slots : \E t \in Kept(links, a, b) :
       /\ UncoupleFeasible(a, b, t)
       /\ links' = Uncoupled(links, a, b, t)
  /\ UNCHANGED partVars

RetainForceSplit ==
  /\ InSearch("RETAIN_FORCE_SPLIT")
  /\ \E op \in Retainable : \E g \in Holders(op) : \E b \in Consumers(op) :
       /\ RetainForceSplitFeasible(op, b, g)
       /\ ApplyRetainForceSplit(op, b, g)

ForceRetain ==
  /\ Fm("FORCE_RETAIN")
  /\ \E op \in Retainable : \E a \in Holders(op) : \E c \in Consumers(op) :
       \E gd \in Holders(c) : \E v \in OpNeighbors(c) :
         /\ ForceRetainFeasible(op, a, c, v, gd)
         /\ ApplyForceRetain(op, a, c, v, gd)

EphemeralFuse ==
  /\ InSearch("EPHEMERAL_FUSE")
  /\ \E p \in Retainable : \E c \in Consumers(p) :
       \E gp \in Holders(p) : \E gc \in Holders(c) : \E d \in Slots :
         /\ Cardinality(Consumers(p)) >= 2
         /\ FuseFeasible(p, c, gp, gc, d)
         /\ ApplyFuse(p, c, gp, gc, d)

-----------------------------------------------------------------------------
(* The task around the moves.                                              *)

RetainedTensors(L) == {m[3] : m \in L.kept}

(* The pass ends: its best checkpoint comes back with a fresh index and a  *)
(* group graph that is built when it is next asked for.                    *)
EndPass ==
  /\ phase = "fm"
  /\ Rebuilt(groups, 0)
  /\ UNCHANGED <<links, phase, last, applied>>

(* The outer loop ends: links are validated, then those that no longer     *)
(* join are cut, and a partition with a gap is thrown away.                *)
EndSearch ==
  /\ phase = "fm"
  /\ Rebuilt(groups, 0)
  /\ links' = ChainsFixed(Invalidated(links, groups), groups, edges')
  /\ ~Refused(RetainedTensors(links'))
  /\ phase' = "entry"
  /\ UNCHANGED <<last, applied>>

(* A pool entry is refined by greedy descent, ...                          *)
StartDescent ==
  /\ phase = "entry"
  /\ phase' = "descent"
  /\ UNCHANGED <<partVars, links, last, applied>>

EndDescent ==
  /\ phase = "descent"
  /\ ~Refused(RetainedTensors(links))
  /\ phase' = "entry"
  /\ UNCHANGED <<partVars, links, last, applied>>

(* ... or starts the coupled FM of a later task.                           *)
StartTask ==
  /\ phase = "entry"
  /\ phase' = "fm"
  /\ UNCHANGED <<partVars, links, last, applied>>

(* A bare partition becomes an entry with links: its groups are put in     *)
(* some topological order, and some of what a group makes for the next in  *)
(* line is kept for it (seed_coupling_from_ordering).                      *)
Orders ==
  {q \in [1..Cardinality(Alive) -> Alive] :
     \A i, j \in DOMAIN q : i < j => q[i] # q[j] /\ <<q[j], q[i]>> \notin edges}

Hints(q) ==
  {m \in Slots \X Slots \X Retainable :
     /\ \E i \in DOMAIN q : i + 1 \in DOMAIN q /\ m[1] = q[i] /\ m[2] = q[i + 1]
     /\ m[3] \in Keepable(groups, m[1], m[2])}

Seeded(K) ==
  [next |-> [a \in Slots |-> IF \E m \in K : m[1] = a THEN (CHOOSE m \in K : m[1] = a)[2] ELSE None],
   prev |-> [b \in Slots |-> IF \E m \in K : m[2] = b THEN (CHOOSE m \in K : m[2] = b)[1] ELSE None],
   kept |-> K]

Seed ==
  /\ phase = "fm" /\ applied = 0 /\ links = NoLinks /\ ~Refused({})
  /\ Take("SEED")
  /\ \E q \in Orders : \E K \in (SUBSET Hints(q)) \ {{}} : links' = Seeded(K)
  /\ phase' = "entry"
  /\ UNCHANGED partVars

PartitionMove ==
  \/ CoupledDeRecompute \/ CoupledEject  \/ CoupledRecompute \/ CoupledTensorExtract
  \/ CoupledForceRecompute \/ CoupledSplit \/ CoupledSteal   \/ CoupledMerge
  \/ CoupledTensorMerge

LinkMove == Couple \/ Uncouple \/ RetainForceSplit \/ ForceRetain \/ EphemeralFuse

CoupledNext == PartitionMove \/ LinkMove
               \/ Seed \/ EndPass \/ EndSearch \/ StartDescent \/ EndDescent \/ StartTask

(* A start partition is disjoint, and the gap filter has let it through,   *)
(* be it because a link of an earlier task keeps the tensor that is not    *)
(* written.                                                                *)
TableOf(q) == [g \in Slots |-> IF g \in DOMAIN q THEN q[g] ELSE {}]

CoupledInit ==
  /\ prob \in Problems
  /\ \E q \in StartTables :
       /\ \A i \in DOMAIN q : Fits(q[i]) /\ q[i] = FirstComponent(q[i])
       /\ groups = TableOf(q)
       /\ ngroups = Len(q)
  /\ index = IndexOf(groups)
  /\ edges = BuildEdges(groups, index)
  /\ \/ ~Refused({}) /\ links = NoLinks
     \/ /\ Refused({})
        /\ \E a, b \in Slots : \E t \in Retainable \cap Keepable(groups, a, b) :
             ~Refused({t}) /\ links = Link(NoLinks, a, b, {t})
  /\ last = "none" /\ applied = 0
  /\ phase = "fm"

CoupledSpec == CoupledInit /\ [][CoupledNext]_couplingVars

-----------------------------------------------------------------------------
(* A link is written on both sides.                                        *)
LinksMutual ==
  \A b \in Slots : links.prev[b] # None => links.next[links.prev[b]] = b

(* Every link keeps something, and everything kept belongs to a link.      *)
LinksKept ==
  /\ \A a \in Slots : links.next[a] # None => Kept(links, a, links.next[a]) # {}
  /\ \A m \in links.kept : links.next[m[1]] = m[2]

(* And the first group makes what is kept, and the second reads it.        *)
LinksServe == LinksKept /\ \A m \in links.kept : m[3] \in Keepable(groups, m[1], m[2])

(* Moves that hand a whole retained set on without looking at it.          *)
HandsOver == last' \in {"RETAIN_FORCE_SPLIT", "FORCE_RETAIN"} /\ applied' # applied

(* The move whose fixup may write one side of a link only.                 *)
Steals == last' = "STEAL" /\ applied' # applied

(* The upkeep keeps the three records of a link in step: nothing is kept   *)
(* for a link that is gone, no link keeps nothing, and only a STEAL writes *)
(* one side without the other.  No move but those two breaks a link by     *)
(* editing the groups under it, and the outer loop (invalidate_couplings)  *)
(* repairs what they left behind.                                          *)
StaysServing ==
  [][LinksMutual /\ LinksKept =>
       /\ LinksKept'
       /\ ~Steals => LinksMutual'
       /\ LinksServe /\ ~HandsOver => LinksServe'
       /\ phase = "fm" /\ phase' = "entry" => LinksServe']_couplingVars

(* A chain joins when no path of the group graph leaves it and comes back: *)
(* then it can run without a break.                                        *)
ChainsJoined ==
  \A E \in {BuildEdges(groups, index)} :
    \A G \in {ChainOf(links, g) : g \in Alive} : ~LeavesAndReturns(E, G)

KeepsJoined(kinds) ==
  /\ Disjoint /\ Disjoint' /\ IsAcyclic /\ LinksMutual /\ ChainsJoined
  /\ applied' # applied /\ last' \in kinds
  => ChainsJoined'

(* Without recomputation, the seeding, the moves that look at the chains,  *)
(* and those that only cut groups inside one, never make a chain that      *)
(* something outside it has to interrupt.                                  *)
ChainsStayJoined ==
  [][KeepsJoined({"SEED", "COUPLE", "UNCOUPLE", "MERGE", "TENSOR_MERGE", "SPLIT",
                  "TENSOR_EXTRACT", "RETAIN_FORCE_SPLIT"})]_couplingVars
=============================================================================
