-------------------------- MODULE CouplingForecast --------------------------
(***************************************************************************)
(* What the coupled search foresees of a partition move.  A move is priced *)
(* before it is made: coupled_fm_search.cpp works out, from the links as   *)
(* they are, which tensors the changed groups will enter with and which    *)
(* they will retain, and prices the groups in that context.  The upkeep    *)
(* that runs when the move is made is separate code, and the two must      *)
(* agree, or the pass ranks its moves by costs no partition has.           *)
(*                                                                         *)
(* Latencies are left out: a forecast is the context of a group, the pair  *)
(* of tensor sets the cost cache is asked with.                            *)
(***************************************************************************)
EXTENDS Coupling

(* entering_for and retain_for                                             *)
Entering(L, g) == IF L.prev[g] = None THEN {} ELSE Kept(L, L.prev[g], g)
Retaining(L, g) == IF L.next[g] = None THEN {} ELSE Kept(L, g, L.next[g])

Context(L, g) == [enter |-> Entering(L, g), retain |-> Retaining(L, g)]

BoundaryInputs(S, X)  == {t \in X : IsBoundaryInput(S, t)}
BoundaryOutputs(S, X) == {t \in X : IsBoundaryOutput(S, t)}

(* coupled_recompute_saving: gb with op added.                             *)
RecomputeForecast(op, gb) ==
  [enter  |-> BoundaryInputs(groups[gb] \cup {op}, Entering(links, gb)),
   retain |-> Retaining(links, gb)]

-----------------------------------------------------------------------------
(* coupled_steal_saving, for STEAL.                                        *)

(* Mutant of TakesItsLink: one such tensor is enough.                      *)
TakesTouchedLink(op, ga, gb) ==
  /\ Entering(links, ga) # {} /\ links.prev[gb] = None
  /\ \E t \in Entering(links, ga) : op \in Consumers(t)

(* fixup_coupling_steal foreseen: every tensor ga enters with is read by   *)
(* op there and by nothing else.                                           *)
TakesItsLink(op, ga, gb) ==
  /\ Entering(links, ga) # {} /\ links.prev[gb] = None
  /\ \A t \in Entering(links, ga) : Consumers(t) \cap groups[ga] = {op}

StealForecastFrom(op, ga, gb) ==
  LET rest == groups[ga] \ {op}
  IN  [enter  |-> IF TakesItsLink(op, ga, gb) THEN {}
                  ELSE BoundaryInputs(rest, Entering(links, ga)),
       retain |-> BoundaryOutputs(rest, Retaining(links, ga) \ {op})]

(* Nothing is left of a link to a group that dies.                         *)
StealForecastTo(op, ga, gb) ==
  LET whole == groups[gb] \cup {op}
      enter == IF TakesItsLink(op, ga, gb) THEN Entering(links, ga) ELSE Entering(links, gb)
      dies  == groups[ga] = {op} /\ links.next[gb] = ga
  IN  [enter  |-> BoundaryInputs(whole, enter),
       retain |-> IF dies THEN {} ELSE BoundaryOutputs(whole, Retaining(links, gb))]

(* The groups linked with ga or gb are priced with what those two will     *)
(* enter with and retain.                                                  *)
NeighbourRetains(op, ga, gb) ==
  {<<links.prev[ga], StealForecastFrom(op, ga, gb).enter>>,
   <<links.prev[gb], StealForecastTo(op, ga, gb).enter>>}

NeighbourEnters(op, ga, gb) ==
  {<<links.next[ga], StealForecastFrom(op, ga, gb).retain>>,
   <<links.next[gb], StealForecastTo(op, ga, gb).retain>>}

-----------------------------------------------------------------------------
(* coupled_merge_saving: the outer links the merged group will have.       *)

OuterPrev(ga, gb) ==
  LET pa == IF links.prev[ga] = gb THEN None ELSE links.prev[ga]
      pb == IF links.next[ga] = gb THEN None ELSE links.prev[gb]
  IN  IF pa # None THEN pa
      ELSE IF pb \in {None, ga, gb} \/ pb \in Forward(links, ga) THEN None ELSE pb

OuterNext(ga, gb) ==
  LET na == IF links.next[ga] = gb THEN None ELSE links.next[ga]
      nb == IF links.prev[ga] = gb THEN None ELSE links.next[gb]
  IN  IF na # None THEN na
      ELSE IF nb \in {None, ga, gb} \/ ga \in Forward(links, nb) THEN None ELSE nb

MergeForecast(ga, gb) ==
  LET whole == groups[ga] \cup groups[gb]
      p     == OuterPrev(ga, gb)
      n     == OuterNext(ga, gb)
  IN  [enter  |-> BoundaryInputs(whole, Kept(links, p, IF p = links.prev[ga] THEN ga ELSE gb)),
       retain |-> BoundaryOutputs(whole, Kept(links, IF n = links.next[ga] THEN ga ELSE gb, n))]

(* The neighbours priced as if their link to the merged groups were gone:  *)
(* those whose link is not taken over, and those whose link keeps nothing  *)
(* the merged group can use.                                               *)
LosesSuccessor(ga, gb) ==
  LET pb == IF links.next[ga] = gb THEN None ELSE links.prev[gb]
      p  == OuterPrev(ga, gb)
  IN  ({pb} \ {None, ga, gb, p})
      \cup (IF MergeForecast(ga, gb).enter = {} THEN {p} \ {None} ELSE {})

LosesPredecessor(ga, gb) ==
  LET nb == IF links.prev[ga] = gb THEN None ELSE links.next[gb]
      n  == OuterNext(ga, gb)
  IN  ({nb} \ {None, ga, gb, n})
      \cup (IF MergeForecast(ga, gb).retain = {} THEN {n} \ {None} ELSE {})

(* coupled_tensor_merge_saving: the first group with something to pass on, *)
(* the survivor before the others.                                         *)
TensorMergeForecast(G) ==
  LET s     == Least(G)
      whole == UNION {groups[g] : g \in G}
      ins   == {g \in G : /\ links.prev[g] \notin G \cup {None} /\ Entering(links, g) # {}
                          /\ g = s \/ s \notin Forward(links, links.prev[g])}
      outs  == {g \in G : /\ links.next[g] \notin G \cup {None} /\ Retaining(links, g) # {}
                          /\ g = s \/ s \notin Forward(links, links.next[g])}
  IN  [enter  |-> IF ins = {} THEN {} ELSE BoundaryInputs(whole, Entering(links, Least(ins))),
       retain |-> IF outs = {} THEN {} ELSE BoundaryOutputs(whole, Retaining(links, Least(outs)))]

-----------------------------------------------------------------------------
(* A move of this kind, made in a partition whose links are in order.      *)
Made(kind) ==
  LinksServe /\ LinksMutual /\ Disjoint /\ last' = kind /\ applied' # applied

RecomputeForeseen ==
  Made("RECOMPUTE") =>
    \A g \in Edited : \A op \in groups'[g] \ groups[g] :
      RecomputeForecast(op, g) = Context(links', g)

(* Except when the op is stolen by the group its own group is linked from: *)
(* the upkeep then redirects that link to the thief itself and drops it.   *)
(* And a link that follows the op is priced as lost to its predecessor.    *)
StealForeseen ==
  Made("STEAL") =>
    \A b \in Edited \cap Alive : \A a \in Edited \ {b} : \A op \in groups'[b] \ groups[b] :
      /\ links.prev[a] # b => StealForecastTo(op, a, b) = Context(links', b)
      /\ groups'[a] # {}   => StealForecastFrom(op, a, b) = Context(links', a)
      /\ ~TakesItsLink(op, a, b) =>
           \A f \in NeighbourRetains(op, a, b) :
             f[1] \notin {None, a, b} => Retaining(links', f[1]) = f[2]
      /\ \A f \in NeighbourEnters(op, a, b) :
           f[1] \notin {None, a, b} => Entering(links', f[1]) = f[2]

(* A merge prunes what the producing group does not write, and no forecast *)
(* of a merge looks at that: here every kept tensor is written.            *)
KeptIsWritten == \A m \in links.kept : IsBoundaryOutput(groups[m[1]], m[3])

MergeForeseen ==
  Made("MERGE") /\ KeptIsWritten =>
    \A a, b \in Edited : groups'[b] = {} /\ groups'[a] # {} =>
      /\ MergeForecast(a, b) = Context(links', a)
      /\ LosesSuccessor(a, b) =
           {n \in Slots \ {a, b} : links.next[n] # None /\ links'.next[n] = None}
      /\ LosesPredecessor(a, b) =
           {n \in Slots \ {a, b} : links.prev[n] # None /\ links'.prev[n] = None}

(* Except when two of the merged groups are linked with each other: the    *)
(* survivor is then promised what the other of them has from outside.      *)
TensorMergeForeseen ==
  Made("TENSOR_MERGE") /\ KeptIsWritten /\ (\A g \in Edited : links.next[g] \notin Edited) =>
    \A a \in Edited : groups'[a] # {} => TensorMergeForecast(Edited) = Context(links', a)

(* Without recomputation a move is priced in the context it leaves behind, *)
(* for the groups it changes and for those linked with them (the helpers   *)
(* coupled_recompute_saving, coupled_steal_saving, coupled_merge_saving    *)
(* and coupled_tensor_merge_saving against the fixups).                    *)
ForecastsHold ==
  [][RecomputeForeseen /\ StealForeseen /\ MergeForeseen /\ TensorMergeForeseen]_couplingVars
=============================================================================
