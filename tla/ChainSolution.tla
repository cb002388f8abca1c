--------------------------- MODULE ChainSolution ---------------------------
(***************************************************************************)
(* CoupledPartition::to_solution: the schedule of a partition with links.  *)
(* A chain runs without a break, so whole chains are put in topological    *)
(* order; where they cannot, the groups are, and every link is given up.   *)
(* A group's subgraph can always be built: an entry of the pool has a cost.*)
(***************************************************************************)
EXTENDS Coupling, Steps
LOCAL INSTANCE SequencesExt

(* A dead group has no ops, and neither heads nor follows.                 *)
Heads(L) == {g \in Alive : L.prev[g] = None}

(* Drawn from the ops, not from the group graph: g writes what h reads.    *)
Flows == {<<g, h>> \in Alive \X Alive :
            g # h /\ \E t \in Writes(groups[g]) : ConsumedIn(t, groups[h])}

(* Mutant of ChainFlows: only what a chain's head writes counts.           *)
ChainFlowsOfHeads(L) ==
  {<<e[1], ChainHead(L, e[2])>> : e \in {e \in Flows : L.prev[e[1]] = None}}
    \ {<<g, g>> : g \in Slots}

ChainFlows(L) ==
  {<<ChainHead(L, e[1]), ChainHead(L, e[2])>> : e \in Flows} \ {<<g, g>> : g \in Slots}

Ascending(G) ==
  [i \in 1..Cardinality(G) |-> CHOOSE g \in G : Cardinality({h \in G : h < g}) = i - 1]

(* Kahn's algorithm, first in, first out; what lies on a cycle, or behind  *)
(* one, is never queued.                                                   *)
Kahn(nodes, E) ==
  LET free(done) == {x \in nodes : \A y \in nodes : <<y, x>> \in E => y \in done}
      queue[n \in 0..MaxGroups] ==
        IF n = 0 THEN Ascending(free({}))
        ELSE LET q   == queue[n - 1]
                 now == {q[i] : i \in 1..n}
             IN  IF n > Len(q) THEN q
                 ELSE q \o Ascending(free(now) \ {q[i] : i \in DOMAIN q})
  IN  queue[MaxGroups]

(* A chain from its head to its tail.                                      *)
ChainFrom(L, head) ==
  LET walk[n \in 1..MaxGroups] ==
        IF n = 1 THEN <<head>>
        ELSE LET w == walk[n - 1]
                 b == L.next[w[Len(w)]]
             IN  IF b = None THEN w ELSE Append(w, b)
  IN  walk[MaxGroups]

Step(g, kept) == [ops |-> groups[g], retain |-> kept, fits |-> Fits(groups[g])]

InChains(L, order) ==
  FlattenSeq([i \in DOMAIN order |->
    LET c == ChainFrom(L, order[i])
    IN  [k \in DOMAIN c |-> Step(c[k], IF L.next[c[k]] = None THEN {} ELSE Kept(L, c[k], L.next[c[k]]))]])

(* The fall-back: groups on a cycle come last.                             *)
ByGroups ==
  LET order == Kahn(Alive, Flows)
      all   == order \o Ascending(Alive \ {order[i] : i \in DOMAIN order})
  IN  [i \in DOMAIN all |-> Step(all[i], {})]

ToSolution(L) ==
  LET order == Kahn(Heads(L), ChainFlows(L))
  IN  IF Len(order) < Cardinality(Heads(L)) THEN ByGroups ELSE InChains(L, order)

-----------------------------------------------------------------------------
(* An entry of the pool whose links are in order becomes a schedule that   *)
(* launches every op once, by chains or by groups; and if what its steps   *)
(* read is written or kept for them at all, it is in time ("This produces  *)
(* a valid (though unoptimised) solution rather than an invalid one").     *)
EntriesScheduled ==
  phase = "entry" /\ Disjoint /\ LinksMutual /\ LinksServe =>
    \A steps \in {ToSolution(links)} :
      /\ LaunchedOnce(steps) /\ Launched(steps) = Ops
      /\ NoMissingInput(steps) => InOrder(steps) /\ InputsReady(steps)
=============================================================================
