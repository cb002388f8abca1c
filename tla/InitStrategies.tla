--------------------------- MODULE InitStrategies ---------------------------
(***************************************************************************)
(* The partitions a search starts from: the six strategies of              *)
(* init_strategies.cpp, with the validator kept beside them.               *)
(*                                                                         *)
(* The strategies sort tensors and ops by size and take a merge only when  *)
(* it is cheaper; sizes and costs are left open, so the order is free and  *)
(* a cost decides either way.  Three strategies try a list of op pairs,    *)
(* which come in blocks: the pairs of a block are tried in order, the      *)
(* blocks of a stage in any order.                                         *)
(***************************************************************************)
EXTENDS Partition

VARIABLES
  strategy,   \* whose partition is being built
  agenda,     \* stages to come, each a set of blocks
  queue,      \* pairs of the current block not yet tried
  rest,       \* ops not yet handled
  grown       \* seed+grow: the group that grows

initVars == <<prob, ngroups, groups, index, edges, strategy, agenda, queue, rest, grown>>

(* In the order of the indices.                                            *)
Ascending(S) ==
  [i \in 1..Cardinality(S) |-> CHOOSE o \in S : Cardinality({p \in S : p < o}) = i - 1]

GroupOf(o) == CHOOSE g \in Slots : o \in groups[g]

(* A merge and the full rebuild_index after it.                            *)
MergeInto(ga, gb) ==
  /\ groups' = [groups EXCEPT ![ga] = @ \cup groups[gb], ![gb] = {}]
  /\ index' = IndexOf(groups')
  /\ edges' = BuildEdges(groups', index')
  /\ UNCHANGED <<prob, ngroups>>

-----------------------------------------------------------------------------
(* What a strategy asks of a merge.                                        *)

Behind(S) ==
  LET reach[n \in 0..Cardinality(Ops)] ==
        IF n = 0 THEN UNION {Consumers(o) : o \in S}
        ELSE LET r == reach[n - 1] IN r \cup UNION {Consumers(o) : o \in r}
  IN  reach[Cardinality(Ops)]

(* DAG::merge_creates_cycle: a path of ops leaves S and comes back.        *)
OpPathReturns(S) == Behind(Behind(S) \ S) \cap S # {}

OpMergeable(ga, gb) ==
  LET whole == groups[ga] \cup groups[gb]
  IN  ~OpPathReturns(whole) /\ ~CreatesEphemeralGap(whole, {ga, gb}) /\ Fits(whole)

(* acyclic_merge_local, on the group graph.                                *)
GroupMergeable(ga, gb) ==
  LET whole == groups[ga] \cup groups[gb]
  IN  ~MergeCreatesCycle({ga, gb}) /\ ~CreatesEphemeralGap(whole, {ga, gb}) /\ Fits(whole)

Mergeable(ga, gb) == IF strategy = "tensor-align" THEN GroupMergeable(ga, gb)
                     ELSE OpMergeable(ga, gb)

-----------------------------------------------------------------------------
(* The pairs to try.                                                       *)

Follows(a, b) == Consumers(a) = {b} /\ Producers(b) = {a}

(* Phase A of chain+edge: the chain from the first op not yet in one.      *)
ChainFrom(o, taken) ==
  LET walk[n \in 0..Cardinality(Ops)] ==
        IF n = 0 THEN <<o>>
        ELSE LET c   == walk[n - 1]
                 nxt == {b \in Ops \ taken : Follows(c[Len(c)], b)}
             IN  IF nxt = {} THEN c ELSE c \o Ascending(nxt)
  IN  walk[Cardinality(Ops)]

ChainPairs ==
  LET scan[k \in 0..Cardinality(Ops)] ==
        IF k = 0 THEN [taken |-> {}, pairs |-> <<>>]
        ELSE LET s == scan[k - 1]
                 o == Ascending(Ops)[k]
                 c == ChainFrom(o, s.taken)
             IN  IF o \in s.taken \/ Len(c) = 1 THEN s
                 ELSE [taken |-> s.taken \cup {c[j] : j \in DOMAIN c},
                       pairs |-> s.pairs \o [j \in 1..(Len(c) - 1) |-> <<c[1], c[j + 1]>>]]
  IN  scan[Cardinality(Ops)].pairs

EdgeBlocks == {<<m[1], <<m>>>> : m \in {m \in Ops \X Ops : m[2] \in Consumers(m[1])}}

Shared == {t \in Tensors : Cardinality(Consumers(t)) >= 2}

CoConsumerPairs(t) ==
  LET q == Ascending(Consumers(t))
      pairs[i \in 0..Len(q)] ==
        IF i = 0 THEN <<>>
        ELSE pairs[i - 1] \o [j \in 1..(Len(q) - i) |-> <<q[i], q[i + j]>>]
  IN  pairs[Len(q)]

(* tensor-align joins everybody to the first consumer, the producer last.  *)
AlignPairs(t) ==
  LET q == Ascending(Consumers(t)) \o (IF t \in Ops THEN <<t>> ELSE <<>>)
  IN  [i \in DOMAIN q |-> <<q[1], q[i]>>]

AgendaOf(s) ==
  CASE s = "chain+edge"   -> <<{<<0, ChainPairs>>}, EdgeBlocks, {<<t, CoConsumerPairs(t)>> : t \in Shared}>>
    [] s = "random"       -> <<EdgeBlocks>>
    [] s = "tensor-align" -> <<{<<t, AlignPairs(t)>> : t \in Shared}>>
    [] OTHER              -> <<>>

NextBlock ==
  /\ queue = <<>> /\ agenda # <<>>
  /\ IF Head(agenda) = {} THEN agenda' = Tail(agenda) /\ queue' = <<>>
     ELSE \E b \in Head(agenda) : queue' = b[2] /\ agenda' = [agenda EXCEPT ![1] = @ \ {b}]
  /\ UNCHANGED <<partVars, strategy, rest, grown>>

(* try_merge, and the loops of init_random and init_tensor_aligned; only   *)
(* chain+edge weighs the cost.                                             *)
TryPair ==
  /\ queue # <<>>
  /\ LET ga == GroupOf(Head(queue)[1])
         gb == GroupOf(Head(queue)[2])
         ok == ga # gb /\ Mergeable(ga, gb)
     IN  \/ ok /\ MergeInto(ga, gb)
         \/ (ok => strategy = "chain+edge") /\ UNCHANGED partVars
  /\ queue' = Tail(queue)
  /\ UNCHANGED <<strategy, agenda, rest, grown>>

(* init_random stops after a random share of the edges.                    *)
StopRandom ==
  /\ strategy = "random" /\ queue = <<>> /\ agenda # <<>>
  /\ agenda' = <<>>
  /\ UNCHANGED <<partVars, strategy, queue, rest, grown>>

-----------------------------------------------------------------------------
(* rev-topo: an op after all its consumers; its group takes in the group   *)
(* of a neighbour.                                                         *)
ReverseStep ==
  /\ strategy = "rev-topo"
  /\ \E op \in rest :
       /\ Consumers(op) \cap rest = {}
       /\ rest' = rest \ {op}
       /\ \/ UNCHANGED partVars
          \/ \E v \in OpNeighbors(op) :
               /\ GroupOf(v) # GroupOf(op) /\ OpMergeable(GroupOf(op), GroupOf(v))
               /\ MergeInto(GroupOf(op), GroupOf(v))
  /\ UNCHANGED <<strategy, agenda, queue, grown>>

(* seed+grow: the partition has no index before it is complete, so nothing *)
(* serves a consumer outside the group.                                    *)
StrandsOutside(S) == \E t \in S : ConsumedIn(t, S) /\ Consumers(t) \ S # {}

Seed ==
  /\ strategy = "seed+grow" /\ grown = {}
  /\ \E op \in rest : grown' = {op} /\ rest' = rest \ {op}
  /\ UNCHANGED <<partVars, strategy, agenda, queue>>

(* Mutant of Grow: consumers outside the group are not looked at.          *)
GrowStranding ==
  /\ grown # {}
  /\ \E v \in (UNION {OpNeighbors(o) : o \in grown}) \cap rest :
       /\ ~OpPathReturns(grown \cup {v}) /\ Fits(grown \cup {v})
       /\ grown' = grown \cup {v} /\ rest' = rest \ {v}
  /\ UNCHANGED <<partVars, strategy, agenda, queue>>

Grow ==
  /\ grown # {}
  /\ \E v \in (UNION {OpNeighbors(o) : o \in grown}) \cap rest :
       /\ ~OpPathReturns(grown \cup {v}) /\ ~StrandsOutside(grown \cup {v}) /\ Fits(grown \cup {v})
       /\ grown' = grown \cup {v} /\ rest' = rest \ {v}
  /\ UNCHANGED <<partVars, strategy, agenda, queue>>

Close ==
  /\ grown # {}
  /\ groups' = [groups EXCEPT ![ngroups + 1] = grown]
  /\ ngroups' = ngroups + 1
  /\ IF rest = {} THEN index' = IndexOf(groups') /\ edges' = BuildEdges(groups', index')
                  ELSE UNCHANGED <<index, edges>>
  /\ grown' = {}
  /\ UNCHANGED <<prob, strategy, agenda, queue, rest>>

-----------------------------------------------------------------------------
Strategies == {"trivial", "chain+edge", "seed+grow", "rev-topo", "tensor-align", "random"}

StrategiesInit ==
  /\ \/ PartitionInit /\ strategy \in Strategies \ {"seed+grow"}
     \/ /\ prob \in Problems /\ strategy = "seed+grow"
        /\ ngroups = 0 /\ groups = [g \in Slots |-> {}]
        /\ index = IndexOf(groups) /\ edges = {}
  /\ agenda = AgendaOf(strategy) /\ queue = <<>>
  /\ grown = {}
  /\ rest = IF strategy \in {"rev-topo", "seed+grow"} THEN Ops ELSE {}

StrategiesNext ==
  \/ NextBlock   \/ TryPair   \/ StopRandom
  \/ ReverseStep \/ Seed      \/ Grow    \/ Close

StrategiesSpec == StrategiesInit /\ [][StrategiesNext]_initVars

Finished == agenda = <<>> /\ queue = <<>> /\ rest = {} /\ grown = {}

-----------------------------------------------------------------------------
(* verify_partition_feasibility, but for its cycle check.                  *)
ServedOutside(t, c, g) ==
  \/ \E h \in GroupsOf(c) \cap Alive : t \in groups[h]
  \/ \E h \in (GroupsOf(t) \cap Alive) \ {g} : ~ConsumedIn(t, groups[h])

Verified ==
  /\ \A o \in Ops : Covered(o)
  /\ \A g \in Alive : Fits(groups[g])
  /\ \A g \in Alive : \A t \in groups[g] :
       IsEphemeral(groups[g], t) => \A c \in Consumers(t) \ groups[g] : ServedOutside(t, c, g)

-----------------------------------------------------------------------------
(* init_strategies.h promises that every strategy keeps memory and gap     *)
(* feasibility: the partition it ends with satisfies the validator and the *)
(* gap check of the search, no op is in two groups or in none, and         *)
(* tensor-align, which alone asks the group graph, makes no cycle.         *)
InitSound ==
  Finished =>
    /\ Verified /\ ~HasEphemeralGap
    /\ \A g, h \in Slots : g # h => groups[g] \cap groups[h] = {}
    /\ strategy = "tensor-align" => IsAcyclic
=============================================================================
