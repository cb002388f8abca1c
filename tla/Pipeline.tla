------------------------------ MODULE Pipeline ------------------------------
(***************************************************************************)
(* solve(): what becomes of a partition the search has found.  The search  *)
(* ends with a partition the pool accepts; a solve for source code takes   *)
(* the recomputed ops out of it (MaterializeRecomputedSourceOps) and adds  *)
(* an audit of every partition of a small problem; Partition::finalize     *)
(* draws the group graph anew; the groups are put in order, each step is   *)
(* priced with what the one before it left on chip, and the cheapest       *)
(* sequence Solution::validate accepts is the solution.                    *)
(*                                                                         *)
(* Latencies and tensor sizes are left open: the cheapest may be any.      *)
(***************************************************************************)
EXTENDS FmMoves, Steps, Pebbling

CONSTANT Retainable     \* Problem::retainable_tensors
ASSUME RetainableAssumption == Retainable \subseteq Ops

VARIABLES
  source,    \* Problem::require_source_codegen
  stage,     \* where solve() is
  plan       \* the best candidate so far: a sequence of steps

pipelineVars == <<fmVars, source, stage, plan>>

-----------------------------------------------------------------------------
(* Partition::rebuild_group_dag: the order in which groups are freed.      *)

Members(q) == {q[i] : i \in DOMAIN q}

(* The members of G in the order of their rank.                            *)
Ranked(G, rank) ==
  [i \in 1..Cardinality(G) |->
     CHOOSE g \in G : Cardinality({h \in G : rank[h] < rank[g]}) = i - 1]

Ascending(G) == Ranked(G, [g \in G |-> g])

Greatest(S) == CHOOSE x \in S : \A y \in S : y <= x

(* Groups with nothing left to wait for.                                   *)
FreedBy(done) ==
  {g \in Alive : \A t \in Dependencies(g) : GroupsOf(t) \cap done # {}}

(* The ops of g for whose inputs u is the first holder to be reached.      *)
Unlocks(u, done, g) ==
  {o \in groups[g] : \E t \in Producers(o) \cap Dependencies(g) :
     u \in GroupsOf(t) /\ GroupsOf(t) \cap done = {}}

(* Kahn's algorithm in which any holder of a producer meets a dependency.  *)
(* First in, first out; of the groups u frees, the one whose last unmet    *)
(* input has the reader with the least index comes first.                  *)
KahnOrder ==
  LET queue[n \in 0..MaxGroups] ==
        IF n = 0 THEN Ascending(FreedBy({}))
        ELSE LET q == queue[n - 1]
             IN  IF n > Len(q) THEN q
                 ELSE LET done == {q[i] : i \in 1..(n - 1)}
                          new  == FreedBy(done \cup {q[n]}) \ Members(q)
                          late(g) == Greatest(Unlocks(q[n], done, g))
                      IN  q \o Ranked(new, [g \in new |-> late(g) * (MaxGroups + 1) + g])
  IN  queue[MaxGroups]

(* The holder the graph says g gets t from: the first in that order, or,   *)
(* when none was reached, the first one listed.                            *)
Supplier(q, g, t) ==
  LET others  == (GroupsOf(t) \cap Alive) \ {g}
      reached == others \cap Members(q)
  IN  IF reached = {} THEN Least(others)
      ELSE CHOOSE h \in reached : \A k \in reached :
             \E i, j \in DOMAIN q : q[i] = h /\ q[j] = k /\ i <= j

OtherHolders(t, g) == (GroupsOf(t) \cap Alive) \ {g}

(* Mutant of Feeds: always from the holder listed first.                   *)
FeedsFromFirst(q) ==
  {e \in Alive \X Alive : \E t \in Needs(groups[e[2]]) :
     OtherHolders(t, e[2]) # {} /\ e[1] = Least(OtherHolders(t, e[2]))}

(* group_preds and group_succs, as a relation.                             *)
Feeds(q) ==
  {e \in Alive \X Alive : \E t \in Needs(groups[e[2]]) :
     OtherHolders(t, e[2]) # {} /\ e[1] = Supplier(q, e[2], t)}

-----------------------------------------------------------------------------
(* Orderings.  Which of the ready groups is taken depends on the sizes of  *)
(* the tensors, so each may be.                                            *)

(* Mutant of Ready: one of the groups that feed g is enough.               *)
ReadyEarly(feeds, done) ==
  {g \in Alive \ done :
     LET before == {h \in Alive : <<h, g>> \in feeds}
     IN  before = {} \/ before \cap done # {}}

Ready(feeds, done) ==
  {g \in Alive \ done : \A h \in Alive : <<h, g>> \in feeds => h \in done}

(* Orders of groups, each ready when it is taken, until none is.           *)
GreedyOrders(feeds) ==
  LET orders[n \in 0..MaxGroups] ==
        IF n = 0 THEN {<<>>}
        ELSE UNION {IF Ready(feeds, Members(q)) = {} THEN {q}
                    ELSE {Append(q, g) : g \in Ready(feeds, Members(q))} :
                    q \in orders[n - 1]}
  IN  orders[MaxGroups]

(* dfs_ordering adds the groups that never become ready at the end;        *)
(* beam_search_ordering leaves them out.                                   *)
DfsOrders(feeds) == {q \o Ascending(Alive \ Members(q)) : q \in GreedyOrders(feeds)}
BeamOrders(feeds) == GreedyOrders(feeds)

-----------------------------------------------------------------------------
(* steps_from_ordering.                                                    *)

OpsOf(q, i) == groups[q[i]]

(* What step i may leave for step i + 1.                                   *)
Wanted(q, i) ==
  IF i = Len(q) THEN {}
  ELSE OpsOf(q, i) \cap Retainable \cap Inputs(OpsOf(q, i + 1))

(* A step of op set S is priced with `entering` on chip and asked to leave *)
(* `want`: as asked, without `want`, and without either.  Whether it fits  *)
(* with nothing on chip is known; the rest depends on sizes.               *)
Priced(S, entering, want, step) ==
  /\ step.ops = S
  /\ \/ /\ step.retain = want                       \* as asked
        /\ step.fits
        /\ entering \cup want = {} => Fits(S)
     \/ /\ want # {} /\ step.retain = {}            \* leaves nothing
        /\ step.fits
        /\ entering = {} => Fits(S)
     \/ /\ entering \cup want # {} /\ Fits(S)       \* enters with nothing:
        /\ step.retain = {}                         \* the tensors are there
        /\ entering = {} => step.fits               \* all the same
     \/ /\ ~Fits(S) /\ step.retain = want /\ ~step.fits

(* The step sequences of order q; hint[i] is what the ordering asks step i *)
(* to leave.                                                               *)
Pricings(q, hint) ==
  LET steps(i) == [ops : {OpsOf(q, i)}, retain : {{}, hint[i]}, fits : BOOLEAN]
      entering(p) == IF p = <<>> THEN {} ELSE p[Len(p)].retain
      upto[n \in 0..Len(q)] ==
        IF n = 0 THEN {<<>>}
        ELSE UNION {{Append(p, s) :
                       s \in {s \in steps(n) : Priced(OpsOf(q, n), entering(p), hint[n], s)}} :
                    p \in upto[n - 1]}
  IN  upto[Len(q)]

FullHint(q) == [i \in DOMAIN q |-> Wanted(q, i)]
Hints(q) == {[i \in DOMAIN q |-> IF i \in K THEN Wanted(q, i) ELSE {}] :
               K \in SUBSET {i \in DOMAIN q : Wanted(q, i) # {}}}

DfsPlans(feeds) == UNION {Pricings(q, FullHint(q)) : q \in DfsOrders(feeds)}
BeamPlans(feeds) == UNION {UNION {Pricings(q, h) : h \in Hints(q)} : q \in BeamOrders(feeds)}

(* Every group by itself, in the order of a depth-first plan.              *)
Bare(steps) ==
  [i \in DOMAIN steps |->
     [ops |-> steps[i].ops, retain |-> {}, fits |-> Fits(steps[i].ops)]]
-----------------------------------------------------------------------------
(* MaterializeRecomputedSourceOps: an op of several groups leaves them all *)
(* for a group of its own; what is left of a group falls apart.            *)

Recomputed == {o \in Ops : Cardinality({g \in Alive : o \in groups[g]}) > 1}

(* Mutant of Materialized: an op held twice is left where it is.           *)
MaterializedThrice(q) ==
  LET many == {o \in Ops : Cardinality({g \in Alive : o \in groups[g]}) > 2}
  IN  NewTable([g \in Alive |-> FirstComponent(groups[g] \ many)], q)

Materialized(q) == NewTable([g \in Alive |-> FirstComponent(groups[g] \ Recomputed)], q)

(* rebuild_index, and the group graph kept beside it.                      *)
Rebuild(table) ==
  /\ groups' = table
  /\ index' = IndexOf(table)
  /\ edges' = BuildEdges(table, IndexOf(table))

Materialize ==
  /\ stage = "search" /\ source /\ ~PartitionHasGap
  /\ stage' = "order"
  /\ \E q \in Layouts({<<0, {o}>> : o \in Recomputed}
                      \cup UNION {Leftover(g, groups[g] \ Recomputed) : g \in Alive}) :
       /\ Rebuild(Materialized(q))
       /\ ngroups' = ngroups + Len(q)
  /\ UNCHANGED <<prob, last, applied, source, plan>>

(* The audit tries every partition of a problem of at most six ops, and    *)
(* the one of a single group; it looks at nothing the search has found.    *)
AuditTables ==
  {[g \in Slots |-> {o \in Ops : block[o] = g}] :
     block \in {b \in [Ops -> 1..Cardinality(Ops)] :
       \A o \in Ops : b[o] = 1 \/ \E u \in Ops : u < o /\ b[u] = b[o] - 1}}

Audit ==
  /\ stage = "search" /\ source /\ applied = 0
  /\ stage' = "order"
  /\ UNCHANGED <<prob, last, applied, source, plan>>
  /\ \E table \in AuditTables :
       /\ Rebuild(table)
       /\ ngroups' = Cardinality({g \in Slots : table[g] # {}})
       /\ ~PartitionHasGap'

(* Without source code the partition is taken as the pool has it.          *)
Accept ==
  /\ stage = "search" /\ ~source /\ ~PartitionHasGap
  /\ stage' = "order"
  /\ Rebuild(groups)
  /\ UNCHANGED <<prob, ngroups, last, applied, source, plan>>

Graph == Feeds(KahnOrder)

(* solve: a depth-first plan is the solution when it is valid.             *)
Direct ==
  /\ stage = "order" /\ ~source
  /\ \E p \in DfsPlans(Graph) :
       IF Valid(p, source) THEN plan' = p /\ stage' = "done"
                           ELSE plan' = plan /\ stage' = "fallback"
  /\ UNCHANGED <<fmVars, source>>

(* from_partition keeps the cheapest valid plan; the bare one is looked at *)
(* first, and kept when none is valid.                                     *)
Keep(best, p) ==
  IF ~Valid(p, source) THEN {best}
  ELSE IF Valid(best, source) THEN {best, p} ELSE {p}

Compare ==
  /\ stage \in {"order", "fallback"}
  /\ stage' = "beam"
  /\ \E p \in DfsPlans(Graph) : plan' \in Keep(Bare(p), p)
  /\ UNCHANGED <<fmVars, source>>

(* A source plan that is not valid is dropped.                             *)
Beam ==
  /\ stage = "beam"
  /\ \E p \in BeamPlans(Graph) : plan' \in Keep(plan, p)
  /\ stage' = IF source /\ ~Valid(plan', source) THEN "dropped" ELSE "done"
  /\ UNCHANGED <<fmVars, source>>

Search ==
  /\ stage = "search"
  /\ Next
  /\ UNCHANGED <<source, stage, plan>>

PipelineNext == \/ Search \/ Materialize \/ Audit \/ Accept
                \/ Direct \/ Compare \/ Beam

PipelineInit == Init /\ source \in BOOLEAN /\ stage = "search" /\ plan = <<>>

PipelineSpec == PipelineInit /\ [][PipelineNext]_pipelineVars

-----------------------------------------------------------------------------
(* A partition the pool accepts always ends as a schedule the validator    *)
(* accepts: from_partition never has to return its invalid fallback.       *)
AlwaysScheduled == stage = "done" => Valid(plan, source)

(* A plan for source code finds every input where it looks for it, and     *)
(* launches each op once, whatever the search recomputed (solver.cpp,      *)
(* MaterializeRecomputedSourceOps: "every downstream source group can      *)
(* consume" the value).                                                    *)
SourceRuns ==
  source /\ stage = "done" =>
    /\ InputsReady(plan)
    /\ \A o \in Ops : Cardinality({i \in DOMAIN plan : o \in plan[i].ops}) = 1

(* Taking the recomputed ops out leaves a partition of disjoint groups     *)
(* that holds every op and strands no consumer, however the groups         *)
(* overlapped.                                                             *)
MaterializedSound ==
  source /\ stage # "search" => Disjoint /\ NoOpLost /\ ~HasEphemeralGap

(* A source plan is dropped for a cycle among its groups or a group that   *)
(* does not fit, so the partition of single ops is never dropped and       *)
(* solve does not throw "produced no disjoint fallback solution".          *)
DroppedForCause ==
  stage = "dropped" => ~IsAcyclic \/ \E g \in Alive : ~Fits(groups[g])

(* Whatever order the build chooses, an op of a step is replayed once and  *)
(* after the ops of the step whose results it reads (pebbling_order.cpp:   *)
(* the plan of lifetimes is invalid otherwise, and the step is not priced).*)
ReplayOrdered ==
  stage = "done" =>
    \A i \in DOMAIN plan :
      LET S == plan[i].ops
      IN  \A order \in {DfsPostOrder(S), Gorder(S)} :
            /\ Len(order) = Cardinality(S)
            /\ Members(order) = S
            /\ PlanValid(order, S)

(* The scores kept up to date as nodes enter and leave the window are what *)
(* the nodes in the window add up to, so no score ever falls below zero    *)
(* (pebbling_order.cpp throws "score underflow" otherwise).                *)
ScoresExact ==
  stage = "done" =>
    \A i \in DOMAIN plan :
      LET S == plan[i].ops IN
      \A st \in {GorderStates(S)[n] : n \in 0..Cardinality(S)} :
        \A u \in S \ Members(st.order) :
          st.score[u] = NearTo(u, st.window, S)

-----------------------------------------------------------------------------
(* solution.cpp, validate: "each boundary input must be available from     *)
(* either slow memory (boundary output of some step) or fast memory".      *)
ReadsWritten == stage = "done" => InputsReady(plan)
=============================================================================
