--------------------------- MODULE ParallelSearch ---------------------------
(***************************************************************************)
(* parallel_search (search/parallel_search.cpp): worker threads that share *)
(* a pool.  A worker takes one initialisation task, if any is left, and    *)
(* then evolves entries of the pool until the deadline, or until too many  *)
(* tasks in a row have found nothing.  The pool is guarded by a            *)
(* reader-writer lock; best_ever, tasks_since_improve, next_gen0 and       *)
(* symm_ready are atomic variables beside it.                              *)
(*                                                                         *)
(* What an initialisation, a mutation or an FM search finds is a free      *)
(* choice among the candidates.  Waiting for a first entry of the pool is  *)
(* a step that changes nothing, and is left out.                           *)
(***************************************************************************)
EXTENDS DiversityPool

CONSTANTS
  Workers,
  Strategies,     \* number of initialisation strategies
  Trivial,        \* the partition of singletons
  SymmParts,      \* what the patterns of the problem may give
  MaxSymmParts,   \* bound: how many parts they give, at most two
  Unlimited,      \* 1e18, dearer than every candidate
  EarlyStop,      \* ParallelConfig::early_stop
  StopAfter       \* early_stop_threshold

ASSUME SearchAssumption ==
  /\ IsFiniteSet(Workers) /\ Workers # {}
  /\ Strategies \in Nat \ {0}
  /\ Trivial \in Candidates /\ SymmParts \subseteq Candidates
  /\ MaxSymmParts \in 0..2
  /\ Unlimited \in Nat /\ \A c \in Candidates : Cost[c] + CostEps < Unlimited
  /\ EarlyStop \in BOOLEAN /\ StopAfter \in Nat \ {0}

VARIABLES
  pc,
  current,        \* worker -> pool.best_cost() as it read it
  prev,           \* worker -> best_ever as it read it
  nextGen0, bestEver,
  stagnant,       \* tasks_since_improve, up to StopAfter
  symmReady, symmCtx,
  hasDeadline, late,
  result          \* what parallel_search returns; <<>> until then

atomics == <<nextGen0, bestEver, stagnant, symmReady>>
searchVars == <<poolVars, atomics, pc, current, prev, symmCtx, hasDeadline, late, result>>

NumThreads == Cardinality(Workers)
TasksPerStrategy == LET n == NumThreads \div Strategies IN IF n = 0 THEN 1 ELSE n

(* The strategies' tasks, random ones for all threads but one that is      *)
(* left, and the task that looks for symmetry.                             *)
SymmTask ==
  LET planned == Strategies * TasksPerStrategy
  IN  IF NumThreads > planned THEN NumThreads - 1 ELSE planned

Goto(w, label) == pc' = [pc EXCEPT ![w] = label]
At(w, label) == pc[w] = label

(* Nobody holds the pool's lock shared over several steps.                 *)
Exclusive == \A w \in Workers : ~At(w, "catch_up")

(* An FM result, with or without a refinement that is cheaper; nothing if  *)
(* it has an ephemeral gap.                                                *)
Findings ==
  {<<>>} \cup {<<c>> : c \in Candidates}
    \cup {cd \in Candidates \X Candidates : Cost[cd[2]] + CostEps < Cost[cd[1]]}

SymmFindings == UNION {[1..n -> SymmParts] : n \in 0..MaxSymmParts}

InsertEach(p, found) ==
  CASE Len(found) = 0 -> p
    [] Len(found) = 1 -> Inserted(p, found[1])
    [] Len(found) = 2 -> Inserted(Inserted(p, found[1]), found[2])

(* One critical section.                                                   *)
InsertAll(found) ==
  /\ Exclusive
  /\ pool' = InsertEach(pool, found)
  /\ offered' = offered \cup {found[i] : i \in 1..Len(found)}

-----------------------------------------------------------------------------
Init ==
  /\ PoolInit
  /\ pc = [w \in Workers |-> "start"]
  /\ current = [w \in Workers |-> 0] /\ prev = [w \in Workers |-> 0]
  /\ nextGen0 = 0 /\ bestEver = Unlimited /\ stagnant = 0
  /\ symmReady = FALSE /\ symmCtx = "empty"
  /\ hasDeadline \in BOOLEAN /\ late = FALSE
  /\ result = <<>>

(* next_gen0.fetch_add                                                     *)
TakeTask(w) ==
  /\ At(w, "start")
  /\ nextGen0' = nextGen0 + 1
  /\ Goto(w, CASE nextGen0 < SymmTask -> "init"
               [] nextGen0 = SymmTask -> "symm"
               [] nextGen0 > SymmTask -> "evo")
  /\ UNCHANGED <<poolVars, bestEver, stagnant, symmReady, symmCtx, current, prev,
                 hasDeadline, late, result>>

(* No pattern: the context stays empty and the task becomes a random one.  *)
NoPatterns(w) ==
  /\ At(w, "symm")
  /\ symmReady' = TRUE
  /\ Goto(w, "init")
  /\ UNCHANGED <<poolVars, nextGen0, bestEver, stagnant, symmCtx, current, prev,
                 hasDeadline, late, result>>

(* Mutant of BuildContext: published before the solutions are added.       *)
BuildAndPublish(w) ==
  /\ At(w, "symm")
  /\ symmCtx' = "partial"
  /\ symmReady' = TRUE
  /\ Goto(w, "fill")
  /\ UNCHANGED <<poolVars, nextGen0, bestEver, stagnant, current, prev, hasDeadline, late,
                 result>>

BuildContext(w) ==
  /\ At(w, "symm")
  /\ symmCtx' = "partial"
  /\ Goto(w, "fill")
  /\ UNCHANGED <<poolVars, atomics, current, prev, hasDeadline, late, result>>

FillContext(w) ==
  /\ At(w, "fill")
  /\ symmCtx' = "full"
  /\ Goto(w, "insert_symm")
  /\ UNCHANGED <<poolVars, atomics, current, prev, hasDeadline, late, result>>

InsertSymm(w) ==
  /\ At(w, "insert_symm")
  /\ \E found \in SymmFindings : InsertAll(found)
  /\ Goto(w, "publish")
  /\ UNCHANGED <<atomics, symmCtx, current, prev, hasDeadline, late, result>>

Publish(w) ==
  /\ At(w, "publish")
  /\ symmReady' = TRUE
  /\ Goto(w, "evo")
  /\ UNCHANGED <<poolVars, nextGen0, bestEver, stagnant, symmCtx, current, prev,
                 hasDeadline, late, result>>

(* standard_init: the greedy result, kept as a fallback if it has no gap.  *)
InsertGreedy(w) ==
  /\ At(w, "init")
  /\ \E found \in {<<>>} \cup {<<c>> : c \in Candidates} : InsertAll(found)
  /\ Goto(w, "init_fm")
  /\ UNCHANGED <<atomics, symmCtx, current, prev, hasDeadline, late, result>>

InsertInitial(w) ==
  /\ At(w, "init_fm")
  /\ \E found \in Findings : InsertAll(found)
  /\ Goto(w, "evo")
  /\ UNCHANGED <<atomics, symmCtx, current, prev, hasDeadline, late, result>>

-----------------------------------------------------------------------------
Undercuts(w, margin, best) == current[w] + margin < best

(* evo_phase: best_ever is brought down to the pool's best, under the      *)
(* shared lock.                                                            *)
StartEvolving(w) ==
  /\ At(w, "evo")
  /\ IF hasDeadline /\ pool.entries # <<>> /\ BestCost(pool) < bestEver
     THEN /\ current' = [current EXCEPT ![w] = BestCost(pool)]
          /\ prev' = [prev EXCEPT ![w] = bestEver]
          /\ Goto(w, "catch_up")
     ELSE /\ Goto(w, IF hasDeadline THEN "loop" ELSE "done")
          /\ UNCHANGED <<current, prev>>
  /\ UNCHANGED <<poolVars, atomics, symmCtx, hasDeadline, late, result>>

Leave(w, next) ==
  /\ current' = [current EXCEPT ![w] = 0]
  /\ prev' = [prev EXCEPT ![w] = 0]
  /\ Goto(w, next)

(* Mutant of Exchange: prev keeps the value that was read first.           *)
ExchangeStale(w, margin, next) ==
  IF bestEver = prev[w]
  THEN Leave(w, next) /\ bestEver' = current[w]
  ELSE UNCHANGED <<prev, current, pc, bestEver>>

(* One turn of `while (wanted && !best_ever.compare_exchange(prev, cur));` *)
(* from the exchange on.                                                   *)
Exchange(w, margin, next) ==
  \/ /\ bestEver = prev[w]
     /\ bestEver' = current[w]
     /\ Leave(w, next)
  \/ /\ bestEver # prev[w] /\ Undercuts(w, margin, bestEver)
     /\ prev' = [prev EXCEPT ![w] = bestEver]
     /\ UNCHANGED <<current, pc, bestEver>>
  \/ /\ bestEver # prev[w] /\ ~Undercuts(w, margin, bestEver)
     /\ Leave(w, next)
     /\ UNCHANGED bestEver

CatchUp(w) ==
  /\ At(w, "catch_up")
  /\ Exchange(w, 0, "loop")
  /\ UNCHANGED <<poolVars, nextGen0, stagnant, symmReady, symmCtx, hasDeadline, late, result>>

Stagnant == EarlyStop /\ stagnant >= StopAfter
OneMore == stagnant' = IF stagnant < StopAfter THEN stagnant + 1 ELSE stagnant

Stop(w) ==
  /\ At(w, "loop")
  /\ late \/ Stagnant
  /\ Goto(w, "done")
  /\ UNCHANGED <<poolVars, atomics, symmCtx, current, prev, hasDeadline, late, result>>

(* The parents are read under the shared lock; a child without a gap goes  *)
(* on to FM.                                                               *)
Select(w) ==
  /\ At(w, "loop")
  /\ ~late /\ ~Stagnant
  /\ pool.entries # <<>>
  /\ Goto(w, "refine")
  /\ UNCHANGED <<poolVars, atomics, symmCtx, current, prev, hasDeadline, late, result>>

SkipGap(w) ==
  /\ At(w, "loop")
  /\ ~late /\ ~Stagnant
  /\ pool.entries # <<>>
  /\ OneMore
  /\ UNCHANGED <<poolVars, nextGen0, bestEver, symmReady, symmCtx, pc, current, prev,
                 hasDeadline, late, result>>

(* FM, refinement, and both results into the pool, whose best cost is read *)
(* before the lock is given back.                                          *)
InsertEvolved(w) ==
  /\ At(w, "refine")
  /\ \E found \in Findings : InsertAll(found)
  /\ current' = [current EXCEPT ![w] = BestCost(pool')]
  /\ Goto(w, "track")
  /\ UNCHANGED <<atomics, symmCtx, prev, hasDeadline, late, result>>

Track(w) ==
  /\ At(w, "track")
  /\ IF Undercuts(w, CostEps, bestEver)
     THEN /\ prev' = [prev EXCEPT ![w] = bestEver]
          /\ Goto(w, "record")
          /\ UNCHANGED <<stagnant, current>>
     ELSE OneMore /\ Leave(w, "loop")
  /\ UNCHANGED <<poolVars, nextGen0, bestEver, symmReady, symmCtx, hasDeadline, late, result>>

Record(w) ==
  /\ At(w, "record")
  /\ Exchange(w, CostEps, "reset")
  /\ UNCHANGED <<poolVars, nextGen0, stagnant, symmReady, symmCtx, hasDeadline, late, result>>

(* tasks_since_improve.store(0), also by a worker whose exchange was       *)
(* overtaken by a better one.                                              *)
Reset(w) ==
  /\ At(w, "reset")
  /\ stagnant' = 0
  /\ Goto(w, "loop")
  /\ UNCHANGED <<poolVars, nextGen0, bestEver, symmReady, symmCtx, current, prev,
                 hasDeadline, late, result>>

-----------------------------------------------------------------------------
(* The clock.                                                              *)
PassDeadline ==
  /\ hasDeadline /\ ~late
  /\ late' = TRUE
  /\ UNCHANGED <<poolVars, atomics, symmCtx, pc, current, prev, hasDeadline, result>>

Finished == \A w \in Workers : At(w, "done")

(* Mutant of Returned: the order of the pool.                              *)
ReturnedUnsorted(p) == {p}

Returned(p) == Sortings(p)

(* After the threads are joined.                                           *)
Join ==
  /\ Finished /\ result = <<>>
  /\ IF pool.entries = <<>>
     THEN /\ pool' \in Returned(Inserted(pool, Trivial))
          /\ offered' = offered \cup {Trivial}
     ELSE /\ pool' \in Returned(pool)
          /\ UNCHANGED offered
  /\ result' = pool'.entries
  /\ UNCHANGED <<atomics, symmCtx, pc, current, prev, hasDeadline, late>>

Work(w) ==
  \/ TakeTask(w)
  \/ NoPatterns(w) \/ BuildContext(w) \/ FillContext(w) \/ InsertSymm(w) \/ Publish(w)
  \/ InsertGreedy(w) \/ InsertInitial(w)
  \/ StartEvolving(w) \/ CatchUp(w)
  \/ Stop(w) \/ Select(w) \/ SkipGap(w) \/ InsertEvolved(w)
  \/ Track(w) \/ Record(w) \/ Reset(w)

Done == result # <<>> /\ UNCHANGED searchVars

Next == PassDeadline \/ Join \/ Done \/ \E w \in Workers : Work(w)

(* Time passes, and some thread that can run does.  No thread is promised  *)
(* a turn of its own.                                                      *)
Fairness ==
  /\ WF_searchVars(PassDeadline)
  /\ WF_searchVars(Join \/ \E w \in Workers : Work(w))

SearchSpec == Init /\ [][Next]_searchVars /\ Fairness

-----------------------------------------------------------------------------
Labels == {"start", "symm", "fill", "insert_symm", "publish", "init", "init_fm", "evo",
           "catch_up", "loop", "refine", "track", "record", "reset", "done"}

WorkersTypeOK ==
  /\ PoolTypeOK
  /\ pc \in [Workers -> Labels]
  /\ current \in [Workers -> Nat] /\ prev \in [Workers -> 0..Unlimited]
  /\ nextGen0 \in Nat
  /\ bestEver \in 0..Unlimited /\ stagnant \in 0..StopAfter
  /\ symmReady \in BOOLEAN /\ symmCtx \in {"empty", "partial", "full"}
  /\ hasDeadline \in BOOLEAN /\ late \in BOOLEAN
  /\ result \in Seq(Candidates)

(* best_ever never promises a cost that the pool does not hold, whatever   *)
(* is evicted after it was recorded.                                       *)
BestEverHeld ==
  bestEver # Unlimited => pool.entries # <<>> /\ BestCost(pool) <= bestEver

(* A worker that inserted something and has not compared it yet.           *)
Owes(w) == pc[w] \in {"publish", "init_fm", "evo", "catch_up", "track", "record"}

(* No improvement is lost between the pool and best_ever: once no worker   *)
(* has anything left to record, best_ever is the pool's best cost but for  *)
(* the tolerance, in whatever order the exchanges came.                    *)
BestEverCurrent ==
  hasDeadline /\ result = <<>> /\ pool.entries # <<>> /\ (\A w \in Workers : ~Owes(w))
    => bestEver <= BestCost(pool) + CostEps

(* best_ever only falls, although it is compared before it is exchanged.   *)
BestEverFalls == [][bestEver' <= bestEver]_searchVars

(* Once symm_ready is seen, the context is complete and never written      *)
(* again: workers read it without a lock.                                  *)
ContextPublished ==
  /\ symmReady => symmCtx # "partial"
  /\ symmReady => \A w \in Workers : pc[w] \notin {"fill", "insert_symm"}

(* What is returned is sorted, is never empty, and begins with a partition *)
(* that nothing any worker ever offered undercuts.                         *)
BestReturned ==
  Finished /\ result # <<>> =>
    /\ \A i, j \in DOMAIN result : i < j => Cost[result[i]] <= Cost[result[j]]
    /\ \A c \in offered : Cost[result[1]] <= Cost[c] + CostEps

(* parallel_search returns: every exchange loop ends, no worker waits for  *)
(* a pool that stays empty once the deadline has passed.                   *)
Returns == <>(result # <<>>)
=============================================================================
