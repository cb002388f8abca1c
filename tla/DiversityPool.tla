--------------------------- MODULE DiversityPool ---------------------------
(***************************************************************************)
(* DiversityPool (search/pool.h): the bounded set of partitions the search *)
(* threads share.  A candidate enters if it is cheap enough and either     *)
(* replaces a near duplicate that costs more, finds room, or pushes out    *)
(* the entry that adds least to diversity.  The pool keeps its pairwise    *)
(* distances in a table that it edits entry by entry.                      *)
(*                                                                         *)
(* A pool is a value, so that modules of its users can insert several      *)
(* candidates in one critical section.                                     *)
(***************************************************************************)
EXTENDS Integers, Sequences, FiniteSets

CONSTANTS
  Candidates,
  Cost,           \* candidate -> cost, in units of 0.01
  Dist,           \* candidate -> candidate -> distance
  Far,            \* the distance 1.0
  HardCap,        \* the fields of PoolConfig
  NearDup,
  EvictMargin,
  MinDiversity,
  CostEps,
  MaxCostRatio

ASSUME CostAssumption == Cost \in [Candidates -> Nat]
ASSUME FarAssumption == Far \in Nat
ASSUME DistAssumption ==
  /\ Dist \in [Candidates -> [Candidates -> 0..Far]]
  /\ \A c, d \in Candidates : Dist[c][d] = Dist[d][c]
  /\ \A c \in Candidates : Dist[c][c] = 0
ASSUME ConfigAssumption ==
  /\ HardCap \in Nat \ {0}
  /\ NearDup \in 0..Far /\ MinDiversity \in 0..Far
  /\ EvictMargin \in Nat /\ CostEps \in Nat
  /\ MaxCostRatio \in Nat \ {0}

Least(S) == CHOOSE x \in S : \A y \in S : x <= y

EmptyPool == [entries |-> <<>>, dists |-> <<>>]

Members(p) == DOMAIN p.entries
CostAt(p, i) == Cost[p.entries[i]]

(* find_best_cost_idx: the first of the cheapest.                          *)
BestIndex(p) == Least({i \in Members(p) : \A j \in Members(p) : CostAt(p, i) <= CostAt(p, j)})
BestCost(p) == Least({CostAt(p, i) : i \in Members(p)})

(* The distance of c to the nearest entry, and the first that is as near.  *)
DistTo(p, c) == {Dist[c][p.entries[i]] : i \in Members(p)}
MinDist(p, c) == Least(DistTo(p, c) \cup {Far})
Closest(p, c) == Least({i \in Members(p) : Dist[c][p.entries[i]] = MinDist(p, c)})

(* nn_dist, from the table.                                                *)
NeighborDist(p, i) == Least({p.dists[i][j] : j \in Members(p) \ {i}} \cup {2 * Far})

(* Mutant of Victim: the cheapest entry is not spared.                     *)
VictimAny(p) == Least({i \in Members(p) :
  \A j \in Members(p) : NeighborDist(p, i) <= NeighborDist(p, j)})

(* The first entry with the nearest neighbour, the cheapest one aside.     *)
Spared(p) == Members(p) \ {BestIndex(p)}
Victim(p) == Least({i \in Spared(p) : \A j \in Spared(p) : NeighborDist(p, i) <= NeighborDist(p, j)})

-----------------------------------------------------------------------------
(* Mutant of Appended: the row is filled, the column is not.               *)
AppendedRow(p, c) ==
  LET n == Len(p.entries)
      row == [j \in 1..(n + 1) |-> IF j = n + 1 THEN 0 ELSE Dist[c][p.entries[j]]]
  IN  [entries |-> Append(p.entries, c),
       dists |-> [i \in 1..(n + 1) |-> IF i = n + 1 THEN row
                                       ELSE [j \in 1..(n + 1) |-> IF j = n + 1 THEN 0 ELSE p.dists[i][j]]]]

(* append: a row and a column more.                                        *)
Appended(p, c) ==
  LET n == Len(p.entries)
      new == [j \in 1..(n + 1) |-> IF j = n + 1 THEN 0 ELSE Dist[c][p.entries[j]]]
  IN  [entries |-> Append(p.entries, c),
       dists |-> [i \in 1..(n + 1) |->
                    [j \in 1..(n + 1) |-> IF i = n + 1 THEN new[j]
                                          ELSE IF j = n + 1 THEN new[i]
                                          ELSE p.dists[i][j]]]]

(* replace_at: the row and the column of k anew.                           *)
Replaced(p, k, c) ==
  LET new == [j \in Members(p) |-> IF j = k THEN 0 ELSE Dist[c][p.entries[j]]]
  IN  [entries |-> [p.entries EXCEPT ![k] = c],
       dists |-> [i \in Members(p) |->
                    [j \in Members(p) |-> IF i = k THEN new[j]
                                          ELSE IF j = k THEN new[i]
                                          ELSE p.dists[i][j]]]]

TooCostly(p, c) ==
  p.entries # <<>> /\ BestCost(p) > 0 /\ Cost[c] > MaxCostRatio * BestCost(p)

HasRoom(p) == Len(p.entries) < HardCap

Duplicates(p, c) == p.entries # <<>> /\ MinDist(p, c) < NearDup

Cheaper(p, c, i) == Cost[c] < CostAt(p, i) - CostEps

(* Mutant of WorthEvicting: only diversity counts.                         *)
WorthForDiversity(p, c, v) == MinDist(p, c) > NeighborDist(p, v) + EvictMargin

WorthEvicting(p, c, v) ==
  \/ MinDist(p, c) > NeighborDist(p, v) + EvictMargin
  \/ Cheaper(p, c, v) /\ MinDist(p, c) > MinDiversity

(* insert: refused, in the place of a near duplicate, beside the others,  *)
(* or in the place of the entry that diversity misses least.               *)
Inserted(p, c) ==
  LET duplicate == Closest(p, c)
      victim == Victim(p)
  IN  IF TooCostly(p, c) THEN p
      ELSE IF Duplicates(p, c)
           THEN IF Cheaper(p, c, duplicate) THEN Replaced(p, duplicate, c) ELSE p
      ELSE IF HasRoom(p) THEN Appended(p, c)
      ELSE IF Spared(p) # {} /\ WorthEvicting(p, c, victim) THEN Replaced(p, victim, c) ELSE p

(* sort_by_cost: any order of entries that cost the same, none left out;   *)
(* the table of distances is built anew.                                   *)
Sortings(p) ==
  {[entries |-> [i \in Members(p) |-> p.entries[f[i]]],
    dists |-> [i \in Members(p) |-> [j \in Members(p) |-> Dist[p.entries[f[i]]][p.entries[f[j]]]]]] :
     f \in {f \in [Members(p) -> Members(p)] :
              /\ \A k \in Members(p) : \E i \in Members(p) : f[i] = k
              /\ \A i, j \in Members(p) : i < j => CostAt(p, f[i]) <= CostAt(p, f[j])}}

-----------------------------------------------------------------------------
VARIABLES
  pool,
  offered    \* history: the candidates offered so far

poolVars == <<pool, offered>>

PoolInit == pool = EmptyPool /\ offered = {}

Insert(c) ==
  /\ pool' = Inserted(pool, c)
  /\ offered' = offered \cup {c}

SortByCost ==
  /\ pool' \in Sortings(pool)
  /\ UNCHANGED offered

PoolNext == SortByCost \/ \E c \in Candidates : Insert(c)

PoolSpec == PoolInit /\ [][PoolNext]_poolVars

-----------------------------------------------------------------------------
IsPool(p) ==
  /\ p.entries \in Seq(Candidates)
  /\ Len(p.entries) <= HardCap
  /\ p.dists \in [Members(p) -> [Members(p) -> 0..Far]]

PoolTypeOK ==
  /\ DOMAIN pool = {"entries", "dists"}
  /\ IsPool(pool)
  /\ offered \subseteq Candidates

(* The table holds the distances of the entries that are in the pool now,  *)
(* after any mixture of append, replace_at and sort_by_cost.               *)
TableExact(p) ==
  \A i, j \in Members(p) : p.dists[i][j] = IF i = j THEN 0 ELSE Dist[p.entries[i]][p.entries[j]]

CacheExact == TableExact(pool)

(* Nothing that was offered is cheaper than the best the pool kept, but    *)
(* for the tolerance (insert's replacement and eviction rules).            *)
CheapestKept ==
  \A c \in offered : pool.entries # <<>> /\ BestCost(pool) <= Cost[c] + CostEps

(* The best entry may be replaced by a better one only.                    *)
BestNeverWorse ==
  [][pool.entries # <<>> => pool'.entries # <<>> /\ BestCost(pool') <= BestCost(pool)]_poolVars
=============================================================================
