------------------------ MODULE ParallelSearchProofs ------------------------
(***************************************************************************)
(* Proofs about DiversityPool and ParallelSearch, for every set of         *)
(* candidates, every cost, every distance, every configuration and any     *)
(* number of workers and strategies.                                       *)
(*                                                                         *)
(* The argument for CheapestKept: an insertion that refuses a candidate    *)
(* does so for an entry that is as cheap, but for the tolerance; and one   *)
(* that accepts it gives up the cheapest entry only for a cheaper one.     *)
(* The first half needs that no candidate lies between the two thresholds  *)
(* of distance, and that there is an entry that is not the cheapest.       *)
(*                                                                         *)
(* The argument for the search: the best cost of the pool only falls, so   *)
(* what a worker read of it stays an upper bound.  Whenever the pool's     *)
(* best is below best_ever by more than the tolerance, some worker covers  *)
(* it: it has yet to read the pool, or has read just that cost and not     *)
(* recorded it.                                                            *)
(***************************************************************************)
EXTENDS ParallelSearch, SequenceTheorems, FiniteSetTheorems, WellFoundedInduction, TLAPS

-----------------------------------------------------------------------------
(* The pool by itself.                                                     *)

LEMMA LeastExists ==
  ASSUME NEW S, S \subseteq Nat, S # {}
  PROVE  Least(S) \in S /\ \A y \in S : Least(S) <= y
<1> DEFINE R == OpToRel(<, Nat)
<1>1. IsWellFoundedOn(R, Nat)
  BY NatLessThanWellFounded
<1>2. PICK x \in S : \A y \in S : ~(<<y, x>> \in R)
  <2> HIDE DEF R
  <2> QED BY <1>1, WFMin
<1>3. \A y \in S : ~(y < x)
  BY <1>2 DEF OpToRel
<1>4. \A y \in S : x <= y
  BY <1>3
<1> QED BY <1>4 DEF Least

-----------------------------------------------------------------------------
(* Sequences of entries.                                                   *)
LEMMA MemberType ==
  ASSUME NEW p, IsPool(p)
  PROVE  /\ Members(p) = 1..Len(p.entries)
         /\ Len(p.entries) \in Nat
         /\ \A i \in Members(p) : p.entries[i] \in Candidates /\ CostAt(p, i) \in Nat
BY CostAssumption DEF IsPool, Members, CostAt

LEMMA BestCostIs ==
  ASSUME NEW p, IsPool(p), p.entries # <<>>
  PROVE  /\ BestIndex(p) \in Members(p)
         /\ CostAt(p, BestIndex(p)) = BestCost(p)
         /\ BestCost(p) \in Nat
         /\ \A i \in Members(p) : BestCost(p) <= CostAt(p, i)
<1>1. Members(p) # {} /\ Members(p) \subseteq Nat
  BY MemberType, EmptySeq DEF IsPool
<1> DEFINE Costs == {CostAt(p, i) : i \in Members(p)}
<1>2. Costs \subseteq Nat /\ Costs # {}
  BY <1>1, MemberType
<1>3. Least(Costs) \in Costs /\ \A y \in Costs : Least(Costs) <= y
  <2> HIDE DEF Costs
  <2> QED BY <1>2, LeastExists
<1>4. PICK k \in Members(p) : CostAt(p, k) = Least(Costs)
  BY <1>3
<1> DEFINE Cheapest == {i \in Members(p) : \A j \in Members(p) : CostAt(p, i) <= CostAt(p, j)}
<1>5. k \in Cheapest
  BY <1>3, <1>4
<1>6. Least(Cheapest) \in Cheapest
  <2>1. Cheapest \subseteq Nat /\ Cheapest # {}
    BY <1>1, <1>5
  <2> HIDE DEF Cheapest
  <2> QED BY <2>1, LeastExists
<1>7. CostAt(p, BestIndex(p)) = CostAt(p, k) /\ BestIndex(p) \in Members(p)
  <2>1. BestIndex(p) \in Cheapest
    BY <1>6 DEF BestIndex
  <2>2. CostAt(p, BestIndex(p)) <= CostAt(p, k) /\ CostAt(p, k) <= CostAt(p, BestIndex(p))
    BY <1>5, <2>1
  <2> QED BY <2>1, <2>2, MemberType
<1> QED BY <1>2, <1>3, <1>4, <1>7 DEF BestCost

-----------------------------------------------------------------------------
(* What insert's three ways to change a pool do to it.                     *)
Sound(p) == IsPool(p) /\ TableExact(p)

LEMMA DistType ==
  ASSUME NEW c \in Candidates, NEW d \in Candidates
  PROVE  /\ Dist[c][d] \in 0..Far
         /\ Dist[c][d] = Dist[d][c]
         /\ Dist[c][c] = 0
BY DistAssumption

LEMMA AppendedSound ==
  ASSUME NEW p, Sound(p), NEW c \in Candidates, HasRoom(p)
  PROVE  /\ Sound(Appended(p, c))
         /\ Appended(p, c).entries = Append(p.entries, c)
<1> DEFINE q == Appended(p, c)
           n == Len(p.entries)
<1>1. q.entries = Append(p.entries, c)
  BY DEF Appended
<1>2. /\ q.entries \in Seq(Candidates) /\ Len(q.entries) = n + 1
      /\ \A i \in 1..n : q.entries[i] = p.entries[i]
      /\ q.entries[n + 1] = c
      /\ n \in Nat
  BY <1>1, AppendProperties DEF Sound, IsPool
<1>3. Members(q) = 1..(n + 1) /\ Members(p) = 1..n
  BY <1>2, MemberType DEF Members, Sound
<1>4. Len(q.entries) <= HardCap
  BY <1>2, ConfigAssumption DEF HasRoom
<1>5. ASSUME NEW i \in 1..(n + 1), NEW j \in 1..(n + 1)
      PROVE  /\ q.dists[i][j] = IF i = j THEN 0 ELSE Dist[q.entries[i]][q.entries[j]]
             /\ q.dists[i][j] \in 0..Far
  <2>1. q.dists[i][j] = IF i = n + 1
                        THEN IF j = n + 1 THEN 0 ELSE Dist[c][p.entries[j]]
                        ELSE IF j = n + 1 THEN Dist[c][p.entries[i]]
                        ELSE p.dists[i][j]
    BY <1>2 DEF Appended
  <2>2. (i = n + 1 \/ i \in 1..n) /\ (j = n + 1 \/ j \in 1..n)
    BY <1>2
  <2>3. ASSUME i \in 1..n, j \in 1..n
        PROVE  p.dists[i][j] = IF i = j THEN 0 ELSE Dist[p.entries[i]][p.entries[j]]
    BY <1>3, <2>3 DEF Sound, TableExact
  <2>4. q.entries[i] \in Candidates /\ q.entries[j] \in Candidates
    BY <1>2, ElementOfSeq
  <2>5. Far \in Nat /\ n + 1 \notin 1..n
    BY FarAssumption, <1>2
  <2> HIDE DEF q
  <2>6. q.dists[i][j] = IF i = j THEN 0 ELSE Dist[q.entries[i]][q.entries[j]]
    <3>1. CASE i = n + 1
      BY <3>1, <1>2, <2>1, <2>2, <2>4
    <3>2. CASE i \in 1..n /\ j = n + 1
      BY <3>2, <1>2, <2>1, <2>4, <2>5, DistType
    <3>3. CASE i \in 1..n /\ j \in 1..n
      BY <3>3, <1>2, <2>1, <2>3, <2>5
    <3> QED BY <2>2, <3>1, <3>2, <3>3
  <2> QED BY <2>4, <2>5, <2>6, DistType
<1>6. q.dists \in [Members(q) -> [Members(q) -> 0..Far]]
  <2>1. \A i \in 1..(n + 1), j \in 1..(n + 1) : q.dists[i][j] \in 0..Far
    BY <1>5
  <2>2. /\ q.dists = [i \in 1..(n + 1) |-> q.dists[i]]
        /\ \A i \in 1..(n + 1) : q.dists[i] = [j \in 1..(n + 1) |-> q.dists[i][j]]
    BY DEF Appended
  <2> HIDE DEF q
  <2> QED BY <1>3, <2>1, <2>2
<1> HIDE DEF q
<1>7. Sound(q)
  BY <1>2, <1>3, <1>4, <1>5, <1>6 DEF Sound, IsPool, TableExact
<1> QED BY <1>1, <1>7 DEF q

LEMMA ReplacedSound ==
  ASSUME NEW p, Sound(p), NEW c \in Candidates, NEW k \in Members(p)
  PROVE  /\ Sound(Replaced(p, k, c))
         /\ Replaced(p, k, c).entries = [p.entries EXCEPT ![k] = c]
         /\ Members(Replaced(p, k, c)) = Members(p)
<1> DEFINE q == Replaced(p, k, c)
           n == Len(p.entries)
<1>1. q.entries = [p.entries EXCEPT ![k] = c]
  BY DEF Replaced
<1>2. Members(p) = 1..n /\ n \in Nat /\ p.entries \in Seq(Candidates) /\ n <= HardCap
  BY MemberType DEF Sound, IsPool
<1>3. /\ q.entries \in Seq(Candidates) /\ Len(q.entries) = n
      /\ \A i \in 1..n : q.entries[i] = IF i = k THEN c ELSE p.entries[i]
  BY <1>1, <1>2, ExceptSeq
<1>4. Members(q) = Members(p)
  BY <1>2, <1>3, LenProperties DEF Members
<1>5. ASSUME NEW i \in 1..n, NEW j \in 1..n
      PROVE  /\ q.dists[i][j] = IF i = j THEN 0 ELSE Dist[q.entries[i]][q.entries[j]]
             /\ q.dists[i][j] \in 0..Far
  <2>1. q.dists[i][j] = IF i = k THEN IF j = k THEN 0 ELSE Dist[c][p.entries[j]]
                        ELSE IF j = k THEN Dist[c][p.entries[i]]
                        ELSE p.dists[i][j]
    BY <1>2 DEF Replaced
  <2>2. p.dists[i][j] = IF i = j THEN 0 ELSE Dist[p.entries[i]][p.entries[j]]
    BY <1>2 DEF Sound, TableExact
  <2>3. /\ q.entries[i] \in Candidates /\ q.entries[j] \in Candidates
        /\ p.entries[i] \in Candidates /\ p.entries[j] \in Candidates
    BY <1>2, <1>3, ElementOfSeq
  <2> HIDE DEF q
  <2>4. q.dists[i][j] = IF i = j THEN 0 ELSE Dist[q.entries[i]][q.entries[j]]
    BY <1>3, <2>1, <2>2, <2>3, DistType
  <2> QED BY <2>3, <2>4, DistType, FarAssumption
<1>6. q.dists \in [Members(q) -> [Members(q) -> 0..Far]]
  <2>1. \A i \in 1..n, j \in 1..n : q.dists[i][j] \in 0..Far
    BY <1>5
  <2>2. /\ q.dists = [i \in 1..n |-> q.dists[i]]
        /\ \A i \in 1..n : q.dists[i] = [j \in 1..n |-> q.dists[i][j]]
    BY <1>2 DEF Replaced
  <2> HIDE DEF q
  <2> QED BY <1>2, <1>4, <2>1, <2>2
<1> HIDE DEF q
<1>7. Sound(q)
  BY <1>2, <1>3, <1>4, <1>5, <1>6 DEF Sound, IsPool, TableExact
<1> QED BY ONLY <1>1, <1>4, <1>7 DEF q

LEMMA SortedSound ==
  ASSUME NEW p, Sound(p), NEW q \in Sortings(p)
  PROVE  /\ Sound(q)
         /\ Members(q) = Members(p)
         /\ \A k \in Members(p) : \E i \in Members(q) : q.entries[i] = p.entries[k]
<1> DEFINE n == Len(p.entries)
<1>1. Members(p) = 1..n /\ n \in Nat /\ n <= HardCap
      /\ \A i \in 1..n : p.entries[i] \in Candidates
  BY MemberType DEF Sound, IsPool
<1>2. PICK f \in [Members(p) -> Members(p)] :
        /\ \A k \in Members(p) : \E i \in Members(p) : f[i] = k
        /\ q = [entries |-> [i \in Members(p) |-> p.entries[f[i]]],
                dists |-> [i \in Members(p) |->
                             [j \in Members(p) |-> Dist[p.entries[f[i]]][p.entries[f[j]]]]]]
  BY DEF Sortings
<1>3. q.entries = [i \in 1..n |-> p.entries[f[i]]]
  BY <1>1, <1>2
<1>4. q.entries \in Seq(Candidates) /\ Len(q.entries) = n
  <2>1. q.entries \in [1..n -> Candidates]
    BY <1>1, <1>2, <1>3
  <2> QED BY <1>1, <2>1
<1>5. Members(q) = Members(p)
  BY <1>1, <1>3 DEF Members
<1>6. ASSUME NEW i \in 1..n, NEW j \in 1..n
      PROVE  /\ q.dists[i][j] = IF i = j THEN 0 ELSE Dist[q.entries[i]][q.entries[j]]
             /\ q.dists[i][j] \in 0..Far
  <2>1. q.entries[i] \in Candidates /\ q.entries[j] \in Candidates
    BY <1>4, ElementOfSeq
  <2>2. q.dists[i][j] = Dist[q.entries[i]][q.entries[j]]
    BY <1>1, <1>2
  <2> QED BY <2>1, <2>2, DistType
<1>7. q.dists \in [Members(q) -> [Members(q) -> 0..Far]]
  <2>1. \A i \in 1..n, j \in 1..n : q.dists[i][j] \in 0..Far
    BY <1>6
  <2>2. /\ q.dists = [i \in 1..n |-> q.dists[i]]
        /\ \A i \in 1..n : q.dists[i] = [j \in 1..n |-> q.dists[i][j]]
    BY <1>1, <1>2
  <2> QED BY <1>1, <1>5, <2>1, <2>2
<1>8. Sound(q)
  BY <1>1, <1>4, <1>5, <1>6, <1>7 DEF Sound, IsPool, TableExact
<1>9. \A k \in Members(p) : \E i \in Members(q) : q.entries[i] = p.entries[k]
  BY <1>1, <1>2, <1>3, <1>5
<1> QED BY <1>5, <1>8, <1>9

-----------------------------------------------------------------------------
(* What they do to the best cost.                                          *)
LEMMA AppendedBest ==
  ASSUME NEW p, Sound(p), NEW c \in Candidates, HasRoom(p)
  PROVE  LET q == Appended(p, c)
         IN  /\ q.entries # <<>>
             /\ BestCost(q) <= Cost[c]
             /\ p.entries # <<>> => BestCost(q) <= BestCost(p)
<1> DEFINE q == Appended(p, c)
           n == Len(p.entries)
<1>1. /\ Sound(q) /\ IsPool(q) /\ IsPool(p)
      /\ q.entries = Append(p.entries, c)
  BY AppendedSound DEF Sound
<1>2. /\ Len(q.entries) = n + 1 /\ q.entries[n + 1] = c /\ n \in Nat
      /\ \A i \in 1..n : q.entries[i] = p.entries[i]
  BY <1>1, AppendProperties DEF IsPool
<1> HIDE DEF q
<1>3. Members(q) = 1..(n + 1) /\ Members(p) = 1..n
  BY <1>1, <1>2, MemberType
<1>4. q.entries # <<>>
  BY <1>1, <1>2, EmptySeq DEF IsPool
<1>5. BestCost(q) <= Cost[c]
  BY <1>1, <1>2, <1>3, <1>4, BestCostIs DEF CostAt
<1>6. ASSUME p.entries # <<>>
      PROVE  BestCost(q) <= BestCost(p)
  <2>1. BestIndex(p) \in 1..n /\ CostAt(p, BestIndex(p)) = BestCost(p)
    BY <1>1, <1>3, <1>6, BestCostIs
  <2>2. CostAt(q, BestIndex(p)) = BestCost(p) /\ BestIndex(p) \in Members(q)
    BY <1>2, <1>3, <2>1 DEF CostAt
  <2> QED BY <1>1, <1>4, <2>2, BestCostIs
<1> QED BY <1>4, <1>5, <1>6 DEF q

LEMMA ReplacedBest ==
  ASSUME NEW p, Sound(p), NEW c \in Candidates, NEW k \in Members(p),
         k # BestIndex(p) \/ Cost[c] <= CostAt(p, k)
  PROVE  LET q == Replaced(p, k, c)
         IN  /\ q.entries # <<>>
             /\ BestCost(q) <= Cost[c]
             /\ BestCost(q) <= BestCost(p)
<1> DEFINE q == Replaced(p, k, c)
           n == Len(p.entries)
<1>1. /\ Sound(q) /\ IsPool(q) /\ IsPool(p)
      /\ q.entries = [p.entries EXCEPT ![k] = c]
      /\ Members(q) = Members(p)
  BY ReplacedSound DEF Sound
<1>2. Members(p) = 1..n /\ n \in Nat
  BY <1>1, MemberType
<1>3. \A i \in 1..n : q.entries[i] = IF i = k THEN c ELSE p.entries[i]
  BY <1>1, <1>2, ExceptSeq DEF IsPool
<1> HIDE DEF q
<1>4. q.entries # <<>> /\ p.entries # <<>>
  BY <1>1, <1>2, MemberType, EmptySeq DEF IsPool
<1>5. BestCost(q) <= Cost[c]
  BY <1>1, <1>2, <1>3, <1>4, BestCostIs DEF CostAt
<1>6. BestCost(q) <= BestCost(p)
  <2>1. /\ BestIndex(p) \in 1..n /\ CostAt(p, BestIndex(p)) = BestCost(p)
        /\ BestCost(p) \in Nat /\ BestCost(q) \in Nat
    BY <1>1, <1>2, <1>4, BestCostIs
  <2>2. CASE k # BestIndex(p)
    <3>1. CostAt(q, BestIndex(p)) = BestCost(p)
      BY <1>3, <2>1, <2>2 DEF CostAt
    <3> QED BY <1>1, <1>2, <1>4, <2>1, <3>1, BestCostIs
  <2>3. CASE k = BestIndex(p) /\ Cost[c] <= CostAt(p, k)
    <3>1. Cost[c] <= BestCost(p) /\ Cost[c] \in Nat
      BY <2>1, <2>3, CostAssumption
    <3> QED BY <1>5, <2>1, <3>1
  <2> QED BY <2>2, <2>3
<1> QED BY <1>4, <1>5, <1>6 DEF q

LEMMA MinDistIs ==
  ASSUME NEW p, Sound(p), NEW c \in Candidates
  PROVE  MinDist(p, c) \in DistTo(p, c) \cup {Far} /\ DistTo(p, c) \subseteq 0..Far
<1> DEFINE D == DistTo(p, c) \cup {Far}
<1>1. D \subseteq 0..Far /\ D \subseteq Nat /\ D # {}
  BY MemberType, DistType, FarAssumption DEF DistTo, Sound
<1>2. MinDist(p, c) = Least(D)
  BY DEF MinDist
<1>3. MinDist(p, c) \in D
  <2> HIDE DEF D
  <2> QED BY <1>1, <1>2, LeastExists
<1> QED BY <1>1, <1>3

(* The entry that insert compares a candidate with is an entry.            *)
LEMMA NearestIs ==
  ASSUME NEW p, Sound(p), NEW c \in Candidates
  PROVE  /\ MinDist(p, c) \in 0..Far
         /\ MinDist(p, c) < NearDup =>
              Closest(p, c) \in Members(p) /\ Dist[c][p.entries[Closest(p, c)]] = MinDist(p, c)
<1>1. Members(p) \subseteq Nat
  BY MemberType DEF Sound
<1>2. MinDist(p, c) \in 0..Far
  BY MinDistIs, FarAssumption
<1>3. MinDist(p, c) \in DistTo(p, c) \cup {Far}
  BY MinDistIs
<1>4. ASSUME MinDist(p, c) < NearDup
      PROVE  Closest(p, c) \in Members(p) /\ Dist[c][p.entries[Closest(p, c)]] = MinDist(p, c)
  <2>1. MinDist(p, c) # Far
    BY <1>4, ConfigAssumption, FarAssumption
  <2>2. PICK i \in Members(p) : Dist[c][p.entries[i]] = MinDist(p, c)
    BY <1>3, <2>1 DEF DistTo
  <2> DEFINE Near == {j \in Members(p) : Dist[c][p.entries[j]] = MinDist(p, c)}
  <2>3. Near \subseteq Nat /\ Near # {}
    BY <1>1, <2>2
  <2>4. Closest(p, c) = Least(Near)
    BY DEF Closest
  <2>5. Closest(p, c) \in Near
    <3> HIDE DEF Near
    <3> QED BY <2>3, <2>4, LeastExists
  <2> QED BY <2>5
<1> QED BY <1>2, <1>4

LEMMA VictimIs ==
  ASSUME NEW p, Sound(p), Spared(p) # {}
  PROVE  Victim(p) \in Members(p) /\ Victim(p) # BestIndex(p)
<1>1. Members(p) \subseteq Nat
  BY MemberType DEF Sound
<1>2. ASSUME NEW i \in Members(p)
      PROVE  NeighborDist(p, i) \in Nat
  <2> DEFINE D == {p.dists[i][j] : j \in Members(p) \ {i}} \cup {2 * Far}
  <2>1. D \subseteq Nat /\ D # {}
    BY FarAssumption DEF Sound, IsPool
  <2>2. NeighborDist(p, i) = Least(D)
    BY DEF NeighborDist
  <2> HIDE DEF D
  <2> QED BY <2>1, <2>2, LeastExists
<1> DEFINE D == {NeighborDist(p, i) : i \in Spared(p)}
<1>3. D \subseteq Nat /\ D # {}
  BY <1>2 DEF Spared
<1>4. Least(D) \in D /\ \A y \in D : Least(D) <= y
  <2> HIDE DEF D
  <2> QED BY <1>3, LeastExists
<1> DEFINE V == {i \in Spared(p) : \A j \in Spared(p) : NeighborDist(p, i) <= NeighborDist(p, j)}
<1>5. V \subseteq Nat /\ V # {}
  <2>1. PICK i \in Spared(p) : NeighborDist(p, i) = Least(D)
    BY <1>4
  <2>2. \A j \in Spared(p) : NeighborDist(p, j) \in D
    OBVIOUS
  <2>3. i \in V
    <3> HIDE DEF D
    <3> QED BY <1>4, <2>1, <2>2
  <2> QED BY <1>1, <2>3 DEF Spared
<1>6. Victim(p) = Least(V)
  BY DEF Victim
<1>7. Victim(p) \in V
  <2> HIDE DEF V
  <2> QED BY <1>5, <1>6, LeastExists
<1> QED BY <1>7 DEF Spared

-----------------------------------------------------------------------------
LEMMA InsertedSound ==
  ASSUME NEW p, Sound(p), NEW c \in Candidates
  PROVE  Sound(Inserted(p, c))
<1>1. CASE TooCostly(p, c)
  BY <1>1 DEF Inserted
<1>2. CASE ~TooCostly(p, c) /\ Duplicates(p, c)
  <2>1. Closest(p, c) \in Members(p)
    BY <1>2, NearestIs DEF Duplicates
  <2> QED BY <1>2, <2>1, ReplacedSound DEF Inserted
<1>3. CASE ~TooCostly(p, c) /\ ~Duplicates(p, c) /\ HasRoom(p)
  BY <1>3, AppendedSound DEF Inserted
<1>4. CASE ~TooCostly(p, c) /\ ~Duplicates(p, c) /\ ~HasRoom(p)
  <2>1. Spared(p) # {} => Victim(p) \in Members(p)
    BY VictimIs
  <2> QED BY <1>4, <2>1, ReplacedSound DEF Inserted
<1> QED BY <1>1, <1>2, <1>3, <1>4

(* An insertion never makes the best entry worse.                          *)
LEMMA InsertedBest ==
  ASSUME NEW p, Sound(p), NEW c \in Candidates
  PROVE  p.entries # <<>> =>
           Inserted(p, c).entries # <<>> /\ BestCost(Inserted(p, c)) <= BestCost(p)
<1> SUFFICES ASSUME p.entries # <<>>
             PROVE  Inserted(p, c).entries # <<>> /\ BestCost(Inserted(p, c)) <= BestCost(p)
  OBVIOUS
<1>0. BestCost(p) \in Nat /\ Cost[c] \in Nat /\ CostEps \in Nat
  BY BestCostIs, CostAssumption, ConfigAssumption DEF Sound
<1>1. CASE Inserted(p, c) = p
  BY <1>0, <1>1
<1>2. CASE Duplicates(p, c) /\ Cheaper(p, c, Closest(p, c))
           /\ Inserted(p, c) = Replaced(p, Closest(p, c), c)
  <2>1. Closest(p, c) \in Members(p)
    BY <1>2, NearestIs DEF Duplicates
  <2>2. Cost[c] <= CostAt(p, Closest(p, c))
    BY <1>0, <1>2, <2>1, MemberType DEF Cheaper, Sound
  <2> QED BY <1>2, <2>1, <2>2, ReplacedBest
<1>3. CASE HasRoom(p) /\ Inserted(p, c) = Appended(p, c)
  BY <1>3, AppendedBest
<1>4. CASE Spared(p) # {} /\ Inserted(p, c) = Replaced(p, Victim(p), c)
  BY <1>4, VictimIs, ReplacedBest
<1> QED BY <1>1, <1>2, <1>3, <1>4 DEF Inserted

(* What the thresholds and the size have to be for the cheapest candidate  *)
(* to be kept: two entries at least, and no two candidates at a distance   *)
(* that is neither near nor diverse.                                       *)
Clear ==
  /\ HardCap >= 2
  /\ \A c, d \in Candidates : Dist[c][d] < NearDup \/ Dist[c][d] > MinDiversity
  /\ MinDiversity < Far

LEMMA SparedExists ==
  ASSUME NEW p, Sound(p), HardCap >= 2, ~HasRoom(p)
  PROVE  Spared(p) # {}
<1>1. Members(p) = 1..Len(p.entries) /\ Len(p.entries) \in Nat /\ Len(p.entries) >= 2
  BY MemberType, ConfigAssumption DEF Sound, HasRoom
<1>2. 1 \in Members(p) /\ 2 \in Members(p)
  BY <1>1
<1> QED BY <1>2 DEF Spared

(* Whatever is offered, the pool is as cheap afterwards.                   *)
LEMMA InsertedKept ==
  ASSUME NEW p, Sound(p), NEW c \in Candidates, Clear
  PROVE  Inserted(p, c).entries # <<>> /\ BestCost(Inserted(p, c)) <= Cost[c] + CostEps
<1> SUFFICES ASSUME NEW q, q = Inserted(p, c)
             PROVE  q.entries # <<>> /\ BestCost(q) <= Cost[c] + CostEps
  OBVIOUS
<1>0. Cost[c] \in Nat /\ CostEps \in Nat /\ IsPool(p)
  BY CostAssumption, ConfigAssumption DEF Sound
<1>1. CASE TooCostly(p, c)
  <2>1. q = p /\ p.entries # <<>>
    BY <1>1 DEF Inserted, TooCostly
  <2>2. BestCost(p) \in Nat /\ BestCost(p) > 0
    BY <1>0, <1>1, <2>1, BestCostIs DEF TooCostly
  <2>3. MaxCostRatio * BestCost(p) >= BestCost(p)
    <3> DEFINE b == BestCost(p)
    <3>1. b \in Nat /\ MaxCostRatio \in Nat \ {0}
      BY <2>2, ConfigAssumption
    <3> HIDE DEF b
    <3>2. MaxCostRatio * b = (MaxCostRatio - 1) * b + b /\ (MaxCostRatio - 1) * b >= 0
      BY <3>1
    <3>3. MaxCostRatio * b >= b
      BY <3>1, <3>2
    <3> QED BY <3>3 DEF b
  <2> DEFINE m == MaxCostRatio * BestCost(p)
  <2>4. Cost[c] > m /\ m \in Nat /\ m >= BestCost(p)
    BY <1>1, <2>2, <2>3, ConfigAssumption DEF TooCostly
  <2> HIDE DEF m
  <2> QED BY <1>0, <2>1, <2>2, <2>4
<1>2. CASE ~TooCostly(p, c) /\ Duplicates(p, c)
  <2> DEFINE k == Closest(p, c)
  <2>1. k \in Members(p) /\ p.entries # <<>>
    BY <1>2, NearestIs DEF Duplicates
  <2>2. CostAt(p, k) \in Nat /\ BestCost(p) \in Nat /\ BestCost(p) <= CostAt(p, k)
    BY <1>0, <2>1, MemberType, BestCostIs
  <2>3. CASE Cheaper(p, c, k)
    <3>1. q = Replaced(p, k, c) /\ Cost[c] <= CostAt(p, k)
      BY <1>0, <1>2, <2>2, <2>3 DEF Inserted, Cheaper
    <3>2. q.entries # <<>> /\ BestCost(q) <= Cost[c] /\ BestCost(q) \in Nat
      <4>1. Sound(q)
        BY InsertedSound
      <4>2. Replaced(p, k, c).entries # <<>> /\ BestCost(Replaced(p, k, c)) <= Cost[c]
        BY <2>1, <3>1, ReplacedBest
      <4> QED BY <3>1, <4>1, <4>2, BestCostIs DEF Sound
    <3> QED BY <1>0, <3>2
  <2>4. CASE ~Cheaper(p, c, k)
    <3>1. q = p
      BY <1>2, <2>4 DEF Inserted
    <3>2. CostAt(p, k) <= Cost[c] + CostEps
      BY <1>0, <2>2, <2>4 DEF Cheaper
    <3> HIDE DEF k
    <3> QED BY <1>0, <2>1, <2>2, <3>1, <3>2
  <2> QED BY <2>3, <2>4
<1>3. CASE ~TooCostly(p, c) /\ ~Duplicates(p, c) /\ HasRoom(p)
  <2>1. q = Appended(p, c)
    BY <1>3 DEF Inserted
  <2>2. Sound(q) /\ q.entries # <<>> /\ BestCost(q) <= Cost[c]
    BY <1>3, <2>1, InsertedSound, AppendedBest
  <2>3. BestCost(q) \in Nat
    BY <2>2, BestCostIs DEF Sound
  <2> QED BY <1>0, <2>2, <2>3
<1>4. CASE ~TooCostly(p, c) /\ ~Duplicates(p, c) /\ ~HasRoom(p)
  <2> DEFINE v == Victim(p)
  <2>1. Spared(p) # {} /\ v \in Members(p) /\ v # BestIndex(p)
    BY <1>4, SparedExists, VictimIs DEF Clear
  <2>2. p.entries # <<>>
    BY <1>4, ConfigAssumption, EmptySeq DEF HasRoom
  <2>3. CostAt(p, v) \in Nat /\ BestCost(p) \in Nat /\ BestCost(p) <= CostAt(p, v)
    BY <1>0, <2>1, <2>2, MemberType, BestCostIs
  <2>4. CASE WorthEvicting(p, c, v)
    <3>1. q = Replaced(p, v, c)
      BY <1>4, <2>1, <2>4 DEF Inserted
    <3>2. Sound(q) /\ q.entries # <<>> /\ BestCost(q) <= Cost[c]
      BY <2>1, <3>1, InsertedSound, ReplacedBest
    <3>3. BestCost(q) \in Nat
      BY <3>2, BestCostIs DEF Sound
    <3> QED BY <1>0, <3>2, <3>3
  <2>5. CASE ~WorthEvicting(p, c, v)
    <3>1. q = p
      BY <1>4, <2>5 DEF Inserted
    <3>2. MinDist(p, c) > MinDiversity
      <4>1. MinDist(p, c) \in DistTo(p, c) \cup {Far} /\ MinDist(p, c) \in 0..Far
        BY MinDistIs, NearestIs
      <4>2. MinDist(p, c) >= NearDup
        BY <1>4, <2>2, <4>1, ConfigAssumption, FarAssumption DEF Duplicates
      <4>3. CASE MinDist(p, c) = Far
        BY <4>3 DEF Clear
      <4>4. CASE MinDist(p, c) \in DistTo(p, c)
        <5>1. PICK i \in Members(p) : MinDist(p, c) = Dist[c][p.entries[i]]
          BY <4>4 DEF DistTo
        <5>2. p.entries[i] \in Candidates
          BY <1>0, MemberType
        <5> QED BY <4>1, <4>2, <5>1, <5>2, ConfigAssumption, FarAssumption DEF Clear
      <4> QED BY <4>1, <4>3, <4>4
    <3>3. CostAt(p, v) <= Cost[c] + CostEps
      BY <1>0, <2>3, <2>5, <3>2 DEF WorthEvicting, Cheaper
    <3> HIDE DEF v
    <3> QED BY <1>0, <2>2, <2>3, <3>1, <3>3
  <2> QED BY <2>4, <2>5
<1> QED BY <1>1, <1>2, <1>3, <1>4

-----------------------------------------------------------------------------
PoolInv == PoolTypeOK /\ CacheExact

LEMMA PoolInit_Inv == PoolInit => PoolInv /\ offered = {}
<1> SUFFICES ASSUME PoolInit PROVE PoolInv /\ offered = {}
  OBVIOUS
<1>1. pool.entries = <<>> /\ pool.dists = <<>> /\ DOMAIN pool = {"entries", "dists"}
  BY DEF PoolInit, EmptyPool
<1>2. Members(pool) = {} /\ Len(pool.entries) = 0
  BY <1>1 DEF Members
<1>3. pool.dists \in [Members(pool) -> [Members(pool) -> 0..Far]]
  BY <1>1, <1>2
<1> QED
  BY <1>1, <1>2, <1>3, ConfigAssumption DEF PoolInit, PoolInv, PoolTypeOK, CacheExact, TableExact, IsPool

LEMMA InsertedFields ==
  ASSUME NEW p, DOMAIN p = {"entries", "dists"}, NEW c
  PROVE  DOMAIN Inserted(p, c) = {"entries", "dists"}
<1>1. /\ \A k : DOMAIN Replaced(p, k, c) = {"entries", "dists"}
      /\ DOMAIN Appended(p, c) = {"entries", "dists"}
  BY DEF Replaced, Appended
<1> QED BY <1>1 DEF Inserted

LEMMA PoolNext_Inv ==
  ASSUME PoolInv, [PoolNext]_poolVars
  PROVE  PoolInv'
<1>1. Sound(pool)
  BY DEF PoolInv, PoolTypeOK, CacheExact, Sound
<1>2. ASSUME NEW c \in Candidates, Insert(c)
      PROVE  PoolInv'
  <2>1. Sound(Inserted(pool, c)) /\ DOMAIN Inserted(pool, c) = {"entries", "dists"}
    BY <1>1, InsertedSound, InsertedFields DEF PoolInv, PoolTypeOK
  <2>2. pool' = Inserted(pool, c) /\ offered' \subseteq Candidates
    BY <1>2 DEF Insert, PoolInv, PoolTypeOK
  <2> QED BY <2>1, <2>2 DEF Sound, PoolInv, PoolTypeOK, CacheExact
<1>3. CASE SortByCost
  <2>1. Sound(pool') /\ DOMAIN pool' = {"entries", "dists"}
    <3>1. PICK q \in Sortings(pool) : pool' = q
      BY <1>3 DEF SortByCost
    <3>2. DOMAIN q = {"entries", "dists"}
      BY DEF Sortings
    <3> QED BY <1>1, <3>1, <3>2, SortedSound
  <2> QED BY <1>3, <2>1 DEF SortByCost, Sound, PoolInv, PoolTypeOK, CacheExact
<1>4. CASE UNCHANGED poolVars
  BY <1>4 DEF poolVars, PoolInv, PoolTypeOK, CacheExact
<1> QED BY <1>2, <1>3, <1>4 DEF PoolNext

(* The types of the pool and of its table, and the table's contents        *)
(* (append, replace_at and sort_by_cost of pool.h).                        *)
THEOREM PoolInvariance == PoolSpec => []PoolInv
<1>1. PoolInit => PoolInv
  BY PoolInit_Inv
<1>2. PoolInv /\ [PoolNext]_poolVars => PoolInv'
  BY PoolNext_Inv
<1> QED BY <1>1, <1>2, PTL DEF PoolSpec

(* The pool's table keeps its shape through insert, append and replace_at. *)
THEOREM PoolTypeCorrect == PoolSpec => []PoolTypeOK
<1>1. PoolInv => PoolTypeOK
  BY DEF PoolInv
<1> QED BY <1>1, PoolInvariance, PTL

(* However rows are appended, replaced and sorted, the table of distances  *)
(* is the one of the entries.                                              *)
THEOREM TableIsExact == PoolSpec => []CacheExact
<1>1. PoolInv => CacheExact
  BY DEF PoolInv
<1> QED BY <1>1, PoolInvariance, PTL

LEMMA SortedBest ==
  ASSUME NEW p, Sound(p), NEW q \in Sortings(p), p.entries # <<>>
  PROVE  q.entries # <<>> /\ BestCost(q) <= BestCost(p)
<1>1. /\ Sound(q) /\ IsPool(q) /\ IsPool(p)
      /\ Members(q) = Members(p)
      /\ \A k \in Members(p) : \E i \in Members(q) : q.entries[i] = p.entries[k]
  BY SortedSound DEF Sound
<1>2. BestIndex(p) \in Members(p) /\ CostAt(p, BestIndex(p)) = BestCost(p)
  BY <1>1, BestCostIs
<1>3. PICK i \in Members(q) : q.entries[i] = p.entries[BestIndex(p)]
  BY <1>1, <1>2
<1>4. q.entries # <<>>
  <2>1. Members(q) = 1..Len(q.entries)
    BY <1>1, MemberType
  <2>2. SUFFICES ASSUME q.entries = <<>> PROVE FALSE
    OBVIOUS
  <2>3. Len(q.entries) = 0
    BY <2>2
  <2> QED BY <1>3, <2>1, <2>3
<1> QED BY <1>1, <1>2, <1>3, <1>4, BestCostIs DEF CostAt

LEMMA StepBest ==
  ASSUME PoolInv, [PoolNext]_poolVars, pool.entries # <<>>
  PROVE  pool'.entries # <<>> /\ BestCost(pool') <= BestCost(pool)
<1>1. Sound(pool) /\ BestCost(pool) \in Nat
  BY BestCostIs DEF PoolInv, PoolTypeOK, CacheExact, Sound
<1>2. ASSUME NEW c \in Candidates, Insert(c)
      PROVE  pool'.entries # <<>> /\ BestCost(pool') <= BestCost(pool)
  BY <1>1, <1>2, InsertedBest DEF Insert
<1>3. CASE SortByCost
  BY <1>1, <1>3, SortedBest DEF SortByCost
<1>4. CASE UNCHANGED poolVars
  BY <1>1, <1>4 DEF poolVars
<1> QED BY <1>2, <1>3, <1>4 DEF PoolNext

(* The best entry is never given up for a worse one, whatever the          *)
(* thresholds are.                                                         *)
THEOREM BestIsSpared == PoolSpec => BestNeverWorse
<1>1. PoolInv /\ [PoolNext]_poolVars
        => [pool.entries # <<>> => pool'.entries # <<>> /\ BestCost(pool') <= BestCost(pool)]_poolVars
  BY StepBest
<1> QED BY <1>1, PoolInvariance, PTL DEF PoolSpec, BestNeverWorse

LEMMA PoolNext_Kept ==
  ASSUME PoolInv, CheapestKept, [PoolNext]_poolVars, Clear
  PROVE  CheapestKept'
<1>1. Sound(pool)
  BY DEF PoolInv, PoolTypeOK, CacheExact, Sound
<1>2. SUFFICES ASSUME NEW d \in offered'
               PROVE  pool'.entries # <<>> /\ BestCost(pool') <= Cost[d] + CostEps
  BY DEF CheapestKept
<1>3. CASE d \in offered
  <2>1. pool.entries # <<>> /\ BestCost(pool) <= Cost[d] + CostEps
    BY <1>3 DEF CheapestKept
  <2>2. pool'.entries # <<>> /\ BestCost(pool') <= BestCost(pool)
    BY <2>1, StepBest
  <2>3. Sound(pool')
    BY PoolNext_Inv DEF PoolInv, PoolTypeOK, CacheExact, Sound
  <2>4. BestCost(pool) \in Nat /\ BestCost(pool') \in Nat
    BY <1>1, <2>1, <2>2, <2>3, BestCostIs DEF Sound
  <2>5. Cost[d] \in Nat /\ CostEps \in Nat
    BY <1>3, CostAssumption, ConfigAssumption DEF PoolInv, PoolTypeOK
  <2> QED BY <2>1, <2>2, <2>4, <2>5
<1>4. CASE d \notin offered
  <2>1. d \in Candidates /\ pool' = Inserted(pool, d)
    BY <1>4 DEF PoolNext, Insert, SortByCost, poolVars
  <2> QED BY <1>1, <2>1, InsertedKept
<1> QED BY <1>3, <1>4

(* The pool keeps the cheapest partition ever offered, if it has room for  *)
(* two and no distance lies between its thresholds.  PoolBoundary.cfg      *)
(* shows that the second condition is needed.                              *)
THEOREM CheapestIsKept ==
  ASSUME Clear
  PROVE  PoolSpec => []CheapestKept
<1>1. PoolInit => CheapestKept
  BY DEF PoolInit, CheapestKept
<1>2. PoolInv /\ CheapestKept /\ [PoolNext]_poolVars => CheapestKept'
  BY PoolNext_Kept
<1> QED BY <1>1, <1>2, PoolInvariance, PTL DEF PoolSpec
-----------------------------------------------------------------------------
(* The workers and the pool they share.                                    *)

(* w holds a cost that it read of the pool.                                *)
Sees(w) == pc[w] \in {"catch_up", "track", "record"}

SeenInv ==
  \A w \in Workers :
    /\ Sees(w) \/ At(w, "refine") => pool.entries # <<>>
    /\ Sees(w) => BestCost(pool) <= current[w]

ExchangeInv ==
  \A w \in Workers : At(w, "catch_up") \/ At(w, "record") => current[w] < prev[w]

(* w will still bring best_ever down to the pool's best.                   *)
Covers(w) ==
  \/ pc[w] \in {"publish", "init_fm", "evo"}
  \/ Sees(w) /\ current[w] <= BestCost(pool)

CoverInv ==
  hasDeadline /\ result = <<>> /\ pool.entries # <<>>
    => bestEver <= BestCost(pool) + CostEps \/ \E w \in Workers : Covers(w)

(* w runs the symmetry task.                                               *)
InSymm(w) == pc[w] \in {"symm", "fill", "insert_symm", "publish"}

SymmInv ==
  /\ nextGen0 <= SymmTask => ~symmReady
  /\ \A w \in Workers : InSymm(w) => nextGen0 > SymmTask /\ ~symmReady
  /\ \A w, v \in Workers : InSymm(w) /\ InSymm(v) => w = v
  /\ symmCtx = "partial" => \E w \in Workers : At(w, "fill")

-----------------------------------------------------------------------------
(* Several insertions in one critical section.                             *)
Batch == {found \in Seq(Candidates) : Len(found) \in 0..2}

LEMMA BatchMembers ==
  ASSUME NEW found \in Batch
  PROVE  \A i \in 1..Len(found) : found[i] \in Candidates
BY DEF Batch

LEMMA InsertEachStep ==
  ASSUME NEW p, Sound(p), DOMAIN p = {"entries", "dists"}, NEW found \in Batch
  PROVE  /\ Sound(InsertEach(p, found))
         /\ DOMAIN InsertEach(p, found) = {"entries", "dists"}
         /\ p.entries # <<>> => /\ InsertEach(p, found).entries # <<>>
                                /\ BestCost(InsertEach(p, found)) <= BestCost(p)
<1>1. CASE Len(found) = 0
  <2>1. InsertEach(p, found) = p
    BY <1>1 DEF InsertEach
  <2> QED BY <2>1, BestCostIs DEF Sound
<1>2. CASE Len(found) = 1
  <2>1. found[1] \in Candidates
    BY <1>2 DEF Batch
  <2>2. InsertEach(p, found) = Inserted(p, found[1])
    BY <1>2 DEF InsertEach
  <2> QED BY <2>1, <2>2, InsertedSound, InsertedFields, InsertedBest
<1>3. CASE Len(found) = 2
  <2>1. found[1] \in Candidates /\ found[2] \in Candidates
    BY <1>3 DEF Batch
  <2> DEFINE q == Inserted(p, found[1])
             r == Inserted(q, found[2])
  <2>2. InsertEach(p, found) = r
    BY <1>3 DEF InsertEach
  <2>3. /\ Sound(q) /\ DOMAIN q = {"entries", "dists"}
        /\ p.entries # <<>> => q.entries # <<>> /\ BestCost(q) <= BestCost(p)
    BY <2>1, InsertedSound, InsertedFields, InsertedBest
  <2> HIDE DEF q
  <2>4. /\ Sound(r) /\ DOMAIN r = {"entries", "dists"}
        /\ q.entries # <<>> => r.entries # <<>> /\ BestCost(r) <= BestCost(q)
    BY <2>1, <2>3, InsertedSound, InsertedFields, InsertedBest
  <2> HIDE DEF r
  <2>5. ASSUME p.entries # <<>>
        PROVE  r.entries # <<>> /\ BestCost(r) <= BestCost(p)
    <3>1. BestCost(p) \in Nat /\ BestCost(q) \in Nat /\ BestCost(r) \in Nat
      BY <2>3, <2>4, <2>5, BestCostIs DEF Sound
    <3> QED BY <2>3, <2>4, <2>5, <3>1
  <2> QED BY <2>2, <2>4, <2>5
<1> QED BY <1>1, <1>2, <1>3 DEF Batch

LEMMA InsertEachKept ==
  ASSUME NEW p, Sound(p), DOMAIN p = {"entries", "dists"}, NEW found \in Batch,
         Clear, NEW i \in 1..Len(found)
  PROVE  /\ InsertEach(p, found).entries # <<>>
         /\ BestCost(InsertEach(p, found)) <= Cost[found[i]] + CostEps
<1>1. CASE Len(found) = 1
  <2>1. found[1] \in Candidates /\ i = 1
    BY <1>1 DEF Batch
  <2>2. InsertEach(p, found) = Inserted(p, found[1])
    BY <1>1 DEF InsertEach
  <2> QED BY <2>1, <2>2, InsertedKept
<1>2. CASE Len(found) = 2
  <2>1. found[1] \in Candidates /\ found[2] \in Candidates /\ (i = 1 \/ i = 2)
    <3>1. found[1] \in Candidates /\ found[2] \in Candidates
      BY <1>2, BatchMembers
    <3>2. \A k \in 1..2 : k = 1 \/ k = 2
      OBVIOUS
    <3> QED BY <1>2, <3>1, <3>2
  <2> DEFINE q == Inserted(p, found[1])
             r == Inserted(q, found[2])
  <2>2. InsertEach(p, found) = r
    BY <1>2 DEF InsertEach
  <2>3. Sound(q) /\ q.entries # <<>> /\ BestCost(q) <= Cost[found[1]] + CostEps
    BY <2>1, InsertedSound, InsertedKept
  <2> HIDE DEF q
  <2>4. /\ Sound(r) /\ r.entries # <<>> /\ BestCost(r) <= Cost[found[2]] + CostEps
        /\ BestCost(r) <= BestCost(q)
    BY <2>1, <2>3, InsertedSound, InsertedBest, InsertedKept
  <2> HIDE DEF r
  <2>5. /\ BestCost(q) \in Nat /\ BestCost(r) \in Nat
        /\ Cost[found[1]] \in Nat /\ CostEps \in Nat
    BY <2>1, <2>3, <2>4, BestCostIs, CostAssumption, ConfigAssumption DEF Sound
  <2> QED BY <2>1, <2>2, <2>3, <2>4, <2>5
<1> QED BY <1>1, <1>2 DEF Batch

LEMMA FindingsAreBatches ==
  /\ Findings \subseteq Batch
  /\ SymmFindings \subseteq Batch
  /\ {<<>>} \cup {<<c>> : c \in Candidates} \subseteq Batch
<1>1. <<>> \in Batch
  BY DEF Batch
<1>2. \A c \in Candidates : <<c>> \in Batch
  BY DEF Batch
<1>3. \A cd \in Candidates \X Candidates : cd \in Batch
  <2> SUFFICES ASSUME NEW c \in Candidates, NEW d \in Candidates
               PROVE  <<c, d>> \in Batch
    OBVIOUS
  <2> QED BY DEF Batch
<1>4. ASSUME NEW n \in 0..MaxSymmParts, NEW found \in [1..n -> SymmParts]
      PROVE  found \in Batch
  <2>1. n \in Nat /\ n \in 0..2 /\ found \in [1..n -> Candidates]
    BY SearchAssumption
  <2>2. found \in Seq(Candidates) /\ Len(found) = n
    BY <2>1, IsASeq
  <2> QED BY <2>1, <2>2 DEF Batch
<1> QED BY <1>1, <1>2, <1>3, <1>4 DEF Findings, SymmFindings

-----------------------------------------------------------------------------
(* What a step does to the pool.                                           *)
PoolStep ==
  /\ Sound(pool) /\ Sound(pool')
  /\ DOMAIN pool' = {"entries", "dists"}
  /\ offered' \subseteq Candidates
  /\ pool.entries # <<>> => pool'.entries # <<>> /\ BestCost(pool') <= BestCost(pool)

LEMMA PoolIsSound ==
  ASSUME WorkersTypeOK, CacheExact
  PROVE  Sound(pool) /\ DOMAIN pool = {"entries", "dists"} /\ offered \subseteq Candidates
BY DEF WorkersTypeOK, PoolTypeOK, CacheExact, Sound

LEMMA BatchStep ==
  ASSUME WorkersTypeOK, CacheExact, NEW found \in Batch, InsertAll(found)
  PROVE  PoolStep
BY BatchMembers, PoolIsSound, InsertEachStep DEF InsertAll, PoolStep

LEMMA UnchangedStep ==
  ASSUME WorkersTypeOK, CacheExact, UNCHANGED poolVars
  PROVE  PoolStep
<1>1. pool.entries # <<>> => BestCost(pool) \in Nat
  BY PoolIsSound, BestCostIs DEF Sound
<1> QED BY <1>1, PoolIsSound DEF poolVars, PoolStep

LEMMA JoinStep ==
  ASSUME WorkersTypeOK, CacheExact, Join
  PROVE  PoolStep
<1>1. Sound(pool) /\ offered \subseteq Candidates /\ Trivial \in Candidates
  BY PoolIsSound, SearchAssumption
<1>2. PICK p : /\ Sound(p) /\ pool' \in Sortings(p)
               /\ p = pool \/ pool.entries = <<>>
  <2>1. CASE pool.entries = <<>>
    BY <1>1, <2>1, InsertedSound DEF Join, Returned
  <2>2. CASE pool.entries # <<>>
    BY <1>1, <2>2 DEF Join, Returned
  <2> QED BY <2>1, <2>2
<1>3. Sound(pool') /\ DOMAIN pool' = {"entries", "dists"}
  <2>1. PICK q \in Sortings(p) : pool' = q
    BY <1>2
  <2>2. DOMAIN q = {"entries", "dists"}
    BY DEF Sortings
  <2> QED BY <1>2, <2>1, <2>2, SortedSound
<1>4. offered' \subseteq Candidates
  BY <1>1 DEF Join
<1> QED BY <1>1, <1>2, <1>3, <1>4, SortedBest DEF PoolStep

LEMMA NextPool ==
  ASSUME WorkersTypeOK, CacheExact, [Next]_searchVars
  PROVE  PoolStep
<1>1. ASSUME NEW w \in Workers, Work(w)
      PROVE  PoolStep
  <2>1. CASE InsertSymm(w)
    BY <2>1, BatchStep, FindingsAreBatches DEF InsertSymm
  <2>2. CASE InsertGreedy(w)
    BY <2>2, BatchStep, FindingsAreBatches DEF InsertGreedy
  <2>3. CASE InsertInitial(w)
    BY <2>3, BatchStep, FindingsAreBatches DEF InsertInitial
  <2>4. CASE InsertEvolved(w)
    BY <2>4, BatchStep, FindingsAreBatches DEF InsertEvolved
  <2>5. CASE ~(InsertSymm(w) \/ InsertGreedy(w) \/ InsertInitial(w) \/ InsertEvolved(w))
    <3>1. UNCHANGED poolVars
      BY <1>1, <2>5 DEF Work, TakeTask, NoPatterns, BuildContext, FillContext, Publish,
           StartEvolving, CatchUp, Stop, Select, SkipGap, Track, Record, Reset
    <3> QED BY <3>1, UnchangedStep
  <2> QED BY <2>1, <2>2, <2>3, <2>4, <2>5
<1>2. CASE Join
  BY <1>2, JoinStep
<1>3. CASE PassDeadline \/ Done \/ UNCHANGED searchVars
  BY <1>3, UnchangedStep DEF PassDeadline, Done, searchVars, poolVars
<1> QED BY <1>1, <1>2, <1>3 DEF Next

-----------------------------------------------------------------------------
(* Types, and what workers remember of the pool and of best_ever.          *)
LEMMA BestIsNat ==
  ASSUME PoolStep
  PROVE  /\ pool.entries # <<>> => BestCost(pool) \in Nat
         /\ pool'.entries # <<>> => BestCost(pool') \in Nat
BY BestCostIs DEF PoolStep, Sound

(* A worker's step that reads neither the pool nor best_ever.              *)
Plain(w, labels) ==
  /\ \E l \in labels : pc' = [pc EXCEPT ![w] = l]
  /\ UNCHANGED <<bestEver, current, prev>>

PlainLabels == Labels \ {"catch_up", "track", "record", "refine"}

LEMMA SymmTaskType == SymmTask \in Nat
<1>1. NumThreads \in Nat
  BY SearchAssumption, FS_CardinalityType DEF NumThreads
<1>2. NumThreads \div Strategies \in Nat
  <2> DEFINE n == NumThreads
             s == Strategies
  <2>1. n \in Nat /\ s \in Nat /\ s > 0
    BY <1>1, SearchAssumption
  <2> HIDE DEF n, s
  <2>2. n \div s \in Nat
    BY <2>1
  <2> QED BY <2>2 DEF n, s
<1>3. TasksPerStrategy \in Nat
  BY <1>2 DEF TasksPerStrategy
<1>4. Strategies * TasksPerStrategy \in Nat
  BY <1>3, SearchAssumption
<1>5. NumThreads > Strategies * TasksPerStrategy => NumThreads - 1 \in Nat
  BY <1>1, <1>4
<1> QED BY <1>4, <1>5 DEF SymmTask

LEMMA WorkKinds ==
  ASSUME NEW w \in Workers, Work(w), nextGen0 \in Nat
  PROVE  \/ Plain(w, PlainLabels) \/ SkipGap(w)
         \/ Select(w) \/ StartEvolving(w) \/ CatchUp(w)
         \/ InsertEvolved(w) \/ Track(w) \/ Record(w)
<1>1. CASE TakeTask(w)
  <2>1. nextGen0 < SymmTask \/ nextGen0 = SymmTask \/ nextGen0 > SymmTask
    BY SymmTaskType
  <2> DEFINE l == CASE nextGen0 < SymmTask -> "init"
                    [] nextGen0 = SymmTask -> "symm"
                    [] nextGen0 > SymmTask -> "evo"
  <2>2. pc' = [pc EXCEPT ![w] = l] /\ UNCHANGED <<bestEver, current, prev>>
    BY <1>1 DEF TakeTask, Goto
  <2>3. l \in {"init", "symm", "evo"}
    BY <2>1
  <2> HIDE DEF l
  <2>4. l \in PlainLabels
    BY <2>3 DEF PlainLabels, Labels
  <2> QED BY <2>2, <2>4 DEF Plain
<1>2. CASE NoPatterns(w) \/ BuildContext(w) \/ FillContext(w) \/ Publish(w)
  BY <1>2 DEF NoPatterns, BuildContext, FillContext, Publish, Goto, Plain, PlainLabels, Labels,
       atomics
<1>3. CASE InsertSymm(w) \/ InsertGreedy(w) \/ InsertInitial(w)
  BY <1>3 DEF InsertSymm, InsertGreedy, InsertInitial, Goto, Plain, PlainLabels, Labels, atomics
<1>4. CASE Stop(w) \/ Reset(w)
  BY <1>4 DEF Stop, Reset, Goto, Plain, PlainLabels, Labels, atomics
<1> QED BY <1>1, <1>2, <1>3, <1>4 DEF Work

MemoInv == SeenInv /\ ExchangeInv /\ BestEverHeld

(* The part of the type invariant that workers' steps change.              *)
WorkType ==
  /\ pc \in [Workers -> Labels]
  /\ current \in [Workers -> Nat] /\ prev \in [Workers -> 0..Unlimited]
  /\ bestEver \in 0..Unlimited

LEMMA PlainKeeps ==
  ASSUME WorkType, MemoInv, PoolStep, NEW w \in Workers,
         Plain(w, PlainLabels) \/ SkipGap(w)
  PROVE  WorkType' /\ MemoInv'
<1>1. WorkType'
  BY DEF WorkType, Plain, PlainLabels, SkipGap
<1>2. /\ \A v \in Workers : Sees(v)' => Sees(v)
      /\ \A v \in Workers : At(v, "refine")' => At(v, "refine")
      /\ \A v \in Workers : At(v, "record")' => At(v, "record")
      /\ \A v \in Workers : At(v, "catch_up")' => At(v, "catch_up")
      /\ UNCHANGED <<bestEver, current, prev>>
  BY DEF WorkType, Plain, PlainLabels, SkipGap, Sees, At
<1>3. SeenInv'
  BY <1>2, BestIsNat DEF MemoInv, SeenInv, PoolStep, WorkType
<1>4. ExchangeInv'
  BY <1>2 DEF MemoInv, ExchangeInv
<1>5. BestEverHeld'
  BY <1>2, BestIsNat DEF MemoInv, BestEverHeld, PoolStep, WorkType
<1> QED BY <1>1, <1>3, <1>4, <1>5 DEF MemoInv

(* One turn of an exchange.                                                *)
LEMMA ExchangeKeeps ==
  ASSUME WorkType, MemoInv, PoolStep, UNCHANGED pool, NEW w \in Workers,
         At(w, "catch_up") \/ At(w, "record"),
         NEW margin \in Nat, NEW next \in PlainLabels, Exchange(w, margin, next)
  PROVE  WorkType' /\ MemoInv' /\ bestEver' <= bestEver
<1>1. /\ pool.entries # <<>> /\ BestCost(pool) \in Nat
      /\ BestCost(pool) <= current[w] /\ current[w] < prev[w]
      /\ current[w] \in Nat /\ prev[w] \in 0..Unlimited /\ Unlimited \in Nat
  BY BestIsNat, SearchAssumption DEF MemoInv, SeenInv, ExchangeInv, Sees, At, WorkType
<1>2. CASE /\ bestEver = prev[w]
           /\ bestEver' = current[w]
           /\ Leave(w, next)
  <2>1. WorkType' /\ bestEver' <= bestEver
    BY <1>1, <1>2 DEF WorkType, Leave, Goto, PlainLabels
  <2>2. /\ ~Sees(w)' /\ ~At(w, "refine")' /\ ~At(w, "catch_up")' /\ ~At(w, "record")'
        /\ \A v \in Workers \ {w} : /\ pc'[v] = pc[v]
                                    /\ current'[v] = current[v] /\ prev'[v] = prev[v]
    BY <1>2 DEF WorkType, Leave, Goto, PlainLabels, Sees, At
  <2>3. SeenInv' /\ ExchangeInv'
    BY <2>2, <1>1 DEF MemoInv, SeenInv, ExchangeInv, Sees, At
  <2>4. BestEverHeld'
    BY <1>1, <1>2 DEF BestEverHeld
  <2> QED BY <2>1, <2>3, <2>4 DEF MemoInv
<1>3. CASE /\ bestEver # prev[w] /\ Undercuts(w, margin, bestEver)
           /\ prev' = [prev EXCEPT ![w] = bestEver]
           /\ UNCHANGED <<current, pc, bestEver>>
  <2>1. current[w] < bestEver /\ bestEver <= bestEver
    BY <1>1, <1>3 DEF Undercuts, WorkType
  <2>2. WorkType'
    BY <1>3 DEF WorkType
  <2>3. SeenInv' /\ ExchangeInv' /\ BestEverHeld'
    BY <1>3, <2>1 DEF MemoInv, SeenInv, ExchangeInv, BestEverHeld, Sees, At, WorkType
  <2> QED BY <1>3, <2>1, <2>2, <2>3 DEF MemoInv
<1>4. CASE /\ bestEver # prev[w] /\ ~Undercuts(w, margin, bestEver)
           /\ Leave(w, next)
           /\ UNCHANGED bestEver
  <2>1. WorkType' /\ bestEver' <= bestEver
    BY <1>1, <1>4 DEF WorkType, Leave, Goto, PlainLabels
  <2>2. /\ ~Sees(w)' /\ ~At(w, "refine")' /\ ~At(w, "catch_up")' /\ ~At(w, "record")'
        /\ \A v \in Workers \ {w} : /\ pc'[v] = pc[v]
                                    /\ current'[v] = current[v] /\ prev'[v] = prev[v]
    BY <1>4 DEF WorkType, Leave, Goto, PlainLabels, Sees, At
  <2>3. SeenInv' /\ ExchangeInv'
    BY <2>2, <1>1 DEF MemoInv, SeenInv, ExchangeInv, Sees, At
  <2>4. BestEverHeld'
    BY <1>4 DEF BestEverHeld, MemoInv
  <2> QED BY <2>1, <2>3, <2>4 DEF MemoInv
<1> QED BY <1>2, <1>3, <1>4 DEF Exchange

(* A worker that reads the pool or best_ever.                              *)
LEMMA ReadingKeeps ==
  ASSUME WorkType, MemoInv, PoolStep, NEW w \in Workers,
         Select(w) \/ StartEvolving(w) \/ InsertEvolved(w) \/ Track(w)
  PROVE  WorkType' /\ MemoInv' /\ UNCHANGED bestEver
<1>1. /\ \A v \in Workers \ {w} : /\ pc'[v] = pc[v]
                                  /\ current'[v] = current[v] /\ prev'[v] = prev[v]
      /\ UNCHANGED bestEver
  BY DEF Select, StartEvolving, InsertEvolved, Track, Leave, Goto, WorkType, atomics
<1>2. /\ pool.entries # <<>> => BestCost(pool) \in Nat
      /\ pool'.entries # <<>> => BestCost(pool') \in Nat
      /\ pool.entries # <<>> => pool'.entries # <<>> /\ BestCost(pool') <= BestCost(pool)
      /\ Unlimited \in Nat /\ CostEps \in Nat
  BY BestIsNat, SearchAssumption, ConfigAssumption DEF PoolStep
<1>3. BestEverHeld'
  BY <1>1, <1>2 DEF MemoInv, BestEverHeld, WorkType
<1>4. /\ WorkType'
      /\ Sees(w)' \/ At(w, "refine")' => pool'.entries # <<>>
      /\ Sees(w)' => BestCost(pool') <= current'[w]
      /\ At(w, "catch_up")' \/ At(w, "record")' => current'[w] < prev'[w]
  <2>1. CASE Select(w)
    BY <2>1, <1>2 DEF Select, Goto, WorkType, Labels, Sees, At, atomics, poolVars
  <2>2. CASE StartEvolving(w)
    <3>1. UNCHANGED pool /\ bestEver \in 0..Unlimited /\ bestEver' = bestEver
      BY <2>2 DEF StartEvolving, poolVars, atomics, WorkType
    <3>2. CASE hasDeadline /\ pool.entries # <<>> /\ BestCost(pool) < bestEver
      <4> DEFINE b == BestCost(pool)
      <4>1. /\ b \in Nat /\ b < bestEver
            /\ current' = [current EXCEPT ![w] = b] /\ prev' = [prev EXCEPT ![w] = bestEver]
            /\ pc' = [pc EXCEPT ![w] = "catch_up"]
        BY <1>2, <2>2, <3>2 DEF StartEvolving, Goto
      <4>2. BestCost(pool') = b /\ pool'.entries # <<>>
        BY <3>1, <3>2
      <4> HIDE DEF b
      <4> QED BY <3>1, <4>1, <4>2 DEF WorkType, Labels, Sees, At
    <3>3. CASE ~(hasDeadline /\ pool.entries # <<>> /\ BestCost(pool) < bestEver)
      <4>1. /\ UNCHANGED <<current, prev>>
            /\ pc' = [pc EXCEPT ![w] = "loop"] \/ pc' = [pc EXCEPT ![w] = "done"]
        BY <2>2, <3>3 DEF StartEvolving, Goto
      <4> QED BY <3>1, <4>1 DEF WorkType, Labels, Sees, At
    <3> QED BY <3>2, <3>3
  <2>3. CASE InsertEvolved(w)
    <3>1. pool'.entries # <<>>
      BY <2>3, <1>2 DEF InsertEvolved, MemoInv, SeenInv
    <3> DEFINE b == BestCost(pool')
    <3>2. /\ b \in Nat /\ current' = [current EXCEPT ![w] = b] /\ UNCHANGED prev
          /\ pc' = [pc EXCEPT ![w] = "track"]
      BY <1>2, <2>3, <3>1 DEF InsertEvolved, Goto
    <3> HIDE DEF b
    <3>3. b <= current'[w]
      BY <3>2 DEF WorkType
    <3>4. BestCost(pool') <= current'[w]
      BY <3>3 DEF b
    <3> QED BY <1>1, <3>1, <3>2, <3>4 DEF WorkType, Labels, Sees, At
  <2>4. CASE Track(w)
    <3>1. /\ UNCHANGED pool /\ pool.entries # <<>> /\ BestCost(pool) <= current[w]
          /\ bestEver \in 0..Unlimited /\ current[w] \in Nat
      BY <2>4 DEF Track, poolVars, MemoInv, SeenInv, Sees, At, WorkType
    <3>2. CASE Undercuts(w, CostEps, bestEver)
      <4>1. /\ prev' = [prev EXCEPT ![w] = bestEver] /\ UNCHANGED current
            /\ pc' = [pc EXCEPT ![w] = "record"]
        BY <2>4, <3>2 DEF Track, Goto
      <4>2. current[w] < bestEver
        BY <3>1, <3>2, <1>2 DEF Undercuts
      <4> QED BY <1>1, <3>1, <4>1, <4>2 DEF WorkType, Labels, Sees, At
    <3>3. CASE ~Undercuts(w, CostEps, bestEver)
      <4>1. /\ prev' = [prev EXCEPT ![w] = 0] /\ current' = [current EXCEPT ![w] = 0]
            /\ pc' = [pc EXCEPT ![w] = "loop"]
        BY <2>4, <3>3 DEF Track, Goto, Leave
      <4> QED BY <1>1, <1>2, <4>1 DEF WorkType, Labels, Sees, At
    <3> QED BY <3>2, <3>3
  <2> QED BY <2>1, <2>2, <2>3, <2>4
<1>5. SeenInv'
  <2> SUFFICES ASSUME NEW v \in Workers
               PROVE  /\ (Sees(v) \/ At(v, "refine"))' => pool'.entries # <<>>
                      /\ Sees(v)' => BestCost(pool') <= current'[v]
    BY DEF SeenInv
  <2>1. CASE v = w
    BY <2>1, <1>4 DEF Sees, At
  <2>2. CASE v # w
    BY <2>2, <1>1, <1>2 DEF MemoInv, SeenInv, Sees, At, WorkType
  <2> QED BY <2>1, <2>2
<1>6. ExchangeInv'
  BY <1>1, <1>4 DEF MemoInv, ExchangeInv, At
<1> QED BY <1>1, <1>3, <1>4, <1>5, <1>6 DEF MemoInv

LEMMA MemoStep ==
  ASSUME WorkersTypeOK, CacheExact, MemoInv, [Next]_searchVars
  PROVE  WorkType' /\ MemoInv' /\ bestEver' <= bestEver
<1>1. WorkType /\ PoolStep /\ nextGen0 \in Nat /\ bestEver \in Nat /\ CostEps \in Nat
  BY NextPool, SearchAssumption, ConfigAssumption DEF WorkersTypeOK, WorkType
<1>2. ASSUME NEW w \in Workers, Work(w)
      PROVE  WorkType' /\ MemoInv' /\ bestEver' <= bestEver
  <2>1. CASE Plain(w, PlainLabels) \/ SkipGap(w)
    <3>1. bestEver' = bestEver
      BY <2>1 DEF Plain, SkipGap
    <3> QED BY <1>1, <2>1, <3>1, PlainKeeps
  <2>2. CASE Select(w) \/ StartEvolving(w) \/ InsertEvolved(w) \/ Track(w)
    BY <1>1, <2>2, ReadingKeeps
  <2>3. CASE CatchUp(w) \/ Record(w)
    <3>1. "loop" \in PlainLabels /\ "reset" \in PlainLabels /\ 0 \in Nat
      BY DEF PlainLabels, Labels
    <3>2. UNCHANGED pool
      BY <2>3 DEF CatchUp, Record, poolVars
    <3>3. CASE CatchUp(w)
      <4>1. At(w, "catch_up") /\ Exchange(w, 0, "loop")
        BY <3>3 DEF CatchUp
      <4> QED BY <1>1, <3>1, <3>2, <4>1, ExchangeKeeps
    <3>4. CASE Record(w)
      <4>1. At(w, "record") /\ Exchange(w, CostEps, "reset")
        BY <3>4 DEF Record
      <4> QED BY <1>1, <3>1, <3>2, <4>1, ExchangeKeeps
    <3> QED BY <2>3, <3>3, <3>4
  <2> QED BY <1>1, <1>2, <2>1, <2>2, <2>3, WorkKinds
<1>3. CASE PassDeadline \/ Join \/ Done \/ UNCHANGED searchVars
  <2>1. UNCHANGED <<pc, current, prev, bestEver>>
    BY <1>3 DEF PassDeadline, Join, Done, searchVars, atomics
  <2>2. WorkType' /\ bestEver' <= bestEver
    BY <1>1, <2>1 DEF WorkType
  <2>3. SeenInv'
    BY <1>1, <2>1, BestIsNat DEF MemoInv, SeenInv, Sees, At, PoolStep, WorkType
  <2>4. ExchangeInv'
    BY <2>1 DEF MemoInv, ExchangeInv, At
  <2>5. BestEverHeld'
    BY <1>1, <2>1, BestIsNat DEF MemoInv, BestEverHeld, PoolStep
  <2> QED BY <2>2, <2>3, <2>4, <2>5 DEF MemoInv
<1> QED BY <1>2, <1>3 DEF Next

-----------------------------------------------------------------------------
(* The rest of the type invariant.                                         *)
LEMMA TypeStep ==
  ASSUME WorkersTypeOK, CacheExact, MemoInv, [Next]_searchVars
  PROVE  WorkersTypeOK' /\ CacheExact'
<1>1. WorkType' /\ PoolStep
  BY MemoStep, NextPool
<1>2. PoolTypeOK' /\ CacheExact'
  BY <1>1 DEF PoolStep, PoolTypeOK, CacheExact, Sound
<1>3. UNCHANGED nextGen0 \/ nextGen0' = nextGen0 + 1
  BY DEF Next, PassDeadline, Join, Done, Work, TakeTask, NoPatterns, BuildContext, FillContext,
    InsertSymm, Publish, InsertGreedy, InsertInitial, StartEvolving, CatchUp, Stop, Select,
    SkipGap, InsertEvolved, Track, Record, Reset, searchVars, atomics
<1>4. UNCHANGED stagnant \/ OneMore \/ stagnant' = 0
  BY DEF Next, PassDeadline, Join, Done, Work, TakeTask, NoPatterns, BuildContext, FillContext,
    InsertSymm, Publish, InsertGreedy, InsertInitial, StartEvolving, CatchUp, Stop, Select,
    SkipGap, InsertEvolved, Track, Record, Reset, searchVars, atomics
<1>5. /\ UNCHANGED symmReady \/ symmReady' = TRUE
      /\ UNCHANGED symmCtx \/ symmCtx' \in {"partial", "full"}
      /\ UNCHANGED hasDeadline
      /\ UNCHANGED late \/ late' = TRUE
      /\ UNCHANGED result \/ result' = pool'.entries
  BY DEF Next, PassDeadline, Join, Done, Work, TakeTask, NoPatterns, BuildContext, FillContext,
    InsertSymm, Publish, InsertGreedy, InsertInitial, StartEvolving, CatchUp, Stop, Select,
    SkipGap, InsertEvolved, Track, Record, Reset, searchVars, atomics
<1>6. nextGen0' \in Nat
  BY <1>3 DEF WorkersTypeOK
<1>7. stagnant' \in 0..StopAfter
  BY <1>4, SearchAssumption DEF WorkersTypeOK, OneMore
<1>8. pool'.entries \in Seq(Candidates)
  BY <1>1 DEF PoolStep, Sound, IsPool
<1> QED BY <1>1, <1>2, <1>5, <1>6, <1>7, <1>8 DEF WorkersTypeOK, WorkType

LEMMA SearchInit ==
  ASSUME Init
  PROVE  WorkersTypeOK /\ CacheExact /\ MemoInv
<1>1. PoolInv
  BY PoolInit_Inv DEF Init
<1>2. PoolTypeOK /\ CacheExact
  BY <1>1 DEF PoolInv
<1>3. 0 \in Nat /\ 0 \in 0..Unlimited /\ Unlimited \in 0..Unlimited /\ 0 \in 0..StopAfter
  BY SearchAssumption
<1>4. WorkersTypeOK
  BY <1>2, <1>3, EmptySeq DEF Init, WorkersTypeOK, Labels
<1>5. MemoInv
  BY DEF Init, MemoInv, SeenInv, ExchangeInv, BestEverHeld, Sees, At
<1> QED BY <1>2, <1>4, <1>5

(* Types, the table, what is remembered of the pool, and that best_ever is *)
(* never below the pool's best.                                            *)
THEOREM SearchInvariance == SearchSpec => [](WorkersTypeOK /\ CacheExact /\ MemoInv)
<1>1. Init => WorkersTypeOK /\ CacheExact /\ MemoInv
  BY SearchInit
<1>2. WorkersTypeOK /\ CacheExact /\ MemoInv /\ [Next]_searchVars
        => (WorkersTypeOK /\ CacheExact /\ MemoInv)'
  BY TypeStep, MemoStep
<1> QED BY <1>1, <1>2, PTL DEF SearchSpec

(* The types of parallel_search's shared and local variables.              *)
THEOREM SearchTypeCorrect == SearchSpec => []WorkersTypeOK
BY SearchInvariance, PTL

(* parallel_search.cpp's best_ever is the cost of something the pool still *)
(* holds, or dearer.                                                       *)
THEOREM BestEverIsHeld == SearchSpec => []BestEverHeld
<1>1. WorkersTypeOK /\ CacheExact /\ MemoInv => BestEverHeld
  BY DEF MemoInv
<1> QED BY <1>1, SearchInvariance, PTL

(* The exchange loops never raise best_ever, in whatever order the threads *)
(* take their turns.                                                       *)
THEOREM BestEverOnlyFalls == SearchSpec => BestEverFalls
<1>1. WorkersTypeOK /\ CacheExact /\ MemoInv /\ [Next]_searchVars
        => [bestEver' <= bestEver]_searchVars
  BY MemoStep
<1> QED BY <1>1, SearchInvariance, PTL DEF SearchSpec, BestEverFalls

-----------------------------------------------------------------------------
(* The covering argument.                                                  *)
LEMMA CoverExchange ==
  ASSUME WorkType, CoverInv, MemoInv, PoolStep, NEW w \in Workers,
         UNCHANGED <<pool, hasDeadline, result>>,
         At(w, "catch_up") \/ At(w, "record"),
         NEW margin \in 0..CostEps, NEW next \in PlainLabels, Exchange(w, margin, next)
  PROVE  CoverInv'
<1> SUFFICES ASSUME hasDeadline, result = <<>>
             PROVE  bestEver' <= BestCost(pool) + CostEps \/ \E v \in Workers : Covers(v)'
  BY DEF CoverInv
<1>1. /\ pool.entries # <<>> /\ BestCost(pool) \in Nat
      /\ current[w] \in Nat /\ prev[w] \in Nat /\ bestEver \in Nat
      /\ CostEps \in Nat /\ margin \in Nat /\ margin <= CostEps
      /\ current[w] < prev[w]
  BY BestIsNat, SearchAssumption, ConfigAssumption
     DEF MemoInv, SeenInv, ExchangeInv, Sees, At, WorkType
<1>2. bestEver <= BestCost(pool) + CostEps \/ \E v \in Workers : Covers(v)
  BY <1>1 DEF CoverInv
<1>3. \A v \in Workers \ {w} : pc'[v] = pc[v] /\ current'[v] = current[v]
  BY DEF WorkType, Exchange, Leave, Goto
<1>4. ASSUME NEW v \in Workers, v # w, Covers(v)
      PROVE  Covers(v)'
  BY <1>3, <1>4 DEF Covers, Sees
<1>5. Covers(w) => current[w] <= BestCost(pool)
  BY DEF Covers, At
<1>6. bestEver' <= bestEver
  BY ExchangeKeeps, <1>1
<1>7. CASE bestEver <= BestCost(pool) + CostEps
  <2>1. bestEver' \in Nat
    BY <1>1 DEF Exchange, Leave
  <2> QED BY <1>1, <1>6, <1>7, <2>1
<1>8. CASE Covers(w)
  <2>1. current[w] <= BestCost(pool)
    BY <1>5, <1>8
  <2>2. CASE bestEver' = current[w]
    BY <1>1, <2>1, <2>2
  <2>3. CASE UNCHANGED <<current, pc, bestEver>>
    BY <1>8, <2>3 DEF Covers, Sees
  <2>4. CASE ~Undercuts(w, margin, bestEver) /\ UNCHANGED bestEver
    BY <1>1, <2>1, <2>4 DEF Undercuts
  <2> QED BY <2>2, <2>3, <2>4 DEF Exchange
<1> QED BY <1>2, <1>4, <1>7, <1>8

(* A worker's step that is no exchange: it covers the pool afterwards, or  *)
(* finds nothing to record, or leaves the pool and its covering alone.     *)
FindsNothing(w) ==
  \/ ~hasDeadline \/ pool.entries = <<>>
  \/ bestEver <= BestCost(pool)
  \/ Sees(w) /\ bestEver <= current[w] + CostEps

CoverKind(w) ==
  \/ pc'[w] \in {"publish", "init_fm", "evo"}
  \/ Sees(w)' /\ current'[w] = BestCost(pool')
  \/ UNCHANGED pool /\ FindsNothing(w)
  \/ UNCHANGED pool /\ pc[w] \notin {"publish", "init_fm", "evo"} /\ ~Sees(w)
  \/ UNCHANGED <<pool, current>> /\ Sees(w) /\ Sees(w)'

LEMMA CoverKinds ==
  ASSUME WorkType, PoolStep, NEW w \in Workers, Work(w), ~CatchUp(w), ~Record(w)
  PROVE  /\ UNCHANGED <<bestEver, hasDeadline, result>>
         /\ \A v \in Workers \ {w} : pc'[v] = pc[v] /\ current'[v] = current[v]
         /\ CoverKind(w)
<1>1. UNCHANGED <<bestEver, hasDeadline, result>>
  BY DEF Work, TakeTask, NoPatterns, BuildContext, FillContext,
    InsertSymm, Publish, InsertGreedy, InsertInitial, StartEvolving, Stop, Select,
    SkipGap, InsertEvolved, Track, Reset, atomics
<1>2. \A v \in Workers \ {w} : pc'[v] = pc[v] /\ current'[v] = current[v]
  BY DEF Work, TakeTask, NoPatterns, BuildContext, FillContext,
    InsertSymm, Publish, InsertGreedy, InsertInitial, StartEvolving, Stop, Select,
    SkipGap, InsertEvolved, Track, Reset, Goto, Leave, WorkType
<1> SUFFICES CoverKind(w)
  BY <1>1, <1>2
<1>3. CASE InsertSymm(w) \/ InsertGreedy(w) \/ InsertInitial(w) \/ Publish(w)
  BY <1>3 DEF InsertSymm, InsertGreedy, InsertInitial, Publish, Goto, WorkType, CoverKind
<1>4. CASE InsertEvolved(w)
  <2>1. pc' = [pc EXCEPT ![w] = "track"] /\ current' = [current EXCEPT ![w] = BestCost(pool')]
    BY <1>4 DEF InsertEvolved, Goto
  <2>2. pc'[w] = "track" /\ current'[w] = BestCost(pool')
    BY <2>1 DEF WorkType
  <2> QED BY <2>2 DEF CoverKind, Sees
<1>5. CASE \/ TakeTask(w) \/ NoPatterns(w) \/ BuildContext(w) \/ FillContext(w)
           \/ Stop(w) \/ Select(w) \/ SkipGap(w) \/ Reset(w)
  BY <1>5 DEF TakeTask, NoPatterns, BuildContext, FillContext, Stop, Select, SkipGap, Reset,
    At, Sees, poolVars, CoverKind
<1>6. CASE StartEvolving(w)
  <2>1. UNCHANGED pool
    BY <1>6 DEF StartEvolving, poolVars
  <2>2. CASE hasDeadline /\ pool.entries # <<>> /\ BestCost(pool) < bestEver
    <3>1. pc' = [pc EXCEPT ![w] = "catch_up"] /\ current' = [current EXCEPT ![w] = BestCost(pool)]
      BY <1>6, <2>2 DEF StartEvolving, Goto
    <3>2. pc'[w] = "catch_up" /\ current'[w] = BestCost(pool)
      BY <3>1 DEF WorkType
    <3>3. current'[w] = BestCost(pool')
      BY <2>1, <3>2
    <3> QED BY <3>2, <3>3 DEF CoverKind, Sees
  <2>3. CASE ~(hasDeadline /\ pool.entries # <<>> /\ BestCost(pool) < bestEver)
    <3>1. bestEver \in Nat /\ (pool.entries # <<>> => BestCost(pool) \in Nat)
      BY SearchAssumption, BestIsNat DEF WorkType
    <3>2. ~hasDeadline \/ pool.entries = <<>> \/ bestEver <= BestCost(pool)
      BY <2>3, <3>1
    <3> QED BY <2>1, <3>2 DEF CoverKind, FindsNothing
  <2> QED BY <2>2, <2>3
<1>7. CASE Track(w)
  <2>1. UNCHANGED pool /\ Sees(w)
    BY <1>7 DEF Track, poolVars, Sees, At
  <2>2. CASE Undercuts(w, CostEps, bestEver)
    BY <1>7, <2>1, <2>2 DEF Track, Goto, WorkType, Sees, CoverKind
  <2>3. CASE ~Undercuts(w, CostEps, bestEver)
    <3>1. bestEver \in Nat /\ current[w] \in Nat /\ CostEps \in Nat
      BY SearchAssumption, ConfigAssumption DEF WorkType
    <3> QED BY <2>1, <2>3, <3>1 DEF Undercuts, CoverKind, FindsNothing
  <2> QED BY <2>2, <2>3
<1> QED BY <1>3, <1>4, <1>5, <1>6, <1>7 DEF Work

LEMMA CoverStep ==
  ASSUME WorkersTypeOK, CacheExact, MemoInv, CoverInv, [Next]_searchVars
  PROVE  CoverInv'
<1>1. /\ WorkType /\ PoolStep /\ nextGen0 \in Nat
      /\ bestEver \in Nat /\ CostEps \in Nat
      /\ pool.entries # <<>> => BestCost(pool) \in Nat
      /\ pool'.entries # <<>> => BestCost(pool') \in Nat
  BY NextPool, BestIsNat, SearchAssumption, ConfigAssumption DEF WorkersTypeOK, WorkType
<1>2. ASSUME NEW w \in Workers, Work(w), ~CatchUp(w), ~Record(w)
      PROVE  CoverInv'
  <2> SUFFICES ASSUME hasDeadline', result' = <<>>, pool'.entries # <<>>
               PROVE  bestEver' <= BestCost(pool') + CostEps \/ \E v \in Workers : Covers(v)'
    BY DEF CoverInv
  <2>1. /\ UNCHANGED <<bestEver, hasDeadline, result>>
        /\ \A v \in Workers \ {w} : pc'[v] = pc[v] /\ current'[v] = current[v]
        /\ CoverKind(w)
    BY <1>1, <1>2, CoverKinds
  <2>2. CASE pc'[w] \in {"publish", "init_fm", "evo"}
    BY <2>2 DEF Covers
  <2>3. CASE Sees(w)' /\ current'[w] = BestCost(pool')
    BY <1>1, <2>3 DEF Covers, Sees
  <2>4. CASE UNCHANGED pool
    <3>1. bestEver <= BestCost(pool) + CostEps \/ \E v \in Workers : Covers(v)
      BY <2>1, <2>4 DEF CoverInv
    <3>2. ASSUME NEW v \in Workers, v # w, Covers(v)
          PROVE  Covers(v)'
      BY <2>1, <2>4, <3>2 DEF Covers, Sees
    <3>3. CASE bestEver <= BestCost(pool) + CostEps
      BY <2>1, <2>4, <3>3
    <3>4. CASE Covers(w)
      <4>1. CASE FindsNothing(w)
        <5>1. CASE bestEver <= BestCost(pool)
          BY <1>1, <2>1, <2>4, <5>1
        <5>2. CASE Sees(w) /\ bestEver <= current[w] + CostEps
          <6>1. current[w] <= BestCost(pool) /\ current[w] \in Nat
            BY <1>1, <3>4, <5>2 DEF Covers, Sees, WorkType
          <6> QED BY <1>1, <2>1, <2>4, <5>2, <6>1
        <5> QED BY <2>1, <2>4, <4>1, <5>1, <5>2 DEF FindsNothing
      <4>2. CASE UNCHANGED current /\ Sees(w) /\ Sees(w)'
        <5>1. Covers(w)'
          BY <2>4, <3>4, <4>2 DEF Covers, Sees
        <5> QED BY <5>1
      <4> QED BY <2>1, <2>2, <2>3, <3>4, <4>1, <4>2 DEF CoverKind, Covers
    <3> QED BY <3>1, <3>2, <3>3, <3>4
  <2> QED BY <2>1, <2>2, <2>3, <2>4 DEF CoverKind
<1>3. ASSUME NEW w \in Workers, CatchUp(w) \/ Record(w)
      PROVE  CoverInv'
  <2>1. /\ "loop" \in PlainLabels /\ "reset" \in PlainLabels
        /\ 0 \in 0..CostEps /\ CostEps \in 0..CostEps
    BY <1>1 DEF PlainLabels, Labels
  <2>2. UNCHANGED <<pool, hasDeadline, result>>
    BY <1>3 DEF CatchUp, Record, poolVars
  <2>3. CASE CatchUp(w)
    <3>1. At(w, "catch_up") /\ Exchange(w, 0, "loop")
      BY <2>3 DEF CatchUp
    <3> QED BY <1>1, <2>1, <2>2, <3>1, CoverExchange
  <2>4. CASE Record(w)
    <3>1. At(w, "record") /\ Exchange(w, CostEps, "reset")
      BY <2>4 DEF Record
    <3> QED BY <1>1, <2>1, <2>2, <3>1, CoverExchange
  <2> QED BY <1>3, <2>3, <2>4
<1>4. CASE Join
  <2>1. result' = pool'.entries
    BY <1>4 DEF Join
  <2> QED BY <2>1 DEF CoverInv
<1>5. CASE PassDeadline \/ Done \/ UNCHANGED searchVars
  <2>1. UNCHANGED <<pool, pc, current, bestEver, hasDeadline, result>>
    BY <1>5 DEF PassDeadline, Done, searchVars, poolVars, atomics
  <2> QED BY <2>1 DEF CoverInv, Covers, Sees
<1> QED BY <1>2, <1>3, <1>4, <1>5 DEF Next

(* parallel_search.cpp: no improvement of the pool is lost to best_ever.   *)
THEOREM NoImprovementIsLost == SearchSpec => []BestEverCurrent
<1>1. Init => CoverInv
  BY DEF Init, CoverInv, PoolInit, EmptyPool
<1>2. WorkersTypeOK /\ CacheExact /\ MemoInv /\ CoverInv /\ [Next]_searchVars => CoverInv'
  BY CoverStep
<1>3. CoverInv => BestEverCurrent
  BY DEF CoverInv, BestEverCurrent, Covers, Sees, Owes
<1> QED BY <1>1, <1>2, <1>3, SearchInvariance, PTL DEF SearchSpec

-----------------------------------------------------------------------------
(* One worker at most runs the symmetry task.                              *)
LEMMA SymmStep ==
  ASSUME WorkersTypeOK, SymmInv, [Next]_searchVars
  PROVE  SymmInv'
<1>1. nextGen0 \in Nat /\ SymmTask \in Nat /\ pc \in [Workers -> Labels]
  BY SymmTaskType DEF WorkersTypeOK
<1>2. ASSUME NEW w \in Workers, TakeTask(w)
      PROVE  SymmInv'
  <2> DEFINE l == CASE nextGen0 < SymmTask -> "init"
                    [] nextGen0 = SymmTask -> "symm"
                    [] nextGen0 > SymmTask -> "evo"
  <2>1. /\ pc' = [pc EXCEPT ![w] = l] /\ nextGen0' = nextGen0 + 1
        /\ pc[w] = "start" /\ UNCHANGED <<symmReady, symmCtx>>
    BY <1>2 DEF TakeTask, Goto, At
  <2>2. l \in {"init", "symm", "evo"} /\ (l = "symm" => nextGen0 = SymmTask)
    BY <1>1
  <2> HIDE DEF l
  <2>3. \A v \in Workers : v # w => pc'[v] = pc[v]
    BY <1>1, <2>1
  <2>4. pc'[w] = l
    BY <1>1, <2>1
  <2>5. nextGen0 = SymmTask => \A v \in Workers : ~InSymm(v)
    BY <1>1 DEF SymmInv
  <2>6. \A v \in Workers : InSymm(v)' => \/ v # w /\ InSymm(v)
                                         \/ v = w /\ nextGen0 = SymmTask
    BY <2>2, <2>3, <2>4 DEF InSymm
  <2>7. \A v \in Workers : At(v, "fill")' <=> At(v, "fill")
    BY <2>1, <2>2, <2>3, <2>4 DEF At
  <2> QED BY <1>1, <2>1, <2>5, <2>6, <2>7 DEF SymmInv
<1>3. ASSUME NEW w \in Workers,
             NoPatterns(w) \/ BuildContext(w) \/ FillContext(w) \/ InsertSymm(w) \/ Publish(w)
      PROVE  SymmInv'
  <2>1. InSymm(w) /\ UNCHANGED nextGen0
    BY <1>3 DEF NoPatterns, BuildContext, FillContext, InsertSymm, Publish, InSymm, At, atomics
  <2>2. \A v \in Workers : v # w => pc'[v] = pc[v] /\ ~InSymm(v)
    BY <1>1, <1>3, <2>1 DEF NoPatterns, BuildContext, FillContext, InsertSymm, Publish, Goto,
      SymmInv
  <2>3. nextGen0 > SymmTask /\ ~symmReady
    BY <2>1 DEF SymmInv
  <2>4. \A v \in Workers : InSymm(v)' => v = w
    BY <2>2 DEF InSymm
  <2>5. InSymm(w)' => ~symmReady'
    BY <1>1, <1>3, <2>3 DEF NoPatterns, BuildContext, FillContext, InsertSymm, Publish, Goto,
      InSymm, atomics
  <2>6. symmCtx' = "partial" => At(w, "fill")'
    <3>1. symmCtx = "partial" => At(w, "fill")
      BY <2>2 DEF SymmInv, InSymm, At
    <3> QED BY <1>1, <1>3, <3>1 DEF NoPatterns, BuildContext, FillContext, InsertSymm, Publish,
          Goto, At
  <2> QED BY <1>1, <2>1, <2>3, <2>4, <2>5, <2>6 DEF SymmInv
<1>4. CASE \A w \in Workers :
             ~(TakeTask(w) \/ NoPatterns(w) \/ BuildContext(w) \/ FillContext(w)
                 \/ InsertSymm(w) \/ Publish(w))
  <2>1. UNCHANGED <<nextGen0, symmReady, symmCtx>>
    BY <1>4 DEF Next, PassDeadline, Join, Done, Work, InsertGreedy, InsertInitial,
      StartEvolving, CatchUp, Stop, Select, SkipGap, InsertEvolved, Track, Record, Reset,
      searchVars, atomics
  <2>2. \A v \in Workers : /\ InSymm(v)' => InSymm(v)
                           /\ At(v, "fill") => At(v, "fill")'
    BY <1>1, <1>4 DEF Next, PassDeadline, Join, Done, Work, InsertGreedy, InsertInitial,
      StartEvolving, CatchUp, Stop, Select, SkipGap, InsertEvolved, Track, Record, Reset,
      searchVars, InSymm, At, Goto, Exchange, Leave
  <2> QED BY <2>1, <2>2 DEF SymmInv
<1> QED BY <1>2, <1>3, <1>4

(* parallel_search.cpp's symm_ctx: workers that see symm_ready read a      *)
(* context that is complete and that nobody writes any more.               *)
THEOREM ContextIsPublished == SearchSpec => []ContextPublished
<1>1. Init => SymmInv
  BY DEF Init, SymmInv, InSymm
<1>2. WorkersTypeOK /\ SymmInv /\ [Next]_searchVars => SymmInv'
  BY SymmStep
<1>3. WorkersTypeOK /\ SymmInv => ContextPublished
  BY DEF SymmInv, ContextPublished, InSymm, At
<1> QED BY <1>1, <1>2, <1>3, SearchInvariance, PTL DEF SearchSpec

-----------------------------------------------------------------------------
(* What is returned.                                                       *)
LEMMA BatchKept ==
  ASSUME WorkersTypeOK, CacheExact, CheapestKept, Clear,
         NEW found \in Batch, InsertAll(found)
  PROVE  CheapestKept'
<1>1. PoolStep /\ Sound(pool) /\ DOMAIN pool = {"entries", "dists"}
  BY BatchStep, PoolIsSound
<1> SUFFICES ASSUME NEW c \in offered'
             PROVE  pool'.entries # <<>> /\ BestCost(pool') <= Cost[c] + CostEps
  BY DEF CheapestKept
<1>2. CASE c \in offered
  <2>1. pool.entries # <<>> /\ BestCost(pool) <= Cost[c] + CostEps
    BY <1>2 DEF CheapestKept
  <2>2. c \in Candidates /\ Cost[c] \in Nat /\ CostEps \in Nat
    BY <1>2, PoolIsSound, CostAssumption, ConfigAssumption
  <2> QED BY <1>1, <2>1, <2>2, BestIsNat DEF PoolStep
<1>3. CASE c \notin offered
  <2>1. PICK i \in 1..Len(found) : c = found[i]
    BY <1>3 DEF InsertAll
  <2> QED BY <1>1, <2>1, InsertEachKept DEF InsertAll
<1> QED BY <1>2, <1>3

LEMMA KeptStep ==
  ASSUME WorkersTypeOK, CacheExact, CheapestKept, Clear, [Next]_searchVars
  PROVE  CheapestKept'
<1>1. ASSUME NEW w \in Workers,
             InsertSymm(w) \/ InsertGreedy(w) \/ InsertInitial(w) \/ InsertEvolved(w)
      PROVE  CheapestKept'
  <2>1. PICK found \in Batch : InsertAll(found)
    BY <1>1, FindingsAreBatches DEF InsertSymm, InsertGreedy, InsertInitial, InsertEvolved
  <2> QED BY <2>1, BatchKept
<1>2. CASE Join
  <2>1. Sound(pool) /\ offered \subseteq Candidates /\ Trivial \in Candidates
    BY PoolIsSound, SearchAssumption
  <2>2. CASE pool.entries = <<>>
    <3> DEFINE p == Inserted(pool, Trivial)
    <3>1. offered = {}
      BY <2>2 DEF CheapestKept
    <3>2. /\ Sound(p) /\ p.entries # <<>> /\ BestCost(p) <= Cost[Trivial] + CostEps
          /\ pool' \in Sortings(p) /\ offered' = {Trivial}
      BY <1>2, <2>1, <2>2, <3>1, InsertedSound, InsertedKept DEF Join, Returned
    <3> HIDE DEF p
    <3>3. pool'.entries # <<>> /\ BestCost(pool') <= BestCost(p)
      BY <3>2, SortedBest
    <3>4. BestCost(p) \in Nat /\ BestCost(pool') \in Nat /\ Cost[Trivial] + CostEps \in Nat
      BY <1>2, <2>1, <3>2, <3>3, BestCostIs, JoinStep, CostAssumption, ConfigAssumption
         DEF Sound, PoolStep
    <3> QED BY <3>2, <3>3, <3>4 DEF CheapestKept
  <2>3. CASE pool.entries # <<>>
    <3>1. /\ offered' = offered /\ pool'.entries # <<>> /\ BestCost(pool') <= BestCost(pool)
          /\ BestCost(pool) \in Nat /\ BestCost(pool') \in Nat
      BY <1>2, <2>3, JoinStep, BestIsNat DEF Join, PoolStep
    <3>2. \A c \in offered : Cost[c] + CostEps \in Nat
      BY <2>1, CostAssumption, ConfigAssumption
    <3> QED BY <3>1, <3>2 DEF CheapestKept
  <2> QED BY <2>2, <2>3
<1>3. CASE /\ ~Join
           /\ \A w \in Workers :
                ~(InsertSymm(w) \/ InsertGreedy(w) \/ InsertInitial(w) \/ InsertEvolved(w))
  <2>1. UNCHANGED poolVars
    BY <1>3 DEF Next, PassDeadline, Done, Work, TakeTask, NoPatterns, BuildContext, FillContext,
      Publish, StartEvolving, CatchUp, Stop, Select, SkipGap, Track, Record, Reset,
      searchVars, poolVars
  <2> QED BY <2>1 DEF poolVars, CheapestKept
<1> QED BY <1>1, <1>2, <1>3

(* Nothing moves once there is a result.                                   *)
ResultInv ==
  result # <<>> =>
    /\ Finished /\ result = pool.entries
    /\ \A i, j \in DOMAIN result : i < j => Cost[result[i]] <= Cost[result[j]]

LEMMA ResultStep ==
  ASSUME WorkersTypeOK, CacheExact, ResultInv, [Next]_searchVars
  PROVE  ResultInv'
<1>1. CASE Join
  <2>1. PICK p : pool' \in Sortings(p) /\ Sound(p)
    <3>1. Sound(pool) /\ Trivial \in Candidates
      BY PoolIsSound, SearchAssumption
    <3>2. Sound(Inserted(pool, Trivial))
      BY ONLY <3>1, InsertedSound
    <3>3. pool' \in Sortings(Inserted(pool, Trivial)) \/ pool' \in Sortings(pool)
      BY ONLY <1>1 DEF Join, Returned
    <3> QED BY ONLY <3>1, <3>2, <3>3
  <2>2. result' = pool'.entries /\ Finished /\ UNCHANGED pc
    BY <1>1 DEF Join
  <2>3. \A i, j \in DOMAIN result' : i < j => Cost[result'[i]] <= Cost[result'[j]]
    <3>1. PICK q \in Sortings(p) : pool' = q
      BY <2>1
    <3>2. PICK f \in [Members(p) -> Members(p)] :
            /\ \A i, j \in Members(p) : i < j => CostAt(p, f[i]) <= CostAt(p, f[j])
            /\ q = [entries |-> [i \in Members(p) |-> p.entries[f[i]]],
                    dists |-> [i \in Members(p) |->
                                 [j \in Members(p) |-> Dist[p.entries[f[i]]][p.entries[f[j]]]]]]
      BY DEF Sortings
    <3>3. q.entries = [i \in Members(p) |-> p.entries[f[i]]]
      BY <3>2
    <3> QED BY <2>2, <3>1, <3>2, <3>3 DEF CostAt
  <2> QED BY <2>2, <2>3 DEF ResultInv, Finished, At
<1>2. CASE ~Join
  <2>1. UNCHANGED result
    BY <1>2 DEF Next, PassDeadline, Done, Work, TakeTask, NoPatterns, BuildContext, FillContext,
      InsertSymm, Publish, InsertGreedy, InsertInitial, StartEvolving, CatchUp, Stop, Select,
      SkipGap, InsertEvolved, Track, Record, Reset, searchVars
  <2>2. ASSUME result # <<>>
        PROVE  UNCHANGED <<pool, pc>>
    <3>1. \A w \in Workers : pc[w] = "done"
      BY <2>2 DEF ResultInv, Finished, At
    <3> QED BY <1>2, <3>1 DEF Next, PassDeadline, Done, Work, TakeTask, NoPatterns, BuildContext,
          FillContext, InsertSymm, Publish, InsertGreedy, InsertInitial, StartEvolving, CatchUp,
          Stop, Select, SkipGap, InsertEvolved, Track, Record, Reset, searchVars, poolVars, At
  <2> QED BY <2>1, <2>2 DEF ResultInv, Finished, At
<1> QED BY <1>1, <1>2

(* parallel_search returns entries sorted by cost, the first of them as    *)
(* cheap as anything any thread ever offered the pool, but for the         *)
(* tolerance, if the thresholds are clear of the distances.                *)
THEOREM BestIsReturned ==
  ASSUME Clear
  PROVE  SearchSpec => []BestReturned
<1>1. Init => CheapestKept /\ ResultInv
  BY DEF Init, PoolInit, CheapestKept, ResultInv
<1>2. WorkersTypeOK /\ CacheExact /\ CheapestKept /\ ResultInv /\ [Next]_searchVars
        => CheapestKept' /\ ResultInv'
  BY KeptStep, ResultStep
<1>3. WorkersTypeOK /\ CacheExact /\ CheapestKept /\ ResultInv => BestReturned
  <2> SUFFICES ASSUME WorkersTypeOK, CacheExact, CheapestKept, ResultInv, result # <<>>,
                      NEW c \in offered
               PROVE  Cost[result[1]] <= Cost[c] + CostEps
    BY DEF BestReturned, ResultInv
  <2>1. /\ pool.entries = result /\ pool.entries # <<>> /\ IsPool(pool)
        /\ BestCost(pool) <= Cost[c] + CostEps
    BY PoolIsSound DEF ResultInv, CheapestKept, Sound
  <2>2. /\ BestIndex(pool) \in Members(pool) /\ CostAt(pool, BestIndex(pool)) = BestCost(pool)
        /\ BestCost(pool) \in Nat
    BY <2>1, BestCostIs
  <2>3. /\ Members(pool) = 1..Len(pool.entries) /\ Len(pool.entries) \in Nat
        /\ DOMAIN result = Members(pool)
    BY <2>1, MemberType DEF Members
  <2>4. 1 \in Members(pool) /\ (BestIndex(pool) = 1 \/ 1 < BestIndex(pool))
    BY <2>2, <2>3
  <2>5. CostAt(pool, 1) \in Nat /\ Cost[c] \in Nat /\ CostEps \in Nat
    BY <2>1, <2>4, MemberType, PoolIsSound, CostAssumption, ConfigAssumption
  <2>6. CostAt(pool, 1) <= BestCost(pool)
    BY <2>1, <2>2, <2>3, <2>4 DEF ResultInv, CostAt
  <2> QED BY <2>1, <2>2, <2>5, <2>6 DEF CostAt
<1> QED BY <1>1, <1>2, <1>3, SearchInvariance, PTL DEF SearchSpec
=============================================================================
