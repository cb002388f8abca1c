--------------------------- MODULE DataInduction ---------------------------
(***************************************************************************)
(* Induction over numbers, and what it gives about functions that are      *)
(* defined by recursion on 0..N and about finite sets.  The library states *)
(* induction for a predicate P(_), which none of the provers can           *)
(* instantiate; here it is stated for a set of numbers, and the function   *)
(* that is iterated is a function, not an operator.                        *)
(***************************************************************************)
EXTENDS Integers, FiniteSets, FiniteSetTheorems, FunctionTheorems, WellFoundedInduction, TLAPS

(* The order of the naturals, as a set of pairs.                           *)
LEMMA NaturalOrder ==
  OpToRel(<, Nat) = {ss \in Nat \X Nat : ss[1] < ss[2]}
  BY Zenon DEF OpToRel

(* Every non-empty set of naturals has a least member.                     *)
LEMMA LeastNatural ==
  ASSUME NEW S \in SUBSET Nat, S # {}
  PROVE  \E x \in S : \A y \in S : x <= y
<1>1. IsWellFoundedOn(OpToRel(<, Nat), Nat)
  BY NatLessThanWellFounded
<1>2. PICK x \in S : \A y \in S : <<y, x>> \notin OpToRel(<, Nat)
  BY <1>1, WFMin
<1>3. \A y \in S : <<y, x>> \notin {ss \in Nat \X Nat : ss[1] < ss[2]}
  BY <1>2, NaturalOrder, Zenon
<1>4. ASSUME NEW y \in S PROVE x <= y
  <2> DEFINE p == <<y, x>>
  <2>1. p \in Nat \X Nat /\ p[1] = y /\ p[2] = x
    OBVIOUS
  <2>2. ~ (p[1] < p[2])
    BY <2>1, <1>3
  <2> QED BY <2>1, <2>2
<1> QED BY <1>4

(* A set of numbers that holds 0, and n + 1 with every n below N, holds    *)
(* 0..N.                                                                   *)
LEMMA InductionUpTo ==
  ASSUME NEW N \in Nat, NEW S, 0 \in S,
         \A n \in 0..(N - 1) : n \in S => n + 1 \in S
  PROVE  0..N \subseteq S
<1> DEFINE T == {n \in 0..N : n \notin S}
<1> SUFFICES ASSUME T # {} PROVE FALSE
  OBVIOUS
<1>1. PICK x \in T : \A y \in T : x <= y
  <2>1. T \in SUBSET Nat
    OBVIOUS
  <2> HIDE DEF T
  <2> QED BY <2>1, LeastNatural
<1>2. x \in 0..N /\ x # 0 /\ x \notin S
  OBVIOUS
<1>3. x - 1 \in 0..(N - 1) /\ x - 1 \notin T /\ (x - 1) + 1 = x
  BY <1>1, <1>2
<1>4. x - 1 \in S
  BY <1>3
<1> QED BY <1>2, <1>3, <1>4

-----------------------------------------------------------------------------
(* Iteration: f[0] is d0 and F makes f[n] of n and f[n - 1].               *)
Iterates(f, N, D, d0, F) ==
  /\ f \in [0..N -> D]
  /\ f[0] = d0
  /\ \A n \in 1..N : f[n] = F[<<n, f[n - 1]>>]

(* Every iteration exists.                                                 *)
LEMMA IterationExists ==
  ASSUME NEW N \in Nat, NEW D, NEW d0 \in D, NEW F \in [Nat \X D -> D]
  PROVE  \E f : Iterates(f, N, D, d0, F)
<1> DEFINE S == {n \in Nat : \E f : Iterates(f, n, D, d0, F)}
<1>1. 0 \in S
  <2> DEFINE f == [i \in 0..0 |-> d0]
  <2>1. Iterates(f, 0, D, d0, F)
    BY DEF Iterates
  <2> QED BY <2>1
<1>2. ASSUME NEW n \in 0..(N - 1), n \in S PROVE n + 1 \in S
  <2>1. n \in Nat
    OBVIOUS
  <2>2. PICK f : Iterates(f, n, D, d0, F)
    BY <1>2
  <2>3. f \in [0..n -> D] /\ f[0] = d0 /\ \A m \in 1..n : f[m] = F[<<m, f[m - 1]>>]
    BY <2>2 DEF Iterates
  <2> DEFINE g == [i \in 0..(n + 1) |-> IF i = n + 1 THEN F[<<n + 1, f[n]>>] ELSE f[i]]
  <2>4. f[n] \in D /\ F[<<n + 1, f[n]>>] \in D
    BY <2>1, <2>3
  <2>5. g \in [0..(n + 1) -> D]
    BY <2>1, <2>3, <2>4
  <2>6. g[0] = d0
    BY <2>1, <2>3
  <2>7. ASSUME NEW m \in 1..(n + 1) PROVE g[m] = F[<<m, g[m - 1]>>]
    <3>1. m - 1 \in 0..(n + 1) /\ m - 1 # n + 1
      BY <2>1
    <3>2. g[m - 1] = f[m - 1]
      BY <3>1
    <3>3. CASE m = n + 1
      <4>1. m - 1 = n
        BY <2>1, <3>3
      <4>2. m \in 0..(n + 1)
        BY <2>1
      <4>3. g[m] = F[<<n + 1, f[n]>>]
        BY <3>3, <4>2
      <4> HIDE DEF g
      <4> QED BY <3>2, <3>3, <4>1, <4>3
    <3>4. CASE m # n + 1
      <4>1. m \in 1..n /\ m \in 0..(n + 1)
        BY <2>1, <3>4
      <4>2. g[m] = f[m]
        BY <4>1, <3>4
      <4> QED BY <2>3, <3>2, <4>1, <4>2
    <3> QED BY <3>3, <3>4
  <2>8. Iterates(g, n + 1, D, d0, F)
    <3> HIDE DEF g
    <3> QED BY <2>5, <2>6, <2>7 DEF Iterates
  <2> HIDE DEF g
  <2> QED BY <2>1, <2>8
<1>3. 0..N \subseteq S
  <2> HIDE DEF S
  <2> QED BY <1>1, <1>2, InductionUpTo
<1> QED BY <1>3

-----------------------------------------------------------------------------
(* A set that grows by what F adds to it, for as many rounds as U has      *)
(* members: afterwards F adds nothing more.                                *)
Grows(f, N, d0, F) ==
  /\ f[0] = d0
  /\ \A n \in 1..N : f[n] = f[n - 1] \cup F[f[n - 1]]

LEMMA GrowthExists ==
  ASSUME NEW N \in Nat, NEW U, NEW d0 \in SUBSET U, NEW F \in [SUBSET U -> SUBSET U]
  PROVE  \E f : f \in [0..N -> SUBSET U] /\ Grows(f, N, d0, F)
<1> DEFINE D == SUBSET U
           H == [p \in Nat \X D |-> p[2] \cup F[p[2]]]
<1>1. H \in [Nat \X D -> D] /\ d0 \in D
  OBVIOUS
<1>2. PICK f : Iterates(f, N, D, d0, H)
  <2> HIDE DEF D, H
  <2> QED BY <1>1, IterationExists
<1>3. f \in [0..N -> D] /\ f[0] = d0 /\ \A n \in 1..N : f[n] = H[<<n, f[n - 1]>>]
  <2> HIDE DEF D, H
  <2> QED BY <1>2 DEF Iterates
<1>4. ASSUME NEW n \in 1..N PROVE f[n] = f[n - 1] \cup F[f[n - 1]]
  <2>1. n - 1 \in 0..N /\ n \in Nat
    OBVIOUS
  <2>2. <<n, f[n - 1]>> \in Nat \X D
    BY <1>3, <2>1
  <2>3. H[<<n, f[n - 1]>>] = f[n - 1] \cup F[f[n - 1]]
    BY <2>2
  <2> QED BY <1>3, <2>3
<1>5. Grows(f, N, d0, F)
  BY <1>3, <1>4 DEF Grows
<1> QED BY <1>3, <1>5

LEMMA GrowthStops ==
  ASSUME NEW N \in Nat, NEW U, IsFiniteSet(U), Cardinality(U) <= N,
         NEW d0 \in SUBSET U, NEW F \in [SUBSET U -> SUBSET U],
         NEW f, Grows(f, N, d0, F)
  PROVE  f[N] \in SUBSET U /\ d0 \subseteq f[N] /\ F[f[N]] \subseteq f[N]
<1> DEFINE S == {n \in Nat : /\ f[n] \in SUBSET U
                             /\ d0 \subseteq f[n]
                             /\ Cardinality(f[n]) >= n \/ F[f[n]] \subseteq f[n]}
<1>1. f[0] = d0 /\ \A n \in 1..N : f[n] = f[n - 1] \cup F[f[n - 1]]
  BY DEF Grows
<1>2. \A T \in SUBSET U : IsFiniteSet(T) /\ Cardinality(T) \in Nat
  BY FS_Subset, FS_CardinalityType
<1>3. 0 \in S
  BY <1>1, <1>2
<1>4. ASSUME NEW n \in 0..(N - 1), n \in S PROVE n + 1 \in S
  <2>1. n \in Nat /\ n + 1 \in 1..N /\ (n + 1) - 1 = n
    OBVIOUS
  <2>2. f[n + 1] = f[n] \cup F[f[n]]
    BY <1>1, <2>1
  <2>3. f[n] \in SUBSET U /\ d0 \subseteq f[n] /\ (Cardinality(f[n]) >= n \/ F[f[n]] \subseteq f[n])
    BY <1>4
  <2>4. f[n + 1] \in SUBSET U /\ d0 \subseteq f[n + 1]
    BY <2>2, <2>3
  <2>5. CASE F[f[n]] \subseteq f[n]
    <3>1. f[n + 1] = f[n]
      BY <2>2, <2>5
    <3> QED BY <2>1, <2>4, <2>5, <3>1
  <2>6. CASE ~(F[f[n]] \subseteq f[n])
    <3>1. f[n] \subseteq f[n + 1] /\ f[n] # f[n + 1]
      BY <2>2, <2>6
    <3>2. Cardinality(f[n]) < Cardinality(f[n + 1])
      <4>1. /\ IsFiniteSet(f[n + 1])
            /\ Cardinality(f[n]) \in Nat /\ Cardinality(f[n + 1]) \in Nat
        BY <1>2, <2>3, <2>4
      <4>2. Cardinality(f[n]) <= Cardinality(f[n + 1])
        BY <3>1, <4>1, FS_Subset
      <4>3. Cardinality(f[n]) # Cardinality(f[n + 1])
        BY <3>1, <4>1, FS_Subset
      <4> QED BY <4>1, <4>2, <4>3
    <3>3. Cardinality(f[n + 1]) >= n + 1
      BY <1>2, <2>1, <2>3, <2>4, <2>6, <3>2
    <3> QED BY <2>1, <2>4, <3>3
  <2> QED BY <2>5, <2>6
<1>5. N \in S
  <2>1. 0..N \subseteq S
    <3> HIDE DEF S
    <3> QED BY <1>3, <1>4, InductionUpTo
  <2> HIDE DEF S
  <2> QED BY <2>1
<1>6. CASE Cardinality(f[N]) >= N
  <2>1. f[N] \in SUBSET U /\ Cardinality(f[N]) = Cardinality(U)
    <3>1. f[N] \in SUBSET U
      BY <1>5
    <3>2. Cardinality(f[N]) <= Cardinality(U)
      BY <3>1, FS_Subset
    <3> QED BY <1>2, <1>6, <3>1, <3>2
  <2>2. f[N] = U
    BY <2>1, FS_Subset
  <2>3. F[f[N]] \in SUBSET U
    BY <2>1
  <2> QED BY <1>5, <2>1, <2>2, <2>3
<1> QED BY <1>5, <1>6

-----------------------------------------------------------------------------
(* How many members of G come before g.                                    *)
Earlier(G, rank, g) == {h \in G : rank[h] < rank[g]}

LEMMA RankedByCount ==
  ASSUME NEW G, IsFiniteSet(G), NEW rank \in [G -> Int],
         \A g, h \in G : rank[g] = rank[h] => g = h
  PROVE  LET N == Cardinality(G) IN
         /\ N \in Nat
         /\ \A g \in G : Cardinality(Earlier(G, rank, g)) \in 0..(N - 1)
         /\ \A g, h \in G : Cardinality(Earlier(G, rank, g)) = Cardinality(Earlier(G, rank, h))
                              => g = h
         /\ \A n \in 0..(N - 1) : \E g \in G : Cardinality(Earlier(G, rank, g)) = n
<1>1. PICK N \in Nat : N = Cardinality(G)
  BY FS_CardinalityType
<1>2. ASSUME NEW g \in G
      PROVE  /\ IsFiniteSet(Earlier(G, rank, g))
             /\ Cardinality(Earlier(G, rank, g)) \in 0..(N - 1)
  <2>1. Earlier(G, rank, g) \subseteq G /\ g \notin Earlier(G, rank, g)
    BY DEF Earlier
  <2>2. /\ IsFiniteSet(Earlier(G, rank, g)) /\ Cardinality(Earlier(G, rank, g)) \in Nat
        /\ Cardinality(Earlier(G, rank, g)) <= N
        /\ Cardinality(Earlier(G, rank, g)) # N
    BY <1>1, <2>1, FS_Subset, FS_CardinalityType
  <2> QED BY <2>2
<1>3. ASSUME NEW g \in G, NEW h \in G, rank[g] < rank[h]
      PROVE  Cardinality(Earlier(G, rank, g)) < Cardinality(Earlier(G, rank, h))
  <2>1. Earlier(G, rank, g) \subseteq Earlier(G, rank, h)
    BY <1>3 DEF Earlier
  <2>2. g \in Earlier(G, rank, h) /\ g \notin Earlier(G, rank, g)
    BY <1>3 DEF Earlier
  <2>3. /\ Cardinality(Earlier(G, rank, g)) <= Cardinality(Earlier(G, rank, h))
        /\ Cardinality(Earlier(G, rank, g)) # Cardinality(Earlier(G, rank, h))
    BY <1>2, <2>1, <2>2, FS_Subset
  <2> QED BY <1>2, <2>3
<1>4. ASSUME NEW g \in G, NEW h \in G,
             Cardinality(Earlier(G, rank, g)) = Cardinality(Earlier(G, rank, h))
      PROVE  g = h
  <2>1. ~(rank[g] < rank[h]) /\ ~(rank[h] < rank[g])
    BY <1>2, <1>3, <1>4
  <2> QED BY <2>1
<1>5. PICK count : count = [g \in G |-> Cardinality(Earlier(G, rank, g))]
  OBVIOUS
<1>6. count \in Injection(G, 0..(N - 1))
  <2>1. count \in [G -> 0..(N - 1)]
    BY <1>2, <1>5
  <2>2. \A g, h \in G : count[g] = count[h] => g = h
    BY <1>4, <1>5
  <2> QED BY <2>1, <2>2, Fun_IsInj
<1>7. IsFiniteSet(0..(N - 1)) /\ Cardinality(0..(N - 1)) = N
  BY FS_Interval
<1>8. count \in Surjection(G, 0..(N - 1))
  BY <1>1, <1>6, <1>7, FS_Injection
<1>9. \A n \in 0..(N - 1) : \E g \in G : Cardinality(Earlier(G, rank, g)) = n
  BY <1>5, <1>8 DEF Surjection
<1> QED BY <1>1, <1>2, <1>4, <1>9
=============================================================================
