---------------------------- MODULE SearchProofs ----------------------------
(***************************************************************************)
(* Where a search starts from, and what its heap of moves may do to it.    *)
(*                                                                         *)
(* Every initial partition is sound, for every graph: whichever strategy   *)
(* made it, no op is in two groups or in none, every group fits, and no    *)
(* tensor that stays on chip has a consumer outside; tensor-align makes no *)
(* cycle either.  The strategies that merge go from one partition of       *)
(* disjoint, unbroken groups to the next.  seed+grow has no partition      *)
(* before it ends: what it keeps is a table whose groups, with the one     *)
(* that grows and the ops not yet handled, share out the ops, and that has *)
(* a slot left for each of the ops still to come.                          *)
(*                                                                         *)
(* For every op graph and every bound: a move that waits in the heap does  *)
(* no harm when it is applied to a partition it was not evaluated in.      *)
(* After a move the ops around the groups it edits are evaluated again, so *)
(* an entry that is kept belongs to an op with no neighbour in an edited   *)
(* group, before the move or after it.  A move only looks at groups that   *)
(* hold the op it is a move of or one of its neighbours.  Hence what was   *)
(* true of a kept entry when it was evaluated is still true.  One thing    *)
(* has to be true of every entry, or an op could be lost or the tables     *)
(* spoilt (Ready).  More is true while no op is recomputed: the entry's    *)
(* groups hold a neighbour (Gripped), its own checks pass, and the sets it *)
(* is about to form are free of gaps (Whole).                              *)
(*                                                                         *)
(* The symmetry: the rounds of a hash divide the ops into cells, so the    *)
(* components of a pattern share no op, and no op is twice in a pattern    *)
(* whose components are put in order, parallel or a series.  Therefore the *)
(* images of what was solved in one component share out the ops.  The      *)
(* dominance filter loses nothing, as dominance is transitive.             *)
(***************************************************************************)
EXTENDS FmSearch, InitStrategies, SymmInit, FmMovesProofs

-----------------------------------------------------------------------------
(*                         The initial partitions                          *)


-----------------------------------------------------------------------------
(* The pairs a strategy tries are pairs of ops.                            *)

Pairs == Ops \X Ops

LEMMA AscendingLists ==
  ASSUME NEW S \in SUBSET Ops
  PROVE  /\ Ascending(S) \in Seq(S)
         /\ Len(Ascending(S)) = Cardinality(S) /\ Cardinality(S) \in Nat
         /\ DOMAIN Ascending(S) = 1..Cardinality(S)
         /\ \A i \in 1..Cardinality(S) : Ascending(S)[i] \in S
<1>1. IsFiniteSet(S) /\ S \subseteq Int
  <2>1. IsFiniteSet(S)
    BY OpsAssumption, FS_Subset
  <2> QED BY <2>1, OpsAssumption
<1>2. PICK rk : rk = [o \in S |-> o]
  OBVIOUS
<1>3. rk \in [S -> Int] /\ \A g, h \in S : rk[g] = rk[h] => g = h
  BY <1>1, <1>2
<1>4. PICK N \in Nat : N = Cardinality(S)
  BY <1>1, FS_CardinalityType
<1>5. /\ \A g \in S : Cardinality(Earlier(S, rk, g)) \in 0..(N - 1)
      /\ \A n \in 0..(N - 1) : \E g \in S : Cardinality(Earlier(S, rk, g)) = n
  <2>1. PICK G : G = S
    OBVIOUS
  <2>2. IsFiniteSet(G) /\ rk \in [G -> Int] /\ \A g, h \in G : rk[g] = rk[h] => g = h
    BY <1>1, <1>3, <2>1
  <2>3. /\ \A g \in G : Cardinality(Earlier(G, rk, g)) \in 0..(N - 1)
        /\ \A n \in 0..(N - 1) : \E g \in G : Cardinality(Earlier(G, rk, g)) = n
    BY <1>4, <2>1, <2>2, RankedByCount
  <2> QED BY <2>1, <2>3
<1>6. \A o \in S : Earlier(S, rk, o) = {p \in S : p < o}
  BY <1>2 DEF Earlier
<1>7. ASSUME NEW i \in 1..N
      PROVE  (CHOOSE o \in S : Cardinality({p \in S : p < o}) = i - 1) \in S
  <2>1. i - 1 \in 0..(N - 1)
    OBVIOUS
  <2>2. \E o \in S : Cardinality({p \in S : p < o}) = i - 1
    BY <1>5, <1>6, <2>1
  <2> QED BY <2>2
<1>8. PICK q : q = Ascending(S)
  OBVIOUS
<1>9. q \in [1..N -> S]
  BY <1>4, <1>7, <1>8 DEF Ascending
<1>10. q \in Seq(S) /\ Len(q) = N /\ DOMAIN q = 1..N /\ \A i \in 1..N : q[i] \in S
  BY <1>9
<1> QED BY <1>4, <1>8, <1>10

(* One more consumer and those after it.                                   *)
CoStep(q, i, s) == s \o [j \in 1..(Len(q) - i) |-> <<q[i], q[i + j]>>]

LEMMA CoStepPairs ==
  ASSUME NEW q \in Seq(Ops), NEW i \in 1..Len(q), NEW s \in Seq(Pairs)
  PROVE  CoStep(q, i, s) \in Seq(Pairs)
<1>1. PICK n \in Nat : n = Len(q) - i
  OBVIOUS
<1>2. PICK r : r = [j \in 1..n |-> <<q[i], q[i + j]>>]
  OBVIOUS
<1>3. \A j \in 1..n : i + j \in 1..Len(q)
  BY <1>1
<1>4. \A j \in 1..n : <<q[i], q[i + j]>> \in Pairs
  <2>1. \A k \in 1..Len(q) : q[k] \in Ops
    OBVIOUS
  <2> QED BY <1>3, <2>1 DEF Pairs
<1>5. r \in [1..n -> Pairs]
  BY <1>2, <1>4
<1>6. r \in Seq(Pairs)
  BY <1>5
<1>7. s \o r \in Seq(Pairs)
  BY <1>6
<1> QED BY <1>1, <1>2, <1>7 DEF CoStep

LEMMA CoConsumersPaired ==
  ASSUME NEW t
  PROVE  CoConsumerPairs(t) \in Seq(Pairs)
<1>0. PICK q : q = Ascending(Consumers(t))
  OBVIOUS
<1>1. PICK N \in Nat : N = Len(q) /\ q \in Seq(Ops)
  <2>1. Consumers(t) \in SUBSET Ops
    BY DEF Consumers
  <2>2. q \in Seq(Consumers(t)) /\ Len(q) \in Nat
    BY <1>0, <2>1, AscendingLists
  <2>3. q \in Seq(Ops)
    BY <2>1, <2>2
  <2> QED BY <2>2, <2>3
<1> DEFINE d0 == <<>>
           D == Seq(Pairs)
           F == [x \in Nat \X D |-> IF x[1] \in 1..N THEN CoStep(q, x[1], x[2]) ELSE d0]
           Body(f) == [i \in 0..N |-> IF i = 0 THEN d0 ELSE CoStep(q, i, f[i - 1])]
<1>2. \A i \in 1..N : \A s \in D : CoStep(q, i, s) \in D
  BY <1>1, CoStepPairs
<1>3. d0 \in D
  OBVIOUS
<1>4. F \in [Nat \X D -> D]
  <2> HIDE DEF D, d0
  <2> QED BY <1>2, <1>3
<1>5. PICK f : Iterates(f, N, D, d0, F)
  <2> HIDE DEF F, d0, D
  <2> QED BY <1>3, <1>4, IterationExists
<1>6. f = Body(f)
  <2>1. f \in [0..N -> D] /\ f[0] = d0 /\ \A i \in 1..N : f[i] = F[<<i, f[i - 1]>>]
    <3> HIDE DEF F, d0, D
    <3> QED BY <1>5 DEF Iterates
  <2>2. ASSUME NEW i \in 1..N PROVE f[i] = CoStep(q, i, f[i - 1])
    <3>1. PICK x : x = <<i, f[i - 1]>>
      OBVIOUS
    <3>2. i - 1 \in 0..N /\ i \in Nat
      OBVIOUS
    <3>3. x \in Nat \X D /\ x[1] = i /\ x[2] = f[i - 1]
      <4> HIDE DEF D
      <4> QED BY <2>1, <3>1, <3>2
    <3>4. F[x] = CoStep(q, i, f[i - 1])
      <4> HIDE DEF D, d0
      <4> QED BY <3>3
    <3> HIDE DEF F, D, d0
    <3> QED BY <2>1, <3>1, <3>4
  <2> HIDE DEF d0, D
  <2> QED BY <2>1, <2>2
<1> DEFINE r == CHOOSE g : g = Body(g)
<1>7. r = Body(r)
  <2>1. \E g : g = Body(g)
    BY <1>6
  <2> QED BY <2>1, Zenon
<1>8. CoConsumerPairs(t) = r[N]
  BY <1>0, <1>1 DEF CoConsumerPairs, CoStep
<1> HIDE DEF r
<1>9. ASSUME NEW i \in 0..N PROVE r[i] = IF i = 0 THEN d0 ELSE CoStep(q, i, r[i - 1])
  <2> HIDE DEF d0
  <2>1. Body(r)[i] = IF i = 0 THEN d0 ELSE CoStep(q, i, r[i - 1])
    OBVIOUS
  <2>2. r[i] = Body(r)[i]
    <3> HIDE DEF Body
    <3> QED BY <1>7
  <2> HIDE DEF Body
  <2> QED BY <2>1, <2>2
<1>10. 0..N \subseteq {i \in Nat : r[i] \in D}
  <2> DEFINE T == {i \in Nat : r[i] \in D}
  <2>1. 0 \in T
    <3>1. 0 \in 0..N
      OBVIOUS
    <3> HIDE DEF D, d0
    <3> QED BY <1>3, <1>9, <3>1
  <2>2. ASSUME NEW i \in 0..(N - 1), i \in T PROVE i + 1 \in T
    <3>1. i + 1 \in 0..N /\ i + 1 \in 1..N /\ i + 1 # 0 /\ (i + 1) - 1 = i /\ i + 1 \in Nat
      OBVIOUS
    <3> HIDE DEF D, d0
    <3>2. r[i + 1] = CoStep(q, i + 1, r[i])
      BY <1>9, <3>1
    <3> QED BY <1>2, <2>2, <3>1, <3>2
  <2>3. 0..N \subseteq T
    <3> HIDE DEF T
    <3> QED BY <2>1, <2>2, InductionUpTo
  <2> QED BY <2>3
<1>11. N \in 0..N
  OBVIOUS
<1> QED BY <1>8, <1>10, <1>11

(* A chain grows at its end.                                               *)
Chains == {c \in Seq(Ops) : c # <<>>}

WalkOn(c, taken) ==
  LET nxt == {b \in Ops \ taken : Follows(c[Len(c)], b)}
  IN  IF nxt = {} THEN c ELSE c \o Ascending(nxt)

LEMMA WalkOnChains ==
  ASSUME NEW c \in Chains, NEW taken
  PROVE  WalkOn(c, taken) \in Chains
<1>1. PICK nxt : nxt = {b \in Ops \ taken : Follows(c[Len(c)], b)}
  OBVIOUS
<1>2. PICK s : s = Ascending(nxt)
  OBVIOUS
<1>3. s \in Seq(Ops)
  <2>1. nxt \in SUBSET Ops
    BY <1>1
  <2>2. s \in Seq(nxt)
    BY <1>2, <2>1, AscendingLists
  <2> QED BY <2>1, <2>2
<1>4. c \in Seq(Ops) /\ c # <<>>
  BY DEF Chains
<1>5. c \o s \in Seq(Ops) /\ Len(c \o s) = Len(c) + Len(s) /\ Len(c) \in Nat \ {0} /\ Len(s) \in Nat
  BY <1>3, <1>4
<1>6. c \o s # <<>>
  <2>1. Len(c \o s) # 0 /\ Len(<<>>) = 0
    BY <1>5
  <2> QED BY <2>1
<1>7. WalkOn(c, taken) = IF nxt = {} THEN c ELSE c \o s
  BY <1>1, <1>2 DEF WalkOn
<1> QED BY <1>4, <1>5, <1>6, <1>7 DEF Chains

LEMMA ChainsOfOps ==
  ASSUME NEW o \in Ops, NEW taken
  PROVE  ChainFrom(o, taken) \in Chains
<1>1. PICK N \in Nat : N = Cardinality(Ops)
  BY OpsAssumption, FS_CardinalityType
<1> DEFINE d0 == <<o>>
           D == Chains
           F == [x \in Nat \X D |-> WalkOn(x[2], taken)]
           Body(f) == [i \in 0..N |-> IF i = 0 THEN d0 ELSE WalkOn(f[i - 1], taken)]
<1>2. \A s \in D : WalkOn(s, taken) \in D
  BY WalkOnChains
<1>3. d0 \in D
  BY DEF Chains
<1>4. F \in [Nat \X D -> D]
  <2> HIDE DEF D, d0
  <2> QED BY <1>2, <1>3
<1>5. PICK f : Iterates(f, N, D, d0, F)
  <2> HIDE DEF F, d0, D
  <2> QED BY <1>3, <1>4, IterationExists
<1>6. f = Body(f)
  <2>1. f \in [0..N -> D] /\ f[0] = d0 /\ \A i \in 1..N : f[i] = F[<<i, f[i - 1]>>]
    <3> HIDE DEF F, d0, D
    <3> QED BY <1>5 DEF Iterates
  <2>2. ASSUME NEW i \in 1..N PROVE f[i] = WalkOn(f[i - 1], taken)
    <3>1. PICK x : x = <<i, f[i - 1]>>
      OBVIOUS
    <3>2. i - 1 \in 0..N /\ i \in Nat
      OBVIOUS
    <3>3. x \in Nat \X D /\ x[1] = i /\ x[2] = f[i - 1]
      <4> HIDE DEF D
      <4> QED BY <2>1, <3>1, <3>2
    <3>4. F[x] = WalkOn(f[i - 1], taken)
      <4> HIDE DEF D, d0
      <4> QED BY <3>3
    <3> HIDE DEF F, D, d0
    <3> QED BY <2>1, <3>1, <3>4
  <2> HIDE DEF d0, D
  <2> QED BY <2>1, <2>2
<1> DEFINE r == CHOOSE g : g = Body(g)
<1>7. r = Body(r)
  <2>1. \E g : g = Body(g)
    BY <1>6
  <2> QED BY <2>1, Zenon
<1>8. ChainFrom(o, taken) = r[N]
  BY <1>1 DEF ChainFrom, WalkOn
<1> HIDE DEF r
<1>9. ASSUME NEW i \in 0..N PROVE r[i] = IF i = 0 THEN d0 ELSE WalkOn(r[i - 1], taken)
  <2> HIDE DEF d0
  <2>1. Body(r)[i] = IF i = 0 THEN d0 ELSE WalkOn(r[i - 1], taken)
    OBVIOUS
  <2>2. r[i] = Body(r)[i]
    <3> HIDE DEF Body
    <3> QED BY <1>7
  <2> HIDE DEF Body
  <2> QED BY <2>1, <2>2
<1>10. 0..N \subseteq {i \in Nat : r[i] \in D}
  <2> DEFINE T == {i \in Nat : r[i] \in D}
  <2>1. 0 \in T
    <3>1. 0 \in 0..N
      OBVIOUS
    <3> HIDE DEF D, d0
    <3> QED BY <1>3, <1>9, <3>1
  <2>2. ASSUME NEW i \in 0..(N - 1), i \in T PROVE i + 1 \in T
    <3>1. i + 1 \in 0..N /\ i + 1 \in 1..N /\ i + 1 # 0 /\ (i + 1) - 1 = i /\ i + 1 \in Nat
      OBVIOUS
    <3> HIDE DEF D, d0
    <3>2. r[i + 1] = WalkOn(r[i], taken)
      BY <1>9, <3>1
    <3> QED BY <1>2, <2>2, <3>1, <3>2
  <2>3. 0..N \subseteq T
    <3> HIDE DEF T
    <3> QED BY <2>1, <2>2, InductionUpTo
  <2> QED BY <2>3
<1>11. N \in 0..N
  OBVIOUS
<1> QED BY <1>8, <1>10, <1>11

(* One more op starts a chain, if it is in none.                           *)
Scans == [taken : SUBSET Ops, pairs : Seq(Pairs)]

ScanOn(k, s) ==
  LET o == Ascending(Ops)[k]
      c == ChainFrom(o, s.taken)
  IN  IF o \in s.taken \/ Len(c) = 1 THEN s
      ELSE [taken |-> s.taken \cup {c[j] : j \in DOMAIN c},
            pairs |-> s.pairs \o [j \in 1..(Len(c) - 1) |-> <<c[1], c[j + 1]>>]]

LEMMA ScanOnPairs ==
  ASSUME NEW k \in 1..Cardinality(Ops), NEW s \in Scans
  PROVE  ScanOn(k, s) \in Scans
<1>1. PICK o : o = Ascending(Ops)[k]
  OBVIOUS
<1>2. o \in Ops
  BY <1>1, AscendingLists
<1>3. PICK c : c = ChainFrom(o, s.taken)
  OBVIOUS
<1>4. c \in Seq(Ops) /\ c # <<>>
  <2>1. ChainFrom(o, s.taken) \in Chains
    BY ONLY <1>2, ChainsOfOps
  <2>2. c \in Chains
    BY ONLY <1>3, <2>1
  <2> QED BY ONLY <2>2 DEF Chains
<1>5. PICK n \in Nat : Len(c) = n + 1
  <2>1. Len(c) \in Nat \ {0}
    BY <1>4
  <2>2. Len(c) - 1 \in Nat /\ Len(c) = (Len(c) - 1) + 1
    BY <2>1
  <2> QED BY <2>2
<1>6. DOMAIN c = 1..(n + 1) /\ \A j \in 1..(n + 1) : c[j] \in Ops
  BY <1>4, <1>5
<1>7. PICK p : p = [j \in 1..(Len(c) - 1) |-> <<c[1], c[j + 1]>>]
  OBVIOUS
<1>8. p \in Seq(Pairs)
  <2>1. Len(c) - 1 = n /\ 1 \in 1..(n + 1) /\ \A j \in 1..n : j + 1 \in 1..(n + 1)
    BY <1>5
  <2>2. \A j \in 1..n : <<c[1], c[j + 1]>> \in Pairs
    BY <1>6, <2>1 DEF Pairs
  <2>3. p \in [1..n -> Pairs]
    BY <1>7, <2>1, <2>2
  <2> QED BY <2>3
<1>9. PICK t : t = s.taken \cup {c[j] : j \in DOMAIN c}
  OBVIOUS
<1>10. t \in SUBSET Ops /\ s.pairs \o p \in Seq(Pairs)
  BY <1>6, <1>8, <1>9 DEF Scans
<1>11. ScanOn(k, s) = IF o \in s.taken \/ Len(c) = 1 THEN s ELSE [taken |-> t, pairs |-> s.pairs \o p]
  BY <1>1, <1>3, <1>7, <1>9 DEF ScanOn
<1> QED BY <1>10, <1>11 DEF Scans

LEMMA ChainsPaired == ChainPairs \in Seq(Pairs)
<1>1. PICK N \in Nat : N = Cardinality(Ops)
  BY OpsAssumption, FS_CardinalityType
<1> DEFINE d0 == [taken |-> {}, pairs |-> <<>>]
           D == Scans
           F == [x \in Nat \X D |-> IF x[1] \in 1..N THEN ScanOn(x[1], x[2]) ELSE d0]
           Body(f) == [i \in 0..N |-> IF i = 0 THEN d0 ELSE ScanOn(i, f[i - 1])]
<1>2. \A i \in 1..N : \A s \in D : ScanOn(i, s) \in D
  BY <1>1, ScanOnPairs
<1>3. d0 \in D
  BY DEF Scans
<1>4. F \in [Nat \X D -> D]
  <2> HIDE DEF D, d0
  <2> QED BY <1>2, <1>3
<1>5. PICK f : Iterates(f, N, D, d0, F)
  <2> HIDE DEF F, d0, D
  <2> QED BY <1>3, <1>4, IterationExists
<1>6. f = Body(f)
  <2>1. f \in [0..N -> D] /\ f[0] = d0 /\ \A i \in 1..N : f[i] = F[<<i, f[i - 1]>>]
    <3> HIDE DEF F, d0, D
    <3> QED BY <1>5 DEF Iterates
  <2>2. ASSUME NEW i \in 1..N PROVE f[i] = ScanOn(i, f[i - 1])
    <3>1. PICK x : x = <<i, f[i - 1]>>
      OBVIOUS
    <3>2. i - 1 \in 0..N /\ i \in Nat
      OBVIOUS
    <3>3. x \in Nat \X D /\ x[1] = i /\ x[2] = f[i - 1]
      <4> HIDE DEF D
      <4> QED BY <2>1, <3>1, <3>2
    <3>4. F[x] = ScanOn(i, f[i - 1])
      <4> HIDE DEF D, d0
      <4> QED BY <3>3
    <3> HIDE DEF F, D, d0
    <3> QED BY <2>1, <3>1, <3>4
  <2> HIDE DEF d0, D
  <2> QED BY <2>1, <2>2
<1> DEFINE r == CHOOSE g : g = Body(g)
<1>7. r = Body(r)
  <2>1. \E g : g = Body(g)
    BY <1>6
  <2> QED BY <2>1, Zenon
<1>8. ChainPairs = r[N].pairs
  BY <1>1 DEF ChainPairs, ScanOn
<1> HIDE DEF r
<1>9. ASSUME NEW i \in 0..N PROVE r[i] = IF i = 0 THEN d0 ELSE ScanOn(i, r[i - 1])
  <2> HIDE DEF d0
  <2>1. Body(r)[i] = IF i = 0 THEN d0 ELSE ScanOn(i, r[i - 1])
    OBVIOUS
  <2>2. r[i] = Body(r)[i]
    <3> HIDE DEF Body
    <3> QED BY <1>7
  <2> HIDE DEF Body
  <2> QED BY <2>1, <2>2
<1>10. 0..N \subseteq {i \in Nat : r[i] \in D}
  <2> DEFINE T == {i \in Nat : r[i] \in D}
  <2>1. 0 \in T
    <3>1. 0 \in 0..N
      OBVIOUS
    <3> HIDE DEF D, d0
    <3> QED BY <1>3, <1>9, <3>1
  <2>2. ASSUME NEW i \in 0..(N - 1), i \in T PROVE i + 1 \in T
    <3>1. i + 1 \in 0..N /\ i + 1 \in 1..N /\ i + 1 # 0 /\ (i + 1) - 1 = i /\ i + 1 \in Nat
      OBVIOUS
    <3> HIDE DEF D, d0
    <3>2. r[i + 1] = ScanOn(i + 1, r[i])
      BY <1>9, <3>1
    <3> QED BY <1>2, <2>2, <3>1, <3>2
  <2>3. 0..N \subseteq T
    <3> HIDE DEF T
    <3> QED BY <2>1, <2>2, InductionUpTo
  <2> QED BY <2>3
<1>11. N \in 0..N
  OBVIOUS
<1> QED BY <1>8, <1>10, <1>11 DEF Scans

(* The stages of a strategy, and what is left of them.                     *)
Blocks == (Tensors \cup {0}) \X Seq(Pairs)
Agendas == Seq(SUBSET Blocks)

LEMMA AlignPaired ==
  ASSUME NEW t
  PROVE  AlignPairs(t) \in Seq(Pairs)
<1>1. PICK s, e : s = Ascending(Consumers(t)) /\ e = (IF t \in Ops THEN <<t>> ELSE <<>>)
  OBVIOUS
<1>2. s \in Seq(Ops)
  <2>1. Consumers(t) \in SUBSET Ops
    BY DEF Consumers
  <2>2. s \in Seq(Consumers(t))
    BY <1>1, <2>1, AscendingLists
  <2> QED BY <2>1, <2>2
<1>3. e \in Seq(Ops)
  BY <1>1
<1>4. PICK q : q = s \o e
  OBVIOUS
<1>5. q \in Seq(Ops)
  BY <1>2, <1>3, <1>4
<1>6. PICK n \in Nat : n = Len(q) /\ DOMAIN q = 1..n /\ \A i \in 1..n : q[i] \in Ops
  BY <1>5
<1>7. PICK p : p = [i \in DOMAIN q |-> <<q[1], q[i]>>]
  OBVIOUS
<1>8. \A i \in 1..n : <<q[1], q[i]>> \in Pairs
  <2>1. \A i \in 1..n : 1 \in 1..n
    OBVIOUS
  <2> QED BY <1>6, <2>1 DEF Pairs
<1>9. p \in [1..n -> Pairs]
  BY <1>6, <1>7, <1>8
<1>10. p \in Seq(Pairs)
  BY <1>9
<1> QED BY <1>1, <1>4, <1>7, <1>10 DEF AlignPairs

LEMMA EdgesPaired == EdgeBlocks \subseteq Blocks
<1>1. ASSUME NEW m \in Ops \X Ops PROVE <<m[1], <<m>>>> \in Blocks
  <2>1. <<m>> \in Seq(Pairs)
    BY DEF Pairs
  <2>2. m[1] \in Tensors \cup {0}
    BY DEF Tensors
  <2> QED BY <2>1, <2>2 DEF Blocks
<1> QED BY <1>1 DEF EdgeBlocks

LEMMA AgendasPaired ==
  ASSUME NEW s \in Strategies
  PROVE  AgendaOf(s) \in Agendas
<1>1. {<<0, ChainPairs>>} \subseteq Blocks
  BY ChainsPaired DEF Blocks
<1>2. {<<t, CoConsumerPairs(t)>> : t \in Shared} \subseteq Blocks
  <2>1. ASSUME NEW t \in Shared PROVE <<t, CoConsumerPairs(t)>> \in Blocks
    BY CoConsumersPaired DEF Blocks, Shared
  <2> QED BY <2>1
<1>3. {<<t, AlignPairs(t)>> : t \in Shared} \subseteq Blocks
  <2>1. ASSUME NEW t \in Shared PROVE <<t, AlignPairs(t)>> \in Blocks
    BY AlignPaired DEF Blocks, Shared
  <2> QED BY <2>1
<1>4. PICK A, B, C, D : /\ A = {<<0, ChainPairs>>} /\ B = EdgeBlocks
                        /\ C = {<<t, CoConsumerPairs(t)>> : t \in Shared}
                        /\ D = {<<t, AlignPairs(t)>> : t \in Shared}
  OBVIOUS
<1>5. A \in SUBSET Blocks /\ B \in SUBSET Blocks /\ C \in SUBSET Blocks /\ D \in SUBSET Blocks
  BY <1>1, <1>2, <1>3, <1>4, EdgesPaired
<1>6. CASE s = "chain+edge"
  <2>1. AgendaOf(s) = <<A, B, C>>
    BY <1>4, <1>6 DEF AgendaOf
  <2> QED BY <1>5, <2>1 DEF Agendas
<1>7. CASE s = "random"
  <2>1. AgendaOf(s) = <<B>>
    BY <1>4, <1>7 DEF AgendaOf
  <2> QED BY <1>5, <2>1 DEF Agendas
<1>8. CASE s = "tensor-align"
  <2>1. AgendaOf(s) = <<D>>
    BY <1>4, <1>8 DEF AgendaOf
  <2> QED BY <1>5, <2>1 DEF Agendas
<1>9. CASE s \notin {"chain+edge", "random", "tensor-align"}
  <2>1. AgendaOf(s) = <<>>
    BY <1>9 DEF AgendaOf
  <2> QED BY <2>1 DEF Agendas
<1> QED BY <1>6, <1>7, <1>8, <1>9

-----------------------------------------------------------------------------
(* Partitions of disjoint groups.                                          *)

(* A table that holds every op, with index and group graph drawn from it.  *)
Tabled ==
  /\ prob \in Problems /\ ngroups \in 0..MaxGroups
  /\ groups \in [Slots -> SUBSET Ops]
  /\ \A g \in Slots : g > ngroups => groups[g] = {}
  /\ AllHeld
  /\ index = IndexOf(groups) /\ edges = BuildEdges(groups, index)

LEMMA TabledInv == Tabled => Inv
<1> SUFFICES ASSUME Tabled PROVE Inv
  OBVIOUS
<1>1. /\ index \in [Ops -> [Slots -> Nat]]
      /\ \A o \in Ops, g \in Slots : index[o][g] > 0 <=> o \in groups[g]
  BY DEF IndexOf, Tabled
<1>2. edges \subseteq Slots \X Slots
  BY BuildMembers DEF Tabled
<1>3. \A a, b \in Slots : FeedsDirectly(groups, a, b) => <<a, b>> \in edges
  BY <1>1, DirectIsEdge, BuildMembers DEF Tabled
<1>4. TypeOK
  BY <1>1, <1>2 DEF TypeOK, Tabled
<1>5. IndexCurrent
  BY <1>1 DEF IndexCurrent, GroupsOf
<1>6. AllHeld /\ GdagSound
  BY DEF Tabled, GdagSound
<1>7. GdagComplete
  BY <1>3 DEF GdagComplete, FeedsDirectly, Alive
<1> QED BY <1>4, <1>5, <1>6, <1>7 DEF Inv, Consistent

LEMMA TabledInvNext == Tabled' => Inv'
  BY TabledInv, PTL

(* After a rebuild of the index the table of the next state is one.        *)
LEMMA RebuiltInv ==
  ASSUME prob' = prob, prob \in Problems, ngroups' \in 0..MaxGroups,
         groups' \in [Slots -> SUBSET Ops],
         \A g \in Slots : g > ngroups' => groups'[g] = {},
         \A o \in Ops : \E g \in Slots : o \in groups'[g],
         index' = IndexOf(groups'), edges' = BuildEdges(groups', index')
  PROVE  Inv'
<1>1. BuildEdges(groups, index)' = BuildEdges(groups', index')
  BY DEF BuildEdges, EdgesFor, Consumers, Producers
<1>2. IndexOf(groups)' = IndexOf(groups')
  BY DEF IndexOf
<1>3. AllHeld'
  BY DEF AllHeld
<1>4. Tabled'
  BY <1>1, <1>2, <1>3 DEF Tabled
<1> QED BY <1>4, TabledInvNext

(* Nothing of it changes in a step that leaves the partition alone.        *)
LEMMA UnchangedInv ==
  ASSUME Inv, UNCHANGED partVars
  PROVE  Inv'
<1>1. prob' = prob /\ ngroups' = ngroups /\ groups' = groups /\ index' = index
      /\ edges' = edges
  BY DEF partVars
<1>2. TypeOK' BY <1>1 DEF Inv, Consistent, TypeOK
<1>3. IndexCurrent' BY <1>1 DEF Inv, Consistent, IndexCurrent, GroupsOf
<1>4. AllHeld' BY <1>1 DEF Inv, Consistent, AllHeld
<1>5. GdagSound'
  BY <1>1 DEF Inv, Consistent, GdagSound, BuildEdges, EdgesFor, Consumers, Producers
<1>6. GdagComplete' BY <1>1 DEF Inv, Consistent, GdagComplete, Alive, Consumers
<1> QED BY <1>2, <1>3, <1>4, <1>5, <1>6 DEF Inv, Consistent

(* What the strategies that merge keep.                                    *)
Merged ==
  /\ Inv /\ Apart(groups) /\ Unbroken(groups) /\ LiveFit
  /\ strategy = "tensor-align" => Orderly(groups)

LEMMA NobodyFeedsItself ==
  ASSUME prob \in Problems, NEW o \in Ops
  PROVE  o \notin Consumers(o)
<1>1. {o} \in (SUBSET Ops) \ {{}}
  OBVIOUS
<1> QED BY <1>1, ProblemsAssumption DEF Consumers

LEMMA TrivialMerged ==
  ASSUME PartitionInit
  PROVE  Merged
<1>1. Inv /\ LiveFit
  BY InitEstablishesInv, InitFits
<1>2. Apart(groups)
  BY DEF PartitionInit, TrivialTable, Apart
<1>3. ASSUME NEW g \in Slots, groups[g] # {} PROVE \E o \in Ops : groups[g] = {o}
  BY <1>3, TrivialGroups
<1>4. prob \in Problems
  BY DEF PartitionInit
<1>5. Unbroken(groups)
  <2> SUFFICES ASSUME NEW g \in Slots, NEW t \in groups[g], ConsumedIn(t, groups[g])
               PROVE  FALSE
    BY DEF Unbroken
  <2>1. PICK o \in Ops : groups[g] = {o}
    BY <1>3
  <2> QED BY <1>4, <2>1, NobodyFeedsItself DEF ConsumedIn
<1>6. Orderly(groups)
  <2> SUFFICES ASSUME NEW X \in (SUBSET Slots) \ {{}} PROVE Starts(groups, X)
    BY DEF Orderly
  <2>1. PICK S : S = {o \in Ops : \E g \in X : o \in groups[g]}
    OBVIOUS
  <2>2. CASE \E g \in X : groups[g] = {}
    <3>1. PICK g \in X : groups[g] = {}
      BY <2>2
    <3> QED BY <3>1 DEF Starts, DependsOn
  <2>3. CASE \A g \in X : groups[g] # {}
    <3>1. S \in (SUBSET Ops) \ {{}}
      <4>1. PICK g \in X : TRUE
        OBVIOUS
      <4>2. PICK o \in Ops : groups[g] = {o}
        BY <1>3, <2>3
      <4> QED BY <2>1, <4>2
    <3>2. PICK o \in S : prob.reads[o] \cap S = {}
      BY <1>4, <3>1, ProblemsAssumption
    <3>3. PICK g \in X : o \in groups[g]
      BY <2>1
    <3>4. groups[g] = {o}
      BY <1>3, <3>3
    <3>5. ASSUME NEW h \in X, DependsOn(groups, g, h) PROVE FALSE
      <4>1. PICK p \in groups[h] : o \in Consumers(p)
        BY <3>4, <3>5 DEF DependsOn
      <4>2. p \in Ops
        BY <1>1 DEF Inv, Consistent, TypeOK
      <4>3. p \in S /\ p \in prob.reads[o]
        BY <2>1, <4>1, <4>2 DEF Consumers
      <4> QED BY <3>2, <4>3
    <3> QED BY <3>5 DEF Starts
  <2> QED BY <2>2, <2>3
<1> QED BY <1>1, <1>2, <1>5, <1>6 DEF Merged

(* A merge after which nothing that stays on chip is missed elsewhere.     *)
LEMMA MergeIntoKeeps ==
  ASSUME Merged, NEW ga \in Alive, NEW gb \in Alive, ga # gb, MergeInto(ga, gb),
         strategy' = strategy,
         NEW whole, whole = groups[ga] \cup groups[gb],
         ~CreatesEphemeralGap(whole, {ga, gb}), Fits(whole),
         strategy = "tensor-align" => ~MergeCreatesCycle({ga, gb})
  PROVE  Merged'
<1>1. /\ groups' = [groups EXCEPT ![ga] = whole, ![gb] = {}]
      /\ index' = IndexOf(groups') /\ edges' = BuildEdges(groups', index')
      /\ prob' = prob /\ ngroups' = ngroups
  BY DEF MergeInto
<1>2. Inv /\ Apart(groups) /\ Unbroken(groups) /\ LiveFit
  BY DEF Merged
<1>3. /\ groups \in [Slots -> SUBSET Ops] /\ ga \in Slots /\ gb \in Slots
      /\ groups[ga] # {} /\ groups[gb] # {}
      /\ prob \in Problems /\ ngroups \in 0..MaxGroups
      /\ \A g \in Slots : g > ngroups => groups[g] = {}
  BY <1>2 DEF Inv, Consistent, TypeOK, Alive
<1>4. /\ groups' \in [Slots -> SUBSET Ops]
      /\ groups'[ga] = whole /\ groups'[gb] = {}
      /\ \A g \in Slots \ {ga, gb} : groups'[g] = groups[g]
  BY <1>1, <1>3
<1>5. Inv'
  <2>1. \A g \in Slots : g > ngroups' => groups'[g] = {}
    BY <1>1, <1>3, <1>4
  <2>2. ASSUME NEW o \in Ops PROVE \E g \in Slots : o \in groups'[g]
    <3>1. PICK g \in Slots : o \in groups[g]
      BY <1>2 DEF Inv, Consistent, AllHeld
    <3>2. CASE g \in {ga, gb}
      BY <1>3, <1>4, <3>1, <3>2
    <3>3. CASE g \notin {ga, gb}
      BY <1>4, <3>1, <3>3
    <3> QED BY <3>2, <3>3
  <2> QED BY <1>1, <1>3, <1>4, <2>1, <2>2, RebuiltInv
<1>6. Apart(groups')
  <2>1. ASSUME NEW g \in Slots, NEW h \in Slots, g # h PROVE groups'[g] \cap groups'[h] = {}
    <3>1. \A x, y \in Slots : x # y => groups[x] \cap groups[y] = {}
      BY <1>2 DEF Apart
    <3>2. CASE g \in {ga, gb} /\ h \in {ga, gb}
      BY <1>4, <2>1, <3>2
    <3>3. CASE g \in {ga, gb} /\ h \notin {ga, gb}
      <4>1. groups[ga] \cap groups[h] = {} /\ groups[gb] \cap groups[h] = {}
        BY <1>3, <3>1, <3>3
      <4> QED BY <1>4, <3>3, <4>1
    <3>4. CASE g \notin {ga, gb} /\ h \in {ga, gb}
      <4>1. groups[ga] \cap groups[g] = {} /\ groups[gb] \cap groups[g] = {}
        BY <1>3, <3>1, <3>4
      <4> QED BY <1>4, <3>4, <4>1
    <3>5. CASE g \notin {ga, gb} /\ h \notin {ga, gb}
      BY <1>4, <2>1, <3>1, <3>5
    <3> QED BY <3>2, <3>3, <3>4, <3>5
  <2> QED BY <2>1 DEF Apart
<1>7. Intact(whole)
  <2>1. {ga, gb} \in SUBSET Slots
    BY <1>3
  <2>2. whole \in SUBSET Union({ga, gb})
    BY DEF Union
  <2> QED BY <1>2, <2>1, <2>2, CheckedUnion DEF Inv
<1>8. Unbroken(groups)'
  <2>1. \A g \in Slots : Intact(groups'[g])
    <3>1. \A g \in Slots : Intact(groups[g])
      BY <1>2 DEF Unbroken, Intact
    <3>2. Intact({})
      BY DEF Intact
    <3> QED BY <1>4, <1>7, <3>1, <3>2
  <2> QED BY <1>1, <2>1 DEF Unbroken, Intact, ConsumedIn, Consumers
<1>9. LiveFit'
  <2>1. \A g \in Slots : groups'[g] # {} => Fits(groups'[g])
    BY <1>2, <1>3, <1>4 DEF LiveFit, Alive
  <2> QED BY <1>1, <2>1 DEF LiveFit, Alive, Fits
<1>10. ASSUME strategy = "tensor-align" PROVE Orderly(groups)'
  <2>1. PICK G : G = {ga, gb}
    OBVIOUS
  <2>2. Union(G) = whole
    BY <2>1 DEF Union
  <2>3. PICK kept : kept = [g \in G |-> IF g = ga THEN Union(G) ELSE {}]
    OBVIOUS
  <2>4. DOMAIN kept = G /\ kept[ga] = whole /\ kept[gb] = {}
    BY <2>1, <2>2, <2>3
  <2>5. DOMAIN <<>> = {}
    OBVIOUS
  <2>6. NewTable(kept, <<>>) = groups'
    <3>1. NewTable(kept, <<>>) = [g \in Slots |-> IF g \in G THEN kept[g] ELSE groups[g]]
      BY <2>4, <2>5 DEF NewTable
    <3>2. \A g \in Slots : groups'[g] = IF g \in G THEN kept[g] ELSE groups[g]
      BY <1>4, <2>1, <2>4
    <3> QED BY <1>4, <3>1, <3>2
  <2>7. Gathers(G, ga)
    BY <1>1, <1>10, <2>1, <2>2, <2>3, <2>6 DEF Gathers
  <2>8. ~MergeCreatesCycle(G)
    BY <1>10, <2>1
  <2>9. Inv /\ Apart(groups) /\ Orderly(groups)
    BY <1>2, <1>10 DEF Merged
  <2>10. Orderly(groups')
    BY ONLY <2>7, <2>8, <2>9, GatherStaysOrderly DEF Inv
  <2> QED BY <1>1, <2>10, OrderlyTable
<1>11. Apart(groups)'
  BY <1>6 DEF Apart
<1> QED BY <1>5, <1>8, <1>9, <1>10, <1>11 DEF Merged

LEMMA UnchangedMerged ==
  ASSUME Merged, UNCHANGED partVars, strategy' = strategy
  PROVE  Merged'
<1>1. prob' = prob /\ groups' = groups
  BY DEF partVars
<1>2. Inv'
  BY UnchangedInv DEF Merged
<1>3. Apart(groups)' /\ Unbroken(groups)'
  BY <1>1 DEF Merged, Apart, Unbroken, ConsumedIn, Consumers
<1>4. LiveFit'
  BY <1>1 DEF Merged, LiveFit, Alive, Fits
<1>5. ASSUME strategy = "tensor-align" PROVE Orderly(groups)'
  BY <1>1, <1>5, OrderlyTable DEF Merged
<1> QED BY <1>2, <1>3, <1>4, <1>5 DEF Merged

(* The merge of a strategy, when it is taken.                              *)
LEMMA MergeableKeeps ==
  ASSUME Merged, NEW o \in Ops, NEW u \in Ops, GroupOf(o) # GroupOf(u),
         Mergeable(GroupOf(o), GroupOf(u)), MergeInto(GroupOf(o), GroupOf(u)),
         strategy' = strategy
  PROVE  Merged'
<1>1. ASSUME NEW x \in Ops PROVE GroupOf(x) \in Alive
  <2>1. \E g \in Slots : x \in groups[g]
    BY DEF Merged, Inv, Consistent, AllHeld
  <2> QED BY <2>1 DEF GroupOf, Alive
<1>2. PICK ga, gb : ga = GroupOf(o) /\ gb = GroupOf(u)
  OBVIOUS
<1>3. PICK whole : whole = groups[ga] \cup groups[gb]
  OBVIOUS
<1>4. ga \in Alive /\ gb \in Alive /\ ga # gb /\ MergeInto(ga, gb)
  BY <1>1, <1>2
<1>5. /\ ~CreatesEphemeralGap(whole, {ga, gb}) /\ Fits(whole)
      /\ strategy = "tensor-align" => ~MergeCreatesCycle({ga, gb})
  BY <1>2, <1>3 DEF Mergeable, GroupMergeable, OpMergeable
<1> QED BY <1>3, <1>4, <1>5, MergeIntoKeeps

-----------------------------------------------------------------------------
(* seed+grow.                                                              *)

Growing ==
  /\ prob \in Problems /\ ngroups \in 0..MaxGroups
  /\ groups \in [Slots -> SUBSET Ops]
  /\ \A g \in Slots : g > ngroups => groups[g] = {}
  /\ Apart(groups) /\ Unbroken(groups) /\ LiveFit
  /\ grown \in SUBSET Ops /\ rest \in SUBSET Ops /\ grown \cap rest = {}
  /\ \A g \in Slots : groups[g] \cap (grown \cup rest) = {}
  /\ \A o \in Ops : o \in grown \cup rest \/ \E g \in Slots : o \in groups[g]
  /\ ngroups + Cardinality(grown \cup rest) <= Cardinality(Ops)
  /\ grown # {} => Fits(grown) /\ Intact(grown)
  /\ rest = {} /\ grown = {} => Inv

LEMMA OpsCount == IsFiniteSet(Ops) /\ Cardinality(Ops) \in Nat /\ MaxGroups \in Nat
  BY OpsAssumption, MaxGroupsAssumption, FS_CardinalityType

LEMMA SubsetCounts ==
  ASSUME NEW S \in SUBSET Ops
  PROVE  IsFiniteSet(S) /\ Cardinality(S) \in Nat
  BY OpsCount, FS_Subset, FS_CardinalityType

(* Only the group that grows and the ops not yet handled change.           *)
LEMMA TableKept ==
  ASSUME Growing, UNCHANGED partVars, grown' \cup rest' = grown \cup rest,
         grown' \in SUBSET Ops, rest' \in SUBSET Ops, grown' \cap rest' = {},
         grown' # {}, Fits(grown'), Intact(grown')
  PROVE  Growing'
<1>1. prob' = prob /\ ngroups' = ngroups /\ groups' = groups
  BY DEF partVars
<1>2. Apart(groups)' /\ Unbroken(groups)'
  BY <1>1 DEF Growing, Apart, Unbroken, ConsumedIn, Consumers
<1>3. LiveFit'
  BY <1>1 DEF Growing, LiveFit, Alive, Fits
<1>4. Fits(grown)' /\ Intact(grown)'
  BY <1>1 DEF Fits, Intact, ConsumedIn, Consumers
<1> QED BY <1>1, <1>2, <1>3, <1>4 DEF Growing

LEMMA SeedKeeps ==
  ASSUME Growing, Seed
  PROVE  Growing'
<1>1. PICK op \in rest : grown' = {op} /\ rest' = rest \ {op}
  BY DEF Seed
<1>2. grown = {} /\ UNCHANGED partVars
  BY DEF Seed
<1>3. op \in Ops /\ prob \in Problems /\ rest \in SUBSET Ops
  BY <1>1 DEF Growing
<1>4. Fits({op})
  BY <1>3, ProblemsAssumption DEF Fits
<1>5. Intact({op})
  BY <1>3, NobodyFeedsItself DEF Intact, ConsumedIn
<1>6. Fits(grown') /\ Intact(grown')
  BY <1>1, <1>4, <1>5
<1> QED BY <1>1, <1>2, <1>3, <1>6, TableKept

LEMMA GrowKeeps ==
  ASSUME Growing, Grow
  PROVE  Growing'
<1>1. PICK v \in rest : /\ ~StrandsOutside(grown \cup {v}) /\ Fits(grown \cup {v})
                        /\ grown' = grown \cup {v} /\ rest' = rest \ {v}
  BY DEF Grow
<1>2. UNCHANGED partVars
  BY DEF Grow
<1>3. /\ v \in Ops /\ rest \in SUBSET Ops /\ grown \in SUBSET Ops
      /\ grown \cap rest = {}
  BY <1>1 DEF Growing
<1>4. Intact(grown \cup {v})
  BY <1>1 DEF StrandsOutside, Intact
<1>5. Fits(grown') /\ Intact(grown')
  BY <1>1, <1>4
<1> QED BY <1>1, <1>2, <1>3, <1>5, TableKept

(* A slot is left for the group that grows.                                *)
LEMMA SlotLeft ==
  ASSUME Growing, grown # {}
  PROVE  /\ ngroups + 1 \in Slots
         /\ ngroups + 1 + Cardinality(rest) <= Cardinality(Ops)
<1>1. /\ grown \in SUBSET Ops /\ rest \in SUBSET Ops /\ grown \cap rest = {}
      /\ ngroups \in Nat /\ ngroups + Cardinality(grown \cup rest) <= Cardinality(Ops)
  BY DEF Growing
<1>2. PICK o \in grown : TRUE
  OBVIOUS
<1>3. PICK R : R = rest \cup {o}
  OBVIOUS
<1>4. R \subseteq grown \cup rest /\ R \in SUBSET Ops /\ grown \cup rest \in SUBSET Ops
  BY <1>1, <1>3
<1>5. /\ Cardinality(rest) \in Nat /\ Cardinality(R) = Cardinality(rest) + 1
  BY <1>1, <1>3, SubsetCounts, FS_AddElement
<1>6. Cardinality(R) <= Cardinality(grown \cup rest) /\ Cardinality(grown \cup rest) \in Nat
  BY <1>4, SubsetCounts, FS_Subset
<1> QED BY <1>1, <1>5, <1>6, OpsCount, RoomAssumption DEF Slots

LEMMA CloseKeeps ==
  ASSUME Growing, Close
  PROVE  Growing'
<1>1. PICK n : n = ngroups + 1
  OBVIOUS
<1>2. /\ grown # {} /\ groups' = [groups EXCEPT ![n] = grown] /\ ngroups' = n
      /\ grown' = {} /\ prob' = prob /\ rest' = rest
      /\ rest = {} => index' = IndexOf(groups') /\ edges' = BuildEdges(groups', index')
  BY <1>1 DEF Close
<1>3. /\ n \in Slots /\ n + Cardinality(rest) <= Cardinality(Ops) /\ ngroups < n
  BY <1>1, <1>2, SlotLeft DEF Growing
<1>4. /\ prob \in Problems /\ ngroups \in 0..MaxGroups
      /\ groups \in [Slots -> SUBSET Ops] /\ groups[n] = {}
      /\ grown \in SUBSET Ops /\ rest \in SUBSET Ops /\ grown \cap rest = {}
      /\ \A g \in Slots : groups[g] \cap (grown \cup rest) = {}
      /\ \A g, h \in Slots : g # h => groups[g] \cap groups[h] = {}
      /\ \A g \in Slots : Intact(groups[g])
      /\ \A g \in Slots : groups[g] # {} => Fits(groups[g])
      /\ Fits(grown) /\ Intact(grown)
  BY <1>2, <1>3 DEF Growing, Apart, Unbroken, Intact, LiveFit, Alive
<1>5. /\ groups' \in [Slots -> SUBSET Ops] /\ groups'[n] = grown
      /\ \A g \in Slots \ {n} : groups'[g] = groups[g]
  BY <1>2, <1>3, <1>4
<1>6. n \in 0..MaxGroups /\ \A g \in Slots : g > n => groups'[g] = {}
  <2>1. \A g \in Slots : g > ngroups => groups[g] = {}
    BY DEF Growing
  <2>2. n \in Nat /\ n <= MaxGroups /\ \A g \in Slots : g \in Nat
    BY <1>3, OpsCount DEF Slots
  <2> QED BY <1>3, <1>4, <1>5, <2>1, <2>2
<1>7. Apart(groups)'
  <2>1. ASSUME NEW g \in Slots, NEW h \in Slots, g # h PROVE groups'[g] \cap groups'[h] = {}
    <3>1. CASE g = n
      BY <1>4, <1>5, <2>1, <3>1
    <3>2. CASE h = n
      BY <1>4, <1>5, <2>1, <3>2
    <3>3. CASE g # n /\ h # n
      BY <1>4, <1>5, <2>1, <3>3
    <3> QED BY <3>1, <3>2, <3>3
  <2> QED BY <2>1 DEF Apart
<1>8. Unbroken(groups)'
  <2>1. \A g \in Slots : Intact(groups'[g])
    BY <1>4, <1>5
  <2> QED BY <1>2, <2>1 DEF Unbroken, Intact, ConsumedIn, Consumers
<1>9. LiveFit'
  <2>1. \A g \in Slots : groups'[g] # {} => Fits(groups'[g])
    BY <1>4, <1>5
  <2> QED BY <1>2, <2>1 DEF LiveFit, Alive, Fits
<1>10. ASSUME NEW o \in Ops PROVE o \in rest \/ \E g \in Slots : o \in groups'[g]
  <2>1. o \in grown \/ o \in rest \/ \E g \in Slots : o \in groups[g]
    BY DEF Growing
  <2>2. CASE \E g \in Slots : o \in groups[g]
    <3>1. PICK g \in Slots : o \in groups[g]
      BY <2>2
    <3>2. g # n
      BY <1>4, <3>1
    <3> QED BY <1>5, <3>1, <3>2
  <2> QED BY <1>3, <1>5, <2>1, <2>2
<1>11. ASSUME rest = {} PROVE Inv'
  BY <1>2, <1>4, <1>5, <1>6, <1>10, <1>11, RebuiltInv
<1>12. {} \cup rest = rest
  OBVIOUS
<1>13. \A g \in Slots : groups'[g] \cap rest = {}
  BY <1>4, <1>5
<1>14. ngroups' + Cardinality(grown' \cup rest') <= Cardinality(Ops)
  BY <1>2, <1>3, <1>12
<1>15. /\ grown' \in SUBSET Ops /\ rest' \in SUBSET Ops /\ grown' \cap rest' = {}
       /\ \A g \in Slots : groups'[g] \cap (grown' \cup rest') = {}
       /\ \A o \in Ops : o \in grown' \cup rest' \/ \E g \in Slots : o \in groups'[g]
       /\ rest' = {} => Inv'
  BY <1>2, <1>4, <1>10, <1>11, <1>12, <1>13
<1>16. /\ prob' \in Problems /\ ngroups' \in 0..MaxGroups
       /\ \A g \in Slots : g > ngroups' => groups'[g] = {}
  BY <1>2, <1>4, <1>6
<1> QED BY <1>2, <1>5, <1>7, <1>8, <1>9, <1>14, <1>15, <1>16 DEF Growing

-----------------------------------------------------------------------------
(* All the strategies.                                                     *)

StartInv ==
  /\ strategy \in Strategies /\ agenda \in Agendas /\ queue \in Seq(Pairs)
  /\ IF strategy = "seed+grow" THEN Growing /\ agenda = <<>> /\ queue = <<>>
     ELSE Merged /\ rest \in SUBSET Ops /\ grown = {}

(* seed+grow starts from an empty table.                                   *)
LEMMA EmptyGrowing ==
  ASSUME StrategiesInit, strategy = "seed+grow"
  PROVE  Growing /\ agenda = <<>> /\ queue = <<>>
<1>1. /\ prob \in Problems /\ ngroups = 0 /\ groups = [g \in Slots |-> {}]
      /\ index = IndexOf(groups) /\ edges = {} /\ grown = {} /\ rest = Ops
      /\ agenda = AgendaOf(strategy) /\ queue = <<>>
  BY DEF StrategiesInit
<1>2. agenda = <<>>
  BY <1>1 DEF AgendaOf
<1>3. /\ groups \in [Slots -> SUBSET Ops] /\ \A g \in Slots : groups[g] = {}
      /\ ngroups \in 0..MaxGroups
  BY <1>1, OpsCount
<1>4. Apart(groups) /\ Unbroken(groups) /\ LiveFit
  BY <1>3 DEF Apart, Unbroken, LiveFit, Alive
<1>5. ngroups + Cardinality(grown \cup rest) <= Cardinality(Ops)
  <2>1. grown \cup rest = Ops
    BY <1>1
  <2> QED BY <1>1, <2>1, OpsCount
<1>6. ASSUME rest = {} PROVE Inv
  <2>1. BuildEdges(groups, index) = {}
    <3>1. \A a, b \in Slots : ~OutEdge(groups, index, a, b) /\ ~InEdge(groups, index, a, b)
      BY <1>3 DEF OutEdge, InEdge
    <3> QED BY <3>1, BuildMembers
  <2>2. AllHeld
    BY <1>1, <1>6 DEF AllHeld
  <2> QED BY <1>1, <1>3, <2>1, <2>2, TabledInv DEF Tabled
<1> QED BY <1>1, <1>2, <1>3, <1>4, <1>5, <1>6 DEF Growing

LEMMA InitStarts ==
  ASSUME StrategiesInit
  PROVE  StartInv
<1>1. strategy \in Strategies
  BY DEF StrategiesInit, Strategies
<1>2. agenda \in Agendas
  BY <1>1, AgendasPaired DEF StrategiesInit
<1>3. queue \in Seq(Pairs) /\ rest \in SUBSET Ops /\ grown = {}
  BY DEF StrategiesInit
<1>4. CASE strategy = "seed+grow"
  BY <1>1, <1>2, <1>3, <1>4, EmptyGrowing DEF StartInv
<1>5. CASE strategy # "seed+grow"
  <2>1. PartitionInit
    BY <1>5 DEF StrategiesInit
  <2> QED BY <1>1, <1>2, <1>3, <1>5, <2>1, TrivialMerged DEF StartInv
<1> QED BY <1>4, <1>5

LEMMA NextBlockKeeps ==
  ASSUME StartInv, NextBlock
  PROVE  StartInv'
<1>1. /\ UNCHANGED partVars /\ strategy' = strategy /\ rest' = rest /\ grown' = grown
      /\ agenda # <<>> /\ queue = <<>>
  BY DEF NextBlock
<1>2. strategy # "seed+grow" /\ Merged /\ rest \in SUBSET Ops /\ grown = {}
  BY <1>1 DEF StartInv
<1>3. /\ agenda \in Seq(SUBSET Blocks) /\ Len(agenda) \in Nat \ {0}
      /\ Head(agenda) \in SUBSET Blocks /\ agenda[1] = Head(agenda)
      /\ 1 \in DOMAIN agenda
  BY <1>1 DEF StartInv, Agendas
<1>4. agenda' \in Agendas /\ queue' \in Seq(Pairs)
  <2>1. CASE Head(agenda) = {}
    BY <1>1, <1>3, <2>1 DEF NextBlock, Agendas
  <2>2. CASE Head(agenda) # {}
    <3>1. PICK b \in Head(agenda) : queue' = b[2] /\ agenda' = [agenda EXCEPT ![1] = @ \ {b}]
      BY <2>2 DEF NextBlock
    <3>2. queue' \in Seq(Pairs)
      BY <1>3, <3>1 DEF Blocks
    <3>3. PICK n \in Nat : n = Len(agenda) /\ agenda \in [1..n -> SUBSET Blocks]
      BY <1>3
    <3>4. PICK s : s = agenda[1] \ {b}
      OBVIOUS
    <3>5. s \in SUBSET Blocks /\ agenda' = [agenda EXCEPT ![1] = s]
      BY <1>3, <3>1, <3>4
    <3>6. agenda' \in [1..n -> SUBSET Blocks]
      BY <3>3, <3>5
    <3> QED BY <3>2, <3>3, <3>6 DEF Agendas
  <2> QED BY <2>1, <2>2
<1>5. Merged'
  BY <1>1, <1>2, UnchangedMerged
<1> QED BY <1>1, <1>2, <1>4, <1>5 DEF StartInv

LEMMA TryPairKeeps ==
  ASSUME StartInv, TryPair
  PROVE  StartInv'
<1>1. /\ strategy' = strategy /\ rest' = rest /\ grown' = grown /\ agenda' = agenda
      /\ queue # <<>> /\ queue' = Tail(queue)
  BY DEF TryPair
<1>2. strategy # "seed+grow" /\ Merged /\ rest \in SUBSET Ops /\ grown = {}
  BY <1>1 DEF StartInv
<1>3. /\ queue' \in Seq(Pairs) /\ Head(queue) \in Pairs
  BY <1>1 DEF StartInv
<1>4. PICK o, u : o = Head(queue)[1] /\ u = Head(queue)[2]
  OBVIOUS
<1>5. o \in Ops /\ u \in Ops
  BY <1>3, <1>4 DEF Pairs
<1>6. \/ /\ GroupOf(o) # GroupOf(u) /\ Mergeable(GroupOf(o), GroupOf(u))
         /\ MergeInto(GroupOf(o), GroupOf(u))
      \/ UNCHANGED partVars
  BY <1>4 DEF TryPair
<1>7. Merged'
  BY <1>1, <1>2, <1>5, <1>6, MergeableKeeps, UnchangedMerged
<1> QED BY <1>1, <1>2, <1>3, <1>7 DEF StartInv

LEMMA ReverseKeeps ==
  ASSUME StartInv, ReverseStep
  PROVE  StartInv'
<1>1. /\ strategy' = strategy /\ strategy = "rev-topo" /\ grown' = grown
      /\ agenda' = agenda /\ queue' = queue
  BY DEF ReverseStep
<1>2. Merged /\ rest \in SUBSET Ops /\ grown = {}
  BY <1>1 DEF StartInv
<1>3. PICK op \in rest :
        /\ rest' = rest \ {op}
        /\ \/ UNCHANGED partVars
           \/ \E v \in OpNeighbors(op) :
                /\ GroupOf(v) # GroupOf(op) /\ OpMergeable(GroupOf(op), GroupOf(v))
                /\ MergeInto(GroupOf(op), GroupOf(v))
  BY DEF ReverseStep
<1>4. Merged'
  <2>1. CASE UNCHANGED partVars
    BY <1>1, <1>2, <2>1, UnchangedMerged
  <2>2. CASE ~UNCHANGED partVars
    <3>1. PICK v \in OpNeighbors(op) :
            /\ GroupOf(v) # GroupOf(op) /\ OpMergeable(GroupOf(op), GroupOf(v))
            /\ MergeInto(GroupOf(op), GroupOf(v))
      BY <1>3, <2>2
    <3>2. v \in Ops /\ op \in Ops
      BY <1>2, <3>1 DEF OpNeighbors, Producers, Consumers
    <3>3. Mergeable(GroupOf(op), GroupOf(v))
      BY <1>1, <3>1 DEF Mergeable
    <3> QED BY <1>1, <1>2, <3>1, <3>2, <3>3, MergeableKeeps
  <2> QED BY <2>1, <2>2
<1> QED BY <1>1, <1>2, <1>3, <1>4 DEF StartInv

LEMMA GrowthKeeps ==
  ASSUME StartInv, Seed \/ Grow \/ Close
  PROVE  StartInv'
<1>1. strategy' = strategy /\ agenda' = agenda /\ queue' = queue
  BY DEF Seed, Grow, Close
<1>2. strategy = "seed+grow"
  BY DEF StartInv, Seed, Grow, Close
<1>3. Growing'
  BY <1>2, SeedKeeps, GrowKeeps, CloseKeeps DEF StartInv
<1> QED BY <1>1, <1>2, <1>3 DEF StartInv

LEMMA RestedKeeps ==
  ASSUME StartInv, StopRandom \/ UNCHANGED initVars
  PROVE  StartInv'
<1>1. /\ UNCHANGED partVars /\ strategy' = strategy /\ rest' = rest /\ grown' = grown
      /\ queue' = queue
      /\ strategy # "random" => agenda' = agenda
  BY DEF StopRandom, initVars, partVars
<1>2. agenda' \in Agendas
  BY DEF StopRandom, initVars, StartInv, Agendas
<1>3. CASE strategy = "seed+grow"
  <2>1. /\ Growing /\ prob' = prob /\ ngroups' = ngroups /\ groups' = groups
    BY <1>1, <1>3 DEF StartInv, partVars
  <2>2. Apart(groups)' /\ Unbroken(groups)'
    BY <2>1 DEF Growing, Apart, Unbroken, ConsumedIn, Consumers
  <2>3. LiveFit'
    BY <2>1 DEF Growing, LiveFit, Alive, Fits
  <2>4. grown # {} => Fits(grown)' /\ Intact(grown)'
    BY <1>1, <2>1 DEF Growing, Fits, Intact, ConsumedIn, Consumers
  <2>5. rest = {} /\ grown = {} => Inv'
    BY <1>1, <2>1, UnchangedInv DEF Growing
  <2>6. Growing'
    BY <1>1, <2>1, <2>2, <2>3, <2>4, <2>5 DEF Growing
  <2> QED BY <1>1, <1>2, <1>3, <2>6 DEF StartInv
<1>4. CASE strategy # "seed+grow"
  BY <1>1, <1>2, <1>4, UnchangedMerged DEF StartInv
<1> QED BY <1>3, <1>4

LEMMA StartStep == StartInv /\ [StrategiesNext]_initVars => StartInv'
  BY NextBlockKeeps, TryPairKeeps, ReverseKeeps, GrowthKeeps, RestedKeeps DEF StrategiesNext

(* What the validator asks of a partition of disjoint, unbroken groups.    *)
LEMMA UnbrokenVerified ==
  ASSUME Inv, Apart(groups), Unbroken(groups), LiveFit
  PROVE  Verified /\ ~HasEphemeralGap
<1>1. ASSUME NEW o \in Ops PROVE Covered(o)
  BY HoldersAreLive DEF Inv, Consistent, AllHeld, Covered
<1>2. ASSUME NEW g \in Alive, NEW t \in groups[g], IsEphemeral(groups[g], t)
      PROVE  Consumers(t) \subseteq groups[g]
  BY <1>2 DEF IsEphemeral, IsBoundaryOutput, Unbroken, Alive
<1>3. Verified
  BY <1>1, <1>2 DEF Verified, LiveFit
<1> QED BY <1>3, UnbrokenMeans DEF Inv

LEMMA StartSound == StartInv => InitSound
<1> SUFFICES ASSUME StartInv, Finished
             PROVE  /\ Verified /\ ~HasEphemeralGap
                    /\ \A g, h \in Slots : g # h => groups[g] \cap groups[h] = {}
                    /\ strategy = "tensor-align" => IsAcyclic
  BY DEF InitSound
<1>1. CASE strategy = "seed+grow"
  <2>1. Inv /\ Apart(groups) /\ Unbroken(groups) /\ LiveFit
    BY <1>1 DEF StartInv, Growing, Finished
  <2> QED BY <1>1, <2>1, UnbrokenVerified DEF Apart
<1>2. CASE strategy # "seed+grow"
  <2>1. /\ Inv /\ Apart(groups) /\ Unbroken(groups) /\ LiveFit
        /\ strategy = "tensor-align" => Orderly(groups)
    BY <1>2 DEF StartInv, Merged
  <2>2. strategy = "tensor-align" => IsAcyclic
    BY <2>1, OrderlyMeans DEF Inv
  <2> QED BY <2>1, <2>2, UnbrokenVerified DEF Apart
<1> QED BY <1>1, <1>2

(* Whatever graph it is given and whatever merges its cost tests take,     *)
(* each strategy of init_strategies.cpp ends with a partition the          *)
(* validator accepts and the search finds no gap in; every op is in one    *)
(* group, and tensor-align's acyclic_merge_local lets no cycle through.    *)
THEOREM InitialPartitionsAreSound == StrategiesSpec => []InitSound
<1>1. StrategiesInit => StartInv
  BY InitStarts
<1> QED BY <1>1, StartStep, StartSound, PTL DEF StrategiesSpec

-----------------------------------------------------------------------------
(*                    Moves that wait in the FM pass                       *)


(* A partition that waits: what Inv says of it.                            *)
SnapOK(s) ==
  /\ s.ngroups \in 0..MaxGroups
  /\ s.groups \in [Slots -> SUBSET Ops]
  /\ \A g \in Slots : g > s.ngroups => s.groups[g] = {}
  /\ \A o \in Ops : \E g \in Slots : o \in s.groups[g]

PartOK(p) ==
  /\ SnapOK(p)
  /\ p.index \in [Ops -> [Slots -> Nat]]
  /\ \A o \in Ops, g \in Slots : p.index[o][g] > 0 <=> o \in p.groups[g]
  /\ p.edges \subseteq BuildEdges(p.groups, p.index)
  /\ \A a, b \in Slots : FeedsDirectly(p.groups, a, b) => <<a, b>> \in p.edges

-----------------------------------------------------------------------------
(* What is known of an entry m of op o.                                    *)

(* Always: it names slots, and the one copy a DE_RECOMPUTE drops is not    *)
(* the last.                                                               *)
Ready(o, m) ==
  /\ m.op = o
  /\ m.type = "DE_RECOMPUTE" => /\ m.ga \in Slots /\ o \in groups[m.ga]
                                /\ \E h \in Slots \ {m.ga} : o \in groups[h]
  /\ m.type \in {"EJECT", "SPLIT"} => m.ga \in Slots
  /\ m.type = "STEAL" => m.ga \in Slots /\ m.gb \in Slots /\ m.ga # m.gb
  /\ m.type = "TENSOR_MERGE" => m.gs # {}
  /\ m.type = "TENSOR_EXTRACT_SPLIT" =>
       m.t \in Ops /\ m.k \in SplitFactors(Cardinality(Consumers(m.t)))
  /\ m.type = "FORCE_RECOMPUTE" => m.t \in Ops

Near(o) == {o} \cup OpNeighbors(o)

(* The groups the checks of a move look at.                                *)
Foot(m) ==
  CASE m.type \in {"STEAL", "MERGE"}                   -> {m.ga, m.gb}
    [] m.type = "RECOMPUTE"                            -> {m.gb}
    [] m.type \in {"DE_RECOMPUTE", "EJECT", "SPLIT"}   -> {m.ga}
    [] m.type \in {"TENSOR_MERGE", "TENSOR_EXTRACT"}   -> m.gs
    [] OTHER                                           -> {}

Gripped(o, m) ==
  \A g \in Foot(m) : g \in Slots /\ \E n \in Near(o) : n \in groups[g]

(* An EJECT and a SPLIT leave nobody without a tensor, the other moves     *)
(* form no set with a gap.                                                 *)
Whole(m) ==
  /\ m.type = "EJECT" => Leaves(m.op, groups[m.ga])
  /\ m.type = "SPLIT" =>
       LET side == SideOf(groups[m.ga], m.op, m.v)
       IN  Sheds(side, groups[m.ga] \ side) /\ Sheds(groups[m.ga] \ side, side)
  /\ m.type = "STEAL" =>
       Intact(groups[m.gb] \cup {m.op}) /\ Intact(groups[m.ga] \ {m.op})
  /\ m.type = "MERGE" => Intact(Union({m.ga, m.gb}))
  /\ m.type = "TENSOR_MERGE" => Intact(Union(m.gs))
  /\ m.type = "TENSOR_EXTRACT" =>
       /\ Extracted(m.t) \in (SUBSET Union(m.gs)) \ {{}}
       /\ \A S \in {Extracted(m.t)} \cup Remains(m.gs, Extracted(m.t)) : Intact(S)

Sound(o, m) ==
  Gripped(o, m) /\ (PiecesFit /\ m.type # "STEAL" => MoveApplies(m))

HeapReady == \A o \in Ops : \A m \in heap[o] : Ready(o, m)
HeapSound == tidy => \A o \in Ops : \A m \in heap[o] : Sound(o, m)
HeapWhole == tidy /\ Disjoint => \A o \in Ops : \A m \in heap[o] : Whole(m)

SearchInv == /\ Inv /\ PartOK(base) /\ SnapOK(best)
             /\ HeapReady /\ HeapSound /\ HeapWhole
-----------------------------------------------------------------------------
(* Taking over a partition that waited.                                    *)

LEMMA PartWaits ==
  ASSUME Inv
  PROVE  PartOK(Part) /\ SnapOK(Snapshot)
<1>1. Part.groups = groups /\ Part.ngroups = ngroups /\ Part.index = index /\ Part.edges = edges
  BY DEF Part
<1>2. Snapshot.groups = groups /\ Snapshot.ngroups = ngroups
  BY DEF Snapshot
<1>3. \A o \in Ops, g \in Slots : index[o][g] > 0 <=> o \in groups[g]
  BY DEF Inv, Consistent, IndexCurrent, GroupsOf
<1>4. \A a, b \in Slots : FeedsDirectly(groups, a, b) => <<a, b>> \in edges
  BY GdagCompleteDirect DEF Inv, Consistent
<1>5. SnapOK(Snapshot) /\ SnapOK(Part)
  BY <1>1, <1>2 DEF Inv, Consistent, TypeOK, AllHeld, SnapOK
<1> QED BY <1>1, <1>3, <1>4, <1>5 DEF Inv, Consistent, TypeOK, GdagSound, PartOK

LEMMA RebuiltWaits ==
  ASSUME NEW s, SnapOK(s)
  PROVE  PartOK(Rebuilt(s))
<1>1. PICK table : table = s.groups
  OBVIOUS
<1>2. PICK p : p = Rebuilt(s)
  OBVIOUS
<1>3. /\ p.groups = table /\ p.ngroups = s.ngroups
      /\ p.index = IndexOf(table) /\ p.edges = BuildEdges(table, IndexOf(table))
  BY <1>1, <1>2 DEF Rebuilt
<1>4. /\ IndexOf(table) \in [Ops -> [Slots -> Nat]]
      /\ \A o \in Ops, g \in Slots : IndexOf(table)[o][g] > 0 <=> o \in table[g]
  BY DEF IndexOf
<1>5. table \in [Slots -> SUBSET Ops]
  BY <1>1 DEF SnapOK
<1>6. \A a, b \in Slots :
        FeedsDirectly(table, a, b) => <<a, b>> \in BuildEdges(table, IndexOf(table))
  BY <1>4, <1>5, DirectIsEdge, BuildMembers
<1>7. SnapOK(p)
  BY <1>1, <1>3 DEF SnapOK
<1>8. PartOK(p)
  BY <1>3, <1>4, <1>6, <1>7 DEF PartOK
<1> QED BY <1>2, <1>8

LEMMA BecomeKeepsInv ==
  ASSUME Inv, NEW p, PartOK(p), Become(p)
  PROVE  Inv'
<1>1. /\ prob' = prob /\ groups' = p.groups /\ ngroups' = p.ngroups
      /\ index' = p.index /\ edges' = p.edges
  BY DEF Become
<1>2. /\ groups' \in [Slots -> SUBSET Ops]
      /\ index' \in [Ops -> [Slots -> Nat]]
      /\ \A o \in Ops, g \in Slots : index'[o][g] > 0 <=> o \in groups'[g]
      /\ edges' \subseteq BuildEdges(groups', index')
      /\ \A a, b \in Slots : FeedsDirectly(groups', a, b) => <<a, b>> \in edges'
  BY <1>1 DEF PartOK, SnapOK
<1>3. TypeOK'
  <2>1. edges' \subseteq Slots \X Slots
    BY <1>2, BuildMembers
  <2> QED BY <1>1, <1>2, <2>1 DEF Inv, Consistent, TypeOK, PartOK, SnapOK
<1>4. IndexCurrent'
  BY <1>2 DEF IndexCurrent, GroupsOf
<1>5. AllHeld'
  BY <1>1 DEF AllHeld, PartOK, SnapOK
<1>6. GdagSound'
  <2>1. BuildEdges(groups, index)' = BuildEdges(groups', index')
    BY <1>1 DEF BuildEdges, EdgesFor, Consumers, Producers
  <2> QED BY <1>2, <2>1 DEF GdagSound
<1>7. GdagComplete'
  BY <1>1, <1>2 DEF GdagComplete, FeedsDirectly, Alive, Consumers
<1> QED BY <1>3, <1>4, <1>5, <1>6, <1>7 DEF Inv, Consistent

(* What waits is not disturbed. *)
LEMMA StillWaits ==
  ASSUME PartOK(base), prob' = prob, base' = base
  PROVE  PartOK(base)'
<1>1. BuildEdges(base.groups, base.index)' = BuildEdges(base.groups, base.index)
  BY DEF BuildEdges, EdgesFor, Consumers, Producers
<1> QED BY <1>1 DEF PartOK, SnapOK, FeedsDirectly, Consumers

LEMMA StillKept ==
  ASSUME SnapOK(best), best' = best
  PROVE  SnapOK(best)'
  BY DEF SnapOK

-----------------------------------------------------------------------------
(* What a move leaves alone.                                               *)

LEMMA ApplyShifts ==
  ASSUME Inv, NEW o \in Ops, NEW m, Ready(o, m), ApplyMove(m)
  PROVE  Shifts(o, Edits(m))
<1>0. m.op = o
  BY DEF Ready
<1>1. CASE m.type = "STEAL" /\ ApplySteal(m.op, m.ga, m.gb)
  <2>1. m.ga \in Slots /\ m.gb \in Slots /\ m.ga # m.gb /\ ApplySteal(o, m.ga, m.gb)
    BY <1>0, <1>1 DEF Ready
  <2>2. Edits(m) = {m.ga, m.gb}
    BY <1>1 DEF Edits
  <2> QED BY <2>1, <2>2, StealShifts DEF Inv
<1>2. CASE m.type = "MERGE" /\ ApplyMerge(m.ga, m.gb)
  <2>1. Edits(m) = {m.ga, m.gb}
    BY <1>2 DEF Edits
  <2> QED BY <1>2, <2>1, MergeShifts DEF Inv
<1>3. CASE m.type = "RECOMPUTE" /\ ApplyRecompute(m.op, m.gb)
  <2>1. Edits(m) = {m.gb}
    BY <1>3 DEF Edits
  <2> QED BY <1>0, <1>3, <2>1, RecomputeShifts DEF Inv
<1>4. CASE m.type = "DE_RECOMPUTE" /\ ApplyDeRecompute(m.op, m.ga)
  <2>1. m.ga \in Slots /\ \E h \in Slots \ {m.ga} : o \in groups[h]
    BY <1>4 DEF Ready
  <2>2. Edits(m) = {m.ga}
    BY <1>4 DEF Edits
  <2> QED BY <1>0, <1>4, <2>1, <2>2, DeRecomputeShifts DEF Inv
<1>5. CASE m.type = "EJECT" /\ ApplyEject(m.op, m.ga)
  <2>1. m.ga \in Slots
    BY <1>5 DEF Ready
  <2>2. Edits(m) = {m.ga}
    BY <1>5 DEF Edits
  <2> QED BY <1>0, <1>5, <2>1, <2>2, EjectShifts DEF Inv
<1>6. CASE m.type = "SPLIT" /\ ApplySplit(m.op, m.v, m.ga)
  <2>1. m.ga \in Slots
    BY <1>6 DEF Ready
  <2>2. Edits(m) = {m.ga}
    BY <1>6 DEF Edits
  <2> QED BY <1>0, <1>6, <2>1, <2>2, SplitShifts DEF Inv
<1>7. CASE m.type = "TENSOR_MERGE" /\ ApplyTensorMerge(m.gs)
  <2>1. m.gs # {}
    BY <1>7 DEF Ready
  <2>2. Edits(m) = m.gs
    BY <1>7 DEF Edits
  <2> QED BY <1>7, <2>1, <2>2, TensorMergeShifts DEF Inv
<1>8. CASE m.type = "TENSOR_EXTRACT" /\ ApplyTensorExtract(m.t, m.gs)
  <2>1. Edits(m) = m.gs
    BY <1>8 DEF Edits
  <2> QED BY <1>8, <2>1, TensorExtractShifts DEF Inv
<1>9. CASE m.type = "TENSOR_EXTRACT_SPLIT" /\ ApplyTensorExtractSplit(m.t, m.gs, m.k)
  <2>1. m.t \in Ops /\ m.k \in SplitFactors(Cardinality(Consumers(m.t)))
    BY <1>9 DEF Ready
  <2>2. Edits(m) = m.gs \cap Alive
    BY <1>9 DEF Edits
  <2> QED BY <1>9, <2>1, <2>2, TensorExtractSplitShifts DEF Inv
<1>10. CASE m.type = "FORCE_RECOMPUTE" /\ ApplyForceRecompute(m.t)
  <2>1. m.t \in Ops
    BY <1>10 DEF Ready
  <2>2. Edits(m) = TouchedGroups(m.t)
    BY <1>10 DEF Edits
  <2> QED BY <1>10, <2>1, <2>2, ForceRecomputeShifts DEF Inv
<1> QED BY <1>1, <1>2, <1>3, <1>4, <1>5, <1>6, <1>7, <1>8, <1>9, <1>10 DEF ApplyMove

(* A step by which the groups in A change, and no op of theirs but op      *)
(* leaves them.                                                            *)
Frame(op, A) ==
  /\ prob' = prob
  /\ A \subseteq Slots
  /\ \A g \in Slots \ A : groups'[g] = groups[g]
  /\ \A g \in A : \A n \in groups[g] \ {op} : \E h \in A : n \in groups'[h]

LEMMA ShiftFrame ==
  ASSUME Inv, NEW op, NEW G, Shifts(op, G)
  PROVE  Frame(op, G \cup ((ngroups + 1)..ngroups'))
<1>1. PICK kept, pieces, q :
        /\ Move(G, kept, pieces, q)
        /\ \A g \in G : \A o \in groups[g] \ {op} :
             (\E h \in G : o \in kept[h]) \/ \E x \in pieces : o \in x[2]
  BY DEF Shifts
<1>2. Maintained(G \cup Appended(q))
  BY <1>1, MoveIsEdit DEF Inv
<1>3. TypeOK /\ q \in Layouts(pieces)
  BY <1>1 DEF Inv, Consistent, Move
<1>4. PICK n \in 0..(MaxGroups - ngroups) :
        /\ Len(q) = n
        /\ Appended(q) = (ngroups + 1)..(ngroups + n)
        /\ \A x \in pieces : \E g \in Appended(q) : q[g - ngroups] = x
        /\ \A g \in Slots : g \in Appended(q) <=> g - ngroups \in DOMAIN q
  BY <1>3, AppendedSlots
<1>5. (ngroups + 1)..ngroups' = Appended(q)
  BY <1>1, <1>4 DEF Move
<1>6. ngroups \in Nat /\ \A g \in Appended(q) : g \in Slots /\ groups[g] = {}
  <2>1. ngroups \in Nat /\ \A g \in Slots : g > ngroups => groups[g] = {}
    BY <1>3, MaxGroupsAssumption DEF TypeOK
  <2> QED BY <1>4, <2>1 DEF Appended
<1>7. G \subseteq Slots /\ G \cap Appended(q) = {}
  BY <1>1, <1>6 DEF Move, Alive
<1>8. /\ \A h \in G : groups'[h] = kept[h]
      /\ \A h \in Appended(q) : groups'[h] = q[h - ngroups][2]
  BY <1>1, <1>4, <1>6, <1>7 DEF Move, NewTable
<1>9. ASSUME NEW g \in G \cup Appended(q), NEW o \in groups[g] \ {op}
      PROVE  \E h \in G \cup Appended(q) : o \in groups'[h]
  <2>1. g \in G
    BY <1>6
  <2>2. CASE \E h \in G : o \in kept[h]
    BY <1>8, <2>2
  <2>3. CASE \E x \in pieces : o \in x[2]
    BY <1>4, <1>8, <2>3
  <2> QED BY <1>1, <2>1, <2>2, <2>3
<1> QED BY <1>2, <1>5, <1>9 DEF Frame, Maintained

-----------------------------------------------------------------------------
(* Kept entries.                                                           *)

(* No op of the groups A is near o after the step.                         *)
Spared(o, A) == \A h \in A : \A n \in groups'[h] : o \notin Near(n)

LEMMA NearMutual ==
  ASSUME NEW o \in Ops, NEW n \in Near(o)
  PROVE  n \in Ops /\ o \in Near(n)
  BY NeighborsMutual DEF Near

(* The groups a spared op is in have not changed, nor, when no op is       *)
(* recomputed, those of its neighbours.                                    *)
LEMMA OwnGroupStays ==
  ASSUME Inv, NEW op, NEW A, Frame(op, A), NEW o \in Ops, o # op, Spared(o, A),
         NEW g \in Slots, o \in groups[g]
  PROVE  g \notin A /\ groups'[g] = groups[g]
<1>1. ASSUME g \in A PROVE FALSE
  <2>1. PICK h \in A : o \in groups'[h]
    BY <1>1 DEF Frame
  <2> QED BY <2>1 DEF Spared, Near
<1> QED BY <1>1 DEF Frame

LEMMA NearGroupStays ==
  ASSUME Inv, Inv', Disjoint, NEW op \in Ops, NEW A, Frame(op, A),
         NEW o \in Ops, o # op, Spared(o, A),
         NEW g \in Slots, NEW n \in Near(o), n \in groups[g]
  PROVE  groups'[g] = groups[g]
<1>1. n \in Ops /\ o \in Near(n)
  BY NearMutual
<1>2. ASSUME g \in A, n # op PROVE FALSE
  <2>1. PICK h \in A : n \in groups'[h]
    BY <1>2 DEF Frame
  <2> QED BY <1>1, <2>1 DEF Spared
<1>3. ASSUME g \in A, n = op PROVE FALSE
  <2>1. PICK h \in Slots : op \in groups'[h]
    BY DEF Inv, Consistent, AllHeld
  <2>2. h \notin A
    BY <1>1, <1>3, <2>1 DEF Spared
  <2>3. op \in groups[h] /\ h # g
    BY <1>3, <2>1, <2>2 DEF Frame
  <2> QED BY <1>3, <2>3, ApartMeans DEF Inv, Apart
<1> QED BY <1>2, <1>3 DEF Frame

LEMMA StaysReady ==
  ASSUME Inv, NEW op, NEW A, Frame(op, A), NEW o \in Ops, o # op, Spared(o, A),
         NEW m, Ready(o, m)
  PROVE  Ready(o, m)'
<1>1. ASSUME m.type = "DE_RECOMPUTE"
      PROVE  /\ m.ga \in Slots /\ o \in groups'[m.ga]
             /\ \E h \in Slots \ {m.ga} : o \in groups'[h]
  <2>1. PICK h \in Slots \ {m.ga} : o \in groups[h]
    BY <1>1 DEF Ready
  <2>2. m.ga \in Slots /\ o \in groups[m.ga]
    BY <1>1 DEF Ready
  <2>3. groups'[m.ga] = groups[m.ga] /\ groups'[h] = groups[h]
    BY <2>1, <2>2, OwnGroupStays
  <2> QED BY <2>1, <2>2, <2>3
<1>2. Consumers(m.t)' = Consumers(m.t)
  BY DEF Consumers, Frame
<1> QED BY <1>1, <1>2 DEF Ready

(* What only the graph decides. *)
LEMMA GraphStays ==
  ASSUME prob' = prob
  PROVE  /\ \A S : Fits(S)' <=> Fits(S)
         /\ \A S : AllFit(S)' <=> AllFit(S)
         /\ \A t : Consumers(t)' = Consumers(t) /\ Extracted(t)' = Extracted(t)
         /\ \A t : PairsFit(t)' <=> PairsFit(t)
         /\ \A o : Near(o)' = Near(o)
         /\ \A S : Components(S)' = Components(S)
         /\ \A S, u, v : SideOf(S, u, v)' = SideOf(S, u, v)
         /\ \A S : Intact(S)' <=> Intact(S)
         /\ \A o, S : Leaves(o, S)' <=> Leaves(o, S)
         /\ \A S, T : Sheds(S, T)' <=> Sheds(S, T)
         /\ PiecesFit' <=> PiecesFit
<1>1. \A o : OpNeighbors(o)' = OpNeighbors(o)
  BY DEF OpNeighbors, Producers, Consumers, Reads
<1>2. \A S : Components(S)' = Components(S)
  BY <1>1 DEF Components, Component
<1>3. \A S : Fits(S)' <=> Fits(S)
  BY DEF Fits
<1>4. \A S : AllFit(S)' <=> AllFit(S)
  BY <1>2, <1>3 DEF AllFit
<1>5. \A t : Consumers(t)' = Consumers(t) /\ Extracted(t)' = Extracted(t)
  BY DEF Consumers, Extracted
<1>6. \A t : PairsFit(t)' <=> PairsFit(t)
  BY <1>3, <1>5 DEF PairsFit
<1>7. \A o : Near(o)' = Near(o)
  BY <1>1 DEF Near
<1>8. \A S, u, v : SideOf(S, u, v)' = SideOf(S, u, v)
  BY <1>1 DEF SideOf
<1>9. \A S : Intact(S)' <=> Intact(S)
  BY DEF Intact, ConsumedIn, Consumers
<1>10. \A o, S : Leaves(o, S)' <=> Leaves(o, S)
  BY DEF Leaves, Consumers, Producers
<1>11. \A S, T : Sheds(S, T)' <=> Sheds(S, T)
  BY DEF Sheds, Producers, IsEphemeral, IsBoundaryOutput, ConsumedIn, Consumers
<1>12. PiecesFit' <=> PiecesFit
  BY <1>3, <1>4 DEF PiecesFit
<1> QED BY <1>2, <1>3, <1>4, <1>5, <1>6, <1>7, <1>8, <1>9, <1>10, <1>11, <1>12

(* The groups m looks at are as they were, and so is what it found there.  *)
SameFoot(m) == \A g \in Foot(m) : g \in Slots /\ groups'[g] = groups[g]

LEMMA FootStays ==
  ASSUME Inv, Inv', Disjoint, NEW op \in Ops, NEW A, Frame(op, A),
         NEW o \in Ops, o # op, Spared(o, A), NEW m, Gripped(o, m)
  PROVE  SameFoot(m) /\ Gripped(o, m)'
<1>1. \A g \in Foot(m) : g \in Slots /\ groups'[g] = groups[g]
  BY NearGroupStays DEF Gripped
<1>2. prob' = prob
  BY DEF Frame
<1>3. Near(o)' = Near(o)
  BY <1>2, GraphStays
<1>4. Foot(m)' = Foot(m)
  BY DEF Foot
<1> QED BY <1>1, <1>3, <1>4 DEF SameFoot, Gripped

LEMMA ChecksStay ==
  ASSUME Inv, prob' = prob, NEW o \in Ops, NEW m, m.op = o, SameFoot(m),
         m.type # "DE_RECOMPUTE", m.type # "STEAL", MoveApplies(m)
  PROVE  MoveApplies(m)'
<1>1. CASE m.type = "MERGE" /\ MergeApplies(m.ga, m.gb)
  <2>1. /\ m.ga \in Slots /\ groups'[m.ga] = groups[m.ga]
        /\ m.gb \in Slots /\ groups'[m.gb] = groups[m.gb]
    BY <1>1 DEF SameFoot, Foot
  <2>2. MergeApplies(m.ga, m.gb)'
    BY <1>1, <2>1, GraphStays DEF MergeApplies, Alive
  <2> QED BY <1>1, <2>2 DEF MoveApplies
<1>2. CASE m.type = "RECOMPUTE" /\ RecomputeApplies(m.op, m.gb)
  <2>1. m.gb \in Slots /\ groups'[m.gb] = groups[m.gb]
    BY <1>2 DEF SameFoot, Foot
  <2>2. RecomputeApplies(m.op, m.gb)'
    BY <1>2, <2>1, GraphStays DEF RecomputeApplies, Alive
  <2> QED BY <1>2, <2>2 DEF MoveApplies
<1>3. CASE m.type = "EJECT" /\ EjectApplies(m.op, m.ga)
  <2>1. m.ga \in Slots /\ groups'[m.ga] = groups[m.ga]
    BY <1>3 DEF SameFoot, Foot
  <2>2. Fits({m.op})
    BY ProblemsAssumption DEF Inv, Consistent, TypeOK, Fits
  <2>3. EjectApplies(m.op, m.ga)'
    BY <1>3, <2>1, <2>2, GraphStays DEF EjectApplies, EjectFeasible
  <2> QED BY <1>3, <2>3 DEF MoveApplies
<1>4. CASE m.type = "SPLIT" /\ SplitApplies(m.op, m.v, m.ga)
  <2>1. m.ga \in Slots /\ groups'[m.ga] = groups[m.ga]
    BY <1>4 DEF SameFoot, Foot
  <2>2. SplitApplies(m.op, m.v, m.ga)'
    BY <1>4, <2>1, GraphStays DEF SplitApplies, SplitFeasible, IsBridge
  <2> QED BY <1>4, <2>2 DEF MoveApplies
<1>5. CASE m.type = "TENSOR_MERGE" /\ TensorMergeApplies(m.gs)
  <2>1. \A g \in m.gs : g \in Slots /\ groups'[g] = groups[g]
    BY <1>5 DEF SameFoot, Foot
  <2>2. Union(m.gs)' = Union(m.gs)
    BY <2>1 DEF Union
  <2>3. TensorMergeApplies(m.gs)'
    BY <1>5, <2>1, <2>2, GraphStays DEF TensorMergeApplies, Alive
  <2> QED BY <1>5, <2>3 DEF MoveApplies
<1>6. CASE m.type = "TENSOR_EXTRACT" /\ TensorExtractApplies(m.t, m.gs)
  <2>1. \A g \in m.gs : g \in Slots /\ groups'[g] = groups[g]
    BY <1>6 DEF SameFoot, Foot
  <2>2. TensorExtractApplies(m.t, m.gs)'
    BY <1>6, <2>1, GraphStays DEF TensorExtractApplies, Alive
  <2> QED BY <1>6, <2>2 DEF MoveApplies
<1>7. CASE m.type = "TENSOR_EXTRACT_SPLIT"
  BY <1>7 DEF MoveApplies
<1>8. CASE m.type = "FORCE_RECOMPUTE" /\ PairsFit(m.t)
  BY <1>8, GraphStays DEF MoveApplies
<1> QED BY <1>1, <1>2, <1>3, <1>4, <1>5, <1>6, <1>7, <1>8 DEF MoveApplies

LEMMA StaysSound ==
  ASSUME Inv, Inv', Disjoint, NEW op \in Ops, NEW A, Frame(op, A),
         NEW o \in Ops, o # op, Spared(o, A), NEW m, Ready(o, m), Sound(o, m)
  PROVE  Sound(o, m)'
<1>1. SameFoot(m) /\ Gripped(o, m)'
  BY FootStays DEF Sound
<1>2. prob' = prob /\ (PiecesFit' <=> PiecesFit)
  BY GraphStays DEF Frame
<1>3. m.type # "DE_RECOMPUTE" /\ m.op = o
  BY ApartMeans DEF Inv, Ready, Apart
<1>4. (PiecesFit /\ m.type # "STEAL") => MoveApplies(m)'
  BY <1>1, <1>2, <1>3, ChecksStay DEF Sound
<1> QED BY <1>1, <1>2, <1>4 DEF Sound

LEMMA StaysWhole ==
  ASSUME prob' = prob, NEW m, SameFoot(m), Whole(m)
  PROVE  Whole(m)'
<1>1. ASSUME m.type = "EJECT" PROVE Leaves(m.op, groups[m.ga])'
  <2>1. groups'[m.ga] = groups[m.ga]
    BY <1>1 DEF SameFoot, Foot
  <2> QED BY <1>1, <2>1, GraphStays DEF Whole
<1>2. ASSUME m.type = "SPLIT"
      PROVE  (LET side == SideOf(groups[m.ga], m.op, m.v)
              IN  Sheds(side, groups[m.ga] \ side) /\ Sheds(groups[m.ga] \ side, side))'
  <2>1. groups'[m.ga] = groups[m.ga]
    BY <1>2 DEF SameFoot, Foot
  <2> QED BY <1>2, <2>1, GraphStays DEF Whole
<1>3. ASSUME m.type = "STEAL"
      PROVE  (Intact(groups[m.gb] \cup {m.op}) /\ Intact(groups[m.ga] \ {m.op}))'
  <2>1. groups'[m.ga] = groups[m.ga] /\ groups'[m.gb] = groups[m.gb]
    BY <1>3 DEF SameFoot, Foot
  <2> QED BY <1>3, <2>1, GraphStays DEF Whole
<1>4. ASSUME m.type = "MERGE" PROVE Intact(Union({m.ga, m.gb}))'
  <2>1. Union({m.ga, m.gb})' = Union({m.ga, m.gb})
    BY <1>4 DEF SameFoot, Foot, Union
  <2> QED BY <1>4, <2>1, GraphStays DEF Whole
<1>5. ASSUME m.type = "TENSOR_MERGE" PROVE Intact(Union(m.gs))'
  <2>1. Union(m.gs)' = Union(m.gs)
    BY <1>5 DEF SameFoot, Foot, Union
  <2> QED BY <1>5, <2>1, GraphStays DEF Whole
<1>6. ASSUME m.type = "TENSOR_EXTRACT"
      PROVE  (/\ Extracted(m.t) \in (SUBSET Union(m.gs)) \ {{}}
              /\ \A S \in {Extracted(m.t)} \cup Remains(m.gs, Extracted(m.t)) : Intact(S))'
  <2>1. \A g \in m.gs : groups'[g] = groups[g]
    BY <1>6 DEF SameFoot, Foot
  <2>2. Union(m.gs)' = Union(m.gs)
    BY <2>1 DEF Union
  <2>3. Extracted(m.t)' = Extracted(m.t)
    BY GraphStays
  <2>4. Remains(m.gs, Extracted(m.t))' = Remains(m.gs, Extracted(m.t))
    BY <2>1, <2>3, GraphStays DEF Remains
  <2> QED BY <1>6, <2>2, <2>3, <2>4, GraphStays DEF Whole
<1> QED BY <1>1, <1>2, <1>3, <1>4, <1>5, <1>6 DEF Whole

-----------------------------------------------------------------------------
(* Entries when they are evaluated.                                        *)

LEMMA CandidateCases ==
  ASSUME NEW o, NEW m \in Candidates(o, locked)
  PROVE  \/ m \in DeRecomputeMoves(o) \/ m \in EjectMoves(o) \/ m \in SplitMoves(o)
         \/ m \in StealMoves(o) \/ m \in MergeMoves(o) \/ m \in RecomputeMoves(o)
         \/ m \in TensorMergeMoves(o, locked) \/ m \in TensorExtractMoves(o, locked)
         \/ m \in TensorExtractSplitMoves(o, locked) \/ m \in ForceRecomputeMoves(o, locked)
  BY DEF Candidates

(* Groups a candidate names.                                               *)
LEMMA HoldersNear ==
  ASSUME Inv, NEW o \in Ops, NEW g, g \in Holders(o) \/ g \in GroupsOf(o)
  PROVE  g \in Slots /\ g \in Alive /\ o \in groups[g] /\ \E n \in Near(o) : n \in groups[g]
  BY HoldersAreLive DEF Inv, Near

LEMMA AdjacentNear ==
  ASSUME Inv, NEW o \in Ops, NEW g \in AdjGroups(o)
  PROVE  g \in Slots /\ g \in Alive /\ o \notin groups[g] /\ \E n \in Near(o) : n \in groups[g]
<1>1. PICK n \in OpNeighbors(o) : g \in GroupsOf(n)
  BY DEF AdjGroups
<1>2. n \in Ops
  BY <1>1, NeighborsMutual
<1> QED BY <1>1, <1>2, HoldersAreLive DEF Inv, AdjGroups, Near, Alive

LEMMA TensorNear ==
  ASSUME Inv, NEW o \in Ops, NEW t, NEW gs, Around(o, locked, t, gs), NEW g \in gs
  PROVE  g \in Slots /\ \E n \in Near(o) : n \in groups[g]
<1>1. t \in Reads(o) /\ gs \in TensorGroups(t) /\ gs \subseteq Alive
  BY AroundIsLive DEF SharedTensors
<1>2. (\E c \in Consumers(t) : g \in GroupsOf(c)) \/ (t \in Ops /\ g \in GroupsOf(t))
  BY <1>1 DEF TensorGroups
<1>3. \A c \in Consumers(t) : c \in Ops /\ c \in Near(o)
  BY <1>1 DEF Near, OpNeighbors, Consumers, Reads
<1>4. t \in Ops => t \in Near(o)
  BY <1>1 DEF Near, OpNeighbors, Producers, Reads
<1> QED BY <1>1, <1>2, <1>3, <1>4, HoldersAreLive DEF Inv, Alive

LEMMA CandidateReady ==
  ASSUME Inv, NEW o \in Ops, NEW m \in Candidates(o, locked)
  PROVE  Ready(o, m)
<1>1. CASE m \in DeRecomputeMoves(o)
  <2>1. m.type = "DE_RECOMPUTE" /\ m.op = o /\ m.ga \in Holders(o) /\ DeRecomputeFeasible(o, m.ga)
    BY <1>1, DeRecomputeMove
  <2>2. PICK h \in Holders(o) : h # m.ga
    BY <2>1 DEF DeRecomputeFeasible
  <2>3. m.ga \in Slots /\ o \in groups[m.ga] /\ h \in Slots /\ o \in groups[h]
    BY <2>1, <2>2, HoldersNear
  <2> QED BY <2>1, <2>2, <2>3 DEF Ready
<1>2. CASE m \in EjectMoves(o)
  BY <1>2, EjectMove, HoldersNear DEF Ready
<1>3. CASE m \in SplitMoves(o)
  <2>1. m.type = "SPLIT" /\ m.op = o /\ m.ga \in GroupsOf(o)
    BY <1>3, SplitMove
  <2>2. m.ga \in Slots
    BY <2>1, HoldersNear
  <2> QED BY <2>1, <2>2 DEF Ready
<1>4. CASE m \in StealMoves(o)
  <2>1. /\ m.type = "STEAL" /\ m.op = o
        /\ m.ga \in Holders(o) /\ m.gb \in AdjGroups(o) /\ m.ga # m.gb
    BY <1>4, StealMove
  <2>2. m.ga \in Slots /\ m.gb \in Slots
    BY <2>1, HoldersNear, AdjacentNear
  <2> QED BY <2>1, <2>2 DEF Ready
<1>5. CASE m \in MergeMoves(o)
  BY <1>5, MergeMove DEF Ready
<1>6. CASE m \in RecomputeMoves(o)
  BY <1>6, RecomputeMove DEF Ready
<1>7. CASE m \in TensorMergeMoves(o, locked)
  <2>1. m.type = "TENSOR_MERGE" /\ m.op = o /\ Around(o, locked, m.t, m.gs)
    BY <1>7, TensorMergeMove
  <2>2. m.gs # {}
    BY <2>1, AroundIsLive
  <2> QED BY <2>1, <2>2 DEF Ready
<1>8. CASE m \in TensorExtractMoves(o, locked)
  BY <1>8, TensorExtractMove DEF Ready
<1>9. CASE m \in TensorExtractSplitMoves(o, locked)
  BY <1>9, TensorExtractSplitMove DEF Ready
<1>10. CASE m \in ForceRecomputeMoves(o, locked)
  BY <1>10, ForceRecomputeMove DEF Ready
<1> QED BY <1>1, <1>2, <1>3, <1>4, <1>5, <1>6, <1>7, <1>8, <1>9, <1>10, CandidateCases

LEMMA CandidateGripped ==
  ASSUME Inv, NEW o \in Ops, NEW m \in Candidates(o, locked)
  PROVE  Gripped(o, m)
<1>1. CASE m \in DeRecomputeMoves(o)
  <2>1. Foot(m) = {m.ga} /\ m.ga \in Holders(o)
    BY <1>1, DeRecomputeMove DEF Foot
  <2> QED BY <2>1, HoldersNear DEF Gripped
<1>2. CASE m \in EjectMoves(o)
  <2>1. Foot(m) = {m.ga} /\ m.ga \in GroupsOf(o)
    BY <1>2, EjectMove DEF Foot
  <2> QED BY <2>1, HoldersNear DEF Gripped
<1>3. CASE m \in SplitMoves(o)
  <2>1. Foot(m) = {m.ga} /\ m.ga \in GroupsOf(o)
    BY <1>3, SplitMove DEF Foot
  <2> QED BY <2>1, HoldersNear DEF Gripped
<1>4. CASE m \in StealMoves(o)
  <2>1. Foot(m) = {m.ga, m.gb} /\ m.ga \in Holders(o) /\ m.gb \in AdjGroups(o)
    BY <1>4, StealMove DEF Foot
  <2> QED BY <2>1, HoldersNear, AdjacentNear DEF Gripped
<1>5. CASE m \in MergeMoves(o)
  <2>1. Foot(m) = {m.ga, m.gb} /\ m.gb \in Holders(o) /\ m.ga \in AdjGroups(o)
    BY <1>5, MergeMove DEF Foot
  <2> QED BY <2>1, HoldersNear, AdjacentNear DEF Gripped
<1>6. CASE m \in RecomputeMoves(o)
  <2>1. Foot(m) = {m.gb} /\ m.gb \in AdjGroups(o)
    BY <1>6, RecomputeMove DEF Foot
  <2> QED BY <2>1, AdjacentNear DEF Gripped
<1>7. CASE m \in TensorMergeMoves(o, locked)
  <2>1. m.type = "TENSOR_MERGE" /\ Around(o, locked, m.t, m.gs)
    BY <1>7, TensorMergeMove
  <2>2. Foot(m) = m.gs
    BY <2>1 DEF Foot
  <2> QED BY <2>1, <2>2, TensorNear DEF Gripped
<1>8. CASE m \in TensorExtractMoves(o, locked)
  <2>1. m.type = "TENSOR_EXTRACT" /\ Around(o, locked, m.t, m.gs)
    BY <1>8, TensorExtractMove
  <2>2. Foot(m) = m.gs
    BY <2>1 DEF Foot
  <2> QED BY <2>1, <2>2, TensorNear DEF Gripped
<1>9. CASE m \in TensorExtractSplitMoves(o, locked)
  <2>1. m.type = "TENSOR_EXTRACT_SPLIT"
    BY <1>9, TensorExtractSplitMove
  <2> QED BY <2>1 DEF Gripped, Foot
<1>10. CASE m \in ForceRecomputeMoves(o, locked)
  <2>1. m.type = "FORCE_RECOMPUTE"
    BY <1>10, ForceRecomputeMove
  <2> QED BY <2>1 DEF Gripped, Foot
<1> QED BY <1>1, <1>2, <1>3, <1>4, <1>5, <1>6, <1>7, <1>8, <1>9, <1>10, CandidateCases

LEMMA CandidateApplies ==
  ASSUME Inv, NEW o \in Ops, NEW m \in Candidates(o, locked), PiecesFit, m.type # "STEAL"
  PROVE  MoveApplies(m)
<1>0. \A g \in Alive : groups[g] \in (SUBSET Ops) \ {{}}
  BY DEF Inv, Consistent, TypeOK, Alive
<1>1. CASE m \in DeRecomputeMoves(o)
  <2>1. m.type = "DE_RECOMPUTE" /\ m.op = o /\ m.ga \in Holders(o) /\ DeRecomputeFeasible(o, m.ga)
    BY <1>1, DeRecomputeMove
  <2>2. AllFit(groups[m.ga] \ {o}) /\ o \in groups[m.ga] /\ m.ga \in Alive
    BY <2>1, HoldersNear DEF DeRecomputeFeasible
  <2>3. groups[m.ga] = {o} \/ Fits(groups[m.ga] \ {o})
    BY <1>0, <2>2 DEF PiecesFit
  <2>4. DeRecomputeApplies(m.op, m.ga)
    BY <2>1, <2>2, <2>3 DEF DeRecomputeApplies
  <2> QED BY <2>1, <2>4 DEF MoveApplies
<1>2. CASE m \in EjectMoves(o)
  BY <1>2, EjectMove DEF MoveApplies, EjectApplies
<1>3. CASE m \in SplitMoves(o)
  BY <1>3, SplitMove DEF MoveApplies, SplitApplies
<1>4. m \notin StealMoves(o)
  BY StealMove
<1>5. CASE m \in MergeMoves(o)
  <2>1. /\ m.type = "MERGE" /\ m.ga # m.gb /\ Fits(groups[m.ga] \cup groups[m.gb])
        /\ m.ga \in AdjGroups(o) /\ m.gb \in Holders(o)
    BY <1>5, MergeMove
  <2>2. MergeApplies(m.ga, m.gb)
    BY <2>1, HoldersNear, AdjacentNear DEF MergeApplies
  <2> QED BY <2>1, <2>2 DEF MoveApplies
<1>6. CASE m \in RecomputeMoves(o)
  BY <1>6, RecomputeMove DEF MoveApplies, RecomputeApplies, RecomputeFeasible
<1>7. CASE m \in TensorMergeMoves(o, locked)
  <2>1. m.type = "TENSOR_MERGE" /\ Around(o, locked, m.t, m.gs) /\ Fits(Union(m.gs))
    BY <1>7, TensorMergeMove
  <2>2. m.gs \subseteq Alive
    BY <2>1, AroundIsLive
  <2> QED BY <2>1, <2>2 DEF MoveApplies, TensorMergeApplies
<1>8. CASE m \in TensorExtractMoves(o, locked)
  <2>1. PICK X : X = Extracted(m.t)
    OBVIOUS
  <2>2. /\ m.type = "TENSOR_EXTRACT" /\ Around(o, locked, m.t, m.gs)
        /\ \A C \in Remains(m.gs, X) : Fits(C)
        /\ Fits(X)
    BY <1>8, <2>1, TensorExtractMove
  <2>3. m.gs \subseteq Alive
    BY <2>2, AroundIsLive
  <2>4. ASSUME NEW g \in m.gs PROVE groups[g] \subseteq X \/ Fits(groups[g] \ X)
    <3>1. AllFit(groups[g] \ X)
      BY <2>2 DEF Remains, AllFit
    <3> QED BY <1>0, <2>3, <3>1 DEF PiecesFit
  <2>5. TensorExtractApplies(m.t, m.gs)
    BY <2>1, <2>2, <2>3, <2>4 DEF TensorExtractApplies
  <2> QED BY <2>2, <2>5 DEF MoveApplies
<1>9. CASE m \in TensorExtractSplitMoves(o, locked)
  BY <1>9, TensorExtractSplitMove DEF MoveApplies
<1>10. CASE m \in ForceRecomputeMoves(o, locked)
  BY <1>10, ForceRecomputeMove DEF MoveApplies
<1> QED BY <1>1, <1>2, <1>3, <1>4, <1>5, <1>6, <1>7, <1>8, <1>9, <1>10, CandidateCases

(* The gap checks, when no op is recomputed.                               *)
LEMMA CandidateWhole ==
  ASSUME Inv, Disjoint, NEW o \in Ops, NEW m \in Candidates(o, locked)
  PROVE  Whole(m)
<1>0. Apart(groups)
  BY ApartMeans DEF Inv
<1>1. CASE m \in DeRecomputeMoves(o)
  BY <1>1, DeRecomputeMove DEF Whole
<1>2. CASE m \in EjectMoves(o)
  <2>1. /\ m.type = "EJECT" /\ m.op = o /\ m.ga \in GroupsOf(o)
        /\ ~EjectCreatesEphemeralGap(o, m.ga)
    BY <1>2, EjectMove DEF EjectAdmitted
  <2>2. Leaves(m.op, groups[m.ga])
    BY <1>0, <2>1, HoldersNear, EjectLeaves DEF Inv
  <2> QED BY <2>1, <2>2 DEF Whole
<1>3. CASE m \in SplitMoves(o)
  <2>1. PICK side, far : side = SideOf(groups[m.ga], o, m.v) /\ far = groups[m.ga] \ side
    OBVIOUS
  <2>2. /\ m.type = "SPLIT" /\ m.op = o /\ m.ga \in GroupsOf(o)
        /\ ~SplitCreatesGapLocal(side, far, m.ga)
    BY <1>3, <2>1, SplitMove
  <2>3. m.ga \in Slots /\ side \in SUBSET groups[m.ga] /\ far \subseteq groups[m.ga]
    BY <2>1, <2>2, HoldersNear DEF SideOf
  <2>4. Sheds(side, far) /\ Sheds(far, side)
    BY <1>0, <2>2, <2>3, SplitSheds DEF Inv
  <2> QED BY <2>1, <2>2, <2>4 DEF Whole
<1>4. CASE m \in StealMoves(o)
  <2>1. /\ m.type = "STEAL" /\ m.op = o
        /\ m.ga \in Holders(o) /\ m.gb \in AdjGroups(o) /\ m.ga # m.gb
        /\ ~SplitCreatesEphemeralGap({groups[m.gb] \cup {o}, groups[m.ga] \ {o}}, {m.ga, m.gb})
    BY <1>4, StealMove
  <2>2. Intact(groups[m.gb] \cup {o}) /\ Intact(groups[m.ga] \ {o})
    BY <1>0, <2>1, AdjacentNear, StealIntact DEF Inv
  <2> QED BY <2>1, <2>2 DEF Whole
<1>5. CASE m \in MergeMoves(o)
  <2>1. /\ m.type = "MERGE" /\ m.ga \in AdjGroups(o) /\ m.gb \in Holders(o)
        /\ ~CreatesEphemeralGap(groups[m.ga] \cup groups[m.gb], {m.ga, m.gb})
    BY <1>5, MergeMove
  <2>2. {m.ga, m.gb} \in SUBSET Slots
    BY <2>1, HoldersNear, AdjacentNear
  <2>3. Union({m.ga, m.gb}) = groups[m.ga] \cup groups[m.gb]
    BY DEF Union
  <2>4. Intact(Union({m.ga, m.gb}))
    BY <1>0, <2>1, <2>2, <2>3, CheckedUnion DEF Inv
  <2> QED BY <2>1, <2>4 DEF Whole
<1>6. CASE m \in RecomputeMoves(o)
  BY <1>6, RecomputeMove DEF Whole
<1>7. CASE m \in TensorMergeMoves(o, locked)
  <2>1. /\ m.type = "TENSOR_MERGE" /\ Around(o, locked, m.t, m.gs)
        /\ ~CreatesEphemeralGap(Union(m.gs), m.gs)
    BY <1>7, TensorMergeMove
  <2>2. m.gs \in SUBSET Slots
    BY <2>1, AroundIsLive DEF Alive
  <2>3. Intact(Union(m.gs))
    BY <1>0, <2>1, <2>2, CheckedUnion DEF Inv
  <2> QED BY <2>1, <2>3 DEF Whole
<1>8. CASE m \in TensorExtractMoves(o, locked)
  <2>1. PICK X : X = Extracted(m.t)
    OBVIOUS
  <2>2. PICK parts : parts = {X} \cup Remains(m.gs, X)
    OBVIOUS
  <2>3. /\ m.type = "TENSOR_EXTRACT" /\ Around(o, locked, m.t, m.gs)
        /\ ~SplitCreatesEphemeralGap(parts, m.gs)
    BY <1>8, <2>1, <2>2, TensorExtractMove
  <2>4. m.gs \in SUBSET Alive /\ X \in (SUBSET Union(m.gs)) \ {{}}
    BY <2>1, <2>3, AroundIsLive, CandidateHoldsAll
  <2>5. \A S \in parts : Intact(S)
    BY <1>0, <2>2, <2>3, <2>4, ExtractIntact DEF Inv
  <2> QED BY <2>1, <2>2, <2>3, <2>4, <2>5 DEF Whole
<1>9. CASE m \in TensorExtractSplitMoves(o, locked)
  BY <1>9, TensorExtractSplitMove DEF Whole
<1>10. CASE m \in ForceRecomputeMoves(o, locked)
  BY <1>10, ForceRecomputeMove DEF Whole
<1> QED BY <1>1, <1>2, <1>3, <1>4, <1>5, <1>6, <1>7, <1>8, <1>9, <1>10, CandidateCases

-----------------------------------------------------------------------------
(* Applying an entry.                                                      *)

LEMMA EntryReady ==
  ASSUME SearchInv, NEW o \in Ops, NEW m \in Entry(o)
  PROVE  Ready(o, m)
  BY CandidateReady DEF SearchInv, HeapReady, Entry

LEMMA EntrySound ==
  ASSUME SearchInv, tidy, NEW o \in Ops, NEW m \in Entry(o)
  PROVE  Sound(o, m)
<1>1. CASE o \in due
  <2>1. m \in Candidates(o, locked) /\ Inv
    BY <1>1 DEF Entry, SearchInv
  <2> QED BY <2>1, CandidateGripped, CandidateApplies DEF Sound
<1>2. CASE o \notin due
  BY <1>2 DEF SearchInv, HeapSound, Entry
<1> QED BY <1>1, <1>2

LEMMA EntryWhole ==
  ASSUME SearchInv, tidy, Disjoint, NEW o \in Ops, NEW m \in Entry(o)
  PROVE  Whole(m)
<1>1. CASE o \in due
  <2>1. m \in Candidates(o, locked) /\ Inv
    BY <1>1 DEF Entry, SearchInv
  <2> QED BY <2>1, CandidateWhole
<1>2. CASE o \notin due
  BY <1>2 DEF SearchInv, HeapWhole, Entry
<1> QED BY <1>1, <1>2

Touched(m) == Edits(m) \cup ((ngroups + 1)..ngroups')

LEMMA EntryShifts ==
  ASSUME SearchInv, NEW op \in Ops, NEW m \in Entry(op), ApplyMove(m)
  PROVE  Inv' /\ Frame(op, Touched(m))
<1>1. Ready(op, m) /\ Inv
  BY EntryReady DEF SearchInv
<1>2. Shifts(op, Edits(m))
  BY <1>1, ApplyShifts
<1> QED BY <1>1, <1>2, ShiftKeepsInv, ShiftFrame DEF Touched

(* The entries a move keeps.                                               *)
LEMMA KeptEntries ==
  ASSUME SearchInv, Inv', NEW op \in Ops, NEW A, Frame(op, A),
         NEW S \in SUBSET Ops, \A o \in S : o # op /\ Spared(o, A),
         heap' = Keep(S), tidy' = (tidy /\ Disjoint)
  PROVE  HeapReady' /\ HeapSound' /\ HeapWhole'
<1>0. Inv
  BY DEF SearchInv
<1>1. ASSUME NEW o \in Ops, NEW m \in heap'[o]
      PROVE  o \in S /\ m \in Entry(o) /\ o # op /\ Spared(o, A)
  BY <1>1 DEF Keep
<1>2. ASSUME NEW o \in Ops, NEW m \in heap'[o] PROVE Ready(o, m)'
  BY <1>0, <1>1, <1>2, EntryReady, StaysReady
<1>3. ASSUME tidy', NEW o \in Ops, NEW m \in heap'[o] PROVE Sound(o, m)'
  <2>1. tidy /\ Disjoint /\ o \in S /\ m \in Entry(o) /\ o # op /\ Spared(o, A)
    BY <1>1, <1>3
  <2>2. Ready(o, m) /\ Sound(o, m)
    BY <2>1, EntryReady, EntrySound
  <2> QED BY <1>0, <2>1, <2>2, StaysSound
<1>4. ASSUME tidy', NEW o \in Ops, NEW m \in heap'[o] PROVE Whole(m)'
  <2>1. tidy /\ Disjoint /\ o \in S /\ m \in Entry(o) /\ o # op /\ Spared(o, A)
    BY <1>1, <1>4
  <2>2. Sound(o, m) /\ Whole(m)
    BY <2>1, EntrySound, EntryWhole
  <2>3. SameFoot(m)
    BY <1>0, <2>1, <2>2, FootStays DEF Sound
  <2> QED BY <2>2, <2>3, StaysWhole DEF Frame
<1> QED BY <1>2, <1>3, <1>4 DEF HeapReady, HeapSound, HeapWhole

(* What is evaluated again reaches every op near the touched groups.       *)
Reaches ==
  \A A \in SUBSET Slots : \A op \in Ops : \A h \in A : \A n \in groups[h] :
    Near(n) \subseteq GreedyRefresh(op, A) /\ Near(n) \subseteq PassRefresh(A)

LEMMA RefreshReaches == Reaches
<1> SUFFICES ASSUME NEW A \in SUBSET Slots, NEW op \in Ops, NEW h \in A, NEW n \in groups[h]
             PROVE  Near(n) \subseteq GreedyRefresh(op, A) /\ Near(n) \subseteq PassRefresh(A)
  BY DEF Reaches
<1>1. h \in A \cap Alive
  BY DEF Alive
<1>2. \A X : n \in X => Near(n) \subseteq WithNeighbors(X)
  BY DEF WithNeighbors, Near
<1>3. n \in {op} \cup Union(A \cap Alive)
  BY <1>1 DEF Union
<1>4. PICK relevant : relevant = A \cup UNION {AdjacentGroups(g) : g \in A \cap Alive}
  OBVIOUS
<1>5. n \in Union(relevant \cap Alive)
  BY <1>1, <1>4 DEF Union
<1>6. Near(n) \subseteq GreedyRefresh(op, A)
  BY <1>2, <1>3 DEF GreedyRefresh
<1>7. PassRefresh(A) = WithNeighbors(Union(relevant \cap Alive))
  BY <1>4 DEF PassRefresh
<1> QED BY <1>2, <1>5, <1>6, <1>7

LEMMA RefreshReachesNext == Reaches'
  BY RefreshReaches, PTL

LEMMA RefreshSpares ==
  ASSUME NEW op \in Ops, NEW A, Frame(op, A), NEW o,
         o \notin GreedyRefresh(op, A)' \/ o \notin PassRefresh(A)'
  PROVE  Spared(o, A)
<1>1. A \in SUBSET Slots /\ prob' = prob
  BY DEF Frame
<1>2. ASSUME NEW h \in A, NEW n \in groups'[h] PROVE o \notin Near(n)
  <2>1. Near(n)' \subseteq GreedyRefresh(op, A)' /\ Near(n)' \subseteq PassRefresh(A)'
    BY <1>1, <1>2, RefreshReachesNext DEF Reaches
  <2>2. Near(n)' = Near(n)
    BY <1>1, GraphStays
  <2> QED BY <2>1, <2>2
<1> QED BY <1>2 DEF Spared

(* Nothing was moved. *)
LEMMA IdleStays ==
  ASSUME Inv, UNCHANGED fmVars, NEW o \in Ops, NEW m
  PROVE  /\ Ready(o, m) => Ready(o, m)'
         /\ Ready(o, m) /\ Sound(o, m) => Sound(o, m)'
         /\ Gripped(o, m) /\ Whole(m) => Whole(m)'
<1>1. prob' = prob /\ groups' = groups /\ index' = index
  BY DEF fmVars
<1>2. ASSUME Ready(o, m) PROVE Ready(o, m)'
  <2>1. Consumers(m.t)' = Consumers(m.t)
    BY <1>1, GraphStays
  <2> QED BY <1>1, <1>2, <2>1 DEF Ready
<1>3. ASSUME Gripped(o, m) PROVE SameFoot(m) /\ Gripped(o, m)'
  <2>1. Near(o)' = Near(o)
    BY <1>1, GraphStays
  <2> QED BY <1>1, <1>3, <2>1 DEF Gripped, Foot, SameFoot
<1>4. ASSUME Ready(o, m), Sound(o, m), PiecesFit, m.type # "STEAL" PROVE MoveApplies(m)'
  <2>1. MoveApplies(m) /\ SameFoot(m) /\ m.op = o
    BY <1>3, <1>4 DEF Sound, Ready
  <2>2. CASE m.type = "DE_RECOMPUTE"
    <3>1. DeRecomputeApplies(m.op, m.ga)
      BY <2>1, <2>2 DEF MoveApplies
    <3>2. DeRecomputeApplies(m.op, m.ga)'
      BY <1>1, <3>1, GraphStays
         DEF DeRecomputeApplies, DeRecomputeFeasible, Holders, GroupsOf, Alive,
             SuppliedElsewhere, ConsumedIn
    <3> QED BY <2>2, <3>2 DEF MoveApplies
  <2>3. CASE m.type # "DE_RECOMPUTE"
    BY <1>1, <1>4, <2>1, <2>3, ChecksStay
  <2> QED BY <2>2, <2>3
<1>5. ASSUME Ready(o, m), Sound(o, m) PROVE Sound(o, m)'
  <2>1. PiecesFit' <=> PiecesFit
    BY <1>1, GraphStays
  <2> QED BY <1>3, <1>4, <1>5, <2>1 DEF Sound
<1>6. ASSUME Gripped(o, m), Whole(m) PROVE Whole(m)'
  BY <1>1, <1>3, <1>6, StaysWhole
<1> QED BY <1>2, <1>5, <1>6

-----------------------------------------------------------------------------
(* The steps of the search.                                                *)

LEMMA SearchInitOK ==
  ASSUME SearchInit
  PROVE  SearchInv
<1>1. Inv
  BY InitEstablishesInv DEF SearchInit, Init
<1>2. PartOK(base) /\ SnapOK(best)
  BY <1>1, PartWaits DEF SearchInit
<1>3. \A o \in Ops : heap[o] = {}
  BY DEF SearchInit, Empty
<1> QED BY <1>1, <1>2, <1>3 DEF SearchInv, HeapReady, HeapSound, HeapWhole

LEMMA EmptyHeapOK ==
  ASSUME heap' = Empty
  PROVE  HeapReady' /\ HeapSound' /\ HeapWhole'
<1>1. \A o \in Ops : heap'[o] = {}
  BY DEF Empty
<1> QED BY <1>1 DEF HeapReady, HeapSound, HeapWhole

LEMMA GreedyMoveOK ==
  ASSUME SearchInv, GreedyMove
  PROVE  SearchInv'
<1>1. PICK op \in Ops : \E m \in Entry(op) :
        /\ ApplyMove(m)
        /\ \E affected \in {Touched(m)} : due' = GreedyRefresh(op, affected)'
        /\ heap' = Keep(Ops \ ({op} \cup due'))
  BY DEF GreedyMove, Touched
<1>2. PICK m \in Entry(op) :
        /\ ApplyMove(m)
        /\ \E affected \in {Touched(m)} : due' = GreedyRefresh(op, affected)'
        /\ heap' = Keep(Ops \ ({op} \cup due'))
  BY <1>1
<1>3. PICK A \in {Touched(m)} : due' = GreedyRefresh(op, A)'
  BY <1>2
<1>4. Inv' /\ Frame(op, A)
  BY <1>2, <1>3, EntryShifts
<1>5. PICK S : S = Ops \ ({op} \cup due')
  OBVIOUS
<1>6. S \in SUBSET Ops /\ \A o \in S : o # op /\ Spared(o, A)
  BY <1>3, <1>4, <1>5, RefreshSpares
<1>7. heap' = Keep(S) /\ tidy' = (tidy /\ Disjoint)
  BY <1>2, <1>5 DEF GreedyMove
<1>8. HeapReady' /\ HeapSound' /\ HeapWhole'
  BY <1>4, <1>6, <1>7, KeptEntries
<1>9. prob' = prob /\ base' = base /\ best' = best
  BY <1>4 DEF Frame, GreedyMove
<1>10. PartOK(base)' /\ SnapOK(best)'
  BY <1>9, StillWaits, StillKept DEF SearchInv
<1> QED BY <1>4, <1>8, <1>10 DEF SearchInv

LEMMA PassMoveOK ==
  ASSUME SearchInv, PassMove
  PROVE  SearchInv'
<1>1. PICK op \in Ops : \E m \in Entry(op) :
        /\ ApplyMove(m)
        /\ locked' = locked \cup {op} \cup ExtraLocks(m)
        /\ \E affected \in {Touched(m)} : due' = PassRefresh(affected)' \ locked'
        /\ heap' = Keep(Ops \ (locked' \cup due'))
  BY DEF PassMove, Touched
<1>2. PICK m \in Entry(op) :
        /\ ApplyMove(m)
        /\ locked' = locked \cup {op} \cup ExtraLocks(m)
        /\ \E affected \in {Touched(m)} : due' = PassRefresh(affected)' \ locked'
        /\ heap' = Keep(Ops \ (locked' \cup due'))
  BY <1>1
<1>3. PICK A \in {Touched(m)} : due' = PassRefresh(A)' \ locked'
  BY <1>2
<1>4. Inv' /\ Frame(op, A)
  BY <1>2, <1>3, EntryShifts
<1>5. PICK S : S = Ops \ (locked' \cup due')
  OBVIOUS
<1>6. S \in SUBSET Ops /\ \A o \in S : o # op /\ Spared(o, A)
  BY <1>2, <1>3, <1>4, <1>5, RefreshSpares
<1>7. heap' = Keep(S) /\ tidy' = (tidy /\ Disjoint)
  BY <1>2, <1>5 DEF PassMove
<1>8. HeapReady' /\ HeapSound' /\ HeapWhole'
  BY <1>4, <1>6, <1>7, KeptEntries
<1>9. prob' = prob /\ base' = base /\ best' \in {best, Snapshot'}
  BY <1>4 DEF Frame, PassMove
<1>10. SnapOK(Snapshot)'
  BY <1>4 DEF Inv, Consistent, TypeOK, AllHeld, SnapOK, Snapshot
<1>11. SnapOK(best)'
  <2>1. CASE best' = best
    BY <2>1, StillKept DEF SearchInv
  <2>2. CASE best' = Snapshot'
    BY <1>10, <2>2 DEF SnapOK
  <2> QED BY <1>9, <2>1, <2>2
<1>12. PartOK(base)'
  BY <1>9, StillWaits DEF SearchInv
<1> QED BY <1>4, <1>8, <1>11, <1>12 DEF SearchInv

(* The table was not changed. *)
LEMMA InvStays ==
  ASSUME Inv, UNCHANGED fmVars
  PROVE  Inv'
  BY StepKeepsInv

LEMMA StaleMoveOK ==
  ASSUME SearchInv, StaleMove
  PROVE  SearchInv'
<1>1. PICK op \in Ops : heap' = Keep(Ops \ {op})
  BY DEF StaleMove
<1>2. UNCHANGED fmVars /\ base' = base /\ best' = best /\ tidy' = tidy
  BY DEF StaleMove
<1>3. Inv /\ Inv'
  BY <1>2, InvStays DEF SearchInv
<1>4. prob' = prob /\ groups' = groups
  BY <1>2 DEF fmVars
<1>5. Disjoint' <=> Disjoint
  BY <1>4 DEF Disjoint, Alive
<1>6. \A o \in Ops : \A m \in heap'[o] : m \in Entry(o)
  BY <1>1 DEF Keep
<1>7. ASSUME NEW o \in Ops, NEW m \in heap'[o] PROVE Ready(o, m)'
  BY <1>2, <1>3, <1>6, <1>7, EntryReady, IdleStays
<1>8. ASSUME tidy', NEW o \in Ops, NEW m \in heap'[o] PROVE Sound(o, m)'
  <2>1. tidy /\ m \in Entry(o)
    BY <1>2, <1>6, <1>8
  <2> QED BY <1>2, <1>3, <2>1, EntryReady, EntrySound, IdleStays
<1>9. ASSUME tidy', Disjoint', NEW o \in Ops, NEW m \in heap'[o] PROVE Whole(m)'
  <2>1. tidy /\ Disjoint /\ m \in Entry(o)
    BY <1>2, <1>5, <1>6, <1>9
  <2>2. Gripped(o, m) /\ Whole(m)
    BY <2>1, EntrySound, EntryWhole DEF Sound
  <2> QED BY <1>2, <1>3, <2>2, IdleStays
<1>10. HeapReady' /\ HeapSound' /\ HeapWhole'
  BY <1>7, <1>8, <1>9 DEF HeapReady, HeapSound, HeapWhole
<1>11. PartOK(base)' /\ SnapOK(best)'
  BY <1>2, <1>4, StillWaits, StillKept DEF SearchInv
<1> QED BY <1>3, <1>10, <1>11 DEF SearchInv

LEMMA SearchStep ==
  ASSUME SearchInv, [SearchNext]_searchVars
  PROVE  SearchInv'
<1>0. Inv /\ PartOK(base) /\ SnapOK(best)
  BY DEF SearchInv
<1>1. CASE StartGreedy
  <2>1. Become(Rebuilt(Snapshot)) /\ heap' = Empty /\ base' = base /\ best' = best
    BY <1>1 DEF StartGreedy
  <2>2. Inv'
    BY <1>0, <2>1, PartWaits, RebuiltWaits, BecomeKeepsInv
  <2>3. prob' = prob
    BY <2>1 DEF Become
  <2>4. PartOK(base)' /\ SnapOK(best)'
    BY <1>0, <2>1, <2>3, StillWaits, StillKept
  <2> QED BY <2>1, <2>2, <2>4, EmptyHeapOK DEF SearchInv
<1>2. CASE GreedyMove
  BY <1>2, GreedyMoveOK
<1>3. CASE EndGreedy
  <2>1. UNCHANGED fmVars /\ heap' = Empty /\ base' = base /\ best' = best
    BY <1>3 DEF EndGreedy
  <2>2. Inv' /\ prob' = prob
    BY <1>0, <2>1, InvStays DEF fmVars
  <2>3. PartOK(base)' /\ SnapOK(best)'
    BY <1>0, <2>1, <2>2, StillWaits, StillKept
  <2> QED BY <2>1, <2>2, <2>3, EmptyHeapOK DEF SearchInv
<1>4. CASE StartPass
  <2>1. UNCHANGED fmVars /\ heap' = Empty /\ base' = Part /\ best' = Snapshot
    BY <1>4 DEF StartPass
  <2>2. Inv' /\ prob' = prob
    BY <1>0, <2>1, InvStays DEF fmVars
  <2>3. PICK p, s : p = Part /\ s = Snapshot
    OBVIOUS
  <2>4. PartOK(p) /\ SnapOK(s) /\ base' = p /\ best' = s
    BY <1>0, <2>1, <2>3, PartWaits
  <2>5. BuildEdges(p.groups, p.index)' = BuildEdges(p.groups, p.index)
    BY <2>2 DEF BuildEdges, EdgesFor, Consumers, Producers
  <2>6. PartOK(base)' /\ SnapOK(best)'
    BY <2>2, <2>4, <2>5 DEF PartOK, SnapOK, FeedsDirectly, Consumers
  <2> QED BY <2>1, <2>2, <2>6, EmptyHeapOK DEF SearchInv
<1>5. CASE PassMove
  BY <1>5, PassMoveOK
<1>6. CASE EndPass
  <2>1. PICK p : p = IF best.groups = base.groups THEN base ELSE Rebuilt(best)
    OBVIOUS
  <2>2. Become(p) /\ heap' = Empty /\ base' = base /\ best' = best
    BY <1>6, <2>1 DEF EndPass
  <2>3. PartOK(p)
    BY <1>0, <2>1, RebuiltWaits
  <2>4. Inv' /\ prob' = prob
    BY <1>0, <2>2, <2>3, BecomeKeepsInv DEF Become
  <2>5. PartOK(base)' /\ SnapOK(best)'
    BY <1>0, <2>2, <2>4, StillWaits, StillKept
  <2> QED BY <2>2, <2>4, <2>5, EmptyHeapOK DEF SearchInv
<1>7. CASE StaleMove
  BY <1>7, StaleMoveOK
<1>8. CASE UNCHANGED searchVars
  <2>1. UNCHANGED fmVars /\ base' = base /\ best' = best /\ heap' = heap /\ tidy' = tidy
    BY <1>8 DEF searchVars
  <2>2. prob' = prob /\ groups' = groups
    BY <2>1 DEF fmVars
  <2>3. Inv'
    BY <1>0, <2>1, InvStays
  <2>4. PartOK(base)' /\ SnapOK(best)'
    BY <1>0, <2>1, <2>2, StillWaits, StillKept
  <2>5. Disjoint' <=> Disjoint
    BY <2>2 DEF Disjoint, Alive
  <2>6. HeapReady' /\ HeapSound' /\ HeapWhole'
    <3>1. ASSUME NEW o \in Ops, NEW m \in heap'[o]
          PROVE  /\ Ready(o, m)'
                 /\ tidy => Sound(o, m)'
                 /\ tidy /\ Disjoint => Whole(m)'
      <4>1. Ready(o, m) /\ (tidy => Sound(o, m)) /\ (tidy /\ Disjoint => Whole(m))
        BY <2>1, <3>1 DEF SearchInv, HeapReady, HeapSound, HeapWhole
      <4> QED BY <1>0, <2>1, <4>1, IdleStays DEF Sound
    <3> QED BY <2>1, <2>5, <3>1 DEF HeapReady, HeapSound, HeapWhole
  <2> QED BY <2>3, <2>4, <2>6 DEF SearchInv
<1> QED BY <1>1, <1>2, <1>3, <1>4, <1>5, <1>6, <1>7, <1>8 DEF SearchNext

(* What greedy_descent and the passes of fm_outer_loop keep, whatever move *)
(* they pop and whatever checkpoint they go on from.                       *)
THEOREM SearchInvariance == SearchSpec => []SearchInv
  BY SearchInitOK, SearchStep, PTL DEF SearchSpec

(* However stale the move that is applied, apply_fm_move loses no op ...   *)
THEOREM SearchLosesNoOp == SearchSpec => []NoOpLost
<1>1. SearchInv => NoOpLost
  BY HoldersAreLive DEF SearchInv, Inv, Consistent, AllHeld, NoOpLost, Covered
<1> QED BY <1>1, SearchInvariance, PTL

(* ... and groups_of lists the holders of every op, which the refresh and  *)
(* the next evaluation go by.                                              *)
THEOREM SearchIndexIsCurrent == SearchSpec => []IndexCurrent
<1>1. SearchInv => IndexCurrent
  BY DEF SearchInv, Inv, Consistent
<1> QED BY <1>1, SearchInvariance, PTL

(* While no op is recomputed, a move that waits can still be applied, but  *)
(* for a STEAL: refresh_after_move, and the refresh of greedy_descent,     *)
(* reach every op whose move looks at a group that has changed.            *)
THEOREM PendingMovesApply == SearchSpec => []PendingApplies
<1>1. ASSUME SearchInv PROVE PendingApplies
  BY <1>1, EntrySound DEF PendingApplies, Sound
<1> QED BY <1>1, SearchInvariance, PTL

-----------------------------------------------------------------------------
(* The gap checks of a move that was evaluated in another partition.       *)

LEMMA WholeMends ==
  ASSUME Inv, Apart(groups), Unbroken(groups), NEW o \in Ops, NEW m,
         Ready(o, m), Whole(m), ApplyMove(m), m.type \in GapChecked
  PROVE  Mends
<1>0. m.op = o
  BY DEF Ready
<1>1. CASE m.type = "EJECT" /\ ApplyEject(m.op, m.ga)
  <2>1. m.ga \in Slots /\ Leaves(o, groups[m.ga])
    BY <1>0, <1>1 DEF Ready, Whole
  <2> QED BY <1>0, <1>1, <2>1, EjectMends DEF Inv
<1>2. CASE m.type = "SPLIT" /\ ApplySplit(m.op, m.v, m.ga)
  <2>1. PICK stay : stay = SideOf(groups[m.ga], o, m.v)
    OBVIOUS
  <2>2. PICK moved : moved = groups[m.ga] \ stay
    OBVIOUS
  <2>3. m.ga \in Slots /\ Sheds(stay, moved) /\ Sheds(moved, stay)
    BY <1>0, <1>2, <2>1, <2>2 DEF Ready, Whole
  <2> QED BY <1>0, <1>2, <2>1, <2>2, <2>3, SplitMends DEF Inv
<1>3. CASE m.type = "STEAL" /\ ApplySteal(m.op, m.ga, m.gb)
  <2>1. /\ m.ga \in Slots /\ m.gb \in Slots /\ m.ga # m.gb
        /\ Intact(groups[m.gb] \cup {o}) /\ Intact(groups[m.ga] \ {o})
    BY <1>0, <1>3 DEF Ready, Whole
  <2> QED BY <1>0, <1>3, <2>1, StealMends DEF Inv
<1>4. CASE m.type = "MERGE" /\ ApplyMerge(m.ga, m.gb)
  <2>1. Intact(Union({m.ga, m.gb})) /\ Gathers({m.ga, m.gb}, m.ga)
    BY <1>4, MergeGathers DEF Whole
  <2> QED BY <2>1, GatherMends DEF Inv
<1>5. CASE m.type = "TENSOR_MERGE" /\ ApplyTensorMerge(m.gs)
  <2>1. Intact(Union(m.gs)) /\ m.gs # {}
    BY <1>5 DEF Ready, Whole
  <2>2. Gathers(m.gs, Least(m.gs))
    BY <1>5, <2>1, TensorMergeGathers
  <2> QED BY <2>1, <2>2, GatherMends DEF Inv
<1>6. CASE m.type = "TENSOR_EXTRACT" /\ ApplyTensorExtract(m.t, m.gs)
  <2>1. PICK X : X = Extracted(m.t)
    OBVIOUS
  <2>2. /\ X \in (SUBSET Union(m.gs)) \ {{}}
        /\ \A S \in {X} \cup Remains(m.gs, X) : Intact(S)
    BY <1>6, <2>1 DEF Whole
  <2> QED BY <1>6, <2>1, <2>2, TensorExtractMends DEF Inv
<1> QED BY <1>1, <1>2, <1>3, <1>4, <1>5, <1>6 DEF ApplyMove, GapChecked

LEMMA StaleMends ==
  ASSUME SearchInv, tidy, Disjoint, ~HasEphemeralGap, last' \in GapChecked,
         GreedyMove \/ PassMove
  PROVE  Mends
<1>1. PICK op \in Ops : \E m \in Entry(op) : Take(m.type) /\ ApplyMove(m)
  BY DEF GreedyMove, PassMove
<1>2. PICK m \in Entry(op) : Take(m.type) /\ ApplyMove(m)
  BY <1>1
<1>3. m.type \in GapChecked
  BY <1>2 DEF Take
<1>4. Ready(op, m) /\ Whole(m)
  BY EntryReady, EntryWhole
<1>5. Inv /\ Apart(groups) /\ Unbroken(groups)
  BY ApartMeans, UnbrokenMeans DEF Inv, SearchInv
<1> QED BY <1>2, <1>3, <1>4, <1>5, WholeMends

(* While no op is recomputed, a move that looked for ephemeral gaps when   *)
(* it was evaluated leaves none in the partition it is applied to: the     *)
(* groups its check looked at are as they were.                            *)
THEOREM StaleMovesLeaveNoGap == SearchSpec => StaleStaysGapFree
<1> DEFINE P == mode = mode' => (tidy /\ Disjoint /\ ~HasEphemeralGap /\ last' \in GapChecked
                                  => ~HasEphemeralGap')
<1>1. ASSUME SearchInv, SearchInv', [SearchNext]_searchVars,
             mode = mode', tidy, Disjoint, ~HasEphemeralGap, last' \in GapChecked
      PROVE  ~HasEphemeralGap'
  <2>1. CASE GreedyMove \/ PassMove
    BY <1>1, <2>1, StaleMends, MendedHasNoGap DEF Inv, SearchInv
  <2>2. CASE UNCHANGED fmVars
    BY <1>1, <2>2 DEF fmVars, HasEphemeralGap, HasGapBeyond, Exported, IsEphemeral,
                      IsBoundaryOutput, ConsumedIn, Consumers, GroupsOf, Alive
  <2>3. ~StartGreedy /\ ~EndPass
    BY <1>1 DEF StartGreedy, EndPass
  <2> QED BY <1>1, <2>1, <2>2, <2>3
      DEF SearchNext, EndGreedy, StartPass, StaleMove, searchVars
<1>2. SearchInv /\ SearchInv' /\ [SearchNext]_searchVars => [P]_searchVars
  BY <1>1
<1> HIDE DEF P
<1>3. SearchSpec => [][P]_searchVars
  BY <1>2, SearchInvariance, PTL DEF SearchSpec
<1> QED BY <1>3 DEF P, StaleStaysGapFree

-----------------------------------------------------------------------------
(*                              Symmetry                                   *)

-----------------------------------------------------------------------------
(* Finite sets that are ordered.                                           *)

(* R is a strict total order of G.                                         *)
Orders(R, G) ==
  /\ \A g \in G : <<g, g>> \notin R
  /\ \A g, h \in G : g # h => <<g, h>> \in R \/ <<h, g>> \in R
  /\ \A g, h, k \in G : <<g, h>> \in R /\ <<h, k>> \in R => <<g, k>> \in R

Below(G, R, g) == {h \in G : <<h, g>> \in R}

(* By an order the members of a finite set have the places 0..N-1.         *)
Places(G, R) ==
  LET N == Cardinality(G)
  IN  /\ N \in Nat
      /\ \A g \in G : Cardinality(Below(G, R, g)) \in 0..(N - 1)
      /\ \A g, h \in G : <<g, h>> \in R
           => Cardinality(Below(G, R, g)) < Cardinality(Below(G, R, h))
      /\ \A g, h \in G : Cardinality(Below(G, R, g)) = Cardinality(Below(G, R, h))
                           => g = h
      /\ \A n \in 0..(N - 1) : \E g \in G : Cardinality(Below(G, R, g)) = n

LEMMA OrderedByCount ==
  ASSUME NEW G, IsFiniteSet(G), NEW R, Orders(R, G)
  PROVE  Places(G, R)
<1>1. PICK N \in Nat : N = Cardinality(G)
  BY FS_CardinalityType
<1>2. ASSUME NEW g \in G
      PROVE  /\ IsFiniteSet(Below(G, R, g))
             /\ Cardinality(Below(G, R, g)) \in 0..(N - 1)
  <2>1. Below(G, R, g) \subseteq G /\ g \notin Below(G, R, g)
    BY DEF Below, Orders
  <2>2. /\ IsFiniteSet(Below(G, R, g)) /\ Cardinality(Below(G, R, g)) \in Nat
        /\ Cardinality(Below(G, R, g)) <= N
        /\ Cardinality(Below(G, R, g)) # N
    BY <1>1, <2>1, FS_Subset, FS_CardinalityType
  <2> QED BY <2>2
<1>3. ASSUME NEW g \in G, NEW h \in G, <<g, h>> \in R
      PROVE  Cardinality(Below(G, R, g)) < Cardinality(Below(G, R, h))
  <2>1. Below(G, R, g) \subseteq Below(G, R, h)
    BY <1>3 DEF Below, Orders
  <2>2. g \in Below(G, R, h) /\ g \notin Below(G, R, g)
    BY <1>3 DEF Below, Orders
  <2>3. /\ Cardinality(Below(G, R, g)) <= Cardinality(Below(G, R, h))
        /\ Cardinality(Below(G, R, g)) # Cardinality(Below(G, R, h))
    BY <1>2, <2>1, <2>2, FS_Subset
  <2> QED BY <1>2, <2>3
<1>4. ASSUME NEW g \in G, NEW h \in G,
             Cardinality(Below(G, R, g)) = Cardinality(Below(G, R, h))
      PROVE  g = h
  <2>1. <<g, h>> \notin R /\ <<h, g>> \notin R
    BY <1>2, <1>3, <1>4
  <2> QED BY <2>1 DEF Orders
<1>5. PICK count : count = [g \in G |-> Cardinality(Below(G, R, g))]
  OBVIOUS
<1>6. count \in Injection(G, 0..(N - 1))
  <2>1. count \in [G -> 0..(N - 1)]
    BY <1>2, <1>5
  <2>2. \A g, h \in G : count[g] = count[h] => g = h
    BY <1>4, <1>5
  <2> QED BY <2>1, <2>2, Fun_IsInj
<1>7. IsFiniteSet(0..(N - 1)) /\ Cardinality(0..(N - 1)) = N
  BY FS_Interval
<1>8. count \in Surjection(G, 0..(N - 1))
  BY <1>1, <1>6, <1>7, FS_Injection
<1>9. \A n \in 0..(N - 1) : \E g \in G : Cardinality(Below(G, R, g)) = n
  BY <1>5, <1>8 DEF Surjection
<1> QED BY <1>1, <1>2, <1>3, <1>4, <1>9 DEF Places

(* A list of the members of G, each once.                                  *)
Enumerates(q, G) ==
  /\ q \in Seq(G)
  /\ \A x \in G : \E i \in DOMAIN q : q[i] = x
  /\ \A i, j \in DOMAIN q : q[i] = q[j] => i = j

LEMMA CountedIsList ==
  ASSUME NEW G, IsFiniteSet(G), NEW R, Orders(R, G), NEW q,
         q = [i \in 1..Cardinality(G) |-> CHOOSE x \in G : Cardinality(Below(G, R, x)) = i - 1]
  PROVE  Enumerates(q, G)
<1>1. PICK N \in Nat : N = Cardinality(G)
  BY FS_CardinalityType
<1>2. PICK c : c = [g \in G |-> Cardinality(Below(G, R, g))]
  OBVIOUS
<1>3. /\ \A g \in G : c[g] \in 0..(N - 1)
      /\ \A g, h \in G : c[g] = c[h] => g = h
      /\ \A n \in 0..(N - 1) : \E g \in G : c[g] = n
  <2>1. Places(G, R)
    BY OrderedByCount
  <2> QED BY <1>1, <1>2, <2>1 DEF Places
<1>4. q = [i \in 1..N |-> CHOOSE x \in G : c[x] = i - 1]
  <2>1. \A x \in G : c[x] = Cardinality(Below(G, R, x))
    BY <1>2
  <2>2. ASSUME NEW i \in 1..N
        PROVE  (CHOOSE x \in G : Cardinality(Below(G, R, x)) = i - 1) = (CHOOSE x \in G : c[x] = i - 1)
    BY <2>1
  <2> QED BY <1>1, <2>2
<1>5. ASSUME NEW i \in 1..N PROVE q[i] \in G /\ c[q[i]] = i - 1
  <2>1. i - 1 \in 0..(N - 1)
    OBVIOUS
  <2>2. \E x \in G : c[x] = i - 1
    BY <1>3, <2>1
  <2>3. q[i] = CHOOSE x \in G : c[x] = i - 1
    BY <1>4
  <2> QED BY <2>2, <2>3
<1>6. q \in [1..N -> G] /\ DOMAIN q = 1..N
  BY <1>4, <1>5
<1>7. q \in Seq(G)
  <2>1. N \in Nat
    OBVIOUS
  <2> QED BY ONLY <1>6, <2>1
<1>8. ASSUME NEW x \in G PROVE \E i \in DOMAIN q : q[i] = x
  <2>1. c[x] \in 0..(N - 1) /\ c[x] + 1 \in 1..N
    <3>1. c[x] \in 0..(N - 1) /\ N \in Nat
      BY <1>3
    <3> QED BY ONLY <3>1
  <2>2. PICK k \in 1..N : k = c[x] + 1
    BY <2>1
  <2>3. q[k] \in G /\ c[q[k]] = k - 1
    BY <1>5
  <2>4. c[q[k]] = c[x]
    <3>1. c[x] \in Int /\ k = c[x] + 1 /\ c[q[k]] = k - 1
      BY <2>1, <2>2, <2>3
    <3> QED BY ONLY <3>1
  <2> QED BY <1>3, <1>6, <2>3, <2>4
<1>9. ASSUME NEW i \in DOMAIN q, NEW j \in DOMAIN q, q[i] = q[j] PROVE i = j
  BY <1>1, <1>5, <1>6, <1>9
<1> QED BY <1>7, <1>8, <1>9 DEF Enumerates

(* ... of integers, which has a greatest and a least member.               *)
NumberOrder(G, rk) == {p \in G \X G : rk[p[1]] < rk[p[2]]}

LEMMA RanksOrder ==
  ASSUME NEW G, NEW rk, \A g \in G : rk[g] \in Int, \A g, h \in G : rk[g] = rk[h] => g = h
  PROVE  /\ Orders(NumberOrder(G, rk), G)
         /\ \A x \in G : Below(G, NumberOrder(G, rk), x) = {y \in G : rk[y] < rk[x]}
<1>1. \A g, h \in G : <<g, h>> \in NumberOrder(G, rk) <=> rk[g] < rk[h]
  BY DEF NumberOrder
<1>2. Orders(NumberOrder(G, rk), G)
  BY <1>1 DEF Orders
<1>3. ASSUME NEW x \in G
      PROVE  Below(G, NumberOrder(G, rk), x) = {y \in G : rk[y] < rk[x]}
  BY <1>1 DEF Below
<1> QED BY <1>2, <1>3

LEMMA GreatestExists ==
  ASSUME NEW S \in SUBSET Int, IsFiniteSet(S), S # {}
  PROVE  /\ \E x \in S : \A y \in S : y <= x
         /\ \E x \in S : \A y \in S : x <= y
<1>1. PICK rk : rk = [x \in S |-> x]
  OBVIOUS
<1>2. PICK R : R = NumberOrder(S, rk)
  OBVIOUS
<1>3. Orders(R, S)
  BY <1>1, <1>2, RanksOrder
<1>4. \A x, y \in S : <<x, y>> \in R <=> x < y
  BY <1>1, <1>2 DEF NumberOrder
<1>5. PICK N \in Nat : N = Cardinality(S)
  BY FS_CardinalityType
<1>6. N > 0
  <2>1. N # 0 /\ N \in Nat
    BY <1>5, FS_EmptySet
  <2> QED BY ONLY <2>1
<1>7. PICK c : c = [g \in S |-> Cardinality(Below(S, R, g))]
  OBVIOUS
<1>8. /\ \A g \in S : c[g] \in 0..(N - 1)
      /\ \A g, h \in S : <<g, h>> \in R => c[g] < c[h]
      /\ \A n \in 0..(N - 1) : \E g \in S : c[g] = n
  <2>1. Places(S, R)
    BY <1>3, OrderedByCount
  <2> QED BY <1>5, <1>7, <2>1 DEF Places
<1>9. \E x \in S : \A y \in S : y <= x
  <2>1. N - 1 \in 0..(N - 1)
    <3>1. N \in Nat /\ N > 0
      BY <1>6
    <3> QED BY ONLY <3>1
  <2>2. PICK x \in S : c[x] = N - 1
    BY <1>8, <2>1
  <2>3. ASSUME NEW y \in S, x < y PROVE FALSE
    <3>1. c[x] < c[y] /\ c[y] \in 0..(N - 1)
      BY <1>4, <1>8, <2>3
    <3> QED BY <1>5, <2>2, <3>1
  <2> QED BY <2>2, <2>3
<1>10. \E x \in S : \A y \in S : x <= y
  <2>1. 0 \in 0..(N - 1)
    <3>1. N \in Nat /\ N > 0
      BY <1>6
    <3> QED BY ONLY <3>1
  <2>2. PICK x \in S : c[x] = 0
    BY <1>8, <2>1
  <2>3. ASSUME NEW y \in S, y < x PROVE FALSE
    <3>1. c[y] < c[x] /\ c[y] \in 0..(N - 1)
      BY <1>4, <1>8, <2>3
    <3> QED BY <1>5, <2>2, <3>1
  <2> QED BY <2>2, <2>3
<1> QED BY <1>9, <1>10

LEMMA ValuesFinite ==
  ASSUME NEW S, IsFiniteSet(S), NEW f, NEW V, V = {f[x] : x \in S}
  PROVE  IsFiniteSet(V)
<1>1. PICK h : h = [x \in S |-> f[x]]
  OBVIOUS
<1>2. h \in [S -> V] /\ \A y \in V : \E x \in S : h[x] = y
  BY <1>1
<1>3. h \in Surjection(S, V)
  BY <1>2 DEF Surjection
<1> QED BY <1>3, FS_Surjection

LEMMA MaxIsMember ==
  ASSUME NEW S \in SUBSET Int, IsFiniteSet(S), S # {}
  PROVE  Max(S) \in S /\ \A y \in S : y <= Max(S)
<1>1. \E x \in S : \A y \in S : x >= y
  BY GreatestExists
<1> QED BY <1>1 DEF Max

-----------------------------------------------------------------------------
(* Depths: a graph without a cycle gives each op of a set one.             *)

Producing(S, o) == Producers(o) \cap S

LEMMA FiniteOps ==
  /\ IsFiniteSet(Ops) /\ Ops \subseteq Nat
  /\ \A S \in SUBSET Ops : IsFiniteSet(S) /\ Cardinality(S) \in Nat
  BY OpsAssumption, FS_Subset, FS_CardinalityType

(* f is the depth on A, which holds the producers of its ops.              *)
DepthOn(f, A, S) ==
  /\ f \in [A -> Nat]
  /\ \A o \in A : /\ Producing(S, o) \subseteq A
                  /\ f[o] = IF Producing(S, o) = {} THEN 0
                            ELSE 1 + Max({f[q] : q \in Producing(S, o)})

LEMMA DepthGrows ==
  ASSUME NEW S \in SUBSET Ops, NEW A \in SUBSET S, NEW f, DepthOn(f, A, S),
         NEW x \in S \ A, Producing(S, x) \subseteq A
  PROVE  \E g : DepthOn(g, A \cup {x}, S)
<1>1. f \in [A -> Nat]
  BY DEF DepthOn
<1>2. PICK n \in Nat : n = IF Producing(S, x) = {} THEN 0
                           ELSE 1 + Max({f[q] : q \in Producing(S, x)})
  <2>1. CASE Producing(S, x) # {}
    <3>1. PICK P : P = Producing(S, x)
      OBVIOUS
    <3>2. PICK V : V = {f[q] : q \in P}
      OBVIOUS
    <3>3. IsFiniteSet(P)
      BY <3>1, FiniteOps DEF Producing
    <3>4. IsFiniteSet(V)
      BY <3>2, <3>3, ValuesFinite
    <3>5. V \in SUBSET Int /\ V # {} /\ V \subseteq Nat
      BY <1>1, <2>1, <3>1, <3>2
    <3>6. Max(V) \in Nat
      <4>1. Max(V) \in V
        BY <3>4, <3>5, MaxIsMember
      <4> QED BY <3>5, <4>1
    <3>7. 1 + Max(V) \in Nat
      BY <3>6
    <3> QED BY <2>1, <3>1, <3>2, <3>7
  <2>2. CASE Producing(S, x) = {}
    BY <2>2
  <2> QED BY <2>1, <2>2
<1>3. PICK g : g = [o \in A \cup {x} |-> IF o = x THEN n ELSE f[o]]
  OBVIOUS
<1>4. g \in [A \cup {x} -> Nat] /\ g[x] = n /\ \A o \in A : g[o] = f[o]
  BY <1>1, <1>3
<1>5. ASSUME NEW o \in A \cup {x}
      PROVE  /\ Producing(S, o) \subseteq A
             /\ g[o] = IF Producing(S, o) = {} THEN 0
                       ELSE 1 + Max({g[q] : q \in Producing(S, o)})
  <2>1. Producing(S, o) \subseteq A
    BY DEF DepthOn
  <2>2. {g[q] : q \in Producing(S, o)} = {f[q] : q \in Producing(S, o)}
    BY <1>4, <2>1
  <2>3. g[o] = IF Producing(S, o) = {} THEN 0
               ELSE 1 + Max({f[q] : q \in Producing(S, o)})
    <3>1. CASE o = x
      BY <1>2, <1>4, <3>1
    <3>2. CASE o \in A
      <4>1. f[o] = IF Producing(S, o) = {} THEN 0
                   ELSE 1 + Max({f[q] : q \in Producing(S, o)})
        BY <3>2, Zenon DEF DepthOn
      <4>2. g[o] = f[o]
        BY <1>4, <3>2
      <4> QED BY <4>1, <4>2, Zenon
    <3> QED BY <3>1, <3>2
  <2> QED BY <2>1, <2>2, <2>3
<1>6. DepthOn(g, A \cup {x}, S)
  BY <1>4, <1>5 DEF DepthOn
<1> QED BY <1>6

LEMMA DepthExists ==
  ASSUME prob \in Problems, NEW S \in SUBSET Ops
  PROVE  \E f : DepthOn(f, S, S)
<1> DEFINE T == {A \in SUBSET S : \E f : DepthOn(f, A, S)}
<1>1. PICK f0 : f0 = [o \in {} |-> 0]
  OBVIOUS
<1>2. DepthOn(f0, {}, S)
  BY <1>1 DEF DepthOn
<1>3. {} \in T
  BY <1>2
<1>4. PICK n \in Nat : n = Cardinality(S)
  BY FiniteOps
<1>5. PICK V : V = {n - Cardinality(A) : A \in T}
  OBVIOUS
<1>6. \A A \in T : Cardinality(A) \in 0..n
  <2>1. ASSUME NEW A \in SUBSET S PROVE Cardinality(A) \in 0..n
    <3>1. IsFiniteSet(S) /\ Cardinality(A) \in Nat
      BY FiniteOps
    <3>2. Cardinality(A) <= n
      BY <1>4, <3>1, FS_Subset
    <3> QED BY <3>1, <3>2
  <2> QED BY <2>1
<1>7. V \in SUBSET Nat
  <2>1. ASSUME NEW A \in T PROVE n - Cardinality(A) \in Nat
    <3>1. Cardinality(A) \in 0..n /\ n \in Nat
      BY <1>6
    <3> QED BY ONLY <3>1
  <2> HIDE DEF T
  <2> QED BY <1>5, <2>1
<1>8. V # {}
  <2> HIDE DEF T
  <2>1. n - Cardinality({}) \in V
    BY <1>3, <1>5
  <2> QED BY <2>1
<1>9. PICK v \in V : \A w \in V : v <= w
  BY <1>7, <1>8, LeastNatural
<1>10. PICK A \in T : v = n - Cardinality(A)
  BY <1>5
<1>11. PICK f : DepthOn(f, A, S)
  BY <1>10
<1>12. A \in SUBSET S
  BY <1>10
<1>13. CASE S \subseteq A
  <2>1. A = S
    BY <1>12, <1>13
  <2> QED BY <1>11, <2>1
<1>14. CASE ~(S \subseteq A)
  <2>1. PICK x \in S \ A : prob.reads[x] \cap (S \ A) = {}
    <3>1. S \ A \in (SUBSET Ops) \ {{}}
      BY <1>14
    <3> QED BY <3>1, ProblemsAssumption
  <2>2. Producing(S, x) \subseteq A
    BY <2>1 DEF Producing, Producers
  <2>3. PICK B : B = A \cup {x}
    OBVIOUS
  <2>4. \E g : DepthOn(g, B, S)
    BY <1>11, <1>12, <2>2, <2>3, DepthGrows
  <2>5. B \in T /\ Cardinality(B) = Cardinality(A) + 1
    <3>1. B \in SUBSET S
      BY <1>12, <2>3
    <3>2. IsFiniteSet(A)
      BY <1>12, FiniteOps
    <3>3. Cardinality(B) = Cardinality(A) + 1
      BY <2>1, <2>3, <3>2, FS_AddElement
    <3> QED BY <2>4, <3>1, <3>3
  <2>6. n - Cardinality(B) \in V
    BY <1>5, <2>5
  <2>7. v <= n - Cardinality(B)
    BY <1>9, <2>6
  <2>8. Cardinality(A) \in 0..n
    BY <1>6
  <2>9. n \in Nat
    OBVIOUS
  <2> QED BY ONLY <1>10, <2>5, <2>7, <2>8, <2>9
<1> QED BY <1>13, <1>14

LEMMA DepthTyped ==
  ASSUME prob \in Problems, NEW S \in SUBSET Ops
  PROVE  Depth(S) \in [S -> Nat]
<1>1. PICK f : DepthOn(f, S, S)
  BY DepthExists
<1>2. f = [o \in S |-> LET p == Producers(o) \cap S
                       IN  IF p = {} THEN 0 ELSE 1 + Max({f[q] : q \in p})]
  <2>1. f \in [S -> Nat]
    BY <1>1 DEF DepthOn
  <2>2. ASSUME NEW o \in S
        PROVE  f[o] = LET p == Producers(o) \cap S
                      IN  IF p = {} THEN 0 ELSE 1 + Max({f[q] : q \in p})
    BY <1>1 DEF DepthOn, Producing
  <2> QED BY <2>1, <2>2
<1>3. PICK d : d = Depth(S)
  OBVIOUS
<1>4. d = [o \in S |-> LET p == Producers(o) \cap S
                       IN  IF p = {} THEN 0 ELSE 1 + Max({d[q] : q \in p})]
  <2> DEFINE Body(h) == [o \in S |-> LET p == Producers(o) \cap S
                                     IN  IF p = {} THEN 0 ELSE 1 + Max({h[q] : q \in p})]
  <2>1. d = CHOOSE h : h = Body(h)
    BY <1>3 DEF Depth
  <2>2. \E h : h = Body(h)
    BY <1>2
  <2> HIDE DEF Body
  <2>3. d = Body(d)
    BY <2>1, <2>2
  <2> QED BY <2>3 DEF Body
<1>5. DOMAIN d = S
  BY <1>4
<1>6. PICK bad : bad = {o \in S : d[o] \notin Nat}
  OBVIOUS
<1>7. CASE bad # {}
  <2>1. PICK x \in bad : prob.reads[x] \cap bad = {}
    <3>1. bad \in (SUBSET Ops) \ {{}}
      BY <1>6, <1>7
    <3> QED BY <3>1, ProblemsAssumption
  <2>2. PICK P : P = Producers(x) \cap S
    OBVIOUS
  <2>3. x \in S /\ d[x] \notin Nat
    BY <1>6, <2>1
  <2>4. d[x] = IF P = {} THEN 0 ELSE 1 + Max({d[q] : q \in P})
    BY <1>4, <2>2, <2>3
  <2>5. P # {}
    BY <2>3, <2>4
  <2>6. PICK V : V = {d[q] : q \in P}
    OBVIOUS
  <2>7. V \in SUBSET Int /\ V # {} /\ V \subseteq Nat
    <3>1. \A q \in P : d[q] \in Nat
      BY <1>6, <2>1, <2>2 DEF Producers
    <3> QED BY <2>5, <2>6, <3>1
  <2>8. IsFiniteSet(V)
    <3>1. IsFiniteSet(P)
      BY <2>2, FiniteOps
    <3> QED BY <2>6, <3>1, ValuesFinite
  <2>9. Max(V) \in V
    BY <2>7, <2>8, MaxIsMember
  <2>10. 1 + Max(V) \in Nat
    <3>1. Max(V) \in Nat
      BY <2>7, <2>9
    <3> QED BY <3>1
  <2> QED BY <2>3, <2>4, <2>5, <2>6, <2>10
<1>8. CASE bad = {}
  <2>1. \A o \in S : d[o] \in Nat
    BY <1>6, <1>8
  <2>2. d \in [S -> Nat]
    <3>1. d = [o \in S |-> d[o]]
      BY <1>4
    <3> QED BY <2>1, <3>1
  <2> QED BY <1>3, <2>2
<1> QED BY <1>7, <1>8

LEMMA LongestChainIsNat ==
  ASSUME prob \in Problems
  PROVE  LongestChain \in Nat
<1>1. PICK d : d = Depth(Ops)
  OBVIOUS
<1>2. d \in [Ops -> Nat]
  BY <1>1, DepthTyped
<1>3. PICK V : V = {d[o] : o \in Ops}
  OBVIOUS
<1>4. IsFiniteSet(V \cup {1})
  <2>1. IsFiniteSet(V)
    BY <1>3, FiniteOps, ValuesFinite
  <2> QED BY <2>1, FS_AddElement
<1>5. V \cup {1} \in SUBSET Int /\ V \cup {1} # {} /\ V \cup {1} \subseteq Nat
  BY <1>2, <1>3
<1>6. Max(V \cup {1}) \in Nat
  <2>1. Max(V \cup {1}) \in V \cup {1}
    BY <1>4, <1>5, MaxIsMember
  <2> QED BY <1>5, <2>1
<1>7. LongestChain = Max(V \cup {1})
  BY <1>1, <1>3 DEF LongestChain
<1> QED BY <1>6, <1>7

-----------------------------------------------------------------------------
(* Whatever they look at, the hashes tell the ops apart by an equivalence. *)

Cells(F, S) ==
  /\ F \in SUBSET ((SUBSET S) \ {{}})
  /\ \A o \in S : \E C \in F : o \in C
  /\ \A C, D \in F : C \cap D # {} => C = D

Equivalence(E, S) ==
  /\ \A o \in S : <<o, o>> \in E
  /\ \A o, u \in S : <<o, u>> \in E => <<u, o>> \in E
  /\ \A o, u, v \in S : <<o, u>> \in E /\ <<u, v>> \in E => <<o, v>> \in E

LEMMA EquivalenceCells ==
  ASSUME NEW S, NEW E, Equivalence(E, S),
         NEW F, F = {{u \in S : <<o, u>> \in E} : o \in S}
  PROVE  Cells(F, S)
<1>1. /\ \A o \in S : <<o, o>> \in E
      /\ \A o, u \in S : <<o, u>> \in E => <<u, o>> \in E
      /\ \A o, u, v \in S : <<o, u>> \in E /\ <<u, v>> \in E => <<o, v>> \in E
  BY DEF Equivalence
<1>2. \A C \in F : \E o \in S : o \in C /\ C = {u \in S : <<o, u>> \in E}
  BY <1>1
<1>3. F \in SUBSET ((SUBSET S) \ {{}})
  <2>1. ASSUME NEW C \in F PROVE C \in (SUBSET S) \ {{}}
    <3>1. PICK o \in S : o \in C /\ C = {u \in S : <<o, u>> \in E}
      BY <1>2
    <3> QED BY <3>1
  <2> QED BY ONLY <2>1
<1>4. ASSUME NEW o \in S PROVE \E C \in F : o \in C
  <2>1. PICK C : C = {u \in S : <<o, u>> \in E}
    OBVIOUS
  <2>2. C \in F /\ o \in C
    BY <1>1, <2>1
  <2> QED BY ONLY <2>2
<1>5. ASSUME NEW C \in F, NEW D \in F, C \cap D # {} PROVE C = D
  <2>1. PICK o \in S : C = {u \in S : <<o, u>> \in E}
    BY <1>2
  <2>2. PICK v \in S : D = {u \in S : <<v, u>> \in E}
    BY <1>2
  <2>3. PICK w \in S : w \in C /\ w \in D
    BY <1>5, <2>1
  <2>4. \A u \in S : <<o, u>> \in E <=> <<v, u>> \in E
    <3>1. <<o, w>> \in E /\ <<v, w>> \in E /\ <<w, o>> \in E /\ <<w, v>> \in E
      BY <1>1, <2>1, <2>2, <2>3
    <3> QED BY <1>1, <3>1
  <2> QED BY <2>1, <2>2, <2>4
<1> QED BY <1>3, <1>4, <1>5 DEF Cells

Similar(o, u, before, around, near) ==
  /\ KindOf(o) = KindOf(u) /\ around[o] = around[u]
  /\ \A C \in before : Cardinality(near[o] \cap C) = Cardinality(near[u] \cap C)

KindCells(S) == {{u \in S : KindOf(u) = KindOf(o)} : o \in S}
SimilarCells(S, before, around, near) ==
  {{u \in S : Similar(o, u, before, around, near)} : o \in S}

Rounds(class, S, N, around, near) ==
  /\ class[0] = KindCells(S)
  /\ \A n \in 1..N : class[n] = SimilarCells(S, class[n - 1], around, near)

LEMMA RoundsExist ==
  ASSUME NEW S, NEW N \in Nat, NEW around, NEW near
  PROVE  \E f : f \in [0..N -> SUBSET SUBSET S] /\ Rounds(f, S, N, around, near)
<1> DEFINE D == SUBSET SUBSET S
           F == [p \in Nat \X D |-> SimilarCells(S, p[2], around, near)]
<1>1. KindCells(S) \in D
  BY DEF KindCells
<1>2. \A before : SimilarCells(S, before, around, near) \in D
  BY DEF SimilarCells
<1>3. F \in [Nat \X D -> D]
  BY <1>2
<1>4. PICK f : Iterates(f, N, D, KindCells(S), F)
  <2> HIDE DEF D, F
  <2> QED BY <1>1, <1>3, IterationExists
<1>5. f \in [0..N -> D] /\ f[0] = KindCells(S) /\ \A n \in 1..N : f[n] = F[<<n, f[n - 1]>>]
  <2> HIDE DEF D, F
  <2> QED BY <1>4 DEF Iterates
<1>6. ASSUME NEW n \in 1..N PROVE f[n] = SimilarCells(S, f[n - 1], around, near)
  <2>1. n \in Nat /\ n - 1 \in 0..N
    OBVIOUS
  <2>2. <<n, f[n - 1]>> \in Nat \X D
    <3> HIDE DEF D, F
    <3> QED BY <1>5, <2>1
  <2>3. F[<<n, f[n - 1]>>] = SimilarCells(S, f[n - 1], around, near)
    <3> HIDE DEF D
    <3> QED BY <2>2
  <2> HIDE DEF D, F
  <2> QED BY <1>5, <2>3
<1>7. Rounds(f, S, N, around, near)
  BY <1>5, <1>6 DEF Rounds
<1> QED BY <1>5, <1>7

LEMMA RoundsAreCells ==
  ASSUME NEW S, NEW N \in Nat, NEW around, NEW near, NEW class, Rounds(class, S, N, around, near)
  PROVE  Cells(class[N], S)
<1>1. CASE N = 0
  <2>1. PICK E : E = {p \in S \X S : KindOf(p[1]) = KindOf(p[2])}
    OBVIOUS
  <2>2. \A o, u \in S : <<o, u>> \in E <=> KindOf(o) = KindOf(u)
    BY <2>1
  <2>3. Equivalence(E, S)
    BY <2>2, Zenon DEF Equivalence
  <2>4. KindCells(S) = {{u \in S : <<o, u>> \in E} : o \in S}
    <3>1. \A o \in S : {u \in S : KindOf(u) = KindOf(o)} = {u \in S : <<o, u>> \in E}
      BY <2>2
    <3> QED BY <3>1, Zenon DEF KindCells
  <2>5. Cells(KindCells(S), S)
    BY <2>3, <2>4, EquivalenceCells
  <2> QED BY <1>1, <2>5 DEF Rounds
<1>2. CASE N # 0
  <2>1. PICK before : before = class[N - 1]
    OBVIOUS
  <2>2. PICK E : E = {p \in S \X S : Similar(p[1], p[2], before, around, near)}
    OBVIOUS
  <2>3. \A o, u \in S : <<o, u>> \in E <=> Similar(o, u, before, around, near)
    BY <2>2
  <2>4. Equivalence(E, S)
    <3>1. \A o \in S : <<o, o>> \in E
      BY <2>3, Zenon DEF Similar
    <3>2. ASSUME NEW o \in S, NEW u \in S, <<o, u>> \in E PROVE <<u, o>> \in E
      <4>1. Similar(o, u, before, around, near)
        BY <2>3, <3>2
      <4>2. Similar(u, o, before, around, near)
        BY <4>1 DEF Similar
      <4> QED BY <2>3, <4>2
    <3>3. ASSUME NEW o \in S, NEW u \in S, NEW v \in S, <<o, u>> \in E, <<u, v>> \in E
          PROVE  <<o, v>> \in E
      <4>1. Similar(o, u, before, around, near) /\ Similar(u, v, before, around, near)
        BY <2>3, <3>3
      <4>2. Similar(o, v, before, around, near)
        BY <4>1 DEF Similar
      <4> QED BY <2>3, <4>2
    <3> QED BY <3>1, <3>2, <3>3 DEF Equivalence
  <2>5. SimilarCells(S, before, around, near) = {{u \in S : <<o, u>> \in E} : o \in S}
    <3>1. \A o \in S : {u \in S : Similar(o, u, before, around, near)} = {u \in S : <<o, u>> \in E}
      BY <2>3
    <3> QED BY <3>1, Zenon DEF SimilarCells
  <2>6. Cells(SimilarCells(S, before, around, near), S)
    BY <2>4, <2>5, EquivalenceCells
  <2>7. class[N] = SimilarCells(S, before, around, near)
    BY <1>2, <2>1 DEF Rounds
  <2> QED BY <2>6, <2>7
<1> QED BY <1>1, <1>2

LEMMA ForwardCells ==
  ASSUME prob \in Problems
  PROVE  Cells(Forward, Ops)
<1>1. PICK N \in Nat : N = LongestChain
  BY LongestChainIsNat
<1>2. PICK around : around = [o \in Ops |-> InputUse(o)]
  OBVIOUS
<1>3. PICK near : near = [o \in Ops |-> Producers(o)]
  OBVIOUS
<1> DEFINE Look(o, before) ==
             {u \in Ops : /\ KindOf(o) = KindOf(u) /\ InputUse(o) = InputUse(u)
                          /\ \A C \in before : Cardinality(Producers(o) \cap C)
                                                 = Cardinality(Producers(u) \cap C)}
           Body(c) ==
             [n \in 0..N |->
                IF n = 0 THEN {{u \in Ops : KindOf(u) = KindOf(o)} : o \in Ops}
                ELSE UNION {{Look(o, before) : o \in Ops} : before \in {c[n - 1]}}]
<1>4. ASSUME NEW c, NEW n \in 0..N
      PROVE  Body(c)[n] = IF n = 0 THEN KindCells(Ops)
                          ELSE SimilarCells(Ops, c[n - 1], around, near)
  <2>1. CASE n = 0
    BY <2>1 DEF KindCells
  <2>2. CASE n # 0
    <3>1. PICK before : before = c[n - 1]
      OBVIOUS
    <3>2. Body(c)[n] = {Look(o, before) : o \in Ops}
      <4> HIDE DEF Look
      <4> QED BY <2>2, <3>1
    <3>3. ASSUME NEW o \in Ops, NEW u \in Ops
          PROVE  Similar(o, u, before, around, near) <=>
                         /\ KindOf(o) = KindOf(u) /\ InputUse(o) = InputUse(u)
                         /\ \A C \in before : Cardinality(Producers(o) \cap C)
                                                = Cardinality(Producers(u) \cap C)
      BY <1>2, <1>3 DEF Similar
    <3>4. \A o \in Ops : {u \in Ops : Similar(o, u, before, around, near)} = Look(o, before)
      BY <3>3
    <3>5. Body(c)[n] = SimilarCells(Ops, before, around, near)
      <4>1. PICK h : h = [o \in Ops |-> {u \in Ops : Similar(o, u, before, around, near)}]
        OBVIOUS
      <4>2. SimilarCells(Ops, before, around, near) = {h[o] : o \in Ops}
        BY <4>1 DEF SimilarCells
      <4>3. \A o \in Ops : h[o] = Look(o, before)
        BY <3>4, <4>1
      <4> HIDE DEF Look, Body
      <4>4. {Look(o, before) : o \in Ops} = {h[o] : o \in Ops}
        BY <4>3
      <4> QED BY <3>2, <4>2, <4>4
    <3> QED BY <2>2, <3>1, <3>5
  <2> QED BY <2>1, <2>2
<1>5. PICK class : class = CHOOSE c : c = Body(c)
  OBVIOUS
<1>6. Forward = class[N]
  BY <1>1, <1>5 DEF Forward, Hashed
<1> HIDE DEF Body
<1>7. \E c : c = Body(c)
  <2>1. PICK f : f \in [0..N -> SUBSET SUBSET Ops] /\ Rounds(f, Ops, N, around, near)
    BY RoundsExist
  <2>2. \A n \in 0..N : f[n] = Body(f)[n]
    BY <1>4, <2>1 DEF Rounds
  <2>3. f = Body(f)
    BY <2>1, <2>2 DEF Body
  <2> QED BY <2>3
<1>8. class = Body(class)
  BY <1>5, <1>7
<1>9. Rounds(class, Ops, N, around, near)
  <2>1. \A n \in 0..N : class[n] = IF n = 0 THEN KindCells(Ops)
                                    ELSE SimilarCells(Ops, class[n - 1], around, near)
    BY <1>4, <1>8
  <2> QED BY <2>1 DEF Rounds
<1>10. Cells(class[N], Ops)
  BY <1>9, RoundsAreCells
<1> QED BY <1>6, <1>10

LEMMA BackwardCells ==
  ASSUME prob \in Problems
  PROVE  Cells(Backward, Ops)
<1>1. PICK N \in Nat : N = LongestChain
  BY LongestChainIsNat
<1>2. PICK around : around = [o \in Ops |-> 0]
  OBVIOUS
<1>3. PICK near : near = [o \in Ops |-> Consumers(o)]
  OBVIOUS
<1> DEFINE Look(o, before) ==
             {u \in Ops : /\ KindOf(o) = KindOf(u) /\ 0 = 0
                          /\ \A C \in before : Cardinality(Consumers(o) \cap C)
                                                 = Cardinality(Consumers(u) \cap C)}
           Body(c) ==
             [n \in 0..N |->
                IF n = 0 THEN {{u \in Ops : KindOf(u) = KindOf(o)} : o \in Ops}
                ELSE UNION {{Look(o, before) : o \in Ops} : before \in {c[n - 1]}}]
<1>4. ASSUME NEW c, NEW n \in 0..N
      PROVE  Body(c)[n] = IF n = 0 THEN KindCells(Ops)
                          ELSE SimilarCells(Ops, c[n - 1], around, near)
  <2>1. CASE n = 0
    BY <2>1 DEF KindCells
  <2>2. CASE n # 0
    <3>1. PICK before : before = c[n - 1]
      OBVIOUS
    <3>2. Body(c)[n] = {Look(o, before) : o \in Ops}
      <4> HIDE DEF Look
      <4> QED BY <2>2, <3>1
    <3>3. ASSUME NEW o \in Ops, NEW u \in Ops
          PROVE  Similar(o, u, before, around, near) <=>
                         /\ KindOf(o) = KindOf(u) /\ 0 = 0
                         /\ \A C \in before : Cardinality(Consumers(o) \cap C)
                                                = Cardinality(Consumers(u) \cap C)
      BY <1>2, <1>3 DEF Similar
    <3>4. \A o \in Ops : {u \in Ops : Similar(o, u, before, around, near)} = Look(o, before)
      BY <3>3
    <3>5. Body(c)[n] = SimilarCells(Ops, before, around, near)
      <4>1. PICK h : h = [o \in Ops |-> {u \in Ops : Similar(o, u, before, around, near)}]
        OBVIOUS
      <4>2. SimilarCells(Ops, before, around, near) = {h[o] : o \in Ops}
        BY <4>1 DEF SimilarCells
      <4>3. \A o \in Ops : h[o] = Look(o, before)
        BY <3>4, <4>1
      <4> HIDE DEF Look, Body
      <4>4. {Look(o, before) : o \in Ops} = {h[o] : o \in Ops}
        BY <4>3
      <4> QED BY <3>2, <4>2, <4>4
    <3> QED BY <2>2, <3>1, <3>5
  <2> QED BY <2>1, <2>2
<1>5. PICK class : class = CHOOSE c : c = Body(c)
  OBVIOUS
<1>6. Backward = class[N]
  BY <1>1, <1>5 DEF Backward, Hashed
<1> HIDE DEF Body
<1>7. \E c : c = Body(c)
  <2>1. PICK f : f \in [0..N -> SUBSET SUBSET Ops] /\ Rounds(f, Ops, N, around, near)
    BY RoundsExist
  <2>2. \A n \in 0..N : f[n] = Body(f)[n]
    BY <1>4, <2>1 DEF Rounds
  <2>3. f = Body(f)
    BY <2>1, <2>2 DEF Body
  <2> QED BY <2>3
<1>8. class = Body(class)
  BY <1>5, <1>7
<1>9. Rounds(class, Ops, N, around, near)
  <2>1. \A n \in 0..N : class[n] = IF n = 0 THEN KindCells(Ops)
                                    ELSE SimilarCells(Ops, class[n - 1], around, near)
    BY <1>4, <1>8
  <2> QED BY <2>1 DEF Rounds
<1>10. Cells(class[N], Ops)
  BY <1>9, RoundsAreCells
<1> QED BY <1>6, <1>10

LEMMA CombinedCells ==
  ASSUME NEW F, NEW G, NEW S, Cells(F, S), Cells(G, S)
  PROVE  Cells(Combined(F, G), S)
<1>1. PICK H : H = Combined(F, G)
  OBVIOUS
<1>2. \A C : C \in H <=> C # {} /\ \E A \in F, B \in G : C = A \cap B
  BY <1>1 DEF Combined
<1>3. H \in SUBSET ((SUBSET S) \ {{}})
  <2>1. ASSUME NEW C \in H PROVE C \in (SUBSET S) \ {{}}
    <3>1. PICK A \in F, B \in G : C = A \cap B /\ C # {}
      BY <1>2
    <3> QED BY <3>1 DEF Cells
  <2> QED BY ONLY <2>1
<1>4. ASSUME NEW o \in S PROVE \E C \in H : o \in C
  <2>1. PICK A \in F, B \in G : o \in A /\ o \in B
    BY DEF Cells
  <2>2. PICK C : C = A \cap B
    OBVIOUS
  <2>3. C \in H /\ o \in C
    BY <1>2, <2>1, <2>2
  <2> QED BY <2>3
<1>5. ASSUME NEW C \in H, NEW D \in H, C \cap D # {} PROVE C = D
  <2>1. PICK A \in F, B \in G : C = A \cap B
    BY <1>2
  <2>2. PICK X \in F, Y \in G : D = X \cap Y
    BY <1>2
  <2>3. A \cap X # {} /\ B \cap Y # {}
    BY <1>5, <2>1, <2>2
  <2>4. A = X /\ B = Y
    BY <2>3 DEF Cells
  <2> QED BY <2>1, <2>2, <2>4
<1> QED BY <1>1, <1>3, <1>4, <1>5 DEF Cells


-----------------------------------------------------------------------------
(* Components: what is reached from an op is closed, and so is the rest.   *)

NearIn(U, S) == U \cap (S \cup UNION {Producers(o) \cup Consumers(o) : o \in S})

LEMMA NearMembers ==
  ASSUME prob \in Problems, NEW U \in SUBSET Ops, NEW S \in SUBSET U
  PROVE  /\ NearIn(U, S) \in SUBSET U /\ S \subseteq NearIn(U, S)
         /\ \A x \in U : x \in NearIn(U, S) <=>
              x \in S \/ \E o \in S : x \in prob.reads[o] \/ o \in prob.reads[x]
  BY DEF NearIn, Producers, Consumers

Shut(U, C) == C \in SUBSET U /\ NearIn(U, C) \subseteq C

LEMMA RestIsShut ==
  ASSUME prob \in Problems, NEW U \in SUBSET Ops, NEW C, Shut(U, C)
  PROVE  Shut(U, U \ C)
<1>1. C \in SUBSET U /\ U \ C \in SUBSET U
  BY DEF Shut
<1>2. ASSUME NEW x \in U, x \in NearIn(U, U \ C), x \in C PROVE FALSE
  <2>1. PICK o \in U \ C : x \in prob.reads[o] \/ o \in prob.reads[x]
    BY <1>1, <1>2, NearMembers
  <2>2. o \in NearIn(U, C)
    BY <1>1, <1>2, <2>1, NearMembers
  <2> QED BY <2>1, <2>2 DEF Shut
<1>3. NearIn(U, U \ C) \in SUBSET U
  BY <1>1, NearMembers
<1> QED BY <1>1, <1>2, <1>3 DEF Shut

(* The sets reached from o in 0, 1, ... rounds.                            *)
Spreads(f, U, o) ==
  /\ f \in [0..Cardinality(U) -> SUBSET U]
  /\ f[0] = {o}
  /\ \A n \in 1..Cardinality(U) : f[n] = NearIn(U, f[n - 1])

LEMMA SpreadExists ==
  ASSUME prob \in Problems, NEW U \in SUBSET Ops, NEW o \in U
  PROVE  \E f : Spreads(f, U, o)
<1>1. PICK N \in Nat : N = Cardinality(U)
  BY FiniteOps
<1>2. PICK F : F = [S \in SUBSET U |-> NearIn(U, S)]
  OBVIOUS
<1>3. F \in [SUBSET U -> SUBSET U]
  BY <1>2, NearMembers
<1>4. {o} \in SUBSET U
  OBVIOUS
<1>5. PICK f : f \in [0..N -> SUBSET U] /\ Grows(f, N, {o}, F)
  BY <1>3, <1>4, GrowthExists
<1>6. ASSUME NEW n \in 1..N PROVE f[n] = NearIn(U, f[n - 1])
  <2>1. f[n - 1] \in SUBSET U
    BY <1>5
  <2>2. f[n] = f[n - 1] \cup F[f[n - 1]]
    BY <1>5 DEF Grows
  <2>3. F[f[n - 1]] = NearIn(U, f[n - 1])
    BY <1>2, <2>1
  <2>4. f[n - 1] \subseteq NearIn(U, f[n - 1])
    BY <2>1, NearMembers
  <2> QED BY <2>2, <2>3, <2>4
<1>7. Spreads(f, U, o)
  BY <1>1, <1>5, <1>6 DEF Spreads, Grows
<1> QED BY <1>7

LEMMA SpreadIsShut ==
  ASSUME prob \in Problems, NEW U \in SUBSET Ops, NEW o \in U, NEW f, Spreads(f, U, o)
  PROVE  /\ Shut(U, f[Cardinality(U)]) /\ o \in f[Cardinality(U)]
         /\ \A C : Shut(U, C) /\ o \in C => f[Cardinality(U)] \subseteq C
<1>1. PICK N \in Nat : N = Cardinality(U) /\ IsFiniteSet(U)
  BY FiniteOps
<1>2. /\ f \in [0..N -> SUBSET U] /\ f[0] = {o}
      /\ \A n \in 1..N : f[n] = NearIn(U, f[n - 1])
  BY <1>1 DEF Spreads
<1>3. PICK F : F = [S \in SUBSET U |-> NearIn(U, S)]
  OBVIOUS
<1>4. F \in [SUBSET U -> SUBSET U]
  BY <1>3, NearMembers
<1>5. Grows(f, N, {o}, F)
  <2>1. ASSUME NEW n \in 1..N PROVE f[n] = f[n - 1] \cup F[f[n - 1]]
    <3>1. f[n - 1] \in SUBSET U
      BY <1>2
    <3>2. F[f[n - 1]] = NearIn(U, f[n - 1]) /\ f[n - 1] \subseteq NearIn(U, f[n - 1])
      BY <1>3, <3>1, NearMembers
    <3> QED BY <1>2, <3>2
  <2> QED BY <1>2, <2>1 DEF Grows
<1>6. f[N] \in SUBSET U /\ {o} \subseteq f[N] /\ F[f[N]] \subseteq f[N]
  <2>1. {o} \in SUBSET U /\ Cardinality(U) <= N
    BY <1>1
  <2> QED BY <1>1, <1>4, <1>5, <2>1, GrowthStops
<1>7. Shut(U, f[N]) /\ o \in f[N]
  <2>1. F[f[N]] = NearIn(U, f[N])
    BY <1>3, <1>6
  <2> QED BY <1>6, <2>1 DEF Shut
<1>8. ASSUME NEW C, Shut(U, C), o \in C PROVE f[N] \subseteq C
  <2> DEFINE S == {n \in 0..N : f[n] \subseteq C}
  <2>1. 0 \in S
    BY <1>2, <1>8
  <2>2. ASSUME NEW n \in 0..(N - 1), n \in S PROVE n + 1 \in S
    <3>1. n + 1 \in 1..N /\ (n + 1) - 1 = n /\ n \in 0..N
      OBVIOUS
    <3>2. f[n + 1] = NearIn(U, f[n])
      BY <1>2, <3>1
    <3>3. f[n] \in SUBSET U /\ f[n] \subseteq C /\ C \in SUBSET U
      BY <1>2, <1>8, <2>2, <3>1 DEF Shut
    <3>4. NearIn(U, f[n]) \subseteq NearIn(U, C)
      BY <3>3 DEF NearIn
    <3> QED BY <1>8, <3>1, <3>2, <3>4 DEF Shut
  <2>3. 0..N \subseteq S
    <3> HIDE DEF S
    <3> QED BY <2>1, <2>2, InductionUpTo
  <2>4. N \in S
    <3> HIDE DEF S
    <3>1. N \in 0..N
      OBVIOUS
    <3> QED BY <2>3, <3>1
  <2> QED BY <2>4
<1> QED BY <1>1, <1>7, <1>8

LEMMA FlowComponentsAreCells ==
  ASSUME prob \in Problems, NEW U \in SUBSET Ops
  PROVE  Cells(FlowComponents(U), U)
<1>1. PICK N \in Nat : N = Cardinality(U)
  BY FiniteOps
<1>2. PICK ball : ball = [o \in U |-> CHOOSE f : Spreads(f, U, o)]
  OBVIOUS
<1>3. \A o \in U : Spreads(ball[o], U, o)
  <2>1. ASSUME NEW o \in U PROVE Spreads(ball[o], U, o)
    <3>1. \E f : Spreads(f, U, o)
      BY SpreadExists
    <3> QED BY <1>2, <3>1
  <2> QED BY <2>1
<1>4. PICK part : part = CHOOSE p : p = [n \in 0..N |-> IF n = 0 THEN {{o} : o \in U}
                                                      ELSE {NearIn(U, S) : S \in p[n - 1]}]
  OBVIOUS
<1>5. FlowComponents(U) = part[N]
  BY <1>1, <1>4 DEF FlowComponents, NearIn
<1> DEFINE Body(p) == [n \in 0..N |-> IF n = 0 THEN {{o} : o \in U}
                                      ELSE {NearIn(U, S) : S \in p[n - 1]}]
<1>6. \E p : p = Body(p)
  <2>1. PICK p : p = [n \in 0..N |-> {ball[o][n] : o \in U}]
    OBVIOUS
  <2>2. ASSUME NEW n \in 0..N
        PROVE  p[n] = IF n = 0 THEN {{o} : o \in U} ELSE {NearIn(U, S) : S \in p[n - 1]}
    <3>1. p[n] = {ball[o][n] : o \in U}
      BY <2>1
    <3>2. CASE n = 0
      <4>1. \A o \in U : ball[o][n] = {o}
        BY <1>3, <3>2 DEF Spreads
      <4>2. {ball[o][n] : o \in U} = {{o} : o \in U}
        BY ONLY <4>1
      <4> QED BY <3>1, <3>2, <4>2
    <3>3. CASE n # 0
      <4>1. n - 1 \in 0..N /\ n \in 1..N
        BY <3>3
      <4>2. p[n - 1] = {ball[o][n - 1] : o \in U}
        BY <2>1, <4>1
      <4>3. \A o \in U : ball[o][n] = NearIn(U, ball[o][n - 1])
        BY <1>1, <1>3, <4>1 DEF Spreads
      <4>4. {NearIn(U, S) : S \in p[n - 1]} = p[n]
        <5>1. ASSUME NEW C \in p[n] PROVE C \in {NearIn(U, S) : S \in p[n - 1]}
          <6>1. PICK o \in U : C = ball[o][n]
            BY <3>1, <5>1
          <6>2. ball[o][n - 1] \in p[n - 1]
            BY <4>2
          <6>3. C = NearIn(U, ball[o][n - 1])
            BY <4>3, <6>1
          <6> QED BY <6>2, <6>3
        <5>2. ASSUME NEW C \in {NearIn(U, S) : S \in p[n - 1]} PROVE C \in p[n]
          <6>1. PICK S \in p[n - 1] : C = NearIn(U, S)
            BY <5>2
          <6>2. PICK o \in U : S = ball[o][n - 1]
            BY <4>2, <6>1
          <6>3. C = ball[o][n]
            BY <4>3, <6>1, <6>2
          <6> QED BY <3>1, <6>3
        <5> QED BY <5>1, <5>2
      <4> QED BY <3>3, <4>4
    <3> QED BY <3>2, <3>3
  <2>3. p = Body(p)
    BY <2>1, <2>2
  <2> QED BY <2>3
<1>7. part = Body(part)
  <2> HIDE DEF Body
  <2>1. part = CHOOSE p : p = Body(p)
    BY <1>4 DEF Body
  <2> QED BY <1>6, <2>1
<1>8. part[0] = {{o} : o \in U} /\ \A n \in 1..N : part[n] = {NearIn(U, S) : S \in part[n - 1]}
  <2> DEFINE At(n) == IF n = 0 THEN {{o} : o \in U} ELSE {NearIn(U, S) : S \in part[n - 1]}
  <2>1. \A n \in 0..N : part[n] = At(n)
    <3>1. part = [n \in 0..N |-> At(n)]
      BY <1>7
    <3> HIDE DEF At
    <3> QED BY <3>1
  <2>2. 0 \in 0..N /\ \A n \in 1..N : n \in 0..N /\ n # 0
    OBVIOUS
  <2>3. part[0] = At(0) /\ \A n \in 1..N : part[n] = At(n) /\ n # 0
    <3> HIDE DEF At, Body
    <3> QED BY <2>1, <2>2
  <2>4. \A n \in 1..N : part[n] = {NearIn(U, S) : S \in part[n - 1]}
    <3>1. ASSUME NEW n \in 1..N PROVE part[n] = {NearIn(U, S) : S \in part[n - 1]}
      <4>1. part[n] = At(n) /\ n # 0
        BY ONLY <2>3
      <4> QED BY ONLY <4>1
    <3> QED BY ONLY <3>1
  <2>5. part[0] = {{o} : o \in U}
    BY ONLY <2>3
  <2> QED BY ONLY <2>4, <2>5
<1>9. part[N] = {ball[o][N] : o \in U}
  <2> DEFINE T == {n \in 0..N : part[n] = {ball[o][n] : o \in U}}
  <2> HIDE DEF Body
  <2>1. 0 \in T
    <3>1. \A o \in U : ball[o][0] = {o}
      BY <1>3 DEF Spreads
    <3>2. {{o} : o \in U} = {ball[o][0] : o \in U}
      BY ONLY <3>1
    <3>3. 0 \in 0..N
      OBVIOUS
    <3> QED BY ONLY <1>8, <3>2, <3>3
  <2>2. ASSUME NEW n \in 0..(N - 1), n \in T PROVE n + 1 \in T
    <3>1. n + 1 \in 1..N /\ (n + 1) - 1 = n
      OBVIOUS
    <3>2. part[n + 1] = {NearIn(U, S) : S \in part[n]}
      BY <1>8, <3>1
    <3>3. part[n] = {ball[o][n] : o \in U}
      BY <2>2
    <3>4. \A o \in U : ball[o][n + 1] = NearIn(U, ball[o][n])
      BY <1>1, <1>3, <3>1 DEF Spreads
    <3>5. part[n + 1] = {NearIn(U, ball[o][n]) : o \in U}
      BY <3>2, <3>3
    <3>6. part[n + 1] = {ball[o][n + 1] : o \in U}
      BY <3>4, <3>5
    <3> QED BY <3>1, <3>6
  <2>3. N \in T
    <3> HIDE DEF T
    <3>1. 0..N \subseteq T
      BY <2>1, <2>2, InductionUpTo
    <3>2. N \in 0..N
      OBVIOUS
    <3> QED BY <3>1, <3>2
  <2> QED BY <2>3
<1> HIDE DEF Body
<1>10. PICK reach : reach = [o \in U |-> ball[o][N]]
  OBVIOUS
<1>11. \A o \in U : /\ Shut(U, reach[o]) /\ o \in reach[o]
                   /\ \A C : Shut(U, C) /\ o \in C => reach[o] \subseteq C
  <2>1. ASSUME NEW o \in U
        PROVE  /\ Shut(U, reach[o]) /\ o \in reach[o]
               /\ \A C : Shut(U, C) /\ o \in C => reach[o] \subseteq C
    <3>1. Spreads(ball[o], U, o) /\ reach[o] = ball[o][Cardinality(U)]
      BY <1>1, <1>3, <1>10
    <3> QED BY <3>1, SpreadIsShut
  <2> QED BY <2>1
<1>12. PICK P : P = {reach[o] : o \in U}
  OBVIOUS
<1>13. P = FlowComponents(U)
  <2>1. \A o \in U : reach[o] = ball[o][N]
    BY <1>10
  <2> QED BY <1>5, <1>9, <1>12, <2>1
<1>14. P \in SUBSET ((SUBSET U) \ {{}})
  <2>1. ASSUME NEW C \in P PROVE C \in (SUBSET U) \ {{}}
    <3>1. PICK o \in U : C = reach[o]
      BY <1>12
    <3> QED BY <1>11, <3>1 DEF Shut
  <2> QED BY ONLY <2>1
<1>15. ASSUME NEW o \in U PROVE \E C \in P : o \in C
  <2>1. reach[o] \in P
    BY <1>12
  <2>2. o \in reach[o]
    BY <1>11
  <2> QED BY <2>1, <2>2
<1>16. ASSUME NEW o \in U, NEW v \in U, reach[o] \cap reach[v] # {}
       PROVE  reach[o] \subseteq reach[v]
  <2>1. Shut(U, U \ reach[v])
    BY <1>11, RestIsShut
  <2>2. CASE o \in U \ reach[v]
    <3>1. reach[o] \subseteq U \ reach[v]
      BY <1>11, <2>1, <2>2
    <3> QED BY <1>16, <3>1
  <2>3. CASE o \in reach[v]
    BY <1>11, <2>3
  <2> QED BY <2>2, <2>3
<1>17. ASSUME NEW C \in P, NEW D \in P, C \cap D # {} PROVE C = D
  <2>1. PICK o \in U, v \in U : C = reach[o] /\ D = reach[v]
    BY <1>12
  <2>2. reach[o] \cap reach[v] # {} /\ reach[v] \cap reach[o] # {}
    BY <1>17, <2>1
  <2>3. reach[o] \subseteq reach[v] /\ reach[v] \subseteq reach[o]
    BY <1>16, <2>2
  <2> QED BY ONLY <2>1, <2>3
<1> QED BY <1>13, <1>14, <1>15, <1>17 DEF Cells

-----------------------------------------------------------------------------
(* Patterns: components that share nothing.                                *)

Families == {P \in SUBSET ((SUBSET Ops) \ {{}}) :
               P # {} /\ \A C, D \in P : C \cap D # {} => C = D}

LEMMA FamilyFinite ==
  ASSUME NEW P \in SUBSET SUBSET Ops
  PROVE  IsFiniteSet(P) /\ Cardinality(P) \in Nat
<1>1. IsFiniteSet(SUBSET Ops)
  BY FiniteOps, FS_SUBSET
<1> QED BY <1>1, FS_Subset, FS_CardinalityType

LEMMA LeastIsIn ==
  ASSUME NEW S \in SUBSET Ops, S # {}
  PROVE  Least(S) \in S /\ \A u \in S : Least(S) <= u
<1>1. S \in SUBSET Nat
  BY FiniteOps
<1>2. \E x \in S : \A y \in S : x <= y
  BY <1>1, LeastNatural
<1> QED BY <1>2 DEF Least

LEMMA RankIsInt ==
  ASSUME rank \in HashOrders, NEW S \in SUBSET Ops, S # {}
  PROVE  RankOf(S) \in Int
<1>1. Least(S) \in Ops
  BY LeastIsIn
<1>2. rank \in [Ops -> Int]
  BY OrderAssumption
<1> QED BY <1>1, <1>2 DEF RankOf

LEMMA IsoClassesAreFamilies ==
  ASSUME prob \in Problems, NEW U \in SUBSET Ops, U # {}
  PROVE  /\ IsoClasses(U) # {}
         /\ IsoClasses(U) \subseteq Families
         /\ IsFiniteSet(IsoClasses(U))
<1>1. PICK comps : comps = FlowComponents(U)
  OBVIOUS
<1>2. PICK K : K = LocalHash(U)
  OBVIOUS
<1> DEFINE Same(C) == {D \in comps : \A k \in K : Cardinality(C \cap k) = Cardinality(D \cap k)}
<1>3. IsoClasses(U) = {Same(C) : C \in comps}
  BY <1>1, <1>2 DEF IsoClasses
<1>4. Cells(comps, U)
  BY <1>1, FlowComponentsAreCells
<1>5. ASSUME NEW C \in comps PROVE C \in Same(C) /\ Same(C) \subseteq comps
  OBVIOUS
<1>6. comps # {} /\ comps \in SUBSET ((SUBSET Ops) \ {{}})
  <2>1. PICK o \in U : TRUE
    OBVIOUS
  <2> QED BY <1>4, <2>1 DEF Cells
<1>7. ASSUME NEW C \in comps PROVE Same(C) \in Families
  <2>1. Same(C) # {} /\ Same(C) \subseteq comps
    BY <1>5
  <2> HIDE DEF Same
  <2> QED BY <1>4, <1>6, <2>1 DEF Families, Cells
<1> HIDE DEF Same
<1>8. IsoClasses(U) # {} /\ IsoClasses(U) \subseteq Families
  BY <1>3, <1>6, <1>7
<1>9. IsFiniteSet(IsoClasses(U))
  <2>1. IsFiniteSet(SUBSET SUBSET Ops)
    BY FiniteOps, FS_SUBSET
  <2>2. IsoClasses(U) \subseteq SUBSET SUBSET Ops
    BY <1>8 DEF Families
  <2> QED BY <2>1, <2>2, FS_Subset
<1> QED BY <1>8, <1>9

(* What is chosen is chosen from something: a largest class, and of those  *)
(* one whose hash comes first.                                             *)
LEMMA PatternIsFamily ==
  ASSUME prob \in Problems, rank \in HashOrders, NEW U \in SUBSET Ops, U # {}
  PROVE  Pattern(U) \in Families
<1>1. PICK K : K = IsoClasses(U)
  OBVIOUS
<1>2. K # {} /\ K \subseteq Families /\ IsFiniteSet(K)
  BY <1>1, IsoClassesAreFamilies
<1>3. ASSUME NEW P \in K PROVE Sym(P) \in Int /\ RankOf(UNION P) \in Int
  <2>1. P \in SUBSET SUBSET Ops /\ UNION P \in SUBSET Ops /\ UNION P # {}
    BY <1>2 DEF Families
  <2>2. Sym(P) \in Int
    BY <2>1, FamilyFinite DEF Sym
  <2> QED BY <2>1, <2>2, RankIsInt
<1>4. PICK sym : sym = [P \in K |-> Sym(P)]
  OBVIOUS
<1>5. PICK rk : rk = [P \in K |-> RankOf(UNION P)]
  OBVIOUS
<1>6. \A P \in K : sym[P] \in Int /\ rk[P] \in Int
  BY <1>3, <1>4, <1>5
<1>7. PICK V : V = {sym[P] : P \in K}
  OBVIOUS
<1>8. PICK x \in V : \A y \in V : y <= x
  <2>1. IsFiniteSet(V)
    BY <1>2, <1>7, ValuesFinite
  <2>2. V \in SUBSET Int /\ V # {}
    BY <1>2, <1>6, <1>7
  <2> QED BY <2>1, <2>2, GreatestExists
<1>9. PICK L : L = {P \in K : sym[P] = x}
  OBVIOUS
<1>10. L # {} /\ IsFiniteSet(L)
  <2>1. L # {}
    BY <1>7, <1>8, <1>9
  <2>2. L \subseteq K
    BY <1>9
  <2> QED BY <1>2, <2>1, <2>2, FS_Subset
<1>11. PICK W : W = {rk[P] : P \in L}
  OBVIOUS
<1>12. PICK w \in W : \A y \in W : w <= y
  <2>1. IsFiniteSet(W)
    BY <1>10, <1>11, ValuesFinite
  <2>2. W \in SUBSET Int /\ W # {}
    BY <1>6, <1>9, <1>10, <1>11
  <2> QED BY <2>1, <2>2, GreatestExists
<1>13. PICK P \in L : rk[P] = w
  BY <1>11, <1>12
<1>14. P \in K /\ \A Q \in K : sym[P] > sym[Q] \/ (sym[P] = sym[Q] /\ rk[P] <= rk[Q])
  <2>1. ASSUME NEW Q \in K
        PROVE  sym[P] > sym[Q] \/ (sym[P] = sym[Q] /\ rk[P] <= rk[Q])
    <3>1. P \in K /\ sym[P] = x /\ sym[Q] <= x
      BY <1>7, <1>8, <1>9
    <3>2. CASE sym[Q] = x
      <4>1. Q \in L
        BY <1>9, <3>2
      <4>2. rk[Q] \in W
        BY <1>11, <4>1
      <4> QED BY <1>12, <1>13, <3>1, <3>2, <4>2
    <3>3. CASE sym[Q] # x
      <4>1. sym[Q] \in Int /\ x \in Int
        BY <1>6, <3>1
      <4> QED BY ONLY <3>1, <3>3, <4>1
    <3> QED BY <3>2, <3>3
  <2> QED BY <1>9, <2>1
<1>15. PICK M : M = {R \in K : \A Q \in K :
                       \/ Sym(R) > Sym(Q)
                       \/ Sym(R) = Sym(Q) /\ RankOf(UNION R) <= RankOf(UNION Q)}
  OBVIOUS
<1>16. M # {}
  <2>1. P \in M
    BY <1>4, <1>5, <1>14, <1>15
  <2> QED BY <2>1
<1>17. Pattern(U) = CHOOSE R \in M : TRUE
  <2>1. UNION {{R \in classes : \A Q \in classes :
                   \/ Sym(R) > Sym(Q)
                   \/ Sym(R) = Sym(Q) /\ RankOf(UNION R) <= RankOf(UNION Q)}
               : classes \in {IsoClasses(U)}} = M
    BY ONLY <1>1, <1>15
  <2> QED BY ONLY <2>1 DEF Pattern
<1>18. Pattern(U) \in M
  BY <1>16, <1>17
<1> QED BY <1>2, <1>15, <1>18

-----------------------------------------------------------------------------
(* Detection                                                               *)

(* A super-node knows some ops and a pattern of theirs.                    *)
NodeOK(n) == n.ops \in (SUBSET Ops) \ {{}} /\ n.found \in Families

NodeList(q) == \E S : q \in Seq(S) /\ \A n \in S : NodeOK(n)

Hashes == merkle.fwd # {} => Cells(merkle.fwd, Ops) /\ Cells(merkle.all, Ops)

DetectInv ==
  /\ prob \in Problems
  /\ rank \in HashOrders
  /\ Hashes
  /\ phase # 0 => merkle.fwd # {}
  /\ NodeList(nodes)
  /\ tracked \in Seq(Families)
  /\ patterns \subseteq Families
  /\ NothingLost

LEMMA NodeListMember ==
  ASSUME NEW q, NodeList(q)
  PROVE  /\ Len(q) \in Nat /\ DOMAIN q = 1..Len(q)
         /\ \A i \in DOMAIN q : NodeOK(q[i])
<1>1. PICK S : q \in Seq(S) /\ \A n \in S : NodeOK(n)
  BY DEF NodeList
<1>2. Len(q) \in Nat /\ DOMAIN q = 1..Len(q) /\ \A i \in DOMAIN q : q[i] \in S
  BY <1>1
<1> QED BY <1>1, <1>2

LEMMA SinglesAreFamily ==
  ASSUME NEW O \in SUBSET Ops, O # {}
  PROVE  {{o} : o \in O} \in Families
<1>1. PICK F : F = {{o} : o \in O}
  OBVIOUS
<1>2. F \in SUBSET ((SUBSET Ops) \ {{}})
  BY <1>1
<1>3. F # {}
  BY <1>1
<1>4. ASSUME NEW C \in F, NEW D \in F, C \cap D # {} PROVE C = D
  BY <1>1, <1>4
<1> QED BY <1>1, <1>2, <1>3, <1>4 DEF Families

LEMMA JoinedIsNode ==
  ASSUME prob \in Problems, rank \in HashOrders, NEW a, NEW b, NodeOK(a), NodeOK(b)
  PROVE  NodeOK(Joined(a, b))
<1>1. PICK U : U = a.ops \cup b.ops
  OBVIOUS
<1>2. U \in SUBSET Ops /\ U # {}
  BY <1>1 DEF NodeOK
<1>3. Pattern(U) \in Families
  BY <1>2, PatternIsFamily
<1>4. Joined(a, b).ops = U /\ Joined(a, b).found = Pattern(U)
  BY <1>1 DEF Joined
<1> QED BY <1>2, <1>3, <1>4 DEF NodeOK

(* The super-nodes that replace two of them.                               *)
LEMMA MergedIsNodeList ==
  ASSUME NEW q, NodeList(q), NEW i \in DOMAIN q, NEW j \in DOMAIN q, i < j,
         NEW n, NodeOK(n)
  PROVE  NodeList(Append(RemoveAt(RemoveAt(q, j), i), n))
<1>1. PICK S : q \in Seq(S) /\ \A m \in S : NodeOK(m)
  BY DEF NodeList
<1>2. PICK T : T = S \cup {n}
  OBVIOUS
<1>3. \A m \in T : NodeOK(m)
  BY <1>1, <1>2
<1>4. q \in Seq(T) /\ n \in T
  BY <1>1, <1>2
<1>5. ASSUME NEW s \in Seq(T), NEW k \in 1..Len(s)
      PROVE  RemoveAt(s, k) \in Seq(T) /\ Len(RemoveAt(s, k)) = Len(s) - 1
  <2>1. SubSeq(s, 1, k - 1) \in Seq(T) /\ Len(SubSeq(s, 1, k - 1)) = k - 1
    OBVIOUS
  <2>2. SubSeq(s, k + 1, Len(s)) \in Seq(T) /\ Len(SubSeq(s, k + 1, Len(s))) = Len(s) - k
    OBVIOUS
  <2>3. PICK A \in Seq(T), B \in Seq(T) : A = SubSeq(s, 1, k - 1) /\ B = SubSeq(s, k + 1, Len(s))
    BY <2>1, <2>2
  <2>4. RemoveAt(s, k) = A \o B
    BY ONLY <2>3 DEF RemoveAt
  <2>5. A \o B \in Seq(T) /\ Len(A \o B) = Len(A) + Len(B)
    OBVIOUS
  <2>6. Len(s) \in Nat /\ k \in Nat /\ Len(A) = k - 1 /\ Len(B) = Len(s) - k
    BY <2>1, <2>2, <2>3
  <2>7. Len(A) + Len(B) = Len(s) - 1
    BY ONLY <2>6
  <2> QED BY ONLY <2>4, <2>5, <2>7
<1>6. i \in 1..Len(q) /\ j \in 1..Len(q)
  BY <1>4
<1>7. PICK r : r = RemoveAt(q, j)
  OBVIOUS
<1>8. r \in Seq(T) /\ Len(r) = Len(q) - 1
  BY <1>4, <1>5, <1>6, <1>7
<1>9. i \in 1..Len(r)
  BY <1>4, <1>6, <1>8
<1>10. RemoveAt(r, i) \in Seq(T)
  BY <1>5, <1>8, <1>9
<1>11. Append(RemoveAt(r, i), n) \in Seq(T)
  BY <1>4, <1>10
<1> QED BY <1>3, <1>7, <1>11 DEF NodeList

LEMMA TrackTyped ==
  ASSUME NEW n, NodeOK(n)
  PROVE  Track(n) \in Seq(Families)
  BY DEF Track, NodeOK

(* A flattened sequence grows piece by piece.                              *)
Flattens(r, s, E) ==
  /\ r \in [0..Len(s) -> Seq(E)]
  /\ r[0] = <<>>
  /\ \A n \in 1..Len(s) : r[n] = r[n - 1] \o s[n]

LEMMA FlattenGrows ==
  ASSUME NEW E, NEW s \in Seq(Seq(E))
  PROVE  \E r : Flattens(r, s, E) /\ FlattenSeq(s) = r[Len(s)]
<1>1. PICK D : D = Seq(E)
  OBVIOUS
<1>2. PICK N \in Nat : N = Len(s)
  OBVIOUS
<1>3. \A i \in 1..N : s[i] \in D
  BY <1>1, <1>2
<1>4. \A x, y \in D : x \o y \in D
  BY <1>1
<1>5. <<>> \in D
  BY <1>1
<1>6. PICK F : F = [p \in Nat \X D |-> IF p[1] \in 1..N THEN p[2] \o s[p[1]] ELSE p[2]]
  OBVIOUS
<1>7. F \in [Nat \X D -> D]
  BY <1>3, <1>4, <1>6
<1>8. PICK r : Iterates(r, N, D, <<>>, F)
  BY <1>5, <1>7, IterationExists
<1>9. r \in [0..N -> D] /\ r[0] = <<>>
  BY <1>8 DEF Iterates
<1>10. ASSUME NEW n \in 1..N PROVE r[n] = r[n - 1] \o s[n]
  <2>1. n \in Nat /\ n - 1 \in 0..N
    OBVIOUS
  <2>2. r[n] = F[<<n, r[n - 1]>>]
    BY <1>8 DEF Iterates
  <2>3. r[n - 1] \in D
    BY <1>9, <2>1
  <2>4. <<n, r[n - 1]>> \in Nat \X D
    BY <2>1, <2>3
  <2> QED BY ONLY <1>6, <2>2, <2>4
<1>11. Flattens(r, s, E)
  BY <1>1, <1>2, <1>9, <1>10 DEF Flattens
<1>12. CASE N = 0
  <2>1. s = <<>>
    <3>1. s \in Seq(D) /\ Len(s) = 0
      BY <1>1, <1>2, <1>12
    <3> QED BY ONLY <3>1
  <2>2. FlattenSeq(s) = s
    BY <1>2, <1>12 DEF FlattenSeq
  <2>3. FlattenSeq(s) = r[Len(s)]
    BY <1>2, <1>9, <1>12, <2>1, <2>2
  <2> QED BY <1>11, <2>3
<1>13. CASE N # 0
  <2> DEFINE Body(f) == [i \in 1..N |-> IF i = 1 THEN s[i] ELSE f[i - 1] \o s[i]]
  <2>1. r[1] = s[1]
    <3>2. 1 \in 1..N /\ 1 - 1 = 0
      BY <1>13
    <3>1. r[1] = r[0] \o s[1]
      BY <1>10, <3>2
    <3>3. s[1] \in Seq(E)
      BY <1>1, <1>3, <3>2
    <3>4. <<>> \o s[1] = s[1]
      BY ONLY <3>3
    <3> QED BY <1>9, <3>1, <3>4
  <2>2. \E g : g = Body(g)
    <3>1. PICK g : g = [i \in 1..N |-> r[i]]
      OBVIOUS
    <3>2. ASSUME NEW i \in 1..N
          PROVE  g[i] = IF i = 1 THEN s[i] ELSE g[i - 1] \o s[i]
      <4>1. i # 1 => i - 1 \in 1..N
        OBVIOUS
      <4>2. g[i] = r[i] /\ (i # 1 => g[i - 1] = r[i - 1])
        BY <3>1, <4>1
      <4>3. i # 1 => r[i] = r[i - 1] \o s[i]
        BY <1>10
      <4>4. i = 1 => r[i] = s[i]
        BY <2>1
      <4> QED BY ONLY <4>2, <4>3, <4>4
    <3>3. g = Body(g)
      BY <3>1, <3>2
    <3> QED BY <3>3
  <2> DEFINE t == CHOOSE g : g = Body(g)
  <2>3. t = Body(t)
    BY <2>2, Zenon
  <2>4. FlattenSeq(s) = t[N]
    BY <1>2, <1>13 DEF FlattenSeq
  <2> HIDE DEF t
  <2>5. ASSUME NEW i \in 1..N PROVE t[i] = IF i = 1 THEN s[i] ELSE t[i - 1] \o s[i]
    <3>1. Body(t)[i] = IF i = 1 THEN s[i] ELSE t[i - 1] \o s[i]
      OBVIOUS
    <3>2. t[i] = Body(t)[i]
      <4> HIDE DEF Body
      <4> QED BY <2>3
    <3> HIDE DEF Body
    <3> QED BY <3>1, <3>2
  <2> DEFINE S == {n \in Nat : n \in 1..N => t[n] = r[n]}
  <2>6. 0 \in S
    OBVIOUS
  <2>7. ASSUME NEW n \in 0..(N - 1), n \in S PROVE n + 1 \in S
    <3>1. n + 1 \in 1..N /\ (n + 1) - 1 = n /\ n + 1 \in Nat /\ (n = 0 \/ n \in 1..N)
      OBVIOUS
    <3>2. t[n + 1] = IF n = 0 THEN s[n + 1] ELSE t[n] \o s[n + 1]
      BY <2>5, <3>1
    <3>3. r[n + 1] = r[n] \o s[n + 1]
      BY <1>10, <3>1
    <3>4. n \in 1..N => t[n] = r[n]
      BY <2>7
    <3>5. t[n + 1] = r[n + 1]
      <4>1. CASE n = 0
        BY <2>1, <3>2, <4>1
      <4>2. CASE n # 0
        BY <3>1, <3>2, <3>3, <3>4, <4>2
      <4> QED BY <4>1, <4>2
    <3> QED BY <3>1, <3>5
  <2>8. 0..N \subseteq S
    <3> HIDE DEF S
    <3> QED BY <2>6, <2>7, InductionUpTo
  <2>9. N \in 0..N /\ N \in 1..N
    BY <1>13
  <2>10. t[N] = r[N]
    BY <2>8, <2>9
  <2> QED BY <1>2, <1>11, <2>4, <2>10
<1> QED BY <1>12, <1>13

LEMMA FlattenIsSeq ==
  ASSUME NEW E, NEW s \in Seq(Seq(E))
  PROVE  FlattenSeq(s) \in Seq(E)
<1>1. PICK r : Flattens(r, s, E) /\ FlattenSeq(s) = r[Len(s)]
  BY FlattenGrows
<1>2. Len(s) \in 0..Len(s)
  OBVIOUS
<1> QED BY <1>1, <1>2 DEF Flattens

LEMMA OrbitIsNode ==
  ASSUME NEW O \in SUBSET Ops, O # {}
  PROVE  NodeOK(OrbitNode(O)) /\ OrbitNode(O).ops = O
<1>1. OrbitNode(O).ops = O /\ OrbitNode(O).found = {{o} : o \in O}
  BY DEF OrbitNode
<1> QED BY <1>1, SinglesAreFamily DEF NodeOK

LEMMA SubsetsFinite ==
  ASSUME NEW F \in SUBSET SUBSET Ops
  PROVE  IsFiniteSet(F)
  BY FamilyFinite

-----------------------------------------------------------------------------
(* The dominance filter.                                                   *)

LEMMA DominatesOrders ==
  /\ \A P \in Families : Dominates(P, P)
  /\ \A P, Q, R \in Families : Dominates(P, Q) /\ Dominates(Q, R) => Dominates(P, R)
<1>1. ASSUME NEW P \in Families PROVE Sym(P) \in Int /\ CompSize(P) \in Int
  <2>1. P \in SUBSET SUBSET Ops /\ P # {}
    BY DEF Families
  <2>2. Sym(P) \in Int
    BY <2>1, FamilyFinite DEF Sym
  <2>3. PICK C \in P : C = CHOOSE D \in P : TRUE
    BY <2>1
  <2>4. C \in SUBSET Ops
    BY <2>1
  <2>5. Cardinality(C) \in Int
    BY <2>4, FiniteOps
  <2>6. CompSize(P) = Cardinality(C)
    BY ONLY <2>3 DEF CompSize
  <2> QED BY <2>2, <2>5, <2>6
<1>2. ASSUME NEW P \in Families PROVE Dominates(P, P)
  BY <1>1 DEF Dominates
<1>3. ASSUME NEW P \in Families, NEW Q \in Families, NEW R \in Families,
             Dominates(P, Q), Dominates(Q, R)
      PROVE  Dominates(P, R)
  <2>1. /\ Sym(P) >= Sym(Q) /\ Sym(Q) >= Sym(R)
        /\ CompSize(P) >= CompSize(Q) /\ CompSize(Q) >= CompSize(R)
        /\ UNION R \subseteq UNION P
    BY <1>3 DEF Dominates
  <2>2. /\ Sym(P) \in Int /\ Sym(Q) \in Int /\ Sym(R) \in Int
        /\ CompSize(P) \in Int /\ CompSize(Q) \in Int /\ CompSize(R) \in Int
    BY <1>1
  <2>3. Sym(P) >= Sym(R) /\ CompSize(P) >= CompSize(R)
    BY ONLY <2>1, <2>2
  <2> QED BY <2>1, <2>3 DEF Dominates
<1> QED BY <1>2, <1>3

LEMMA FilterKeeps ==
  ASSUME NEW list \in Seq(Families)
  PROVE  /\ Undominated(list) \subseteq Families
         /\ \A i \in DOMAIN list : \E Q \in Undominated(list) : Dominates(Q, list[i])
<1>1. PICK N \in Nat : N = Len(list) /\ DOMAIN list = 1..N
  OBVIOUS
<1>2. \A i \in 1..N : list[i] \in Families
  BY <1>1
<1>3. PICK dom : dom = {p \in (1..N) \X (1..N) : Dominates(list[p[1]], list[p[2]])}
  OBVIOUS
<1>4. \A i, j \in 1..N : <<i, j>> \in dom <=> Dominates(list[i], list[j])
  BY <1>3
<1>5. /\ \A i \in 1..N : <<i, i>> \in dom
      /\ \A i, j, k \in 1..N : <<i, j>> \in dom /\ <<j, k>> \in dom => <<i, k>> \in dom
  BY <1>2, <1>4, DominatesOrders
<1> DEFINE Scan(out, n) == IF \E j \in (1..N) \ (out \cup {n}) : <<j, n>> \in dom
                           THEN out \cup {n} ELSE out
           Raw(out, n) == IF \E j \in (DOMAIN list) \ (out \cup {n}) : Dominates(list[j], list[n])
                          THEN out \cup {n} ELSE out
           Body(d) == [n \in 0..Len(list) |->
                         IF n = 0 THEN {} ELSE UNION {Raw(out, n) : out \in {d[n - 1]}}]
<1>6. PICK D : D = SUBSET (1..N)
  OBVIOUS
<1>7. PICK F : F = [p \in Nat \X D |-> IF p[1] \in 1..N THEN Scan(p[2], p[1]) ELSE p[2]]
  OBVIOUS
<1>8. F \in [Nat \X D -> D]
  BY <1>6, <1>7
<1>9. PICK r : Iterates(r, N, D, {}, F)
  <2>1. {} \in D
    BY <1>6
  <2> QED BY <1>8, <2>1, IterationExists
<1>10. r \in [0..N -> D] /\ r[0] = {}
  BY <1>9 DEF Iterates
<1>11. ASSUME NEW n \in 1..N PROVE r[n] = Scan(r[n - 1], n)
  <2>1. n \in Nat /\ n - 1 \in 0..N
    OBVIOUS
  <2>2. r[n] = F[<<n, r[n - 1]>>] /\ r[n - 1] \in D
    BY <1>9, <2>1 DEF Iterates
  <2>3. <<n, r[n - 1]>> \in Nat \X D
    BY <2>1, <2>2
  <2> HIDE DEF Scan
  <2> QED BY ONLY <1>7, <2>2, <2>3
<1>12. ASSUME NEW e, NEW n \in 1..N PROVE UNION {Raw(out, n) : out \in {e}} = Scan(e, n)
  <2>1. Raw(e, n) = Scan(e, n)
    BY <1>1, <1>4
  <2> HIDE DEF Raw, Scan
  <2> QED BY ONLY <2>1
<1>13. \E d : d = Body(d)
  <2> HIDE DEF Raw, Scan
  <2>1. ASSUME NEW n \in 0..N
        PROVE  r[n] = IF n = 0 THEN {} ELSE UNION {Raw(out, n) : out \in {r[n - 1]}}
    <3>1. n # 0 => n \in 1..N
      OBVIOUS
    <3>2. n # 0 => r[n] = UNION {Raw(out, n) : out \in {r[n - 1]}}
      BY <1>11, <1>12, <3>1
    <3> QED BY <1>10, <3>2
  <2>2. r = Body(r)
    BY <1>1, <1>10, <2>1
  <2> QED BY <2>2
<1> DEFINE d == CHOOSE e : e = Body(e)
<1>14. d = Body(d)
  BY <1>13, Zenon
<1>15. Undominated(list) = {list[i] : i \in (DOMAIN list) \ d[Len(list)]}
  BY DEF Undominated
<1> HIDE DEF d
<1>16. d[0] = {} /\ \A n \in 1..N : d[n] = Scan(d[n - 1], n)
  <2> DEFINE At(n) == IF n = 0 THEN {} ELSE UNION {Raw(out, n) : out \in {d[n - 1]}}
  <2>1. d = [n \in 0..N |-> At(n)]
    BY <1>1, <1>14
  <2> HIDE DEF Raw, Scan, Body
  <2>2. \A n \in 0..N : d[n] = At(n)
    <3> HIDE DEF At
    <3> QED BY <2>1
  <2>3. 0 \in 0..N /\ \A n \in 1..N : n \in 0..N /\ n # 0
    OBVIOUS
  <2>4. d[0] = {}
    BY ONLY <2>2, <2>3
  <2>5. ASSUME NEW n \in 1..N PROVE d[n] = Scan(d[n - 1], n)
    <3>1. d[n] = UNION {Raw(out, n) : out \in {d[n - 1]}}
      BY ONLY <2>2, <2>3
    <3> QED BY <1>12, <3>1
  <2> QED BY <2>4, <2>5
<1> HIDE DEF Body, Raw
<1> DEFINE Served(n) == \A i \in 1..N : \E j \in (1..N) \ d[n] : <<j, i>> \in dom
           S == {n \in Nat : Served(n)}
<1>17. 0 \in S
  BY <1>5, <1>16
<1>18. ASSUME NEW n \in 0..(N - 1), n \in S PROVE n + 1 \in S
  <2>1. n + 1 \in 1..N /\ (n + 1) - 1 = n /\ n + 1 \in Nat
    OBVIOUS
  <2>2. PICK m : m = n + 1
    OBVIOUS
  <2>3. d[m] = Scan(d[n], m) /\ m \in 1..N
    BY <1>16, <2>1, <2>2
  <2>4. ASSUME NEW i \in 1..N PROVE \E j \in (1..N) \ d[m] : <<j, i>> \in dom
    <3>1. PICK k \in (1..N) \ d[n] : <<k, i>> \in dom
      BY <1>18
    <3>2. CASE \E j \in (1..N) \ (d[n] \cup {m}) : <<j, m>> \in dom
      <4>1. d[m] = d[n] \cup {m}
        BY <2>3, <3>2
      <4>2. CASE k = m
        <5>1. PICK j \in (1..N) \ (d[n] \cup {m}) : <<j, m>> \in dom
          BY <3>2
        <5>2. <<j, i>> \in dom
          BY <1>5, <2>3, <3>1, <4>2, <5>1
        <5> QED BY <4>1, <5>1, <5>2
      <4>3. CASE k # m
        BY <3>1, <4>1, <4>3
      <4> QED BY <4>2, <4>3
    <3>3. CASE ~\E j \in (1..N) \ (d[n] \cup {m}) : <<j, m>> \in dom
      <4>1. d[m] = d[n]
        BY <2>3, <3>3
      <4> QED BY <3>1, <4>1
    <3> QED BY <3>2, <3>3
  <2> QED BY <2>1, <2>2, <2>4
<1>19. Served(N)
  <2>1. 0..N \subseteq S
    <3> HIDE DEF S
    <3> QED BY <1>17, <1>18, InductionUpTo
  <2>2. N \in 0..N
    OBVIOUS
  <2> QED BY <2>1, <2>2
<1>20. ASSUME NEW i \in 1..N PROVE \E Q \in Undominated(list) : Dominates(Q, list[i])
  <2>1. PICK j \in (1..N) \ d[N] : <<j, i>> \in dom
    BY <1>19
  <2>2. list[j] \in Undominated(list)
    BY <1>1, <1>15
  <2> QED BY <1>4, <2>1, <2>2
<1>21. Undominated(list) \subseteq Families
  BY <1>1, <1>2, <1>15
<1> QED BY <1>1, <1>20, <1>21

-----------------------------------------------------------------------------
(* The steps of the detection.                                             *)

LEMMA CellsAreOps ==
  ASSUME NEW F, Cells(F, Ops)
  PROVE  /\ F \in SUBSET SUBSET Ops
         /\ \A C \in F : C \in SUBSET Ops /\ C # {}
         /\ \A C, D \in F : C # D => C \cap D = {}
  BY DEF Cells

LEMMA DetectInvNext ==
  ASSUME prob' \in Problems, rank' \in HashOrders, Hashes', phase' # 0 => merkle'.fwd # {},
         NodeList(nodes'), tracked' \in Seq(Families), patterns' \subseteq Families, NothingLost'
  PROVE  DetectInv'
<1>1. NodeList(nodes)' = NodeList(nodes')
  BY DEF NodeList, NodeOK, Families
<1>2. (tracked \in Seq(Families))' = (tracked' \in Seq(Families))
  BY DEF Families
<1>3. (patterns \subseteq Families)' = (patterns' \subseteq Families)
  BY DEF Families
<1> QED BY <1>1, <1>2, <1>3 DEF DetectInv

LEMMA HashKeepsDetectInv ==
  ASSUME DetectInv, Hash, UNCHANGED prob
  PROVE  DetectInv'
<1>1. merkle' = [fwd |-> Forward, all |-> Combined(Forward, Backward)]
      /\ phase = 0 /\ UNCHANGED <<rank, nodes, phase, tracked, patterns>>
  BY DEF Hash
<1>2. Cells(Forward, Ops) /\ Cells(Combined(Forward, Backward), Ops)
  BY ForwardCells, BackwardCells, CombinedCells DEF DetectInv
<1>3. PICK F, A : F = Forward /\ A = Combined(Forward, Backward)
  OBVIOUS
<1>4. merkle' = [fwd |-> F, all |-> A] /\ Cells(F, Ops) /\ Cells(A, Ops)
  BY <1>1, <1>2, <1>3
<1>5. Hashes'
  BY ONLY <1>4 DEF Hashes, Cells
<1>6. NothingLost'
  BY <1>1 DEF NothingLost
<1> QED BY <1>1, <1>5, <1>6, DetectInvNext DEF DetectInv

(* The orbits in the order of their hashes.                                *)
LEMMA OrbitsAreListed ==
  ASSUME prob \in Problems, rank \in HashOrders, Cells(merkle.fwd, Ops)
  PROVE  NodeList(Sorted({OrbitNode(O) : O \in merkle.fwd},
                         LAMBDA m, n : RankOf(m.ops) < RankOf(n.ops)))
<1>1. PICK F : F = merkle.fwd
  OBVIOUS
<1>2. \A O \in F : O \in SUBSET Ops /\ O # {}
  BY <1>1, CellsAreOps
<1>3. PICK h : h = [O \in F |-> OrbitNode(O)]
  OBVIOUS
<1>4. PICK G : G = {h[O] : O \in F}
  OBVIOUS
<1>5. G = {OrbitNode(O) : O \in merkle.fwd}
  BY <1>1, <1>3, <1>4
<1>6. IsFiniteSet(G)
  <2>1. IsFiniteSet(F)
    BY <1>1, CellsAreOps, SubsetsFinite
  <2> QED BY <1>4, <2>1, ValuesFinite
<1>7. ASSUME NEW n \in G PROVE NodeOK(n) /\ n.ops \in F /\ n = h[n.ops]
  <2>1. PICK O \in F : n = h[O]
    BY <1>4
  <2>2. n = OrbitNode(O)
    BY <1>3, <2>1
  <2>3. NodeOK(n) /\ n.ops = O
    BY <1>2, <2>2, OrbitIsNode
  <2> QED BY <2>1, <2>3
<1>8. PICK rk : rk = [n \in G |-> RankOf(n.ops)]
  OBVIOUS
<1>9. \A n \in G : rk[n] \in Int
  <2>1. ASSUME NEW n \in G PROVE rk[n] \in Int
    <3>1. n.ops \in SUBSET Ops /\ n.ops # {}
      BY <1>2, <1>7
    <3> QED BY <1>8, <3>1, RankIsInt
  <2> QED BY <2>1
<1>10. ASSUME NEW m \in G, NEW n \in G, rk[m] = rk[n] PROVE m = n
  <2>1. m.ops \in F /\ n.ops \in F
    BY <1>7
  <2>2. m.ops \in SUBSET Ops /\ m.ops # {} /\ n.ops \in SUBSET Ops /\ n.ops # {}
    BY <1>2, <2>1
  <2>3. Least(m.ops) \in m.ops /\ Least(n.ops) \in n.ops
    BY <2>2, LeastIsIn
  <2>4. rank[Least(m.ops)] = rank[Least(n.ops)]
    BY <1>8, <1>10 DEF RankOf
  <2>5. Least(m.ops) = Least(n.ops)
    BY <2>2, <2>3, <2>4, OrderAssumption
  <2>6. m.ops = n.ops
    BY <1>1, <2>1, <2>3, <2>5, CellsAreOps
  <2> QED BY <1>7, <2>6
<1>11. PICK R : R = NumberOrder(G, rk)
  OBVIOUS
<1>12. Orders(R, G) /\ \A x \in G : Below(G, R, x) = {y \in G : rk[y] < rk[x]}
  BY <1>9, <1>10, <1>11, RanksOrder
<1>13. PICK q : q = [i \in 1..Cardinality(G) |-> CHOOSE x \in G : Cardinality(Below(G, R, x)) = i - 1]
  OBVIOUS
<1>14. Enumerates(q, G)
  BY <1>6, <1>12, <1>13, CountedIsList
<1>15. q = Sorted(G, LAMBDA m, n : RankOf(m.ops) < RankOf(n.ops))
  <2> DEFINE Count(x) == Cardinality({y \in G : RankOf(y.ops) < RankOf(x.ops)})
  <2>1. \A x \in G : Cardinality(Below(G, R, x)) = Count(x)
    BY <1>8, <1>12
  <2>2. Sorted(G, LAMBDA m, n : RankOf(m.ops) < RankOf(n.ops))
        = [i \in 1..Cardinality(G) |-> CHOOSE x \in G : Count(x) = i - 1]
    BY DEF Sorted
  <2> HIDE DEF Count
  <2>3. ASSUME NEW i \in 1..Cardinality(G)
        PROVE  (CHOOSE x \in G : Cardinality(Below(G, R, x)) = i - 1)
               = (CHOOSE x \in G : Count(x) = i - 1)
    BY ONLY <2>1
  <2> QED BY ONLY <1>13, <2>2, <2>3
<1>16. q \in Seq(G) /\ \A n \in G : NodeOK(n)
  BY <1>7, <1>14 DEF Enumerates
<1>17. NodeList(q)
  BY <1>16 DEF NodeList
<1> QED BY <1>5, <1>15, <1>17

LEMMA OrbitsKeepDetectInv ==
  ASSUME DetectInv, FormOrbits, UNCHANGED prob
  PROVE  DetectInv'
<1>1. PICK q : q = Sorted({OrbitNode(O) : O \in merkle.fwd},
                          LAMBDA m, n : RankOf(m.ops) < RankOf(n.ops))
  OBVIOUS
<1>2. nodes' = q /\ phase' = 1 /\ UNCHANGED <<rank, merkle, tracked, patterns>> /\ merkle.fwd # {}
  BY <1>1 DEF FormOrbits
<1>3. NodeList(q)
  BY <1>1, <1>2, OrbitsAreListed DEF DetectInv, Hashes
<1>4. Hashes' /\ NothingLost'
  BY <1>2 DEF DetectInv, Hashes, Cells, NothingLost
<1> QED BY <1>2, <1>3, <1>4, DetectInvNext DEF DetectInv

LEMMA MergeKeepsDetectInv ==
  ASSUME DetectInv, MergeNodes, UNCHANGED prob
  PROVE  DetectInv'
<1>1. PICK c \in Pairings :
        /\ tracked' = tracked \o Track(nodes[c.a]) \o Track(nodes[c.b]) \o Track(c.node)
        /\ nodes' = Append(RemoveAt(RemoveAt(nodes, c.b), c.a), c.node)
        /\ UNCHANGED <<rank, merkle, phase, patterns>>
        /\ phase \in {1, 2}
  BY DEF MergeNodes, Best
<1>2. c.a \in DOMAIN nodes /\ c.b \in DOMAIN nodes /\ c.a < c.b /\ c.node = Joined(nodes[c.a], nodes[c.b])
  BY DEF Pairings
<1>3. PICK i \in DOMAIN nodes, j \in DOMAIN nodes : i = c.a /\ j = c.b
  BY <1>2
<1>4. PICK n : n = c.node
  OBVIOUS
<1>5. NodeOK(nodes[i]) /\ NodeOK(nodes[j])
  BY NodeListMember DEF DetectInv
<1>6. NodeOK(n)
  BY <1>2, <1>3, <1>4, <1>5, JoinedIsNode DEF DetectInv
<1>7. nodes' = Append(RemoveAt(RemoveAt(nodes, j), i), n)
  BY <1>1, <1>3, <1>4
<1>8. NodeList(nodes')
  <2>1. PICK q : q = nodes
    OBVIOUS
  <2>2. NodeList(q) /\ i \in DOMAIN q /\ j \in DOMAIN q /\ i < j
    BY <1>2, <1>3, <2>1 DEF DetectInv
  <2>3. NodeList(Append(RemoveAt(RemoveAt(q, j), i), n))
    BY <1>6, <2>2, MergedIsNodeList
  <2> QED BY <1>7, <2>1, <2>3
<1>9. tracked' \in Seq(Families)
  <2>1. PICK D : D = Families
    OBVIOUS
  <2>2. PICK s, t, u : s = Track(nodes[i]) /\ t = Track(nodes[j]) /\ u = Track(n)
    OBVIOUS
  <2>3. s \in Seq(D) /\ t \in Seq(D) /\ u \in Seq(D)
    BY <1>5, <1>6, <2>1, <2>2, TrackTyped
  <2>4. tracked \in Seq(D)
    BY <2>1 DEF DetectInv
  <2>5. tracked' = tracked \o s \o t \o u
    BY <1>1, <1>3, <1>4, <2>2
  <2>6. tracked' \in Seq(D)
    BY ONLY <2>3, <2>4, <2>5
  <2> QED BY <2>1, <2>6
<1>10. Hashes' /\ NothingLost'
  BY <1>1 DEF DetectInv, Hashes, Cells, NothingLost
<1> QED BY <1>1, <1>8, <1>9, <1>10, DetectInvNext DEF DetectInv

LEMMA PhaseKeepsDetectInv ==
  ASSUME DetectInv, NextPhase, UNCHANGED prob
  PROVE  DetectInv'
<1>1. UNCHANGED <<rank, merkle, nodes, tracked, patterns>> /\ phase \in {1, 2} /\ phase' = phase + 1
  BY DEF NextPhase
<1>2. phase' # 4 /\ phase # 0
  BY <1>1
<1>3. Hashes' /\ NothingLost'
  BY <1>1, <1>2 DEF DetectInv, Hashes, Cells, NothingLost
<1> QED BY <1>1, <1>2, <1>3, DetectInvNext DEF DetectInv

LEMMA ReportKeepsDetectInv ==
  ASSUME DetectInv, Report, UNCHANGED prob
  PROVE  DetectInv'
<1>1. PICK D : D = Families
  OBVIOUS
<1>2. PICK s : s = [i \in DOMAIN nodes |-> Track(nodes[i])]
  OBVIOUS
<1>3. s \in Seq(Seq(D))
  <2>1. Len(nodes) \in Nat /\ DOMAIN nodes = 1..Len(nodes)
    BY NodeListMember DEF DetectInv
  <2>2. \A i \in DOMAIN nodes : Track(nodes[i]) \in Seq(D)
    <3>1. \A i \in DOMAIN nodes : NodeOK(nodes[i])
      <4>1. NodeList(nodes)
        BY DEF DetectInv
      <4> QED BY <4>1, NodeListMember
    <3>2. ASSUME NEW i \in DOMAIN nodes PROVE Track(nodes[i]) \in Seq(D)
      <4>1. NodeOK(nodes[i])
        BY <3>1
      <4> QED BY <1>1, <4>1, TrackTyped
    <3> QED BY <3>2
  <2>3. PICK E : E = Seq(D)
    OBVIOUS
  <2>4. PICK N \in Nat : DOMAIN nodes = 1..N
    BY <2>1
  <2>5. s \in [1..N -> E]
    BY <1>2, <2>2, <2>3, <2>4
  <2>6. s \in Seq(E)
    BY ONLY <2>5, N \in Nat
  <2> QED BY <2>3, <2>6
<1>4. FlattenSeq(s) \in Seq(D)
  BY <1>3, FlattenIsSeq
<1>5. PICK list : list = tracked \o FlattenSeq(s)
  OBVIOUS
<1>6. list \in Seq(D)
  <2>1. PICK t : t = FlattenSeq(s)
    OBVIOUS
  <2>2. tracked \in Seq(D) /\ t \in Seq(D) /\ list = tracked \o t
    BY <1>1, <1>4, <1>5, <2>1 DEF DetectInv
  <2> QED BY ONLY <2>2
<1>7. /\ tracked' = list /\ patterns' = Undominated(list)
      /\ UNCHANGED <<rank, merkle, nodes>> /\ phase = 3 /\ phase' = 4
  BY <1>2, <1>5 DEF Report
<1>8. /\ patterns' \subseteq Families
      /\ \A i \in DOMAIN list : \E Q \in patterns' : Dominates(Q, list[i])
  BY <1>1, <1>6, <1>7, FilterKeeps
<1>9. NothingLost'
  BY <1>7, <1>8 DEF NothingLost, Dominates, Sym, CompSize
<1>10. Hashes'
  BY <1>7 DEF DetectInv, Hashes, Cells
<1> QED BY <1>1, <1>6, <1>7, <1>8, <1>9, <1>10, DetectInvNext DEF DetectInv

LEMMA OtherStepsKeepDetectInv ==
  ASSUME DetectInv, UNCHANGED <<prob, rank, merkle, nodes, phase, tracked, patterns>>
  PROVE  DetectInv'
<1>1. Hashes'
  BY DEF DetectInv, Hashes, Cells
<1>2. NothingLost'
  <2>1. phase' = phase /\ tracked' = tracked /\ patterns' = patterns /\ NothingLost
    BY DEF DetectInv
  <2> QED BY ONLY <2>1 DEF NothingLost
<1> QED BY <1>1, <1>2, DetectInvNext DEF DetectInv

LEMMA DetectStepKeepsInv ==
  ASSUME DetectInv, [SymmNext]_symmVars
  PROVE  DetectInv'
<1>1. CASE Detect
  <2>1. UNCHANGED prob
    BY <1>1 DEF Detect, partVars
  <2> QED BY <1>1, <2>1, HashKeepsDetectInv, OrbitsKeepDetectInv, MergeKeepsDetectInv,
             PhaseKeepsDetectInv, ReportKeepsDetectInv DEF Detect, DetectNext
<1>2. CASE Choose \/ SolveComponent \/ Replicate \/ UNCHANGED symmVars
  BY <1>2, OtherStepsKeepDetectInv DEF Choose, SolveComponent, Replicate, symmVars, partVars, detectVars
<1> QED BY <1>1, <1>2 DEF SymmNext

LEMMA DetectInitHolds == SymmInit => DetectInv
<1> SUFFICES ASSUME SymmInit PROVE DetectInv
  OBVIOUS
<1>1. /\ prob \in Problems /\ rank \in HashOrders /\ merkle = [fwd |-> {}, all |-> {}]
      /\ nodes = <<>> /\ phase = 0 /\ tracked = <<>> /\ patterns = {}
  BY DEF SymmInit, PartitionInit, DetectInit
<1>2. NodeList(nodes)
  <2>1. nodes \in Seq({}) /\ \A n \in {} : NodeOK(n)
    BY <1>1
  <2> QED BY <2>1 DEF NodeList
<1>3. Hashes /\ NothingLost
  BY <1>1 DEF Hashes, NothingLost
<1>4. tracked \in Seq(Families)
  BY <1>1
<1> QED BY <1>1, <1>2, <1>3, <1>4 DEF DetectInv

THEOREM DetectionInvariance == SymmSpec => []DetectInv
<1> QED BY DetectInitHolds, DetectStepKeepsInv, PTL DEF SymmSpec

(* Whatever is tracked while super-nodes merge is covered by a pattern     *)
(* that is reported (symmetry.h, the dominance filter).                    *)
THEOREM NothingIsLost == SymmSpec => []NothingLost
<1>1. DetectInv => NothingLost
  BY DEF DetectInv
<1> QED BY <1>1, DetectionInvariance, PTL

-----------------------------------------------------------------------------
(* Components in paired order.                                             *)

PatternOK(p) ==
  /\ p \in Seq(Seq(Ops))
  /\ \A i, j \in DOMAIN p : \A k \in DOMAIN p[i], l \in DOMAIN p[j] :
       p[i][k] = p[j][l] => i = j /\ k = l

Five == Int \X Int \X Int \X Int \X Int

Precedes(x, y) ==
  \/ x[1] < y[1]
  \/ x[1] = y[1] /\ x[2] < y[2]
  \/ x[1] = y[1] /\ x[2] = y[2] /\ x[3] < y[3]
  \/ x[1] = y[1] /\ x[2] = y[2] /\ x[3] = y[3] /\ x[4] < y[4]
  \/ x[1] = y[1] /\ x[2] = y[2] /\ x[3] = y[3] /\ x[4] = y[4] /\ x[5] < y[5]

LEMMA LexOfFive ==
  ASSUME NEW x \in Five, NEW y \in Five
  PROVE  Lex(x, y) <=> Precedes(x, y)
<1>1. DOMAIN x = 1..5
  BY DEF Five
<1>2. 1..5 = {1, 2, 3, 4, 5}
  OBVIOUS
<1>3. /\ 1..(1 - 1) = {} /\ 1..(2 - 1) = {1} /\ 1..(3 - 1) = {1, 2}
      /\ 1..(4 - 1) = {1, 2, 3} /\ 1..(5 - 1) = {1, 2, 3, 4}
  OBVIOUS
<1>4. Lex(x, y) <=> \E i \in {1, 2, 3, 4, 5} : x[i] < y[i] /\ \A j \in 1..(i - 1) : x[j] = y[j]
  BY ONLY <1>1, <1>2 DEF Lex
<1> QED BY ONLY <1>3, <1>4 DEF Precedes

LEMMA LexOrders ==
  ASSUME NEW G, NEW key \in [G -> Five], \A g, h \in G : key[g] = key[h] => g = h,
         NEW R, R = {p \in G \X G : Lex(key[p[1]], key[p[2]])}
  PROVE  Orders(R, G)
<1>1. \A g, h \in G : <<g, h>> \in R <=> Precedes(key[g], key[h])
  <2>1. ASSUME NEW g \in G, NEW h \in G PROVE <<g, h>> \in R <=> Precedes(key[g], key[h])
    <3>1. key[g] \in Five /\ key[h] \in Five
      OBVIOUS
    <3>2. Lex(key[g], key[h]) <=> Precedes(key[g], key[h])
      BY <3>1, LexOfFive
    <3> QED BY <3>2
  <2> QED BY <2>1
<1>2. ASSUME NEW x \in Five PROVE ~Precedes(x, x)
  BY DEF Precedes, Five
<1>3. ASSUME NEW x \in Five, NEW y \in Five, x # y PROVE Precedes(x, y) \/ Precedes(y, x)
  <2>1. x = <<x[1], x[2], x[3], x[4], x[5]>> /\ y = <<y[1], y[2], y[3], y[4], y[5]>>
    BY DEF Five
  <2>2. \A i \in {1, 2, 3, 4, 5} : x[i] \in Int /\ y[i] \in Int
    BY DEF Five
  <2>3. \E i \in {1, 2, 3, 4, 5} : x[i] # y[i]
    BY <1>3, <2>1
  <2> QED BY ONLY <2>2, <2>3 DEF Precedes
<1>4. ASSUME NEW x \in Five, NEW y \in Five, NEW z \in Five, Precedes(x, y), Precedes(y, z)
      PROVE  Precedes(x, z)
  <2>1. \A i \in {1, 2, 3, 4, 5} : x[i] \in Int /\ y[i] \in Int /\ z[i] \in Int
    BY DEF Five
  <2> QED BY ONLY <1>4, <2>1 DEF Precedes
<1>5. \A g \in G : <<g, g>> \notin R
  BY <1>1, <1>2
<1>6. \A g, h \in G : g # h => <<g, h>> \in R \/ <<h, g>> \in R
  BY <1>1, <1>3
<1>7. \A g, h, k \in G : <<g, h>> \in R /\ <<h, k>> \in R => <<g, k>> \in R
  BY <1>1, <1>4
<1> QED BY ONLY <1>5, <1>6, <1>7 DEF Orders

LEMMA ReadsFinite ==
  ASSUME prob \in Problems, NEW o \in Ops
  PROVE  Cardinality(Reads(o)) \in Nat
<1>1. IsFiniteSet(Tensors)
  BY OpsAssumption, GraphInputsAssumption, FS_Union DEF Tensors
<1>2. prob.reads[o] \subseteq Tensors
  BY ProblemsAssumption DEF Problem
<1> QED BY <1>1, <1>2, FS_Subset, FS_CardinalityType DEF Reads

LEMMA RankedEnumerates ==
  ASSUME prob \in Problems, rank \in HashOrders, Cells(merkle.all, Ops), NEW C \in SUBSET Ops
  PROVE  Enumerates(Ranked(C), C)
<1>1. PICK d \in [C -> Nat] : d = Depth(C)
  BY DepthTyped
<1>2. PICK r : r = [o \in C |-> RankOf(CHOOSE H \in merkle.all : o \in H)]
  OBVIOUS
<1>3. \A o \in C : r[o] \in Int
  <2>1. ASSUME NEW o \in C PROVE r[o] \in Int
    <3>1. PICK H : H = CHOOSE K \in merkle.all : o \in K
      OBVIOUS
    <3>2. \E K \in merkle.all : o \in K
      BY DEF Cells
    <3>3. H \in merkle.all
      BY <3>1, <3>2
    <3>4. H \in SUBSET Ops /\ H # {}
      BY <3>3, CellsAreOps
    <3>5. RankOf(H) \in Int
      BY <3>4, RankIsInt
    <3> QED BY <1>2, <3>1, <3>5
  <2> QED BY <2>1
<1>4. PICK key : key = [o \in C |-> <<Kind[o], Cardinality(Reads(o)), d[o], r[o], o>>]
  OBVIOUS
<1>5. key \in [C -> Five]
  <2>1. ASSUME NEW o \in C PROVE key[o] \in Five
    <3>1. Kind[o] \in Int
      BY KindAssumption
    <3>2. Cardinality(Reads(o)) \in Int
      BY ReadsFinite
    <3>3. o \in Int /\ d[o] \in Int /\ r[o] \in Int
      BY <1>3, FiniteOps
    <3> QED BY <1>4, <3>1, <3>2, <3>3 DEF Five
  <2> QED BY <1>4, <2>1
<1>6. ASSUME NEW o \in C, NEW u \in C, key[o] = key[u] PROVE o = u
  <2>1. key[o][5] = o /\ key[u][5] = u
    BY <1>4
  <2> QED BY <1>6, <2>1
<1>7. PICK R : R = {p \in C \X C : Lex(key[p[1]], key[p[2]])}
  OBVIOUS
<1>8. Orders(R, C)
  BY <1>5, <1>6, <1>7, LexOrders
<1> DEFINE Count(x) == Cardinality({y \in C : Lex(key[y], key[x])})
<1>9. Ranked(C) = [i \in 1..Cardinality(C) |-> CHOOSE x \in C : Count(x) = i - 1]
  <2> DEFINE Key(o) == <<Kind[o], Cardinality(Reads(o)), Depth(C)[o],
                         RankOf(CHOOSE H \in merkle.all : o \in H), o>>
             Fresh(x) == Cardinality({y \in C : Lex(Key(y), Key(x))})
  <2>1. \A o \in C : key[o] = Key(o)
    BY <1>1, <1>2, <1>4
  <2>2. Ranked(C) = [i \in 1..Cardinality(C) |-> CHOOSE x \in C : Fresh(x) = i - 1]
    BY DEF Ranked, Sorted
  <2>3. \A x \in C : Count(x) = Fresh(x)
    <3> HIDE DEF Key
    <3> QED BY ONLY <2>1
  <2> HIDE DEF Count, Fresh
  <2>4. ASSUME NEW i \in 1..Cardinality(C)
        PROVE  (CHOOSE x \in C : Fresh(x) = i - 1) = (CHOOSE x \in C : Count(x) = i - 1)
    BY ONLY <2>3
  <2> QED BY ONLY <2>2, <2>4
<1>10. \A x \in C : Cardinality(Below(C, R, x)) = Count(x)
  <2>1. ASSUME NEW x \in C PROVE Below(C, R, x) = {y \in C : Lex(key[y], key[x])}
    BY <1>7 DEF Below
  <2> QED BY <2>1
<1> HIDE DEF Count
<1>11. Ranked(C) = [i \in 1..Cardinality(C) |-> CHOOSE x \in C : Cardinality(Below(C, R, x)) = i - 1]
  <2>1. ASSUME NEW i \in 1..Cardinality(C)
        PROVE  (CHOOSE x \in C : Count(x) = i - 1)
               = (CHOOSE x \in C : Cardinality(Below(C, R, x)) = i - 1)
    BY ONLY <1>10
  <2> QED BY ONLY <1>9, <2>1
<1>12. IsFiniteSet(C)
  BY FiniteOps
<1>13. PICK q : q = Ranked(C)
  OBVIOUS
<1>14. Enumerates(q, C)
  BY <1>8, <1>11, <1>12, <1>13, CountedIsList
<1> QED BY <1>13, <1>14

(* A finite set listed by the numbers its members have.                    *)
Numbers(rk, G) == /\ \A g \in G : rk[g] \in Int
                  /\ \A g, h \in G : rk[g] = rk[h] => g = h
Counts(c, rk, G) == \A x \in G : c[x] = Cardinality({y \in G : rk[y] < rk[x]})
Lists(q, c, G) == q = [i \in 1..Cardinality(G) |-> CHOOSE x \in G : c[x] = i - 1]

LEMMA ListedByNumber ==
  ASSUME NEW G, IsFiniteSet(G), NEW rk, Numbers(rk, G), NEW c, Counts(c, rk, G),
         NEW q, Lists(q, c, G)
  PROVE  Enumerates(q, G)
<1>1. PICK R : R = NumberOrder(G, rk)
  OBVIOUS
<1>2. Orders(R, G) /\ \A x \in G : Below(G, R, x) = {y \in G : rk[y] < rk[x]}
  BY <1>1, RanksOrder DEF Numbers
<1>3. \A x \in G : Cardinality(Below(G, R, x)) = c[x]
  BY <1>2 DEF Counts
<1>4. ASSUME NEW i \in 1..Cardinality(G)
      PROVE  (CHOOSE x \in G : c[x] = i - 1)
             = (CHOOSE x \in G : Cardinality(Below(G, R, x)) = i - 1)
  BY ONLY <1>3
<1>5. q = [i \in 1..Cardinality(G) |-> CHOOSE x \in G : Cardinality(Below(G, R, x)) = i - 1]
  BY <1>4 DEF Lists
<1> QED BY <1>2, <1>5, CountedIsList

LEMMA ListIsFunction ==
  ASSUME NEW q, NEW G, Enumerates(q, G)
  PROVE  /\ Len(q) \in Nat /\ DOMAIN q = 1..Len(q)
         /\ \A i \in DOMAIN q : q[i] \in G
         /\ \A i, j \in DOMAIN q : q[i] = q[j] => i = j
         /\ \A x \in G : \E i \in DOMAIN q : q[i] = x
<1>1. q \in Seq(G)
  BY DEF Enumerates
<1>2. Len(q) \in Nat /\ DOMAIN q = 1..Len(q) /\ \A i \in DOMAIN q : q[i] \in G
  BY <1>1
<1> QED BY <1>2 DEF Enumerates

LEMMA ParallelIsPattern ==
  ASSUME prob \in Problems, rank \in HashOrders, Cells(merkle.all, Ops), NEW P \in Families
  PROVE  PatternOK(Parallel(P))
<1>1. PICK rk : rk = [C \in P |-> Least(C)]
  OBVIOUS
<1>2. \A C \in P : C \in SUBSET Ops /\ C # {}
  BY DEF Families
<1>3. ASSUME NEW C \in P PROVE rk[C] = Least(C) /\ rk[C] \in C /\ rk[C] \in Int
  <2>1. Least(C) \in C
    BY <1>2, LeastIsIn
  <2>2. rk[C] = Least(C)
    BY <1>1
  <2>3. C \subseteq Nat
    BY <1>2, FiniteOps
  <2>4. PICK x : x = Least(C)
    OBVIOUS
  <2>5. x \in C /\ rk[C] = x
    BY <2>1, <2>2, <2>4
  <2>6. x \in Nat
    BY ONLY <2>3, <2>5
  <2>7. x \in Int
    BY ONLY <2>6
  <2> QED BY <2>2, <2>5, <2>7
<1>4. \A C, D \in P : rk[C] = rk[D] => C = D
  BY <1>3 DEF Families
<1>5. IsFiniteSet(P)
  <2>1. P \in SUBSET SUBSET Ops
    BY DEF Families
  <2> QED BY <2>1, FamilyFinite
<1>6. PICK comps : comps = Sorted(P, LAMBDA C, D : Least(C) < Least(D))
  OBVIOUS
<1>7. PICK c : c = [x \in P |-> Cardinality({y \in P : rk[y] < rk[x]})]
  OBVIOUS
<1>19. comps = [i \in 1..Cardinality(P) |-> CHOOSE x \in P : c[x] = i - 1]
  <2> DEFINE Fresh(x) == Cardinality({y \in P : Least(y) < Least(x)})
  <2>1. \A x \in P : c[x] = Fresh(x)
    BY <1>3, <1>7
  <2>2. comps = [i \in 1..Cardinality(P) |-> CHOOSE x \in P : Fresh(x) = i - 1]
    BY <1>6 DEF Sorted
  <2> HIDE DEF Fresh
  <2>3. ASSUME NEW i \in 1..Cardinality(P)
        PROVE  (CHOOSE x \in P : Fresh(x) = i - 1) = (CHOOSE x \in P : c[x] = i - 1)
    BY ONLY <2>1
  <2> QED BY ONLY <2>2, <2>3
<1>8. Enumerates(comps, P)
  <2>1. Counts(c, rk, P)
    BY <1>7 DEF Counts
  <2>2. Numbers(rk, P)
    BY <1>3, <1>4 DEF Numbers
  <2>3. Lists(comps, c, P)
    BY <1>19 DEF Lists
  <2> QED BY <1>5, <2>1, <2>2, <2>3, ListedByNumber
<1>9. PICK N \in Nat : N = Len(comps) /\ DOMAIN comps = 1..N
  BY <1>8, ListIsFunction
<1>10. \A i \in 1..N : comps[i] \in P
  BY <1>8, <1>9, ListIsFunction
<1>11. \A i, j \in 1..N : comps[i] = comps[j] => i = j
  BY <1>8, <1>9, ListIsFunction
<1>12. PICK p : p = Parallel(P)
  OBVIOUS
<1>13. p = [i \in 1..N |-> Ranked(comps[i])]
  BY <1>6, <1>9, <1>12 DEF Parallel
<1>14. ASSUME NEW i \in 1..N PROVE Enumerates(p[i], comps[i])
  <2>1. comps[i] \in SUBSET Ops
    BY <1>2, <1>10
  <2>2. p[i] = Ranked(comps[i])
    BY <1>13
  <2> QED BY <2>1, <2>2, RankedEnumerates
<1>15. ASSUME NEW i \in 1..N PROVE p[i] \in Seq(Ops)
  <2>1. p[i] \in Seq(comps[i]) /\ comps[i] \subseteq Ops
    BY <1>2, <1>10, <1>14 DEF Enumerates
  <2>2. PICK C, s : C = comps[i] /\ s = p[i]
    OBVIOUS
  <2>3. s \in Seq(C) /\ C \subseteq Ops
    BY <2>1, <2>2
  <2>4. s \in Seq(Ops)
    BY ONLY <2>3
  <2> QED BY <2>2, <2>4
<1>16. p \in Seq(Seq(Ops)) /\ DOMAIN p = 1..N
  <2>1. PICK D : D = Seq(Ops)
    OBVIOUS
  <2>2. p \in [1..N -> D] /\ N \in Nat
    BY <1>13, <1>15, <2>1
  <2>3. p \in Seq(D) /\ DOMAIN p = 1..N
    BY ONLY <2>2
  <2> QED BY <2>1, <2>3
<1>17. ASSUME NEW i \in 1..N, NEW j \in 1..N, NEW k \in DOMAIN p[i], NEW l \in DOMAIN p[j],
              p[i][k] = p[j][l]
       PROVE  i = j /\ k = l
  <2>1. p[i][k] \in comps[i] /\ p[j][l] \in comps[j]
    BY <1>14, ListIsFunction
  <2>2. comps[i] = comps[j]
    BY <1>10, <1>17, <2>1 DEF Families
  <2>3. i = j
    BY <1>11, <2>2
  <2>4. k = l
    <3>1. Enumerates(p[i], comps[i]) /\ l \in DOMAIN p[i] /\ p[i][k] = p[i][l]
      BY <1>14, <1>17, <2>3
    <3> QED BY <3>1, ListIsFunction
  <2> QED BY <2>3, <2>4
<1>18. PatternOK(p)
  BY <1>16, <1>17 DEF PatternOK
<1> QED BY <1>12, <1>18

-----------------------------------------------------------------------------
(* Series: the topological order and its blocks.                           *)

LEMMA OrderExists ==
  ASSUME NEW N \in Nat, NEW D, <<>> \in D, NEW F \in [D -> D]
  PROVE  \E f : /\ f \in [0..N -> D] /\ f[0] = <<>>
                /\ \A n \in 1..N : f[n] = F[f[n - 1]]
<1>1. PICK G : G = [p \in Nat \X D |-> F[p[2]]]
  OBVIOUS
<1>2. G \in [Nat \X D -> D]
  BY <1>1
<1>3. PICK f : Iterates(f, N, D, <<>>, G)
  BY <1>2, IterationExists
<1>4. f \in [0..N -> D] /\ f[0] = <<>>
  BY <1>3 DEF Iterates
<1>5. ASSUME NEW n \in 1..N PROVE f[n] = F[f[n - 1]]
  <2>1. n - 1 \in 0..N /\ n \in Nat
    OBVIOUS
  <2>2. f[n] = G[<<n, f[n - 1]>>] /\ f[n - 1] \in D
    BY <1>3, <2>1 DEF Iterates
  <2>3. <<n, f[n - 1]>> \in Nat \X D
    BY <2>1, <2>2
  <2> QED BY ONLY <1>1, <2>2, <2>3
<1> QED BY <1>4, <1>5

Placed(done) == {done[i] : i \in DOMAIN done}
Waiting(done) == {o \in Ops \ Placed(done) : Producers(o) \cap (Ops \ Placed(done)) = {}}

LEMMA TopoGrows ==
  \E f : /\ f[0] = <<>>
         /\ \A n \in 1..Cardinality(Ops) : f[n] = Append(f[n - 1], Least(Waiting(f[n - 1])))
         /\ TopoOrder = f[Cardinality(Ops)]
<1>1. PICK N \in Nat : N = Cardinality(Ops)
  BY FiniteOps
<1>2. PICK v : v = Least({})
  OBVIOUS
<1>3. PICK D : D = Seq(Ops \cup {v})
  OBVIOUS
<1>4. <<>> \in D
  BY <1>3
<1>5. ASSUME NEW S \in SUBSET Ops PROVE Least(S) \in Ops \cup {v}
  BY <1>2, LeastIsIn
<1>6. PICK F : F = [d \in D |-> Append(d, Least(Waiting(d)))]
  OBVIOUS
<1>7. F \in [D -> D]
  <2>1. ASSUME NEW d \in D PROVE Append(d, Least(Waiting(d))) \in D
    <3>1. Waiting(d) \in SUBSET Ops
      BY DEF Waiting
    <3>2. PICK x \in Ops \cup {v} : x = Least(Waiting(d))
      BY <1>5, <3>1
    <3>3. Append(d, x) \in D
      BY ONLY <1>3, d \in D, x \in Ops \cup {v}
    <3> QED BY <3>2, <3>3
  <2> QED BY <1>6, <2>1
<1>8. PICK f : /\ f \in [0..N -> D] /\ f[0] = <<>>
               /\ \A n \in 1..N : f[n] = F[f[n - 1]]
  BY <1>4, <1>7, OrderExists
<1>9. ASSUME NEW n \in 1..N PROVE f[n] = Append(f[n - 1], Least(Waiting(f[n - 1])))
  <2>1. n - 1 \in 0..N
    OBVIOUS
  <2>2. f[n - 1] \in D
    BY <1>8, <2>1
  <2> QED BY <1>6, <1>8, <2>2
<1> DEFINE Advance(d) == LET done == d
                             left == Ops \ {done[i] : i \in DOMAIN done}
                         IN  Append(done, Least({o \in left : Producers(o) \cap left = {}}))
           Body(g) == [n \in 0..Cardinality(Ops) |-> IF n = 0 THEN <<>> ELSE Advance(g[n - 1])]
<1>10. ASSUME NEW d PROVE Advance(d) = Append(d, Least(Waiting(d)))
  BY DEF Waiting, Placed
<1>11. \E g : g = Body(g)
  <2> HIDE DEF Advance
  <2>1. ASSUME NEW n \in 0..N PROVE f[n] = IF n = 0 THEN <<>> ELSE Advance(f[n - 1])
    <3>1. n # 0 => n \in 1..N
      OBVIOUS
    <3> QED BY <1>8, <1>9, <1>10, <3>1
  <2>2. f = Body(f)
    BY <1>1, <1>8, <2>1
  <2> QED BY <2>2
<1> DEFINE order == CHOOSE g : g = Body(g)
<1>12. order = Body(order)
  BY <1>11, Zenon
<1>13. TopoOrder = order[Cardinality(Ops)]
  BY DEF TopoOrder
<1> HIDE DEF order, Advance
<1>14. ASSUME NEW n \in 0..N PROVE order[n] = IF n = 0 THEN <<>> ELSE Advance(order[n - 1])
  BY <1>1, <1>12
<1> HIDE DEF Body
<1>15. order[0] = <<>>
  <2>1. 0 \in 0..N
    OBVIOUS
  <2> QED BY ONLY <1>14, <2>1
<1>16. ASSUME NEW n \in 1..N PROVE order[n] = Append(order[n - 1], Least(Waiting(order[n - 1])))
  <2>1. n \in 0..N /\ n # 0
    OBVIOUS
  <2>2. order[n] = Advance(order[n - 1])
    BY <1>14, <2>1
  <2> QED BY <1>10, <2>2
<1> QED BY <1>1, <1>13, <1>15, <1>16

OrderedSoFar(s, n) ==
  /\ s \in Seq(Ops) /\ Len(s) = n
  /\ \A i, j \in DOMAIN s : s[i] = s[j] => i = j
  /\ Cardinality(Placed(s)) = n

LEMMA TopoIsOrder ==
  ASSUME prob \in Problems
  PROVE  /\ TopoOrder \in Seq(Ops) /\ Len(TopoOrder) = Cardinality(Ops)
         /\ \A i, j \in DOMAIN TopoOrder : TopoOrder[i] = TopoOrder[j] => i = j
<1>1. PICK N \in Nat : N = Cardinality(Ops) /\ IsFiniteSet(Ops)
  BY FiniteOps
<1>2. PICK f : /\ f[0] = <<>>
               /\ \A n \in 1..N : f[n] = Append(f[n - 1], Least(Waiting(f[n - 1])))
               /\ TopoOrder = f[N]
  BY <1>1, TopoGrows
<1> DEFINE S == {n \in Nat : n <= N => OrderedSoFar(f[n], n)}
<1>3. 0 \in S
  <2>1. <<>> \in Seq(Ops) /\ Len(<<>>) = 0 /\ DOMAIN <<>> = {}
    OBVIOUS
  <2>2. Placed(<<>>) = {}
    BY <2>1 DEF Placed
  <2>3. Cardinality(Placed(<<>>)) = 0
    BY <2>2, FS_EmptySet
  <2> QED BY <1>2, <2>1, <2>3 DEF OrderedSoFar
<1>4. ASSUME NEW n \in 0..(N - 1), n \in S PROVE n + 1 \in S
  <2>1. n \in Nat /\ n < N /\ n + 1 \in 1..N /\ (n + 1) - 1 = n
    OBVIOUS
  <2>2. PICK s : s = f[n]
    OBVIOUS
  <2>3. OrderedSoFar(s, n)
    BY <1>4, <2>1, <2>2
  <2>4. PICK left : left = Ops \ Placed(s)
    OBVIOUS
  <2>5. Placed(s) \subseteq Ops
    <3>1. s \in Seq(Ops)
      BY <2>3 DEF OrderedSoFar
    <3> QED BY <3>1 DEF Placed
  <2>6. left # {}
    <3>1. Placed(s) # Ops
      BY <1>1, <2>1, <2>3 DEF OrderedSoFar
    <3> QED BY <2>4, <2>5, <3>1
  <2>7. \E o \in left : Producers(o) \cap left = {}
    <3>1. left \in (SUBSET Ops) \ {{}}
      BY <2>4, <2>6
    <3>2. PICK o \in left : prob.reads[o] \cap left = {}
      BY <3>1, ProblemsAssumption
    <3> QED BY <3>2 DEF Producers
  <2>8. PICK x : x = Least(Waiting(s))
    OBVIOUS
  <2>9. x \in Ops /\ x \notin Placed(s)
    <3>1. Waiting(s) \in SUBSET Ops /\ Waiting(s) # {}
      BY <2>4, <2>7 DEF Waiting
    <3>2. x \in Waiting(s)
      BY <2>8, <3>1, LeastIsIn
    <3> QED BY <3>2 DEF Waiting
  <2>10. PICK t : t = Append(s, x)
    OBVIOUS
  <2>11. f[n + 1] = t
    BY <1>2, <2>1, <2>2, <2>8, <2>10
  <2>12. s \in Seq(Ops) /\ Len(s) = n /\ (\A i, j \in DOMAIN s : s[i] = s[j] => i = j)
    BY <2>3 DEF OrderedSoFar
  <2>13. /\ t \in Seq(Ops) /\ Len(t) = n + 1 /\ DOMAIN t = 1..(n + 1) /\ DOMAIN s = 1..n
         /\ t[n + 1] = x /\ \A i \in 1..n : t[i] = s[i]
    BY ONLY <2>9, <2>10, <2>12
  <2>14. ASSUME NEW i \in 1..(n + 1), NEW j \in 1..(n + 1), t[i] = t[j] PROVE i = j
    <3>1. \A k \in 1..n : s[k] # x /\ t[k] = s[k]
      BY <2>9, <2>13 DEF Placed
    <3>2. \A k \in 1..(n + 1) : k \in 1..n \/ k = n + 1
      BY ONLY <2>1
    <3>3. \A k, l \in 1..n : s[k] = s[l] => k = l
      BY ONLY <2>12, <2>13
    <3>4. t[n + 1] = x
      BY <2>13
    <3> QED BY ONLY <2>14, <3>1, <3>2, <3>3, <3>4
  <2>15. Placed(t) = Placed(s) \cup {x}
    <3>1. \A k \in 1..(n + 1) : k \in 1..n \/ k = n + 1
      BY ONLY <2>1
    <3>2. \A k \in 1..n : k \in 1..(n + 1)
      BY ONLY <2>1
    <3>3. n + 1 \in 1..(n + 1)
      BY ONLY <2>1
    <3> QED BY ONLY <2>13, <3>1, <3>2, <3>3 DEF Placed
  <2>16. Cardinality(Placed(t)) = n + 1
    <3>1. IsFiniteSet(Placed(s))
      BY <1>1, <2>5, FS_Subset
    <3>2. Cardinality(Placed(s)) = n
      BY <2>3 DEF OrderedSoFar
    <3> QED BY <2>9, <2>15, <3>1, <3>2, FS_AddElement
  <2>17. OrderedSoFar(t, n + 1)
    BY <2>13, <2>14, <2>16 DEF OrderedSoFar
  <2> QED BY <2>1, <2>11, <2>17
<1>5. OrderedSoFar(f[N], N)
  <2>1. 0..N \subseteq S
    <3> HIDE DEF S
    <3> QED BY <1>3, <1>4, InductionUpTo
  <2>2. N \in 0..N
    OBVIOUS
  <2> QED BY <2>1, <2>2
<1> QED BY <1>1, <1>2, <1>5 DEF OrderedSoFar

LEMMA TimesGrows ==
  ASSUME NEW K \in Nat, NEW c \in Nat, NEW d \in Nat, c <= d
  PROVE  c * K \in Nat /\ d * K \in Nat /\ c * K <= d * K
<1>1. d - c \in Nat /\ d = c + (d - c)
  OBVIOUS
<1>2. (d - c) * K \in Nat /\ c * K \in Nat
  BY <1>1
<1>3. d * K = c * K + (d - c) * K
  BY <1>1
<1> QED BY <1>2, <1>3

LEMMA PlacesApart ==
  ASSUME NEW K \in Nat, NEW c \in Nat, NEW d \in Nat, NEW k \in 1..K, NEW l \in 1..K,
         c * K + k = d * K + l
  PROVE  c = d /\ k = l
<1>1. ASSUME NEW x \in Nat, NEW y \in Nat, NEW m \in 1..K, NEW n \in 1..K, x < y
      PROVE  x * K + m < y * K + n
  <2>1. (x + 1) * K <= y * K /\ (x + 1) * K = x * K + K /\ x * K \in Nat /\ y * K \in Nat
    BY <1>1, TimesGrows
  <2> QED BY ONLY <2>1, m \in 1..K, n \in 1..K, K \in Nat
<1>2. ~(c < d) /\ ~(d < c)
  <2>1. c * K \in Nat /\ d * K \in Nat
    BY TimesGrows
  <2>2. c * K + k \in Int /\ d * K + l \in Int
    BY <2>1
  <2> QED BY <1>1, <2>2
<1>3. c = d
  BY <1>2
<1>4. c * K \in Nat
  BY TimesGrows
<1> QED BY <1>3, <1>4

LEMMA QuotientFits ==
  ASSUME NEW N \in Nat, NEW K \in Nat \ {0}, NEW c \in Nat, c <= N \div K
  PROVE  c * K <= N
<1>1. N \div K \in Nat /\ (N \div K) * K <= N
  OBVIOUS
<1>2. c * K <= (N \div K) * K /\ c * K \in Nat
  BY <1>1, TimesGrows
<1> QED BY <1>1, <1>2

RunOK(r, N) ==
  \E K \in Nat \ {0}, b, m \in Nat : r = <<K, b, m>> /\ (b + m) * K <= N

LEMMA RunsFit ==
  ASSUME NEW topo, Len(topo) \in Nat, NEW r \in Runs(topo)
  PROVE  RunOK(r, Len(topo))
<1>1. PICK N \in Nat : N = Len(topo)
  OBVIOUS
<1> DEFINE End(K) == N \div K - 1
           like(K) == {b \in 1..End(K) : Matches(topo, K, b)}
<1>2. PICK K \in 2..(N \div 2) :
        \E q \in (0..End(K)) \X (2..(End(K) + 1)) :
          /\ r = <<K, q[1], q[2]>>
          /\ \A b \in (q[1] + 1)..(q[1] + q[2] - 1) : b \in like(K)
  BY <1>1 DEF Runs
<1>3. K \in Nat /\ K # 0 /\ N \div K \in Nat
  <2>1. N \div 2 \in Int
    OBVIOUS
  <2>2. K \in Nat /\ K # 0
    BY <2>1
  <2> QED BY <2>2
<1>4. PICK D \in Nat : D = N \div K
  BY <1>3
<1>5. PICK q \in (0..(D - 1)) \X (2..D) :
          /\ r = <<K, q[1], q[2]>>
          /\ \A b \in (q[1] + 1)..(q[1] + q[2] - 1) : b \in 1..(D - 1)
  <2>1. End(K) = D - 1 /\ End(K) + 1 = D
    BY <1>4
  <2> QED BY <1>2, <2>1
<1>6. PICK b \in Nat, m \in Nat : b = q[1] /\ m = q[2] /\ m >= 2
  OBVIOUS
<1>7. b + m - 1 \in (b + 1)..(b + m - 1)
  BY <1>6
<1>8. b + m - 1 \in 1..(D - 1)
  BY <1>5, <1>6, <1>7
<1>9. b + m <= D
  BY ONLY <1>8, b \in Nat, m \in Nat, D \in Nat
<1>10. (b + m) * K <= N
  BY <1>3, <1>4, <1>9, QuotientFits
<1> QED BY <1>1, <1>3, <1>5, <1>6, <1>10 DEF RunOK

(* Block c lies within the order, and q holds its ops.                     *)
Within(c, K, topo) == (c + 1) * K <= Len(topo)
Copies(q, c, K, topo) ==
  /\ q \in Seq(Ops) /\ DOMAIN q = 1..K
  /\ \A k \in 1..K : c * K + k \in 1..Len(topo) /\ q[k] = topo[c * K + k]

LEMMA BlockEntries ==
  ASSUME NEW topo \in Seq(Ops), NEW K \in Nat \ {0}, NEW c \in Nat, Within(c, K, topo)
  PROVE  Copies(Block(topo, K, c), c, K, topo)
<1>1. PICK N \in Nat : N = Len(topo) /\ topo \in [1..N -> Ops]
  OBVIOUS
<1>2. PICK a \in Nat : a = c * K
  BY TimesGrows
<1>3. (c + 1) * K = a + K
  BY <1>2
<1>4. a + K <= N
  BY <1>1, <1>3 DEF Within
<1>5. Block(topo, K, c) = SubSeq(topo, a + 1, a + K)
  BY <1>2, <1>3 DEF Block
<1>6. PICK s : s = SubSeq(topo, a + 1, a + K)
  OBVIOUS
<1>7. s = [k \in 1..K |-> topo[a + k]]
  <2>1. Len(s) = K /\ s \in Seq(Ops)
    BY <1>1, <1>4, <1>6
  <2>2. \A k \in 1..K : s[k] = topo[a + k]
    BY <1>1, <1>4, <1>6
  <2> QED BY <2>1, <2>2
<1>8. \A k \in 1..K : a + k \in 1..N
  BY <1>4
<1>9. s \in [1..K -> Ops]
  BY <1>1, <1>7, <1>8
<1>10. s \in Seq(Ops) /\ DOMAIN s = 1..K
  BY <1>9
<1>11. \A k \in 1..K : a + k \in 1..Len(topo) /\ s[k] = topo[a + k]
  BY <1>1, <1>7, <1>8
<1> QED BY <1>2, <1>5, <1>6, <1>10, <1>11 DEF Copies

LEMMA BlocksArePattern ==
  ASSUME prob \in Problems, NEW r, RunOK(r, Len(TopoOrder)),
         NEW p, p = [i \in 1..r[3] |-> Block(TopoOrder, r[1], r[2] + i - 1)]
  PROVE  PatternOK(p)
<1>1. PICK topo : topo = TopoOrder
  OBVIOUS
<1>2. /\ topo \in Seq(Ops) /\ Len(topo) \in Nat
      /\ \A i, j \in 1..Len(topo) : topo[i] = topo[j] => i = j
  BY <1>1, TopoIsOrder
<1>3. PICK K \in Nat \ {0}, b \in Nat, m \in Nat : r = <<K, b, m>> /\ (b + m) * K <= Len(topo)
  BY <1>1 DEF RunOK
<1>4. p = [i \in 1..m |-> Block(topo, K, b + i - 1)]
  BY <1>1, <1>3
<1>5. ASSUME NEW i \in 1..m
      PROVE  \E c \in Nat : c = b + i - 1 /\ Copies(p[i], c, K, topo)
  <2>1. PICK c \in Nat : c = b + i - 1 /\ c + 1 <= b + m
    OBVIOUS
  <2>2. Within(c, K, topo)
    <3>1. PICK x \in Nat, y \in Nat : x = c + 1 /\ y = b + m /\ x <= y
      BY <2>1
    <3>2. x * K \in Nat /\ y * K \in Nat /\ x * K <= y * K
      BY <3>1, TimesGrows
    <3>3. PICK v \in Nat, w \in Nat, n \in Nat : v = x * K /\ w = y * K /\ n = Len(topo)
      BY <1>2, <3>2
    <3>4. v <= w /\ w <= n
      BY <1>3, <3>1, <3>2, <3>3
    <3>5. v <= n
      BY ONLY <3>4, v \in Nat, w \in Nat, n \in Nat
    <3> QED BY <3>1, <3>3, <3>5 DEF Within
  <2>3. p[i] = Block(topo, K, c)
    BY <1>4, <2>1
  <2>4. Copies(p[i], c, K, topo)
    BY <1>2, <2>2, <2>3, BlockEntries
  <2> QED BY <2>1, <2>4
<1>6. p \in Seq(Seq(Ops)) /\ DOMAIN p = 1..m
  <2>1. PICK D : D = Seq(Ops)
    OBVIOUS
  <2>4. ASSUME NEW i \in 1..m PROVE p[i] \in D
    BY <1>5, <2>1 DEF Copies
  <2>2. p \in [1..m -> D] /\ m \in Nat
    BY <1>4, <2>4
  <2>3. p \in Seq(D) /\ DOMAIN p = 1..m
    BY ONLY <2>2
  <2> QED BY <2>1, <2>3
<1>7. ASSUME NEW i \in 1..m, NEW j \in 1..m, NEW k \in 1..K, NEW l \in 1..K, p[i][k] = p[j][l]
      PROVE  i = j /\ k = l
  <2>1. PICK c \in Nat : c = b + i - 1 /\ Copies(p[i], c, K, topo)
    BY <1>5
  <2>2. PICK d \in Nat : d = b + j - 1 /\ Copies(p[j], d, K, topo)
    BY <1>5
  <2>3. PICK x \in 1..Len(topo), y \in 1..Len(topo) :
          x = c * K + k /\ y = d * K + l /\ p[i][k] = topo[x] /\ p[j][l] = topo[y]
    BY <2>1, <2>2 DEF Copies
  <2>4. x = y
    BY <1>2, <1>7, <2>3
  <2>5. c * K + k = d * K + l
    BY ONLY <2>3, <2>4
  <2>6. K \in Nat
    OBVIOUS
  <2>7. c = d /\ k = l
    BY ONLY <2>5, <2>6, PlacesApart, c \in Nat, d \in Nat, k \in 1..K, l \in 1..K
  <2> QED BY <2>1, <2>2, <2>7
<1>8. \A i \in DOMAIN p : i \in 1..m /\ DOMAIN p[i] = 1..K
  BY <1>5, <1>6 DEF Copies
<1>9. ASSUME NEW i \in DOMAIN p, NEW j \in DOMAIN p, NEW k \in DOMAIN p[i], NEW l \in DOMAIN p[j],
             p[i][k] = p[j][l]
      PROVE  i = j /\ k = l
  <2>1. k \in 1..K /\ l \in 1..K /\ i \in 1..m /\ j \in 1..m
    BY <1>8
  <2> QED BY ONLY <1>7, <1>9, <2>1
<1>10. p \in Seq(Seq(Ops))
  BY <1>6
<1> QED BY ONLY <1>9, <1>10 DEF PatternOK

LEMMA SeriesIsPattern ==
  ASSUME prob \in Problems, NEW p \in Series
  PROVE  PatternOK(p)
<1>1. PICK r \in Runs(TopoOrder) :
        p = [i \in 1..r[3] |-> Block(TopoOrder, r[1], r[2] + i - 1)]
  BY DEF Series
<1>2. Len(TopoOrder) \in Nat
  BY TopoIsOrder
<1> QED BY <1>1, <1>2, RunsFit, BlocksArePattern

-----------------------------------------------------------------------------
(* Groups that no op is in twice.                                          *)

(* No op is in two entries of the list, and the cost model accepts each.   *)
Spread(q) ==
  /\ \A i, j \in DOMAIN q : i # j => q[i] \cap q[j] = {}
  /\ \A i \in DOMAIN q : Fits(q[i])

(* No op is in entries of two of the lists.                                *)
SpreadOut(s) ==
  /\ \A a \in DOMAIN s : Spread(s[a])
  /\ \A a, b \in DOMAIN s : a # b =>
       \A i \in DOMAIN s[a], j \in DOMAIN s[b] : s[a][i] \cap s[b][j] = {}

LEMMA JoinedLists ==
  ASSUME NEW E, NEW q \in Seq(E), NEW p \in Seq(E)
  PROVE  /\ q \o p \in Seq(E)
         /\ \A k \in DOMAIN (q \o p) :
              \/ k \in DOMAIN q /\ (q \o p)[k] = q[k]
              \/ k - Len(q) \in DOMAIN p /\ (q \o p)[k] = p[k - Len(q)]
<1>1. PICK M \in Nat, N \in Nat : M = Len(q) /\ N = Len(p) /\ DOMAIN q = 1..M /\ DOMAIN p = 1..N
  OBVIOUS
<1>2. PICK r : r = q \o p
  OBVIOUS
<1>3. r \in Seq(E) /\ Len(r) = M + N /\ DOMAIN r = 1..(M + N)
  BY <1>1, <1>2
<1>4. ASSUME NEW k \in 1..(M + N)
      PROVE  \/ k \in 1..M /\ r[k] = q[k]
             \/ k - M \in 1..N /\ r[k] = p[k - M]
  BY <1>1, <1>2
<1> QED BY <1>1, <1>2, <1>3, <1>4

(* What the flattened list holds comes from the lists, in their order.     *)
LEMMA FlatIsSpread ==
  ASSUME NEW s \in Seq(Seq(SUBSET Ops)), SpreadOut(s)
  PROVE  /\ FlattenSeq(s) \in Seq(SUBSET Ops)
         /\ Spread(FlattenSeq(s))
         /\ \A k \in DOMAIN FlattenSeq(s) : \E a \in DOMAIN s : \E i \in DOMAIN s[a] :
              FlattenSeq(s)[k] = s[a][i]
<1>1. PICK D : D = SUBSET Ops
  OBVIOUS
<1>2. s \in Seq(Seq(D))
  BY <1>1
<1>3. PICK r : Flattens(r, s, D) /\ FlattenSeq(s) = r[Len(s)]
  BY <1>2, FlattenGrows
<1>4. PICK N \in Nat : N = Len(s) /\ DOMAIN s = 1..N
  BY <1>2
<1>5. /\ \A n \in 0..N : r[n] \in Seq(D)
      /\ r[0] = <<>>
      /\ \A n \in 1..N : r[n] = r[n - 1] \o s[n]
  BY <1>3, <1>4 DEF Flattens
<1> DEFINE From(k, n) == \E a \in 1..n : \E i \in DOMAIN s[a] : r[n][k] = s[a][i]
           P(n) == Spread(r[n]) /\ \A k \in DOMAIN r[n] : From(k, n)
           S == {n \in 0..N : P(n)}
<1>6. P(0)
  <2>1. DOMAIN r[0] = {}
    BY <1>5
  <2> QED BY <2>1 DEF Spread
<1>7. ASSUME NEW n \in 0..(N - 1), P(n) PROVE P(n + 1)
  <2>1. n \in 0..N /\ n + 1 \in 1..N /\ (n + 1) - 1 = n
    BY <1>4
  <2>2. PICK q, p, w : q = r[n] /\ p = s[n + 1] /\ w = r[n + 1]
    OBVIOUS
  <2>3. q \in Seq(D) /\ p \in Seq(D) /\ w = q \o p
    <3>1. r[n] \in Seq(D) /\ r[n + 1] = r[n] \o s[n + 1]
      BY <1>5, <2>1
    <3>2. s[n + 1] \in Seq(D)
      BY <1>2, <1>4, <2>1
    <3> QED BY <2>2, <3>1, <3>2
  <2>4. PICK M \in Nat : M = Len(q)
    BY <2>3
  <2>5. \A k \in DOMAIN w : \/ k \in DOMAIN q /\ w[k] = q[k]
                            \/ k - M \in DOMAIN p /\ w[k] = p[k - M]
    BY <2>3, <2>4, JoinedLists
  <2>6. Spread(q) /\ \A k \in DOMAIN q : \E a \in 1..n : \E i \in DOMAIN s[a] : q[k] = s[a][i]
    BY <1>7, <2>1, <2>2
  <2>7. Spread(p)
    BY <1>4, <2>1, <2>2 DEF SpreadOut
  <2>8. ASSUME NEW k \in DOMAIN q, NEW l \in DOMAIN p PROVE q[k] \cap p[l] = {}
    <3>1. PICK a \in 1..n : \E i \in DOMAIN s[a] : q[k] = s[a][i]
      BY <2>6
    <3>2. PICK i \in DOMAIN s[a] : q[k] = s[a][i]
      BY <3>1
    <3>3. a \in 1..N /\ n + 1 \in 1..N /\ a # n + 1
      BY <2>1
    <3>4. s[a][i] \cap s[n + 1][l] = {}
      BY <1>4, <2>2, <3>3 DEF SpreadOut
    <3> QED BY <2>2, <3>2, <3>4
  <2>9. DOMAIN w \subseteq Int
    BY <2>3
  <2>10. ASSUME NEW i \in DOMAIN w, NEW j \in DOMAIN w, i # j PROVE w[i] \cap w[j] = {}
    <3>1. \/ i \in DOMAIN q /\ w[i] = q[i]
          \/ i - M \in DOMAIN p /\ w[i] = p[i - M]
      BY <2>5
    <3>2. \/ j \in DOMAIN q /\ w[j] = q[j]
          \/ j - M \in DOMAIN p /\ w[j] = p[j - M]
      BY <2>5
    <3>3. i - M # j - M
      <4>1. i \in Int /\ j \in Int
        BY ONLY <2>9, i \in DOMAIN w, j \in DOMAIN w
      <4> QED BY ONLY <2>10, <4>1, M \in Nat
    <3>4. \A a \in DOMAIN q, b \in DOMAIN q : a # b => q[a] \cap q[b] = {}
      BY <2>6 DEF Spread
    <3>5. \A a \in DOMAIN p, b \in DOMAIN p : a # b => p[a] \cap p[b] = {}
      BY <2>7 DEF Spread
    <3> QED BY ONLY <2>8, <2>10, <3>1, <3>2, <3>3, <3>4, <3>5
  <2>11. ASSUME NEW k \in DOMAIN w PROVE Fits(w[k])
    BY <2>5, <2>6, <2>7 DEF Spread
  <2>12. Spread(w)
    BY <2>10, <2>11 DEF Spread
  <2>13. ASSUME NEW k \in DOMAIN w PROVE \E a \in 1..(n + 1) : \E i \in DOMAIN s[a] : w[k] = s[a][i]
    <3>1. CASE k \in DOMAIN q /\ w[k] = q[k]
      <4>1. PICK a \in 1..n : \E i \in DOMAIN s[a] : q[k] = s[a][i]
        BY <2>6, <3>1
      <4>2. a \in 1..(n + 1)
        OBVIOUS
      <4> QED BY <3>1, <4>1, <4>2
    <3>2. CASE k - M \in DOMAIN p /\ w[k] = p[k - M]
      <4>1. n + 1 \in 1..(n + 1)
        OBVIOUS
      <4> QED BY <2>2, <3>2, <4>1
    <3> QED BY <2>5, <3>1, <3>2
  <2> QED BY <2>2, <2>12, <2>13
<1> HIDE DEF P
<1>8. 0..N \subseteq S
  <2>1. 0 \in S
    BY <1>6
  <2>2. ASSUME NEW n \in 0..(N - 1), n \in S PROVE n + 1 \in S
    BY <1>7, <2>2
  <2> HIDE DEF S
  <2> QED BY <2>1, <2>2, InductionUpTo
<1>9. P(N)
  BY <1>8
<1>10. PICK w : w = FlattenSeq(s)
  OBVIOUS
<1>11. w = r[N] /\ w \in Seq(SUBSET Ops)
  BY <1>1, <1>3, <1>4, <1>5, <1>10
<1>12. Spread(w) /\ \A k \in DOMAIN w : \E a \in DOMAIN s : \E i \in DOMAIN s[a] : w[k] = s[a][i]
  <2>1. Spread(w)
    BY <1>9, <1>11 DEF P
  <2>2. ASSUME NEW k \in DOMAIN w PROVE \E a \in 1..N : \E i \in DOMAIN s[a] : w[k] = s[a][i]
    <3>1. k \in DOMAIN r[N]
      BY <1>11
    <3>2. From(k, N)
      BY <1>9, <3>1 DEF P
    <3> QED BY <1>11, <3>2
  <2>3. DOMAIN s = 1..N
    BY <1>4
  <2> QED BY ONLY <2>1, <2>2, <2>3
<1>13. FlattenSeq(s) \in Seq(SUBSET Ops)
  BY ONLY <1>10, <1>11
<1>14. Spread(FlattenSeq(s))
  BY ONLY <1>10, <1>12
<1>15. \A k \in DOMAIN FlattenSeq(s) : \E a \in DOMAIN s : \E i \in DOMAIN s[a] :
         FlattenSeq(s)[k] = s[a][i]
  BY ONLY <1>10, <1>12
<1> QED BY ONLY <1>13, <1>14, <1>15

-----------------------------------------------------------------------------
(* The images of the solved groups.                                        *)

LEMMA SolvedAreApart ==
  ASSUME groups \in [Slots -> SUBSET Ops], Apart(groups)
  PROVE  /\ Solved \in Seq(SUBSET Ops)
         /\ \A i, j \in DOMAIN Solved : i # j => Solved[i] \cap Solved[j] = {}
<1>1. PICK G : G = {g \in Alive : groups[g] \subseteq OpsIn(pat[1]) /\ Cardinality(groups[g]) >= 2}
  OBVIOUS
<1>2. G \subseteq Slots /\ IsFiniteSet(G)
  <2>1. G \subseteq Slots
    BY <1>1 DEF Alive
  <2> QED BY <2>1, SlotsFinite, FS_Subset
<1>3. PICK rk : rk = [g \in G |-> g]
  OBVIOUS
<1>4. Numbers(rk, G)
  <2>1. \A g \in G : rk[g] = g
    BY <1>3
  <2>2. \A g \in G : g \in Int
    BY <1>2 DEF Slots
  <2> QED BY ONLY <2>1, <2>2 DEF Numbers
<1>5. PICK c : c = [x \in G |-> Cardinality({y \in G : rk[y] < rk[x]})]
  OBVIOUS
<1>6. Counts(c, rk, G)
  BY <1>5 DEF Counts
<1>7. PICK slots : slots = Sorted(G, <)
  OBVIOUS
<1>8. Lists(slots, c, G)
  <2> DEFINE Fresh(x) == Cardinality({y \in G : y < x})
  <2>1. \A x \in G : c[x] = Fresh(x)
    <3>1. \A g \in G : rk[g] = g
      BY <1>3
    <3>2. ASSUME NEW x \in G PROVE {y \in G : rk[y] < rk[x]} = {y \in G : y < x}
      BY <3>1
    <3> QED BY <1>5, <3>2
  <2>2. slots = [i \in 1..Cardinality(G) |-> CHOOSE x \in G : Fresh(x) = i - 1]
    BY <1>7 DEF Sorted
  <2> HIDE DEF Fresh
  <2>3. ASSUME NEW i \in 1..Cardinality(G)
        PROVE  (CHOOSE x \in G : Fresh(x) = i - 1) = (CHOOSE x \in G : c[x] = i - 1)
    BY ONLY <2>1
  <2>4. slots = [i \in 1..Cardinality(G) |-> CHOOSE x \in G : c[x] = i - 1]
    BY ONLY <2>2, <2>3
  <2> QED BY <2>4 DEF Lists
<1>9. Enumerates(slots, G)
  BY <1>2, <1>4, <1>6, <1>8, ListedByNumber
<1>10. PICK N \in Nat : N = Len(slots) /\ DOMAIN slots = 1..N
  BY <1>9, ListIsFunction
<1>11. /\ \A i \in 1..N : slots[i] \in Slots
       /\ \A i, j \in 1..N : slots[i] = slots[j] => i = j
  BY <1>2, <1>9, <1>10, ListIsFunction
<1>12. PICK s : s = Solved
  OBVIOUS
<1>13. s = [i \in 1..N |-> groups[slots[i]]]
  BY <1>1, <1>7, <1>10, <1>12 DEF Solved
<1>14. s \in Seq(SUBSET Ops) /\ DOMAIN s = 1..N
  <2>1. PICK D : D = SUBSET Ops
    OBVIOUS
  <2>2. \A i \in 1..N : groups[slots[i]] \in D
    BY <1>11, <2>1
  <2>3. s \in [1..N -> D] /\ N \in Nat
    BY <1>13, <2>2
  <2>4. s \in Seq(D) /\ DOMAIN s = 1..N
    BY ONLY <2>3
  <2> QED BY <2>1, <2>4
<1>15. ASSUME NEW i \in 1..N, NEW j \in 1..N, i # j PROVE s[i] \cap s[j] = {}
  <2>1. slots[i] # slots[j] /\ slots[i] \in Slots /\ slots[j] \in Slots
    BY <1>11, <1>15
  <2> QED BY <1>13, <2>1 DEF Apart
<1> QED BY <1>12, <1>14, <1>15

LEMMA ImageMembers ==
  ASSUME PatternOK(pat), NEW i \in DOMAIN pat, NEW S
  PROVE  /\ Image(S, pat[i]) \in SUBSET Ops
         /\ \A o \in Image(S, pat[i]) :
              \E k \in DOMAIN pat[i] : o = pat[i][k] /\ pat[1][k] \in S
<1>1. pat[i] \in Seq(Ops)
  BY DEF PatternOK
<1>2. \A k \in DOMAIN pat[i] : pat[i][k] \in Ops
  BY <1>1
<1> QED BY <1>2 DEF Image

LEMMA ImagesApart ==
  ASSUME PatternOK(pat), NEW i \in DOMAIN pat, NEW j \in DOMAIN pat, NEW S, NEW T,
         i # j \/ S \cap T = {}
  PROVE  Image(S, pat[i]) \cap Image(T, pat[j]) = {}
<1> SUFFICES ASSUME NEW o \in Image(S, pat[i]), o \in Image(T, pat[j]) PROVE FALSE
  OBVIOUS
<1>1. PICK k \in DOMAIN pat[i] : o = pat[i][k] /\ pat[1][k] \in S
  BY ImageMembers
<1>2. PICK l \in DOMAIN pat[j] : o = pat[j][l] /\ pat[1][l] \in T
  BY ImageMembers
<1>3. i = j /\ k = l
  <2>1. pat[i][k] = pat[j][l]
    BY <1>1, <1>2
  <2>2. \A a, b \in DOMAIN pat : \A x \in DOMAIN pat[a], y \in DOMAIN pat[b] :
          pat[a][x] = pat[b][y] => a = b /\ x = y
    BY DEF PatternOK
  <2> QED BY ONLY <2>1, <2>2, i \in DOMAIN pat, j \in DOMAIN pat, k \in DOMAIN pat[i],
             l \in DOMAIN pat[j]
<1> QED BY <1>1, <1>2, <1>3

(* What the images in component i are, one list for each solved group.     *)
ImagesIn(i) ==
  [j \in DOMAIN Solved |->
     IF Fits(Image(Solved[j], pat[i])) THEN <<Image(Solved[j], pat[i])>> ELSE <<>>]

LEMMA ImagesInAreSpread ==
  ASSUME groups \in [Slots -> SUBSET Ops], Apart(groups), PatternOK(pat), NEW i \in DOMAIN pat
  PROVE  /\ FlattenSeq(ImagesIn(i)) \in Seq(SUBSET Ops)
         /\ Spread(FlattenSeq(ImagesIn(i)))
         /\ \A k \in DOMAIN FlattenSeq(ImagesIn(i)) : \E S :
              FlattenSeq(ImagesIn(i))[k] = Image(S, pat[i])
<1>1. PICK solved : solved = Solved
  OBVIOUS
<1>2. /\ solved \in Seq(SUBSET Ops)
      /\ \A j, l \in DOMAIN solved : j # l => solved[j] \cap solved[l] = {}
  BY <1>1, SolvedAreApart
<1>3. PICK M \in Nat : DOMAIN solved = 1..M
  BY <1>2
<1>4. PICK f : f = [j \in 1..M |-> Image(solved[j], pat[i])]
  OBVIOUS
<1>5. \A j \in 1..M : f[j] \in SUBSET Ops
  BY <1>4, ImageMembers
<1>6. \A j, l \in 1..M : j # l => f[j] \cap f[l] = {}
  BY <1>2, <1>3, <1>4, ImagesApart
<1>7. PICK s : s = ImagesIn(i)
  OBVIOUS
<1>8. s = [j \in 1..M |-> IF Fits(f[j]) THEN <<f[j]>> ELSE <<>>]
  <2>1. \A j \in 1..M : f[j] = Image(solved[j], pat[i])
    BY <1>4
  <2>2. s = [j \in 1..M |-> IF Fits(Image(solved[j], pat[i]))
                           THEN <<Image(solved[j], pat[i])>> ELSE <<>>]
    BY <1>1, <1>3, <1>7, Zenon DEF ImagesIn
  <2>3. ASSUME NEW j \in 1..M
        PROVE  (IF Fits(f[j]) THEN <<f[j]>> ELSE <<>>)
               = (IF Fits(Image(solved[j], pat[i])) THEN <<Image(solved[j], pat[i])>> ELSE <<>>)
    BY ONLY <2>1, Zenon
  <2> QED BY ONLY <2>2, <2>3, Zenon
<1>9. ASSUME NEW j \in 1..M
      PROVE  /\ s[j] \in Seq(SUBSET Ops)
             /\ \A k \in DOMAIN s[j] : k = 1 /\ s[j][k] = f[j] /\ Fits(f[j])
  <2>1. CASE Fits(f[j])
    <3>1. s[j] = <<f[j]>>
      BY <1>8, <2>1
    <3> QED BY <1>5, <2>1, <3>1
  <2>2. CASE ~Fits(f[j])
    <3>1. s[j] = <<>>
      BY <1>8, <2>2
    <3> QED BY <3>1
  <2> QED BY <2>1, <2>2
<1>10. s \in Seq(Seq(SUBSET Ops)) /\ DOMAIN s = 1..M
  <2>1. PICK D : D = Seq(SUBSET Ops)
    OBVIOUS
  <2>2. \A j \in 1..M : s[j] \in D
    BY <1>9, <2>1
  <2>3. s \in [1..M -> D] /\ M \in Nat
    BY <1>8, <2>2
  <2>4. s \in Seq(D) /\ DOMAIN s = 1..M
    BY ONLY <2>3
  <2> QED BY <2>1, <2>4
<1>11. SpreadOut(s)
  <2>1. ASSUME NEW a \in DOMAIN s PROVE Spread(s[a])
    <3>1. \A k \in DOMAIN s[a] : k = 1 /\ s[a][k] = f[a] /\ Fits(f[a])
      BY <1>9, <1>10
    <3> QED BY <3>1 DEF Spread
  <2>2. ASSUME NEW a \in DOMAIN s, NEW b \in DOMAIN s, a # b,
               NEW k \in DOMAIN s[a], NEW l \in DOMAIN s[b]
        PROVE  s[a][k] \cap s[b][l] = {}
    <3>1. a \in 1..M /\ b \in 1..M
      BY <1>10
    <3>2. s[a][k] = f[a] /\ s[b][l] = f[b]
      BY <1>9, <3>1
    <3> QED BY <1>6, <2>2, <3>1, <3>2
  <2> QED BY <2>1, <2>2 DEF SpreadOut
<1>12. PICK w : w = FlattenSeq(s)
  OBVIOUS
<1>13. w \in Seq(SUBSET Ops) /\ Spread(w)
  BY <1>10, <1>11, <1>12, FlatIsSpread
<1>14. ASSUME NEW k \in DOMAIN w PROVE \E S : w[k] = Image(S, pat[i])
  <2>1. PICK a \in DOMAIN s : \E l \in DOMAIN s[a] : w[k] = s[a][l]
    BY <1>10, <1>11, <1>12, FlatIsSpread
  <2>2. a \in 1..M
    BY <1>10
  <2>3. w[k] = f[a]
    BY <1>9, <2>1, <2>2
  <2> QED BY <1>4, <2>2, <2>3
<1>15. w = FlattenSeq(ImagesIn(i))
  BY <1>7, <1>12
<1> QED BY ONLY <1>13, <1>14, <1>15

LEMMA ImagesAreSpread ==
  ASSUME groups \in [Slots -> SUBSET Ops], Apart(groups), PatternOK(pat)
  PROVE  Images \in Seq(SUBSET Ops) /\ Spread(Images)
<1>1. PICK M \in Nat : DOMAIN pat = 1..M
  <2>1. pat \in Seq(Seq(Ops))
    BY DEF PatternOK
  <2> QED BY <2>1
<1>2. PICK s : s = [i \in 1..M |-> FlattenSeq(ImagesIn(i))]
  OBVIOUS
<1>3. Images = FlattenSeq(s)
  BY <1>1, <1>2, Zenon DEF Images, ImagesIn
<1>4. ASSUME NEW i \in 1..M
      PROVE  /\ s[i] \in Seq(SUBSET Ops) /\ Spread(s[i])
             /\ \A k \in DOMAIN s[i] : \E S : s[i][k] = Image(S, pat[i])
  <2>1. s[i] = FlattenSeq(ImagesIn(i)) /\ i \in DOMAIN pat
    BY <1>1, <1>2
  <2> QED BY <2>1, ImagesInAreSpread
<1>5. s \in Seq(Seq(SUBSET Ops)) /\ DOMAIN s = 1..M
  <2>1. PICK D : D = Seq(SUBSET Ops)
    OBVIOUS
  <2>2. \A i \in 1..M : s[i] \in D
    BY <1>4, <2>1
  <2>3. s \in [1..M -> D] /\ M \in Nat
    BY <1>2, <2>2
  <2>4. s \in Seq(D) /\ DOMAIN s = 1..M
    BY ONLY <2>3
  <2> QED BY <2>1, <2>4
<1>6. SpreadOut(s)
  <2>1. ASSUME NEW a \in DOMAIN s PROVE Spread(s[a])
    BY <1>4, <1>5
  <2>2. ASSUME NEW a \in DOMAIN s, NEW b \in DOMAIN s, a # b,
               NEW k \in DOMAIN s[a], NEW l \in DOMAIN s[b]
        PROVE  s[a][k] \cap s[b][l] = {}
    <3>1. PICK S : s[a][k] = Image(S, pat[a])
      BY <1>4, <1>5
    <3>2. PICK T : s[b][l] = Image(T, pat[b])
      BY <1>4, <1>5
    <3>3. a \in DOMAIN pat /\ b \in DOMAIN pat
      BY <1>1, <1>5
    <3>4. Image(S, pat[a]) \cap Image(T, pat[b]) = {}
      BY <2>2, <3>3, ImagesApart
    <3> QED BY <3>1, <3>2, <3>4
  <2> QED BY <2>1, <2>2 DEF SpreadOut
<1> QED BY <1>3, <1>5, <1>6, FlatIsSpread

(* The new partition: the images, and the singletons they leave.           *)
Replicated(tab, q) ==
  tab = [g \in Slots |-> IF g - Cardinality(Ops) \in DOMAIN q THEN q[g - Cardinality(Ops)]
                         ELSE TrivialTable[g] \ CoveredBy(q)]

(* Every op is in one group, and the groups fit.                           *)
SharedOut(tab) ==
  /\ tab \in [Slots -> SUBSET Ops]
  /\ \A o \in Ops : \E g \in Slots : \A h \in Slots : o \in tab[h] <=> h = g
  /\ \A g \in Slots : tab[g] # {} => Fits(tab[g])

LEMMA ReplicatedIsSharedOut ==
  ASSUME prob \in Problems, NEW q \in Seq(SUBSET Ops), Spread(q),
         Cardinality(Ops) + Len(q) <= MaxGroups, NEW tab, Replicated(tab, q)
  PROVE  SharedOut(tab)
<1>1. PICK n \in Nat, m \in Nat : n = Cardinality(Ops) /\ m = Len(q) /\ DOMAIN q = 1..m
  BY SlotsOfOps
<1>2. n + m <= MaxGroups /\ MaxGroups \in Nat /\ Slots = 1..MaxGroups
  BY <1>1, MaxGroupsAssumption DEF Slots
<1>3. PICK K : K = CoveredBy(q)
  OBVIOUS
<1>4. \A o : o \in K <=> \E i \in 1..m : o \in q[i]
  BY <1>1, <1>3 DEF CoveredBy
<1>5. \A i \in 1..m : q[i] \in SUBSET Ops /\ Fits(q[i])
  BY <1>1 DEF Spread
<1>6. \A i, j \in 1..m : i # j => q[i] \cap q[j] = {}
  BY <1>1 DEF Spread
<1>7. ASSUME NEW g \in Slots
      PROVE  /\ g \in Int
             /\ g - n \in 1..m => tab[g] = q[g - n]
             /\ g - n \notin 1..m => tab[g] = {o \in Ops : SlotOf(o) = g} \ K
  <2>1. tab[g] = IF g - n \in DOMAIN q THEN q[g - n] ELSE TrivialTable[g] \ K
    BY <1>1, <1>3 DEF Replicated
  <2>2. TrivialTable[g] = {o \in Ops : SlotOf(o) = g}
    BY DEF TrivialTable
  <2> QED BY <1>1, <1>2, <2>1, <2>2
<1>8. tab \in [Slots -> SUBSET Ops]
  <2>1. \A g \in Slots : tab[g] \in SUBSET Ops
    BY <1>5, <1>7
  <2> QED BY <2>1 DEF Replicated
<1>9. ASSUME NEW o \in Ops
      PROVE  \E g \in Slots : \A h \in Slots : o \in tab[h] <=> h = g
  <2>1. CASE o \in K
    <3>1. PICK i \in 1..m : o \in q[i]
      BY <1>4, <2>1
    <3>2. n + i \in Slots /\ (n + i) - n = i
      BY <1>2
    <3>3. o \in tab[n + i]
      BY <1>7, <3>1, <3>2
    <3>4. ASSUME NEW h \in Slots, o \in tab[h] PROVE h = n + i
      <4>1. h - n \in 1..m
        BY <1>7, <2>1, <3>4
      <4>2. o \in q[h - n]
        BY <1>7, <3>4, <4>1
      <4>3. h - n = i
        BY <1>6, <3>1, <4>1, <4>2
      <4> QED BY <1>7, <4>3
    <3> QED BY <3>2, <3>3, <3>4
  <2>2. CASE o \notin K
    <3>1. SlotOf(o) \in 1..n
      BY <1>1, SlotsOfOps
    <3>2. PICK g \in Slots : g = SlotOf(o) /\ g - n \notin 1..m
      BY <1>2, <3>1
    <3>3. o \in tab[g]
      BY <1>7, <2>2, <3>2
    <3>4. ASSUME NEW h \in Slots, o \in tab[h] PROVE h = g
      <4>1. h - n \notin 1..m
        BY <1>4, <1>7, <2>2, <3>4
      <4> QED BY <1>7, <3>2, <3>4, <4>1
    <3> QED BY <3>3, <3>4
  <2> QED BY <2>1, <2>2
<1>10. ASSUME NEW g \in Slots, tab[g] # {} PROVE Fits(tab[g])
  <2>1. CASE g - n \in 1..m
    BY <1>5, <1>7, <2>1
  <2>2. CASE g - n \notin 1..m
    <3>1. tab[g] = {o \in Ops : SlotOf(o) = g} \ K
      BY <1>7, <2>2
    <3>2. PICK o \in Ops : o \in tab[g] /\ SlotOf(o) = g
      BY <1>10, <3>1
    <3>3. \A u \in Ops : SlotOf(u) = g => u = o
      BY <3>2, SlotsOfOps
    <3>4. tab[g] = {o}
      BY <3>1, <3>2, <3>3
    <3>5. {o} \in prob.fits
      BY ProblemsAssumption
    <3> QED BY <3>4, <3>5 DEF Fits
  <2> QED BY <2>1, <2>2
<1> QED BY <1>8, <1>9, <1>10 DEF SharedOut

-----------------------------------------------------------------------------
(* The invariant *)

SymmInv ==
  /\ DetectInv
  /\ stage \in {"detect", "solve", "done"}
  /\ groups \in [Slots -> SUBSET Ops]
  /\ stage # "done" => Apart(groups)
  /\ stage # "detect" => PatternOK(pat)
  /\ ReplicatedOnce

LEMMA SymmInitHolds == SymmInit => SymmInv
<1> SUFFICES ASSUME SymmInit PROVE SymmInv
  OBVIOUS
<1>1. DetectInv
  BY DetectInitHolds
<1>2. stage = "detect" /\ groups = TrivialTable
  BY DEF SymmInit, PartitionInit
<1>3. groups \in [Slots -> SUBSET Ops] /\ Apart(groups)
  BY <1>2 DEF TrivialTable, Apart
<1>4. ReplicatedOnce
  BY <1>2 DEF ReplicatedOnce
<1> QED BY <1>1, <1>2, <1>3, <1>4 DEF SymmInv

LEMMA ChooseKeepsSymmInv ==
  ASSUME SymmInv, DetectInv', Choose
  PROVE  SymmInv'
<1>1. stage' = "solve" /\ groups' = groups /\ stage = "detect" /\ prob' = prob
  BY DEF Choose, partVars
<1>2. groups \in [Slots -> SUBSET Ops] /\ Apart(groups)
  BY <1>1 DEF SymmInv
<1>3. Apart(groups)'
  <2>1. \A g, h \in Slots : g # h => groups'[g] \cap groups'[h] = {}
    BY <1>1, <1>2 DEF Apart
  <2> QED BY <2>1 DEF Apart
<1>4. prob \in Problems /\ rank \in HashOrders /\ Cells(merkle.all, Ops) /\ patterns \subseteq Families
  BY DEF SymmInv, DetectInv, Hashes, Choose
<1>5. PatternOK(pat')
  <2>1. pat' \in {Parallel(P) : P \in patterns} \cup Series
    BY DEF Choose
  <2>2. CASE pat' \in Series
    BY <1>4, <2>2, SeriesIsPattern
  <2>3. CASE pat' \in {Parallel(P) : P \in patterns}
    <3>1. PICK P \in patterns : pat' = Parallel(P)
      BY <2>3
    <3>2. PatternOK(Parallel(P))
      BY <1>4, ParallelIsPattern
    <3> QED BY <3>1, <3>2
  <2> QED BY <2>1, <2>2, <2>3
<1>6. PatternOK(pat)'
  BY <1>5 DEF PatternOK
<1>7. ReplicatedOnce'
  BY <1>1 DEF ReplicatedOnce
<1>8. (groups \in [Slots -> SUBSET Ops])' /\ (stage \in {"detect", "solve", "done"})'
  BY <1>1, <1>2
<1> QED BY <1>1, <1>3, <1>6, <1>7, <1>8 DEF SymmInv

LEMMA DetectKeepsSymmInv ==
  ASSUME SymmInv, DetectInv', UNCHANGED <<partVars, pat, stage>>
  PROVE  SymmInv'
<1>1. prob' = prob /\ groups' = groups /\ index' = index /\ pat' = pat /\ stage' = stage
  BY DEF partVars
<1>2. /\ stage \in {"detect", "solve", "done"}
      /\ groups \in [Slots -> SUBSET Ops]
      /\ stage # "done" => Apart(groups)
      /\ stage # "detect" => PatternOK(pat)
      /\ ReplicatedOnce
  BY DEF SymmInv
<1>3. (stage \in {"detect", "solve", "done"})' /\ (groups \in [Slots -> SUBSET Ops])'
  BY <1>1, <1>2
<1>4. (stage # "done" => Apart(groups))' /\ (stage # "detect" => PatternOK(pat))'
  BY <1>1, <1>2 DEF Apart, PatternOK
<1>5. ReplicatedOnce'
  BY <1>1, <1>2 DEF ReplicatedOnce, Alive, GroupsOf, Fits
<1> QED BY <1>3, <1>4, <1>5 DEF SymmInv

LEMMA SolveKeepsSymmInv ==
  ASSUME SymmInv, DetectInv', SolveComponent
  PROVE  SymmInv'
<1>1. stage = "solve" /\ stage' = stage /\ pat' = pat
  BY DEF SolveComponent
<1>2. groups \in [Slots -> SUBSET Ops] /\ Apart(groups) /\ PatternOK(pat)
  BY <1>1 DEF SymmInv
<1>3. PICK ga \in Slots, gb \in Slots :
        ga # gb /\ groups' = [groups EXCEPT ![ga] = groups[ga] \cup groups[gb], ![gb] = {}]
  BY DEF SolveComponent, Alive
<1>4. \A g \in Slots : groups'[g] = IF g = gb THEN {}
                                    ELSE IF g = ga THEN groups[ga] \cup groups[gb] ELSE groups[g]
  BY <1>2, <1>3
<1>5. groups' \in [Slots -> SUBSET Ops]
  BY <1>2, <1>3
<1>6. Apart(groups)'
  <2>1. ASSUME NEW g \in Slots, NEW h \in Slots, g # h PROVE groups'[g] \cap groups'[h] = {}
    <3>1. \A a, b \in Slots : a # b => groups[a] \cap groups[b] = {}
      BY <1>2 DEF Apart
    <3>2. ga # gb
      BY <1>3
    <3> QED BY ONLY <1>4, <2>1, <3>1, <3>2, ga \in Slots, gb \in Slots
  <2> QED BY <2>1 DEF Apart
<1>7. PatternOK(pat)' /\ ReplicatedOnce' /\ (stage \in {"detect", "solve", "done"})'
  BY <1>1, <1>2 DEF PatternOK, ReplicatedOnce
<1> QED BY <1>5, <1>6, <1>7 DEF SymmInv

LEMMA ReplicateIsExact ==
  ASSUME SymmInv, Replicate
  PROVE  ReplicatedOnce' /\ groups' \in [Slots -> SUBSET Ops]
<1>1. /\ prob \in Problems /\ prob' = prob
      /\ groups \in [Slots -> SUBSET Ops] /\ Apart(groups) /\ PatternOK(pat)
  BY DEF SymmInv, DetectInv, Replicate
<1>2. PICK q : q = Images
  OBVIOUS
<1>3. q \in Seq(SUBSET Ops) /\ Spread(q)
  BY <1>1, <1>2, ImagesAreSpread
<1>4. PICK tab : tab = groups'
  OBVIOUS
<1>5. Cardinality(Ops) + Len(q) <= MaxGroups /\ Replicated(tab, q)
  BY <1>2, <1>4 DEF Replicate, Replicated
<1>6. SharedOut(tab)
  BY <1>1, <1>3, <1>5, ReplicatedIsSharedOut
<1>7. index' = IndexOf(tab)
  BY <1>4 DEF Replicate
<1>8. ASSUME NEW o \in Ops PROVE GroupsOf(o)' = {g \in Slots : o \in tab[g]}
  <2>1. \A g \in Slots : index'[o][g] = IF o \in tab[g] THEN 1 ELSE 0
    BY <1>7 DEF IndexOf
  <2> QED BY <2>1 DEF GroupsOf
<1>9. Alive' = {g \in Slots : tab[g] # {}}
  BY <1>4 DEF Alive
<1>10. ASSUME NEW o \in Ops PROVE \E g \in Alive' : GroupsOf(o)' = {g}
  <2>1. PICK g \in Slots : \A h \in Slots : o \in tab[h] <=> h = g
    BY <1>6 DEF SharedOut
  <2>2. g \in Alive'
    BY <1>9, <2>1
  <2>3. GroupsOf(o)' = {g}
    BY <1>8, <2>1
  <2> QED BY <2>2, <2>3
<1>11. ASSUME NEW g \in Alive' PROVE Fits(groups[g])'
  <2>1. g \in Slots /\ tab[g] # {}
    BY <1>9
  <2>2. tab[g] \in prob.fits
    BY <1>6, <2>1 DEF SharedOut, Fits
  <2>3. groups'[g] \in prob'.fits
    BY <1>1, <1>4, <2>2
  <2> QED BY ONLY <2>3 DEF Fits
<1>12. ReplicatedOnce'
  BY <1>10, <1>11 DEF ReplicatedOnce
<1> QED BY <1>4, <1>6, <1>12 DEF SharedOut

LEMMA ReplicateKeepsSymmInv ==
  ASSUME SymmInv, DetectInv', Replicate
  PROVE  SymmInv'
<1>1. stage = "solve" /\ stage' = "done" /\ pat' = pat
  BY DEF Replicate
<1>2. PatternOK(pat)
  BY <1>1 DEF SymmInv
<1>3. PatternOK(pat)'
  BY <1>1, <1>2 DEF PatternOK
<1> QED BY <1>1, <1>3, ReplicateIsExact DEF SymmInv

LEMMA SymmStepKeepsInv ==
  ASSUME SymmInv, [SymmNext]_symmVars
  PROVE  SymmInv'
<1>1. DetectInv'
  <2>1. DetectInv
    BY DEF SymmInv
  <2> QED BY <2>1, DetectStepKeepsInv
<1>2. CASE Detect \/ UNCHANGED symmVars
  <2>1. UNCHANGED <<partVars, pat, stage>>
    BY <1>2 DEF Detect, symmVars, partVars
  <2> QED BY <1>1, <2>1, DetectKeepsSymmInv
<1>3. CASE Choose
  BY <1>1, <1>3, ChooseKeepsSymmInv
<1>4. CASE SolveComponent
  BY <1>1, <1>4, SolveKeepsSymmInv
<1>5. CASE Replicate
  BY <1>1, <1>5, ReplicateKeepsSymmInv
<1> QED BY <1>2, <1>3, <1>4, <1>5 DEF SymmNext

THEOREM SymmInvariance == SymmSpec => []SymmInv
<1> QED BY SymmInitHolds, SymmStepKeepsInv, PTL DEF SymmSpec

(* Whatever pattern is replicated, parallel or a series: every op is in    *)
(* exactly one group of the partition that is made of it, and every group  *)
(* fits (symm_init.cpp, init_from_patterns).                               *)
THEOREM ReplicationIsExact == SymmSpec => []ReplicatedOnce
<1>1. SymmInv => ReplicatedOnce
  BY DEF SymmInv
<1> QED BY <1>1, SymmInvariance, PTL
=============================================================================
