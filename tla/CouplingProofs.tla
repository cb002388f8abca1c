--------------------------- MODULE CouplingProofs ---------------------------
(***************************************************************************)
(* The upkeep of the links, for every op graph and every bound.            *)
(***************************************************************************)
EXTENDS Coupling, FmMovesProofs

-----------------------------------------------------------------------------
(* Links as three maps: what follows a group, what it follows, and what is *)
(* kept between two groups.                                                *)

Store == [next : [Slots -> Slots \cup {None}],
          prev : [Slots -> Slots \cup {None}],
          kept : SUBSET (Slots \X Slots \X Ops)]

(* The back pointer is never missing.                                      *)
Backed(L) == \A a \in Slots : L.next[a] # None => L.prev[L.next[a]] = a

(* Nor is the forward pointer.                                             *)
Mutual(L) == \A b \in Slots : L.prev[b] # None => L.next[L.prev[b]] = b

(* Tensors are kept exactly where there is a link.                         *)
Matched(L) ==
  \A a, b \in Slots : /\ L.next[a] = b => Kept(L, a, b) # {}
                      /\ Kept(L, a, b) # {} => L.next[a] = b

(* A group that links take no notice of.                                   *)
Idle(L, x) ==
  /\ L.next[x] = None /\ L.prev[x] = None
  /\ \A a \in Slots : /\ L.next[a] # x /\ L.prev[a] # x
                      /\ Kept(L, a, x) = {} /\ Kept(L, x, a) = {}

(* Only with something to keep does a group ever follow itself.            *)
SelfKept(L) == \A a \in Slots : L.next[a] = a => Kept(L, a, a) # {}

Plain(L) == \A a \in Slots : L.next[a] # a

(* Links that leave the slots in U alone.                                  *)
Fine(L, U) == L \in Store /\ Backed(L) /\ SelfKept(L) /\ \A x \in U : Idle(L, x)

(* M is L with less.                                                       *)
Trims(L, M) ==
  \A a \in Slots : /\ M.next[a] \in {L.next[a], None}
                   /\ \A b \in Slots : Kept(M, a, b) \subseteq Kept(L, a, b)

Upkeep(L, M) == (Mutual(L) => Mutual(M)) /\ (Matched(L) => Matched(M))

Joint(L, M) == Mutual(L) /\ Matched(L) => Mutual(M) /\ Matched(M)

(* L without the link a -> b; with a link a -> b that keeps S besides what *)
(* was kept; with what is kept for it cut down to S.                       *)
Untied(L, M, a, b) ==
  /\ M \in Store
  /\ \A g \in Slots : /\ M.next[g] = IF g = a THEN None ELSE L.next[g]
                      /\ M.prev[g] = IF g = b THEN None ELSE L.prev[g]
  /\ \A c, d \in Slots : Kept(M, c, d) = IF c = a /\ d = b THEN {} ELSE Kept(L, c, d)

Tied(L, M, a, b, S) ==
  /\ M \in Store
  /\ \A g \in Slots : /\ M.next[g] = IF g = a THEN b ELSE L.next[g]
                      /\ M.prev[g] = IF g = b THEN a ELSE L.prev[g]
  /\ \A c, d \in Slots :
       Kept(M, c, d) = IF c = a /\ d = b THEN Kept(L, a, b) \cup S ELSE Kept(L, c, d)

Narrowed(L, M, a, b, S) ==
  /\ M \in Store
  /\ \A g \in Slots : M.next[g] = L.next[g] /\ M.prev[g] = L.prev[g]
  /\ \A c, d \in Slots :
       Kept(M, c, d) = IF c = a /\ d = b THEN Kept(L, a, b) \cap S ELSE Kept(L, c, d)

LEMMA NoneApart == None \notin Slots
  BY MaxGroupsAssumption DEF None, Slots

LEMMA TripleMembers ==
  ASSUME NEW a \in Slots, NEW b \in Slots, NEW S \in SUBSET Ops,
         NEW c, NEW d, NEW t
  PROVE  <<c, d, t>> \in Triples(a, b, S) <=> c = a /\ d = b /\ t \in S
  BY DEF Triples

LEMMA UnlinkView ==
  ASSUME NEW L \in Store, NEW a \in Slots, NEW b \in Slots, NEW M, M = Unlink(L, a, b)
  PROVE  Untied(L, M, a, b)
<1>1. M.kept = L.kept \ Triples(a, b, Ops)
  BY DEF Unlink
<1>2. M \in Store
  BY <1>1 DEF Unlink, Store
<1>3. ASSUME NEW c \in Slots, NEW d \in Slots
      PROVE  Kept(M, c, d) = IF c = a /\ d = b THEN {} ELSE Kept(L, c, d)
  <2>1. \A t \in Ops : <<c, d, t>> \in M.kept <=> <<c, d, t>> \in L.kept /\ ~(c = a /\ d = b)
    BY <1>1, TripleMembers
  <2> QED BY <2>1 DEF Kept
<1> QED BY <1>2, <1>3 DEF Unlink, Store, Untied

LEMMA LinkView ==
  ASSUME NEW L \in Store, NEW a \in Slots, NEW b \in Slots, NEW S \in SUBSET Ops,
         NEW M, M = Link(L, a, b, S)
  PROVE  Tied(L, M, a, b, S)
<1>1. M.kept = L.kept \cup Triples(a, b, S)
  BY DEF Link
<1>2. M \in Store
  <2>1. Triples(a, b, S) \in SUBSET (Slots \X Slots \X Ops)
    BY DEF Triples
  <2> QED BY <1>1, <2>1 DEF Link, Store
<1>3. ASSUME NEW c \in Slots, NEW d \in Slots
      PROVE  Kept(M, c, d) = IF c = a /\ d = b THEN Kept(L, a, b) \cup S ELSE Kept(L, c, d)
  <2>1. \A t \in Ops : <<c, d, t>> \in M.kept
                         <=> <<c, d, t>> \in L.kept \/ (c = a /\ d = b /\ t \in S)
    BY <1>1, TripleMembers
  <2> QED BY <2>1 DEF Kept
<1> QED BY <1>2, <1>3 DEF Link, Store, Tied

(* L with what is kept between a and b cut down to S. *)
LEMMA RestrictView ==
  ASSUME NEW L \in Store, NEW a \in Slots, NEW b \in Slots, NEW S,
         NEW M, M = [L EXCEPT !.kept = @ \ Triples(a, b, Ops \ S)]
  PROVE  Narrowed(L, M, a, b, S)
<1>1. M.kept = L.kept \ Triples(a, b, Ops \ S)
  BY DEF Store
<1>2. M \in Store /\ M.next = L.next /\ M.prev = L.prev
  BY <1>1 DEF Store
<1>3. ASSUME NEW c \in Slots, NEW d \in Slots
      PROVE  Kept(M, c, d) = IF c = a /\ d = b THEN Kept(L, a, b) \cap S ELSE Kept(L, c, d)
  <2>1. \A t \in Ops : <<c, d, t>> \in M.kept
                         <=> <<c, d, t>> \in L.kept /\ ~(c = a /\ d = b /\ t \notin S)
    <3>1. Ops \ S \in SUBSET Ops
      OBVIOUS
    <3> QED BY <1>1, <3>1, TripleMembers
  <2> QED BY <2>1 DEF Kept
<1> QED BY <1>2, <1>3 DEF Narrowed

LEMMA KeptOps ==
  ASSUME NEW L, NEW a, NEW b
  PROVE  Kept(L, a, b) \in SUBSET Ops
  BY DEF Kept

LEMMA JointUpkeep ==
  ASSUME NEW L, NEW M
  PROVE  Upkeep(L, M) => Joint(L, M)
  BY DEF Upkeep, Joint

(* Taking a link away. *)
LEMMA UnlinkKeeps ==
  ASSUME NEW U \in SUBSET Slots, NEW L, Fine(L, U), NEW a \in Slots, NEW b \in Slots,
         L.prev[b] = a,
         NEW M, M = Unlink(L, a, b)
  PROVE  /\ Fine(M, U) /\ Trims(L, M) /\ Joint(L, M)
         /\ L.next[a] = b => Upkeep(L, M)
<1>1. L \in Store /\ Backed(L) /\ SelfKept(L) /\ \A x \in U : Idle(L, x)
  BY DEF Fine
<1>0. Untied(L, M, a, b)
  BY <1>1, UnlinkView
<1>2. /\ M \in Store
      /\ \A g \in Slots : /\ M.next[g] = IF g = a THEN None ELSE L.next[g]
                          /\ M.prev[g] = IF g = b THEN None ELSE L.prev[g]
      /\ \A c, d \in Slots : Kept(M, c, d) = IF c = a /\ d = b THEN {} ELSE Kept(L, c, d)
  BY <1>0 DEF Untied
<1>3. \A g \in Slots : /\ L.next[g] \in Slots \cup {None}
                      /\ L.prev[g] \in Slots \cup {None}
  BY <1>1 DEF Store
<1>4. Backed(M)
  BY <1>1, <1>2, <1>3, NoneApart DEF Backed
<1>5. SelfKept(M)
  BY <1>1, <1>2, NoneApart DEF SelfKept
<1>6. \A x \in U : Idle(M, x)
  BY <1>1, <1>2, NoneApart DEF Idle
<1>7. Trims(L, M)
  BY <1>2 DEF Trims
<1>8. Mutual(L) => Mutual(M) /\ L.next[a] = b
  BY <1>1, <1>2, <1>3, NoneApart DEF Backed, Mutual
<1>9. Matched(L) /\ L.next[a] = b => Matched(M)
  BY <1>2, <1>3, NoneApart DEF Matched
<1> QED BY <1>2, <1>4, <1>5, <1>6, <1>7, <1>8, <1>9 DEF Fine, Upkeep, Joint

(* Making a link between two free ends. *)
Joins(L, M, a, b, S, U) ==
  /\ Fine(M, U)
  /\ Mutual(L) /\ L.next[a] \in {None, b} => Mutual(M)
  /\ Matched(L) /\ L.next[a] \in {None, b} /\ Kept(L, a, b) \cup S # {} => Matched(M)
  /\ a # b /\ Plain(L) => Plain(M)

LEMMA LinkKeeps ==
  ASSUME NEW U \in SUBSET Slots, NEW L, Fine(L, U),
         NEW a \in Slots \ U, NEW b \in Slots \ U, NEW S \in SUBSET Ops,
         L.prev[b] \in {None, a}, a = b => S # {},
         NEW M, M = Link(L, a, b, S)
  PROVE  Joins(L, M, a, b, S, U)
<1>1. L \in Store /\ Backed(L) /\ SelfKept(L) /\ \A x \in U : Idle(L, x)
  BY DEF Fine
<1>0. Tied(L, M, a, b, S)
  BY <1>1, LinkView
<1>2. /\ M \in Store
      /\ \A g \in Slots : /\ M.next[g] = IF g = a THEN b ELSE L.next[g]
                          /\ M.prev[g] = IF g = b THEN a ELSE L.prev[g]
      /\ \A c, d \in Slots :
           Kept(M, c, d) = IF c = a /\ d = b THEN Kept(L, a, b) \cup S ELSE Kept(L, c, d)
  BY <1>0 DEF Tied
<1>3. \A g \in Slots : /\ L.next[g] \in Slots \cup {None}
                      /\ L.prev[g] \in Slots \cup {None}
  BY <1>1 DEF Store
<1>4. Backed(M)
  BY <1>1, <1>2, <1>3, NoneApart DEF Backed
<1>5. SelfKept(M)
  BY <1>1, <1>2, NoneApart DEF SelfKept
<1>6. \A x \in U : Idle(M, x)
  BY <1>1, <1>2, NoneApart DEF Idle
<1>7. Mutual(L) /\ L.next[a] \in {None, b} => Mutual(M)
  BY <1>1, <1>2, <1>3, NoneApart DEF Backed, Mutual
<1>8. Matched(L) /\ L.next[a] \in {None, b} /\ Kept(L, a, b) \cup S # {} => Matched(M)
  BY <1>2, <1>3, NoneApart DEF Matched
<1>9. a # b /\ Plain(L) => Plain(M)
  BY <1>2 DEF Plain
<1> QED BY <1>2, <1>4, <1>5, <1>6, <1>7, <1>8, <1>9 DEF Fine, Joins

(* Cutting down what a link keeps. *)
Prunes(L, M, a, b, S, U) ==
  /\ Fine(M, U) /\ Trims(L, M) /\ Upkeep(L, M)
  /\ Kept(M, a, b) \subseteq S
  /\ M.next[a] = b => Kept(M, a, b) # {} \/ Kept(L, a, b) = {}

LEMMA PruneKeeps ==
  ASSUME NEW U \in SUBSET Slots, NEW L, Fine(L, U), NEW a \in Slots, NEW b \in Slots,
         L.prev[b] = a, NEW S,
         NEW M, M = PruneLink(L, a, b, S)
  PROVE  Prunes(L, M, a, b, S, U)
<1>1. L \in Store /\ Backed(L) /\ SelfKept(L) /\ \A x \in U : Idle(L, x)
  BY DEF Fine
<1>3. \A g \in Slots : /\ L.next[g] \in Slots \cup {None}
                      /\ L.prev[g] \in Slots \cup {None}
  BY <1>1 DEF Store
<1>4. CASE Kept(L, a, b) = {}
  BY <1>4 DEF PruneLink, Upkeep, Trims, Prunes
<1>5. CASE Kept(L, a, b) # {} /\ Kept(L, a, b) \cap S = {}
  <2>1. M = Unlink(L, a, b)
    BY <1>5 DEF PruneLink
  <2>2. Matched(L) => L.next[a] = b
    BY <1>5 DEF Matched
  <2>3. Mutual(L) => L.next[a] = b
    BY NoneApart DEF Mutual
  <2>3a. Untied(L, M, a, b)
    BY <1>1, <2>1, UnlinkView
  <2>4. M.next[a] = None /\ Kept(M, a, b) = {}
    BY <2>3a DEF Untied
  <2>5. Fine(M, U) /\ Trims(L, M) /\ (L.next[a] = b => Upkeep(L, M))
    BY <2>1, UnlinkKeeps
  <2> QED BY <2>2, <2>3, <2>4, <2>5, NoneApart DEF Upkeep, Prunes
<1>6. CASE Kept(L, a, b) \cap S # {}
  <2>1. M = [L EXCEPT !.kept = @ \ Triples(a, b, Ops \ S)]
    BY <1>6 DEF PruneLink
  <2>0. Narrowed(L, M, a, b, S)
    BY <1>1, <2>1, RestrictView
  <2>2. /\ M \in Store
        /\ \A g \in Slots : M.next[g] = L.next[g] /\ M.prev[g] = L.prev[g]
        /\ \A c, d \in Slots :
             Kept(M, c, d) = IF c = a /\ d = b THEN Kept(L, a, b) \cap S ELSE Kept(L, c, d)
    BY <2>0 DEF Narrowed
  <2>3. Backed(M) /\ Trims(L, M) /\ (Mutual(L) => Mutual(M))
    BY <1>1, <1>3, <2>2, NoneApart DEF Backed, Trims, Mutual
  <2>4. SelfKept(M) /\ (Matched(L) => Matched(M))
    BY <1>1, <1>6, <2>2 DEF SelfKept, Matched
  <2>5. \A x \in U : Idle(M, x)
    BY <1>1, <2>2 DEF Idle
  <2>6. Kept(M, a, b) \subseteq S /\ Kept(M, a, b) # {}
    BY <1>6, <2>2
  <2> QED BY <2>2, <2>3, <2>4, <2>5, <2>6 DEF Fine, Upkeep, Prunes
<1> QED BY <1>4, <1>5, <1>6

LEMMA TrimsOn ==
  ASSUME NEW U \in SUBSET Slots, NEW L, NEW M, NEW N, Fine(L, U), Fine(M, U), Fine(N, U),
         Trims(L, M), Trims(M, N)
  PROVE  Trims(L, N)
  BY DEF Trims

LEMMA UpkeepOn ==
  ASSUME NEW L, NEW M, NEW N
  PROVE  /\ Upkeep(L, M) /\ Upkeep(M, N) => Upkeep(L, N)
         /\ Joint(L, M) /\ Joint(M, N) => Joint(L, N)
         /\ Upkeep(L, L) /\ Joint(L, L)
  BY DEF Upkeep, Joint

-----------------------------------------------------------------------------
(* Validation. *)

Serves(L, T) == \A a, b \in Slots : Kept(L, a, b) \subseteq Keepable(T, a, b)

ServesAt(L, T, g) == \A a \in Slots : /\ Kept(L, g, a) \subseteq Keepable(T, g, a)
                                     /\ Kept(L, a, g) \subseteq Keepable(T, a, g)

LEMMA ValidatedKeeps ==
  ASSUME NEW U \in SUBSET Slots, NEW L, Fine(L, U), NEW a \in Slots, NEW b \in Slots,
         L.prev[b] = a, NEW T,
         NEW M, M = Validated(L, T, a, b)
  PROVE  Prunes(L, M, a, b, Keepable(T, a, b), U)
  BY PruneKeeps DEF Validated

(* What one validation, or several, does to L. *)
Validates(L, M, T, U) == Fine(M, U) /\ Trims(L, M) /\ Upkeep(L, M)

LEMMA OutValidatedKeeps ==
  ASSUME NEW U \in SUBSET Slots, NEW L, Fine(L, U), NEW g \in Slots, NEW T,
         NEW M, M = OutValidated(L, T, g)
  PROVE  /\ Validates(L, M, T, U) /\ M.next[g] # g
         /\ Matched(L) => \A a \in Slots : Kept(M, g, a) \subseteq Keepable(T, g, a)
<1>1. /\ \A c \in Slots : L.next[c] \in Slots \cup {None}
      /\ Backed(L) /\ SelfKept(L)
  BY DEF Fine, Store
<1>2. CASE L.next[g] = None
  <2>1. M = L
    BY <1>2 DEF OutValidated
  <2>2. Validates(L, M, T, U)
    BY <2>1 DEF Validates, Trims, Upkeep
  <2>3. Matched(L) => \A a \in Slots : Kept(M, g, a) = {}
    BY <1>2, <2>1, NoneApart DEF Matched
  <2> QED BY <1>2, <2>1, <2>2, <2>3, NoneApart
<1>3. CASE L.next[g] # None
  <2>1. PICK h \in Slots : h = L.next[g]
    BY <1>1, <1>3
  <2>2. L.prev[h] = g /\ M = Validated(L, T, g, h)
    BY <1>1, <1>3, <2>1 DEF Backed, OutValidated
  <2>3. /\ Fine(M, U) /\ Trims(L, M) /\ Upkeep(L, M)
        /\ Kept(M, g, h) \subseteq Keepable(T, g, h)
        /\ M.next[g] = h => Kept(M, g, h) # {} \/ Kept(L, g, h) = {}
    BY <2>2, ValidatedKeeps DEF Prunes
  <2>4. Keepable(T, g, g) = {}
    BY DEF Keepable, IsBoundaryInput
  <2>5. M.next[g] # g
    <3>1. SUFFICES ASSUME M.next[g] = g PROVE FALSE
      OBVIOUS
    <3>2. h = g
      BY <2>1, <2>3, <3>1, NoneApart DEF Trims
    <3> QED BY <1>1, <2>1, <2>3, <2>4, <3>1, <3>2 DEF SelfKept
  <2>6. ASSUME Matched(L), NEW a \in Slots
        PROVE  Kept(M, g, a) \subseteq Keepable(T, g, a)
    <3>1. Kept(L, g, a) # {} => a = h
      BY <2>1, <2>6 DEF Matched
    <3>2. Kept(M, g, a) \subseteq Kept(L, g, a)
      BY <2>3 DEF Trims
    <3> QED BY <2>3, <3>1, <3>2
  <2> QED BY <2>3, <2>5, <2>6 DEF Validates
<1> QED BY <1>2, <1>3

LEMMA InValidatedKeeps ==
  ASSUME NEW U \in SUBSET Slots, NEW L, Fine(L, U), NEW g \in Slots, NEW T,
         NEW M, M = InValidated(L, T, g)
  PROVE  /\ Validates(L, M, T, U)
         /\ Matched(L) => \A a \in Slots : Kept(M, a, g) \subseteq Keepable(T, a, g)
<1>1. /\ \A c \in Slots : L.next[c] \in Slots \cup {None} /\ L.prev[c] \in Slots \cup {None}
      /\ Backed(L)
  BY DEF Fine, Store
<1>2. Matched(L) => \A a \in Slots : Kept(L, a, g) # {} => a = L.prev[g]
  BY <1>1, NoneApart DEF Matched, Backed
<1>3. CASE L.prev[g] = None
  <2>1. M = L
    BY <1>3 DEF InValidated
  <2>2. Validates(L, M, T, U)
    BY <2>1 DEF Validates, Trims, Upkeep
  <2> QED BY <1>2, <1>3, <2>1, <2>2, NoneApart
<1>4. CASE L.prev[g] # None
  <2>1. PICK h \in Slots : h = L.prev[g]
    BY <1>1, <1>4
  <2>2. M = Validated(L, T, h, g)
    BY <1>4, <2>1 DEF InValidated
  <2>3. /\ Fine(M, U) /\ Trims(L, M) /\ Upkeep(L, M)
        /\ Kept(M, h, g) \subseteq Keepable(T, h, g)
    BY <2>1, <2>2, ValidatedKeeps DEF Prunes
  <2>4. ASSUME Matched(L), NEW a \in Slots
        PROVE  Kept(M, a, g) \subseteq Keepable(T, a, g)
    <3>1. Kept(M, a, g) \subseteq Kept(L, a, g)
      BY <2>3 DEF Trims
    <3> QED BY <1>2, <2>1, <2>3, <2>4, <3>1
  <2> QED BY <2>3, <2>4 DEF Validates
<1> QED BY <1>3, <1>4

LEMMA ValidatesOn ==
  ASSUME NEW U \in SUBSET Slots, NEW T, NEW L, NEW M, NEW N,
         Validates(L, M, T, U), Validates(M, N, T, U)
  PROVE  Validates(L, N, T, U)
<1>1. Trims(L, N)
  BY DEF Validates, Trims
<1> QED BY <1>1, UpkeepOn DEF Validates

LEMMA GroupValidatedKeeps ==
  ASSUME NEW U \in SUBSET Slots, NEW L, Fine(L, U), NEW g \in Slots, NEW T,
         NEW N, N = InValidated(OutValidated(L, T, g), T, g)
  PROVE  /\ Validates(L, N, T, U) /\ N.next[g] # g
         /\ Matched(L) => ServesAt(N, T, g)
<1>1. PICK M : M = OutValidated(L, T, g)
  OBVIOUS
<1>2. /\ Validates(L, M, T, U) /\ M.next[g] # g
      /\ Matched(L) => \A a \in Slots : Kept(M, g, a) \subseteq Keepable(T, g, a)
  BY <1>1, OutValidatedKeeps
<1>3. Fine(M, U) /\ (Matched(L) => Matched(M))
  BY <1>2 DEF Validates, Upkeep
<1>4. N = InValidated(M, T, g)
  BY <1>1
<1>5. /\ Validates(M, N, T, U)
      /\ Matched(M) => \A a \in Slots : Kept(N, a, g) \subseteq Keepable(T, a, g)
  BY <1>3, <1>4, InValidatedKeeps
<1>6. Validates(L, N, T, U)
  BY <1>2, <1>5, ValidatesOn
<1>7. N.next[g] # g /\ \A a \in Slots : Kept(N, g, a) \subseteq Kept(M, g, a)
  BY <1>2, <1>5, NoneApart DEF Validates, Trims
<1> QED BY <1>2, <1>3, <1>5, <1>6, <1>7 DEF ServesAt

LEMMA ValidateEdgesUnfolds ==
  ASSUME NEW U \in SUBSET Slots, NEW L, Fine(L, U), NEW T, NEW G
  PROVE  \E r : /\ ValidateEdges(L, T, G) = r[MaxGroups]
                /\ r[0] = L
                /\ \A n \in 1..MaxGroups :
                     r[n] = IF n \in G THEN InValidated(OutValidated(r[n - 1], T, n), T, n)
                            ELSE r[n - 1]
<1> DEFINE D == {M \in Store : Fine(M, U)}
           Step(n, M) == IF n \in G THEN InValidated(OutValidated(M, T, n), T, n) ELSE M
           F == [p \in Nat \X D |-> IF p[1] \in Slots THEN Step(p[1], p[2]) ELSE p[2]]
           Body(f) == [n \in 0..MaxGroups |-> IF n = 0 THEN L ELSE Step(n, f[n - 1])]
<1>1. ASSUME NEW n \in Slots, NEW M \in D PROVE Step(n, M) \in D
  <2>1. CASE n \notin G
    BY <2>1
  <2>2. CASE n \in G
    <3>1. PICK N : N = InValidated(OutValidated(M, T, n), T, n)
      OBVIOUS
    <3>2. Validates(M, N, T, U)
      BY <3>1, GroupValidatedKeeps
    <3> QED BY <2>2, <3>1, <3>2 DEF Validates, Fine
  <2> QED BY <2>1, <2>2
<1>2. F \in [Nat \X D -> D]
  <2> HIDE DEF Step, D
  <2> QED BY <1>1
<1>3. L \in D
  BY DEF Fine
<1>4. PICK f : Iterates(f, MaxGroups, D, L, F)
  <2> HIDE DEF F, D
  <2> QED BY <1>2, <1>3, IterationExists, MaxGroupsAssumption
<1>5. f = Body(f)
  <2>1. f \in [0..MaxGroups -> D] /\ f[0] = L /\ \A n \in 1..MaxGroups : f[n] = F[<<n, f[n - 1]>>]
    <3> HIDE DEF F, D
    <3> QED BY <1>4 DEF Iterates
  <2>2. ASSUME NEW n \in 1..MaxGroups PROVE f[n] = Step(n, f[n - 1])
    <3>1. n \in Nat /\ n \in Slots /\ n - 1 \in 0..MaxGroups
      BY MaxGroupsAssumption DEF Slots
    <3> HIDE DEF Step, D
    <3> QED BY <2>1, <3>1
  <2> HIDE DEF Step, F, D
  <2> QED BY <2>1, <2>2, MaxGroupsAssumption
<1>6. \E g : g = Body(g)
  BY <1>5
<1> DEFINE r == CHOOSE g : g = Body(g)
<1>7. r = Body(r)
  BY <1>6, Zenon
<1>8. ValidateEdges(L, T, G) = r[MaxGroups]
  BY DEF ValidateEdges
<1> HIDE DEF r
<1>9. ASSUME NEW n \in 0..MaxGroups
      PROVE  r[n] = IF n = 0 THEN L ELSE Step(n, r[n - 1])
  <2>1. Body(r)[n] = IF n = 0 THEN L ELSE Step(n, r[n - 1])
    OBVIOUS
  <2>2. r[n] = Body(r)[n]
    <3> HIDE DEF Body
    <3> QED BY <1>7
  <2> HIDE DEF Body
  <2> QED BY <2>1, <2>2
<1>10. r[0] = L
  <2>1. 0 \in 0..MaxGroups
    BY MaxGroupsAssumption
  <2> QED BY <1>9, <2>1
<1>11. ASSUME NEW n \in 1..MaxGroups PROVE r[n] = Step(n, r[n - 1])
  <2>1. n \in 0..MaxGroups /\ n # 0
    BY MaxGroupsAssumption
  <2> QED BY <1>9, <2>1
<1> QED BY <1>8, <1>10, <1>11

LEMMA ValidateEdgesKeeps ==
  ASSUME NEW U \in SUBSET Slots, NEW L, Fine(L, U), NEW T, NEW G \in SUBSET Slots,
         NEW V, V = ValidateEdges(L, T, G)
  PROVE  /\ Validates(L, V, T, U)
         /\ \A g \in G : V.next[g] # g /\ (Matched(L) => ServesAt(V, T, g))
<1>1. PICK r : /\ V = r[MaxGroups] /\ r[0] = L
               /\ \A n \in 1..MaxGroups :
                    r[n] = IF n \in G THEN InValidated(OutValidated(r[n - 1], T, n), T, n)
                           ELSE r[n - 1]
  BY ValidateEdgesUnfolds
<1> DEFINE Good(n) == /\ Validates(L, r[n], T, U)
                      /\ \A g \in G \cap 1..n :
                           r[n].next[g] # g /\ (Matched(L) => ServesAt(r[n], T, g))
           S == {n \in Nat : Good(n)}
<1>2. 0 \in S
  <2>1. Validates(L, r[0], T, U)
    BY <1>1 DEF Validates, Trims, Upkeep
  <2> QED BY <2>1
<1>3. ASSUME NEW n \in 0..(MaxGroups - 1), n \in S PROVE n + 1 \in S
  <2>1. n + 1 \in 1..MaxGroups /\ n + 1 \in Slots /\ (n + 1) - 1 = n /\ n + 1 \in Nat
    BY MaxGroupsAssumption DEF Slots
  <2>2. Good(n)
    BY <1>3
  <2>3. Fine(r[n], U) /\ (Matched(L) => Matched(r[n]))
    BY <2>2 DEF Validates, Upkeep
  <2>4. CASE n + 1 \notin G
    <3>1. r[n + 1] = r[n] /\ G \cap 1..(n + 1) = G \cap 1..n
      <4>1. r[n + 1] = r[n]
        BY <1>1, <2>1, <2>4
      <4>2. G \cap 1..(n + 1) = G \cap 1..n
        BY <2>1, <2>4
      <4> QED BY <4>1, <4>2
    <3>2. Validates(L, r[n + 1], T, U)
      BY <2>2, <3>1
    <3>3. ASSUME NEW g \in G \cap 1..(n + 1)
          PROVE  r[n + 1].next[g] # g /\ (Matched(L) => ServesAt(r[n + 1], T, g))
      <4>1. g \in G \cap 1..n
        BY <3>1
      <4>2. r[n].next[g] # g /\ (Matched(L) => ServesAt(r[n], T, g))
        BY <2>2, <4>1
      <4>3. r[n + 1] = r[n]
        BY <3>1
      <4> QED BY <4>2, <4>3
    <3> QED BY <2>1, <3>2, <3>3
  <2>5. CASE n + 1 \in G
    <3>1. r[n + 1] = InValidated(OutValidated(r[n], T, n + 1), T, n + 1)
      BY <1>1, <2>1, <2>5
    <3>2. PICK k \in Slots : k = n + 1
      BY <2>1
    <3> DEFINE M == r[n]
               N == r[n + 1]
    <3>3. /\ Validates(M, N, T, U) /\ N.next[k] # k
          /\ Matched(M) => ServesAt(N, T, k)
      BY <2>3, <3>1, <3>2, GroupValidatedKeeps
    <3>4. Validates(L, N, T, U)
      BY <2>2, <3>2, <3>3, ValidatesOn
    <3>5. ASSUME NEW g \in G \cap 1..(n + 1)
          PROVE  N.next[g] # g /\ (Matched(L) => ServesAt(N, T, g))
      <4>1. CASE g = k
        BY <2>3, <3>2, <3>3, <4>1
      <4>2. CASE g # k
        <5>1. g \in G \cap 1..n
          BY <2>1, <3>2, <4>2
        <5>2. M.next[g] # g /\ (Matched(L) => ServesAt(M, T, g))
          BY <2>2, <3>2, <5>1
        <5>3. Trims(M, N)
          BY <3>3 DEF Validates
        <5>4. N.next[g] # g
          BY <5>2, <5>3, NoneApart DEF Trims
        <5>5. Matched(L) => ServesAt(N, T, g)
          BY <5>2, <5>3 DEF Trims, ServesAt
        <5> QED BY <5>4, <5>5
      <4> QED BY <4>1, <4>2
    <3>6. Good(n + 1)
      BY <3>2, <3>4, <3>5
    <3> QED BY <2>1, <3>6
  <2> QED BY <2>4, <2>5
<1>4. MaxGroups \in S
  <2>1. 0..MaxGroups \subseteq S
    <3> HIDE DEF S
    <3> QED BY <1>2, <1>3, InductionUpTo, MaxGroupsAssumption
  <2> HIDE DEF S
  <2> QED BY <2>1, MaxGroupsAssumption
<1>5. Good(MaxGroups) /\ G \cap 1..MaxGroups = G
  BY <1>4 DEF Slots
<1> QED BY <1>1, <1>5

-----------------------------------------------------------------------------
(* The repairs over all links. *)

LEMMA OutCheckedKeeps ==
  ASSUME NEW U \in SUBSET Slots, NEW L, Fine(L, U), NEW g \in Slots, NEW T,
         NEW M, M = OutChecked(L, T, g)
  PROVE  /\ Validates(L, M, T, U)
         /\ Matched(L) => \A a \in Slots : Kept(M, g, a) \subseteq Keepable(T, g, a)
<1>1. (\A c \in Slots : L.next[c] \in Slots \cup {None}) /\ Backed(L) /\ L \in Store
  BY DEF Fine, Store
<1>2. CASE L.next[g] = None
  <2>1. M = L
    BY <1>2 DEF OutChecked
  <2>2. Validates(L, M, T, U)
    BY <2>1 DEF Validates, Trims, Upkeep
  <2>3. Matched(L) => \A a \in Slots : Kept(M, g, a) = {}
    BY <1>2, <2>1, NoneApart DEF Matched
  <2> QED BY <2>2, <2>3
<1>3. CASE L.next[g] # None
  <2>1. PICK h \in Slots : h = L.next[g]
    BY <1>1, <1>3
  <2>2. L.prev[h] = g
    BY <1>1, <1>3, <2>1 DEF Backed
  <2>3. Matched(L) => \A a \in Slots : Kept(L, g, a) # {} => a = h
    BY <2>1 DEF Matched
  <2>4. CASE T[g] = {} \/ T[h] = {}
    <3>1. M = Unlink(L, g, h)
      BY <1>3, <2>1, <2>4 DEF OutChecked
    <3>2. Fine(M, U) /\ Trims(L, M) /\ Upkeep(L, M)
      BY <2>1, <2>2, <3>1, UnlinkKeeps
    <3>3. Untied(L, M, g, h)
      BY <1>1, <3>1, UnlinkView
    <3>4. Kept(M, g, h) = {} /\ \A a \in Slots : Kept(M, g, a) \subseteq Kept(L, g, a)
      BY <3>2, <3>3 DEF Untied, Trims
    <3> QED BY <2>3, <3>2, <3>4 DEF Validates
  <2>5. CASE T[g] # {} /\ T[h] # {}
    <3>1. M = Validated(L, T, g, h)
      BY <1>3, <2>1, <2>5 DEF OutChecked
    <3>2. Prunes(L, M, g, h, Keepable(T, g, h), U)
      BY <2>2, <3>1, ValidatedKeeps
    <3>3. /\ Fine(M, U) /\ Trims(L, M) /\ Upkeep(L, M)
          /\ Kept(M, g, h) \subseteq Keepable(T, g, h)
      BY <3>2 DEF Prunes
    <3>4. \A a \in Slots : Kept(M, g, a) \subseteq Kept(L, g, a)
      BY <3>3 DEF Trims
    <3> QED BY <2>3, <3>3, <3>4 DEF Validates
  <2> QED BY <2>4, <2>5
<1> QED BY <1>2, <1>3

LEMMA InvalidatedUnfolds ==
  ASSUME NEW U \in SUBSET Slots, NEW L, Fine(L, U), NEW T
  PROVE  \E r : /\ Invalidated(L, T) = r[MaxGroups]
                /\ r[0] = L
                /\ \A n \in 1..MaxGroups : r[n] = OutChecked(r[n - 1], T, n)
<1> DEFINE D == {M \in Store : Fine(M, U)}
           Step(n, M) == OutChecked(M, T, n)
           F == [p \in Nat \X D |-> IF p[1] \in Slots THEN Step(p[1], p[2]) ELSE p[2]]
           Body(f) == [n \in 0..MaxGroups |-> IF n = 0 THEN L ELSE Step(n, f[n - 1])]
<1>1. ASSUME NEW n \in Slots, NEW M \in D PROVE Step(n, M) \in D
  <2>1. PICK N : N = OutChecked(M, T, n)
    OBVIOUS
  <2>2. Validates(M, N, T, U)
    BY <2>1, OutCheckedKeeps
  <2> QED BY <2>1, <2>2 DEF Validates, Fine
<1>2. F \in [Nat \X D -> D]
  <2> HIDE DEF Step, D
  <2> QED BY <1>1
<1>3. L \in D
  BY DEF Fine
<1>4. PICK f : Iterates(f, MaxGroups, D, L, F)
  <2> HIDE DEF F, D
  <2> QED BY <1>2, <1>3, IterationExists, MaxGroupsAssumption
<1>5. f = Body(f)
  <2>1. f \in [0..MaxGroups -> D] /\ f[0] = L /\ \A n \in 1..MaxGroups : f[n] = F[<<n, f[n - 1]>>]
    <3> HIDE DEF F, D
    <3> QED BY <1>4 DEF Iterates
  <2>2. ASSUME NEW n \in 1..MaxGroups PROVE f[n] = Step(n, f[n - 1])
    <3>1. n \in Nat /\ n \in Slots /\ n - 1 \in 0..MaxGroups
      BY MaxGroupsAssumption DEF Slots
    <3> HIDE DEF Step, D
    <3> QED BY <2>1, <3>1
  <2> HIDE DEF Step, F, D
  <2> QED BY <2>1, <2>2, MaxGroupsAssumption
<1>6. \E g : g = Body(g)
  BY <1>5
<1> DEFINE r == CHOOSE g : g = Body(g)
<1>7. r = Body(r)
  BY <1>6, Zenon
<1>8. Invalidated(L, T) = r[MaxGroups]
  BY DEF Invalidated
<1> HIDE DEF r
<1>9. ASSUME NEW n \in 0..MaxGroups
      PROVE  r[n] = IF n = 0 THEN L ELSE Step(n, r[n - 1])
  <2>1. Body(r)[n] = IF n = 0 THEN L ELSE Step(n, r[n - 1])
    OBVIOUS
  <2>2. r[n] = Body(r)[n]
    <3> HIDE DEF Body
    <3> QED BY <1>7
  <2> HIDE DEF Body
  <2> QED BY <2>1, <2>2
<1>10. r[0] = L
  <2>1. 0 \in 0..MaxGroups
    BY MaxGroupsAssumption
  <2> QED BY <1>9, <2>1
<1>11. ASSUME NEW n \in 1..MaxGroups PROVE r[n] = Step(n, r[n - 1])
  <2>1. n \in 0..MaxGroups /\ n # 0
    BY MaxGroupsAssumption
  <2> QED BY <1>9, <2>1
<1> QED BY <1>8, <1>10, <1>11

LEMMA InvalidatedKeeps ==
  ASSUME NEW U \in SUBSET Slots, NEW L, Fine(L, U), NEW T,
         NEW V, V = Invalidated(L, T)
  PROVE  Validates(L, V, T, U) /\ (Matched(L) => Serves(V, T))
<1>1. PICK r : /\ V = r[MaxGroups] /\ r[0] = L
               /\ \A n \in 1..MaxGroups : r[n] = OutChecked(r[n - 1], T, n)
  BY InvalidatedUnfolds
<1> DEFINE Good(n) == /\ Validates(L, r[n], T, U)
                      /\ Matched(L) => \A g \in 1..n, a \in Slots :
                                         Kept(r[n], g, a) \subseteq Keepable(T, g, a)
           S == {n \in Nat : Good(n)}
<1>2. 0 \in S
  <2>1. Validates(L, r[0], T, U)
    BY <1>1 DEF Validates, Trims, Upkeep
  <2> QED BY <2>1
<1>3. ASSUME NEW n \in 0..(MaxGroups - 1), n \in S PROVE n + 1 \in S
  <2>1. n + 1 \in 1..MaxGroups /\ n + 1 \in Slots /\ (n + 1) - 1 = n /\ n + 1 \in Nat
    BY MaxGroupsAssumption DEF Slots
  <2>2. PICK k \in Slots : k = n + 1
    BY <2>1
  <2> DEFINE M == r[n]
             N == r[n + 1]
  <2>3. Validates(L, M, T, U) /\ Fine(M, U) /\ (Matched(L) => Matched(M))
    BY <1>3 DEF Validates, Upkeep
  <2>4. N = OutChecked(M, T, k)
    BY <1>1, <2>1, <2>2
  <2> HIDE DEF M, N
  <2>5. /\ Validates(M, N, T, U)
        /\ Matched(M) => \A a \in Slots : Kept(N, k, a) \subseteq Keepable(T, k, a)
    BY <2>3, <2>4, OutCheckedKeeps
  <2>6. Validates(L, N, T, U)
    BY <2>3, <2>5, ValidatesOn
  <2>7. ASSUME Matched(L), NEW g \in 1..(n + 1), NEW a \in Slots
        PROVE  Kept(N, g, a) \subseteq Keepable(T, g, a)
    <3>1. CASE g = k
      BY <2>3, <2>5, <2>7, <3>1
    <3>2. CASE g # k
      <4>1. g \in 1..n /\ g \in Slots
        BY <2>1, <2>2, <3>2, MaxGroupsAssumption DEF Slots
      <4>2. Kept(M, g, a) \subseteq Keepable(T, g, a)
        BY <1>3, <2>7, <4>1 DEF M
      <4>3. Kept(N, g, a) \subseteq Kept(M, g, a)
        BY <2>5, <4>1 DEF Validates, Trims
      <4> QED BY <4>2, <4>3
    <3> QED BY <3>1, <3>2
  <2>8. Good(n + 1)
    BY <2>6, <2>7 DEF N
  <2> QED BY <2>1, <2>8
<1>4. MaxGroups \in S
  <2>1. 0..MaxGroups \subseteq S
    <3> HIDE DEF S
    <3> QED BY <1>2, <1>3, InductionUpTo, MaxGroupsAssumption
  <2> HIDE DEF S
  <2> QED BY <2>1, MaxGroupsAssumption
<1>5. Good(MaxGroups) /\ 1..MaxGroups = Slots
  BY <1>4 DEF Slots
<1> QED BY <1>1, <1>5 DEF Serves

LEMMA FirstBadGoneKeeps ==
  ASSUME NEW U \in SUBSET Slots, NEW L, Fine(L, U), NEW T, NEW E,
         NEW M, M = FirstBadGone(L, T, E)
  PROVE  Validates(L, M, T, U)
<1>1. (\A c \in Slots : L.next[c] \in Slots \cup {None}) /\ Backed(L)
  BY DEF Fine, Store
<1>2. CASE BadLinks(L, T, E) = {}
  <2>1. M = L
    BY <1>2 DEF FirstBadGone
  <2> QED BY <2>1 DEF Validates, Trims, Upkeep
<1>3. CASE BadLinks(L, T, E) # {}
  <2>0. PICK B : B = BadLinks(L, T, E)
    OBVIOUS
  <2>1. B \subseteq Slots /\ \A g \in B : L.next[g] # None
    BY <2>0 DEF BadLinks
  <2>2. Least(B) \in B
    <3>1. B \subseteq Nat /\ B # {}
      BY <1>3, <2>0, <2>1, SlotsFinite
    <3> QED BY <3>1, LeastIsMember
  <2>3. PICK g \in Slots, h \in Slots : g = Least(B) /\ h = L.next[g]
    BY <1>1, <2>1, <2>2
  <2>4. L.prev[h] = g
    BY <1>1, <2>1, <2>2, <2>3 DEF Backed
  <2>5. M = Unlink(L, g, h)
    BY <1>3, <2>0, <2>3 DEF FirstBadGone
  <2>6. Fine(M, U) /\ Trims(L, M) /\ Upkeep(L, M)
    BY <2>3, <2>4, <2>5, UnlinkKeeps
  <2> QED BY <2>6 DEF Validates
<1> QED BY <1>2, <1>3

LEMMA ChainsFixedUnfolds ==
  ASSUME NEW U \in SUBSET Slots, NEW L, Fine(L, U), NEW T, NEW E
  PROVE  \E r : /\ ChainsFixed(L, T, E) = r[MaxGroups]
                /\ r[0] = L
                /\ \A n \in 1..MaxGroups : r[n] = FirstBadGone(r[n - 1], T, E)
<1> DEFINE D == {M \in Store : Fine(M, U)}
           Step(n, M) == FirstBadGone(M, T, E)
           F == [p \in Nat \X D |-> IF p[1] \in Slots THEN Step(p[1], p[2]) ELSE p[2]]
           Body(f) == [n \in 0..MaxGroups |-> IF n = 0 THEN L ELSE Step(n, f[n - 1])]
<1>1. ASSUME NEW n \in Slots, NEW M \in D PROVE Step(n, M) \in D
  <2>1. PICK N : N = FirstBadGone(M, T, E)
    OBVIOUS
  <2>2. Validates(M, N, T, U)
    BY <2>1, FirstBadGoneKeeps
  <2> QED BY <2>1, <2>2 DEF Validates, Fine
<1>2. F \in [Nat \X D -> D]
  <2> HIDE DEF Step, D
  <2> QED BY <1>1
<1>3. L \in D
  BY DEF Fine
<1>4. PICK f : Iterates(f, MaxGroups, D, L, F)
  <2> HIDE DEF F, D
  <2> QED BY <1>2, <1>3, IterationExists, MaxGroupsAssumption
<1>5. f = Body(f)
  <2>1. f \in [0..MaxGroups -> D] /\ f[0] = L /\ \A n \in 1..MaxGroups : f[n] = F[<<n, f[n - 1]>>]
    <3> HIDE DEF F, D
    <3> QED BY <1>4 DEF Iterates
  <2>2. ASSUME NEW n \in 1..MaxGroups PROVE f[n] = Step(n, f[n - 1])
    <3>1. n \in Nat /\ n \in Slots /\ n - 1 \in 0..MaxGroups
      BY MaxGroupsAssumption DEF Slots
    <3> HIDE DEF Step, D
    <3> QED BY <2>1, <3>1
  <2> HIDE DEF Step, F, D
  <2> QED BY <2>1, <2>2, MaxGroupsAssumption
<1>6. \E g : g = Body(g)
  BY <1>5
<1> DEFINE r == CHOOSE g : g = Body(g)
<1>7. r = Body(r)
  BY <1>6, Zenon
<1>8. ChainsFixed(L, T, E) = r[MaxGroups]
  BY DEF ChainsFixed
<1> HIDE DEF r
<1>9. ASSUME NEW n \in 0..MaxGroups
      PROVE  r[n] = IF n = 0 THEN L ELSE Step(n, r[n - 1])
  <2>1. Body(r)[n] = IF n = 0 THEN L ELSE Step(n, r[n - 1])
    OBVIOUS
  <2>2. r[n] = Body(r)[n]
    <3> HIDE DEF Body
    <3> QED BY <1>7
  <2> HIDE DEF Body
  <2> QED BY <2>1, <2>2
<1>10. r[0] = L
  <2>1. 0 \in 0..MaxGroups
    BY MaxGroupsAssumption
  <2> QED BY <1>9, <2>1
<1>11. ASSUME NEW n \in 1..MaxGroups PROVE r[n] = Step(n, r[n - 1])
  <2>1. n \in 0..MaxGroups /\ n # 0
    BY MaxGroupsAssumption
  <2> QED BY <1>9, <2>1
<1> QED BY <1>8, <1>10, <1>11

LEMMA ChainsFixedKeeps ==
  ASSUME NEW U \in SUBSET Slots, NEW L, Fine(L, U), NEW T, NEW E,
         NEW V, V = ChainsFixed(L, T, E)
  PROVE  Validates(L, V, T, U)
<1>1. PICK r : /\ V = r[MaxGroups] /\ r[0] = L
               /\ \A n \in 1..MaxGroups : r[n] = FirstBadGone(r[n - 1], T, E)
  BY ChainsFixedUnfolds
<1> DEFINE S == {n \in Nat : Validates(L, r[n], T, U)}
<1>2. 0 \in S
  BY <1>1 DEF Validates, Trims, Upkeep
<1>3. ASSUME NEW n \in 0..(MaxGroups - 1), n \in S PROVE n + 1 \in S
  <2>1. n + 1 \in 1..MaxGroups /\ (n + 1) - 1 = n /\ n + 1 \in Nat
    BY MaxGroupsAssumption
  <2> DEFINE M == r[n]
             N == r[n + 1]
  <2>2. N = FirstBadGone(M, T, E) /\ Validates(L, M, T, U)
    BY <1>1, <1>3, <2>1
  <2> HIDE DEF M, N
  <2>3. Fine(M, U)
    BY <2>2 DEF Validates
  <2>4. Validates(M, N, T, U)
    BY <2>2, <2>3, FirstBadGoneKeeps
  <2>5. Validates(L, N, T, U)
    BY <2>2, <2>4, ValidatesOn
  <2> QED BY <2>1, <2>5 DEF N
<1>4. 0..MaxGroups \subseteq S
  <2> HIDE DEF S
  <2> QED BY <1>2, <1>3, InductionUpTo, MaxGroupsAssumption
<1> QED BY <1>1, <1>4, MaxGroupsAssumption

-----------------------------------------------------------------------------
(* The fixup after a merge.                                                *)

(* A fixup, for links that were in order before it.                        *)
Fixes(L, M, U) == Fine(M, U) /\ Joint(L, M) /\ (Plain(L) => Plain(M))

LEMMA FixesOn ==
  ASSUME NEW U, NEW L, NEW M, NEW N, Fixes(L, M, U), Fixes(M, N, U)
  PROVE  Fixes(L, N, U)
  BY UpkeepOn DEF Fixes

LEMMA FixesSelf ==
  ASSUME NEW U, NEW L, Fine(L, U)
  PROVE  Fixes(L, L, U)
  BY DEF Fixes, Joint

LEMMA TrimsPlain ==
  ASSUME NEW L, NEW M, Trims(L, M), Plain(L)
  PROVE  Plain(M)
  BY NoneApart DEF Trims, Plain

LEMMA ValidatesFixes ==
  ASSUME NEW U, NEW T, NEW L, NEW M, Validates(L, M, T, U)
  PROVE  Fixes(L, M, U)
  BY TrimsPlain, JointUpkeep DEF Validates, Fixes

LEMMA UnlinkFixes ==
  ASSUME NEW U \in SUBSET Slots, NEW L, Fine(L, U), NEW a \in Slots, NEW b \in Slots,
         L.prev[b] = a,
         NEW M, M = Unlink(L, a, b)
  PROVE  Fixes(L, M, U) /\ Trims(L, M) /\ Untied(L, M, a, b)
<1>1. Fine(M, U) /\ Trims(L, M) /\ Joint(L, M)
  BY UnlinkKeeps
<1>2. Untied(L, M, a, b)
  BY UnlinkView DEF Fine
<1> QED BY <1>1, <1>2, TrimsPlain DEF Fixes

(* One end of a link is moved. *)
LEMMA RedirectFixes ==
  ASSUME NEW U \in SUBSET Slots, NEW L, Fine(L, U), NEW a \in Slots, NEW b \in Slots,
         L.prev[b] = a,
         NEW c \in Slots \ U, NEW d \in Slots \ U, c # d,
         L.next[c] = None \/ c = a, L.prev[d] = None \/ d = b,
         NEW S \in SUBSET Ops, Mutual(L) /\ Matched(L) => S # {},
         NEW N, N = Redirected(L, a, b, c, d, S)
  PROVE  /\ Fixes(L, N, U)
         /\ \E M \in Store : Untied(L, M, a, b) /\ Tied(M, N, c, d, S)
<1>1. PICK M : M = Unlink(L, a, b)
  OBVIOUS
<1>2. Fixes(L, M, U) /\ Untied(L, M, a, b)
  BY <1>1, UnlinkFixes
<1>3. N = Link(M, c, d, S)
  BY <1>1 DEF Redirected
<1>4. Fine(M, U) /\ M \in Store /\ M.next[c] = None /\ M.prev[d] = None
  BY <1>2 DEF Fixes, Untied
<1>5. /\ Fine(N, U)
      /\ Mutual(M) => Mutual(N)
      /\ Matched(M) /\ S # {} => Matched(N)
      /\ Plain(M) => Plain(N)
  <2>1. M.prev[d] \in {None, c} /\ (c = d => S # {})
    BY <1>4
  <2>2. Joins(M, N, c, d, S, U)
    BY <1>3, <1>4, <2>1, LinkKeeps
  <2> QED BY <1>4, <2>2 DEF Joins
<1>6. Tied(M, N, c, d, S)
  BY <1>3, <1>4, LinkView
<1>7. Joint(L, N)
  BY <1>2, <1>5 DEF Fixes, Joint
<1>8. Fixes(L, N, U)
  BY <1>2, <1>5, <1>7 DEF Fixes
<1> QED BY <1>2, <1>4, <1>6, <1>8

(* After Absorbed, between ga and gb there is no link any more. *)
AfterAbsorbed(L, M, ga, gb, U) ==
  /\ Fixes(L, M, U) /\ Trims(L, M)
  /\ M.next[gb] = IF L.prev[ga] = gb THEN None ELSE L.next[gb]
  /\ M.prev[gb] = IF L.next[ga] = gb THEN None ELSE L.prev[gb]

LEMMA AbsorbedFixes ==
  ASSUME NEW U \in SUBSET Slots, NEW L, Fine(L, U),
         NEW ga \in Slots, NEW gb \in Slots, ga # gb,
         NEW N, N = Absorbed(L, ga, gb)
  PROVE  AfterAbsorbed(L, N, ga, gb, U)
<1> DEFINE M == IF L.next[ga] = gb THEN Unlink(L, ga, gb) ELSE L
<1>1. L \in Store /\ Backed(L)
  BY DEF Fine
<1>2. /\ Fixes(L, M, U) /\ Trims(L, M) /\ M.prev[ga] = L.prev[ga] /\ M.next[gb] = L.next[gb]
      /\ M.prev[gb] = IF L.next[ga] = gb THEN None ELSE L.prev[gb]
  <2>1. CASE L.next[ga] = gb
    <3>1. L.prev[gb] = ga
      BY <1>1, <2>1, NoneApart DEF Backed
    <3>2. M = Unlink(L, ga, gb)
      BY <2>1
    <3> HIDE DEF M
    <3>3. Fixes(L, M, U) /\ Trims(L, M) /\ Untied(L, M, ga, gb)
      BY <3>1, <3>2, UnlinkFixes
    <3> QED BY <2>1, <3>3 DEF Untied
  <2>2. CASE L.next[ga] # gb
    <3>1. M = L
      BY <2>2
    <3> QED BY <2>2, <3>1, FixesSelf DEF Trims
  <2> QED BY <2>1, <2>2
<1>3. N = IF M.prev[ga] = gb THEN Unlink(M, gb, ga) ELSE M
  BY DEF Absorbed
<1> HIDE DEF M
<1>4. CASE M.prev[ga] = gb
  <2>1. Fine(M, U) /\ N = Unlink(M, gb, ga)
    BY <1>2, <1>3, <1>4 DEF Fixes
  <2>2. Fixes(M, N, U) /\ Trims(M, N) /\ Untied(M, N, gb, ga)
    BY <1>4, <2>1, UnlinkFixes
  <2>3. N.next[gb] = None /\ N.prev[gb] = M.prev[gb]
    BY <2>2 DEF Untied
  <2>4. Trims(L, N)
    BY <1>2, <2>2 DEF Trims
  <2> QED BY <1>2, <1>4, <2>2, <2>3, <2>4, FixesOn DEF AfterAbsorbed
<1>5. CASE M.prev[ga] # gb
  BY <1>2, <1>3, <1>5 DEF AfterAbsorbed
<1> QED BY <1>4, <1>5

(* What filter_retained leaves on a link.                                  *)
FilterSet(T, a, b) == {t \in Ops : /\ T[a] # {} => IsBoundaryOutput(T[a], t)
                                   /\ T[b] # {} => IsBoundaryInput(T[b], t)}

LEMMA FilteredKeeps ==
  ASSUME NEW U \in SUBSET Slots, NEW L, Fine(L, U), NEW a \in Slots, NEW b \in Slots,
         L.prev[b] = a, NEW T,
         NEW M, M = Filtered(L, T, a, b)
  PROVE  Prunes(L, M, a, b, FilterSet(T, a, b), U)
  BY PruneKeeps DEF Filtered, FilterSet

(* A live end that is looked at serves. *)
LEMMA FilterServes ==
  ASSUME NEW T, NEW a, NEW b, T[a] # {}, T[b] # {}
  PROVE  FilterSet(T, a, b) \subseteq Keepable(T, a, b)
  BY DEF FilterSet, Keepable, IsBoundaryOutput

(* Everything kept at g has been looked at.                                *)
FilteredAt(L, T, g) == \A a \in Slots : /\ Kept(L, g, a) \subseteq FilterSet(T, g, a)
                                       /\ Kept(L, a, g) \subseteq FilterSet(T, a, g)

LEMMA FilterEndsKeeps ==
  ASSUME NEW U \in SUBSET Slots, NEW L, Fine(L, U), NEW g \in Slots, NEW T,
         NEW N, N = FilterEnds(L, T, g)
  PROVE  Validates(L, N, T, U) /\ (Matched(L) => FilteredAt(N, T, g))
<1> DEFINE M == IF L.next[g] = None THEN L ELSE Filtered(L, T, g, L.next[g])
<1>1. N = IF M.prev[g] = None THEN M ELSE Filtered(M, T, M.prev[g], g)
  BY DEF FilterEnds
<1>2. /\ \A c \in Slots : L.next[c] \in Slots \cup {None}
      /\ Backed(L)
  BY DEF Fine, Store
<1>3. /\ Validates(L, M, T, U)
      /\ Matched(L) => \A a \in Slots : Kept(M, g, a) \subseteq FilterSet(T, g, a)
  <2>1. CASE L.next[g] = None
    <3>1. M = L
      BY <2>1
    <3>2. Validates(L, M, T, U)
      BY <3>1 DEF Validates, Trims, Upkeep
    <3>3. Matched(L) => \A a \in Slots : Kept(M, g, a) = {}
      BY <2>1, <3>1, NoneApart DEF Matched
    <3> QED BY <3>2, <3>3
  <2>2. CASE L.next[g] # None
    <3>1. PICK h \in Slots : h = L.next[g]
      BY <1>2, <2>2
    <3>2. L.prev[h] = g /\ M = Filtered(L, T, g, h)
      BY <1>2, <2>2, <3>1 DEF Backed
    <3> HIDE DEF M
    <3>3. Prunes(L, M, g, h, FilterSet(T, g, h), U)
      BY <3>2, FilteredKeeps
    <3>4. ASSUME Matched(L), NEW a \in Slots
          PROVE  Kept(M, g, a) \subseteq FilterSet(T, g, a)
      <4>1. Kept(L, g, a) # {} => a = h
        BY <3>1, <3>4 DEF Matched
      <4>2. Kept(M, g, a) \subseteq Kept(L, g, a)
        BY <3>3 DEF Prunes, Trims
      <4> QED BY <3>3, <4>1, <4>2 DEF Prunes
    <3> QED BY <3>3, <3>4 DEF Prunes, Validates
  <2> QED BY <2>1, <2>2
<1> HIDE DEF M
<1>4. Fine(M, U) /\ (Matched(L) => Matched(M))
  BY <1>3 DEF Validates, Upkeep
<1>5. /\ \A c \in Slots : M.next[c] \in Slots \cup {None} /\ M.prev[c] \in Slots \cup {None}
      /\ Backed(M)
  BY <1>4 DEF Fine, Store
<1>6. Matched(M) => \A a \in Slots : Kept(M, a, g) # {} => a = M.prev[g]
  BY <1>5, NoneApart DEF Matched, Backed
<1>7. CASE M.prev[g] = None
  <2>1. N = M
    BY <1>1, <1>7
  <2> QED BY <1>3, <1>4, <1>6, <1>7, <2>1, NoneApart DEF FilteredAt
<1>8. CASE M.prev[g] # None
  <2>1. PICK h \in Slots : h = M.prev[g]
    BY <1>5, <1>8
  <2>2. N = Filtered(M, T, h, g)
    BY <1>1, <1>8, <2>1
  <2>3. Prunes(M, N, h, g, FilterSet(T, h, g), U)
    BY <1>4, <2>1, <2>2, FilteredKeeps
  <2>4. Validates(M, N, T, U)
    BY <2>3 DEF Prunes, Validates
  <2>5. Validates(L, N, T, U)
    BY <1>3, <2>4, ValidatesOn
  <2>6. ASSUME Matched(L), NEW a \in Slots
        PROVE  /\ Kept(N, g, a) \subseteq FilterSet(T, g, a)
               /\ Kept(N, a, g) \subseteq FilterSet(T, a, g)
    <3>1. Kept(N, a, g) \subseteq Kept(M, a, g) /\ Kept(N, g, a) \subseteq Kept(M, g, a)
      BY <2>4 DEF Validates, Trims
    <3>2. Kept(M, g, a) \subseteq FilterSet(T, g, a)
      BY <1>3, <2>6
    <3>3. Kept(M, a, g) # {} => a = h
      BY <1>4, <1>6, <2>1, <2>6
    <3> QED BY <2>3, <3>1, <3>2, <3>3 DEF Prunes
  <2> QED BY <2>5, <2>6 DEF FilteredAt
<1> QED BY <1>7, <1>8

(* What is kept was kept before, or ga has it from gb.                     *)
Inherits(L, M, ga, gb) ==
  \A a, b \in Slots : \A t \in Kept(M, a, b) :
    \/ t \in Kept(L, a, b)
    \/ a = ga /\ b \notin {ga, gb} /\ t \in Kept(L, gb, b)
    \/ b = ga /\ a \notin {ga, gb} /\ t \in Kept(L, a, gb)

LEMMA InheritsOn ==
  ASSUME NEW ga \in Slots, NEW gb \in Slots, ga # gb, NEW L, NEW M, NEW N,
         Inherits(L, M, ga, gb), Inherits(M, N, ga, gb)
  PROVE  Inherits(L, N, ga, gb)
<1> SUFFICES ASSUME NEW a \in Slots, NEW b \in Slots, NEW t \in Kept(N, a, b)
             PROVE  \/ t \in Kept(L, a, b)
                    \/ a = ga /\ b \notin {ga, gb} /\ t \in Kept(L, gb, b)
                    \/ b = ga /\ a \notin {ga, gb} /\ t \in Kept(L, a, gb)
  BY DEF Inherits
<1>1. CASE t \in Kept(M, a, b)
  BY <1>1 DEF Inherits
<1>2. CASE a = ga /\ b \notin {ga, gb} /\ t \in Kept(M, gb, b)
  BY <1>2 DEF Inherits
<1>3. CASE b = ga /\ a \notin {ga, gb} /\ t \in Kept(M, a, gb)
  BY <1>3 DEF Inherits
<1> QED BY <1>1, <1>2, <1>3 DEF Inherits

LEMMA TrimsInherits ==
  ASSUME NEW ga \in Slots, NEW gb \in Slots, NEW L, NEW M, Trims(L, M)
  PROVE  Inherits(L, M, ga, gb)
  BY DEF Trims, Inherits

(* gb's outgoing link has gone, to ga or altogether. *)
NextTaken(L, N, ga, gb, U) ==
  /\ Fixes(L, N, U) /\ Inherits(L, N, ga, gb)
  /\ N.next[gb] = None /\ N.prev[gb] = L.prev[gb]
  /\ L.next[ga] # gb => N.next[ga] # gb

LEMMA TakeNextFixes ==
  ASSUME NEW U \in SUBSET Slots, NEW L, Fine(L, U),
         NEW ga \in Slots \ U, NEW gb \in Slots \ U, ga # gb,
         NEW gn, gn = L.next[gb], gn # ga, gn # gb,
         NEW N, N = TakeNext(L, ga, gb, gn)
  PROVE  NextTaken(L, N, ga, gb, U)
<1>1. L \in Store /\ Backed(L) /\ (\A a \in Slots : L.next[a] \in Slots \cup {None})
      /\ \A x \in U : Idle(L, x)
  BY DEF Fine, Store
<1>2. CASE gn = None
  <2>1. N = L
    BY <1>2 DEF TakeNext
  <2> QED BY <1>2, <2>1, FixesSelf DEF NextTaken, Inherits
<1>3. CASE gn # None
  <2>1. gn \in Slots /\ gn \notin U /\ L.prev[gn] = gb
    BY <1>1, <1>3 DEF Idle, Backed
  <2>2. CASE L.next[ga] = None /\ ga \notin Forward(L, gn)
    <3>1. PICK S : S = Kept(L, gb, gn)
      OBVIOUS
    <3>2. N = Redirected(L, gb, gn, ga, gn, S)
      BY <1>3, <2>2, <3>1 DEF TakeNext
    <3>3. S \in SUBSET Ops /\ (Mutual(L) /\ Matched(L) => S # {})
      BY <2>1, <3>1, KeptOps DEF Matched
    <3>4. Fixes(L, N, U) /\ \E M \in Store : Untied(L, M, gb, gn) /\ Tied(M, N, ga, gn, S)
      BY <2>1, <2>2, <3>2, <3>3, RedirectFixes
    <3>5. PICK M \in Store : Untied(L, M, gb, gn) /\ Tied(M, N, ga, gn, S)
      BY <3>4
    <3>6. /\ \A g \in Slots : /\ N.next[g] = IF g = ga THEN gn ELSE IF g = gb THEN None ELSE L.next[g]
                              /\ N.prev[g] = IF g = gn THEN ga ELSE L.prev[g]
          /\ \A c, d \in Slots :
               Kept(N, c, d) \subseteq Kept(L, c, d) \cup (IF c = ga /\ d = gn THEN S ELSE {})
      BY <3>5 DEF Untied, Tied
    <3>7. Inherits(L, N, ga, gb)
      BY <2>1, <3>1, <3>6 DEF Inherits
    <3> QED BY <3>4, <3>6, <3>7 DEF NextTaken
  <2>3. CASE ~(L.next[ga] = None /\ ga \notin Forward(L, gn))
    <3>1. N = Unlink(L, gb, gn)
      BY <1>3, <2>3 DEF TakeNext
    <3>2. Fixes(L, N, U) /\ Trims(L, N) /\ Untied(L, N, gb, gn)
      BY <2>1, <3>1, UnlinkFixes
    <3>3. N.next[gb] = None /\ N.prev[gb] = L.prev[gb] /\ N.next[ga] = L.next[ga]
      BY <3>2 DEF Untied
    <3> QED BY <3>2, <3>3, TrimsInherits DEF NextTaken
  <2> QED BY <2>2, <2>3
<1> QED BY <1>2, <1>3

(* And so has its incoming one: no group is followed by gb any more. *)
PrevTaken(L, N, ga, gb, U) ==
  /\ Fixes(L, N, U) /\ Inherits(L, N, ga, gb)
  /\ N.next[gb] = None /\ \A a \in Slots : N.next[a] # gb

LEMMA TakePrevFixes ==
  ASSUME NEW U \in SUBSET Slots, NEW L, Fine(L, U),
         NEW ga \in Slots \ U, NEW gb \in Slots \ U, ga # gb,
         L.next[gb] = None, L.next[ga] # gb,
         NEW gp, gp = L.prev[gb],
         NEW N, N = TakePrev(L, ga, gb, gp)
  PROVE  PrevTaken(L, N, ga, gb, U)
<1>1. L \in Store /\ Backed(L) /\ (\A a \in Slots : L.prev[a] \in Slots \cup {None})
      /\ \A x \in U : Idle(L, x)
  BY DEF Fine, Store
<1>0. \A a \in Slots : L.next[a] = gb => a = gp
  BY <1>1, NoneApart DEF Backed
<1>2. CASE gp \in {None, ga, gb}
  <2>1. N = L
    BY <1>2 DEF TakePrev
  <2>2. \A a \in Slots : N.next[a] # gb
    BY <1>0, <1>2, <2>1, NoneApart
  <2> QED BY <2>1, <2>2, FixesSelf DEF PrevTaken, Inherits
<1>3. CASE gp \notin {None, ga, gb}
  <2>1. gp \in Slots /\ gp \notin U
    BY <1>1, <1>3 DEF Idle
  <2>2. CASE L.prev[ga] = None /\ gp \notin Forward(L, ga)
    <3>1. PICK S : S = Kept(L, gp, gb)
      OBVIOUS
    <3>2. N = Redirected(L, gp, gb, gp, ga, S)
      BY <1>3, <2>2, <3>1 DEF TakePrev
    <3>3. S \in SUBSET Ops /\ (Mutual(L) /\ Matched(L) => S # {})
      BY <1>3, <2>1, <3>1, KeptOps DEF Matched, Mutual
    <3>4. Fixes(L, N, U) /\ \E M \in Store : Untied(L, M, gp, gb) /\ Tied(M, N, gp, ga, S)
      BY <1>3, <2>1, <2>2, <3>2, <3>3, RedirectFixes
    <3>5. PICK M \in Store : Untied(L, M, gp, gb) /\ Tied(M, N, gp, ga, S)
      BY <3>4
    <3>6. /\ \A g \in Slots : N.next[g] = IF g = gp THEN ga ELSE L.next[g]
          /\ \A c, d \in Slots :
               Kept(N, c, d) \subseteq Kept(L, c, d) \cup (IF c = gp /\ d = ga THEN S ELSE {})
      BY <3>5 DEF Untied, Tied
    <3>7. Inherits(L, N, ga, gb)
      BY <1>3, <2>1, <3>1, <3>6 DEF Inherits
    <3>8. N.next[gb] = None /\ \A a \in Slots : N.next[a] # gb
      BY <1>0, <1>3, <3>6
    <3> QED BY <3>4, <3>7, <3>8 DEF PrevTaken
  <2>3. CASE ~(L.prev[ga] = None /\ gp \notin Forward(L, ga))
    <3>1. N = Unlink(L, gp, gb)
      BY <1>3, <2>3 DEF TakePrev
    <3>2. Fixes(L, N, U) /\ Trims(L, N) /\ Untied(L, N, gp, gb)
      BY <2>1, <3>1, UnlinkFixes
    <3>3. N.next[gb] = None /\ \A a \in Slots : N.next[a] # gb
      BY <1>0, <1>3, <3>2, NoneApart DEF Untied
    <3> QED BY <3>2, <3>3, TrimsInherits DEF PrevTaken
  <2> QED BY <2>2, <2>3
<1> QED BY <1>2, <1>3

(* gb's back pointer is cleared last; by then nothing leads to gb. *)
Cleared(L, b) == [L EXCEPT !.next[b] = None, !.prev[b] = None]

LEMMA ClearFixes ==
  ASSUME NEW U \in SUBSET Slots, NEW L, Fine(L, U), NEW gb \in Slots,
         L.next[gb] = None, \A a \in Slots : L.next[a] # gb,
         NEW N, N = Cleared(L, gb)
  PROVE  Fixes(L, N, U) /\ Trims(L, N) /\ N.next = L.next
<1>1. L \in Store /\ Backed(L) /\ SelfKept(L) /\ \A x \in U : Idle(L, x)
  BY DEF Fine
<1>2. /\ N \in Store /\ N.kept = L.kept
      /\ \A g \in Slots : /\ N.next[g] = L.next[g]
                          /\ N.prev[g] = IF g = gb THEN None ELSE L.prev[g]
  BY <1>1 DEF Store, Cleared
<1>3. N.next = L.next /\ \A g \in Slots : L.next[g] \in Slots \cup {None}
  BY <1>1, <1>2 DEF Store
<1>4. \A a, b \in Slots : Kept(N, a, b) = Kept(L, a, b)
  BY <1>2 DEF Kept
<1>5. Backed(N) /\ SelfKept(N)
  <2>1. Backed(N)
    BY <1>1, <1>2, <1>3, NoneApart DEF Backed
  <2>2. SelfKept(N)
    BY <1>1, <1>3, <1>4 DEF SelfKept
  <2> QED BY <2>1, <2>2
<1>6. ASSUME NEW x \in U PROVE Idle(N, x)
  <2>1. x \in Slots /\ Idle(L, x)
    BY <1>1
  <2> QED BY <1>2, <1>4, <2>1, NoneApart DEF Idle
<1>7. Joint(L, N)
  <2>1. Mutual(L) => Mutual(N)
    BY <1>1, <1>2, <1>3, NoneApart DEF Mutual
  <2>2. Matched(L) => Matched(N)
    BY <1>3, <1>4 DEF Matched
  <2> QED BY <2>1, <2>2 DEF Joint
<1>8. Plain(L) => Plain(N)
  BY <1>2 DEF Plain
<1>9. Trims(L, N)
  BY <1>2, <1>4 DEF Trims
<1> QED BY <1>2, <1>3, <1>5, <1>6, <1>7, <1>8, <1>9 DEF Fine, Fixes

(* ga has absorbed gb. *)
Merged(L, N, ga, gb, T, U) ==
  /\ Fixes(L, N, U) /\ Inherits(L, N, ga, gb)
  /\ N.next[gb] = None /\ \A a \in Slots : N.next[a] # gb
  /\ Mutual(L) /\ Matched(L) => FilteredAt(N, T, ga)

LEMMA FixupMergeFixes ==
  ASSUME NEW U \in SUBSET Slots, NEW L, Fine(L, U), Plain(L),
         NEW ga \in Slots \ U, NEW gb \in Slots \ U, ga # gb, NEW T,
         NEW N, N = FixupMerge(L, T, ga, gb)
  PROVE  Merged(L, N, ga, gb, T, U)
<1>1. PICK gn : gn = IF L.prev[ga] = gb THEN None ELSE L.next[gb]
  OBVIOUS
<1>2. PICK gp : gp = IF L.next[ga] = gb THEN None ELSE L.prev[gb]
  OBVIOUS
<1>3. PICK L1 : L1 = Absorbed(L, ga, gb)
  OBVIOUS
<1>4. PICK L2 : L2 = TakeNext(L1, ga, gb, gn)
  OBVIOUS
<1>5. PICK L3 : L3 = TakePrev(L2, ga, gb, gp)
  OBVIOUS
<1>6. PICK L4 : L4 = FilterEnds(L3, T, ga)
  OBVIOUS
<1>7. N = Cleared(L4, gb)
  BY <1>1, <1>2, <1>3, <1>4, <1>5, <1>6 DEF FixupMerge, Cleared
<1>8. Fixes(L, L1, U) /\ Trims(L, L1) /\ L1.next[gb] = gn /\ L1.prev[gb] = gp
  <2>1. AfterAbsorbed(L, L1, ga, gb, U)
    BY <1>3, AbsorbedFixes
  <2> QED BY <1>1, <1>2, <2>1 DEF AfterAbsorbed
<1>9. Fine(L1, U) /\ Plain(L1)
  BY <1>8 DEF Fixes
<1>10. L1.next[ga] # gb
  <2>1. ASSUME L1.next[ga] = gb PROVE FALSE
    <3>1. L1.prev[gb] = ga /\ L.next[ga] = gb
      BY <1>8, <1>9, <2>1, NoneApart DEF Fine, Backed, Trims
    <3> QED BY <1>2, <1>8, <3>1, NoneApart
  <2> QED BY <2>1
<1>11. gn # ga /\ gn # gb
  <2>1. gn # gb
    BY <1>8, <1>9 DEF Plain
  <2>2. ASSUME gn = ga PROVE FALSE
    BY <1>1, <2>2, NoneApart DEF Fine, Backed
  <2> QED BY <2>1, <2>2
<1>12. NextTaken(L1, L2, ga, gb, U)
  BY <1>4, <1>8, <1>9, <1>11, TakeNextFixes
<1>13. /\ Fixes(L1, L2, U) /\ Inherits(L1, L2, ga, gb) /\ Fine(L2, U)
       /\ L2.next[gb] = None /\ L2.prev[gb] = gp /\ L2.next[ga] # gb
  BY <1>8, <1>10, <1>12 DEF NextTaken, Fixes
<1>14. PrevTaken(L2, L3, ga, gb, U)
  BY <1>5, <1>13, TakePrevFixes
<1>15. /\ Fixes(L2, L3, U) /\ Inherits(L2, L3, ga, gb) /\ Fine(L3, U)
       /\ L3.next[gb] = None /\ \A a \in Slots : L3.next[a] # gb
  BY <1>14 DEF PrevTaken, Fixes
<1>16. Validates(L3, L4, T, U) /\ (Matched(L3) => FilteredAt(L4, T, ga))
  BY <1>6, <1>15, FilterEndsKeeps
<1>17. /\ Fixes(L3, L4, U) /\ Trims(L3, L4) /\ Fine(L4, U)
       /\ L4.next[gb] = None /\ \A a \in Slots : L4.next[a] # gb
  <2>1. Fixes(L3, L4, U)
    BY <1>16, ValidatesFixes
  <2>2. Trims(L3, L4) /\ Fine(L4, U)
    BY <1>16 DEF Validates
  <2>3. L4.next[gb] = None /\ \A a \in Slots : L4.next[a] # gb
    BY <1>15, <2>2, NoneApart DEF Trims
  <2> QED BY <2>1, <2>2, <2>3
<1>18. Fixes(L4, N, U) /\ Trims(L4, N) /\ N.next = L4.next
  BY <1>7, <1>17, ClearFixes
<1>19. Fixes(L, N, U) /\ Fixes(L, L3, U)
  BY <1>8, <1>13, <1>15, <1>17, <1>18, FixesOn
<1>20. Inherits(L, N, ga, gb)
  <2>1. Inherits(L, L1, ga, gb) /\ Inherits(L3, L4, ga, gb) /\ Inherits(L4, N, ga, gb)
    BY <1>8, <1>17, <1>18, TrimsInherits
  <2> QED BY <1>13, <1>15, <2>1, InheritsOn
<1>21. Mutual(L) /\ Matched(L) => FilteredAt(N, T, ga)
  BY <1>16, <1>18, <1>19 DEF Fixes, Joint, FilteredAt, Trims
<1> QED BY <1>17, <1>18, <1>19, <1>20, <1>21 DEF Merged

-----------------------------------------------------------------------------
(* While the groups K wait to be absorbed their links keep what they kept  *)
(* in the old table.                                                       *)

AliveEnds(L, K, T) ==
  \A a, b \in Slots : Kept(L, a, b) # {} => (a \in K \/ T[a] # {}) /\ (b \in K \/ T[b] # {})

ServesOff(L, K, T) == \A a, b \in Slots \ K : Kept(L, a, b) \subseteq Keepable(T, a, b)

LEMMA MergeServes ==
  ASSUME NEW U \in SUBSET Slots, NEW L, Fine(L, U), Plain(L), Mutual(L), Matched(L),
         NEW ga \in Slots \ U, NEW gb \in Slots \ U, ga # gb, NEW T,
         NEW N, Merged(L, N, ga, gb, T, U),
         NEW K \in SUBSET Slots, gb \in K, ga \notin K, T[ga] # {}, T[gb] = {},
         AliveEnds(L, K, T), ServesOff(L, K \cup {ga}, T)
  PROVE  AliveEnds(N, K \ {gb}, T) /\ ServesOff(N, K \ {gb}, T)
<1>1. /\ Inherits(L, N, ga, gb) /\ Matched(N) /\ Plain(N)
      /\ N.next[gb] = None /\ (\A a \in Slots : N.next[a] # gb)
      /\ FilteredAt(N, T, ga)
  BY DEF Merged, Fixes, Joint
<1>2. ASSUME NEW a \in Slots, NEW b \in Slots, NEW t \in Kept(N, a, b)
      PROVE  /\ a # gb /\ b # gb /\ a # b
             /\ a \in K \/ T[a] # {}
             /\ b \in K \/ T[b] # {}
             /\ a = ga \/ b = ga \/ t \in Kept(L, a, b)
  <2>1. N.next[a] = b
    BY <1>1, <1>2 DEF Matched
  <2>2. a # gb /\ b # gb /\ a # b
    BY <1>1, <2>1, NoneApart DEF Plain
  <2>3. CASE t \in Kept(L, a, b)
    BY <2>2, <2>3 DEF AliveEnds
  <2>4. CASE a = ga /\ b \notin {ga, gb} /\ t \in Kept(L, gb, b)
    BY <2>2, <2>4 DEF AliveEnds
  <2>5. CASE b = ga /\ a \notin {ga, gb} /\ t \in Kept(L, a, gb)
    BY <2>2, <2>5 DEF AliveEnds
  <2> QED BY <1>1, <1>2, <2>3, <2>4, <2>5 DEF Inherits
<1>3. AliveEnds(N, K \ {gb}, T)
  BY <1>2 DEF AliveEnds
<1>4. ASSUME NEW a \in Slots \ (K \ {gb}), NEW b \in Slots \ (K \ {gb}), NEW t \in Kept(N, a, b)
      PROVE  t \in Keepable(T, a, b)
  <2>1. a # gb /\ b # gb /\ T[a] # {} /\ T[b] # {} /\ a \notin K /\ b \notin K
    BY <1>2, <1>4
  <2>2. CASE a = ga \/ b = ga
    <3>1. t \in FilterSet(T, a, b)
      BY <1>1, <1>4, <2>2 DEF FilteredAt
    <3> QED BY <2>1, <3>1, FilterServes
  <2>3. CASE a # ga /\ b # ga
    <3>1. t \in Kept(L, a, b)
      BY <1>2, <1>4, <2>3
    <3> QED BY <2>1, <2>3, <3>1 DEF ServesOff
  <2> QED BY <2>2, <2>3
<1> QED BY <1>3, <1>4 DEF ServesOff

(* When nothing waits, all links serve; before anything is absorbed they   *)
(* do away from the groups a move edits.                                   *)
LEMMA ServesAllOff ==
  ASSUME NEW L, NEW T
  PROVE  ServesOff(L, {}, T) <=> Serves(L, T)
  BY DEF ServesOff, Serves

LEMMA ServesBefore ==
  ASSUME NEW L, NEW Told, NEW T, Serves(L, Told),
         NEW K \in SUBSET Slots, NEW s \in Slots,
         \A g \in Slots \ (K \cup {s}) : T[g] = Told[g],
         T[s] # {}
  PROVE  AliveEnds(L, K, T) /\ ServesOff(L, K \cup {s}, T)
<1>1. \A a, b \in Slots : Kept(L, a, b) \subseteq Keepable(Told, a, b)
  BY DEF Serves
<1>2. \A a, b \in Slots : Kept(L, a, b) # {} => Told[a] # {} /\ Told[b] # {}
  BY <1>1 DEF Keepable, IsBoundaryInput, ConsumedIn
<1>3. AliveEnds(L, K, T)
  BY <1>2 DEF AliveEnds
<1>4. ServesOff(L, K \cup {s}, T)
  BY <1>1 DEF ServesOff, Keepable
<1> QED BY <1>3, <1>4

LEMMA FixupTensorMergeUnfolds ==
  ASSUME NEW U \in SUBSET Slots, NEW L, Fine(L, U), Plain(L), NEW T,
         NEW G \in SUBSET (Slots \ U), NEW s \in G, s = Least(G)
  PROVE  \E r : /\ FixupTensorMerge(L, T, G) = r[MaxGroups]
                /\ r[0] = L
                /\ \A n \in 1..MaxGroups : r[n] = IF n \in G \ {s} THEN FixupMerge(r[n - 1], T, s, n) ELSE r[n - 1]
<1> DEFINE D == {M \in Store : Fine(M, U) /\ Plain(M)}
           Step(n, M) == IF n \in G \ {s} THEN FixupMerge(M, T, s, n) ELSE M
           F == [p \in Nat \X D |-> IF p[1] \in Slots THEN Step(p[1], p[2]) ELSE p[2]]
           Body(f) == [n \in 0..MaxGroups |-> IF n = 0 THEN L ELSE Step(n, f[n - 1])]
<1>1. ASSUME NEW n \in Slots, NEW M \in D PROVE Step(n, M) \in D
  <2>1. CASE n \notin G \ {s}
    BY <2>1
  <2>2. CASE n \in G \ {s}
    <3>1. PICK N : N = FixupMerge(M, T, s, n)
      OBVIOUS
    <3>2. n \in Slots \ U /\ s \in Slots \ U /\ n # s /\ Fine(M, U) /\ Plain(M)
      BY <2>2
    <3>3. Merged(M, N, s, n, T, U)
      BY <3>1, <3>2, FixupMergeFixes
    <3> QED BY <2>2, <3>1, <3>2, <3>3 DEF Merged, Fixes, Fine
  <2> QED BY <2>1, <2>2
<1>2. F \in [Nat \X D -> D]
  <2> HIDE DEF Step, D
  <2> QED BY <1>1
<1>3. L \in D
  BY DEF Fine
<1>4. PICK f : Iterates(f, MaxGroups, D, L, F)
  <2> HIDE DEF F, D
  <2> QED BY <1>2, <1>3, IterationExists, MaxGroupsAssumption
<1>5. f = Body(f)
  <2>1. f \in [0..MaxGroups -> D] /\ f[0] = L /\ \A n \in 1..MaxGroups : f[n] = F[<<n, f[n - 1]>>]
    <3> HIDE DEF F, D
    <3> QED BY <1>4 DEF Iterates
  <2>2. ASSUME NEW n \in 1..MaxGroups PROVE f[n] = Step(n, f[n - 1])
    <3>1. n \in Nat /\ n \in Slots /\ n - 1 \in 0..MaxGroups
      BY MaxGroupsAssumption DEF Slots
    <3> HIDE DEF Step, D
    <3> QED BY <2>1, <3>1
  <2> HIDE DEF Step, F, D
  <2> QED BY <2>1, <2>2, MaxGroupsAssumption
<1>6. \E g : g = Body(g)
  BY <1>5
<1> DEFINE r == CHOOSE g : g = Body(g)
<1>7. r = Body(r)
  BY <1>6, Zenon
<1>8. FixupTensorMerge(L, T, G) = r[MaxGroups]
  BY DEF FixupTensorMerge
<1> HIDE DEF r
<1>9. ASSUME NEW n \in 0..MaxGroups
      PROVE  r[n] = IF n = 0 THEN L ELSE Step(n, r[n - 1])
  <2>1. Body(r)[n] = IF n = 0 THEN L ELSE Step(n, r[n - 1])
    OBVIOUS
  <2>2. r[n] = Body(r)[n]
    <3> HIDE DEF Body
    <3> QED BY <1>7
  <2> HIDE DEF Body
  <2> QED BY <2>1, <2>2
<1>10. r[0] = L
  <2>1. 0 \in 0..MaxGroups
    BY MaxGroupsAssumption
  <2> QED BY <1>9, <2>1
<1>11. ASSUME NEW n \in 1..MaxGroups PROVE r[n] = Step(n, r[n - 1])
  <2>1. n \in 0..MaxGroups /\ n # 0
    BY MaxGroupsAssumption
  <2> QED BY <1>9, <2>1
<1> QED BY <1>8, <1>10, <1>11

(* The last of the absorbed groups leaves links that serve. *)
FixupTensorMergeServes(L, N, T, G, s) ==
  /\ Mutual(L) /\ Matched(L)
  /\ T[s] # {} /\ G \ {s} # {} /\ (\A g \in G \ {s} : T[g] = {})
  /\ AliveEnds(L, G \ {s}, T) /\ ServesOff(L, G, T)
  => Serves(N, T)

LEMMA FixupTensorMergeFixes ==
  ASSUME NEW U \in SUBSET Slots, NEW L, Fine(L, U), Plain(L), NEW T,
         NEW G \in SUBSET (Slots \ U), NEW s \in G, s = Least(G),
         NEW V, V = FixupTensorMerge(L, T, G)
  PROVE  Fixes(L, V, U) /\ FixupTensorMergeServes(L, V, T, G, s)
<1>1. PICK r : /\ V = r[MaxGroups] /\ r[0] = L
               /\ \A n \in 1..MaxGroups :
                    r[n] = IF n \in G \ {s} THEN FixupMerge(r[n - 1], T, s, n) ELSE r[n - 1]
  BY FixupTensorMergeUnfolds
<1> DEFINE Able == /\ Mutual(L) /\ Matched(L)
                   /\ T[s] # {} /\ \A g \in G \ {s} : T[g] = {}
                   /\ AliveEnds(L, G \ {s}, T) /\ ServesOff(L, G, T)
           Wait(n) == {g \in G \ {s} : g > n}
           Good(n) == /\ Fixes(L, r[n], U)
                      /\ Able => /\ AliveEnds(r[n], Wait(n), T)
                                 /\ ServesOff(r[n], Wait(n) \cup {s}, T)
                                 /\ (\E g \in G \ {s} : g <= n) => ServesOff(r[n], Wait(n), T)
           S == {n \in Nat : Good(n)}
<1>0. G \subseteq Slots /\ s \in Slots /\ \A g \in Slots : g \in Nat /\ g > 0 /\ g <= MaxGroups
  BY MaxGroupsAssumption DEF Slots
<1>2. 0 \in S
  <2>1. Fixes(L, r[0], U)
    BY <1>1, FixesSelf
  <2>2. Wait(0) = G \ {s} /\ Wait(0) \cup {s} = G /\ ~\E g \in G \ {s} : g <= 0
    BY <1>0
  <2>3. Able => AliveEnds(r[0], Wait(0), T) /\ ServesOff(r[0], Wait(0) \cup {s}, T)
    <3> HIDE DEF Wait
    <3> QED BY <1>1, <2>2
  <2> HIDE DEF Able, Wait
  <2> QED BY <2>1, <2>2, <2>3
<1>3. ASSUME NEW n \in 0..(MaxGroups - 1), n \in S PROVE n + 1 \in S
  <2>1. n + 1 \in 1..MaxGroups /\ (n + 1) - 1 = n /\ n + 1 \in Nat
    BY MaxGroupsAssumption
  <2>2. PICK k \in Slots : k = n + 1
    BY <2>1 DEF Slots
  <2> DEFINE M == r[n]
             N == r[n + 1]
  <2>3. /\ Fixes(L, M, U)
        /\ Able => /\ AliveEnds(M, Wait(n), T)
                   /\ ServesOff(M, Wait(n) \cup {s}, T)
                   /\ (\E g \in G \ {s} : g <= n) => ServesOff(M, Wait(n), T)
    BY <1>3
  <2>4. N = IF k \in G \ {s} THEN FixupMerge(M, T, s, k) ELSE M
    BY <1>1, <2>1, <2>2
  <2>5. Wait(n + 1) = Wait(n) \ {k} /\ (k \in G \ {s} => k \in Wait(n))
    <3>1. n \in Nat /\ k > n
      BY <2>2
    <3>2. ASSUME NEW g \in G PROVE g > n + 1 <=> g > n /\ g # k
      <4>1. g \in Nat
        BY <1>0
      <4> QED BY <2>2, <3>1, <4>1
    <3>3. Wait(n + 1) = Wait(n) \ {k}
      BY <3>2
    <3> QED BY <3>1, <3>3
  <2>6. Wait(n) \in SUBSET Slots /\ s \notin Wait(n) /\ Wait(n) \subseteq G \ {s}
    BY <1>0
  <2> HIDE DEF M, N
  <2>7. CASE k \notin G \ {s}
    <3>1. N = M /\ Wait(n + 1) = Wait(n)
      <4>1. k \notin Wait(n)
        BY <2>7
      <4> HIDE DEF Wait
      <4> QED BY <2>4, <2>5, <2>7, <4>1
    <3>2. (\E g \in G \ {s} : g <= n + 1) => \E g \in G \ {s} : g <= n
      BY <1>0, <2>2, <2>7
    <3>3. Good(n + 1)
      <4> HIDE DEF Able, Wait
      <4> QED BY <2>3, <3>1, <3>2 DEF N
    <3> QED BY <2>1, <3>3
  <2>8. CASE k \in G \ {s}
    <3>1. N = FixupMerge(M, T, s, k)
      BY <2>4, <2>8
    <3>2. k \in Slots \ U /\ s \in Slots \ U /\ s # k /\ Fine(M, U) /\ Plain(M)
      BY <2>3, <2>8 DEF Fixes
    <3>3. Merged(M, N, s, k, T, U)
      BY <3>1, <3>2, FixupMergeFixes
    <3>4. Fixes(L, N, U)
      BY <2>3, <3>3, FixesOn DEF Merged
    <3>5. ASSUME Able
          PROVE  AliveEnds(N, Wait(n + 1), T) /\ ServesOff(N, Wait(n + 1), T)
      <4>1. /\ Mutual(M) /\ Matched(M) /\ T[s] # {} /\ T[k] = {}
        BY <2>3, <2>8, <3>5 DEF Fixes, Joint
      <4>2. AliveEnds(M, Wait(n), T) /\ ServesOff(M, Wait(n) \cup {s}, T)
        BY <2>3, <3>5
      <4>3. k \in Wait(n)
        BY <2>5, <2>8
      <4> HIDE DEF Wait
      <4>4. AliveEnds(N, Wait(n) \ {k}, T) /\ ServesOff(N, Wait(n) \ {k}, T)
        BY <2>6, <3>2, <3>3, <4>1, <4>2, <4>3, MergeServes
      <4> QED BY <2>5, <4>4
    <3>6. Able => ServesOff(N, Wait(n + 1) \cup {s}, T)
      <4> HIDE DEF Wait, Able
      <4> QED BY <3>5 DEF ServesOff
    <3>7. Good(n + 1)
      <4> HIDE DEF Wait, Able
      <4> QED BY <3>4, <3>5, <3>6 DEF N
    <3> QED BY <2>1, <3>7
  <2> QED BY <2>7, <2>8
<1>4. MaxGroups \in S
  <2>1. 0..MaxGroups \subseteq S
    <3> HIDE DEF S
    <3> QED BY <1>2, <1>3, InductionUpTo, MaxGroupsAssumption
  <2> HIDE DEF S
  <2> QED BY <2>1, MaxGroupsAssumption
<1>5. Good(MaxGroups) /\ Wait(MaxGroups) = {}
  BY <1>0, <1>4
<1>6. ASSUME Able, G \ {s} # {}
      PROVE  Serves(V, T)
  <2>1. \E g \in G \ {s} : g <= MaxGroups
    BY <1>0, <1>6
  <2>2. ServesOff(V, Wait(MaxGroups), T)
    BY <1>1, <1>5, <1>6, <2>1
  <2>3. ServesOff(V, {}, T)
    BY <1>5, <2>2
  <2> QED BY <2>3, ServesAllOff
<1> QED BY <1>1, <1>5, <1>6 DEF FixupTensorMergeServes

-----------------------------------------------------------------------------
(* Links that serve go on serving when the groups that changed are         *)
(* validated.                                                              *)
LEMMA ValidateEdgesServes ==
  ASSUME NEW U \in SUBSET Slots, NEW L, Fine(L, U), Matched(L), NEW Told, Serves(L, Told),
         NEW T, NEW G \in SUBSET Slots, \A g \in Slots \ G : T[g] = Told[g],
         NEW V, V = ValidateEdges(L, T, G)
  PROVE  Serves(V, T)
<1>1. Validates(L, V, T, U) /\ \A g \in G : ServesAt(V, T, g)
  BY ValidateEdgesKeeps
<1>2. \A a, b \in Slots : Kept(V, a, b) \subseteq Kept(L, a, b)
  BY <1>1 DEF Validates, Trims
<1>3. ASSUME NEW a \in Slots, NEW b \in Slots
      PROVE  Kept(V, a, b) \subseteq Keepable(T, a, b)
  <2>1. CASE a \in G \/ b \in G
    BY <1>1, <2>1 DEF ServesAt
  <2>2. CASE a \notin G /\ b \notin G
    BY <1>2, <2>2 DEF Serves, Keepable
  <2> QED BY <2>1, <2>2
<1> QED BY <1>3 DEF Serves

(* The fixup of a steal touches nothing but what leads to gb. *)
Pilfered(L, N, gb, U) ==
  /\ Fine(N, U) /\ (Matched(L) => Matched(N))
  /\ \A a \in Slots : /\ N.next[a] = a => a = gb
                      /\ \A b \in Slots \ {gb} : Kept(N, a, b) \subseteq Kept(L, a, b)

LEMMA FixupStealKeeps ==
  ASSUME NEW U \in SUBSET Slots, NEW L, Fine(L, U), Plain(L),
         NEW ga \in Slots \ U, NEW gb \in Slots \ U, ga # gb, NEW op, NEW T,
         NEW N, N = FixupSteal(L, T, op, ga, gb)
  PROVE  Pilfered(L, N, gb, U)
<1>1. L \in Store /\ Backed(L) /\ SelfKept(L) /\ (\A x \in U : Idle(L, x))
      /\ \A a \in Slots : L.prev[a] \in Slots \cup {None} /\ L.next[a] \in Slots \cup {None}
  BY DEF Fine, Store
<1>2. PICK p : p = L.prev[ga]
  OBVIOUS
<1>3. PICK F : F = {t \in Kept(L, p, ga) : op \in Consumers(t) /\ ~ConsumedIn(t, T[ga] \ {op})}
  OBVIOUS
<1>4. PICK R : R = Kept(L, p, ga) \ F
  OBVIOUS
<1>5. N = IF p = None \/ F = {} \/ L.prev[gb] # None THEN L
          ELSE IF R = {} THEN Link(Unlink(L, p, ga), p, gb, F)
          ELSE [L EXCEPT !.kept = @ \ Triples(p, ga, F), !.prev[gb] = p]
  BY <1>2, <1>3, <1>4 DEF FixupSteal
<1>6. CASE p = None \/ F = {} \/ L.prev[gb] # None
  <2>1. N = L
    BY <1>5, <1>6
  <2> QED BY <2>1 DEF Pilfered, Plain
<1>7. CASE ~(p = None \/ F = {} \/ L.prev[gb] # None)
  <2>1. p \in Slots /\ p \notin U /\ F # {} /\ L.prev[gb] = None /\ F \in SUBSET Ops
        /\ Kept(L, p, ga) # {}
    <3>1. F \subseteq Kept(L, p, ga)
      BY <1>3
    <3>2. Kept(L, p, ga) \in SUBSET Ops
      BY KeptOps
    <3>3. p \in Slots /\ p \notin U
      BY <1>1, <1>2, <1>7 DEF Idle
    <3> QED BY <1>7, <3>1, <3>2, <3>3
  <2>2. Matched(L) => L.next[p] = ga
    BY <2>1 DEF Matched
  <2>3. CASE R = {}
    <3>1. PICK M : M = Unlink(L, p, ga)
      OBVIOUS
    <3>2. Fine(M, U) /\ (L.next[p] = ga => Upkeep(L, M))
      BY <1>2, <2>1, <3>1, UnlinkKeeps
    <3>3. Untied(L, M, p, ga) /\ M \in Store
      <4>1. Untied(L, M, p, ga)
        BY <1>1, <2>1, <3>1, UnlinkView
      <4> QED BY <4>1 DEF Untied
    <3>4. M.prev[gb] = None /\ M.next[p] = None
      BY <2>1, <3>3 DEF Untied
    <3>5. N = Link(M, p, gb, F)
      BY <1>5, <1>7, <2>3, <3>1
    <3>6. Joins(M, N, p, gb, F, U)
      BY <2>1, <3>2, <3>4, <3>5, LinkKeeps
    <3>7. Tied(M, N, p, gb, F)
      BY <2>1, <3>3, <3>5, LinkView
    <3>8. Matched(L) => Matched(N)
      BY <2>1, <2>2, <3>2, <3>4, <3>6 DEF Upkeep, Joins
    <3>9. ASSUME NEW a \in Slots
          PROVE  /\ N.next[a] = a => a = gb
                 /\ \A b \in Slots \ {gb} : Kept(N, a, b) \subseteq Kept(L, a, b)
      <4>1. N.next[a] = IF a = p THEN gb ELSE L.next[a]
        BY <3>3, <3>7 DEF Untied, Tied
      <4>2. \A b \in Slots \ {gb} : Kept(N, a, b) \subseteq Kept(L, a, b)
        BY <3>3, <3>7 DEF Untied, Tied
      <4> QED BY <4>1, <4>2 DEF Plain
    <3> QED BY <3>6, <3>8, <3>9 DEF Joins, Pilfered
  <2>4. CASE R # {}
    <3>1. N = [L EXCEPT !.kept = @ \ Triples(p, ga, F), !.prev[gb] = p]
      BY <1>5, <1>7, <2>4
    <3>2. /\ N.kept = L.kept \ Triples(p, ga, F) /\ N.next = L.next /\ N \in Store
          /\ \A g \in Slots : N.prev[g] = IF g = gb THEN p ELSE L.prev[g]
      <4>1. N.kept = L.kept \ Triples(p, ga, F)
        BY <1>1, <3>1 DEF Store
      <4>2. N.next = L.next /\ N.prev = [L.prev EXCEPT ![gb] = p]
        BY <1>1, <3>1 DEF Store
      <4>3. DOMAIN N = {"next", "prev", "kept"} /\ N = [x \in DOMAIN N |-> N[x]]
        BY <1>1, <3>1 DEF Store
      <4>4. N \in Store
        BY <1>1, <2>1, <4>1, <4>2, <4>3 DEF Store
      <4> QED BY <1>1, <4>1, <4>2, <4>4 DEF Store
    <3>3. ASSUME NEW c \in Slots, NEW d \in Slots
          PROVE  Kept(N, c, d) = IF c = p /\ d = ga THEN R ELSE Kept(L, c, d)
      <4>1. \A t \in Ops : <<c, d, t>> \in N.kept
                             <=> <<c, d, t>> \in L.kept /\ ~(c = p /\ d = ga /\ t \in F)
        BY <2>1, <3>2, TripleMembers
      <4> QED BY <1>4, <4>1 DEF Kept
    <3>4. Backed(N)
      BY <1>1, <2>1, <3>2, NoneApart DEF Backed
    <3>5. SelfKept(N) /\ \A a \in Slots : N.next[a] # a
      BY <3>2 DEF SelfKept, Plain
    <3>6. ASSUME NEW x \in U PROVE Idle(N, x)
      <4>1. x \in Slots /\ Idle(L, x) /\ x # p /\ x # gb /\ x # ga
        BY <1>1, <2>1
      <4> QED BY <3>2, <3>3, <4>1 DEF Idle
    <3>7. Matched(L) => Matched(N)
      BY <2>2, <2>4, <3>2, <3>3 DEF Matched
    <3>8. \A a, b \in Slots : Kept(N, a, b) \subseteq Kept(L, a, b)
      BY <1>4, <3>3
    <3> QED BY <3>2, <3>4, <3>5, <3>6, <3>7, <3>8 DEF Fine, Pilfered
  <2> QED BY <2>3, <2>4
<1> QED BY <1>6, <1>7

(* Then both sides are validated. *)
Robbed(L, V, Told, T, ga, gb, U) ==
  /\ Fine(V, U) /\ Plain(V) /\ (Matched(L) => Matched(V))
  /\ Matched(L) /\ Serves(L, Told) /\ (\A g \in Slots \ (U \cup {ga, gb}) : T[g] = Told[g])
       => Serves(V, T)

LEMMA StealKeeps ==
  ASSUME NEW U \in SUBSET Slots, NEW L, Fine(L, U), Plain(L),
         NEW ga \in Slots \ U, NEW gb \in Slots \ U, ga # gb, NEW op, NEW Told, NEW T,
         NEW V, V = ValidateEdges(ValidateEdges(FixupSteal(L, T, op, ga, gb), T, {ga}), T, {gb})
  PROVE  Robbed(L, V, Told, T, ga, gb, U)
<1>1. PICK N : N = FixupSteal(L, T, op, ga, gb)
  OBVIOUS
<1>2. Pilfered(L, N, gb, U)
  BY <1>1, FixupStealKeeps
<1>3. Fine(N, U) /\ (Matched(L) => Matched(N))
  BY <1>2 DEF Pilfered
<1>4. PICK M : M = ValidateEdges(N, T, {ga})
  OBVIOUS
<1>5. Validates(N, M, T, U) /\ (Matched(N) => ServesAt(M, T, ga))
  BY <1>3, <1>4, ValidateEdgesKeeps
<1>6. Fine(M, U) /\ (Matched(N) => Matched(M)) /\ Trims(N, M)
  BY <1>5 DEF Validates, Upkeep
<1>7. V = ValidateEdges(M, T, {gb})
  BY <1>1, <1>4
<1>8. Validates(M, V, T, U) /\ V.next[gb] # gb /\ (Matched(M) => ServesAt(V, T, gb))
  BY <1>6, <1>7, ValidateEdgesKeeps
<1>9. Fine(V, U) /\ (Matched(M) => Matched(V)) /\ Trims(M, V)
  BY <1>8 DEF Validates, Upkeep
<1>10. Trims(N, V)
  BY <1>6, <1>9 DEF Trims
<1>11. Plain(V)
  BY <1>2, <1>8, <1>10, NoneApart DEF Pilfered, Plain, Trims
<1>12. ASSUME Matched(L), Serves(L, Told), \A g \in Slots \ (U \cup {ga, gb}) : T[g] = Told[g],
              NEW a \in Slots, NEW b \in Slots
       PROVE  Kept(V, a, b) \subseteq Keepable(T, a, b)
  <2>1. Matched(N) /\ Matched(M)
    BY <1>3, <1>6, <1>12
  <2>2. CASE a = gb \/ b = gb
    BY <1>8, <2>1, <2>2 DEF ServesAt
  <2>3. CASE a = ga \/ b = ga
    <3>1. Kept(V, a, b) \subseteq Kept(M, a, b)
      BY <1>9 DEF Trims
    <3> QED BY <1>5, <2>1, <2>3, <3>1 DEF ServesAt
  <2>4. CASE a \notin {ga, gb} /\ b \notin {ga, gb}
    <3>1. Kept(V, a, b) \subseteq Kept(L, a, b)
      BY <1>2, <1>10, <2>4 DEF Pilfered, Trims
    <3>2. Kept(V, a, b) # {} => a \notin U /\ b \notin U
      BY <1>9 DEF Fine, Idle
    <3>3. Kept(L, a, b) \subseteq Keepable(Told, a, b)
      BY <1>12 DEF Serves
    <3> QED BY <1>12, <2>4, <3>1, <3>2, <3>3 DEF Keepable
  <2> QED BY <2>2, <2>3, <2>4
<1>13. Matched(L) => Matched(V)
  BY <1>3, <1>6, <1>9
<1> QED BY <1>9, <1>11, <1>12, <1>13 DEF Robbed, Serves

-----------------------------------------------------------------------------
(* The fixup after a split.                                                *)

Incoming(T, g) == {t \in Ops : IsBoundaryInput(T[g], t)}
Outgoing(T, g) == {t \in Ops : IsBoundaryOutput(T[g], t)}

(* ga's incoming link is ga's or new's. *)
InCut(L, M, T, ga, new, U) ==
  /\ Fixes(L, M, U) /\ M.next[new] = None
  /\ \A a, b \in Slots : Kept(M, a, b) \subseteq Kept(L, a, IF b = new THEN ga ELSE b)
  /\ \A a \in Slots : Kept(M, new, a) = {} /\ Kept(M, a, new) \subseteq Incoming(T, new)
  /\ Matched(L) => \A a \in Slots : Kept(M, a, ga) \subseteq Incoming(T, ga)

LEMMA FixupSplitInKeeps ==
  ASSUME NEW U \in SUBSET Slots, NEW L, Fine(L, U),
         NEW ga \in Slots \ U, NEW new \in Slots \ U, ga # new, Idle(L, new), NEW T,
         NEW M, M = FixupSplitIn(L, T, ga, new)
  PROVE  InCut(L, M, T, ga, new, U)
<1>1. L \in Store /\ Backed(L) /\ (\A x \in U : Idle(L, x))
      /\ \A a \in Slots : L.prev[a] \in Slots \cup {None} /\ L.next[a] \in Slots \cup {None}
  BY DEF Fine, Store
<1>2. PICK p : p = L.prev[ga]
  OBVIOUS
<1>3. PICK S : S = {t \in Kept(L, p, ga) : IsBoundaryInput(T[ga], t)}
  OBVIOUS
<1>4. PICK R : R = {t \in Kept(L, p, ga) \ S : IsBoundaryInput(T[new], t)}
  OBVIOUS
<1>5. M = IF p = None \/ Kept(L, p, ga) = {} THEN L
          ELSE IF S = {} /\ R # {} THEN Redirected(L, p, ga, p, new, R)
          ELSE PruneLink(L, p, ga, S)
  BY <1>2, <1>3, <1>4 DEF FixupSplitIn
<1>6. \A a \in Slots : /\ Kept(L, new, a) = {} /\ Kept(L, a, new) = {}
                       /\ L.prev[a] # new
  BY DEF Idle
<1>7. Matched(L) => \A a \in Slots : Kept(L, a, ga) # {} => a = p
  BY <1>1, <1>2, NoneApart DEF Matched, Backed
<1>8. S \subseteq Incoming(T, ga) /\ R \subseteq Incoming(T, new) /\ R \subseteq Kept(L, p, ga)
      /\ R \in SUBSET Ops
  BY <1>3, <1>4, KeptOps DEF Incoming
<1>9. CASE p = None \/ Kept(L, p, ga) = {}
  <2>1. M = L
    BY <1>5, <1>9
  <2>2. Fixes(L, M, U) /\ M.next[new] = None
    BY <2>1, FixesSelf DEF Idle
  <2>3. Matched(L) => \A a \in Slots : Kept(M, a, ga) = {}
    BY <1>7, <1>9, <2>1, NoneApart
  <2> QED BY <1>6, <2>1, <2>2, <2>3 DEF InCut
<1>10. CASE p # None /\ Kept(L, p, ga) # {} /\ S = {} /\ R # {}
  <2>1. p \in Slots /\ p \notin U /\ p # new
    BY <1>1, <1>2, <1>6, <1>10 DEF Idle
  <2>2. L.prev[new] = None /\ L.next[new] = None
    BY DEF Idle
  <2>3. M = Redirected(L, p, ga, p, new, R)
    BY <1>5, <1>10
  <2>4. Fixes(L, M, U) /\ \E N \in Store : Untied(L, N, p, ga) /\ Tied(N, M, p, new, R)
    BY <1>2, <1>8, <1>10, <2>1, <2>2, <2>3, RedirectFixes
  <2>5. PICK N \in Store : Untied(L, N, p, ga) /\ Tied(N, M, p, new, R)
    BY <2>4
  <2>6. /\ M.next[new] = L.next[new]
        /\ \A c, d \in Slots : Kept(M, c, d) = IF c = p /\ d = ga THEN {}
                                               ELSE IF c = p /\ d = new THEN Kept(L, p, new) \cup R
                                               ELSE Kept(L, c, d)
    BY <2>1, <2>5 DEF Untied, Tied
  <2>7. \A a, b \in Slots : Kept(M, a, b) \subseteq Kept(L, a, IF b = new THEN ga ELSE b)
    BY <1>6, <1>8, <2>1, <2>6
  <2>8. \A a \in Slots : Kept(M, new, a) = {} /\ Kept(M, a, new) \subseteq Incoming(T, new)
    BY <1>6, <1>8, <2>1, <2>6
  <2>9. Matched(L) => \A a \in Slots : Kept(M, a, ga) = {}
    BY <1>7, <2>6
  <2> QED BY <2>2, <2>4, <2>6, <2>7, <2>8, <2>9 DEF InCut
<1>11. CASE p # None /\ Kept(L, p, ga) # {} /\ ~(S = {} /\ R # {})
  <2>1. p \in Slots /\ L.prev[ga] = p
    BY <1>1, <1>2, <1>11
  <2>2. M = PruneLink(L, p, ga, S)
    BY <1>5, <1>11
  <2>3. Prunes(L, M, p, ga, S, U)
    BY <2>1, <2>2, PruneKeeps
  <2>4. Fixes(L, M, U) /\ Trims(L, M) /\ Kept(M, p, ga) \subseteq S
    BY <2>3, TrimsPlain, JointUpkeep DEF Prunes, Fixes
  <2>5. M.next[new] = None
    BY <2>4 DEF Trims, Idle
  <2>6. \A a, b \in Slots : Kept(M, a, b) \subseteq Kept(L, a, b)
    BY <2>4 DEF Trims
  <2>7. Matched(L) => \A a \in Slots : Kept(M, a, ga) \subseteq Incoming(T, ga)
    BY <1>7, <1>8, <2>4, <2>6
  <2>8. \A a, b \in Slots : Kept(M, a, b) \subseteq Kept(L, a, IF b = new THEN ga ELSE b)
    BY <1>6, <2>6
  <2> QED BY <1>6, <2>4, <2>5, <2>6, <2>7, <2>8 DEF InCut
<1> QED BY <1>9, <1>10, <1>11

(* And so is its outgoing one. *)
OutCut(M, N, T, ga, new, U) ==
  /\ Fixes(M, N, U)
  /\ \A a, b \in Slots : Kept(N, a, b) \subseteq Kept(M, IF a = new THEN ga ELSE a, b)
  /\ \A b \in Slots : Kept(N, new, b) \subseteq Outgoing(T, new)
  /\ Matched(M) => \A b \in Slots : Kept(N, ga, b) \subseteq Outgoing(T, ga)

LEMMA FixupSplitOutKeeps ==
  ASSUME NEW U \in SUBSET Slots, NEW L, NEW M, NEW T,
         NEW ga \in Slots \ U, NEW new \in Slots \ U, ga # new, InCut(L, M, T, ga, new, U),
         NEW N, N = FixupSplitOut(M, T, ga, new)
  PROVE  OutCut(M, N, T, ga, new, U)
<1>0. /\ Fine(M, U) /\ M.next[new] = None
      /\ \A a \in Slots : Kept(M, new, a) = {} /\ Kept(M, a, new) \subseteq Incoming(T, new)
  BY DEF InCut, Fixes
<1>1. M \in Store /\ Backed(M) /\ (\A x \in U : Idle(M, x))
      /\ \A a \in Slots : M.next[a] \in Slots \cup {None}
  BY <1>0 DEF Fine, Store
<1>2. PICK n : n = M.next[ga]
  OBVIOUS
<1>3. PICK S : S = {t \in Kept(M, ga, n) : IsBoundaryOutput(T[ga], t)}
  OBVIOUS
<1>4. PICK R : R = {t \in Kept(M, ga, n) \ S : IsBoundaryOutput(T[new], t)}
  OBVIOUS
<1>5. N = IF n = None \/ Kept(M, ga, n) = {} THEN M
          ELSE IF S = {} /\ R # {} THEN Redirected(M, ga, n, new, n, R)
          ELSE PruneLink(M, ga, n, S)
  BY <1>2, <1>3, <1>4 DEF FixupSplitOut
<1>6. Matched(M) => \A b \in Slots : Kept(M, ga, b) # {} => b = n
  BY <1>2 DEF Matched
<1>8. S \subseteq Outgoing(T, ga) /\ R \subseteq Outgoing(T, new) /\ R \subseteq Kept(M, ga, n)
      /\ R \in SUBSET Ops
  BY <1>3, <1>4, KeptOps DEF Outgoing
<1>9. CASE n = None \/ Kept(M, ga, n) = {}
  <2>1. N = M
    BY <1>5, <1>9
  <2>2. Fixes(M, N, U)
    BY <1>0, <2>1, FixesSelf
  <2>3. Matched(M) => \A b \in Slots : Kept(N, ga, b) = {}
    BY <1>6, <1>9, <2>1, NoneApart
  <2> QED BY <1>0, <2>1, <2>2, <2>3 DEF OutCut
<1>10. CASE n # None /\ Kept(M, ga, n) # {} /\ S = {} /\ R # {}
  <2>1. n \in Slots /\ n \notin U /\ M.prev[n] = ga
    BY <1>1, <1>2, <1>10 DEF Idle, Backed
  <2>2. n # new
    <3>1. Incoming(T, new) \cap Outgoing(T, new) = {}
      BY DEF Incoming, Outgoing, IsBoundaryInput, IsBoundaryOutput
    <3> QED BY <1>0, <1>8, <1>10, <2>1, <3>1
  <2>3. N = Redirected(M, ga, n, new, n, R)
    BY <1>5, <1>10
  <2>4. Fixes(M, N, U) /\ \E O \in Store : Untied(M, O, ga, n) /\ Tied(O, N, new, n, R)
    BY <1>0, <1>8, <1>10, <2>1, <2>2, <2>3, RedirectFixes
  <2>5. PICK O \in Store : Untied(M, O, ga, n) /\ Tied(O, N, new, n, R)
    BY <2>4
  <2>6. \A c, d \in Slots : Kept(N, c, d) = IF c = ga /\ d = n THEN {}
                                             ELSE IF c = new /\ d = n THEN Kept(M, new, n) \cup R
                                             ELSE Kept(M, c, d)
    BY <2>1, <2>5 DEF Untied, Tied
  <2>7. \A a, b \in Slots : Kept(N, a, b) \subseteq Kept(M, IF a = new THEN ga ELSE a, b)
    BY <1>0, <1>8, <2>1, <2>6
  <2>8. \A b \in Slots : Kept(N, new, b) \subseteq Outgoing(T, new)
    BY <1>0, <1>8, <2>1, <2>6
  <2>9. Matched(M) => \A b \in Slots : Kept(N, ga, b) = {}
    BY <1>6, <2>6
  <2> QED BY <2>4, <2>7, <2>8, <2>9 DEF OutCut
<1>11. CASE n # None /\ Kept(M, ga, n) # {} /\ ~(S = {} /\ R # {})
  <2>1. n \in Slots /\ M.prev[n] = ga
    BY <1>1, <1>2, <1>11 DEF Backed
  <2>2. N = PruneLink(M, ga, n, S)
    BY <1>5, <1>11
  <2>3. Prunes(M, N, ga, n, S, U)
    BY <1>0, <2>1, <2>2, PruneKeeps
  <2>4. Fixes(M, N, U) /\ Trims(M, N) /\ Kept(N, ga, n) \subseteq S
    BY <2>3, TrimsPlain, JointUpkeep DEF Prunes, Fixes
  <2>6. \A a, b \in Slots : Kept(N, a, b) \subseteq Kept(M, a, b)
    BY <2>4 DEF Trims
  <2>7. Matched(M) => \A b \in Slots : Kept(N, ga, b) \subseteq Outgoing(T, ga)
    BY <1>6, <1>8, <2>4, <2>6
  <2>8. \A a, b \in Slots : Kept(N, a, b) \subseteq Kept(M, IF a = new THEN ga ELSE a, b)
    BY <1>0, <2>6
  <2>9. \A b \in Slots : Kept(N, new, b) = {}
    BY <1>0, <2>6
  <2> QED BY <2>4, <2>7, <2>8, <2>9 DEF OutCut
<1> QED BY <1>9, <1>10, <1>11

LEMMA FixupSplitKeeps ==
  ASSUME NEW U \in SUBSET Slots, NEW L, Fine(L, U), Plain(L),
         NEW ga \in Slots \ U, NEW new \in Slots \ U, ga # new, Idle(L, new),
         NEW Told, NEW T, \A g \in Slots \ {ga, new} : T[g] = Told[g],
         NEW N, N = FixupSplit(L, T, ga, new)
  PROVE  Fixes(L, N, U) /\ (Mutual(L) /\ Matched(L) /\ Serves(L, Told) => Serves(N, T))
<1>1. PICK M : M = FixupSplitIn(L, T, ga, new)
  OBVIOUS
<1>2. InCut(L, M, T, ga, new, U)
  BY <1>1, FixupSplitInKeeps
<1>3. N = FixupSplitOut(M, T, ga, new)
  BY <1>1 DEF FixupSplit
<1>4. OutCut(M, N, T, ga, new, U)
  BY <1>2, <1>3, FixupSplitOutKeeps
<1>5. Fixes(L, M, U) /\ Fixes(M, N, U) /\ Fixes(L, N, U)
  BY <1>2, <1>4, FixesOn DEF InCut, OutCut
<1>6. ASSUME Mutual(L), Matched(L), Serves(L, Told), NEW a \in Slots, NEW b \in Slots,
             NEW t \in Kept(N, a, b)
      PROVE  t \in Keepable(T, a, b)
  <2>1. Matched(M) /\ Plain(M)
    BY <1>5, <1>6 DEF Fixes, Joint
  <2>2. PICK aa \in Slots : aa = IF a = new THEN ga ELSE a
    OBVIOUS
  <2>3. PICK bb \in Slots : bb = IF b = new THEN ga ELSE b
    OBVIOUS
  <2>4. t \in Kept(M, aa, b)
    BY <1>4, <1>6, <2>2 DEF OutCut
  <2>5. t \in Kept(L, aa, bb)
    BY <1>2, <2>3, <2>4 DEF InCut
  <2>6. t \in Told[aa] /\ IsBoundaryInput(Told[bb], t) /\ t \in Ops
    BY <1>6, <2>5 DEF Serves, Keepable, Kept
  <2>7. t \in T[a]
    <3>1. CASE a \notin {ga, new}
      BY <2>2, <2>6, <3>1
    <3>2. CASE a \in {ga, new}
      <4>1. t \in Outgoing(T, a)
        BY <1>4, <1>6, <2>1, <3>2 DEF OutCut
      <4> QED BY <4>1 DEF Outgoing, IsBoundaryOutput
    <3> QED BY <3>1, <3>2
  <2>8. IsBoundaryInput(T[b], t)
    <3>1. CASE b \notin {ga, new}
      BY <2>3, <2>6, <3>1
    <3>2. CASE b = ga
      <4>1. t \in Incoming(T, ga)
        BY <1>2, <1>6, <2>4, <3>2 DEF InCut
      <4> QED BY <3>2, <4>1 DEF Incoming
    <3>3. CASE b = new
      <4>1. t \in Incoming(T, new)
        BY <1>2, <2>4, <3>3 DEF InCut
      <4> QED BY <3>3, <4>1 DEF Incoming
    <3> QED BY <3>1, <3>2, <3>3
  <2> QED BY <2>7, <2>8 DEF Keepable
<1> QED BY <1>5, <1>6 DEF Serves

-----------------------------------------------------------------------------
(* The links of a state: slots no group has been given yet have none.      *)

Free(n) == {x \in Slots : x > n}

LinkInv == Fine(links, Free(ngroups)) /\ Plain(links)

(* What a step does to links that were in order before it.                 *)
Tends(L, V, Told, T, U) ==
  Fixes(L, V, U) /\ (Mutual(L) /\ Matched(L) /\ Serves(L, Told) => Serves(V, T))

Tended == Tends(links, links', groups, groups', Free(ngroups'))

LEMMA FineOn ==
  ASSUME NEW U, NEW W \in SUBSET U, NEW L, Fine(L, U)
  PROVE  Fine(L, W)
  BY DEF Fine

LEMMA FreeShrinks ==
  ASSUME NEW n \in Nat, NEW m \in Nat, n <= m
  PROVE  Free(m) \in SUBSET Free(n) /\ Free(n) \in SUBSET Slots
  BY MaxGroupsAssumption DEF Free, Slots

LEMMA AliveInUse ==
  ASSUME Consistent
  PROVE  /\ Alive \subseteq Slots \ Free(ngroups)
         /\ ngroups \in Nat /\ groups \in [Slots -> SUBSET Ops]
         /\ \A g \in Free(ngroups) : groups[g] = {}
  BY MaxGroupsAssumption DEF Consistent, TypeOK, Alive, Free

LEMMA ServesIsAlive ==
  ASSUME NEW L, NEW T, Serves(L, T)
  PROVE  \A a, b \in Slots : Kept(L, a, b) # {} => T[a] # {} /\ T[b] # {}
  BY DEF Serves, Keepable, IsBoundaryInput, ConsumedIn

(* A move takes slots that were free, and edits only the groups it names.  *)
LEMMA ShiftGrows ==
  ASSUME Consistent, NEW op, NEW G, Shifts(op, G)
  PROVE  /\ ngroups' \in Nat /\ ngroups <= ngroups' /\ G \subseteq Alive
         /\ \A g \in Slots \ (Free(ngroups) \cup G) : groups'[g] = groups[g]
<1>1. PICK kept, pieces, q : Move(G, kept, pieces, q)
  BY DEF Shifts
<1>2. G \subseteq Alive /\ DOMAIN kept = G /\ q \in Layouts(pieces)
      /\ groups' = NewTable(kept, q) /\ ngroups' = ngroups + Len(q)
  BY <1>1 DEF Move
<1>3. PICK n \in 0..(MaxGroups - ngroups) :
        /\ Len(q) = n
        /\ Appended(q) = (ngroups + 1)..(ngroups + n)
        /\ \A g \in Slots : g \in Appended(q) <=> g - ngroups \in DOMAIN q
  BY <1>2, AppendedSlots DEF Consistent
<1>4. ngroups \in Nat
  BY AliveInUse
<1>5. \A g \in Slots \ Free(ngroups) : g \notin Appended(q)
  BY <1>3, <1>4, MaxGroupsAssumption DEF Free, Slots
<1>6. ASSUME NEW g \in Slots \ (Free(ngroups) \cup G) PROVE groups'[g] = groups[g]
  <2>1. g \notin DOMAIN kept /\ g - ngroups \notin DOMAIN q /\ g \in Slots
    BY <1>2, <1>3, <1>5, <1>6
  <2> QED BY <1>2, <2>1 DEF NewTable
<1> QED BY <1>2, <1>3, <1>4, <1>6

LEMMA RevalidateTends ==
  ASSUME Inv, LinkInv, NEW op, NEW G, Shifts(op, G), Revalidate
  PROVE  Tended
<1>1. Free(ngroups') \in SUBSET Free(ngroups) /\ Free(ngroups) \in SUBSET Slots
  BY ShiftGrows, AliveInUse, FreeShrinks DEF Inv
<1>2. PICK U \in SUBSET Slots : U = Free(ngroups')
  BY <1>1
<1>3. Fine(links, U)
  BY <1>1, <1>2, FineOn DEF LinkInv
<1>4. PICK T : T = groups'
  OBVIOUS
<1>5. PICK E \in SUBSET Slots : E = Edited
  BY DEF Edited
<1>6. PICK V : V = ValidateEdges(links, T, E)
  OBVIOUS
<1>7. links' = V
  BY <1>4, <1>5, <1>6 DEF Revalidate
<1>8. Validates(links, V, T, U)
  BY <1>3, <1>6, ValidateEdgesKeeps
<1>9. Fixes(links, V, U)
  BY <1>8, ValidatesFixes
<1>10. \A g \in Slots \ E : T[g] = groups[g]
  BY <1>4, <1>5 DEF Edited
<1>11. Matched(links) /\ Serves(links, groups) => Serves(V, T)
  BY <1>3, <1>6, <1>10, ValidateEdgesServes
<1> QED BY <1>2, <1>4, <1>7, <1>9, <1>11 DEF Tended, Tends

(* The two merges. *)
LEMMA MergeTends ==
  ASSUME Inv, LinkInv, NEW ga, NEW gb, ApplyMerge(ga, gb),
         links' = FixupMerge(links, groups', ga, gb)
  PROVE  Tended
<1>1. ga # gb /\ ga \in Alive /\ gb \in Alive
  BY DEF ApplyMerge, MergeApplies
<1>2. /\ ga \in Slots \ Free(ngroups) /\ gb \in Slots \ Free(ngroups) /\ ngroups \in Nat
      /\ groups[ga] # {}
  BY <1>1, AliveInUse DEF Inv, Alive
<1>3. /\ groups' = NewTable([g \in {ga, gb} |-> IF g = ga THEN groups[ga] \cup groups[gb] ELSE {}], <<>>)
      /\ ngroups' = ngroups + Len(<<>>)
  BY DEF ApplyMerge, Commit
<1>4. ngroups' = ngroups
  BY <1>2, <1>3
<1>5. /\ groups'[ga] = groups[ga] \cup groups[gb] /\ groups'[gb] = {}
      /\ \A g \in Slots \ {ga, gb} : groups'[g] = groups[g]
  BY <1>1, <1>2, <1>3 DEF NewTable
<1>6. PICK U \in SUBSET Slots : U = Free(ngroups)
  BY DEF Free
<1>7. PICK T : T = groups'
  OBVIOUS
<1>8. PICK V : V = FixupMerge(links, T, ga, gb)
  OBVIOUS
<1>9. ga \in Slots \ U /\ gb \in Slots \ U /\ Fine(links, U) /\ Plain(links)
  BY <1>2, <1>6 DEF LinkInv
<1>10. Merged(links, V, ga, gb, T, U)
  BY <1>1, <1>8, <1>9, FixupMergeFixes
<1>11. ASSUME Mutual(links), Matched(links), Serves(links, groups)
       PROVE  Serves(V, T)
  <2>1. PICK K \in SUBSET Slots : K = {gb}
    BY <1>9
  <2>2. T[ga] # {} /\ T[gb] = {} /\ \A g \in Slots \ (K \cup {ga}) : T[g] = groups[g]
    BY <1>2, <1>5, <1>7, <2>1
  <2>3. AliveEnds(links, K, T) /\ ServesOff(links, K \cup {ga}, T)
    BY <1>9, <1>11, <2>2, ServesBefore
  <2>4. gb \in K /\ ga \notin K /\ K \ {gb} = {}
    BY <1>1, <2>1
  <2>5. ServesOff(V, K \ {gb}, T)
    BY <1>1, <1>9, <1>10, <1>11, <2>2, <2>3, <2>4, MergeServes
  <2> QED BY <2>4, <2>5, ServesAllOff
<1> QED BY <1>4, <1>6, <1>7, <1>8, <1>10, <1>11 DEF Tended, Tends, Merged

LEMMA TensorMergeTends ==
  ASSUME Inv, LinkInv, NEW G, ApplyTensorMerge(G), \E g, h \in G : g # h,
         links' = FixupTensorMerge(links, groups', G)
  PROVE  Tended
<1>1. G \subseteq Alive
  BY DEF ApplyTensorMerge, TensorMergeApplies
<1>2. ngroups \in Nat /\ G \subseteq Slots \ Free(ngroups) /\ \A g \in G : groups[g] # {}
  BY <1>1, AliveInUse DEF Inv, Alive
<1>3. PICK s : s = Least(G)
  OBVIOUS
<1>4. s \in G
  <2>1. G \in SUBSET Nat /\ G # {}
    BY <1>2, SlotsFinite
  <2> QED BY <1>3, <2>1, LeastIsMember
<1>5. /\ groups' = NewTable([g \in G |-> IF g = s THEN Union(G) ELSE {}], <<>>)
      /\ ngroups' = ngroups + Len(<<>>)
  BY <1>3 DEF ApplyTensorMerge, Commit
<1>6. ngroups' = ngroups
  BY <1>2, <1>5
<1>7. /\ groups'[s] = Union(G) /\ \A g \in G \ {s} : groups'[g] = {}
      /\ \A g \in Slots \ G : groups'[g] = groups[g]
  BY <1>2, <1>4, <1>5 DEF NewTable
<1>8. Union(G) # {}
  BY <1>2, <1>4 DEF Union
<1>9. PICK U \in SUBSET Slots : U = Free(ngroups)
  BY DEF Free
<1>10. PICK T : T = groups'
  OBVIOUS
<1>11. PICK V : V = FixupTensorMerge(links, T, G)
  OBVIOUS
<1>12. G \in SUBSET (Slots \ U) /\ Fine(links, U) /\ Plain(links)
  BY <1>2, <1>9 DEF LinkInv
<1>13. Fixes(links, V, U) /\ FixupTensorMergeServes(links, V, T, G, s)
  BY <1>3, <1>4, <1>11, <1>12, FixupTensorMergeFixes
<1>14. ASSUME Mutual(links), Matched(links), Serves(links, groups)
       PROVE  Serves(V, T)
  <2>1. PICK K \in SUBSET Slots : K = G \ {s}
    BY <1>2
  <2>2. K \cup {s} = G /\ K # {} /\ s \in Slots
    BY <1>2, <1>4, <2>1
  <2>3. T[s] # {} /\ (\A g \in K : T[g] = {}) /\ \A g \in Slots \ (K \cup {s}) : T[g] = groups[g]
    BY <1>7, <1>8, <1>10, <2>1, <2>2
  <2>4. AliveEnds(links, K, T) /\ ServesOff(links, K \cup {s}, T)
    BY <1>14, <2>2, <2>3, ServesBefore
  <2> QED BY <1>13, <1>14, <2>1, <2>2, <2>3, <2>4 DEF FixupTensorMergeServes
<1> QED BY <1>6, <1>9, <1>10, <1>11, <1>13, <1>14 DEF Tended, Tends

(* One piece takes one slot. *)
LEMMA OnePiece ==
  ASSUME Inv, NEW x, x[1] \in Int, x[2] \in (SUBSET Ops) \ {{}}, NEW q \in Layouts({x})
  PROVE  /\ Len(q) = 1 /\ ngroups + 1 \in Slots /\ Appended(q) = {ngroups + 1}
         /\ q[1] = x
<1>0. PICK P : P = {x}
  OBVIOUS
<1>1. PICK n \in 0..(MaxGroups - ngroups) :
        /\ q \in [1..n -> P] /\ Len(q) = n
        /\ Appended(q) = (ngroups + 1)..(ngroups + n)
        /\ ngroups + n \in 0..MaxGroups
        /\ \A y \in P : \E g \in Appended(q) : q[g - ngroups] = y
  <2>1. TypeOK /\ q \in Layouts(P)
    BY <1>0 DEF Inv, Consistent
  <2> QED BY <2>1, AppendedSlots
<1>2. ngroups \in Nat /\ MaxGroups \in Nat
  BY AliveInUse, MaxGroupsAssumption DEF Inv
<1>3. \A i, j \in DOMAIN q : q[i] = q[j] => i = j
  <2>1. q \in Layouts(P) /\ \A y \in P : y[1] \in Int /\ y[2] \in (SUBSET Ops) \ {{}}
    BY <1>0
  <2> QED BY <2>1, LayoutInjective
<1>4. n # 0
  BY <1>0, <1>1, <1>2
<1>5. ~(n >= 2)
  <2>1. SUFFICES ASSUME n >= 2 PROVE FALSE
    OBVIOUS
  <2>2. 1 \in 1..n /\ 2 \in 1..n
    BY <1>1, <1>2, <2>1
  <2>3. q[1] = x /\ q[2] = x /\ 1 \in DOMAIN q /\ 2 \in DOMAIN q
    BY <1>0, <1>1, <2>2
  <2> QED BY <1>3, <2>3
<1>6. n = 1
  BY <1>1, <1>2, <1>4, <1>5
<1>7. 1 \in 1..n
  BY <1>6
<1> QED BY <1>0, <1>1, <1>2, <1>6, <1>7 DEF Slots

(* A cut moves part of a group into the next slot. *)
Cuts(g) ==
  /\ ngroups' = ngroups + 1 /\ ngroups + 1 \in Slots
  /\ \A h \in Slots \ {g, ngroups + 1} : groups'[h] = groups[h]

LEMMA CutSlots ==
  ASSUME Inv, NEW g \in Alive, Cuts(g)
  PROVE  /\ Free(ngroups') \in SUBSET Free(ngroups) /\ Free(ngroups) \in SUBSET Slots
         /\ g \in Slots \ Free(ngroups) /\ ngroups + 1 \in Free(ngroups) \ Free(ngroups')
         /\ g # ngroups + 1
<1>1. ngroups \in Nat /\ g \in Slots \ Free(ngroups)
  BY AliveInUse DEF Inv
<1> QED BY <1>1, MaxGroupsAssumption DEF Cuts, Free, Slots

LEMMA SplitCuts ==
  ASSUME Inv, NEW op \in Ops, NEW v, NEW ga \in Slots, ApplySplit(op, v, ga)
  PROVE  Cuts(ga) /\ ga \in Alive
<1>1. PICK stay : stay = SideOf(groups[ga], op, v)
  OBVIOUS
<1>2. PICK moved : moved = groups[ga] \ stay
  OBVIOUS
<1>3. PICK x : x = <<Rank(0), moved>>
  OBVIOUS
<1>4. PICK q \in Layouts({x}) :
        Commit(NewTable([g \in {ga} |-> stay], q), IndexRemove(IndexAppend(index, q), moved, ga),
               q, {ga} \cup Appended(q))
  BY <1>1, <1>2, <1>3 DEF ApplySplit
<1>5. v \in moved /\ groups[ga] # {}
  BY <1>1, <1>2 DEF ApplySplit, SplitApplies, SplitFeasible, IsBridge
<1>6. x[1] \in Int /\ x[2] \in (SUBSET Ops) \ {{}}
  <2>1. moved \in SUBSET Ops
    BY <1>2 DEF Inv, Consistent, TypeOK
  <2> QED BY <1>3, <1>5, <2>1, MaxGroupsAssumption DEF Rank
<1>7. Len(q) = 1 /\ ngroups + 1 \in Slots /\ Appended(q) = {ngroups + 1}
  BY <1>4, <1>6, OnePiece
<1>8. ngroups' = ngroups + 1 /\ groups' = NewTable([g \in {ga} |-> stay], q)
  BY <1>4, <1>7 DEF Commit
<1>9. \A g \in Slots : g \in Appended(q) <=> g - ngroups \in DOMAIN q
  BY <1>4, AppendedSlots DEF Inv, Consistent
<1>10. \A g \in Slots \ {ga, ngroups + 1} : groups'[g] = groups[g]
  BY <1>7, <1>8, <1>9 DEF NewTable
<1> QED BY <1>5, <1>7, <1>8, <1>10 DEF Cuts, Alive

LEMMA SplitTends ==
  ASSUME Inv, LinkInv, NEW op \in Ops, NEW v, NEW ga \in Slots, ApplySplit(op, v, ga),
         links' = FixupSplit(links, groups', ga, ngroups + 1)
  PROVE  Tended
<1>1. Cuts(ga) /\ ga \in Alive
  BY SplitCuts
<1>2. PICK U : U = Free(ngroups')
  OBVIOUS
<1>3. PICK new : new = ngroups + 1
  OBVIOUS
<1>4. /\ U \in SUBSET Free(ngroups) /\ Free(ngroups) \in SUBSET Slots
      /\ ga \in Slots \ U /\ new \in Slots \ U /\ new \in Free(ngroups) /\ ga # new
  BY <1>1, <1>2, <1>3, CutSlots DEF Cuts
<1>5. U \in SUBSET Slots /\ Fine(links, U) /\ Plain(links) /\ Idle(links, new)
  BY <1>4, FineOn DEF LinkInv, Fine
<1>6. PICK T : T = groups'
  OBVIOUS
<1>7. PICK V : V = FixupSplit(links, T, ga, new)
  OBVIOUS
<1>8. \A g \in Slots \ {ga, new} : T[g] = groups[g]
  BY <1>1, <1>3, <1>6 DEF Cuts
<1>9. Fixes(links, V, U) /\ (Mutual(links) /\ Matched(links) /\ Serves(links, groups) => Serves(V, T))
  BY <1>4, <1>5, <1>7, <1>8, FixupSplitKeeps
<1> QED BY <1>2, <1>3, <1>6, <1>7, <1>9 DEF Tended, Tends

(* A STEAL may leave a back pointer without its link. *)
Stolen ==
  /\ Fine(links', Free(ngroups')) /\ Plain(links')
  /\ Matched(links) => Matched(links')
  /\ Matched(links) /\ Serves(links, groups) => Serves(links', groups')

LEMMA StealTends ==
  ASSUME Inv, LinkInv, NEW op \in Ops, NEW ga \in Slots, NEW gb \in Slots, ga # gb,
         ApplySteal(op, ga, gb),
         links' = ValidateEdges(ValidateEdges(FixupSteal(links, groups', op, ga, gb),
                                              groups', {ga}), groups', {gb})
  PROVE  Stolen
<1>1. Shifts(op, {ga, gb})
  BY StealShifts DEF Inv, Consistent
<1>2. /\ ngroups' \in Nat /\ ngroups <= ngroups' /\ ga \in Alive /\ gb \in Alive
      /\ \A g \in Slots \ (Free(ngroups) \cup {ga, gb}) : groups'[g] = groups[g]
  BY <1>1, ShiftGrows DEF Inv
<1>3. ga \in Slots \ Free(ngroups) /\ gb \in Slots \ Free(ngroups) /\ ngroups \in Nat
  BY <1>2, AliveInUse DEF Inv
<1>4. Free(ngroups') \in SUBSET Free(ngroups) /\ Free(ngroups) \in SUBSET Slots
  BY <1>2, <1>3, FreeShrinks
<1>5. PICK U \in SUBSET Slots : U = Free(ngroups)
  BY <1>4
<1>6. PICK T : T = groups'
  OBVIOUS
<1>7. PICK V : V = ValidateEdges(ValidateEdges(FixupSteal(links, T, op, ga, gb), T, {ga}), T, {gb})
  OBVIOUS
<1>8. Robbed(links, V, groups, T, ga, gb, U)
  BY <1>3, <1>5, <1>7, StealKeeps DEF LinkInv
<1>9. \A g \in Slots \ (U \cup {ga, gb}) : T[g] = groups[g]
  BY <1>2, <1>5, <1>6
<1>10. Fine(V, U) /\ Plain(V) /\ (Matched(links) => Matched(V))
       /\ (Matched(links) /\ Serves(links, groups) => Serves(V, T))
  BY <1>8, <1>9 DEF Robbed
<1>11. Fine(V, Free(ngroups'))
  BY <1>4, <1>5, <1>10, FineOn
<1> QED BY <1>6, <1>7, <1>10, <1>11 DEF Stolen

(* Index and group graph built from the new table. *)
LEMMA RebuiltKeepsInv ==
  ASSUME Inv, NEW table \in [Slots -> SUBSET Ops], NEW n \in Nat, ngroups + n <= MaxGroups,
         Rebuilt(table, n),
         \A o \in Ops : \E g \in Slots : o \in table[g],
         \A g \in Slots : g > ngroups + n => table[g] = {}
  PROVE  Inv'
<1>1. /\ groups' = table /\ index' = IndexOf(table) /\ ngroups' = ngroups + n
      /\ edges' = BuildEdges(groups', index') /\ prob' = prob
  BY DEF Rebuilt
<1>2. ngroups \in Nat /\ MaxGroups \in Nat
  BY AliveInUse, MaxGroupsAssumption DEF Inv
<1>3. /\ index' \in [Ops -> [Slots -> Nat]]
      /\ \A o \in Ops, g \in Slots : index'[o][g] > 0 <=> o \in groups'[g]
  BY <1>1 DEF IndexOf
<1>4. Maintained(Slots)
  BY <1>1, <1>2, <1>3 DEF Maintained
<1> QED BY <1>1, <1>4, EditKeepsInv

LEMMA CutInTwoKeepsInv ==
  ASSUME Inv, NEW u, NEW v, NEW g \in Alive, CutInTwo(u, v, g)
  PROVE  Inv' /\ Cuts(g)
<1>1. PICK stay : stay = SideOf(groups[g], u, v)
  OBVIOUS
<1>2. PICK new : new = ngroups + 1
  OBVIOUS
<1>3. PICK table : table = [groups EXCEPT ![g] = stay, ![new] = groups[g] \ stay]
  OBVIOUS
<1>4. ngroups < MaxGroups /\ Rebuilt(table, 1)
  BY <1>1, <1>2, <1>3 DEF CutInTwo
<1>5. /\ ngroups \in Nat /\ MaxGroups \in Nat /\ groups \in [Slots -> SUBSET Ops]
      /\ g \in Slots \ Free(ngroups) /\ \A h \in Free(ngroups) : groups[h] = {}
  BY AliveInUse, MaxGroupsAssumption DEF Inv
<1>6. new \in Slots /\ new \in Free(ngroups) /\ g # new
  BY <1>2, <1>4, <1>5 DEF Slots, Free
<1>7. stay \in SUBSET groups[g] /\ groups[g] \in SUBSET Ops
  BY <1>1, <1>5 DEF SideOf
<1>8. /\ table \in [Slots -> SUBSET Ops] /\ table[g] = stay /\ table[new] = groups[g] \ stay
      /\ \A h \in Slots \ {g, new} : table[h] = groups[h]
  BY <1>3, <1>5, <1>6, <1>7
<1>9. ASSUME NEW o \in Ops PROVE \E h \in Slots : o \in table[h]
  <2>1. PICK h \in Slots : o \in groups[h]
    BY DEF Inv, Consistent, AllHeld
  <2> QED BY <1>5, <1>6, <1>8, <2>1
<1>10. ASSUME NEW h \in Slots, h > ngroups + 1 PROVE table[h] = {}
  <2>1. h \in Free(ngroups) /\ h # g /\ h # new
    BY <1>2, <1>5, <1>10 DEF Free, Slots
  <2> QED BY <1>5, <1>8, <2>1
<1>11. 1 \in Nat /\ ngroups + 1 <= MaxGroups
  BY <1>4, <1>5
<1>12. Inv'
  BY <1>4, <1>8, <1>9, <1>10, <1>11, RebuiltKeepsInv
<1>13. groups' = table /\ ngroups' = ngroups + 1
  BY <1>4 DEF Rebuilt
<1> QED BY <1>2, <1>6, <1>8, <1>12, <1>13 DEF Cuts

(* The two moves that hand a link on. *)
LEMMA HandOverFixes ==
  ASSUME NEW U \in SUBSET Slots, NEW L, Fine(L, U), Plain(L),
         NEW g \in Slots \ U, NEW new \in Slots \ U, g # new, Idle(L, new),
         NEW M, M = HandOver(L, g, new)
  PROVE  Fixes(L, M, U) /\ M.next[g] = None /\ M.prev[new] = None
<1>1. L \in Store /\ Backed(L) /\ \A x \in U : Idle(L, x)
  BY DEF Fine
<1>2. PICK n : n = L.next[g]
  OBVIOUS
<1>3. L.next[new] = None /\ L.prev[new] = None
  BY DEF Idle
<1>4. CASE n = None
  <2>1. M = L
    BY <1>2, <1>4 DEF HandOver
  <2> QED BY <1>2, <1>3, <1>4, <2>1, FixesSelf
<1>5. CASE n # None
  <2>1. n \in Slots /\ n \notin U /\ L.prev[n] = g /\ n # new
    BY <1>1, <1>2, <1>5 DEF Store, Idle, Backed
  <2>2. M = Redirected(L, g, n, new, n, Kept(L, g, n))
    BY <1>2, <1>5 DEF HandOver, Redirected
  <2>3. PICK S \in SUBSET Ops : S = Kept(L, g, n)
    BY KeptOps
  <2>4. Matched(L) => S # {}
    BY <1>2, <2>1, <2>3 DEF Matched
  <2>5. Fixes(L, M, U) /\ \E N \in Store : Untied(L, N, g, n) /\ Tied(N, M, new, n, S)
    BY <1>3, <2>1, <2>2, <2>3, <2>4, RedirectFixes
  <2>6. PICK N \in Store : Untied(L, N, g, n) /\ Tied(N, M, new, n, S)
    BY <2>5
  <2>7. N.next[g] = None /\ N.prev[new] = None
    BY <1>3, <2>1, <2>6 DEF Untied
  <2>8. M.next[g] = N.next[g] /\ M.prev[new] = N.prev[new]
    BY <2>1, <2>6 DEF Tied
  <2> QED BY <2>5, <2>7, <2>8
<1> QED BY <1>4, <1>5

(* A new link that keeps something. *)
LEMMA JoinFixes ==
  ASSUME NEW U \in SUBSET Slots, NEW L, Fine(L, U),
         NEW a \in Slots \ U, NEW b \in Slots \ U, a # b, NEW S \in SUBSET Ops,
         Mutual(L) /\ Matched(L) => S # {},
         L.next[a] = None, L.prev[b] = None,
         NEW M, M = Link(L, a, b, S)
  PROVE  Fixes(L, M, U) /\ Tied(L, M, a, b, S)
<1>1. Joins(L, M, a, b, S, U)
  BY LinkKeeps
<1>2. Tied(L, M, a, b, S)
  BY LinkView DEF Fine
<1> QED BY <1>1, <1>2 DEF Joins, Fixes, Joint

Settled == Fixes(links, links', Free(ngroups'))

LEMMA RetainForceSplitSettles ==
  ASSUME Inv, LinkInv, NEW op \in Ops, NEW b, NEW g \in Alive,
         ApplyRetainForceSplit(op, b, g)
  PROVE  Inv' /\ Settled
<1>1. CutInTwo(op, b, g) /\ links' = Link(HandOver(links, g, ngroups + 1), g, ngroups + 1, {op})
  BY DEF ApplyRetainForceSplit
<1>2. Inv' /\ Cuts(g)
  BY <1>1, CutInTwoKeepsInv
<1>3. PICK U : U = Free(ngroups')
  OBVIOUS
<1>4. PICK new : new = ngroups + 1
  OBVIOUS
<1>5. /\ U \in SUBSET Free(ngroups) /\ Free(ngroups) \in SUBSET Slots
      /\ g \in Slots \ U /\ new \in Slots \ U /\ new \in Free(ngroups) /\ g # new
  BY <1>2, <1>3, <1>4, CutSlots DEF Cuts
<1>6. U \in SUBSET Slots /\ Fine(links, U) /\ Plain(links) /\ Idle(links, new)
  BY <1>5, FineOn DEF LinkInv, Fine
<1>7. PICK M : M = HandOver(links, g, new)
  OBVIOUS
<1>8. Fixes(links, M, U) /\ M.next[g] = None /\ M.prev[new] = None
  BY <1>5, <1>6, <1>7, HandOverFixes
<1>9. Fine(M, U)
  BY <1>8 DEF Fixes
<1>10. PICK V : V = Link(M, g, new, {op})
  OBVIOUS
<1>11. Fixes(M, V, U)
  <2>1. PICK S \in SUBSET Ops : S = {op}
    OBVIOUS
  <2>2. S # {} /\ V = Link(M, g, new, S)
    BY <1>10, <2>1
  <2> QED BY <1>5, <1>6, <1>8, <1>9, <2>2, JoinFixes
<1>12. Fixes(links, V, U)
  BY <1>8, <1>11, FixesOn
<1>13. links' = V
  BY <1>1, <1>4, <1>7, <1>10
<1> QED BY <1>2, <1>3, <1>12, <1>13 DEF Settled

LEMMA ForceRetainSettles ==
  ASSUME Inv, LinkInv, NEW op \in Ops, NEW a \in Alive, NEW c, NEW v, NEW gd \in Alive, a # gd,
         FreeTail(a), FreeHead(gd), ApplyForceRetain(op, a, c, v, gd)
  PROVE  Inv' /\ Settled
<1>1. PICK n : n = links.next[gd]
  OBVIOUS
<1>2. PICK freed : freed = IF n = None THEN links ELSE Unlink(links, gd, n)
  OBVIOUS
<1>3. PICK M : M = Link(freed, a, gd, {op})
  OBVIOUS
<1>4. PICK new : new = ngroups + 1
  OBVIOUS
<1>5. PICK K \in SUBSET Ops : K = Kept(links, gd, n)
  BY KeptOps
<1>6. CutInTwo(c, v, gd) /\ links' = IF n = None THEN M ELSE Link(M, new, n, K)
  BY <1>1, <1>2, <1>3, <1>4, <1>5 DEF ApplyForceRetain
<1>7. Inv' /\ Cuts(gd)
  BY <1>6, CutInTwoKeepsInv
<1>8. PICK U : U = Free(ngroups')
  OBVIOUS
<1>9. /\ U \in SUBSET Free(ngroups) /\ Free(ngroups) \in SUBSET Slots
      /\ gd \in Slots \ U /\ new \in Slots \ U /\ new \in Free(ngroups) /\ gd # new
  BY <1>4, <1>7, <1>8, CutSlots DEF Cuts
<1>10. a \in Slots \ U /\ a # new
  BY <1>9, AliveInUse DEF Inv
<1>11. U \in SUBSET Slots /\ Fine(links, U) /\ Plain(links) /\ Idle(links, new)
  BY <1>9, FineOn DEF LinkInv, Fine
<1>12. links \in Store /\ Backed(links) /\ \A x \in U : Idle(links, x)
  BY <1>11 DEF Fine
<1>13. links.next[a] = None /\ links.prev[gd] = None
  BY DEF FreeTail, FreeHead
<1>14. n # None => n \in Slots /\ n \notin U /\ links.prev[n] = gd /\ n # new /\ n # gd
  BY <1>1, <1>9, <1>11, <1>12 DEF Store, Idle, Backed, Plain
<1>15. /\ Fixes(links, freed, U) /\ freed.next[a] = None /\ freed.prev[gd] = None
       /\ freed.next[new] = None /\ (n # None => freed.prev[n] = None)
  <2>1. CASE n = None
    <3>1. freed = links
      BY <1>2, <2>1
    <3> QED BY <1>11, <1>13, <2>1, <3>1, FixesSelf DEF Idle
  <2>2. CASE n # None
    <3>1. freed = Unlink(links, gd, n)
      BY <1>2, <2>2
    <3>2. Fixes(links, freed, U) /\ Untied(links, freed, gd, n)
      BY <1>9, <1>11, <1>14, <2>2, <3>1, UnlinkFixes
    <3>3. links.next[new] = None
      BY <1>11 DEF Idle
    <3>4. \A g \in Slots : /\ freed.next[g] = IF g = gd THEN None ELSE links.next[g]
                          /\ freed.prev[g] = IF g = n THEN None ELSE links.prev[g]
      BY <3>2 DEF Untied
    <3>5. a \in Slots /\ gd \in Slots /\ new \in Slots /\ n \in Slots /\ a # gd /\ gd # n
      BY <1>9, <1>10, <1>14, <2>2
    <3> QED BY <1>13, <3>2, <3>3, <3>4, <3>5
  <2> QED BY <2>1, <2>2
<1>16. Fine(freed, U)
  BY <1>15 DEF Fixes
<1>17. Fixes(freed, M, U) /\ Tied(freed, M, a, gd, {op})
  <2>1. PICK S \in SUBSET Ops : S = {op}
    OBVIOUS
  <2>2. S # {} /\ M = Link(freed, a, gd, S)
    BY <1>3, <2>1
  <2>3. Fixes(freed, M, U) /\ Tied(freed, M, a, gd, S)
    BY <1>9, <1>10, <1>11, <1>15, <1>16, <2>2, JoinFixes
  <2> QED BY <2>1, <2>3
<1>18. Fixes(links, M, U) /\ Fine(M, U)
  BY <1>15, <1>17, FixesOn DEF Fixes
<1>19. CASE n = None
  BY <1>6, <1>7, <1>8, <1>18, <1>19 DEF Settled
<1>20. CASE n # None
  <2>1. M.next[new] = None /\ M.prev[n] = None
    BY <1>9, <1>10, <1>14, <1>15, <1>17, <1>20 DEF Tied
  <2>2. PICK V : V = Link(M, new, n, K)
    OBVIOUS
  <2>3. Fine(V, U) /\ (Mutual(M) => Mutual(V)) /\ (Matched(M) /\ K # {} => Matched(V))
        /\ (Plain(M) => Plain(V))
    <3>1. n \in Slots \ U /\ new # n /\ M.prev[n] \in {None, new} /\ (new = n => K # {})
      BY <1>14, <1>20, <2>1
    <3>2. Joins(M, V, new, n, K, U)
      BY <1>9, <1>11, <1>18, <2>2, <3>1, LinkKeeps
    <3> QED BY <2>1, <3>1, <3>2 DEF Joins
  <2>4. Matched(links) => K # {}
    BY <1>1, <1>5, <1>9, <1>14, <1>20 DEF Matched
  <2>5. Fixes(links, V, U)
    BY <1>18, <2>3, <2>4 DEF Fixes, Joint
  <2>6. links' = V
    BY <1>6, <1>20, <2>2
  <2> QED BY <1>7, <1>8, <2>5, <2>6 DEF Settled
<1> QED BY <1>19, <1>20

(* The moves on links. *)
LEMMA CoupleTends ==
  ASSUME Inv, LinkInv, NEW a \in Slots, NEW b \in Slots, NEW t \in Ops,
         CoupleFeasible(a, b, t), links' = Link(links, a, b, {t}), UNCHANGED partVars
  PROVE  Tended
<1>1. a # b /\ a \in Alive /\ b \in Alive /\ t \in Keepable(groups, a, b)
  BY DEF CoupleFeasible
<1>2. (links.next[a] = b /\ links.prev[b] = a) \/ (links.next[a] = None /\ links.prev[b] = None)
  BY DEF CoupleFeasible, Linked, FreeTail, FreeHead
<1>3. PICK U \in SUBSET Slots : U = Free(ngroups)
  BY DEF Free
<1>4. a \in Slots \ U /\ b \in Slots \ U
  BY <1>1, <1>3, AliveInUse DEF Inv
<1>5. Fine(links, U) /\ Plain(links)
  BY <1>3 DEF LinkInv
<1>6. PICK S \in SUBSET Ops : S = {t}
  OBVIOUS
<1>7. PICK V : V = Link(links, a, b, S)
  OBVIOUS
<1>8. Joins(links, V, a, b, S, U)
  <2>1. links.prev[b] \in {None, a} /\ (a = b => S # {})
    BY <1>1, <1>2
  <2> QED BY <1>4, <1>5, <1>7, <2>1, LinkKeeps
<1>9. Fixes(links, V, U)
  <2>1. links.next[a] \in {None, b} /\ Kept(links, a, b) \cup S # {}
    BY <1>2, <1>6
  <2> QED BY <1>1, <1>8, <2>1 DEF Joins, Fixes, Joint
<1>10. Tied(links, V, a, b, S)
  BY <1>5, <1>7, LinkView DEF Fine
<1>11. Serves(links, groups) => Serves(V, groups)
  BY <1>1, <1>6, <1>10 DEF Tied, Serves
<1>12. groups' = groups /\ ngroups' = ngroups /\ links' = V
  BY <1>6, <1>7 DEF partVars
<1> QED BY <1>3, <1>9, <1>11, <1>12 DEF Tended, Tends

LEMMA UncoupleTends ==
  ASSUME Inv, LinkInv, NEW a \in Slots, NEW b \in Slots, NEW t,
         UncoupleFeasible(a, b, t), links' = Uncoupled(links, a, b, t), UNCHANGED partVars
  PROVE  Tended
<1>1. PICK U \in SUBSET Slots : U = Free(ngroups)
  BY DEF Free
<1>2. Fine(links, U) /\ Plain(links)
  BY <1>1 DEF LinkInv
<1>3. links.prev[b] = a
  BY <1>2, NoneApart DEF UncoupleFeasible, Fine, Backed
<1>4. PICK V : V = Uncoupled(links, a, b, t)
  OBVIOUS
<1>5. V = PruneLink(links, a, b, Ops \ {t})
  BY <1>4 DEF Uncoupled
<1>6. Prunes(links, V, a, b, Ops \ {t}, U)
  BY <1>2, <1>3, <1>5, PruneKeeps
<1>7. Fixes(links, V, U) /\ Trims(links, V)
  BY <1>6, TrimsPlain, JointUpkeep DEF Prunes, Fixes
<1>8. Serves(links, groups) => Serves(V, groups)
  BY <1>7 DEF Trims, Serves
<1>9. groups' = groups /\ ngroups' = ngroups /\ links' = V
  BY <1>4 DEF partVars
<1> QED BY <1>1, <1>7, <1>8, <1>9 DEF Tended, Tends

(* The links seeded from an order. *)
OneToOne(K) ==
  \A m, k \in K : (m[1] = k[1] <=> m[2] = k[2])

LEMMA HintsAreLinks ==
  ASSUME NEW q \in Orders, NEW K \in SUBSET Hints(q)
  PROVE  /\ K \in SUBSET (Slots \X Slots \X Ops) /\ OneToOne(K)
         /\ \A m \in K : /\ m[1] # m[2] /\ m[1] \in Alive /\ m[2] \in Alive
                         /\ m[3] \in Keepable(groups, m[1], m[2])
<1>1. Cardinality(Alive) \in Nat
  BY SlotsFinite, FS_Subset, FS_CardinalityType DEF Alive
<1>2. PICK n \in Nat : n = Cardinality(Alive)
  BY <1>1
<1>3. q \in [1..n -> Alive] /\ \A i, j \in 1..n : i < j => q[i] # q[j]
  BY <1>2 DEF Orders
<1>4. \A i, j \in 1..n : q[i] = q[j] => i = j
  BY <1>2, <1>3
<1>5. \A m \in K : \E i \in 1..n : i + 1 \in 1..n /\ m[1] = q[i] /\ m[2] = q[i + 1]
  BY <1>3 DEF Hints
<1>6. K \in SUBSET (Slots \X Slots \X Ops)
  BY RetainableAssumption DEF Hints
<1>7. ASSUME NEW m \in K
      PROVE  /\ m[1] # m[2] /\ m[1] \in Alive /\ m[2] \in Alive
             /\ m[3] \in Keepable(groups, m[1], m[2])
  <2>1. PICK i \in 1..n : i + 1 \in 1..n /\ m[1] = q[i] /\ m[2] = q[i + 1]
    BY <1>5
  <2>2. i < i + 1
    BY <2>1
  <2>3. m[3] \in Keepable(groups, m[1], m[2])
    BY DEF Hints
  <2> QED BY <1>3, <2>1, <2>2, <2>3
<1>8. ASSUME NEW m \in K, NEW k \in K PROVE m[1] = k[1] <=> m[2] = k[2]
  <2>1. PICK i \in 1..n : i + 1 \in 1..n /\ m[1] = q[i] /\ m[2] = q[i + 1]
    BY <1>5
  <2>2. PICK j \in 1..n : j + 1 \in 1..n /\ k[1] = q[j] /\ k[2] = q[j + 1]
    BY <1>5
  <2>3. q[i] = q[j] <=> i = j
    BY <1>4
  <2>4. q[i + 1] = q[j + 1] <=> i = j
    BY <1>4, <2>1, <2>2
  <2> QED BY <2>1, <2>2, <2>3, <2>4
<1> QED BY <1>6, <1>7, <1>8 DEF OneToOne

LEMMA SeededView ==
  ASSUME NEW K \in SUBSET (Slots \X Slots \X Ops), OneToOne(K), NEW V, V = Seeded(K)
  PROVE  /\ V \in Store
         /\ \A a, b \in Slots : /\ V.next[a] = b <=> Kept(V, a, b) # {}
                                /\ V.prev[b] = a <=> Kept(V, a, b) # {}
                                /\ Kept(V, a, b) = {t \in Ops : <<a, b, t>> \in K}
<1>1. V.kept = K
  BY DEF Seeded
<1>2. ASSUME NEW a \in Slots
      PROVE  V.next[a] = IF \E m \in K : m[1] = a THEN (CHOOSE m \in K : m[1] = a)[2] ELSE None
  BY DEF Seeded
<1>3. ASSUME NEW b \in Slots
      PROVE  V.prev[b] = IF \E m \in K : m[2] = b THEN (CHOOSE m \in K : m[2] = b)[1] ELSE None
  BY DEF Seeded
<1>4. \A a, b \in Slots : Kept(V, a, b) = {t \in Ops : <<a, b, t>> \in K}
  BY <1>1 DEF Kept
<1>5. \A a, b \in Slots : Kept(V, a, b) # {} <=> \E m \in K : m[1] = a /\ m[2] = b
  <2>1. ASSUME NEW a \in Slots, NEW b \in Slots, NEW t \in Kept(V, a, b)
        PROVE  \E m \in K : m[1] = a /\ m[2] = b
    <3>1. <<a, b, t>> \in K
      BY <1>4
    <3> QED BY <3>1
  <2>2. ASSUME NEW a \in Slots, NEW b \in Slots, NEW m \in K, m[1] = a, m[2] = b
        PROVE  m[3] \in Kept(V, a, b)
    <3>1. m = <<a, b, m[3]>> /\ m[3] \in Ops
      BY <2>2
    <3> QED BY <1>4, <3>1
  <2> QED BY <2>1, <2>2
<1>6. ASSUME NEW a \in Slots, NEW m \in K, m[1] = a PROVE V.next[a] = m[2]
  <2>1. PICK k : k = CHOOSE h \in K : h[1] = a
    OBVIOUS
  <2>2. k \in K /\ k[1] = a
    BY <1>6, <2>1
  <2>3. V.next[a] = k[2]
    BY <1>2, <1>6, <2>1
  <2> QED BY <1>6, <2>2, <2>3 DEF OneToOne
<1>7. ASSUME NEW b \in Slots, NEW m \in K, m[2] = b PROVE V.prev[b] = m[1]
  <2>1. PICK k : k = CHOOSE h \in K : h[2] = b
    OBVIOUS
  <2>2. k \in K /\ k[2] = b
    BY <1>7, <2>1
  <2>3. V.prev[b] = k[1]
    BY <1>3, <1>7, <2>1
  <2> QED BY <1>7, <2>2, <2>3 DEF OneToOne
<1>8. \A a \in Slots : (\A m \in K : m[1] # a) => V.next[a] = None
  BY <1>2
<1>9. \A b \in Slots : (\A m \in K : m[2] # b) => V.prev[b] = None
  BY <1>3
<1>10. V \in Store
  <2>1. \A g \in Slots : V.next[g] \in Slots \cup {None}
    BY <1>6, <1>8
  <2>2. \A g \in Slots : V.prev[g] \in Slots \cup {None}
    BY <1>7, <1>9
  <2>3. V = [next |-> V.next, prev |-> V.prev, kept |-> K]
    BY <1>1 DEF Seeded
  <2>4. V.next \in [Slots -> Slots \cup {None}] /\ V.prev \in [Slots -> Slots \cup {None}]
    BY <2>1, <2>2 DEF Seeded
  <2> QED BY <2>3, <2>4 DEF Store
<1>11. \A a, b \in Slots : V.next[a] = b <=> Kept(V, a, b) # {}
  BY <1>5, <1>6, <1>8, NoneApart
<1>12. \A a, b \in Slots : V.prev[b] = a <=> Kept(V, a, b) # {}
  BY <1>5, <1>7, <1>9, NoneApart
<1> QED BY <1>4, <1>10, <1>11, <1>12

LEMMA SeedTends ==
  ASSUME Inv, LinkInv, NEW q \in Orders, NEW K \in SUBSET Hints(q), links' = Seeded(K),
         UNCHANGED partVars
  PROVE  Tended /\ Serves(links', groups')
<1>1. /\ K \in SUBSET (Slots \X Slots \X Ops) /\ OneToOne(K)
      /\ \A m \in K : /\ m[1] # m[2] /\ m[1] \in Alive /\ m[2] \in Alive
                      /\ m[3] \in Keepable(groups, m[1], m[2])
  BY HintsAreLinks
<1>2. PICK V : V = Seeded(K)
  OBVIOUS
<1>3. /\ V \in Store
      /\ \A a, b \in Slots : /\ V.next[a] = b <=> Kept(V, a, b) # {}
                             /\ V.prev[b] = a <=> Kept(V, a, b) # {}
                             /\ Kept(V, a, b) = {t \in Ops : <<a, b, t>> \in K}
  BY <1>1, <1>2, SeededView
<1>4. ASSUME NEW a \in Slots, NEW b \in Slots, Kept(V, a, b) # {}
      PROVE  a # b /\ a \in Alive /\ b \in Alive
  <2>1. PICK t \in Kept(V, a, b) : TRUE
    BY <1>4
  <2>2. <<a, b, t>> \in K
    BY <1>3
  <2> QED BY <1>1, <2>2
<1>5. PICK U \in SUBSET Slots : U = Free(ngroups)
  BY DEF Free
<1>6. \A a \in Alive : a \notin U
  BY <1>5, AliveInUse DEF Inv
<1>7. \A a \in Slots : V.next[a] \in Slots \cup {None} /\ V.prev[a] \in Slots \cup {None}
  BY <1>3 DEF Store
<1>8. Backed(V) /\ Mutual(V) /\ Matched(V)
  <2>0. \A a, b \in Slots : V.next[a] = b <=> V.prev[b] = a
    BY <1>3
  <2>1. Backed(V)
    <3>1. ASSUME NEW a \in Slots, V.next[a] # None PROVE V.prev[V.next[a]] = a
      <4>1. PICK b \in Slots : V.next[a] = b
        BY <1>7, <3>1
      <4> QED BY <2>0, <4>1
    <3> QED BY <3>1 DEF Backed
  <2>2. Mutual(V)
    <3>1. ASSUME NEW b \in Slots, V.prev[b] # None PROVE V.next[V.prev[b]] = b
      <4>1. PICK a \in Slots : V.prev[b] = a
        BY <1>7, <3>1
      <4> QED BY <2>0, <4>1
    <3> QED BY <3>1 DEF Mutual
  <2> QED BY <1>3, <2>1, <2>2 DEF Matched
<1>9. Plain(V) /\ SelfKept(V)
  BY <1>3, <1>4 DEF Plain, SelfKept
<1>10. ASSUME NEW x \in U PROVE Idle(V, x)
  <2>1. \A a \in Slots : Kept(V, a, x) = {} /\ Kept(V, x, a) = {}
    BY <1>4, <1>6
  <2> QED BY <1>3, <1>7, <2>1 DEF Idle
<1>11. Fixes(links, V, U)
  BY <1>3, <1>8, <1>9, <1>10 DEF Fixes, Fine, Joint
<1>12. Serves(V, groups)
  <2>1. ASSUME NEW a \in Slots, NEW b \in Slots, NEW t \in Kept(V, a, b)
        PROVE  t \in Keepable(groups, a, b)
    <3>1. <<a, b, t>> \in K
      BY <1>3
    <3> QED BY <1>1, <3>1
  <2> QED BY <2>1 DEF Serves
<1>13. groups' = groups /\ ngroups' = ngroups /\ links' = V
  BY <1>2 DEF partVars
<1> QED BY <1>5, <1>11, <1>12, <1>13 DEF Tended, Tends

(* The group EPHEMERAL_FUSE forms. *)
FuseEdits(gp, gc) ==
  /\ ngroups + 1 <= ngroups' /\ ngroups' \in Slots
  /\ \A g \in Slots \ (Free(ngroups) \cup {gp, gc}) : groups'[g] = groups[g]

FuseCovers(p, c, gp, gc, pieces) ==
  /\ \A x \in pieces : x[2] \in SUBSET Ops
  /\ pieces # {}
  /\ \A g \in {gp, gc} : /\ FirstComponent(Fused(p, c, gp, gc, g)) \in SUBSET Ops
                         /\ \A o \in groups[g] :
                              \/ o \in FirstComponent(Fused(p, c, gp, gc, g))
                              \/ \E x \in pieces : o \in x[2]

LEMMA FusedParts ==
  ASSUME Inv, NEW p \in Ops, NEW c \in Ops, NEW gp \in Slots, NEW gc \in Slots,
         NEW pieces, pieces = (UNION {Leftover(g, Fused(p, c, gp, gc, g)) : g \in {gp, gc}})
                              \cup {<<Rank(0), {p, c}>>}
  PROVE  FuseCovers(p, c, gp, gc, pieces)
<1>1. PICK y : y = <<Rank(0), {p, c}>>
  OBVIOUS
<1>2. y \in pieces /\ y[2] = {p, c}
  BY <1>1
<1>3. ASSUME NEW g \in {gp, gc}
      PROVE  Fused(p, c, gp, gc, g) \in SUBSET Ops /\ groups[g] \subseteq Fused(p, c, gp, gc, g) \cup {p, c}
  BY DEF Fused, Inv, Consistent, TypeOK
<1>4. ASSUME NEW x \in pieces PROVE x[2] \in SUBSET Ops
  <2>1. CASE x = y
    BY <1>2, <2>1
  <2>2. CASE \E g \in {gp, gc} : x \in Leftover(g, Fused(p, c, gp, gc, g))
    <3>1. PICK g \in {gp, gc} : x \in Leftover(g, Fused(p, c, gp, gc, g))
      BY <2>2
    <3>2. PICK S \in SUBSET Ops : S = Fused(p, c, gp, gc, g)
      BY <1>3
    <3>3. x[2] \in SUBSET S
      BY <3>1, <3>2, LeftoverCovers
    <3> QED BY <3>3
  <2> QED BY <1>1, <2>1, <2>2
<1>5. ASSUME NEW g \in {gp, gc}
      PROVE  /\ FirstComponent(Fused(p, c, gp, gc, g)) \in SUBSET Ops
             /\ \A o \in groups[g] : \/ o \in FirstComponent(Fused(p, c, gp, gc, g))
                                     \/ \E x \in pieces : o \in x[2]
  <2>1. PICK S \in SUBSET Ops : S = Fused(p, c, gp, gc, g)
    BY <1>3
  <2>2. FirstComponent(S) \subseteq S
    BY FirstInside
  <2>3. \A o \in S : o \in FirstComponent(S) \/ \E x \in Leftover(g, S) : o \in x[2]
    BY LeftoverCovers
  <2>4. Leftover(g, S) \subseteq pieces
    BY <2>1
  <2>5. \A o \in groups[g] : o \in S \/ o \in y[2]
    BY <1>2, <1>3, <2>1
  <2> QED BY <1>2, <2>1, <2>2, <2>3, <2>4, <2>5
<1> QED BY <1>2, <1>4, <1>5 DEF FuseCovers

LEMMA FuseKeepsInv ==
  ASSUME Inv, LinkInv, NEW p \in Ops, NEW c \in Ops, NEW gp \in Alive, NEW gc \in Alive, NEW d,
         ApplyFuse(p, c, gp, gc, d)
  PROVE  /\ Inv' /\ FuseEdits(gp, gc)
         /\ links' = Invalidated(Link(links, ngroups', d, {p}), groups')
<1>1. PICK G : G = {gp, gc}
  OBVIOUS
<1>2. PICK kept : kept = [g \in G |-> FirstComponent(Fused(p, c, gp, gc, g))]
  OBVIOUS
<1>3. PICK pieces : pieces = (UNION {Leftover(g, Fused(p, c, gp, gc, g)) : g \in {gp, gc}})
                             \cup {<<Rank(0), {p, c}>>}
  OBVIOUS
<1>4. PICK q \in Layouts(pieces) :
        /\ Rebuilt(NewTable(kept, q), Len(q))
        /\ links' = Invalidated(Link(links, ngroups + Len(q), d, {p}), NewTable(kept, q))
  BY <1>1, <1>2, <1>3 DEF ApplyFuse
<1>5. PICK table : table = NewTable(kept, q)
  OBVIOUS
<1>6. gp \in Slots /\ gc \in Slots /\ gp \notin Free(ngroups) /\ gc \notin Free(ngroups)
      /\ ngroups \in Nat /\ groups \in [Slots -> SUBSET Ops]
      /\ (\A g \in Free(ngroups) : groups[g] = {}) /\ MaxGroups \in Nat
  BY AliveInUse, MaxGroupsAssumption DEF Inv
<1>7. /\ \A x \in pieces : x[2] \in SUBSET Ops
      /\ pieces # {}
      /\ \A g \in G : /\ FirstComponent(Fused(p, c, gp, gc, g)) \in SUBSET Ops
                      /\ \A o \in groups[g] :
                                     \/ o \in FirstComponent(Fused(p, c, gp, gc, g))
                                     \/ \E x \in pieces : o \in x[2]
  <2>1. FuseCovers(p, c, gp, gc, pieces)
    BY <1>3, <1>6, FusedParts
  <2> QED BY <1>1, <2>1 DEF FuseCovers
<1>8. PICK n \in 0..(MaxGroups - ngroups) :
        /\ q \in [1..n -> pieces] /\ Len(q) = n
        /\ Appended(q) = (ngroups + 1)..(ngroups + n)
        /\ \A x \in pieces : \E g \in Appended(q) : q[g - ngroups] = x
        /\ \A g \in Slots : g \in Appended(q) <=> g - ngroups \in DOMAIN q
  <2>1. TypeOK
    BY DEF Inv, Consistent
  <2> QED BY <2>1, AppendedSlots
<1>9. n \in Nat /\ ngroups + n <= MaxGroups /\ n >= 1
  BY <1>6, <1>7, <1>8
<1>10. \A g \in Slots : g \in Appended(q) <=> g > ngroups /\ g <= ngroups + n
  BY <1>6, <1>8 DEF Slots
<1>11. \A g \in Appended(q) : g \in Slots
  BY <1>8 DEF Appended
<1>12. \A g \in Slots : g \in Appended(q) => g \in Free(ngroups) /\ g \notin G /\ groups[g] = {}
  BY <1>1, <1>6, <1>10 DEF Free
<1>13. /\ \A g \in G : table[g] = FirstComponent(Fused(p, c, gp, gc, g))
       /\ \A g \in Appended(q) : q[g - ngroups] \in pieces /\ table[g] = q[g - ngroups][2]
       /\ \A g \in Slots \ (G \cup Appended(q)) : table[g] = groups[g]
  <2>1. /\ DOMAIN kept = G
        /\ \A g \in G : kept[g] = FirstComponent(Fused(p, c, gp, gc, g))
    BY <1>2
  <2>2. \A g \in Slots : table[g] = IF g \in G THEN kept[g]
                                    ELSE IF g - ngroups \in DOMAIN q THEN q[g - ngroups][2]
                                    ELSE groups[g]
    BY <1>5, <2>1 DEF NewTable
  <2>3. \A g \in Appended(q) : q[g - ngroups] \in pieces
    BY <1>8, <1>11
  <2>4. G \subseteq Slots
    BY <1>1, <1>6
  <2> QED BY <1>8, <1>11, <1>12, <2>1, <2>2, <2>3, <2>4
<1>14. \A g \in Slots : table[g] \in SUBSET Ops
  BY <1>6, <1>7, <1>13
<1>15. table \in [Slots -> SUBSET Ops]
  BY <1>5, <1>14 DEF NewTable
<1>16. ASSUME NEW o \in Ops PROVE \E g \in Slots : o \in table[g]
  <2>1. PICK g \in Slots : o \in groups[g]
    BY DEF Inv, Consistent, AllHeld
  <2>2. CASE \E x \in pieces : o \in x[2]
    BY <1>8, <1>11, <1>13, <2>2
  <2>3. CASE g \in G /\ ~\E x \in pieces : o \in x[2]
    BY <1>7, <1>13, <2>1, <2>3
  <2>4. CASE g \notin G
    BY <1>12, <1>13, <2>1, <2>4
  <2> QED BY <2>2, <2>3, <2>4
<1>17. ASSUME NEW g \in Slots, g > ngroups + n PROVE table[g] = {}
  <2>1. g \in Free(ngroups) /\ g \notin G /\ g \notin Appended(q)
    BY <1>1, <1>6, <1>9, <1>10, <1>17 DEF Free, Slots
  <2> QED BY <1>6, <1>13, <2>1
<1>18. Rebuilt(table, n)
  BY <1>4, <1>5, <1>8
<1>19. Inv'
  BY <1>9, <1>15, <1>16, <1>17, <1>18, RebuiltKeepsInv
<1>20. groups' = table /\ ngroups' = ngroups + n
  BY <1>18 DEF Rebuilt
<1>21. ngroups' \in Slots /\ ngroups + 1 <= ngroups'
  BY <1>6, <1>9, <1>20 DEF Slots
<1>22. \A g \in Slots \ (Free(ngroups) \cup {gp, gc}) : groups'[g] = groups[g]
  BY <1>1, <1>12, <1>13, <1>20
<1>23. links' = Invalidated(Link(links, ngroups', d, {p}), groups')
  BY <1>4, <1>5, <1>8, <1>20
<1> QED BY <1>19, <1>21, <1>22, <1>23 DEF FuseEdits

LEMMA FuseTends ==
  ASSUME Inv, LinkInv, NEW p \in Ops, NEW c \in Ops, NEW gp \in Alive, NEW gc \in Alive, NEW d,
         FreeHead(d), ApplyFuse(p, c, gp, gc, d)
  PROVE  Inv' /\ Tended
<1>1. /\ Inv' /\ FuseEdits(gp, gc)
      /\ links' = Invalidated(Link(links, ngroups', d, {p}), groups')
  BY FuseKeepsInv
<1>2. PICK U : U = Free(ngroups')
  OBVIOUS
<1>3. PICK new : new = ngroups'
  OBVIOUS
<1>4. d \in Slots /\ d \notin Free(ngroups) /\ ngroups \in Nat /\ links.prev[d] = None
  BY AliveInUse DEF Inv, FreeHead
<1>5. /\ U \in SUBSET Free(ngroups) /\ Free(ngroups) \in SUBSET Slots
      /\ new \in Free(ngroups) \ U /\ new \in Slots
  BY <1>1, <1>2, <1>3, <1>4, MaxGroupsAssumption DEF FuseEdits, Free, Slots
<1>6. U \in SUBSET Slots /\ Fine(links, U) /\ Idle(links, new)
  BY <1>5, FineOn DEF LinkInv, Fine
<1>7. PICK S \in SUBSET Ops : S = {p}
  OBVIOUS
<1>8. PICK M : M = Link(links, new, d, S)
  OBVIOUS
<1>9. links.next[new] = None
  BY <1>6 DEF Idle
<1>10. Fixes(links, M, U)
  <2>1. new \in Slots \ U /\ d \in Slots \ U /\ new # d /\ S # {}
    BY <1>4, <1>5, <1>7
  <2> QED BY <1>4, <1>6, <1>8, <1>9, <2>1, JoinFixes
<1>11. Fine(M, U)
  BY <1>10 DEF Fixes
<1>12. PICK T : T = groups'
  OBVIOUS
<1>13. PICK V : V = Invalidated(M, T)
  OBVIOUS
<1>14. Validates(M, V, T, U) /\ (Matched(M) => Serves(V, T))
  BY <1>6, <1>11, <1>13, InvalidatedKeeps
<1>15. Fixes(links, V, U)
  BY <1>10, <1>14, ValidatesFixes, FixesOn
<1>16. Mutual(links) /\ Matched(links) => Serves(V, T)
  BY <1>10, <1>14 DEF Fixes, Joint
<1>17. links' = V
  BY <1>1, <1>3, <1>7, <1>8, <1>12, <1>13
<1> QED BY <1>1, <1>2, <1>12, <1>15, <1>16, <1>17 DEF Tended, Tends

(* The end of the pass, and of the outer loop. *)
LEMMA RebuiltSame ==
  ASSUME Inv, Rebuilt(groups, 0)
  PROVE  Inv' /\ groups' = groups /\ ngroups' = ngroups
<1>1. ngroups \in Nat /\ ngroups <= MaxGroups /\ groups \in [Slots -> SUBSET Ops]
      /\ \A g \in Slots : g > ngroups => groups[g] = {}
  BY MaxGroupsAssumption DEF Inv, Consistent, TypeOK
<1>2. ngroups + 0 = ngroups /\ 0 \in Nat
  BY <1>1
<1>3. \A o \in Ops : \E g \in Slots : o \in groups[g]
  BY DEF Inv, Consistent, AllHeld
<1>4. Inv'
  BY <1>1, <1>2, <1>3, RebuiltKeepsInv
<1> QED BY <1>2, <1>4 DEF Rebuilt

LEMMA EndSearchTends ==
  ASSUME Inv, LinkInv, Rebuilt(groups, 0),
         links' = ChainsFixed(Invalidated(links, groups), groups, edges')
  PROVE  Inv' /\ Tended /\ (Matched(links) => Serves(links', groups'))
<1>1. Inv' /\ groups' = groups /\ ngroups' = ngroups
  BY RebuiltSame
<1>2. PICK U \in SUBSET Slots : U = Free(ngroups)
  BY DEF Free
<1>3. Fine(links, U) /\ Plain(links)
  BY <1>2 DEF LinkInv
<1>4. PICK T : T = groups
  OBVIOUS
<1>5. PICK M : M = Invalidated(links, T)
  OBVIOUS
<1>6. Validates(links, M, T, U) /\ (Matched(links) => Serves(M, T))
  BY <1>3, <1>5, InvalidatedKeeps
<1>7. PICK E : E = edges'
  OBVIOUS
<1>8. PICK V : V = ChainsFixed(M, T, E)
  OBVIOUS
<1>9. Validates(M, V, T, U)
  BY <1>6, <1>8, ChainsFixedKeeps DEF Validates
<1>10. Fixes(links, V, U)
  BY <1>6, <1>9, ValidatesFixes, FixesOn
<1>11. Matched(links) => Serves(V, T)
  BY <1>6, <1>9 DEF Validates, Trims, Serves
<1>12. links' = V
  BY <1>4, <1>5, <1>7, <1>8
<1> QED BY <1>1, <1>2, <1>4, <1>10, <1>11, <1>12 DEF Tended, Tends

-----------------------------------------------------------------------------
(* Every step.                                                             *)

LEMMA TwoOfThem ==
  ASSUME NEW G, Cardinality(G) >= 2
  PROVE  \E g, h \in G : g # h
<1>1. SUFFICES ASSUME \A g, h \in G : g = h PROVE FALSE
  OBVIOUS
<1>2. CASE G = {}
  BY <1>2, FS_EmptySet
<1>3. CASE G # {}
  <2>1. PICK g \in G : TRUE
    BY <1>3
  <2>2. G = {g}
    BY <1>1, <2>1
  <2>3. Cardinality({g}) = 1
    BY FS_Singleton
  <2> QED BY <2>2, <2>3
<1> QED BY <1>2, <1>3

(* What a move leaves behind. *)
Handled == /\ Inv'
           /\ \/ Tended
              \/ Steals /\ Stolen
              \/ HandsOver /\ Settled

LEMMA PartitionMoveIsHandled ==
  ASSUME Inv, LinkInv, applied \in Nat, PartitionMove
  PROVE  Handled /\ phase' = phase /\ applied' \in Nat
<1>0. \A o \in Ops : Holders(o) \subseteq Slots /\ GroupsOf(o) \subseteq Slots
  BY DEF Holders, GroupsOf
<1>1. CASE CoupledDeRecompute
  <2>1. PICK op \in Ops : \E m \in DeRecomputeMoves(op) : ApplyDeRecompute(op, m.ga)
    BY <1>1 DEF CoupledDeRecompute
  <2>2. PICK m \in DeRecomputeMoves(op) : ApplyDeRecompute(op, m.ga)
    BY <2>1
  <2>3. m.ga \in Holders(op) /\ DeRecomputeFeasible(op, m.ga)
    BY DeRecomputeMove
  <2>4. PICK h \in Holders(op) : h # m.ga
    BY <2>3 DEF DeRecomputeFeasible
  <2>5. m.ga \in Slots /\ \E k \in Slots \ {m.ga} : op \in groups[k]
    BY <1>0, <2>3, <2>4, HoldersAreLive DEF Inv
  <2>6. Shifts(op, {m.ga})
    BY <2>2, <2>5, DeRecomputeShifts DEF Inv
  <2>7. Revalidate /\ phase' = phase /\ applied' = applied + 1
    BY <1>1 DEF CoupledDeRecompute, Fm, Take
  <2> QED BY <2>6, <2>7, ShiftKeepsInv, RevalidateTends DEF Handled
<1>2. CASE CoupledEject
  <2>1. PICK op \in Ops : \E m \in EjectMoves(op) : ApplyEject(op, m.ga)
    BY <1>2 DEF CoupledEject
  <2>2. PICK m \in EjectMoves(op) : ApplyEject(op, m.ga)
    BY <2>1
  <2>3. Shifts(op, {m.ga})
    BY <1>0, <2>2, EjectMove, EjectShifts DEF Inv
  <2>4. Revalidate /\ phase' = phase /\ applied' = applied + 1
    BY <1>2 DEF CoupledEject, Fm, Take
  <2> QED BY <2>3, <2>4, ShiftKeepsInv, RevalidateTends DEF Handled
<1>3. CASE CoupledRecompute
  <2>1. PICK op \in Ops : \E m \in RecomputeMoves(op) : ApplyRecompute(op, m.gb)
    BY <1>3 DEF CoupledRecompute
  <2>2. PICK m \in RecomputeMoves(op) : ApplyRecompute(op, m.gb)
    BY <2>1
  <2>3. Shifts(op, {m.gb})
    BY <2>2, RecomputeShifts DEF Inv
  <2>4. Revalidate /\ phase' = phase /\ applied' = applied + 1
    BY <1>3 DEF CoupledRecompute, Fm, Take
  <2> QED BY <2>3, <2>4, ShiftKeepsInv, RevalidateTends DEF Handled
<1>4. CASE CoupledTensorExtract
  <2>1. PICK op \in Ops : \E m \in TensorExtractMoves(op, {}) : ApplyTensorExtract(m.t, m.gs)
    BY <1>4 DEF CoupledTensorExtract
  <2>2. PICK m \in TensorExtractMoves(op, {}) : ApplyTensorExtract(m.t, m.gs)
    BY <2>1
  <2>3. Shifts(op, m.gs)
    BY <2>2, TensorExtractShifts DEF Inv
  <2>4. Revalidate /\ phase' = phase /\ applied' = applied + 1
    BY <1>4 DEF CoupledTensorExtract, Fm, Take
  <2> QED BY <2>3, <2>4, ShiftKeepsInv, RevalidateTends DEF Handled
<1>5. CASE CoupledForceRecompute
  <2>1. PICK op \in Ops : \E m \in ForceRecomputeMoves(op, {}) : ApplyForceRecompute(m.t)
    BY <1>5 DEF CoupledForceRecompute
  <2>2. PICK m \in ForceRecomputeMoves(op, {}) : ApplyForceRecompute(m.t)
    BY <2>1
  <2>3. m.t \in Ops
    BY ForceRecomputeMove
  <2>4. Shifts(op, TouchedGroups(m.t))
    BY <2>2, <2>3, ForceRecomputeShifts DEF Inv
  <2>5. Revalidate /\ phase' = phase /\ applied' = applied + 1
    BY <1>5 DEF CoupledForceRecompute, Fm, Take
  <2> QED BY <2>4, <2>5, ShiftKeepsInv, RevalidateTends DEF Handled
<1>6. CASE CoupledSplit
  <2>1. PICK op \in Ops : \E m \in SplitMoves(op) :
          /\ ApplySplit(op, m.v, m.ga)
          /\ links' = FixupSplit(links, groups', m.ga, ngroups + 1)
    BY <1>6 DEF CoupledSplit
  <2>2. PICK m \in SplitMoves(op) : /\ ApplySplit(op, m.v, m.ga)
                                    /\ links' = FixupSplit(links, groups', m.ga, ngroups + 1)
    BY <2>1
  <2>3. m.ga \in Slots
    BY <1>0, SplitMove
  <2>4. Inv'
    BY <2>2, <2>3, SplitShifts, ShiftKeepsInv DEF Inv
  <2>5. Tended
    BY <2>2, <2>3, SplitTends
  <2>6. phase' = phase /\ applied' = applied + 1
    BY <1>6 DEF CoupledSplit, Fm, Take
  <2> QED BY <2>4, <2>5, <2>6 DEF Handled
<1>7. CASE CoupledSteal
  <2>1. PICK op \in Ops : \E m \in StealMoves(op) :
          /\ ApplySteal(op, m.ga, m.gb)
          /\ links' = ValidateEdges(
                        ValidateEdges(FixupSteal(links, groups', op, m.ga, m.gb), groups', {m.ga}),
                        groups', {m.gb})
    BY <1>7 DEF CoupledSteal
  <2>2. PICK m \in StealMoves(op) :
          /\ ApplySteal(op, m.ga, m.gb)
          /\ links' = ValidateEdges(
                        ValidateEdges(FixupSteal(links, groups', op, m.ga, m.gb), groups', {m.ga}),
                        groups', {m.gb})
    BY <2>1
  <2>3. m.ga \in Slots /\ m.gb \in Slots /\ m.ga # m.gb
    BY <1>0, StealMove DEF AdjGroups, Alive
  <2>4. Inv'
    BY <2>2, <2>3, StealShifts, ShiftKeepsInv DEF Inv
  <2>5. Stolen
    BY <2>2, <2>3, StealTends
  <2>6. phase' = phase /\ applied' = applied + 1 /\ last' = "STEAL"
    BY <1>7 DEF CoupledSteal, Fm, Take
  <2>7. Steals
    BY <2>6 DEF Steals
  <2> QED BY <2>4, <2>5, <2>6, <2>7 DEF Handled
<1>8. CASE CoupledMerge
  <2>1. PICK op \in Ops : \E m \in MergeMoves(op) :
          ApplyMerge(m.ga, m.gb) /\ links' = FixupMerge(links, groups', m.ga, m.gb)
    BY <1>8 DEF CoupledMerge
  <2>2. PICK m \in MergeMoves(op) :
          ApplyMerge(m.ga, m.gb) /\ links' = FixupMerge(links, groups', m.ga, m.gb)
    BY <2>1
  <2>3. Inv'
    BY <2>2, MergeShifts, ShiftKeepsInv DEF Inv
  <2>4. Tended
    BY <2>2, MergeTends
  <2>5. phase' = phase /\ applied' = applied + 1
    BY <1>8 DEF CoupledMerge, Fm, Take
  <2> QED BY <2>3, <2>4, <2>5 DEF Handled
<1>9. CASE CoupledTensorMerge
  <2>1. PICK op \in Ops : \E m \in TensorMergeMoves(op, {}) :
          ApplyTensorMerge(m.gs) /\ links' = FixupTensorMerge(links, groups', m.gs)
    BY <1>9 DEF CoupledTensorMerge
  <2>2. PICK m \in TensorMergeMoves(op, {}) :
          ApplyTensorMerge(m.gs) /\ links' = FixupTensorMerge(links, groups', m.gs)
    BY <2>1
  <2>3. Around(op, {}, m.t, m.gs)
    BY TensorMergeMove
  <2>4. Cardinality(m.gs) >= 2
    BY <2>3 DEF Around, TensorCandidates
  <2>5. (\E g, h \in m.gs : g # h) /\ m.gs # {}
    BY <2>4, TwoOfThem
  <2>6. Inv'
    BY <2>2, <2>5, TensorMergeShifts, ShiftKeepsInv DEF Inv
  <2>7. Tended
    BY <2>2, <2>5, TensorMergeTends
  <2>8. phase' = phase /\ applied' = applied + 1
    BY <1>9 DEF CoupledTensorMerge, Fm, Take
  <2> QED BY <2>6, <2>7, <2>8 DEF Handled
<1> QED BY <1>1, <1>2, <1>3, <1>4, <1>5, <1>6, <1>7, <1>8, <1>9 DEF PartitionMove

LEMMA SamePartition ==
  ASSUME Inv, UNCHANGED partVars
  PROVE  Inv' /\ groups' = groups /\ ngroups' = ngroups
<1>1. prob' = prob /\ ngroups' = ngroups /\ groups' = groups /\ index' = index
      /\ edges' = edges
  BY DEF partVars
<1>2. TypeOK' BY <1>1 DEF Inv, Consistent, TypeOK
<1>3. IndexCurrent' BY <1>1 DEF Inv, Consistent, IndexCurrent, GroupsOf
<1>4. AllHeld' BY <1>1 DEF Inv, Consistent, AllHeld
<1>5. GdagSound'
  BY <1>1 DEF Inv, Consistent, GdagSound, BuildEdges, EdgesFor, Consumers, Producers
<1>6. GdagComplete' BY <1>1 DEF Inv, Consistent, GdagComplete, Alive, Consumers
<1> QED BY <1>1, <1>2, <1>3, <1>4, <1>5, <1>6 DEF Inv, Consistent

LEMMA SameLinks ==
  ASSUME LinkInv, groups' = groups, ngroups' = ngroups, links' = links
  PROVE  Tended
<1>1. PICK U : U = Free(ngroups)
  OBVIOUS
<1>2. Fixes(links, links, U)
  BY <1>1, FixesSelf DEF LinkInv
<1> QED BY <1>1, <1>2 DEF Tended, Tends

LEMMA LinkMoveIsHandled ==
  ASSUME Inv, LinkInv, applied \in Nat, LinkMove
  PROVE  Handled /\ phase' = phase /\ applied' \in Nat
<1>0. \A o \in Ops : Holders(o) \subseteq Alive /\ Consumers(o) \subseteq Ops
  BY DEF Holders, Consumers
<1>1. CASE Couple
  <2>1. PICK a \in Slots, b \in Slots : \E t \in Retainable :
          CoupleFeasible(a, b, t) /\ links' = Link(links, a, b, {t})
    BY <1>1 DEF Couple
  <2>2. PICK t \in Retainable : CoupleFeasible(a, b, t) /\ links' = Link(links, a, b, {t})
    BY <2>1
  <2>3. UNCHANGED partVars /\ phase' = phase /\ applied' = applied + 1
    BY <1>1 DEF Couple, InSearch, Take
  <2>4. t \in Ops
    BY RetainableAssumption
  <2>5. Tended
    BY <2>2, <2>3, <2>4, CoupleTends
  <2> QED BY <2>3, <2>5, SamePartition DEF Handled
<1>2. CASE Uncouple
  <2>1. PICK a \in Slots, b \in Slots : \E t \in Kept(links, a, b) :
          UncoupleFeasible(a, b, t) /\ links' = Uncoupled(links, a, b, t)
    BY <1>2 DEF Uncouple
  <2>2. PICK t \in Kept(links, a, b) :
          UncoupleFeasible(a, b, t) /\ links' = Uncoupled(links, a, b, t)
    BY <2>1
  <2>3. UNCHANGED partVars /\ phase' = phase /\ applied' = applied + 1
    BY <1>2 DEF Uncouple, InSearch, Take
  <2>4. Tended
    BY <2>2, <2>3, UncoupleTends
  <2> QED BY <2>3, <2>4, SamePartition DEF Handled
<1>3. CASE RetainForceSplit
  <2>1. PICK op \in Retainable : \E g \in Holders(op) : \E b \in Consumers(op) :
          ApplyRetainForceSplit(op, b, g)
    BY <1>3 DEF RetainForceSplit
  <2>2. op \in Ops
    BY RetainableAssumption
  <2>3. PICK g \in Holders(op) : \E b \in Consumers(op) : ApplyRetainForceSplit(op, b, g)
    BY <2>1
  <2>4. PICK b \in Consumers(op) : ApplyRetainForceSplit(op, b, g)
    BY <2>3
  <2>5. Inv' /\ Settled
    BY <1>0, <2>2, <2>4, RetainForceSplitSettles
  <2>6. phase' = phase /\ applied' = applied + 1 /\ last' = "RETAIN_FORCE_SPLIT"
    BY <1>3 DEF RetainForceSplit, InSearch, Take
  <2>7. HandsOver
    BY <2>6 DEF HandsOver
  <2> QED BY <2>5, <2>6, <2>7 DEF Handled
<1>4. CASE ForceRetain
  <2>1. PICK op \in Retainable : \E a \in Holders(op) : \E c \in Consumers(op) :
          \E gd \in Holders(c) : \E v \in OpNeighbors(c) :
            ForceRetainFeasible(op, a, c, v, gd) /\ ApplyForceRetain(op, a, c, v, gd)
    BY <1>4 DEF ForceRetain
  <2>2. op \in Ops
    BY RetainableAssumption
  <2>3. PICK a \in Holders(op), c \in Consumers(op) :
          \E gd \in Holders(c) : \E v \in OpNeighbors(c) :
            ForceRetainFeasible(op, a, c, v, gd) /\ ApplyForceRetain(op, a, c, v, gd)
    BY <2>1
  <2>4. PICK gd \in Holders(c) : \E v \in OpNeighbors(c) :
            ForceRetainFeasible(op, a, c, v, gd) /\ ApplyForceRetain(op, a, c, v, gd)
    BY <2>3
  <2>5. PICK v \in OpNeighbors(c) :
            ForceRetainFeasible(op, a, c, v, gd) /\ ApplyForceRetain(op, a, c, v, gd)
    BY <2>4
  <2>6. a \in Alive /\ gd \in Alive /\ a # gd /\ FreeTail(a) /\ FreeHead(gd)
    BY <1>0, <2>2, <2>5 DEF ForceRetainFeasible
  <2>7. Inv' /\ Settled
    BY <2>2, <2>5, <2>6, ForceRetainSettles
  <2>8. phase' = phase /\ applied' = applied + 1 /\ last' = "FORCE_RETAIN"
    BY <1>4 DEF ForceRetain, Fm, Take
  <2>9. HandsOver
    BY <2>8 DEF HandsOver
  <2> QED BY <2>7, <2>8, <2>9 DEF Handled
<1>5. CASE EphemeralFuse
  <2>1. PICK p \in Retainable : \E c \in Consumers(p) :
          \E gp \in Holders(p) : \E gc \in Holders(c) : \E d \in Slots :
            FuseFeasible(p, c, gp, gc, d) /\ ApplyFuse(p, c, gp, gc, d)
    BY <1>5 DEF EphemeralFuse
  <2>2. p \in Ops
    BY RetainableAssumption
  <2>3. PICK c \in Consumers(p), gp \in Holders(p) : \E gc \in Holders(c) : \E d \in Slots :
            FuseFeasible(p, c, gp, gc, d) /\ ApplyFuse(p, c, gp, gc, d)
    BY <2>1
  <2>4. PICK gc \in Holders(c) : \E d \in Slots :
            FuseFeasible(p, c, gp, gc, d) /\ ApplyFuse(p, c, gp, gc, d)
    BY <2>3
  <2>5. PICK d \in Slots : FuseFeasible(p, c, gp, gc, d) /\ ApplyFuse(p, c, gp, gc, d)
    BY <2>4
  <2>6. c \in Ops /\ gp \in Alive /\ gc \in Alive /\ FreeHead(d)
    BY <1>0, <2>2, <2>5 DEF FuseFeasible
  <2>7. Inv' /\ Tended
    BY <2>2, <2>5, <2>6, FuseTends
  <2>8. phase' = phase /\ applied' = applied + 1
    BY <1>5 DEF EphemeralFuse, InSearch, Take
  <2> QED BY <2>7, <2>8 DEF Handled
<1> QED BY <1>1, <1>2, <1>3, <1>4, <1>5 DEF LinkMove

(* Entries leave the FM with every link served. *)
Ends == phase = "fm" /\ phase' = "entry" /\ Matched(links) => Serves(links', groups')

LEMMA CoupledStepIsHandled ==
  ASSUME Inv, LinkInv, applied \in Nat, [CoupledNext]_couplingVars
  PROVE  Handled /\ Ends /\ applied' \in Nat
<1>1. CASE PartitionMove
  BY <1>1, PartitionMoveIsHandled DEF Ends
<1>2. CASE LinkMove
  BY <1>2, LinkMoveIsHandled DEF Ends
<1>3. CASE Seed
  <2>1. PICK q \in Orders : \E K \in (SUBSET Hints(q)) \ {{}} : links' = Seeded(K)
    BY <1>3 DEF Seed
  <2>2. PICK K \in SUBSET Hints(q) : links' = Seeded(K)
    BY <2>1
  <2>3. UNCHANGED partVars /\ applied' = applied + 1
    BY <1>3 DEF Seed, Take
  <2>4. Tended /\ Serves(links', groups')
    BY <2>2, <2>3, SeedTends
  <2> QED BY <2>3, <2>4, SamePartition DEF Handled, Ends
<1>4. CASE EndPass
  <2>1. Rebuilt(groups, 0) /\ links' = links /\ phase' = phase /\ applied' = applied
    BY <1>4 DEF EndPass
  <2>2. Inv' /\ groups' = groups /\ ngroups' = ngroups
    BY <2>1, RebuiltSame
  <2>3. Tended
    BY <2>1, <2>2, SameLinks
  <2> QED BY <2>1, <2>2, <2>3 DEF Handled, Ends
<1>5. CASE EndSearch
  <2>1. /\ Rebuilt(groups, 0) /\ applied' = applied
        /\ links' = ChainsFixed(Invalidated(links, groups), groups, edges')
    BY <1>5 DEF EndSearch
  <2>2. Inv' /\ Tended /\ (Matched(links) => Serves(links', groups'))
    BY <2>1, EndSearchTends
  <2> QED BY <2>1, <2>2 DEF Handled, Ends
<1>6. CASE StartDescent \/ EndDescent \/ StartTask \/ UNCHANGED couplingVars
  <2>1. UNCHANGED partVars /\ links' = links /\ applied' = applied
        /\ ~(phase = "fm" /\ phase' = "entry")
    <3>1. CASE StartDescent
      BY <3>1 DEF StartDescent
    <3>2. CASE EndDescent
      BY <3>2 DEF EndDescent
    <3>3. CASE StartTask
      BY <3>3 DEF StartTask
    <3>4. CASE UNCHANGED couplingVars
      BY <3>4 DEF couplingVars, partVars
    <3> QED BY <1>6, <3>1, <3>2, <3>3, <3>4
  <2>2. Inv' /\ groups' = groups /\ ngroups' = ngroups
    BY <2>1, SamePartition
  <2>3. Tended
    BY <2>1, <2>2, SameLinks
  <2> QED BY <2>1, <2>2, <2>3 DEF Handled, Ends
<1> QED BY <1>1, <1>2, <1>3, <1>4, <1>5, <1>6 DEF CoupledNext

-----------------------------------------------------------------------------
(* The invariant of the coupled search.                                    *)

CoupledInv == Inv /\ LinkInv /\ applied \in Nat

LEMMA HandledKeepsLinkInv ==
  ASSUME LinkInv, Handled
  PROVE  LinkInv'
<1>1. Fine(links', Free(ngroups')) /\ Plain(links')
  BY DEF Handled, Tended, Tends, Stolen, Settled, Fixes, LinkInv
<1>2. Fine(links, Free(ngroups))' = Fine(links', Free(ngroups'))
  BY DEF Fine, Store, Backed, SelfKept, Idle, Free, Kept
<1>3. Plain(links)' = Plain(links')
  BY DEF Plain
<1> QED BY <1>1, <1>2, <1>3 DEF LinkInv

LEMMA CoupledStepKeepsInv ==
  ASSUME CoupledInv, [CoupledNext]_couplingVars
  PROVE  CoupledInv'
<1>1. Handled /\ applied' \in Nat
  BY CoupledStepIsHandled DEF CoupledInv
<1>2. LinkInv'
  BY <1>1, HandledKeepsLinkInv DEF CoupledInv
<1> QED BY <1>1, <1>2 DEF CoupledInv, Handled

LEMMA StartKeepsInv ==
  ASSUME CoupledInit
  PROVE  Inv
<1>1. PICK q \in StartTables : groups = TableOf(q) /\ ngroups = Len(q)
  BY DEF CoupledInit
<1>2. q \in Seq(SUBSET Ops) /\ Len(q) <= MaxGroups /\ MaxGroups \in Nat
  BY StartTablesAssumption, MaxGroupsAssumption
<1>3. DOMAIN q = 1..Len(q) /\ Len(q) \in Nat /\ \A g \in 1..Len(q) : q[g] \in SUBSET Ops
  BY <1>2
<1>4. \A g \in Slots : groups[g] = IF g \in DOMAIN q THEN q[g] ELSE {}
  BY <1>1 DEF TableOf
<1>5. groups \in [Slots -> SUBSET Ops]
  <2>1. \A g \in Slots : groups[g] \in SUBSET Ops
    BY <1>3, <1>4
  <2> QED BY <1>1, <2>1 DEF TableOf
<1>6. \A g \in Slots : g > ngroups => groups[g] = {}
  BY <1>1, <1>3, <1>4 DEF Slots
<1>7. prob \in Problems /\ index = IndexOf(groups) /\ edges = BuildEdges(groups, index)
  BY DEF CoupledInit
<1>8. /\ index \in [Ops -> [Slots -> Nat]]
      /\ \A o \in Ops, g \in Slots : index[o][g] > 0 <=> o \in groups[g]
  BY <1>7 DEF IndexOf
<1>9. edges \subseteq Slots \X Slots
  BY <1>7, BuildMembers
<1>10. TypeOK
  BY <1>1, <1>2, <1>3, <1>5, <1>6, <1>7, <1>8, <1>9 DEF TypeOK
<1>11. IndexCurrent
  BY <1>8 DEF IndexCurrent, GroupsOf
<1>12. \A o \in Ops : Covered(o)
  BY DEF CoupledInit, Refused
<1>13. AllHeld
  BY <1>8, <1>12 DEF Covered, GroupsOf, AllHeld
<1>14. GdagSound
  BY <1>7 DEF GdagSound
<1>15. GdagComplete
  <2>1. \A a, b \in Slots : FeedsDirectly(groups, a, b) => <<a, b>> \in edges
    BY <1>5, <1>7, <1>8, DirectIsEdge, BuildMembers
  <2> QED BY <1>10, <2>1, GdagCompleteDirect
<1> QED BY <1>10, <1>11, <1>13, <1>14, <1>15 DEF Inv, Consistent

LEMMA NoLinksFine ==
  ASSUME NEW U \in SUBSET Slots
  PROVE  Fine(NoLinks, U) /\ Plain(NoLinks)
<1>1. /\ NoLinks.next = [g \in Slots |-> None] /\ NoLinks.prev = [g \in Slots |-> None]
      /\ NoLinks.kept = {} /\ NoLinks \in Store
  BY DEF NoLinks, Store
<1>2. \A g \in Slots : NoLinks.next[g] = None /\ NoLinks.prev[g] = None
  BY <1>1
<1>3. \A a, b : Kept(NoLinks, a, b) = {}
  BY <1>1 DEF Kept
<1>4. Backed(NoLinks) /\ SelfKept(NoLinks) /\ Plain(NoLinks)
  BY <1>2, NoneApart DEF Backed, SelfKept, Plain
<1>5. ASSUME NEW x \in U PROVE Idle(NoLinks, x)
  BY <1>2, <1>3, NoneApart DEF Idle
<1> QED BY <1>1, <1>4, <1>5 DEF Fine

LEMMA StartIsInv ==
  ASSUME CoupledInit
  PROVE  CoupledInv
<1>1. Inv /\ applied \in Nat
  BY StartKeepsInv DEF CoupledInit
<1>2. PICK U \in SUBSET Slots : U = Free(ngroups)
  BY DEF Free
<1>3. PICK L : L = NoLinks
  OBVIOUS
<1>4. Fine(L, U) /\ Plain(L)
  BY <1>3, NoLinksFine
<1>5. CASE links = NoLinks
  BY <1>1, <1>2, <1>3, <1>4, <1>5 DEF CoupledInv, LinkInv
<1>6. CASE links # NoLinks
  <2>1. PICK a \in Slots, b \in Slots : \E t \in Retainable \cap Keepable(groups, a, b) :
          links = Link(L, a, b, {t})
    BY <1>3, <1>6 DEF CoupledInit
  <2>2. PICK t \in Retainable \cap Keepable(groups, a, b) : links = Link(L, a, b, {t})
    BY <2>1
  <2>3. t \in groups[a] /\ IsBoundaryInput(groups[b], t) /\ t \in Ops
    BY RetainableAssumption DEF Keepable
  <2>4. a # b /\ a \in Alive /\ b \in Alive
    BY <2>3 DEF IsBoundaryInput, ConsumedIn, Alive
  <2>5. a \in Slots \ U /\ b \in Slots \ U
    BY <1>1, <1>2, <2>4, AliveInUse DEF Inv
  <2>6. PICK S \in SUBSET Ops : S = {t}
    BY <2>3
  <2>7. L.next[a] = None /\ L.prev[b] = None
    BY <1>3 DEF NoLinks
  <2>8. PICK V : V = Link(L, a, b, S)
    OBVIOUS
  <2>9. Fixes(L, V, U)
    BY <1>4, <2>4, <2>5, <2>6, <2>7, <2>8, JoinFixes
  <2>10. links = V
    BY <2>2, <2>6, <2>8
  <2> QED BY <1>1, <1>2, <1>4, <2>9, <2>10 DEF CoupledInv, LinkInv, Fixes
<1> QED BY <1>5, <1>6

(* In every state of the coupled search the group table, its index and the *)
(* group graph fit together as they do in the FM without links, no op is   *)
(* without a group, a link is never without its back pointer, no group     *)
(* follows itself, and slots no group has been given have no link.         *)
THEOREM CoupledInvariance == CoupledSpec => []CoupledInv
<1>1. CoupledInit => CoupledInv
  BY StartIsInv
<1>2. CoupledInv /\ [CoupledNext]_couplingVars => CoupledInv'
  BY CoupledStepKeepsInv
<1> QED BY <1>1, <1>2, PTL DEF CoupledSpec

(* The moves on links, the repairs and greedy descent keep the tables of   *)
(* the partition in step: after any of them the index names the live       *)
(* holders of every op, and no op is lost.                                 *)
THEOREM CoupledPartitionIsSound == CoupledSpec => [](TypeOK /\ IndexCurrent /\ NoOpLost)
<1>1. ASSUME CoupledInv PROVE TypeOK /\ IndexCurrent /\ NoOpLost
  BY <1>1, HoldersAreLive DEF CoupledInv, Inv, Consistent, AllHeld, NoOpLost, Covered
<1> QED BY <1>1, CoupledInvariance, PTL

-----------------------------------------------------------------------------
(* The properties of the runs, in terms of the maps.                       *)

LEMMA PropertiesNow ==
  ASSUME links \in Store
  PROVE  /\ LinksMutual <=> Mutual(links)
         /\ LinksKept <=> Matched(links)
         /\ LinksServe <=> Matched(links) /\ Serves(links, groups)
<1>1. LinksMutual <=> Mutual(links)
  BY DEF LinksMutual, Mutual
<1>2. \A m \in links.kept : m[1] \in Slots /\ m[2] \in Slots /\ m[3] \in Ops /\ m = <<m[1], m[2], m[3]>>
  BY DEF Store
<1>3. \A a \in Slots : links.next[a] \in Slots \cup {None}
  BY DEF Store
<1>4. \A m \in links.kept : m[3] \in Kept(links, m[1], m[2])
  BY <1>2 DEF Kept
<1>5. \A a, b \in Slots : \A t \in Kept(links, a, b) : <<a, b, t>> \in links.kept
  BY DEF Kept
<1>6. LinksKept => Matched(links)
  <2>1. ASSUME LinksKept, NEW a \in Slots, NEW b \in Slots, Kept(links, a, b) # {}
        PROVE  links.next[a] = b
    <3>1. PICK t \in Kept(links, a, b) : TRUE
      BY <2>1
    <3>2. <<a, b, t>> \in links.kept
      BY <1>5
    <3> QED BY <2>1, <3>2 DEF LinksKept
  <2>2. ASSUME LinksKept, NEW a \in Slots, NEW b \in Slots, links.next[a] = b
        PROVE  Kept(links, a, b) # {}
    BY <2>2, NoneApart DEF LinksKept
  <2> QED BY <2>1, <2>2 DEF Matched
<1>7. Matched(links) => LinksKept
  <2>1. ASSUME Matched(links), NEW a \in Slots, links.next[a] # None
        PROVE  Kept(links, a, links.next[a]) # {}
    BY <1>3, <2>1 DEF Matched
  <2>2. ASSUME Matched(links), NEW m \in links.kept
        PROVE  links.next[m[1]] = m[2]
    BY <1>2, <1>4, <2>2 DEF Matched
  <2> QED BY <2>1, <2>2 DEF LinksKept
<1>8. LinksServe <=> LinksKept /\ Serves(links, groups)
  <2>1. ASSUME \A m \in links.kept : m[3] \in Keepable(groups, m[1], m[2]) PROVE Serves(links, groups)
    <3>1. ASSUME NEW a \in Slots, NEW b \in Slots, NEW t \in Kept(links, a, b)
          PROVE  t \in Keepable(groups, a, b)
      <4>1. <<a, b, t>> \in links.kept
        BY <1>5
      <4> QED BY <2>1, <4>1
    <3> QED BY <3>1 DEF Serves
  <2>2. ASSUME Serves(links, groups), NEW m \in links.kept PROVE m[3] \in Keepable(groups, m[1], m[2])
    BY <1>2, <1>4, <2>2 DEF Serves
  <2> QED BY <2>1, <2>2 DEF LinksServe
<1> QED BY <1>1, <1>6, <1>7, <1>8

LEMMA PropertiesNext ==
  (links \in Store
     => /\ LinksMutual <=> Mutual(links)
        /\ LinksKept <=> Matched(links)
        /\ LinksServe <=> Matched(links) /\ Serves(links, groups))'
<1>1. links \in Store
        => /\ LinksMutual <=> Mutual(links)
           /\ LinksKept <=> Matched(links)
           /\ LinksServe <=> Matched(links) /\ Serves(links, groups)
  BY PropertiesNow
<1> QED BY <1>1, PTL

LEMMA SameProblem ==
  ASSUME [CoupledNext]_couplingVars
  PROVE  prob' = prob
<1>1. CASE CoupledDeRecompute
  BY <1>1 DEF CoupledDeRecompute, ApplyDeRecompute, Commit
<1>2. CASE CoupledEject
  BY <1>2 DEF CoupledEject, ApplyEject, Commit
<1>3. CASE CoupledRecompute
  BY <1>3 DEF CoupledRecompute, ApplyRecompute, Commit
<1>4. CASE CoupledTensorExtract
  BY <1>4 DEF CoupledTensorExtract, ApplyTensorExtract, Scatter, Commit
<1>5. CASE CoupledForceRecompute
  BY <1>5 DEF CoupledForceRecompute, ApplyForceRecompute
<1>6. CASE CoupledSplit
  BY <1>6 DEF CoupledSplit, ApplySplit, Commit
<1>7. CASE CoupledSteal
  BY <1>7 DEF CoupledSteal, ApplySteal, Commit
<1>8. CASE CoupledMerge
  BY <1>8 DEF CoupledMerge, ApplyMerge, Commit
<1>9. CASE CoupledTensorMerge
  BY <1>9 DEF CoupledTensorMerge, ApplyTensorMerge, Commit
<1>10. CASE Couple \/ Uncouple \/ Seed
  BY <1>10 DEF Couple, Uncouple, Seed, partVars
<1>11. CASE RetainForceSplit \/ ForceRetain
  <2>1. \E u, v, g : CutInTwo(u, v, g)
    <3>1. CASE RetainForceSplit
      BY <3>1 DEF RetainForceSplit, ApplyRetainForceSplit
    <3>2. CASE ForceRetain
      BY <3>2 DEF ForceRetain, ApplyForceRetain
    <3> QED BY <1>11, <3>1, <3>2
  <2> QED BY <2>1 DEF CutInTwo, Rebuilt
<1>12. CASE EphemeralFuse
  <2>1. \E table, n : Rebuilt(table, n)
    BY <1>12 DEF EphemeralFuse, ApplyFuse
  <2> QED BY <2>1 DEF Rebuilt
<1>13. CASE EndPass \/ EndSearch
  BY <1>13 DEF EndPass, EndSearch, Rebuilt
<1>14. CASE StartDescent \/ EndDescent \/ StartTask \/ UNCHANGED couplingVars
  BY <1>14 DEF StartDescent, EndDescent, StartTask, couplingVars, partVars
<1> QED BY <1>1, <1>2, <1>3, <1>4, <1>5, <1>6, <1>7, <1>8, <1>9, <1>10, <1>11, <1>12, <1>13, <1>14
        DEF CoupledNext, PartitionMove, LinkMove

LEMMA StepStaysServing ==
  ASSUME CoupledInv, CoupledInv', [CoupledNext]_couplingVars, LinksMutual, LinksKept
  PROVE  /\ LinksKept'
         /\ ~Steals => LinksMutual'
         /\ LinksServe /\ ~HandsOver => LinksServe'
         /\ phase = "fm" /\ phase' = "entry" => LinksServe'
<1>1. Handled /\ Ends
  BY CoupledStepIsHandled DEF CoupledInv
<1>2. links \in Store
  BY DEF CoupledInv, LinkInv, Fine
<1>3. links' \in Store
  BY <1>1, HandledKeepsLinkInv DEF Handled, Tended, Tends, Stolen, Settled, Fixes, Fine
<1>4. Mutual(links) /\ Matched(links) /\ (LinksServe <=> Serves(links, groups))
  BY <1>2, PropertiesNow
<1>5. /\ LinksMutual' <=> Mutual(links')
      /\ LinksKept' <=> Matched(links')
      /\ LinksServe' <=> Matched(links') /\ Serves(links', groups')
  <2>1. (links \in Store)' <=> links' \in Store
    BY DEF Store
  <2>2. Mutual(links)' <=> Mutual(links')
    BY DEF Mutual
  <2>3. Matched(links)' <=> Matched(links')
    BY DEF Matched, Kept
  <2>4. Serves(links, groups)' <=> Serves(links', groups')
    <3>1. ASSUME NEW a \in Slots, NEW b \in Slots
          PROVE  Keepable(groups, a, b)' = Keepable(groups', a, b)
      <4>1. \A t : IsBoundaryInput(groups[b], t)' <=> IsBoundaryInput(groups'[b], t)
        BY SameProblem DEF IsBoundaryInput, ConsumedIn, Consumers
      <4> QED BY <4>1 DEF Keepable
    <3> QED BY <3>1 DEF Serves, Kept
  <2> QED BY <1>3, <2>1, <2>2, <2>3, <2>4, PropertiesNext
<1>6. /\ Matched(links')
      /\ ~Steals => Mutual(links')
      /\ Serves(links, groups) /\ ~HandsOver => Serves(links', groups')
  BY <1>1, <1>4 DEF Handled, Tended, Tends, Stolen, Settled, Fixes, Joint
<1>7. phase = "fm" /\ phase' = "entry" => Serves(links', groups')
  BY <1>1, <1>4 DEF Ends
<1> QED BY <1>4, <1>5, <1>6, <1>7

(* Whatever the problem, the start and the order of the moves: once the    *)
(* three records of the links agree, no step but a STEAL makes a forward   *)
(* and a back pointer disagree, none keeps tensors for a link that is gone *)
(* or leaves a link without any, only the two moves that hand a link on    *)
(* can leave one its groups do not serve, and the FM never puts such a     *)
(* link into the pool.                                                     *)
THEOREM StaysServingHolds == CoupledSpec => StaysServing
<1>1. CoupledInv /\ CoupledInv' /\ [CoupledNext]_couplingVars
        => [LinksMutual /\ LinksKept =>
              /\ LinksKept'
              /\ ~Steals => LinksMutual'
              /\ LinksServe /\ ~HandsOver => LinksServe'
              /\ phase = "fm" /\ phase' = "entry" => LinksServe']_couplingVars
  BY StepStaysServing
<1> QED BY <1>1, CoupledInvariance, PTL DEF CoupledSpec, StaysServing
=============================================================================
