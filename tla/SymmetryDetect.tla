--------------------------- MODULE SymmetryDetect ---------------------------
(***************************************************************************)
(* What finds the parallel patterns of a program (merkle_hash.h,           *)
(* symmetry.h): parts of the op graph that look alike.                     *)
(*                                                                         *)
(* A hash is known by the ops that have it: the class of o is the set of   *)
(* ops hashed like o, which no collision makes larger.  How two different  *)
(* hashes compare is arbitrary but fixed, and so is a CHOOSE.              *)
(*                                                                         *)
(* A super-node is a record of its ops, its ranges of levels, and the      *)
(* largest class of its isomorphic components.                             *)
(***************************************************************************)
EXTENDS OpGraph, SequencesExt

CONSTANTS
  Kind,         \* op -> its type and the shapes of its tensors
  HashOrders    \* bound: orders of the hashes to try, op -> rank
ASSUME KindAssumption == Kind \in [Ops -> Int]
ASSUME OrderAssumption ==
  \A rank \in HashOrders : /\ rank \in [Ops -> Int]
                           /\ \A o, u \in Ops : o # u => rank[o] # rank[u]

VARIABLES
  rank,       \* how hashes compare
  merkle,     \* classes of the ops by their hash: fwd, and fwd with bwd
  nodes,      \* the live super-nodes, in the order of their ids
  phase,      \* 0 orbits, 1 merges that keep the symmetry, 2 others, 3 report
  tracked,    \* all_tracked: patterns seen so far
  patterns    \* the patterns reported

detectVars == <<rank, merkle, nodes, phase, tracked, patterns>>

-----------------------------------------------------------------------------
(* Merkle hashes, by rounds.  In round 0 only kinds count; later an op is  *)
(* known by its surroundings and by how many ops of each class are near it.*)

KindOf(o) == <<Kind[o], Cardinality(Reads(o))>>

Hashed(S, rounds, Around(_), Near(_)) ==
  LET Alike(o, u, classes) ==
        /\ KindOf(o) = KindOf(u) /\ Around(o) = Around(u)
        /\ \A C \in classes : Cardinality(Near(o) \cap C) = Cardinality(Near(u) \cap C)
      class[n \in 0..rounds] ==
        IF n = 0 THEN {{u \in S : KindOf(u) = KindOf(o)} : o \in S}
        ELSE UNION {{{u \in S : Alike(o, u, before)} : o \in S} : before \in {class[n - 1]}}
  IN  class[rounds]

Depth(S) ==
  LET depth[o \in S] == LET p == Producers(o) \cap S
                        IN  IF p = {} THEN 0 ELSE 1 + Max({depth[q] : q \in p})
  IN  depth

LongestChain == Max({Depth(Ops)[o] : o \in Ops} \cup {1})

(* A tensor without a producer is known by how often it is read.           *)
InputUse(o) ==
  [n \in 1..Cardinality(Ops) |->
     Cardinality({t \in Reads(o) \cap GraphInputs : Cardinality(Consumers(t)) = n})]

(* MerkleHashes::compute: fwd, bwd, and ops equal in both.                 *)
Forward == Hashed(Ops, LongestChain, InputUse, Producers)

Backward == Hashed(Ops, LongestChain, LAMBDA o : 0, Consumers)

Combined(fwd, bwd) == (UNION {{C \cap D : D \in bwd} : C \in fwd}) \ {{}}

-----------------------------------------------------------------------------
(* component_hash: three rounds each way inside the components of U, whose *)
(* surroundings count only by their number.                                *)

LocalForward(U) ==
  Hashed(U, 3, LAMBDA o : Cardinality(Reads(o) \ U), LAMBDA o : Producers(o) \cap U)

LocalBackward(U) ==
  Hashed(U, 3, LAMBDA o : Consumers(o) = {} \/ Consumers(o) \ U # {},
               LAMBDA o : Consumers(o) \cap U)

(* Mutant of LocalHash: the pass from the outputs is left out.             *)
LocalHashForward(U) == LocalForward(U)

LocalHash(U) == Combined(LocalForward(U), LocalBackward(U))

(* compute_cc: ops are joined by the flow of a tensor, not by a shared     *)
(* input.                                                                  *)
FlowComponents(U) ==
  LET Near(S) == U \cap (S \cup UNION {Producers(o) \cup Consumers(o) : o \in S})
      part[n \in 0..Cardinality(U)] ==
        IF n = 0 THEN {{o} : o \in U} ELSE {Near(S) : S \in part[n - 1]}
  IN  part[Cardinality(U)]

(* Components by their hash: as many ops of each class.                    *)
IsoClasses(U) ==
  LET Same(C, D, classes) == \A K \in classes : Cardinality(C \cap K) = Cardinality(D \cap K)
      Classed(comps, classes) == {{D \in comps : Same(C, D, classes)} : C \in comps}
  IN  UNION {UNION {Classed(comps, classes) : classes \in {LocalHash(U)}}
             : comps \in {FlowComponents(U)}}

Sym(P) == Cardinality(P)
CompSize(P) == Cardinality(CHOOSE C \in P : TRUE)

RankOf(C) == rank[Least(C)]

(* compute_symmetry and extract_pattern: the largest class, the first in   *)
(* the order of the hashes.                                                *)
Pattern(U) ==
  CHOOSE P \in UNION {{P \in classes : \A Q \in classes :
                         \/ Sym(P) > Sym(Q)
                         \/ Sym(P) = Sym(Q) /\ RankOf(UNION P) <= RankOf(UNION Q)}
                      : classes \in {IsoClasses(U)}} : TRUE

-----------------------------------------------------------------------------
(* Orbits and their levels.                                                *)

OrbitPreds(O) == {P \in merkle.fwd \ {O} : \E o \in O : Producers(o) \cap P # {}}
OrbitSuccs(O) == {P \in merkle.fwd \ {O} : \E o \in O : Consumers(o) \cap P # {}}

(* An orbit's level from the top and from the bottom: the longest ways.    *)
OrbitNode(O) ==
  LET longest(Before(_)) ==
        LET dist[P \in merkle.fwd] == IF Before(P) = {} THEN 0
                                      ELSE 1 + Max({dist[Q] : Q \in Before(P)})
        IN  dist
      top    == longest(OrbitPreds)[O]
      bottom == longest(OrbitSuccs)[O]
  IN  [ops |-> O, top |-> <<top, top>>, bottom |-> <<bottom, bottom>>,
       found |-> {{o} : o \in O}]

Widen(x, y) == <<Min({x[1], y[1]}), Max({x[2], y[2]})>>

(* do_merge *)
Joined(a, b) ==
  [ops |-> a.ops \cup b.ops, top |-> Widen(a.top, b.top), bottom |-> Widen(a.bottom, b.bottom),
   found |-> Pattern(a.ops \cup b.ops)]

(* can_merge: both ranges overlap or touch.                                *)
Touch(x, y) == x[2] >= y[1] - 1 /\ y[2] >= x[1] - 1

Flow(U, V) == \E o \in U : Consumers(o) \cap V # {}

(* get_adjacent_pairs *)
Adjacent(a, b) ==
  /\ Flow(a.ops, b.ops) \/ Flow(b.ops, a.ops)
  /\ Touch(a.top, b.top) /\ Touch(a.bottom, b.bottom)

-----------------------------------------------------------------------------
(* The merge loop.                                                         *)

(* Lexicographic order of tuples.                                          *)
Lex(x, y) ==
  \E i \in DOMAIN x : x[i] < y[i] /\ \A j \in 1..(i - 1) : x[j] = y[j]

Pairings ==
  {[a |-> p[1], b |-> p[2], node |-> Joined(nodes[p[1]], nodes[p[2]])] : p \in
     {pr \in (DOMAIN nodes) \X (DOMAIN nodes) :
        pr[1] < pr[2] /\ Adjacent(nodes[pr[1]], nodes[pr[2]])}}

Allowed(c) ==
  LET a == Sym(nodes[c.a].found)
      s == Sym(c.node.found)
  IN  s > 1 /\ (phase = 1 => a > 1 /\ a = Sym(nodes[c.b].found) /\ s >= a)

(* Phase 1 looks for the most ops, phase 2 for the highest symmetry and    *)
(* then the largest component; of equally good pairs the first one stays.  *)
Better(c, d) ==
  LET value(x) == IF phase = 1 THEN <<Cardinality(x.node.ops)>>
                  ELSE <<Sym(x.node.found), CompSize(x.node.found)>>
  IN  \/ Lex(value(d), value(c))
      \/ value(c) = value(d) /\ Lex(<<c.a, c.b>>, <<d.a, d.b>>)

Best(cands) ==
  {c \in cands : Allowed(c) /\ \A d \in cands \ {c} : Allowed(d) => Better(c, d)}

(* track_snode *)
Track(node) ==
  IF Sym(node.found) > 1 /\ CompSize(node.found) > 1 THEN <<node.found>> ELSE <<>>

DetectInit ==
  /\ rank \in HashOrders
  /\ merkle = [fwd |-> {}, all |-> {}]
  /\ nodes = <<>> /\ phase = 0
  /\ tracked = <<>> /\ patterns = {}

Hash ==
  /\ phase = 0 /\ merkle.fwd = {}
  /\ merkle' = [fwd |-> Forward, all |-> Combined(Forward, Backward)]
  /\ UNCHANGED <<rank, nodes, phase, tracked, patterns>>

(* One super-node per orbit.  track_snode passes over all of them: their   *)
(* components are single ops.                                              *)
FormOrbits ==
  /\ phase = 0 /\ merkle.fwd # {}
  /\ nodes' = Sorted({OrbitNode(O) : O \in merkle.fwd},
                      LAMBDA m, n : RankOf(m.ops) < RankOf(n.ops))
  /\ phase' = 1
  /\ UNCHANGED <<rank, merkle, tracked, patterns>>

MergeNodes ==
  /\ phase \in {1, 2}
  /\ \E c \in UNION {Best(cands) : cands \in {Pairings}} :
       /\ tracked' = tracked \o Track(nodes[c.a]) \o Track(nodes[c.b]) \o Track(c.node)
       /\ nodes' = Append(RemoveAt(RemoveAt(nodes, c.b), c.a), c.node)
  /\ UNCHANGED <<rank, merkle, phase, patterns>>

NextPhase ==
  /\ phase \in {1, 2} /\ \A cands \in {Pairings} : Best(cands) = {}
  /\ phase' = phase + 1
  /\ UNCHANGED <<rank, merkle, nodes, tracked, patterns>>

(* The dominance filter, over the patterns in the order they were tracked: *)
(* Q dominates P when it is as symmetric, as large and covers it.          *)
Dominates(Q, P) ==
  Sym(Q) >= Sym(P) /\ CompSize(Q) >= CompSize(P) /\ UNION P \subseteq UNION Q

(* Mutant of Undominated: one already dominated still dominates.           *)
UndominatedTwice(list) ==
  {list[i] : i \in {i \in DOMAIN list :
                      ~\E j \in (DOMAIN list) \ {i} : Dominates(list[j], list[i])}}

Undominated(list) ==
  LET Scan(out, n) == IF \E j \in (DOMAIN list) \ (out \cup {n}) : Dominates(list[j], list[n])
                      THEN out \cup {n} ELSE out
      dropped[n \in 0..Len(list)] ==
        IF n = 0 THEN {} ELSE UNION {Scan(out, n) : out \in {dropped[n - 1]}}
  IN  {list[i] : i \in (DOMAIN list) \ dropped[Len(list)]}

(* The duplicates the code looks for afterwards are dominated already.     *)
Report ==
  /\ phase = 3 /\ phase' = 4
  /\ \E list \in {tracked \o FlattenSeq([i \in DOMAIN nodes |-> Track(nodes[i])])} :
       tracked' = list /\ patterns' = Undominated(list)
  /\ UNCHANGED <<rank, merkle, nodes>>

DetectNext == Hash \/ FormOrbits \/ MergeNodes \/ NextPhase \/ Report

-----------------------------------------------------------------------------
Isomorphism(f, C, D) ==
  /\ {f[o] : o \in C} = D
  /\ \A o \in C : KindOf(f[o]) = KindOf(o)
  /\ \A o \in C : {f[q] : q \in Producers(o) \cap C} = Producers(f[o]) \cap D

Isomorphic(C, D) == \E f \in [C -> D] : Isomorphism(f, C, D)

(* symmetry.h leaves coarse orbits to the local hash, which "handles the   *)
(* fine-grained isomorphism check": two components of a reported pattern   *)
(* are isomorphic, op by op and flow by flow.                              *)
LocallyAlike == \A P \in patterns : \A C, D \in P : Isomorphic(C, D)

(* "Dominance filtering at the end removes redundant patterns" and no      *)
(* other: what was seen on the way is covered by what is reported.         *)
NothingLost ==
  phase = 4 => \A i \in DOMAIN tracked : \E Q \in patterns : Dominates(Q, tracked[i])
=============================================================================
