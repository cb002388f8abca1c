------------------------------ MODULE SymmInit ------------------------------
(***************************************************************************)
(* The initial partition a pattern gives (symm_init.cpp): one component is *)
(* solved by merges and its groups are carried over to the others.         *)
(***************************************************************************)
EXTENDS SeriesDetect, Partition

VARIABLES
  pat,        \* the pattern in use: its components, ops in paired order
  stage       \* "detect", "solve", "done"

symmVars == <<prob, ngroups, groups, index, edges, rank, merkle, nodes, phase, tracked, patterns, pat, stage>>

OpsIn(comp) == {comp[k] : k \in DOMAIN comp}

-----------------------------------------------------------------------------
(* compute_bijection sorts two components alike: by kind, by depth inside  *)
(* the component, by the hash in the whole graph, by number.               *)

Ranked(C) ==
  LET depth == Depth(C)
      key(o) == <<Kind[o], Cardinality(Reads(o)), depth[o], RankOf(CHOOSE H \in merkle.all : o \in H), o>>
  IN  Sorted(C, LAMBDA a, b : Lex(key(a), key(b)))

(* The representative is the component that holds the least op.            *)
Parallel(P) ==
  LET comps == Sorted(P, LAMBDA C, D : Least(C) < Least(D))
  IN  [i \in DOMAIN comps |-> Ranked(comps[i])]

Choose ==
  /\ stage = "detect" /\ phase = 4
  /\ stage' = "solve"
  /\ pat' \in {Parallel(P) : P \in patterns} \cup Series
  /\ UNCHANGED <<partVars, detectVars>>

(* greedy_merge_restricted: merges inside the first component, which ask   *)
(* the group graph but not for gaps; when costs stop them is left open.    *)
SolveComponent ==
  /\ stage = "solve"
  /\ \E ga, gb \in {g \in Alive : groups[g] \subseteq OpsIn(pat[1])} :
       LET whole == groups[ga] \cup groups[gb]
       IN  /\ ga # gb
           /\ \E o \in groups[ga] : OpNeighbors(o) \cap groups[gb] # {}
           /\ ~MergeCreatesCycle({ga, gb}) /\ Fits(whole)
           /\ groups' = [groups EXCEPT ![ga] = whole, ![gb] = {}]
  /\ index' = IndexOf(groups') /\ edges' = BuildEdges(groups', index')
  /\ UNCHANGED <<prob, ngroups, detectVars, pat, stage>>

(* Its groups of two ops or more, ...                                      *)
Solved ==
  LET slots == Sorted({g \in Alive : groups[g] \subseteq OpsIn(pat[1])
                                           /\ Cardinality(groups[g]) >= 2}, <)
  IN  [i \in DOMAIN slots |-> groups[slots[i]]]

(* ... with an image in every component where the cost model accepts it,   *)
Image(S, comp) == {comp[k] : k \in {k \in DOMAIN comp : pat[1][k] \in S}}

Images ==
  LET solved == Solved
  IN  FlattenSeq([i \in DOMAIN pat |->
        FlattenSeq([j \in DOMAIN solved |->
          LET S == Image(solved[j], pat[i]) IN IF Fits(S) THEN <<S>> ELSE <<>>])])

(* Mutant of CoveredBy: only what the solved component covers.             *)
CoveredByFirst(q) == UNION {Solved[j] : j \in DOMAIN Solved}

CoveredBy(q) == UNION {q[i] : i \in DOMAIN q}

(* go into a new trivial partition, and the singletons they cover leave    *)
(* it.  A component in which nothing was merged gives no partition.        *)
Replicate ==
  /\ stage = "solve" /\ stage' = "done"
  /\ Solved # <<>>
  /\ \E q \in {Images} : \E covered \in {CoveredBy(q)} :
       LET n == Cardinality(Ops)
       IN  /\ n + Len(q) <= MaxGroups
           /\ ngroups' = n + Len(q)
           /\ groups' = [g \in Slots |-> IF g - n \in DOMAIN q THEN q[g - n]
                                         ELSE TrivialTable[g] \ covered]
  /\ index' = IndexOf(groups') /\ edges' = BuildEdges(groups', index')
  /\ UNCHANGED <<prob, detectVars, pat>>

SymmInit ==
  /\ PartitionInit /\ DetectInit
  /\ pat = <<>> /\ stage = "detect"

Detect == DetectNext /\ UNCHANGED <<partVars, pat, stage>>

SymmNext == Detect \/ Choose \/ SolveComponent \/ Replicate

SymmSpec == SymmInit /\ [][SymmNext]_symmVars

-----------------------------------------------------------------------------
(* The candidate handed on to the search holds every op exactly once, in   *)
(* groups the cost model accepts.                                          *)
ReplicatedOnce ==
  stage = "done" =>
    /\ \A o \in Ops : \E g \in Alive : GroupsOf(o) = {g}
    /\ \A g \in Alive : Fits(groups[g])
=============================================================================
