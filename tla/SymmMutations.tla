--------------------------- MODULE SymmMutations ---------------------------
(***************************************************************************)
(* The alignment of symmetric components (symm_mutations.cpp) and the      *)
(* tasks of the evolution phase: a worker copies a pool entry or crosses   *)
(* two, mutates, aligns or repairs, and a child partition_has_gap lets     *)
(* through goes on to the FM search.                                       *)
(***************************************************************************)
EXTENDS Evolution, Symmetry, SequencesExt

MinCoverage == LET n == Cardinality(Ops) \div 20 IN IF n > 4 THEN n ELSE 4

Usable(pat) == /\ Len(pat) >= 2 /\ Len(pat[1]) >= 2
               /\ Len(pat[1]) * Len(pat) >= MinCoverage

(* extract_config_from_partition: what groups of two ops or more share     *)
(* with the component, found by its ops.                                   *)
Config(C) ==
  LET shared(g)      == groups[g] \cap C
      foundFirst(g, h) == \/ Least(shared(g)) < Least(shared(h))
                          \/ Least(shared(g)) = Least(shared(h)) /\ g < h
      found          == Sorted({g \in Alive : Cardinality(shared(g)) >= 2}, foundFirst)
  IN  [i \in DOMAIN found |-> shared(found[i])]

Donors(pat) == {d \in DOMAIN pat : Config(CompOps(pat[d])) # <<>>}

(* The donor's grouping, and its image in every other component.           *)
(* Mutant of Replicated: the donor's own grouping is not injected again.   *)
ReplicatedToOthers(pat, d) ==
  FlattenSeq([i \in DOMAIN pat |->
                IF i = d THEN <<>> ELSE Mapped(Config(CompOps(pat[d])), pat[d], pat[i])])

Replicated(pat, d) ==
  Config(CompOps(pat[d])) \o
  FlattenSeq([i \in DOMAIN pat |->
                IF i = d THEN <<>> ELSE Mapped(Config(CompOps(pat[d])), pat[d], pat[i])])

(* extract_and_inject: the targets leave their groups, whose other parts   *)
(* fall apart; the new groups are added, those that do not fit op by op;   *)
(* targets in no new group become singletons, ...                          *)
Met(T) == {g \in Slots : groups[g] \cap T # {}}

Remainders(T) == UNION {Leftover(g, groups[g] \ T) : g \in Met(T)}

Injected(config) ==
  FlattenSeq([i \in DOMAIN config |->
                IF Fits(config[i]) THEN <<config[i]>> ELSE Singles(config[i])])

Added(q, T, config) ==
  [i \in DOMAIN q |-> q[i][2]] \o Injected(config) \o Singles(T \ Held(Injected(config)))

Implanted(T, added) ==
  [g \in Slots |->
     IF g - ngroups \in DOMAIN added THEN added[g - ngroups]
     ELSE IF g \in Met(T) THEN FirstComponent(groups[g] \ T) ELSE groups[g]]

(* ... and a singleton whose op another group holds is dropped, unless it  *)
(* is the last to hold it.                                                 *)
Redundant(table, covered) ==
  {g \in Slots : \E o \in covered :
     /\ table[g] = {o}
     /\ \E h \in Slots \ {g} : o \in table[h] /\ (table[h] # {o} \/ h > g)}

WithoutRedundant(table, covered) ==
  [g \in Slots |-> IF g \in Redundant(table, covered) THEN {} ELSE table[g]]

(* align_symmetric_reps, on a copy of an entry's partition without links.  *)
Align ==
  /\ Child("ALIGN")
  /\ \E pat \in {p \in Patterns[prob] : Usable(p)} :
       \E d \in Donors(pat) : \E q \in Layouts(Remainders(AllOps(pat))) :
         LET config == Replicated(pat, d)
             added  == Added(q, AllOps(pat), config)
         IN  /\ ngroups + Len(added) <= MaxGroups
             /\ groups' = WithoutRedundant(Implanted(AllOps(pat), added), Held(config))
             /\ ngroups' = ngroups + Len(added)
  /\ index' = IndexOf(groups')
  /\ edges' = BuildEdges(groups', index')
  /\ phase' = "child"
  /\ prob' = prob /\ NoMates

(* Without a pattern or a donor the worker falls back to mutate_compound.  *)
(* The plain worker hands it the partition it has just moved into the      *)
(* alignment, which has no groups any more.                                *)
FallBack ==
  /\ phase = "entry" /\ links = NoLinks /\ Patterns[prob] # {}
  /\ \/ \A pat \in Patterns[prob] : ~Usable(pat)
     \/ \E pat \in Patterns[prob] : Usable(pat) /\ Donors(pat) = {}
  /\ phase' = "emptied"
  /\ groups' = TableOf(<<>>) /\ index' = IndexOf(groups') /\ edges' = {} /\ ngroups' = 0
  /\ UNCHANGED <<prob, last, applied, links>> /\ NoMates

-----------------------------------------------------------------------------
(* The tasks.                                                              *)

StartMutation == /\ phase = "entry" /\ phase' = "mutating"
                 /\ UNCHANGED <<partVars, last, applied, links>> /\ NoMates

(* A child with a gap is skipped; the others go to the FM search.          *)
Admit == /\ \/ phase \in {"linking", "child", "emptied"}
            \/ phase = "mutating" /\ links = NoLinks
         /\ ~Refused(RetainedTensors(links))
         /\ phase' = "done"
         /\ UNCHANGED <<partVars, last, applied, links>> /\ NoMates

(* How an entry comes by its links.                                        *)
Descend == (StartDescent \/ Couple \/ EndDescent) /\ NoMates

EvoNext ==
  \/ Descend \/ StartMutation \/ Mutation \/ Repair \/ LinkMutation
  \/ StartCrossover \/ PlaceCluster \/ Settle \/ DagCut \/ SeedLink
  \/ Align \/ FallBack \/ Admit

EvoInit ==
  /\ prob \in Problems
  /\ \E q \in MateTables :
       /\ Accepted(TableOf(q))
       /\ groups = TableOf(q) /\ ngroups = Len(q)
  /\ index = IndexOf(groups) /\ edges = BuildEdges(groups, index)
  /\ last = "none" /\ applied = 0
  /\ links = NoLinks /\ phase = "entry"
  /\ mates = <<>> /\ todo = {}

EvoSpec == EvoInit /\ [][EvoNext]_evoVars

-----------------------------------------------------------------------------
CoversAll == \A o \in Ops : Covered(o)

(* evolution.cpp, mutate_compound: "Verify coverage only after successful  *)
(* mutations (the only case where ops can be lost)".  Every operator keeps *)
(* every op, whatever it merges, cuts, deals out, truncates or aligns; a   *)
(* moved-from parent is the exception.                                     *)
KeepsEveryOp == phase \notin {"placing", "emptied"} => CoversAll

OnceOnly(table) == \A g, h \in Slots : g # h => table[g] \cap table[h] = {}

(* The truncated groups of a DAG-cut child need no repair: without         *)
(* recomputation in the parents the child is never refused.                *)
CutAccepted ==
  phase = "cut" /\ OnceOnly(mates[1]) /\ OnceOnly(mates[2]) => ~Refused({})

Sound == Disjoint /\ IsAcyclic /\ ~HasEphemeralGap

MutatedBy(kinds) == applied' # applied /\ last' \in kinds

(* A random mutation looks at the group graph and the gaps before it       *)
(* edits.  From a partition that holds every op once and can run, MERGE,   *)
(* SPLIT, REASSIGN and EJECT reach one without a gap, and MERGE and SPLIT  *)
(* one that can run (evolution.cpp, mutate_merge and its like).            *)
MutationsSound ==
  [][Sound /\ edges = BuildEdges(groups, index) =>
       /\ MutatedBy({"MUTATE_MERGE", "MUTATE_SPLIT", "MUTATE_REASSIGN", "MUTATE_EJECT"})
            => ~HasEphemeralGap'
       /\ MutatedBy({"MUTATE_MERGE", "MUTATE_SPLIT"}) => IsAcyclic']_evoVars

(* Before the link mutations every link serves again, and no chain is      *)
(* interrupted, whatever the mutations did to the groups under it.         *)
RepairRestores ==
  [][phase = "mutating" /\ phase' = "linking" /\ LinksMutual
     => LinksServe' /\ (Disjoint /\ IsAcyclic => ChainsJoined')]_evoVars

(* After an alignment all the components of some pattern are grouped the   *)
(* same way.                                                               *)
AlignedAlike == phase = "child" /\ last = "ALIGN" =>
                  \E pat \in Patterns[prob] : Usable(pat) /\ GroupedAlike(pat)
=============================================================================
