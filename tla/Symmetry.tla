------------------------------ MODULE Symmetry ------------------------------
(***************************************************************************)
(* Symmetric patterns: components of the op graph that look alike.  What   *)
(* discovers them is left out; a pattern is given as the sequence of its   *)
(* components, each the sequence of its ops, so that the bijection between *)
(* two components (compute_bijection, or the positions in a block of a     *)
(* series) pairs ops with the same place.                                  *)
(***************************************************************************)
EXTENDS Partition

CONSTANT Patterns       \* problem -> its patterns
ASSUME PatternsAssumption ==
  \A p \in Problems : \A pat \in Patterns[p] :
    /\ pat \in Seq(Seq(Ops))
    /\ \A i \in DOMAIN pat : Len(pat[i]) = Len(pat[1])
    /\ \A i, j \in DOMAIN pat : \A k, l \in DOMAIN pat[1] :
         pat[i][k] = pat[j][l] => i = j /\ k = l

CompOps(comp) == {comp[k] : k \in DOMAIN comp}

AllOps(pat) == UNION {CompOps(pat[i]) : i \in DOMAIN pat}

(* map_config: groups of one component carried over to another.            *)
Mapped(config, from, to) ==
  [i \in DOMAIN config |-> {to[k] : k \in {k \in DOMAIN from : from[k] \in config[i]}}]

(* The groups around one component are the image of those around any other.*)
GroupedAlike(pat) ==
  \A i, j \in DOMAIN pat :
    LET inside(C) == {groups[g] : g \in {g \in Alive : groups[g] \cap C # {}}}
        image(S)  == {IF o \in CompOps(pat[i])
                      THEN pat[j][CHOOSE k \in DOMAIN pat[i] : pat[i][k] = o] ELSE o : o \in S}
    IN  {image(S) : S \in inside(CompOps(pat[i]))} = inside(CompOps(pat[j]))
=============================================================================
