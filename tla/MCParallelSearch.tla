-------------------------- MODULE MCParallelSearch --------------------------
(* Three workers, two strategies, and three partitions.  The cheapest and  *)
(* the dearest two are far apart, so that a full pool must give one up.    *)
(* With three workers and two strategies the last task is the search for   *)
(* symmetry, as with eight workers and six strategies.                     *)
EXTENDS ParallelSearch

Names == {"cheap", "near", "far"}
NameCost == [cheap |-> 220, near |-> 280, far |-> 300]
NameDist ==
  [c \in Names |-> [d \in Names |->
     IF c = d THEN 0 ELSE IF "far" \in {c, d} THEN 400 ELSE 100]]
OneSymm == {"near"}
=============================================================================
