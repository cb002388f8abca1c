------------------------------ MODULE OpGraph ------------------------------
(***************************************************************************)
(* The operation graph every part of the partition search reads: which op  *)
(* reads which tensor, which results a caller needs, and which op sets the *)
(* cost model accepts.  It is chosen once and never changes.               *)
(*                                                                         *)
(* Every op has exactly one output tensor (Op::output()), so the output    *)
(* tensor of op o is named o itself; a tensor nobody produces is a member  *)
(* of GraphInputs.                                                         *)
(***************************************************************************)
EXTENDS Integers, FiniteSets

CONSTANTS
  Ops,          \* op indices (natural numbers; their order breaks ties)
  GraphInputs,  \* tensors without a producer
  Problems      \* the problem instances a behaviour may solve

Tensors == Ops \cup GraphInputs

(* reads: the inputs of each op.  required: Problem::required_outputs.     *)
(* fits: the op sets for which eval_set returns a cost below 1e17.         *)
Problem == [reads    : [Ops -> SUBSET Tensors],
            required : SUBSET Ops,
            fits     : SUBSET (SUBSET Ops)]

ASSUME OpsAssumption == /\ Ops \subseteq Nat
                        /\ IsFiniteSet(Ops)
                        /\ GraphInputs \cap Ops = {}
ASSUME GraphInputsAssumption == IsFiniteSet(GraphInputs)

(* A graph is acyclic when every non-empty set of ops has a member that    *)
(* reads nothing produced in the set.                                      *)
ASSUME ProblemsAssumption ==
  \A p \in Problems :
    /\ p \in Problem
    /\ {} \notin p.fits
    /\ \A o \in Ops : {o} \in p.fits
    /\ \A S \in (SUBSET Ops) \ {{}} : \E o \in S : p.reads[o] \cap S = {}

VARIABLE prob   \* the instance being solved

-----------------------------------------------------------------------------
Reads(o) == prob.reads[o]

Consumers(t) == {o \in Ops : t \in prob.reads[o]}

Producers(o) == prob.reads[o] \cap Ops

(* Undirected neighbourhood: producers, consumers, and the ops that share  *)
(* an input tensor.                                                        *)
OpNeighbors(o) ==
  (Producers(o) \cup Consumers(o) \cup UNION {Consumers(t) : t \in Reads(o)}) \ {o}

Fits(S) == S \in prob.fits

ConsumedIn(t, S) == Consumers(t) \cap S # {}

(* Produced in S and written back to slow memory: nobody in S consumes it, *)
(* or the caller asked for it.                                             *)
IsBoundaryOutput(S, t) == t \in S /\ (t \in prob.required \/ ~ConsumedIn(t, S))

(* Produced in S and kept on chip.                                         *)
IsEphemeral(S, t) == t \in S /\ ~IsBoundaryOutput(S, t)

-----------------------------------------------------------------------------
(* Connected components of an op set under OpNeighbors.                    *)

Component(S, o) ==
  {u \in S : \A C \in SUBSET S :
     (o \in C /\ \A v \in C : OpNeighbors(v) \cap S \subseteq C) => u \in C}

Components(S) == {Component(S, o) : o \in S}

Least(S) == CHOOSE o \in S : \A u \in S : o <= u

(* The members of S in the order of Before.                                *)
Sorted(S, Before(_, _)) ==
  [i \in 1..Cardinality(S) |-> CHOOSE x \in S : Cardinality({y \in S : Before(y, x)}) = i - 1]

(* connected_components visits seeds in ascending order, so the component  *)
(* that stays in place is the one with the least op.                       *)
FirstComponent(S) == IF S = {} THEN {} ELSE Component(S, Least(S))

AllFit(S) == \A C \in Components(S) : Fits(C)

(* The two sides of S when the edge between u and v is cut; the edge is a  *)
(* bridge when v is not on u's side.                                       *)
SideOf(S, u, v) ==
  {w \in S : \A C \in SUBSET S :
     (/\ u \in C
      /\ \A x \in C : (OpNeighbors(x) \ (IF x = u THEN {v} ELSE {})) \cap S \subseteq C
      ) => w \in C}

IsBridge(S, u, v) == u \in S /\ v \in S /\ v \notin SideOf(S, u, v)
=============================================================================
