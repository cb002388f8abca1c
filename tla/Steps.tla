------------------------------- MODULE Steps -------------------------------
(***************************************************************************)
(* A solution: the sequence of steps in which the groups of a partition    *)
(* are launched, and what Solution::validate asks of it.  A step is a      *)
(* record: `ops` the op set it launches, `retain` the tensors it leaves in *)
(* fast memory for the step after it, `fits` whether the cost model        *)
(* accepts it with what it finds there and what it leaves there.           *)
(***************************************************************************)
EXTENDS OpGraph, Sequences

(* boundary_inputs, of which only those with a producer can be missing.    *)
Inputs(S) == (UNION {Reads(o) : o \in S}) \ S
Needs(S) == Inputs(S) \cap Ops

(* boundary_outputs: what the step writes back to slow memory.             *)
Writes(S) == {t \in S : IsBoundaryOutput(S, t)}

Launched(steps) == UNION {steps[i].ops : i \in DOMAIN steps}

LeftByStepBefore(steps, i) == IF i = 1 THEN {} ELSE steps[i - 1].retain

WritingSteps(steps, t) == {i \in DOMAIN steps : t \in Writes(steps[i].ops)}

-----------------------------------------------------------------------------
(* The checks of validate, in its order.                                   *)

LaunchedOnce(steps) ==
  \A i, j \in DOMAIN steps : i # j => steps[i].ops \cap steps[j].ops = {}

(* A producer has been launched before, be its result written or not.      *)
InOrder(steps) ==
  \A i \in DOMAIN steps : \A t \in Needs(steps[i].ops) :
    \E j \in 1..(i - 1) : t \in steps[j].ops

(* Some step writes t, early or late, or the step before left it on chip.  *)
NoMissingInput(steps) ==
  \A i \in DOMAIN steps : \A t \in Needs(steps[i].ops) :
    WritingSteps(steps, t) # {} \/ t \in LeftByStepBefore(steps, i)

(* checkEphemeralization: t stays on chip in step i, so its consumers      *)
(* elsewhere are launched together with a copy of its producer.            *)
ConsumersServed(steps) ==
  \A i \in DOMAIN steps : \A t \in steps[i].ops \ steps[i].retain :
    IsEphemeral(steps[i].ops, t) /\ WritingSteps(steps, t) \ {i} = {} =>
      \A c \in Consumers(t) \ steps[i].ops :
        \E j \in DOMAIN steps \ {i} : {c, t} \subseteq steps[j].ops

(* Mutant of Valid: the topological check is gone.                         *)
ValidInAnyOrder(steps, once) ==
  /\ steps # <<>>
  /\ once => LaunchedOnce(steps)
  /\ Launched(steps) = Ops
  /\ \A i \in DOMAIN steps : steps[i].fits
  /\ \A i \in DOMAIN steps : steps[i].retain \subseteq steps[i].ops
  /\ NoMissingInput(steps)
  /\ ConsumersServed(steps)

(* Solution::validate; `once` is require_source_codegen.                   *)
Valid(steps, once) ==
  /\ steps # <<>>
  /\ once => LaunchedOnce(steps)
  /\ Launched(steps) = Ops
  /\ \A i \in DOMAIN steps : steps[i].fits
  /\ InOrder(steps)
  /\ \A i \in DOMAIN steps : steps[i].retain \subseteq steps[i].ops
  /\ NoMissingInput(steps)
  /\ ConsumersServed(steps)

-----------------------------------------------------------------------------
(* What a run of the steps needs: a step finds each input in slow memory,  *)
(* written by a step before it, or left on chip by the step before it.     *)
InputsReady(steps) ==
  \A i \in DOMAIN steps : \A t \in Needs(steps[i].ops) :
    \/ \E j \in 1..(i - 1) : t \in Writes(steps[j].ops)
    \/ t \in LeftByStepBefore(steps, i)
=============================================================================
