------------------------------ MODULE Pebbling ------------------------------
(***************************************************************************)
(* The order in which the ops of one step are replayed: a depth-first      *)
(* post-order from the step's results, or, when the build asks for it, a   *)
(* greedy order that keeps ops near the ops they share inputs with; and    *)
(* the steps over which an on-chip value lives under such an order.        *)
(* The graph is the one BuildSourceOpPebblingGraph makes of an op set;     *)
(* roles of matrix operands are not told apart.                            *)
(***************************************************************************)
EXTENDS OpGraph, Sequences

CONSTANT Window     \* kDependencyConstrainedGorderWindow
ASSUME WindowAssumption == Window \in Nat \ {0}

(* DAG::topo_sort: of the ready ops, the one with the least index.         *)
TopoSort ==
  LET sorted[n \in 0..Cardinality(Ops)] ==
        IF n = 0 THEN <<>>
        ELSE LET q    == sorted[n - 1]
                 done == {q[i] : i \in DOMAIN q}
             IN  Append(q, Least({o \in Ops \ done : Producers(o) \subseteq done}))
  IN  sorted[Cardinality(Ops)]

TopoPosition(o) == CHOOSE i \in DOMAIN TopoSort : TopoSort[i] = o

(* S in the order of topo_position.                                        *)
ByPosition(S) ==
  [i \in 1..Cardinality(S) |->
     CHOOSE o \in S : Cardinality({u \in S : TopoPosition(u) < TopoPosition(o)}) = i - 1]

(* The nodes' predecessors, and the boundary values they are near by.      *)
Preds(o, S) == Producers(o) \cap S
Succs1(o, S) == Consumers(o) \cap S
Values(o, S) == Reads(o) \ S

Roots(S) == {o \in S : ~ConsumedIn(o, S) \/ o \in prob.required}

-----------------------------------------------------------------------------
(* DfsPostOrderStrategy: a stack of nodes, each put back under its         *)
(* predecessors and taken into the order when it surfaces again.           *)

Entry(o, expanded) == [op |-> o, expanded |-> expanded]

(* Mutant of Popped: a node is taken when it is first met.                 *)
PoppedPreOrder(st, S) ==
  LET top  == st.stack[1]
      rest == Tail(st.stack)
      new  == ByPosition(Preds(top.op, S) \ (st.visited \cup {top.op}))
  IN  IF top.op \in st.visited THEN [st EXCEPT !.stack = rest]
      ELSE [stack   |-> [i \in DOMAIN new |-> Entry(new[i], FALSE)] \o rest,
            visited |-> st.visited \cup {top.op},
            order   |-> Append(st.order, top.op)]

Popped(st, S) ==
  LET top  == st.stack[1]
      rest == Tail(st.stack)
      new  == ByPosition(Preds(top.op, S) \ (st.visited \cup {top.op}))
  IN  IF top.expanded THEN [st EXCEPT !.stack = rest, !.order = Append(@, top.op)]
      ELSE IF top.op \in st.visited THEN [st EXCEPT !.stack = rest]
      ELSE [st EXCEPT !.stack = [i \in DOMAIN new |-> Entry(new[i], FALSE)]
                                \o <<Entry(top.op, TRUE)>> \o rest,
                      !.visited = @ \cup {top.op}]

DfsPostOrder(S) ==
  LET roots == ByPosition(Roots(S))
      first == [stack |-> [i \in DOMAIN roots |-> Entry(roots[i], FALSE)],
                visited |-> {}, order |-> <<>>]
      run[n \in 0..(Cardinality(S) * (Cardinality(S) + 2))] ==
        IF n = 0 THEN first
        ELSE LET st == run[n - 1] IN IF st.stack = <<>> THEN st ELSE Popped(st, S)
  IN  run[Cardinality(S) * (Cardinality(S) + 2)].order

-----------------------------------------------------------------------------
(* DependencyConstrainedGorderStrategy.                                    *)

(* How near two nodes are: edges, common predecessors and common values.   *)
Pair(o, u, S) ==
  Cardinality({o, u} \cap (Preds(o, S) \cup Preds(u, S)))
  + Cardinality(Preds(o, S) \cap Preds(u, S))
  + Cardinality(Values(o, S) \cap Values(u, S))

(* adjust_window_score finds the same weight from the node's side.         *)
Delta(w, u, S) ==
  (IF u \in Preds(w, S) THEN 1 ELSE 0)
  + (IF u \in Succs1(w, S) THEN 1 ELSE 0)
  + Cardinality({p \in Preds(w, S) : u \in Succs1(p, S) \ {w}})
  + Cardinality({v \in Values(w, S) : u # w /\ v \in Values(u, S)})

Best(score, R) ==
  CHOOSE o \in R : \A u \in R \ {o} :
    \/ score[o] > score[u]
    \/ score[o] = score[u] /\ TopoPosition(o) < TopoPosition(u)

ReadyNodes(S, done) == {o \in S \ done : Preds(o, S) \subseteq done}

Add(score, w, S, left) ==
  [u \in S |-> IF u \in left THEN score[u] + Delta(w, u, S) ELSE score[u]]

(* Mutant of Drop: a leaving node gives back its edges only.               *)
DropEdgesOnly(score, w, S, left) ==
  [u \in S |-> IF u \in left
               THEN score[u] - Cardinality({u} \cap (Preds(w, S) \cup Succs1(w, S)))
               ELSE score[u]]

Drop(score, w, S, left) ==
  [u \in S |-> IF u \in left THEN score[u] - Delta(w, u, S) ELSE score[u]]

(* One turn: the best ready node is taken and enters the window; the       *)
(* oldest leaves a window that has become too long.                        *)
Turn(st, S) ==
  LET done   == {st.order[i] : i \in DOMAIN st.order}
      chosen == Best(st.score, ReadyNodes(S, done))
      left   == S \ (done \cup {chosen})
      more   == Add(st.score, chosen, S, left)
      window == Append(st.window, chosen)
  IN  [order  |-> Append(st.order, chosen),
       window |-> IF Len(window) > Window THEN Tail(window) ELSE window,
       score  |-> IF Len(window) > Window THEN Drop(more, Head(window), S, left)
                                          ELSE more]

GorderStates(S) ==
  LET run[n \in 0..Cardinality(S)] ==
        IF n = 0 THEN [order |-> <<>>, window |-> <<>>, score |-> [o \in S |-> 0]]
        ELSE LET st == run[n - 1] IN Turn(st, S)
  IN  run

Gorder(S) == GorderStates(S)[Cardinality(S)].order

(* What the score of u should be: how near it is to the ops in the window. *)
NearTo(u, window, S) ==
  LET near[n \in 0..Len(window)] ==
        IF n = 0 THEN 0 ELSE near[n - 1] + Pair(window[n], u, S)
  IN  near[Len(window)]

-----------------------------------------------------------------------------
(* ComputeAlwaysRetainedValueLifetimes: the plan of the values' lifetimes  *)
(* is valid unless a result is used before it is there.                    *)
At(order, o) == CHOOSE i \in DOMAIN order : order[i] = o

PlanValid(order, S) ==
  \A t \in S : \A o \in Consumers(t) \cap S : At(order, t) <= At(order, o)
=============================================================================
