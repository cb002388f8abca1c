---------------------------- MODULE PairingHeap ----------------------------
(***************************************************************************)
(* The pairing heap of the FM passes: nodes preallocated per op, tied      *)
(* together by the index of a first child, of a next sibling and of the    *)
(* node before (the parent, or the sibling to the left).  A node that has  *)
(* left the heap keeps its indices until it is pushed again.               *)
(***************************************************************************)
EXTENDS Integers, Sequences, FiniteSets

CONSTANTS
  Keys,      \* op indices
  Savings,   \* what a move may save
  Nil        \* -1
ASSUME NilAssumption == Nil \notin Keys
ASSUME KeysAssumption == IsFiniteSet(Keys)
ASSUME SavingsAssumption == Savings \subseteq Int

VARIABLES
  heap,      \* root and, per node, saving, child, next and prev
  inHeap,    \* in_heap_
  popped     \* the key pop_best returned last

heapVars == <<heap, inHeap, popped>>

-----------------------------------------------------------------------------
(* The pointer surgery, on a heap value; `root` holds the result.          *)

Link(h, a, b) ==
  IF a = Nil THEN [h EXCEPT !.root = b]
  ELSE IF b = Nil THEN [h EXCEPT !.root = a]
  ELSE LET top   == IF h.saving[b] > h.saving[a] THEN b ELSE a
           under == IF top = a THEN b ELSE a
           first == h.child[top]
       IN  [h EXCEPT !.root = top,
                     !.child[top] = under,
                     !.next[under] = first,
                     !.prev = [k \in Keys |-> IF k = under THEN top
                                              ELSE IF k = first THEN under
                                              ELSE @[k]]]

(* Mutant of Cut: the sibling to the right keeps pointing at a.            *)
CutLoosely(h, a) ==
  LET p == h.prev[a]
      n == h.next[a]
  IN  [h EXCEPT !.child = [k \in Keys |-> IF k = p /\ @[k] = a THEN n ELSE @[k]],
                !.next = [k \in Keys |-> IF k = a THEN Nil
                                         ELSE IF k = p /\ h.child[k] # a THEN n ELSE @[k]],
                !.prev[a] = Nil]

Cut(h, a) ==
  LET p == h.prev[a]
      n == h.next[a]
  IN  [h EXCEPT !.child = [k \in Keys |-> IF k = p /\ @[k] = a THEN n ELSE @[k]],
                !.next = [k \in Keys |-> IF k = a THEN Nil
                                         ELSE IF k = p /\ h.child[k] # a THEN n ELSE @[k]],
                !.prev = [k \in Keys |-> IF k = a THEN Nil
                                         ELSE IF k = n THEN p ELSE @[k]]]

(* The siblings from `first` on.                                           *)
Peers(h, first) ==
  LET from[n \in 0..Cardinality(Keys)] ==
        IF n = 0 THEN <<first>>
        ELSE LET q == from[n - 1]
                 k == h.next[q[Len(q)]]
             IN  IF k = Nil THEN q ELSE Append(q, k)
  IN  from[Cardinality(Keys) - 1]

(* The peers are linked in pairs from the left, then the pairs, with an    *)
(* odd one left over, from the right.                                      *)
MergePeers(h, first) ==
  LET peers == Peers(h, first)
      loose == [h EXCEPT !.prev = [k \in Keys |-> IF \E i \in DOMAIN peers : peers[i] = k
                                                  THEN Nil ELSE @[k]],
                         !.next = [k \in Keys |-> IF \E i \in DOMAIN peers : peers[i] = k
                                                  THEN Nil ELSE @[k]]]
      pairs[i \in 0..(Len(peers) \div 2)] ==
        IF i = 0 THEN [h |-> loose, tops |-> <<>>]
        ELSE LET before == pairs[i - 1]
                 linked == Link(before.h, peers[2 * i - 1], peers[2 * i])
             IN  [h |-> linked, tops |-> Append(before.tops, linked.root)]
      last == pairs[Len(peers) \div 2]
      tops == IF Len(peers) % 2 = 1 THEN Append(last.tops, peers[Len(peers)]) ELSE last.tops
      fold[j \in 1..Len(tops)] ==
        IF j = 1 THEN [last.h EXCEPT !.root = tops[Len(tops)]]
        ELSE LET r == fold[j - 1] IN Link(r, r.root, tops[Len(tops) + 1 - j])
  IN  fold[Len(tops)]

(* The children of k join the tree under `root`.                           *)
Release(h, k) ==
  IF h.child[k] = Nil THEN h
  ELSE LET bare == [h EXCEPT !.child[k] = Nil]
       IN  Link(MergePeers(bare, h.child[k]), h.root, MergePeers(bare, h.child[k]).root)

(* What is left of the heap without its root.                              *)
WithoutRoot(h) ==
  IF h.child[h.root] = Nil THEN [h EXCEPT !.root = Nil]
  ELSE MergePeers(h, h.child[h.root])

-----------------------------------------------------------------------------
Fresh(k, s) ==
  Link([heap EXCEPT !.saving[k] = s, !.child[k] = Nil, !.next[k] = Nil, !.prev[k] = Nil],
       heap.root, k)

(* Mutant of Update: a root that has become worse stays on top.            *)
UpdateRootInPlace(k, s) ==
  LET h == [heap EXCEPT !.saving[k] = s]
  IN  IF k = heap.root THEN h
      ELSE LET away == Cut(h, k)
               freed == IF s < heap.saving[k] THEN Release(away, k) ELSE away
           IN  Link(freed, freed.root, k)

(* A move that saves less gives up its children first.                     *)
Update(k, s) ==
  LET h == [heap EXCEPT !.saving[k] = s]
  IN  IF k = heap.root
      THEN IF s < heap.saving[k] THEN Release(h, k) ELSE h
      ELSE LET away == Cut(h, k)
               freed == IF s < heap.saving[k] THEN Release(away, k) ELSE away
           IN  Link(freed, freed.root, k)

PushOrUpdate(k, s) ==
  /\ heap' = IF k \in inHeap THEN Update(k, s) ELSE Fresh(k, s)
  /\ inHeap' = inHeap \cup {k}
  /\ popped' = popped

Remove(k) ==
  /\ k \in inHeap
  /\ inHeap' = inHeap \ {k}
  /\ heap' = IF k = heap.root THEN WithoutRoot(heap) ELSE Release(Cut(heap, k), k)
  /\ popped' = popped

PopBest ==
  /\ heap.root # Nil
  /\ popped' = heap.root
  /\ inHeap' = inHeap \ {heap.root}
  /\ heap' = WithoutRoot(heap)

Clear ==
  /\ heap.root # Nil
  /\ inHeap' = {}
  /\ heap' = [heap EXCEPT !.root = Nil]
  /\ popped' = popped

HeapInit ==
  /\ \E s \in Savings :
       heap = [root |-> Nil, saving |-> [k \in Keys |-> s],
               child |-> [k \in Keys |-> Nil], next |-> [k \in Keys |-> Nil],
               prev |-> [k \in Keys |-> Nil]]
  /\ inHeap = {}
  /\ popped = Nil

HeapNext == \/ \E k \in Keys, s \in Savings : PushOrUpdate(k, s)
            \/ \E k \in Keys : Remove(k)
            \/ PopBest
            \/ Clear

HeapSpec == HeapInit /\ [][HeapNext]_heapVars

-----------------------------------------------------------------------------
PointedAt(k) == {j \in inHeap : heap.child[j] = k} \cup {j \in inHeap : heap.next[j] = k}

Reached ==
  LET reach[n \in 0..Cardinality(Keys)] ==
        IF n = 0 THEN {heap.root} \ {Nil}
        ELSE reach[n - 1] \cup {k \in Keys : PointedAt(k) \cap reach[n - 1] # {}}
  IN  reach[Cardinality(Keys)]

(* The nodes hang together: whoever is in the heap is reached from the     *)
(* root, each from one node only, and points back at it.                   *)
WellLinked ==
  /\ Reached = inHeap
  /\ \A k \in inHeap \ {heap.root} :
       /\ PointedAt(k) = {heap.prev[k]}
       /\ ~(heap.child[heap.prev[k]] = k /\ heap.next[heap.prev[k]] = k)
  /\ heap.root # Nil =>
       heap.prev[heap.root] = Nil /\ heap.next[heap.root] = Nil

Queue == INSTANCE MoveQueue WITH Nobody <- Nil, waiting <- inHeap,
                                 worth <- heap.saving, got <- popped

(* Every call does to the heap what it does to the queue of moves that     *)
(* fm_pass and greedy_descent expect: pop_best takes a best waiting move.  *)
ImplementsQueue == Queue!QueueSpec
=============================================================================
