--------------------------- MODULE MCPairingHeap ---------------------------
(* Moves of four ops.  Ties are broken by position in the heap, never by   *)
(* the index of the op, so the ops are interchangeable.                    *)
EXTENDS PairingHeap, TLC

CONSTANTS k1, k2, k3, k4, nil

FourKeys == {k1, k2, k3, k4}
TwoSavings == 1..2
Interchangeable == Permutations(FourKeys)
=============================================================================
