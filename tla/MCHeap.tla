------------------------------- MODULE MCHeap -------------------------------
(* A small instance of the heap for TLC. *)
EXTENDS Heap

CONSTANTS p1, p2

(* Nothing, small blocks, one byte more than the greatest, and a negative: *)
(* a page of 20 bytes has room for three empty blocks and for two of 0, 2  *)
(* or 3 bytes in any order, so that freeing joins them in every way, the   *)
(* remainder may be of no bytes, and the metadata of later blocks falls    *)
(* across that of earlier ones.                                            *)
MCPedidos == {0, 2, 3, 11, -1}
MCPids == {p1, p2}
Simetria == Permutations(MCPids)
=============================================================================
