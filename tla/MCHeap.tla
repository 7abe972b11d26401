------------------------------- MODULE MCHeap -------------------------------
(* The instance of Heap for TLC. *)
EXTENDS Heap, TLC

Symmetry == Permutations(Thread)
=============================================================================
