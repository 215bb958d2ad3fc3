---------------------------- MODULE MCStrideHeap ----------------------------
(* A small instance of StrideHeap for TLC: strides of two bits. *)
EXTENDS StrideHeap, TLC
CONSTANTS p1, p2, p3

Symmetry == Permutations(Proc)
=============================================================================
