--------------------------- MODULE MCStrideSched ---------------------------
(* Small instances of StrideSched for TLC: strides of three bits. *)
EXTENDS StrideSched, TLC
CONSTANTS p1, p2, p3

Symmetry == Permutations(Proc)
=============================================================================
