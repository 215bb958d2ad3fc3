------------------------------ MODULE MCFiles ------------------------------
(* Small instances of Files for TLC. *)
EXTENDS Files, TLC
CONSTANTS p1, p2, p3, t1, t2, t3, tty, dir
Interchangeable == Permutations(Proc) \cup Permutations(Table)
=============================================================================
