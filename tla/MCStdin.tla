------------------------------ MODULE MCStdin ------------------------------
(* Small instances of Stdin for TLC. *)
EXTENDS Stdin
CONSTANTS p1, p2, p3
=============================================================================
