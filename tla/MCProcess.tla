----------------------------- MODULE MCProcess -----------------------------
(* A small instance of Process for TLC. *)
EXTENDS Process

CONSTANTS p1, p2, p3
=============================================================================
