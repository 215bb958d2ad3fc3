--------------------------- MODULE MCTimedThreads ---------------------------
(* A small instance of TimedThreads for TLC. *)
EXTENDS TimedThreads, TLC

CONSTANTS p1, p2, p3, s1

\* Every semaphore starts as a mutex (value 1), as lock_mm and lock_sfs_fs use it.
MutexInit == [s \in Sem |-> 1]

Symmetry == Permutations(Proc \ {idle})
=============================================================================
