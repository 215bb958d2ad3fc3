------------------------------- MODULE MCSfs -------------------------------
(* Small instances of Sfs for TLC. *)
EXTENDS Sfs, TLC
CONSTANTS f1, f2
FileSymmetry == Permutations(File)

\* What the future of a state depends on: the disk's inode of a dirty file, and
\* the disk's bitmap while super_dirty, are written before they are read.
View == <<memVars, reach, call, phase, [f \in File \ dirty |-> disk[f]],
          IF super_dirty THEN <<>> ELSE <<d_freemap, d_unused>> >>
=============================================================================
