-------------------------- MODULE MCVirtualMemory --------------------------
(* Small instances of VirtualMemory for TLC. *)
EXTENDS VirtualMemory, TLC
CONSTANTS mm1, mm2, x, y
Frames == 0..9
CheckFrames == {0, 1}
SegmentOf(first, last, flags) ==
  [start |-> first, end |-> last + 1, read |-> "read" \in flags, write |-> "write" \in flags,
   exec |-> "exec" \in flags, stack |-> "stack" \in flags]
\* A text segment that cannot be read as data, a data segment under both page tables, and
\* a stack that shares the first with the text and overlaps the data.
Segments == {SegmentOf(0, 0, {"exec"}), SegmentOf(1, 2, {"read", "write"}),
             SegmentOf(1, 1, {"read", "write", "stack"})}
Interchangeable == Permutations({mm1, mm2}) \cup Permutations(Value)
=============================================================================
