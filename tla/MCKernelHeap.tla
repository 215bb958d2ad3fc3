---------------------------- MODULE MCKernelHeap ----------------------------
(* A small memory for TLC: two regions with a reserved page between them. *)
EXTENDS KernelHeap

TwoRegions == << <<0, 4>>, <<5, 1>> >>

\* Left out: what the last calls returned, and page->property where no block begins.
Meaningful == <<free_list, [p \in ToSet(free_list) |-> property[p]], PG_property, nr_free,
                ring, units, bigblocks, pending, held, others>>
=============================================================================
