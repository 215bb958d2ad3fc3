--------------------------- MODULE PageAllocator ---------------------------
(***************************************************************************)
(* What a first-fit physical page allocator promises its callers: a run of *)
(* n free pages whenever memory has one, the lowest; pages that were freed *)
(* count whatever the sizes of the blocks they were allocated in.          *)
(***************************************************************************)
EXTENDS Integers, FiniteSets, FiniteSetsExt

CONSTANTS Page,      \* the page frames managed, a set of numbers
          NoPage,    \* the NULL alloc_pages returns
          MaxRun     \* bound: the largest request

VARIABLES free,      \* the free pages
          result     \* what the last allocation returned

Run(base, n) == base..base + n - 1

\* The pages at which a maximal run of at least n free pages begins.
Fits(n) ==
  {p \in free : p - 1 \notin free /\ Run(p, n) \subseteq free}

Init == free = Page /\ result = NoPage

Alloc(n) ==
  IF Fits(n) = {} THEN result' = NoPage /\ UNCHANGED free
  ELSE LET p == Min(Fits(n)) IN result' = p /\ free' = free \ Run(p, n)

Free(base, n) ==
  /\ Run(base, n) \subseteq Page \ free
  /\ free' = free \cup Run(base, n)
  /\ UNCHANGED result

Next == \E n \in 1..MaxRun : Alloc(n) \/ \E base \in Page : Free(base, n)

Spec == Init /\ [][Next]_<<free, result>>
=============================================================================
