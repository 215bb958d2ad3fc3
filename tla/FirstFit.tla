------------------------------ MODULE FirstFit ------------------------------
(***************************************************************************)
(* The first-fit physical memory manager of kern/mm/default_pmm.c: a list  *)
(* of free blocks kept in address order, each described in the struct Page *)
(* of its first page, split on allocation and merged on release.  Every    *)
(* call runs with interrupts off (alloc_pages, free_pages in kern/mm/pmm.c)*)
(***************************************************************************)
EXTENDS Integers, Sequences, SequencesExt, FiniteSetsExt

CONSTANTS Regions,   \* the usable regions: first page and size, in address order
          NoPage,    \* NULL
          MaxRun     \* bound: the largest request

Pages == UNION {r[1]..r[1] + r[2] - 1 : r \in ToSet(Regions)}

\* page_init gives regions that neither overlap nor touch.
ASSUME RegionsAssumption ==
  /\ Regions \in Seq(Nat \X (Nat \ {0}))
  /\ \A i \in 1..Len(Regions) - 1 : Regions[i][1] + Regions[i][2] < Regions[i + 1][1]
  /\ NoPage \notin Pages
  /\ MaxRun \in Nat \ {0}

VARIABLES free_list,     \* the first pages of the free blocks, in list order
          property,      \* page->property; meaningful for the first page of a block
          PG_property,   \* the pages with this flag
          nr_free,       \* free_area.nr_free
          result         \* what the last default_alloc_pages returned

pageVars == <<free_list, property, PG_property, nr_free, result>>

BlockOf(p) == p..p + property[p] - 1
FreePages == UNION {BlockOf(p) : p \in ToSet(free_list)}

PagesTypeOK ==
  /\ free_list \in Seq(Pages)
  /\ property \in [Pages -> Nat]
  /\ PG_property \subseteq Pages
  /\ nr_free \in Nat
  /\ result \in Pages \cup {NoPage}

\* default_init, then default_init_memmap for every region.
InitPages ==
  /\ free_list = [i \in DOMAIN Regions |-> Regions[i][1]]
  /\ property = [p \in Pages |->
                   IF \E r \in ToSet(Regions) : r[1] = p
                     THEN (CHOOSE r \in ToSet(Regions) : r[1] = p)[2] ELSE 0]
  /\ PG_property = ToSet(free_list)
  /\ nr_free = Cardinality(Pages)
  /\ result = NoPage

-----------------------------------------------------------------------------
\* The free list once the first n pages of the i-th block are taken out: what is
\* left of the block takes its place.
Split(page, i, n) ==
  IF property[page] > n THEN ReplaceAt(free_list, i, page + n) ELSE RemoveAt(free_list, i)

\* The places in the list of the blocks with n pages or more.
Fitting(n) == {i \in DOMAIN free_list : property[free_list[i]] >= n}

\* default_alloc_pages(n): the first of them is taken.
AllocPages(n) ==
  LET i == Min(Fitting(n))
      page == free_list[i]
  IN  IF n > nr_free \/ Fitting(n) = {}
        THEN result' = NoPage /\ UNCHANGED <<free_list, property, PG_property, nr_free>>
        ELSE /\ result' = page
             /\ free_list' = Split(page, i, n)
             /\ IF property[page] > n
                  THEN /\ property' = [property EXCEPT ![page + n] = property[page] - n]
                       /\ PG_property' = (PG_property \cup {page + n}) \ {page}
                  ELSE /\ PG_property' = PG_property \ {page}
                       /\ UNCHANGED property
             /\ nr_free' = nr_free - n

\* Mutant: only the block behind is merged.
MergeBehind(acc, p) ==
  IF acc.base + acc.property[acc.base] = p
    THEN [acc EXCEPT !.property[acc.base] = @ + acc.property[p], !.flags = @ \ {p}]
  ELSE [acc EXCEPT !.list = Append(@, p)]

\* One turn of the merge loop of default_free_pages: the block p of the list ends
\* where the freed block begins, or begins where it ends, or stays.
Merge(acc, p) ==
  IF p + acc.property[p] = acc.base
    THEN [acc EXCEPT !.property[p] = @ + acc.property[acc.base],
                     !.flags = @ \ {acc.base}, !.base = p]
  ELSE IF acc.base + acc.property[acc.base] = p
    THEN [acc EXCEPT !.property[acc.base] = @ + acc.property[p], !.flags = @ \ {p}]
  ELSE [acc EXCEPT !.list = Append(@, p)]

\* The loop's progress, block by block.
Merging(start, list) ==
  LET acc[i \in 0..Len(list)] == IF i = 0 THEN start ELSE Merge(acc[i - 1], list[i])
  IN  acc

\* Where the merged block goes: in front of the first block that begins behind it.
Place(acc) ==
  Min({i \in DOMAIN acc.list : acc.base + acc.property[acc.base] < acc.list[i]}
        \cup {Len(acc.list) + 1})

\* default_free_pages(base, n) for pages that are allocated.
FreePagesAt(base, n) ==
  LET freed == base..base + n - 1
      start == [base |-> base, list |-> <<>>,
                property |-> [p \in Pages |-> IF p = base THEN n
                                              ELSE IF p \in freed THEN 0 ELSE property[p]],
                flags |-> (PG_property \ freed) \cup {base}]
      end == Merging(start, free_list)[Len(free_list)]
  IN  /\ freed \subseteq Pages \ FreePages
      /\ free_list' = InsertAt(end.list, Place(end), end.base)
      /\ property' = end.property
      /\ PG_property' = end.flags
      /\ nr_free' = nr_free + n
      /\ UNCHANGED result

-----------------------------------------------------------------------------
\* After any sequence of allocations and partial releases the free list is in
\* address order and merged: between two blocks lies a page that is not free.
ListMerged ==
  \A i \in DOMAIN free_list :
    /\ property[free_list[i]] > 0
    /\ BlockOf(free_list[i]) \subseteq Pages
    /\ i > 1 => free_list[i - 1] + property[free_list[i - 1]] < free_list[i]

\* default_check's count: nr_free is the number of pages in the free blocks.
CountExact == nr_free = Cardinality(FreePages)

\* The first page of a free block, and no other, carries PG_property.
FlagsExact == PG_property = ToSet(free_list)

\* The data structure is consistent, whatever is allocated and released in parts.
FreeListInv == PagesTypeOK /\ ListMerged /\ CountExact /\ FlagsExact

\* The free list keeps the allocator's promise: NULL only if memory has no run of
\* n free pages, else the lowest run, and no page is given to two callers.
Promised == INSTANCE PageAllocator WITH
  Page <- Pages, free <- FreePages

ImplementsPageAllocator == Promised!Spec
=============================================================================
