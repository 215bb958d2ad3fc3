----------------------------- MODULE KernelHeap -----------------------------
(***************************************************************************)
(* The kernel heap of kern/mm/kmalloc.c over the pages of FirstFit.  Small *)
(* blocks are cut from pages the heap never gives back, kept in a circular *)
(* list of free blocks in address order; blocks of about a page and more   *)
(* are runs of pages, each described by a small block.                     *)
(*                                                                         *)
(* Addresses and sizes count slob units (8 bytes).  An interrupt handler   *)
(* never calls kmalloc and kernel code is not preempted, so calls do not   *)
(* overlap.  alloc_pages may return NULL, as it does until swapping is set *)
(* up; later a kernel without a single free page stops inside alloc_pages. *)
(***************************************************************************)
EXTENDS FirstFit

CONSTANTS UNITS,     \* slob units to a page
          Sizes,     \* the sizes kmalloc is called with
          MaxHeld,   \* bound: the blocks callers hold at a time
          NULL

ASSUME HeapAssumption ==
  /\ UNITS \in Nat \ 0..3
  /\ Sizes \subseteq Nat \ {0}
  /\ MaxHeld \in Nat
  /\ NULL \notin Int /\ NULL \notin [bb : Nat, size : Nat]

VARIABLES ring,        \* the free list in the order of its links, slobfree first
          units,       \* slob->units of free blocks and of blocks with a header
          slob,        \* what the last slob_alloc returned
          bigblocks,   \* the list of big blocks
          pending,     \* the big block whose pages __kmalloc still has to get, or NULL
          held,        \* history: the blocks callers hold, with the size they asked for
          others       \* history: the pages other callers of alloc_pages hold

listVars == <<ring, units, slob>>
heapVars == <<listVars, bigblocks, pending, held>>
allVars == <<pageVars, heapVars, others>>

\* The static block that keeps the free list from being empty; it lies below all
\* pages.
arena == -2

BIGBLOCK == 2   \* SLOB_UNITS(sizeof(bigblock_t))

Addr == {arena} \cup UNION {p * UNITS..p * UNITS + UNITS - 1 : p \in Pages}

HeapInit ==
  /\ InitPages
  /\ ring = <<arena>>
  /\ units = [a \in Addr |-> IF a = arena THEN 1 ELSE 0]
  /\ slob = NULL
  /\ bigblocks = <<>>
  /\ pending = NULL
  /\ held = {}
  /\ others = {}

-----------------------------------------------------------------------------
\* The list read from its i-th block on.
From(s, i) == SubSeq(s, i, Len(s)) \o SubSeq(s, 1, i - 1)

\* The place behind the i-th.
After(s, i) == IF i = Len(s) THEN 1 ELSE i + 1

Heap == [ring |-> ring, units |-> units]

\* The free list from the block before the first of n units or more behind slobfree.
FoundFirst(h, n) ==
  From(h.ring, Min({i \in DOMAIN h.ring : h.units[h.ring[After(h.ring, i)]] >= n}))

\* Mutant: the rest keeps the size of the whole block.
CutWhole(h, n) ==
  LET turned == FoundFirst(h, n)
      cur == turned[2]
      exact == h.units[cur] = n
  IN  [at |-> cur,
       ring |-> (IF exact THEN <<turned[1]>> ELSE <<turned[1], cur + n>>)
                  \o SubSeq(turned, 3, Len(turned)),
       units |-> [a \in Addr |-> IF a = cur THEN n
                                 ELSE IF ~exact /\ a = cur + n THEN h.units[cur]
                                 ELSE h.units[a]]]

\* The front of that block is taken, its rest takes its place, and the block before
\* it becomes slobfree.
Cut(h, n) ==
  LET turned == FoundFirst(h, n)
      cur == turned[2]
      exact == h.units[cur] = n
  IN  [at |-> cur,
       ring |-> (IF exact THEN <<turned[1]>> ELSE <<turned[1], cur + n>>)
                  \o SubSeq(turned, 3, Len(turned)),
       units |-> [a \in Addr |-> IF a = cur THEN n
                                 ELSE IF ~exact /\ a = cur + n THEN h.units[cur] - n
                                 ELSE h.units[a]]]

\* Whether b belongs between the blocks cur and next of the list, or before the
\* first or behind the last of them all.
Between(cur, b, next) ==
  \/ cur < b /\ b < next
  \/ cur >= next /\ (b > cur \/ b < next)

\* The free list from the block behind which b belongs, the first from slobfree on.
FoundPlace(h, b) ==
  From(h.ring, Min({i \in DOMAIN h.ring : Between(h.ring[i], b, h.ring[After(h.ring, i)])}))

\* slob_free: the block b of n units goes into its place in the list and is merged
\* with the blocks that touch it.
Freed(h, b, n) ==
  LET turned == FoundPlace(h, b)
      cur == turned[1]
      next == turned[After(turned, 1)]
      joinsNext == b + n = next
      joinsCur == cur + h.units[cur] = b
      size == IF joinsNext THEN n + h.units[next] ELSE n
      gone == (IF joinsNext THEN {next} ELSE {}) \cup (IF joinsCur THEN {b} ELSE {})
  IN  [ring |-> (IF joinsCur THEN <<cur>> ELSE <<cur, b>>)
                  \o SubSeq(turned, IF joinsNext THEN 3 ELSE 2, Len(turned)),
       units |-> [a \in Addr |-> IF a \in gone THEN 0
                                 ELSE IF joinsCur /\ a = cur THEN h.units[cur] + size
                                 ELSE IF a = b THEN size ELSE h.units[a]]]

SlobFree(b, n) ==
  /\ ring' = Freed(Heap, b, n).ring
  /\ units' = Freed(Heap, b, n).units

TakeFrom(h, n) ==
  /\ slob' = Cut(h, n).at
  /\ ring' = Cut(h, n).ring
  /\ units' = Cut(h, n).units

\* slob_alloc: from the list, else from a new page put into the list first.
SlobAlloc(n) ==
  IF \E b \in ToSet(ring) : units[b] >= n
    THEN TakeFrom(Heap, n) /\ UNCHANGED pageVars
    ELSE /\ AllocPages(1)
         /\ IF result' = NoPage
              THEN slob' = NULL /\ UNCHANGED <<ring, units>>
              ELSE TakeFrom(Freed(Heap, result' * UNITS, UNITS), n)

-----------------------------------------------------------------------------
\* find_order: the size is halved, and rounded down, until it fits into a page.
FindOrder(size) ==
  LET order[s \in 0..size] == IF s > UNITS THEN 1 + order[s \div 2] ELSE 0
  IN  order[size]

Small(size) == size < UNITS - 1

\* No caller asks for a size whose halves find_order rounds to too few pages, and
\* MaxRun bounds the requests of the heap too.
ASSUME SizesAssumption ==
  \A size \in Sizes : ~Small(size) =>
    /\ 2 ^ FindOrder(size) \in 1..MaxRun
    /\ size <= 2 ^ FindOrder(size) * UNITS

\* kmalloc of a small block: one unit more for the header.  The assertion of
\* slob_alloc fails for the largest small size, which no caller asks for.
KmallocSmall(size) ==
  /\ pending = NULL /\ Cardinality(held) < MaxHeld
  /\ Small(size) /\ size + 2 < UNITS
  /\ SlobAlloc(size + 1)
  /\ held' = IF slob' = NULL THEN held ELSE held \cup {[at |-> slob' + 1, size |-> size]}
  /\ UNCHANGED <<bigblocks, pending, others>>

\* kmalloc of a big block: its descriptor first, ...
KmallocBig(size) ==
  /\ pending = NULL /\ Cardinality(held) < MaxHeld
  /\ ~Small(size)
  /\ SlobAlloc(BIGBLOCK)
  /\ pending' = IF slob' = NULL THEN NULL ELSE [bb |-> slob', size |-> size]
  /\ UNCHANGED <<bigblocks, held, others>>

\* ... then its pages; without them the descriptor goes back.
KmallocPages ==
  /\ pending # NULL
  /\ AllocPages(2 ^ FindOrder(pending.size))
  /\ IF result' = NoPage
       THEN SlobFree(pending.bb, BIGBLOCK) /\ UNCHANGED <<bigblocks, held>>
       ELSE /\ bigblocks' = <<[pages |-> result', order |-> FindOrder(pending.size),
                               bb |-> pending.bb]>> \o bigblocks
            /\ held' = held \cup {[at |-> result' * UNITS, size |-> pending.size]}
            /\ UNCHANGED <<ring, units>>
  /\ pending' = NULL
  /\ UNCHANGED <<slob, others>>

\* kfree: a pointer to the begin of a page may be a big block's, or not.
Kfree(b) ==
  /\ pending = NULL
  /\ LET i == SelectInSeq(bigblocks, LAMBDA big : big.pages * UNITS = b.at) IN
       IF i = 0
         THEN SlobFree(b.at - 1, units[b.at - 1]) /\ UNCHANGED <<pageVars, bigblocks>>
         ELSE /\ FreePagesAt(bigblocks[i].pages, 2 ^ bigblocks[i].order)
              /\ SlobFree(bigblocks[i].bb, BIGBLOCK)
              /\ bigblocks' = RemoveAt(bigblocks, i)
  /\ held' = held \ {b}
  /\ UNCHANGED <<slob, pending, others>>

\* The page users beside the heap; they may release their pages in parts.
OtherAlloc(n) ==
  /\ pending = NULL
  /\ AllocPages(n)
  /\ others' = IF result' = NoPage THEN others ELSE others \cup result'..result' + n - 1
  /\ UNCHANGED heapVars

OtherFree(base, n) ==
  /\ pending = NULL
  /\ base..base + n - 1 \subseteq others
  /\ FreePagesAt(base, n)
  /\ others' = others \ base..base + n - 1
  /\ UNCHANGED heapVars

HeapNext ==
  \/ \E size \in Sizes : KmallocSmall(size) \/ KmallocBig(size)
  \/ KmallocPages
  \/ \E b \in held : Kfree(b)
  \/ \E n \in 1..MaxRun : OtherAlloc(n) \/ \E base \in others : OtherFree(base, n)

HeapSpec == HeapInit /\ [][HeapNext]_allVars

-----------------------------------------------------------------------------
BigPages == UNION {big.pages..big.pages + 2 ^ big.order - 1 : big \in ToSet(bigblocks)}

BigHeld == {b \in held : \E big \in ToSet(bigblocks) : big.pages * UNITS = b.at}

\* What lies in the pages of the small blocks: free blocks, callers' blocks with
\* their headers, and the descriptors of big blocks.
Pieces ==
  {<<b, units[b]>> : b \in ToSet(ring) \ {arena}}
    \cup {<<b.at - 1, units[b.at - 1]>> : b \in held \ BigHeld}
    \cup {<<big.bb, BIGBLOCK>> : big \in ToSet(bigblocks)}
    \cup (IF pending = NULL THEN {} ELSE {<<pending.bb, BIGBLOCK>>})

Span(piece) == piece[1]..piece[1] + piece[2] - 1

SlobPages == Pages \ (FreePages \cup others \cup BigPages)

\* The heap never overlaps itself and loses nothing, whatever is allocated, freed and
\* refused: the pieces fill the pages of the small blocks exactly, no page is both
\* free, somebody else's and the heap's, and every caller has the size it asked for.
NothingOverlaps ==
  /\ UNION {Span(piece) : piece \in Pieces} =
       UNION {p * UNITS..p * UNITS + UNITS - 1 : p \in SlobPages}
  /\ \A x, y \in Pieces : x = y \/ Span(x) \cap Span(y) = {}
  /\ Cardinality(FreePages) + Cardinality(others) + Cardinality(BigPages)
       + Cardinality(SlobPages) = Cardinality(Pages)

Sufficient ==
  /\ \A b \in held \ BigHeld : b.size + 1 <= units[b.at - 1]
  /\ \A b \in BigHeld : \E big \in ToSet(bigblocks) :
       big.pages * UNITS = b.at /\ b.size <= 2 ^ big.order * UNITS

\* The free list is one turn through the memory, and no two free blocks touch.
RingOrdered ==
  LET line == From(ring, SelectInSeq(ring, LAMBDA b : b = arena))
  IN  \A i \in 2..Len(line) : line[i - 1] + units[line[i - 1]] < line[i]

\* kmalloc and kfree over the page allocator: the parts above, and the allocator's own
\* list.
HeapExact == FreeListInv /\ NothingOverlaps /\ Sufficient /\ RingOrdered
=============================================================================
