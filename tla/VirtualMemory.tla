--------------------------- MODULE VirtualMemory ---------------------------
(***************************************************************************)
(* Virtual memory: the vmas of an address space and the page faults        *)
(* (kern/mm/vmm.c), its page tables (kern/mm/pmm.c), and swapping          *)
(* (kern/mm/swap.c, swap_fifo.c).                                          *)
(*                                                                         *)
(* Swapping only happens at boot, in check_swap, for an address space of   *)
(* its own and with a few frames; check_mm_struct is NULL from then on and *)
(* the kernel stops when it runs out of frames, so no step stands for that.*)
(* Addresses are page numbers.  The disk is polled and kernel code is not  *)
(* preempted: every operation is one step.                                 *)
(***************************************************************************)
EXTENDS Integers, FiniteSets, FiniteSetsExt, SequencesExt

CONSTANTS Mm,          \* the places for a struct mm_struct
          check,       \* the one of check_swap
          NPAGE,       \* virtual pages of an address space
          PTPAGES,     \* pages that one page table maps
          Frame,       \* page frames, by number
          CheckFrame,  \* the frames of check_swap: CHECK_VALID_PHY_PAGE_NUM of them
          Value, Fresh,
          Segment,     \* bound: the segments that programs are made of
          NoMm, NoVma, NoFrame

Page == 0..NPAGE - 1
DirOf(v) == v \div PTPAGES
VPT == DirOf(NPAGE - 1) + 1     \* the entry by which a page directory maps itself
Dir == 0..VPT

\* A vma with its flags VM_READ, VM_WRITE, VM_EXEC and VM_STACK.
Vma == [start : Page, end : 1..NPAGE,
        read : BOOLEAN, write : BOOLEAN, exec : BOOLEAN, stack : BOOLEAN]

ASSUME VirtualMemoryAssumption ==
  /\ NPAGE \in Nat \ {0} /\ PTPAGES \in Nat \ {0}
  /\ check \in Mm /\ NoMm \notin Mm
  /\ Frame \subseteq Nat /\ IsFiniteSet(Frame) /\ NoFrame \notin Frame
  /\ CheckFrame \subseteq Frame /\ CheckFrame # {}
  /\ Fresh \notin Value /\ NoVma \notin Vma
  /\ Segment \subseteq {vma \in Vma : vma.start < vma.end}

VARIABLES check_mm_struct,
          mms,         \* the address spaces that exist
          loading,     \* the one that load_icode or copy_mm is setting up, or NoMm;
                      \* nothing else happens meanwhile
          source,      \* the one that copy_mm copies into it, or NoMm
          mmap_list,   \* mm->mmap_list: its vmas
          mmap_cache,  \* mm->mmap_cache
          memory       \* frames and page tables, the record of Memory below

vars == <<check_mm_struct, mms, loading, source, mmap_list, mmap_cache, memory>>

\* A page table entry: 0, a frame with its PTE_W bit, or the swap entry of a slot.
Pte == [kind : {"none"}]
       \cup [kind : {"frame"}, frame : Frame, write : BOOLEAN]
       \cup [kind : {"slot"}, slot : 1..NPAGE]
Empty == [kind |-> "none"]
InFrame(f, w) == [kind |-> "frame", frame |-> f, write |-> w]
InSlot(s) == [kind |-> "slot", slot |-> s]

Memory ==
  [free    : SUBSET Frame,                       \* the free list
   table   : [Mm -> [Dir -> Frame \cup {NoFrame}]], \* the directory: its page tables, itself
   pte     : [Mm -> [Page -> Pte]],
   content : [Frame -> Value \cup {Fresh}],     \* Fresh: that of a free frame, of no account
   queue   : Seq(Frame),                         \* pra_list_head, newest first
   va      : [Frame -> Page],                    \* page->pra_vaddr
   disk    : [1..NPAGE -> Value \cup {Fresh}]]  \* the slots of the swap device

TypeOK ==
  /\ check_mm_struct \in {check, NoMm}
  /\ mms \subseteq Mm /\ {loading, source} \subseteq mms \cup {NoMm}
  /\ mmap_list \in [Mm -> Seq(Vma)]
  /\ mmap_cache \in [Mm -> Vma \cup {NoVma}]
  /\ memory \in Memory

\* Nothing is mapped and the frames fs are free.  The directory of check_swap is
\* boot_pgdir, which is none of them.
Unmapped(fs) ==
  [free |-> fs,
   table |-> [mm \in Mm |-> [d \in Dir |-> NoFrame]],
   pte |-> [mm \in Mm |-> [v \in Page |-> Empty]],
   content |-> [f \in Frame |-> Fresh],
   queue |-> <<>>,
   va |-> [f \in Frame |-> 0],
   disk |-> [s \in 1..NPAGE |-> Fresh]]

\* check_swap has set up its vma and its page table and left only CheckFrame free.
Init ==
  /\ check_mm_struct = check
  /\ mms = {check}
  /\ loading = NoMm /\ source = NoMm
  /\ mmap_list = [mm \in Mm |-> IF mm # check THEN <<>> ELSE
                    <<[start |-> 0, end |-> NPAGE,
                       read |-> TRUE, write |-> TRUE, exec |-> FALSE, stack |-> FALSE]>>]
  /\ mmap_cache = [mm \in Mm |-> NoVma]
  /\ memory = Unmapped(CheckFrame)

-----------------------------------------------------------------------------
(* Frames.  These operators take the record of memory to the next one.      *)

\* Mutant: the newest page goes, and the oldest is unlinked from the queue.
SwapNewest(m) ==
  LET f == Head(m.queue)  v == m.va[f] IN
  [m EXCEPT !.queue = Front(@), !.disk[v + 1] = m.content[f], !.content[f] = Fresh,
            !.pte[check][v] = InSlot(v + 1), !.free = @ \cup {f}]

\* swap_out of one page: the oldest of the queue is written to the slot of its
\* address, its entry becomes the slot, its frame becomes free.
SwapOut(m) ==
  LET f == Last(m.queue)  v == m.va[f] IN
  [m EXCEPT !.queue = Front(@), !.disk[v + 1] = m.content[f], !.content[f] = Fresh,
            !.pte[check][v] = InSlot(v + 1), !.free = @ \cup {f}]

\* alloc_pages(1) takes the lowest free frame; without one it swaps a page out first.
WithFrame(m) == IF m.free = {} THEN SwapOut(m) ELSE m
FirstFree(m) == Min(m.free)

\* get_pte(pgdir, la, 1): the page table of v is there, new and empty if need be.
WithTable(m, mm, v) ==
  IF mm = check \/ m.table[mm][DirOf(v)] # NoFrame THEN m
  ELSE LET r == WithFrame(m)  f == FirstFree(r) IN
       [r EXCEPT !.free = @ \ {f}, !.table[mm][DirOf(v)] = f]

\* A frame with content x, mapped at v: alloc_page, page_insert, and while
\* check_swap runs swap_map_swappable.
MapPage(m, mm, v, w, x) ==
  LET r == WithFrame(WithTable(m, mm, v))  f == FirstFree(r) IN
  [r EXCEPT !.free = @ \ {f}, !.pte[mm][v] = InFrame(f, w), !.content[f] = x,
            !.queue = IF mm = check THEN <<f>> \o @ ELSE @,
            !.va[f] = IF mm = check THEN v ELSE @]

\* setup_pgdir: a frame for the page directory of mm.
SetupPgdir(mm) ==
  LET f == FirstFree(memory) IN
  [memory EXCEPT !.free = @ \ {f}, !.table[mm][VPT] = f]

\* There are frames for the pages vs of mm, for their page tables and the directory.
\* Without them alloc_pages never returns, so setup_pgdir does not fail.
Room(mm, vs) ==
  LET needed == {VPT} \cup {DirOf(v) : v \in vs} IN
  \/ check_mm_struct = check
  \/ Cardinality(vs) + Cardinality({d \in needed : memory.table[mm][d] = NoFrame})
       <= Cardinality(memory.free)

Held(mm, v) == memory.pte[mm][v].kind = "frame"

-----------------------------------------------------------------------------
(* Vmas.                                                                    *)
Covers(vma, v) == vma.start <= v /\ v < vma.end
Pages(vma) == vma.start..vma.end - 1

\* The first vma of the list that contains v.
Searched(list, v) ==
  LET found == {i \in 1..Len(list) : Covers(list[i], v)} IN
  IF found = {} THEN NoVma ELSE list[Min(found)]

\* Mutant: the cached vma is taken without a look at its start.
FindFromCache(mm, v) ==
  IF mmap_cache[mm] # NoVma /\ v < mmap_cache[mm].end THEN mmap_cache[mm]
  ELSE Searched(mmap_list[mm], v)

\* find_vma: the cached vma if it contains v, or else the list is searched.
FindVma(mm, v) ==
  IF mmap_cache[mm] # NoVma /\ Covers(mmap_cache[mm], v) THEN mmap_cache[mm]
  ELSE Searched(mmap_list[mm], v)

\* ... which is cached when there is one.
Cached(mm, v) ==
  mmap_cache' = [mmap_cache EXCEPT ![mm] = IF FindVma(mm, v) = NoVma THEN @ ELSE FindVma(mm, v)]

\* How many vmas insert_vma_struct passes: it stops before the first that starts
\* higher.
Passed(list, vma) ==
  Min({i \in 0..Len(list) : i = Len(list) \/ list[i + 1].start > vma.start})

\* Its assertions and those of check_vma_overlap.
FitsIn(list, vma) ==
  LET k == Passed(list, vma) IN
  /\ vma.start < vma.end
  /\ k > 0 => list[k].end <= vma.start
  /\ k < Len(list) => vma.end <= list[k + 1].start

InsertVma(list, vma) == InsertAt(list, Passed(list, vma) + 1, vma)

\* user_mem_check of the pages s..e - 1, from vma to vma.
UserMemCheck(mm, s, e, write) ==
  LET ok[v \in 0..NPAGE] ==
        v >= e \/ LET vma == FindVma(mm, v) IN
                  /\ vma # NoVma
                  /\ IF write THEN vma.write ELSE vma.read
                  /\ ~(write /\ vma.stack /\ v = vma.start)
                  /\ ok[vma.end]
  IN ok[s]

-----------------------------------------------------------------------------
\* load_icode: mm_create and setup_pgdir.
Create(mm) ==
  /\ check_mm_struct = NoMm /\ loading = NoMm
  /\ mm \in Mm \ (mms \cup {check})
  /\ Room(mm, {})
  /\ mms' = mms \cup {mm} /\ loading' = mm
  /\ memory' = SetupPgdir(mm)
  /\ UNCHANGED <<check_mm_struct, source, mmap_list, mmap_cache>>

Loading(mm) == loading = mm /\ source = NoMm

\* Every page of the segments so far is there; not all of the stack need be.
SegmentsRead(mm) ==
  \A vma \in ToSet(mmap_list[mm]) : vma.stack \/ \A v \in Pages(vma) : Held(mm, v)

\* Mutant: only the list is asked, by insert_vma_struct without its assertions.
MapAnyhow(mm, vma) ==
  /\ Loading(mm)
  /\ mmap_list' = [mmap_list EXCEPT ![mm] = InsertVma(@, vma)]
  /\ UNCHANGED <<check_mm_struct, mms, loading, source, mmap_cache, memory>>

\* mm_map of a segment: refused when a vma contains its start.  When it starts in a
\* hole and runs into the next vma, insert_vma_struct stops the kernel.
MmMap(mm, vma) ==
  /\ Loading(mm) /\ SegmentsRead(mm)
  /\ IF FindVma(mm, vma.start) # NoVma THEN UNCHANGED mmap_list
     ELSE /\ FitsIn(mmap_list[mm], vma)
          /\ mmap_list' = [mmap_list EXCEPT ![mm] = InsertVma(@, vma)]
  /\ Cached(mm, vma.start)
  /\ UNCHANGED <<check_mm_struct, mms, loading, source, memory>>

\* pgdir_alloc_page for a page of the segment, which is then filled.
LoadPage(mm, v, x) ==
  /\ Loading(mm)
  /\ memory.pte[mm][v] = Empty
  /\ Room(mm, {v})
  /\ \E vma \in ToSet(mmap_list[mm]) :
       Covers(vma, v) /\ memory' = MapPage(memory, mm, v, vma.write, x)
  /\ UNCHANGED <<check_mm_struct, mms, loading, source, mmap_list, mmap_cache>>

Loaded(mm) ==
  /\ Loading(mm) /\ SegmentsRead(mm)
  /\ loading' = NoMm
  /\ UNCHANGED <<check_mm_struct, mms, source, mmap_list, mmap_cache, memory>>

\* The page faults of mm: do_pgfault gives a page of a vma that allows the access
\* (VM_READ or VM_EXEC will do to read) a frame, with what the frame held or with what
\* was swapped out.
PageFault(mm, v, write) ==
  LET vma == FindVma(mm, v)  entry == memory.pte[mm][v] IN
  /\ mm \in mms /\ loading = NoMm
  /\ ~Held(mm, v)
  /\ Cached(mm, v)
  /\ IF vma = NoVma \/ (IF write THEN ~vma.write ELSE ~vma.read /\ ~vma.exec)
       THEN UNCHANGED memory
     ELSE /\ Room(mm, {v})
          /\ IF entry = Empty
               THEN \E x \in Value : memory' = MapPage(memory, mm, v, vma.write, x)
               ELSE memory' = MapPage(memory, mm, v, vma.write, memory.disk[entry.slot])
  /\ UNCHANGED <<check_mm_struct, mms, loading, source, mmap_list>>

\* A write the page tables allow.
Write(mm, v, x) ==
  /\ mm \in mms /\ loading = NoMm
  /\ Held(mm, v) /\ memory.pte[mm][v].write
  /\ memory' = [memory EXCEPT !.content[memory.pte[mm][v].frame] = x]
  /\ UNCHANGED <<check_mm_struct, mms, loading, source, mmap_list, mmap_cache>>

\* copy_mm: mm_create and setup_pgdir for the child.  A copy that finds too few frames
\* stops the kernel and is left out, so dup_mmap does not fail.
Fork(mm, child) ==
  LET present == {v \in Page : Held(mm, v) /\ \E vma \in ToSet(mmap_list[mm]) : Covers(vma, v)}
  IN
  /\ check_mm_struct = NoMm /\ loading = NoMm
  /\ mm \in mms /\ child \notin mms
  /\ Room(child, present)
  /\ mms' = mms \cup {child} /\ loading' = child /\ source' = mm
  /\ memory' = SetupPgdir(child)
  /\ UNCHANGED <<check_mm_struct, mmap_list, mmap_cache>>

Copying(child) == loading = child /\ source # NoMm

\* copy_range is through with the vmas that the child has got.
RangesCopied(child) ==
  \A vma \in ToSet(mmap_list[child]) : \A v \in Pages(vma) : Held(source, v) => Held(child, v)

\* dup_mmap takes the vmas of the parent from the last to the first.
CopyVma(child) ==
  LET left == Len(mmap_list[source]) - Len(mmap_list[child])  vma == mmap_list[source][left] IN
  /\ Copying(child) /\ RangesCopied(child)
  /\ left > 0 /\ FitsIn(mmap_list[child], vma)
  /\ mmap_list' = [mmap_list EXCEPT ![child] = InsertVma(@, vma)]
  /\ UNCHANGED <<check_mm_struct, mms, loading, source, mmap_cache, memory>>

\* Mutant: the child gets the frame of its parent.
Share(mm, child, v) == [memory EXCEPT !.pte[child][v] = memory.pte[mm][v]]

\* A frame of the child's own with the rights and the content of the parent's page.
Copy(mm, child, v) ==
  MapPage(memory, child, v, memory.pte[mm][v].write, memory.content[memory.pte[mm][v].frame])

\* copy_range goes up the pages of the vma and copies those that are present.
CopyPage(child, v) ==
  /\ Copying(child)
  /\ Held(source, v) /\ ~Held(child, v)
  /\ \E vma \in ToSet(mmap_list[child]) :
       Covers(vma, v) /\ \A u \in vma.start..v - 1 : Held(source, u) => Held(child, u)
  /\ Room(child, {v})
  /\ memory' = Copy(source, child, v)
  /\ UNCHANGED <<check_mm_struct, mms, loading, source, mmap_list, mmap_cache>>

\* The child of do_fork gets its mm.
Copied(child) ==
  /\ Copying(child) /\ RangesCopied(child)
  /\ Len(mmap_list[child]) = Len(mmap_list[source])
  /\ loading' = NoMm /\ source' = NoMm
  /\ UNCHANGED <<check_mm_struct, mms, mmap_list, mmap_cache, memory>>

\* exit_range: the page tables under the vmas.
TablesUnder(list) == {DirOf(v) : v \in UNION {Pages(vma) : vma \in ToSet(list)}}

\* Mutant: a load that fails before its first segment does not call put_pgdir.
DirectoryKept(list) == IF list = <<>> THEN {} ELSE TablesUnder(list) \cup {VPT}

\* ... and put_pgdir: the directory.
TablesPut(list) == TablesUnder(list) \cup {VPT}

\* exit_mmap, put_pgdir and mm_destroy, of do_exit, do_execve and of a failed load.
Destroy(mm) ==
  LET mapped == UNION {Pages(vma) : vma \in ToSet(mmap_list[mm])}
      frames == {memory.pte[mm][v].frame : v \in {u \in mapped : Held(mm, u)}}
      tables == TablesPut(mmap_list[mm])
  IN
  /\ check_mm_struct = NoMm
  /\ mm \in mms /\ loading \in {NoMm, mm} /\ source = NoMm
  /\ mms' = mms \ {mm} /\ loading' = NoMm
  /\ mmap_list' = [mmap_list EXCEPT ![mm] = <<>>]
  /\ mmap_cache' = [mmap_cache EXCEPT ![mm] = NoVma]
  /\ memory' = [memory EXCEPT
                  !.free = (@ \cup frames \cup {memory.table[mm][d] : d \in tables}) \ {NoFrame},
                  !.content = [f \in Frame |-> IF f \in frames THEN Fresh ELSE @[f]],
                  !.pte[mm] = [v \in Page |-> Empty],
                  !.table[mm] = [d \in Dir |-> NoFrame]]
  /\ UNCHANGED <<check_mm_struct, source>>

\* The end of check_swap, with all its frames in use.  It frees them to a list that
\* it then overwrites with the one it had saved, and loses them so.
EndCheck ==
  /\ check_mm_struct = check /\ memory.free = {}
  /\ check_mm_struct' = NoMm
  /\ mms' = mms \ {check}
  /\ mmap_list' = [mmap_list EXCEPT ![check] = <<>>]
  /\ mmap_cache' = [mmap_cache EXCEPT ![check] = NoVma]
  /\ memory' = Unmapped(Frame \ CheckFrame)
  /\ UNCHANGED <<loading, source>>

Next ==
  \/ EndCheck
  \/ \E mm \in Mm :
       \/ Create(mm) \/ Loaded(mm) \/ Destroy(mm)
       \/ CopyVma(mm) \/ Copied(mm) \/ \E v \in Page : CopyPage(mm, v)
       \/ \E vma \in Segment : MmMap(mm, vma)
       \/ \E v \in Page, x \in Value : LoadPage(mm, v, x) \/ Write(mm, v, x)
       \/ \E v \in Page, write \in BOOLEAN : PageFault(mm, v, write)
       \/ \E child \in Mm \ {check} : Fork(mm, child)

Spec == Init /\ [][Next]_vars

-----------------------------------------------------------------------------
MappedAt(f) == {at \in Mm \X Page : /\ Held(at[1], at[2])
                                    /\ memory.pte[at[1]][at[2]].frame = f}
TableOf(f) == {at \in Mm \X Dir : memory.table[at[1]][at[2]] = f}
Pool == IF check_mm_struct = check THEN CheckFrame ELSE Frame \ CheckFrame

\* Every frame is free, or mapped once, or one page table or page directory, and only
\* one of these: no two pages share one, none is freed while in use, and exec, exit and
\* failed loads leak none.  An address space has a directory exactly while it exists.
FramesExact ==
  /\ TypeOK
  /\ \A mm \in Mm : memory.table[mm][VPT] # NoFrame <=> mm \in mms \ {check}
  /\ \A f \in Pool :
       Cardinality(MappedAt(f)) + Cardinality(TableOf(f)) + (IF f \in memory.free THEN 1 ELSE 0) = 1

\* The vmas of an address space are in order and do not overlap; a page is only
\* mapped, or swapped out, inside one, with the rights of that vma, so that every
\* fault do_pgfault lets pass is for a page that is not there; the cache is one.
VmasExact ==
  \A mm \in Mm :
    LET list == mmap_list[mm] IN
    /\ \A i \in 1..Len(list) : list[i].start < list[i].end
    /\ \A i \in 1..Len(list) - 1 : list[i].end <= list[i + 1].start
    /\ \A v \in Page : memory.pte[mm][v] # Empty =>
         \E vma \in ToSet(list) :
           Covers(vma, v) /\ (Held(mm, v) => memory.pte[mm][v].write = vma.write)
    /\ mmap_cache[mm] \in ToSet(list) \cup {NoVma}

\* While check_swap runs the queue has the mapped frames, each once and with its
\* address, and what is swapped out is in the slot of its address.  Afterwards no
\* page is swapped out: copy_range, which skips such a page, and page_remove_pte,
\* which takes its entry for a frame, never meet one.
SwapExact ==
  LET mapped == {v \in Page : Held(check, v)} IN
  /\ IsInjective(memory.queue)
  /\ check_mm_struct = check =>
       /\ ToSet(memory.queue) = {memory.pte[check][v].frame : v \in mapped}
       /\ \A v \in mapped : memory.va[memory.pte[check][v].frame] = v
  /\ \A mm \in Mm, v \in Page : memory.pte[mm][v].kind = "slot" =>
       /\ mm = check /\ check_mm_struct = check
       /\ memory.pte[mm][v].slot = v + 1

\* user_mem_check accepts a range exactly if every page of it is in a vma with the
\* right asked for, VM_READ or VM_WRITE, whatever vma is cached, and not the lowest
\* page of a stack that would be written.
UserMemCheckExact ==
  \A mm \in mms, s, e \in 0..NPAGE, write \in BOOLEAN : s <= e =>
    (UserMemCheck(mm, s, e, write) <=>
       \A v \in s..e - 1 : \E vma \in ToSet(mmap_list[mm]) :
          /\ Covers(vma, v)
          /\ write => vma.write /\ ~(vma.stack /\ v = vma.start)
          /\ ~write => vma.read)

\* A page's protection, and its value in its frame or in its slot.  A child is not
\* there before its copy is complete.
Rights(mm) ==
  [v \in Page |-> IF Copying(mm) THEN "none"
                  ELSE IF \E vma \in ToSet(mmap_list[mm]) : Covers(vma, v) /\ vma.write THEN "rw"
                  ELSE IF \E vma \in ToSet(mmap_list[mm]) : Covers(vma, v) THEN "r"
                  ELSE "none"]
Contents(mm) ==
  [v \in Page |-> LET entry == memory.pte[mm][v] IN
                  IF Copying(mm) \/ entry.kind = "none" THEN Fresh
                  ELSE IF entry.kind = "frame" THEN memory.content[entry.frame]
                  ELSE memory.disk[entry.slot]]

Abstract == INSTANCE PrivateMemory WITH prot <- [mm \in Mm |-> Rights(mm)],
                                        data <- [mm \in Mm |-> Contents(mm)]

\* Page tables, frames and swapping implement private memory: nothing but a write of
\* its own changes a page, whatever is swapped, forked, loaded or freed around it.
ImplementsPrivateMemory == Abstract!Spec
=============================================================================
