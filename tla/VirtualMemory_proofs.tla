------------------------ MODULE VirtualMemory_proofs ------------------------
(* Proofs that virtual memory neither shares nor leaks a frame and implements private
   memory, for every set of address spaces, frames, pages and segments. *)
EXTENDS VirtualMemory, QueueLemmas

-----------------------------------------------------------------------------
(* Numbers and frames. *)

LEMMA Constants ==
  /\ NPAGE \in Nat \ {0} /\ PTPAGES \in Nat \ {0}
  /\ check \in Mm /\ NoMm \notin Mm /\ check # NoMm
  /\ Frame \subseteq Nat /\ IsFiniteSet(Frame) /\ NoFrame \notin Frame
  /\ CheckFrame \subseteq Frame /\ CheckFrame # {}
  /\ Fresh \notin Value /\ NoVma \notin Vma
  /\ \A vma \in Segment : vma \in Vma /\ vma.start < vma.end
  BY VirtualMemoryAssumption

LEMMA FirstFreeIsFree ==
  ASSUME NEW m \in Memory, m.free # {}
  PROVE  FirstFree(m) \in m.free /\ FirstFree(m) \in Frame
<1>. PICK S : S = m.free
  OBVIOUS
<1>1. S \in SUBSET Nat /\ S \subseteq Frame
  BY Constants DEF Memory
<1>. QED  BY <1>1, MinFacts DEF FirstFree

\* Every page has its place in the page directory, none that of the directory itself.
LEMMA DirOfPage ==
  ASSUME NEW v \in Page
  PROVE  DirOf(v) \in Dir /\ DirOf(v) # VPT /\ VPT \in Dir
<1>. DEFINE P == PTPAGES  a == v \div P  n == NPAGE - 1  b == n \div P
<1>0. P \in Nat /\ P > 0 /\ n \in Nat /\ v \in Nat /\ v <= n
  BY Constants DEF Page
<1>. HIDE DEF P, n
<1>1. /\ a \in Int /\ P * a <= v /\ v < P * a + P
      /\ b \in Int /\ P * b <= n /\ n < P * b + P
  BY <1>0
<1>. HIDE DEF a, b
<1>2. a >= 0
  <2>. SUFFICES ASSUME a <= -1  PROVE FALSE
    BY <1>1
  <2>1. P * a <= -P
    BY <1>0, <1>1
  <2>. QED  BY <1>0, <1>1, <2>1
<1>3. a <= b
  <2>. SUFFICES ASSUME b + 1 <= a  PROVE FALSE
    BY <1>1
  <2>1. P * (b + 1) <= P * a
    BY <1>0, <1>1
  <2>2. P * (b + 1) = P * b + P
    BY <1>0, <1>1
  <2>. QED  BY <1>0, <1>1, <2>1, <2>2
<1>4. a \in 0..b + 1 /\ a # b + 1 /\ b + 1 \in 0..b + 1
  BY <1>1, <1>2, <1>3
<1>. QED  BY <1>4 DEF a, b, n, P, DirOf, Dir, VPT

LEMMA DirectoryEntry == VPT \in Dir
<1>1. 0 \in Page
  BY Constants DEF Page
<1>. QED  BY <1>1, DirOfPage

\* What a frame is used for.
Mapped(m, mm, v, f) == m.pte[mm][v].kind = "frame" /\ m.pte[mm][v].frame = f
Tabled(m, mm, d, f) == m.table[mm][d] = f

\* No frame has two uses.
OneUse(m) ==
  \A f \in Frame, mm \in Mm, other \in Mm :
    /\ \A v \in Page, u \in Page :
         Mapped(m, mm, v, f) /\ Mapped(m, other, u, f) => mm = other /\ v = u
    /\ \A d \in Dir, e \in Dir :
         Tabled(m, mm, d, f) /\ Tabled(m, other, e, f) => mm = other /\ d = e
    /\ \A v \in Page, d \in Dir : ~(Mapped(m, mm, v, f) /\ Tabled(m, other, d, f))
    /\ f \in m.free => /\ \A v \in Page : ~Mapped(m, mm, v, f)
                       /\ \A d \in Dir : ~Tabled(m, mm, d, f)

\* No frame of the pool is lost.
NoneLost(m, pool) ==
  \A f \in pool : \/ f \in m.free
                  \/ \E mm \in Mm, v \in Page : Mapped(m, mm, v, f)
                  \/ \E mm \in Mm, d \in Dir : Tabled(m, mm, d, f)

\* From m to r the free frame f becomes the page table d of mm, ...
TakesTable(m, r, mm, d, f) ==
  /\ f \in m.free /\ r.free = m.free \ {f}
  /\ \A other \in Mm, e \in Dir :
       r.table[other][e] = IF other = mm /\ e = d THEN f ELSE m.table[other][e]
  /\ r.pte = m.pte /\ r.content = m.content
  /\ r.queue = m.queue /\ r.va = m.va /\ r.disk = m.disk

\* ... or the page v of mm, ...
TakesPage(m, r, mm, v, w, x, f) ==
  /\ f \in m.free /\ r.free = m.free \ {f}
  /\ \A other \in Mm, u \in Page :
       r.pte[other][u] = IF other = mm /\ u = v THEN InFrame(f, w) ELSE m.pte[other][u]
  /\ \A g \in Frame : r.content[g] = IF g = f THEN x ELSE m.content[g]
  /\ r.table = m.table /\ r.disk = m.disk

\* ... or a page v of check gives its frame f back.
GivesPage(m, r, v, f) ==
  /\ Mapped(m, check, v, f) /\ r.free = m.free \cup {f}
  /\ \A other \in Mm, u \in Page :
       r.pte[other][u] = IF other = check /\ u = v THEN InSlot(v + 1) ELSE m.pte[other][u]
  /\ \A g \in Frame : r.content[g] = IF g = f THEN Fresh ELSE m.content[g]
  /\ \A s \in 1..NPAGE : r.disk[s] = IF s = v + 1 THEN m.content[f] ELSE m.disk[s]
  /\ r.table = m.table

LEMMA PteFacts ==
  ASSUME NEW m \in Memory, NEW mm \in Mm, NEW v \in Page
  PROVE  /\ m.pte[mm][v] \in Pte
         /\ m.pte[mm][v].kind \in {"none", "frame", "slot"}
         /\ m.pte[mm][v].kind = "none" <=> m.pte[mm][v] = Empty
         /\ m.pte[mm][v].kind = "frame" => m.pte[mm][v].frame \in Frame
                                           /\ m.pte[mm][v].write \in BOOLEAN
         /\ m.pte[mm][v].kind = "slot" => m.pte[mm][v].slot \in 1..NPAGE
<1>1. m.pte[mm][v] \in Pte
  BY DEF Memory
<1>. QED  BY <1>1 DEF Pte, Empty

LEMMA NewPtes ==
  /\ Empty \in Pte /\ Empty.kind = "none"
  /\ \A f \in Frame, w \in BOOLEAN : InFrame(f, w) \in Pte
  /\ \A f, w : InFrame(f, w).kind = "frame" /\ InFrame(f, w).frame = f
               /\ InFrame(f, w).write = w
  /\ \A s \in 1..NPAGE : InSlot(s) \in Pte
  /\ \A s : InSlot(s).kind = "slot" /\ InSlot(s).slot = s
  BY DEF Pte, Empty, InFrame, InSlot

LEMMA MemoryFields ==
  ASSUME NEW m \in Memory
  PROVE  /\ m.free \subseteq Frame
         /\ m.table \in [Mm -> [Dir -> Frame \cup {NoFrame}]]
         /\ m.pte \in [Mm -> [Page -> Pte]]
         /\ m.content \in [Frame -> Value \cup {Fresh}]
         /\ m.queue \in Seq(Frame)
         /\ m.va \in [Frame -> Page]
         /\ m.disk \in [1..NPAGE -> Value \cup {Fresh}]
  BY DEF Memory

-----------------------------------------------------------------------------
(* One frame changes hands. *)

LEMMA TableTaken ==
  ASSUME NEW m \in Memory, NEW r \in Memory, NEW mm \in Mm, NEW d \in Dir, NEW f \in Frame,
         NEW pool \in SUBSET Frame,
         OneUse(m), NoneLost(m, pool), TakesTable(m, r, mm, d, f), m.table[mm][d] = NoFrame
  PROVE  OneUse(r) /\ NoneLost(r, pool)
<1>1. /\ f \in m.free /\ r.free = m.free \ {f} /\ r.pte = m.pte
      /\ \A other \in Mm, e \in Dir :
           r.table[other][e] = IF other = mm /\ e = d THEN f ELSE m.table[other][e]
  BY DEF TakesTable
<1>2. \A other \in Mm, u \in Page : \A g : Mapped(r, other, u, g) <=> Mapped(m, other, u, g)
  BY <1>1 DEF Mapped
<1>3. \A other \in Mm, e \in Dir : \A g :
        Tabled(r, other, e, g) <=> IF other = mm /\ e = d THEN g = f ELSE Tabled(m, other, e, g)
  BY <1>1 DEF Tabled
<1>4. \A g \in Frame : ~Tabled(m, mm, d, g)
  BY Constants DEF Tabled
<1>5. OneUse(r)
  BY <1>1, <1>2, <1>3, <1>4 DEF OneUse
<1>6. NoneLost(r, pool)
  BY <1>1, <1>2, <1>3, <1>4 DEF NoneLost
<1>. QED  BY <1>5, <1>6

LEMMA PageTaken ==
  ASSUME NEW m \in Memory, NEW r \in Memory, NEW mm \in Mm, NEW v \in Page, NEW f \in Frame,
         NEW w, NEW x, NEW pool \in SUBSET Frame,
         OneUse(m), NoneLost(m, pool), TakesPage(m, r, mm, v, w, x, f),
         m.pte[mm][v].kind # "frame"
  PROVE  OneUse(r) /\ NoneLost(r, pool)
<1>1. /\ f \in m.free /\ r.free = m.free \ {f} /\ r.table = m.table
      /\ \A other \in Mm, u \in Page :
           r.pte[other][u] = IF other = mm /\ u = v THEN InFrame(f, w) ELSE m.pte[other][u]
  BY DEF TakesPage
<1>2. \A other \in Mm, u \in Page : \A g :
        Mapped(r, other, u, g) <=> IF other = mm /\ u = v THEN g = f ELSE Mapped(m, other, u, g)
  BY <1>1, NewPtes DEF Mapped
<1>3. \A other \in Mm, e \in Dir : \A g : Tabled(r, other, e, g) <=> Tabled(m, other, e, g)
  BY <1>1 DEF Tabled
<1>4. \A g : ~Mapped(m, mm, v, g)
  BY DEF Mapped
<1>5. OneUse(r)
  BY <1>1, <1>2, <1>3, <1>4 DEF OneUse
<1>6. NoneLost(r, pool)
  BY <1>1, <1>2, <1>3, <1>4 DEF NoneLost
<1>. QED  BY <1>5, <1>6

LEMMA PageGiven ==
  ASSUME NEW m \in Memory, NEW r \in Memory, NEW v \in Page, NEW f \in Frame,
         NEW pool \in SUBSET Frame,
         OneUse(m), NoneLost(m, pool), GivesPage(m, r, v, f)
  PROVE  OneUse(r) /\ NoneLost(r, pool)
<1>1. /\ Mapped(m, check, v, f) /\ r.free = m.free \cup {f} /\ r.table = m.table
      /\ \A other \in Mm, u \in Page :
           r.pte[other][u] = IF other = check /\ u = v THEN InSlot(v + 1) ELSE m.pte[other][u]
  BY DEF GivesPage
<1>2. \A other \in Mm, u \in Page : \A g :
        Mapped(r, other, u, g) <=> ~(other = check /\ u = v) /\ Mapped(m, other, u, g)
  BY <1>1, NewPtes DEF Mapped
<1>3. \A other \in Mm, e \in Dir : \A g : Tabled(r, other, e, g) <=> Tabled(m, other, e, g)
  BY <1>1 DEF Tabled
<1>4. \A g : Mapped(m, check, v, g) => g = f
  BY <1>1 DEF Mapped
<1>5. check \in Mm
  BY Constants
<1>6. OneUse(r)
  BY <1>1, <1>2, <1>3, <1>4, <1>5 DEF OneUse
<1>7. NoneLost(r, pool)
  BY <1>1, <1>2, <1>3, <1>4, <1>5 DEF NoneLost
<1>. QED  BY <1>6, <1>7

LEMMA FrontFacts ==
  ASSUME NEW S0, NEW q \in Seq(S0), q # <<>>
  PROVE  /\ Last(q) \in S0 /\ Last(q) \in ToSet(q)
         /\ Front(q) \in Seq(S0)
         /\ IsInjective(q) => /\ ToSet(Front(q)) = ToSet(q) \ {Last(q)}
                              /\ IsInjective(Front(q))
<1>. DEFINE n == Len(q)
<1>1. n \in Nat \ {0} /\ DOMAIN q = 1..n /\ \A i \in 1..n : q[i] \in S0
  OBVIOUS
<1>2. Front(q) \in Seq(S0) /\ Len(Front(q)) = n - 1 /\ DOMAIN Front(q) = 1..n - 1
      /\ \A i \in 1..n - 1 : Front(q)[i] = q[i]
  BY <1>1 DEF Front
<1>3. Last(q) = q[n]
  BY DEF Last
<1>. HIDE DEF n
<1>4. Last(q) \in S0 /\ Last(q) \in ToSet(q)
  BY <1>1, <1>3 DEF ToSet
<1>5. ASSUME IsInjective(q)
      PROVE  ToSet(Front(q)) = ToSet(q) \ {Last(q)} /\ IsInjective(Front(q))
  <2>1. \A i, j \in 1..n : q[i] = q[j] => i = j
    BY <1>1, <1>5 DEF IsInjective
  <2>2. IsInjective(Front(q))
    BY <1>1, <1>2, <2>1 DEF IsInjective
  <2>3. ASSUME NEW y \in ToSet(Front(q))  PROVE y \in ToSet(q) \ {Last(q)}
    <3>1. PICK i \in 1..n - 1 : y = q[i]
      BY <1>2, <2>3 DEF ToSet
    <3>2. i \in 1..n /\ n \in 1..n /\ i # n
      BY <1>1
    <3>. QED  BY <1>1, <1>3, <2>1, <3>1, <3>2 DEF ToSet
  <2>4. ASSUME NEW y \in ToSet(q) \ {Last(q)}  PROVE y \in ToSet(Front(q))
    <3>1. PICK i \in 1..n : y = q[i]
      BY <1>1, <2>4 DEF ToSet
    <3>2. i \in 1..n - 1
      BY <1>1, <1>3, <2>4, <3>1
    <3>. QED  BY <1>2, <3>1, <3>2 DEF ToSet
  <2>. QED  BY <2>2, <2>3, <2>4
<1>. QED  BY <1>2, <1>4, <1>5

-----------------------------------------------------------------------------
(* A page is mapped. *)

\* From m to r a free frame f with content x is mapped at the page v of mm, perhaps
\* under a new page table.
MapsPage(m, r, mm, v, w, x, f) ==
  /\ f \in m.free
  /\ \A other \in Mm, u \in Page :
       r.pte[other][u] = IF other = mm /\ u = v THEN InFrame(f, w) ELSE m.pte[other][u]
  /\ \A g \in Frame : r.content[g] = IF g = f THEN x ELSE m.content[g]
  /\ \A other \in Mm, d \in Dir :
       r.table[other][d] = m.table[other][d] \/ (other = mm /\ d = DirOf(v))
  /\ r.queue = m.queue /\ r.va = m.va /\ r.disk = m.disk

\* Room for one page is a frame for it, and another if its page table is missing.
LEMMA RoomFacts ==
  ASSUME TypeOK, NEW mm \in Mm, NEW v \in Page, check_mm_struct = NoMm, Room(mm, {v})
  PROVE  /\ memory.free # {}
         /\ memory.table[mm][DirOf(v)] = NoFrame => \A f : memory.free \ {f} # {}
<1>. DEFINE needed == {VPT} \cup {DirOf(u) : u \in {v}}
            D == {d \in needed : memory.table[mm][d] = NoFrame}
<1>. PICK F : F = memory.free
  OBVIOUS
<1>1. F \subseteq Frame /\ IsFiniteSet(F)
  BY Constants, FS_Subset DEF TypeOK, Memory
<1>2. Cardinality({v}) = 1 /\ Cardinality({}) = 0
  BY FS_Singleton, FS_EmptySet
<1>3. IsFiniteSet(D)
  <2>1. IsFiniteSet({VPT}) /\ IsFiniteSet({DirOf(v)})
    BY FS_Singleton
  <2>2. IsFiniteSet({VPT} \cup {DirOf(v)})
    BY <2>1, FS_Union
  <2>3. D \subseteq {VPT} \cup {DirOf(v)}
    OBVIOUS
  <2>. QED  BY <2>2, <2>3, FS_Subset
<1>4. Cardinality(D) \in Nat
  BY <1>3, FS_CardinalityType
<1>5. Cardinality({v}) + Cardinality(D) <= Cardinality(F)
  BY Constants DEF Room
<1>6. Cardinality(F) \in Nat /\ (F = {} <=> Cardinality(F) = 0)
  BY <1>1, FS_CardinalityType, FS_EmptySet
<1>7. F # {}
  BY <1>2, <1>4, <1>5, <1>6
<1>8. ASSUME memory.table[mm][DirOf(v)] = NoFrame, NEW f, F \ {f} = {}  PROVE FALSE
  <2>1. D # {}
    BY <1>8
  <2>. HIDE DEF D
  <2>2. Cardinality(D) # 0
    BY <1>3, <2>1, FS_EmptySet
  <2>3. F = {f}
    BY <1>7, <1>8
  <2>4. Cardinality(F) = 1
    BY <2>3, FS_Singleton
  <2>. QED  BY <1>2, <1>4, <1>5, <2>2, <2>4
<1>. QED  BY <1>7, <1>8

\* Room for a program is also a frame for its page directory, when there is none yet.
LEMMA RoomForDirectory ==
  ASSUME TypeOK, NEW mm \in Mm, NEW vs \in SUBSET Page, check_mm_struct = NoMm, Room(mm, vs),
         memory.table[mm][VPT] = NoFrame
  PROVE  memory.free # {}
<1>. DEFINE needed == {VPT} \cup {DirOf(v) : v \in vs}
            D == {d \in needed : memory.table[mm][d] = NoFrame}
<1>1. NPAGE \in Int
  BY Constants
<1>2. IsFiniteSet(Page) /\ IsFiniteSet(Dir)
  <2>1. IsFiniteSet(0..NPAGE - 1)
    BY <1>1, FS_Interval
  <2>2. VPT \in Int
    BY DirectoryEntry DEF Dir
  <2>3. IsFiniteSet(0..VPT)
    BY <2>2, FS_Interval
  <2>. QED  BY <2>1, <2>3 DEF Page, Dir
<1>3. IsFiniteSet(vs)
  BY <1>2, FS_Subset
<1>4. IsFiniteSet(D)
  <2>1. D \subseteq Dir
    BY DirOfPage, DirectoryEntry
  <2>. QED  BY <1>2, <2>1, FS_Subset
<1>5. D # {}
  OBVIOUS
<1>6. Cardinality(vs) + Cardinality(D) <= Cardinality(memory.free)
  BY Constants DEF Room
<1>. HIDE DEF D
<1>7. Cardinality(vs) \in Nat /\ Cardinality(D) \in Nat
  BY <1>3, <1>4, FS_CardinalityType
<1>8. Cardinality(D) # 0
  BY <1>4, <1>5, FS_EmptySet
<1>9. Cardinality(memory.free) # 0
  <2>. PICK k : k = Cardinality(memory.free)
    OBVIOUS
  <2>. QED  BY <1>6, <1>7, <1>8
<1>. QED  BY <1>9, FS_EmptySet

\* setup_pgdir takes a free frame for the directory of mm and touches nothing else.
LEMMA DirectorySet ==
  ASSUME TypeOK, check_mm_struct = NoMm, NEW mm \in Mm, NEW vs \in SUBSET Page, Room(mm, vs),
         memory.table[mm][VPT] = NoFrame, NEW pool \in SUBSET Frame,
         OneUse(memory), NoneLost(memory, pool), memory' = SetupPgdir(mm)
  PROVE  /\ memory' \in Memory /\ OneUse(memory') /\ NoneLost(memory', pool)
         /\ \E f \in Frame : TakesTable(memory, memory', mm, VPT, f)
<1>. PICK m : m = memory
  OBVIOUS
<1>. PICK r : r = memory'
  OBVIOUS
<1>. PICK f : f = FirstFree(m)
  OBVIOUS
<1>1. m \in Memory /\ VPT \in Dir /\ m.free # {} /\ m.table[mm][VPT] = NoFrame
      /\ OneUse(m) /\ NoneLost(m, pool)
  BY DirectoryEntry, RoomForDirectory DEF TypeOK
<1>2. f \in m.free /\ f \in Frame
  BY <1>1, FirstFreeIsFree
<1>3. r = [m EXCEPT !.free = @ \ {f}, !.table[mm][VPT] = f]
  BY DEF SetupPgdir
<1>4. r \in Memory
  <2>1. [m.table EXCEPT ![mm][VPT] = f] \in [Mm -> [Dir -> Frame \cup {NoFrame}]]
    BY <1>1, <1>2, MemoryFields
  <2>2. m.free \ {f} \in SUBSET Frame
    BY <1>1, MemoryFields
  <2>. QED  BY <1>1, <1>3, <2>1, <2>2 DEF Memory
<1>5. TakesTable(m, r, mm, VPT, f)
  BY <1>1, <1>2, <1>3 DEF TakesTable, Memory
<1>6. OneUse(r) /\ NoneLost(r, pool)
  BY <1>1, <1>2, <1>4, <1>5, TableTaken
<1>. QED  BY <1>2, <1>4, <1>5, <1>6

\* Once check_swap is over nothing is swapped to make room.
LEMMA PageMapped ==
  ASSUME TypeOK, check_mm_struct = NoMm,
         NEW mm \in Mm \ {check}, NEW v \in Page, NEW w \in BOOLEAN,
         NEW x \in Value \cup {Fresh}, NEW pool \in SUBSET Frame,
         Room(mm, {v}), memory.pte[mm][v].kind # "frame",
         OneUse(memory), NoneLost(memory, pool), memory' = MapPage(memory, mm, v, w, x)
  PROVE  /\ memory' \in Memory /\ OneUse(memory') /\ NoneLost(memory', pool)
         /\ \E f \in Frame : MapsPage(memory, memory', mm, v, w, x, f)
<1>. DEFINE d == DirOf(v)
            m1 == WithTable(memory, mm, v)
            f == FirstFree(m1)
<1>. PICK m : m = memory
  OBVIOUS
<1>1. m \in Memory /\ d \in Dir
  BY DirOfPage DEF TypeOK
<1>2. m.free # {} /\ (m.table[mm][d] = NoFrame => \A g : m.free \ {g} # {})
  BY RoomFacts
<1>. HIDE DEF d
<1>3. /\ m1 \in Memory /\ m1.free # {} /\ m1.free \subseteq m.free
      /\ OneUse(m1) /\ NoneLost(m1, pool) /\ m1.pte = m.pte /\ m1.content = m.content
      /\ m1.queue = m.queue /\ m1.va = m.va /\ m1.disk = m.disk
      /\ \A other \in Mm, e \in Dir :
           m1.table[other][e] = m.table[other][e] \/ (other = mm /\ e = d)
  <2>1. CASE m.table[mm][d] # NoFrame
    BY <1>1, <1>2, <2>1 DEF WithTable, d
  <2>2. CASE m.table[mm][d] = NoFrame
    <3>. PICK g : g = FirstFree(m)
      OBVIOUS
    <3>1. g \in m.free /\ g \in Frame
      BY <1>1, <1>2, FirstFreeIsFree
    <3>2. m1 = [m EXCEPT !.free = @ \ {g}, !.table[mm][d] = g]
      BY <1>2, <2>2 DEF WithTable, WithFrame, d
    <3>3. m1 \in Memory
      <4>1. [m.table EXCEPT ![mm][d] = g] \in [Mm -> [Dir -> Frame \cup {NoFrame}]]
        BY <1>1, <3>1, MemoryFields
      <4>2. m.free \ {g} \in SUBSET Frame
        BY <1>1, MemoryFields
      <4>. QED  BY <1>1, <3>2, <4>1, <4>2 DEF Memory
    <3>4. TakesTable(m, m1, mm, d, g)
      BY <1>1, <3>1, <3>2 DEF TakesTable, Memory
    <3>5. OneUse(m1) /\ NoneLost(m1, pool)
      BY <1>1, <2>2, <3>1, <3>3, <3>4, TableTaken
    <3>. QED  BY <1>2, <2>2, <3>1, <3>3, <3>4, <3>5 DEF TakesTable
  <2>. QED  BY <2>1, <2>2
<1>4. f \in m1.free /\ f \in Frame
  BY <1>3, FirstFreeIsFree
<1>5. memory' = [m1 EXCEPT !.free = @ \ {f}, !.pte[mm][v] = InFrame(f, w), !.content[f] = x,
                           !.queue = @, !.va[f] = @]
  BY <1>3 DEF MapPage, WithFrame
<1>. HIDE DEF m1, f
<1>6. memory' \in Memory
  <2>1. [m1.pte EXCEPT ![mm][v] = InFrame(f, w)] \in [Mm -> [Page -> Pte]]
    BY <1>3, <1>4, MemoryFields, NewPtes
  <2>2. [m1.content EXCEPT ![f] = x] \in [Frame -> Value \cup {Fresh}]
    BY <1>3, <1>4, MemoryFields
  <2>3. m1.free \ {f} \in SUBSET Frame
    BY <1>3, MemoryFields
  <2>4. [m1.va EXCEPT ![f] = @] \in [Frame -> Page]
    BY <1>3, <1>4, MemoryFields
  <2>5. /\ memory'.free = m1.free \ {f} /\ memory'.pte = [m1.pte EXCEPT ![mm][v] = InFrame(f, w)]
        /\ memory'.content = [m1.content EXCEPT ![f] = x] /\ memory'.va = [m1.va EXCEPT ![f] = @]
        /\ memory'.table = m1.table /\ memory'.queue = m1.queue /\ memory'.disk = m1.disk
    BY <1>3, <1>5 DEF Memory
  <2>6. memory' = [free |-> memory'.free, table |-> memory'.table, pte |-> memory'.pte,
                   content |-> memory'.content, queue |-> memory'.queue, va |-> memory'.va,
                   disk |-> memory'.disk]
    BY <1>3, <1>5 DEF Memory
  <2>7. /\ memory'.free \in SUBSET Frame /\ memory'.pte \in [Mm -> [Page -> Pte]]
        /\ memory'.content \in [Frame -> Value \cup {Fresh}] /\ memory'.va \in [Frame -> Page]
    BY <2>1, <2>2, <2>3, <2>4, <2>5
  <2>8. /\ memory'.table \in [Mm -> [Dir -> Frame \cup {NoFrame}]]
        /\ memory'.queue \in Seq(Frame) /\ memory'.disk \in [1..NPAGE -> Value \cup {Fresh}]
    BY <1>3, <2>5, MemoryFields
  <2>. PICK r : r = memory'
    OBVIOUS
  <2>9. r \in Memory
    BY <2>6, <2>7, <2>8 DEF Memory
  <2>. QED  BY <2>9
<1>7. TakesPage(m1, memory', mm, v, w, x, f)
  BY <1>3, <1>4, <1>5 DEF TakesPage, Memory
<1>8. memory'.queue = m1.queue /\ memory'.va = m1.va
  BY <1>3, <1>5 DEF Memory
<1>9. OneUse(memory') /\ NoneLost(memory', pool)
  BY <1>3, <1>4, <1>6, <1>7, PageTaken
<1>10. MapsPage(m, memory', mm, v, w, x, f)
  <2>1. f \in m.free /\ memory'.table = m1.table /\ memory'.disk = m1.disk
    BY <1>3, <1>4, <1>7 DEF TakesPage
  <2>2. \A other \in Mm, u \in Page :
       memory'.pte[other][u] = IF other = mm /\ u = v THEN InFrame(f, w) ELSE m.pte[other][u]
    BY <1>3, <1>7 DEF TakesPage
  <2>3. \A g \in Frame : memory'.content[g] = IF g = f THEN x ELSE m.content[g]
    BY <1>3, <1>7 DEF TakesPage
  <2>. QED  BY <1>3, <1>8, <2>1, <2>2, <2>3 DEF MapsPage, d
<1>. QED  BY <1>4, <1>6, <1>9, <1>10

\* What is in the page v of mm, in a frame or in a slot.
Stored(m, mm, v) ==
  IF m.pte[mm][v].kind = "frame" THEN m.content[m.pte[mm][v].frame]
  ELSE IF m.pte[mm][v].kind = "slot" THEN m.disk[m.pte[mm][v].slot]
  ELSE Fresh

\* From m to r the page v of mm comes to hold x, and no other page changes but that
\* check may lose a frame to its slot.
Maps(m, r, mm, v, w, x) ==
  /\ r.pte[mm][v].kind = "frame" /\ r.pte[mm][v].write = w /\ Stored(r, mm, v) = x
  /\ \A other \in Mm, u \in Page : ~(other = mm /\ u = v) =>
       /\ Stored(r, other, u) = Stored(m, other, u)
       /\ r.pte[other][u] = Empty <=> m.pte[other][u] = Empty
       /\ r.pte[other][u].kind = "frame" \/ other # check => r.pte[other][u] = m.pte[other][u]
  /\ \A other \in Mm, d \in Dir :
       r.table[other][d] = m.table[other][d] \/ (other = mm /\ d = DirOf(v))

LEMMA MappedAlone ==
  ASSUME NEW m \in Memory, NEW r \in Memory, OneUse(m), NEW mm \in Mm, NEW v \in Page,
         NEW w, NEW x, NEW f \in Frame, MapsPage(m, r, mm, v, w, x, f)
  PROVE  Maps(m, r, mm, v, w, x)
<1>1. f \in m.free /\ r.disk = m.disk
  BY DEF MapsPage
<1>2. \A other \in Mm, u \in Page :
       r.pte[other][u] = IF other = mm /\ u = v THEN InFrame(f, w) ELSE m.pte[other][u]
  BY DEF MapsPage
<1>3. \A g \in Frame : r.content[g] = IF g = f THEN x ELSE m.content[g]
  BY DEF MapsPage
<1>4. \A other \in Mm, u \in Page : m.pte[other][u].kind = "frame" =>
         m.pte[other][u].frame # f /\ m.pte[other][u].frame \in Frame
  BY <1>1, PteFacts DEF OneUse, Mapped
<1>5. Stored(r, mm, v) = x /\ r.pte[mm][v].kind = "frame" /\ r.pte[mm][v].write = w
  BY <1>2, <1>3, NewPtes DEF Stored
<1>6. ASSUME NEW other \in Mm, NEW u \in Page, ~(other = mm /\ u = v)
      PROVE  r.pte[other][u] = m.pte[other][u] /\ Stored(r, other, u) = Stored(m, other, u)
  <2>1. r.pte[other][u] = m.pte[other][u]
    BY <1>2, <1>6
  <2>. QED  BY <1>1, <1>3, <1>4, <2>1 DEF Stored
<1>. QED  BY <1>5, <1>6 DEF Maps, MapsPage

-----------------------------------------------------------------------------
(* The queue of check_swap. *)

\* The queue has the mapped frames with their addresses, a page that is swapped out is
\* in its slot, and nothing but check has pages or swaps them.
QueueOK(m) ==
  /\ IsInjective(m.queue)
  /\ \A f \in Frame : f \in ToSet(m.queue) <=> \E v \in Page : Mapped(m, check, v, f)
  /\ \A v \in Page, f \in Frame : Mapped(m, check, v, f) => m.va[f] = v
  /\ \A v \in Page : m.pte[check][v].kind = "slot" => m.pte[check][v].slot = v + 1
  /\ \A mm \in Mm \ {check}, v \in Page : m.pte[mm][v] = Empty
  /\ \A mm \in Mm, d \in Dir : m.table[mm][d] = NoFrame

LEMMA SwappedOut ==
  ASSUME NEW m \in Memory, NEW pool \in SUBSET Frame, pool # {},
         OneUse(m), NoneLost(m, pool), QueueOK(m), m.free = {}
  PROVE  /\ SwapOut(m) \in Memory /\ OneUse(SwapOut(m)) /\ NoneLost(SwapOut(m), pool)
         /\ QueueOK(SwapOut(m))
         /\ \E f \in Frame, v \in Page :
              GivesPage(m, SwapOut(m), v, f) /\ SwapOut(m).free = {f}
<1>. DEFINE f == Last(m.queue)  v == m.va[f]  r == SwapOut(m)
<1>1. m.queue # <<>>
  <2>1. PICK g \in pool : TRUE
    OBVIOUS
  <2>2. ~(\E mm \in Mm, d \in Dir : Tabled(m, mm, d, g))
    BY Constants DEF QueueOK, Tabled
  <2>3. PICK mm \in Mm, u \in Page : Mapped(m, mm, u, g)
    BY <2>2 DEF NoneLost
  <2>4. mm = check
    BY <2>3, NewPtes DEF QueueOK, Mapped
  <2>5. g \in ToSet(m.queue)
    BY <2>3, <2>4 DEF QueueOK
  <2>. QED  BY <2>5, EmptyFacts
<1>2. m.queue \in Seq(Frame) /\ check \in Mm /\ Page \subseteq Nat
      /\ \A u \in Page : u + 1 \in 1..NPAGE
  BY MemoryFields, Constants DEF Page
<1>3. f \in Frame /\ f \in ToSet(m.queue) /\ Front(m.queue) \in Seq(Frame)
      /\ ToSet(Front(m.queue)) = ToSet(m.queue) \ {f} /\ IsInjective(Front(m.queue))
  BY <1>1, <1>2, FrontFacts DEF QueueOK
<1>4. v \in Page /\ Mapped(m, check, v, f)
  BY <1>3, MemoryFields DEF QueueOK
<1>. DEFINE disk1 == [m.disk EXCEPT ![v + 1] = m.content[f]]
            content1 == [m.content EXCEPT ![f] = Fresh]
            pte1 == [m.pte EXCEPT ![check][v] = InSlot(v + 1)]
            free1 == m.free \cup {f}
            queue1 == Front(m.queue)
<1>def. r = [m EXCEPT !.queue = queue1, !.disk = disk1, !.content = content1, !.pte = pte1,
                    !.free = free1]
  BY DEF SwapOut
<1>. HIDE DEF f, v, r, disk1, content1, pte1, free1, queue1
<1>rec. r = [free |-> free1, table |-> m.table, pte |-> pte1, content |-> content1,
           queue |-> queue1, va |-> m.va, disk |-> disk1]
  BY <1>def DEF Memory
<1>5. /\ r.free = m.free \cup {f} /\ r.queue = Front(m.queue) /\ r.va = m.va /\ r.table = m.table
      /\ r.disk = [m.disk EXCEPT ![v + 1] = m.content[f]]
      /\ r.content = [m.content EXCEPT ![f] = Fresh]
      /\ r.pte = [m.pte EXCEPT ![check][v] = InSlot(v + 1)]
  BY <1>rec DEF disk1, content1, pte1, free1, queue1
<1>6. r \in Memory
  <2>1. r.pte \in [Mm -> [Page -> Pte]]
    BY <1>2, <1>4, <1>5, MemoryFields, NewPtes
  <2>2. r.content \in [Frame -> Value \cup {Fresh}]
    BY <1>3, <1>5, MemoryFields
  <2>3. r.disk \in [1..NPAGE -> Value \cup {Fresh}]
    BY <1>2, <1>3, <1>4, <1>5, MemoryFields
  <2>4. r.free \in SUBSET Frame
    BY <1>3, <1>5, MemoryFields
  <2>5. r = [free |-> r.free, table |-> r.table, pte |-> r.pte, content |-> r.content,
             queue |-> r.queue, va |-> r.va, disk |-> r.disk]
    BY <1>rec
  <2>. QED  BY <1>3, <1>5, <2>1, <2>2, <2>3, <2>4, <2>5, MemoryFields DEF Memory
<1>7. GivesPage(m, r, v, f)
  <2>1. \A other \in Mm, u \in Page :
         r.pte[other][u] = IF other = check /\ u = v THEN InSlot(v + 1) ELSE m.pte[other][u]
    BY <1>2, <1>4, <1>5, MemoryFields
  <2>2. \A g \in Frame : r.content[g] = IF g = f THEN Fresh ELSE m.content[g]
    BY <1>3, <1>5, MemoryFields
  <2>3. ASSUME NEW s \in 1..NPAGE
        PROVE  r.disk[s] = IF s = v + 1 THEN m.content[f] ELSE m.disk[s]
    <3>1. m.disk \in [1..NPAGE -> Value \cup {Fresh}]
      BY MemoryFields
    <3>2. v + 1 \in 1..NPAGE /\ r.disk = [m.disk EXCEPT ![v + 1] = m.content[f]]
      BY <1>2, <1>4, <1>5
    <3>. QED  BY <3>1, <3>2
  <2>. QED  BY <1>4, <1>5, <2>1, <2>2, <2>3 DEF GivesPage
<1>8. OneUse(r) /\ NoneLost(r, pool)
  BY <1>3, <1>4, <1>6, <1>7, PageGiven
<1>9. QueueOK(r)
  <2>1. \A other \in Mm, u \in Page :
         r.pte[other][u] = IF other = check /\ u = v THEN InSlot(v + 1) ELSE m.pte[other][u]
    BY <1>7 DEF GivesPage
  <2>2. \A u \in Page, g \in Frame : Mapped(r, check, u, g) <=> u # v /\ Mapped(m, check, u, g)
    BY <1>2, <2>1, NewPtes DEF Mapped
  <2>3. \A g \in Frame : Mapped(m, check, v, g) <=> g = f
    BY <1>4 DEF Mapped
  <2>4. \A g \in Frame : g \in ToSet(r.queue) <=> \E u \in Page : Mapped(r, check, u, g)
    <3>1. ASSUME NEW g \in Frame, g \in ToSet(r.queue)
          PROVE  \E u \in Page : Mapped(r, check, u, g)
      <4>1. g \in ToSet(m.queue) /\ g # f
        BY <1>3, <1>5, <3>1
      <4>2. PICK u \in Page : Mapped(m, check, u, g)
        BY <4>1 DEF QueueOK
      <4>. QED  BY <2>2, <2>3, <4>1, <4>2
    <3>2. ASSUME NEW g \in Frame, NEW u \in Page, Mapped(r, check, u, g)
          PROVE  g \in ToSet(r.queue)
      <4>1. u # v /\ Mapped(m, check, u, g)
        BY <2>2, <3>2
      <4>2. g # f
        BY <1>2, <1>4, <4>1 DEF OneUse
      <4>. QED  BY <1>3, <1>5, <4>1, <4>2 DEF QueueOK
    <3>. QED  BY <3>1, <3>2
  <2>5. \A u \in Page, g \in Frame : Mapped(r, check, u, g) => r.va[g] = u
    BY <1>5, <2>2 DEF QueueOK
  <2>6. \A u \in Page : r.pte[check][u].kind = "slot" => r.pte[check][u].slot = u + 1
    BY <1>2, <2>1, NewPtes DEF QueueOK
  <2>7. \A mm \in Mm \ {check}, u \in Page : r.pte[mm][u] = Empty
    BY <2>1 DEF QueueOK
  <2>8. \A mm \in Mm, d \in Dir : r.table[mm][d] = NoFrame
    BY <1>5 DEF QueueOK
  <2>. QED  BY <1>3, <1>5, <2>4, <2>5, <2>6, <2>7, <2>8 DEF QueueOK
<1>10. r.free = {f}
  BY <1>5
<1>. QED  BY <1>3, <1>4, <1>6, <1>7, <1>8, <1>9, <1>10 DEF r

\* While check_swap runs a page is mapped in a free frame or in the one of another page.
LEMMA PageMappedInCheck ==
  ASSUME NEW m \in Memory, NEW pool \in SUBSET Frame, pool # {},
         NEW v \in Page, NEW w \in BOOLEAN, NEW x \in Value \cup {Fresh},
         OneUse(m), NoneLost(m, pool), QueueOK(m), m.pte[check][v].kind # "frame",
         NEW r, r = MapPage(m, check, v, w, x)
  PROVE  /\ r \in Memory /\ OneUse(r) /\ NoneLost(r, pool) /\ QueueOK(r)
         /\ Maps(m, r, check, v, w, x)
<1>. DEFINE m1 == WithFrame(m)  f == FirstFree(m1)
<1>1. check \in Mm /\ \A u \in Page : u + 1 \in 1..NPAGE
  BY Constants DEF Page
<1>2. /\ m1 \in Memory /\ m1.free # {} /\ OneUse(m1) /\ NoneLost(m1, pool) /\ QueueOK(m1)
      /\ \A other \in Mm, u \in Page :
           /\ Stored(m1, other, u) = Stored(m, other, u)
           /\ m1.pte[other][u] = Empty <=> m.pte[other][u] = Empty
           /\ m1.pte[other][u].kind = "frame" \/ other # check => m1.pte[other][u] = m.pte[other][u]
  <2>1. CASE m.free # {}
    <3>1. m1 = m
      BY <2>1 DEF WithFrame
    <3>. QED  BY <2>1, <3>1
  <2>2. CASE m.free = {}
    <3>1. m1 = SwapOut(m)
      BY <2>2 DEF WithFrame
    <3>2. /\ m1 \in Memory /\ OneUse(m1) /\ NoneLost(m1, pool) /\ QueueOK(m1)
          /\ \E g \in Frame, u \in Page : GivesPage(m, m1, u, g) /\ m1.free = {g}
      BY <2>2, <3>1, SwappedOut
    <3>. HIDE DEF m1
    <3>3. PICK g \in Frame, t \in Page : GivesPage(m, m1, t, g) /\ m1.free = {g}
      BY <3>2
    <3>4. /\ \A other \in Mm, u \in Page :
               m1.pte[other][u] = IF other = check /\ u = t THEN InSlot(t + 1) ELSE m.pte[other][u]
          /\ \A h \in Frame : m1.content[h] = IF h = g THEN Fresh ELSE m.content[h]
          /\ \A s \in 1..NPAGE : m1.disk[s] = IF s = t + 1 THEN m.content[g] ELSE m.disk[s]
          /\ m.pte[check][t].kind = "frame" /\ m.pte[check][t].frame = g
      BY <3>3 DEF GivesPage, Mapped
    <3>5. ASSUME NEW other \in Mm, NEW u \in Page
          PROVE  /\ Stored(m1, other, u) = Stored(m, other, u)
                 /\ m1.pte[other][u] = Empty <=> m.pte[other][u] = Empty
                 /\ m1.pte[other][u].kind = "frame" \/ other # check
                      => m1.pte[other][u] = m.pte[other][u]
      <4>1. CASE other = check /\ u = t
        <5>1. m1.pte[other][u] = InSlot(t + 1) /\ m1.disk[t + 1] = m.content[g]
          BY <1>1, <3>4, <4>1
        <5>. QED  BY <3>4, <4>1, <5>1, NewPtes DEF Stored
      <4>2. CASE ~(other = check /\ u = t)
        <5>1. m1.pte[other][u] = m.pte[other][u]
          BY <3>4, <4>2
        <5>2. m.pte[other][u].kind = "frame" =>
                m.pte[other][u].frame # g /\ m.pte[other][u].frame \in Frame
          BY <1>1, <3>4, <4>2, PteFacts DEF OneUse, Mapped
        <5>3. m.pte[other][u].kind = "slot" =>
                m.pte[other][u].slot # t + 1 /\ m.pte[other][u].slot \in 1..NPAGE
          <6>1. CASE other = check
            BY <4>2, <6>1, PteFacts DEF QueueOK, Page
          <6>2. CASE other # check
            BY <6>2, NewPtes DEF QueueOK
          <6>. QED  BY <6>1, <6>2
        <5>. QED  BY <3>4, <5>1, <5>2, <5>3 DEF Stored
      <4>. QED  BY <4>1, <4>2
    <3>. QED  BY <3>2, <3>3, <3>5
  <2>. QED  BY <2>1, <2>2
<1>3. f \in m1.free /\ f \in Frame
  BY <1>2, FirstFreeIsFree
<1>. DEFINE free1 == m1.free \ {f}
            pte1 == [m1.pte EXCEPT ![check][v] = InFrame(f, w)]
            content1 == [m1.content EXCEPT ![f] = x]
            queue1 == <<f>> \o m1.queue
            va1 == [m1.va EXCEPT ![f] = v]
<1>def. r = [m1 EXCEPT !.free = free1, !.pte = pte1, !.content = content1, !.queue = queue1,
                       !.va = va1]
  BY DEF MapPage, WithTable
<1>. HIDE DEF m1, f, free1, pte1, content1, queue1, va1
<1>rec. r = [free |-> free1, table |-> m1.table, pte |-> pte1, content |-> content1,
             queue |-> queue1, va |-> va1, disk |-> m1.disk]
  BY <1>2, <1>def DEF Memory
<1>4. /\ r.free = m1.free \ {f} /\ r.queue = <<f>> \o m1.queue /\ r.table = m1.table
      /\ r.pte = [m1.pte EXCEPT ![check][v] = InFrame(f, w)]
      /\ r.content = [m1.content EXCEPT ![f] = x]
      /\ r.va = [m1.va EXCEPT ![f] = v] /\ r.disk = m1.disk
  BY <1>rec DEF free1, pte1, content1, queue1, va1
<1>5. /\ r.queue \in Seq(Frame) /\ ToSet(r.queue) = ToSet(m1.queue) \cup {f}
      /\ IsInjective(m1.queue) /\ f \notin ToSet(m1.queue) => IsInjective(r.queue)
  BY <1>2, <1>3, <1>4, ConsFacts, MemoryFields DEF Cons
<1>6. r \in Memory
  <2>1. r.pte \in [Mm -> [Page -> Pte]]
    BY <1>1, <1>2, <1>3, <1>4, MemoryFields, NewPtes
  <2>2. r.content \in [Frame -> Value \cup {Fresh}]
    BY <1>2, <1>3, <1>4, MemoryFields
  <2>3. r.va \in [Frame -> Page]
    BY <1>2, <1>3, <1>4, MemoryFields
  <2>4. r.free \in SUBSET Frame
    BY <1>2, <1>4, MemoryFields
  <2>5. r = [free |-> r.free, table |-> r.table, pte |-> r.pte, content |-> r.content,
             queue |-> r.queue, va |-> r.va, disk |-> r.disk]
    BY <1>rec
  <2>. QED  BY <1>2, <1>4, <1>5, <2>1, <2>2, <2>3, <2>4, <2>5, MemoryFields DEF Memory
<1>7. TakesPage(m1, r, check, v, w, x, f)
  <2>1. \A other \in Mm, u \in Page :
         r.pte[other][u] = IF other = check /\ u = v THEN InFrame(f, w) ELSE m1.pte[other][u]
    BY <1>1, <1>2, <1>4, MemoryFields
  <2>2. \A g \in Frame : r.content[g] = IF g = f THEN x ELSE m1.content[g]
    BY <1>2, <1>3, <1>4, MemoryFields
  <2>. QED  BY <1>3, <1>4, <2>1, <2>2 DEF TakesPage
<1>8. m1.pte[check][v].kind # "frame"
  BY <1>1, <1>2
<1>9. OneUse(r) /\ NoneLost(r, pool)
  BY <1>1, <1>2, <1>3, <1>6, <1>7, <1>8, PageTaken
<1>10. \A other \in Mm, u \in Page :
         r.pte[other][u] = IF other = check /\ u = v THEN InFrame(f, w) ELSE m1.pte[other][u]
  BY <1>7 DEF TakesPage
<1>11. \A u \in Page : ~Mapped(m1, check, u, f)
  BY <1>1, <1>2, <1>3 DEF OneUse
<1>12. QueueOK(r)
  <2>1. f \notin ToSet(m1.queue)
    BY <1>2, <1>3, <1>11 DEF QueueOK
  <2>2. \A u \in Page, g \in Frame :
          Mapped(r, check, u, g) <=> IF u = v THEN g = f ELSE Mapped(m1, check, u, g)
    BY <1>1, <1>10, NewPtes DEF Mapped
  <2>3. \A g \in Frame : ~Mapped(m1, check, v, g)
    BY <1>8 DEF Mapped
  <2>4. \A g \in Frame : g \in ToSet(r.queue) <=> \E u \in Page : Mapped(r, check, u, g)
    BY <1>2, <1>5, <2>2, <2>3 DEF QueueOK
  <2>5. \A u \in Page, g \in Frame : Mapped(r, check, u, g) => r.va[g] = u
    <3>1. \A g \in Frame : r.va[g] = IF g = f THEN v ELSE m1.va[g]
      BY <1>2, <1>3, <1>4, MemoryFields
    <3>. QED  BY <1>2, <1>11, <2>2, <3>1 DEF QueueOK
  <2>6. \A u \in Page : r.pte[check][u].kind = "slot" => r.pte[check][u].slot = u + 1
    BY <1>1, <1>2, <1>10, NewPtes DEF QueueOK
  <2>7. \A mm \in Mm \ {check}, u \in Page : r.pte[mm][u] = Empty
    BY <1>2, <1>10 DEF QueueOK
  <2>8. \A mm \in Mm, d \in Dir : r.table[mm][d] = NoFrame
    BY <1>2, <1>4 DEF QueueOK
  <2>. QED  BY <1>2, <1>5, <2>1, <2>4, <2>5, <2>6, <2>7, <2>8 DEF QueueOK
<1>13. Maps(m, r, check, v, w, x)
  <2>1. \A g \in Frame : r.content[g] = IF g = f THEN x ELSE m1.content[g]
    BY <1>7 DEF TakesPage
  <2>2. Stored(r, check, v) = x /\ r.pte[check][v].kind = "frame" /\ r.pte[check][v].write = w
    BY <1>1, <1>3, <1>10, <2>1, NewPtes DEF Stored
  <2>3. ASSUME NEW other \in Mm, NEW u \in Page, ~(other = check /\ u = v)
        PROVE  r.pte[other][u] = m1.pte[other][u] /\ Stored(r, other, u) = Stored(m1, other, u)
    <3>1. r.pte[other][u] = m1.pte[other][u] /\ r.disk = m1.disk
      BY <1>4, <1>10, <2>3
    <3>2. m1.pte[other][u].kind = "frame" =>
            m1.pte[other][u].frame # f /\ m1.pte[other][u].frame \in Frame
      BY <1>2, <1>3, PteFacts DEF OneUse, Mapped
    <3>. QED  BY <2>1, <3>1, <3>2 DEF Stored
  <2>4. r.table = m.table \/ \A mm \in Mm, d \in Dir : r.table[mm][d] = m.table[mm][d]
    BY <1>4, <1>2 DEF QueueOK
  <2>. QED  BY <1>2, <2>2, <2>3, <2>4 DEF Maps
<1>. QED  BY <1>6, <1>9, <1>12, <1>13

-----------------------------------------------------------------------------
(* The inductive invariant. *)

\* An address space that is not there has nothing.
AbsentOK ==
  \A mm \in Mm \ mms :
    /\ mmap_list[mm] = <<>> /\ mmap_cache[mm] = NoVma
    /\ \A v \in Page : memory.pte[mm][v] = Empty
    /\ \A d \in Dir : memory.table[mm][d] = NoFrame

\* check_swap has the memory to itself; after it nothing is swapped out and every
\* address space has a directory.
SwapOK ==
  IF check_mm_struct = check
  THEN mms = {check} /\ loading = NoMm /\ source = NoMm /\ QueueOK(memory)
  ELSE /\ check \notin mms /\ IsInjective(memory.queue)
       /\ \A mm \in Mm, v \in Page : memory.pte[mm][v].kind # "slot"
       /\ \A mm \in mms : memory.table[mm][VPT] # NoFrame

FramesOK == OneUse(memory) /\ NoneLost(memory, Pool)

\* The vmas of a list are in order, whether neighbours or not.
Ordered(list) ==
  /\ \A i \in 1..Len(list) : list[i].start < list[i].end
  /\ \A i, j \in 1..Len(list) : i < j => list[i].end <= list[j].start

ListsOK ==
  \A mm \in Mm : /\ Ordered(mmap_list[mm])
                 /\ mmap_cache[mm] \in ToSet(mmap_list[mm]) \cup {NoVma}

\* Pages and page tables are only under vmas, and a page has the rights of its vma.
PagesOK ==
  \A mm \in Mm :
    /\ \A v \in Page : memory.pte[mm][v] # Empty =>
         \E vma \in ToSet(mmap_list[mm]) :
           Covers(vma, v) /\ (Held(mm, v) => memory.pte[mm][v].write = vma.write)
    /\ \A d \in Dir \ {VPT} : memory.table[mm][d] # NoFrame =>
         \E v \in Page, vma \in ToSet(mmap_list[mm]) : DirOf(v) = d /\ Covers(vma, v)

ValuesOK ==
  \A mm \in Mm, v \in Page : memory.pte[mm][v] # Empty => Stored(memory, mm, v) \in Value

\* list is the end of whole.
IsEnd(list, whole) ==
  LET n == Len(whole) - Len(list) IN
  n \in Nat /\ \A i \in 1..Len(list) : list[i] = whole[i + n]

\* What a child has got is what its parent has.
CopyOK ==
  source # NoMm =>
    /\ loading # NoMm /\ loading # source
    /\ IsEnd(mmap_list[loading], mmap_list[source])
    /\ \A v \in Page : memory.pte[loading][v] # Empty =>
         /\ Held(source, v) /\ Held(loading, v)
         /\ Stored(memory, loading, v) = Stored(memory, source, v)

MemInv ==
  TypeOK /\ AbsentOK /\ SwapOK /\ FramesOK /\ ListsOK /\ PagesOK /\ ValuesOK /\ CopyOK

-----------------------------------------------------------------------------
(* Lists of vmas. *)

LEMMA VmaFacts ==
  ASSUME NEW vma \in Vma
  PROVE  /\ vma.start \in Page /\ vma.start \in Nat
         /\ vma.end \in 1..NPAGE /\ vma.end \in Nat /\ vma.end <= NPAGE
         /\ vma.read \in BOOLEAN /\ vma.write \in BOOLEAN
         /\ vma.stack \in BOOLEAN /\ vma # NoVma
  BY Constants DEF Vma, Page

LEMMA ListFacts ==
  ASSUME NEW list \in Seq(Vma)
  PROVE  /\ Len(list) \in Nat
         /\ \A i \in 1..Len(list) : list[i] \in Vma /\ list[i] \in ToSet(list)
         /\ \A vma \in ToSet(list) : vma \in Vma /\ \E i \in 1..Len(list) : list[i] = vma
<1>1. Len(list) \in Nat /\ DOMAIN list = 1..Len(list) /\ \A i \in 1..Len(list) : list[i] \in Vma
  OBVIOUS
<1>. QED  BY <1>1 DEF ToSet

LEMMA SearchFacts ==
  ASSUME NEW list \in Seq(Vma), NEW v
  PROVE  /\ Searched(list, v) # NoVma => /\ Searched(list, v) \in ToSet(list)
                                         /\ Covers(Searched(list, v), v)
         /\ Searched(list, v) = NoVma => \A vma \in ToSet(list) : ~Covers(vma, v)
<1>. DEFINE found == {i \in 1..Len(list) : Covers(list[i], v)}
<1>1. CASE found = {}
  BY <1>1, ListFacts DEF Searched
<1>2. CASE found # {}
  <2>1. Min(found) \in found
    <3>1. found \in SUBSET Nat
      OBVIOUS
    <3>. HIDE DEF found
    <3>. QED  BY <1>2, <3>1, MinFacts
  <2>2. Searched(list, v) = list[Min(found)]
    BY <1>2 DEF Searched
  <2>3. Min(found) \in 1..Len(list) /\ Covers(list[Min(found)], v)
    BY <2>1
  <2>4. list[Min(found)] \in Vma /\ list[Min(found)] \in ToSet(list)
    BY <2>3, ListFacts
  <2>5. list[Min(found)] # NoVma
    BY <2>4, VmaFacts
  <2>. QED  BY <2>2, <2>3, <2>4, <2>5
<1>. QED  BY <1>1, <1>2

LEMMA PassedFacts ==
  ASSUME NEW list \in Seq(Vma), NEW vma \in Vma
  PROVE  /\ Passed(list, vma) \in 0..Len(list)
         /\ \A i \in 1..Passed(list, vma) : list[i].start <= vma.start
         /\ Passed(list, vma) < Len(list) => list[Passed(list, vma) + 1].start > vma.start
<1>. DEFINE n == Len(list)  S == {i \in 0..n : i = n \/ list[i + 1].start > vma.start}
<1>1. n \in Nat /\ vma.start \in Nat /\ \A i \in 1..n : list[i].start \in Nat
  BY ListFacts, VmaFacts
<1>2. Passed(list, vma) = Min(S)
  BY DEF Passed
<1>. HIDE DEF n
<1>3. S \in SUBSET Nat /\ n \in S
  BY <1>1
<1>. PICK T : T = S
  OBVIOUS
<1>. PICK k : k = Min(T)
  OBVIOUS
<1>4. k \in T /\ \A c \in T : k <= c
  BY <1>3, MinFacts
<1>5. k \in 0..n /\ (k = n \/ list[k + 1].start > vma.start)
  BY <1>4
<1>6. ASSUME NEW i \in 1..k  PROVE list[i].start <= vma.start
  <2>1. i - 1 \in 0..n /\ i - 1 # n /\ ~(k <= i - 1) /\ i \in 1..n /\ (i - 1) + 1 = i
    BY <1>1, <1>5
  <2>2. i - 1 \notin S
    BY <1>4, <2>1
  <2>3. ~(list[i].start > vma.start)
    BY <2>1, <2>2
  <2>. QED  BY <1>1, <2>1, <2>3
<1>. QED  BY <1>1, <1>2, <1>5, <1>6 DEF n

LEMMA InsertFacts ==
  ASSUME NEW list \in Seq(Vma), Ordered(list), NEW vma \in Vma, FitsIn(list, vma)
  PROVE  /\ InsertVma(list, vma) \in Seq(Vma)
         /\ ToSet(InsertVma(list, vma)) = ToSet(list) \cup {vma}
         /\ Ordered(InsertVma(list, vma))
         /\ \A other \in ToSet(list) : other.end <= vma.start \/ vma.end <= other.start
<1>. DEFINE n == Len(list)
<1>k. PICK k : k = Passed(list, vma)
  OBVIOUS
<1>. DEFINE r == InsertVma(list, vma)
<1>1. /\ n \in Nat /\ k \in 0..n /\ vma.start \in Nat /\ vma.end \in Nat
      /\ \A i \in 1..n : list[i].start \in Nat /\ list[i].end \in Nat /\ list[i] \in ToSet(list)
  BY <1>k, ListFacts, VmaFacts, PassedFacts
<1>2. /\ vma.start < vma.end
      /\ k > 0 => list[k].end <= vma.start
      /\ k < n => vma.end <= list[k + 1].start
  BY <1>k DEF FitsIn
<1>3. /\ r \in Seq(Vma) /\ Len(r) = n + 1
      /\ \A i \in 1..n + 1 : r[i] = IF i <= k THEN list[i] ELSE IF i = k + 1 THEN vma ELSE list[i - 1]
  <2>1. r = InsertAt(list, k + 1, vma)
    BY <1>k DEF InsertVma
  <2>2. k \in 0..Len(list)
    BY <1>1
  <2>3. /\ InsertAt(list, k + 1, vma) \in Seq(Vma)
        /\ Len(InsertAt(list, k + 1, vma)) = Len(list) + 1
        /\ \A i \in 1..Len(list) + 1 :
             InsertAt(list, k + 1, vma)[i]
               = IF i <= k THEN list[i] ELSE IF i = k + 1 THEN vma ELSE list[i - 1]
    BY <2>2, InsertAtFacts
  <2>. HIDE DEF r
  <2>. QED  BY <2>1, <2>3
<1>. HIDE DEF n, r
<1>4. /\ \A i \in 1..n : list[i].start < list[i].end
      /\ \A i, j \in 1..n : i < j => list[i].end <= list[j].start
  BY DEF Ordered, n
<1>5. \A i \in 1..k : list[i].end <= vma.start
  <2>1. ASSUME NEW i \in 1..k  PROVE list[i].end <= vma.start
    <3>1. CASE i = k
      BY <1>1, <1>2, <3>1
    <3>2. CASE i < k
      <4>1. i \in 1..n /\ k \in 1..n /\ k > 0
        BY <1>1, <3>2
      <4>2. list[i].end <= list[k].start /\ list[k].start < list[k].end
        BY <1>4, <3>2, <4>1
      <4>. QED  BY <1>1, <1>2, <4>1, <4>2
    <3>. QED  BY <1>1, <3>1, <3>2
  <2>. QED  BY <2>1
<1>6. \A i \in k + 1..n : vma.end <= list[i].start
  <2>1. ASSUME NEW i \in k + 1..n  PROVE vma.end <= list[i].start
    <3>0. k + 1 \in 1..n /\ i \in 1..n /\ k < n
      BY <1>1
    <3>1. CASE i = k + 1
      BY <1>1, <1>2, <3>0, <3>1
    <3>2. CASE i > k + 1
      <4>2. list[k + 1].end <= list[i].start /\ list[k + 1].start < list[k + 1].end
        BY <1>4, <3>0, <3>2
      <4>3. /\ list[k + 1].start \in Nat /\ list[k + 1].end \in Nat /\ list[i].start \in Nat
            /\ vma.end \in Nat /\ vma.end <= list[k + 1].start
        BY <1>1, <1>2, <3>0
      <4>. QED  BY <4>2, <4>3
    <3>. QED  BY <1>1, <3>1, <3>2
  <2>. QED  BY <2>1
<1>7. ToSet(r) = ToSet(list) \cup {vma}
  <2>1. ASSUME NEW y \in ToSet(r)  PROVE y \in ToSet(list) \cup {vma}
    <3>1. PICK i \in 1..n + 1 : r[i] = y
      BY <1>3, <2>1, ListFacts
    <3>2. i <= k => i \in 1..n
      BY <1>1
    <3>3. i > k + 1 => i - 1 \in 1..n
      BY <1>1
    <3>. QED  BY <1>1, <1>3, <3>1, <3>2, <3>3
  <2>2. ASSUME NEW y \in ToSet(list)  PROVE y \in ToSet(r)
    <3>1. PICK i \in 1..n : list[i] = y
      BY <2>2, ListFacts DEF n
    <3>2. CASE i <= k
      <4>1. i \in 1..n + 1 /\ r[i] = y
        BY <1>1, <1>3, <3>1, <3>2
      <4>. QED  BY <1>3, <4>1, ListFacts
    <3>3. CASE i > k
      <4>1. i + 1 \in 1..n + 1 /\ r[i + 1] = y
        BY <1>1, <1>3, <3>1, <3>3
      <4>. QED  BY <1>3, <4>1, ListFacts
    <3>. QED  BY <1>1, <3>2, <3>3
  <2>3. vma \in ToSet(r)
    <3>1. k + 1 \in 1..n + 1 /\ r[k + 1] = vma
      BY <1>1, <1>3
    <3>. QED  BY <1>3, <3>1, ListFacts
  <2>. QED  BY <2>1, <2>2, <2>3
<1>8. Ordered(r)
  <2>1. ASSUME NEW i \in 1..n + 1  PROVE r[i].start < r[i].end
    <3>1. CASE i <= k
      BY <1>1, <1>3, <1>4, <3>1
    <3>2. CASE i = k + 1
      BY <1>1, <1>2, <1>3, <3>2
    <3>3. CASE i > k + 1
      <4>1. i - 1 \in 1..n /\ r[i] = list[i - 1]
        BY <1>1, <1>3, <3>3
      <4>. QED  BY <1>4, <4>1
    <3>. QED  BY <1>1, <3>1, <3>2, <3>3
  <2>2. ASSUME NEW i \in 1..n + 1, NEW j \in 1..n + 1, i < j  PROVE r[i].end <= r[j].start
    <3>1. CASE j <= k
      <4>1. i \in 1..n /\ j \in 1..n /\ r[i] = list[i] /\ r[j] = list[j]
        BY <1>1, <1>3, <2>2, <3>1
      <4>. QED  BY <1>4, <2>2, <4>1
    <3>2. CASE j = k + 1
      <4>1. i \in 1..k /\ r[i] = list[i] /\ r[j] = vma
        BY <1>1, <1>3, <2>2, <3>2
      <4>. QED  BY <1>5, <4>1
    <3>3. CASE j > k + 1 /\ i <= k
      <4>1. i \in 1..n /\ j - 1 \in 1..n /\ i < j - 1
        BY <1>1, <3>3
      <4>2. r[i] = list[i] /\ r[j] = list[j - 1]
        BY <1>1, <1>3, <3>3
      <4>. QED  BY <1>4, <4>1, <4>2
    <3>4. CASE j > k + 1 /\ i = k + 1
      <4>1. j - 1 \in k + 1..n /\ r[i] = vma /\ r[j] = list[j - 1]
        BY <1>1, <1>3, <3>4
      <4>. QED  BY <1>6, <4>1
    <3>5. CASE j > k + 1 /\ i > k + 1
      <4>1. /\ i - 1 \in 1..n /\ j - 1 \in 1..n /\ i - 1 < j - 1
            /\ r[i] = list[i - 1] /\ r[j] = list[j - 1]
        BY <1>1, <1>3, <2>2, <3>5
      <4>. QED  BY <1>4, <4>1
    <3>. QED  BY <1>1, <3>1, <3>2, <3>3, <3>4, <3>5
  <2>. QED  BY <1>3, <2>1, <2>2 DEF Ordered
<1>9. ASSUME NEW other \in ToSet(list)  PROVE other.end <= vma.start \/ vma.end <= other.start
  <2>1. PICK i \in 1..n : list[i] = other
    BY ListFacts DEF n
  <2>2. i \in 1..k \/ i \in k + 1..n
    BY <1>1
  <2>. QED  BY <1>5, <1>6, <2>1, <2>2
<1>. QED  BY <1>3, <1>7, <1>8, <1>9 DEF r

LEMMA FindFacts ==
  ASSUME TypeOK, ListsOK, NEW mm \in Mm, NEW v
  PROVE  /\ FindVma(mm, v) # NoVma =>
              /\ FindVma(mm, v) \in ToSet(mmap_list[mm]) /\ FindVma(mm, v) \in Vma
              /\ Covers(FindVma(mm, v), v)
         /\ FindVma(mm, v) = NoVma => \A vma \in ToSet(mmap_list[mm]) : ~Covers(vma, v)
<1>1. mmap_list[mm] \in Seq(Vma)
  BY DEF TypeOK
<1>2. CASE mmap_cache[mm] # NoVma /\ Covers(mmap_cache[mm], v)
  <2>1. FindVma(mm, v) = mmap_cache[mm]
    BY <1>2 DEF FindVma
  <2>2. mmap_cache[mm] \in ToSet(mmap_list[mm])
    BY <1>2 DEF ListsOK
  <2>. QED  BY <1>1, <1>2, <2>1, <2>2, ListFacts
<1>3. CASE ~(mmap_cache[mm] # NoVma /\ Covers(mmap_cache[mm], v))
  <2>1. FindVma(mm, v) = Searched(mmap_list[mm], v)
    BY <1>3 DEF FindVma
  <2>. QED  BY <1>1, <2>1, SearchFacts, ListFacts
<1>. QED  BY <1>2, <1>3

LEMMA CachedFacts ==
  ASSUME TypeOK, ListsOK, NEW mm \in Mm, NEW v, Cached(mm, v)
  PROVE  /\ mmap_cache' \in [Mm -> Vma \cup {NoVma}]
         /\ \A other \in Mm \ {mm} : mmap_cache'[other] = mmap_cache[other]
         /\ mmap_cache'[mm] \in ToSet(mmap_list[mm]) \cup {NoVma}
<1>. PICK vma : vma = FindVma(mm, v)
  OBVIOUS
<1>1. vma # NoVma => vma \in ToSet(mmap_list[mm]) /\ vma \in Vma
  BY FindFacts
<1>2. mmap_cache' = [mmap_cache EXCEPT ![mm] = IF vma = NoVma THEN @ ELSE vma]
  BY DEF Cached
<1>. QED  BY <1>1, <1>2 DEF TypeOK, ListsOK

\* At most one vma of a list covers a page.
LEMMA CoverOnce ==
  ASSUME NEW list \in Seq(Vma), Ordered(list), NEW v \in Nat,
         NEW a \in ToSet(list), NEW b \in ToSet(list), Covers(a, v), Covers(b, v)
  PROVE  a = b
<1>1. PICK i \in 1..Len(list), j \in 1..Len(list) : list[i] = a /\ list[j] = b
  BY ListFacts
<1>2. a \in Vma /\ b \in Vma
  BY ListFacts
<1>3. /\ a.start \in Nat /\ a.end \in Nat /\ b.start \in Nat /\ b.end \in Nat
      /\ a.start <= v /\ v < a.end /\ b.start <= v /\ v < b.end
  BY <1>2, VmaFacts DEF Covers
<1>4. i < j => a.end <= b.start
  BY <1>1 DEF Ordered
<1>5. j < i => b.end <= a.start
  BY <1>1 DEF Ordered
<1>6. i = j
  BY <1>3, <1>4, <1>5, ListFacts
<1>. QED  BY <1>1, <1>6

-----------------------------------------------------------------------------
(* The steps. *)

\* A page under a vma is given a frame, by a fault, by the loader or by a fork.
LEMMA MappingKeeps ==
  ASSUME MemInv, NEW mm \in mms, NEW v \in Page, NEW vma \in ToSet(mmap_list[mm]),
         NEW x \in Value, Covers(vma, v), ~Held(mm, v), Room(mm, {v}),
         memory' = MapPage(memory, mm, v, vma.write, x),
         \A other \in Mm \ {mm} : mmap_cache'[other] = mmap_cache[other],
         UNCHANGED <<check_mm_struct, mms, loading, source, mmap_list>>
  PROVE  /\ memory' \in Memory /\ Maps(memory, memory', mm, v, vma.write, x)
         /\ AbsentOK' /\ SwapOK' /\ FramesOK' /\ PagesOK' /\ ValuesOK'
<1>. DEFINE w == vma.write
<1>1. /\ mm \in Mm /\ check \in Mm /\ memory \in Memory /\ mmap_list[mm] \in Seq(Vma)
      /\ w \in BOOLEAN /\ check_mm_struct \in {check, NoMm} /\ check # NoMm
  <2>1. mm \in Mm /\ mmap_list[mm] \in Seq(Vma) /\ memory \in Memory
    BY DEF MemInv, TypeOK
  <2>2. vma \in Vma
    BY <2>1, ListFacts
  <2>. QED  BY <2>1, <2>2, VmaFacts, Constants DEF MemInv, TypeOK
<1>2. /\ OneUse(memory) /\ NoneLost(memory, Pool) /\ memory.pte[mm][v].kind # "frame"
      /\ Pool \in SUBSET Frame /\ Pool' = Pool
  BY Constants DEF MemInv, FramesOK, Held, Pool
<1>. HIDE DEF w
<1>3. /\ memory' \in Memory /\ OneUse(memory') /\ NoneLost(memory', Pool)
      /\ Maps(memory, memory', mm, v, w, x) /\ SwapOK'
  <2>1. CASE check_mm_struct = check
    <3>1. mm = check /\ QueueOK(memory) /\ Pool # {}
      BY <2>1, Constants DEF MemInv, SwapOK, Pool
    <3>2. memory' = MapPage(memory, check, v, w, x)
      BY <3>1 DEF w
    <3>3. /\ memory' \in Memory /\ OneUse(memory') /\ NoneLost(memory', Pool) /\ QueueOK(memory')
          /\ Maps(memory, memory', check, v, w, x)
      <4>. PICK m : m = memory
        OBVIOUS
      <4>. PICK r : r = memory'
        OBVIOUS
      <4>1. r = MapPage(m, check, v, w, x)
        BY <3>2
      <4>2. m \in Memory /\ OneUse(m) /\ NoneLost(m, Pool) /\ QueueOK(m)
            /\ m.pte[check][v].kind # "frame"
        BY <1>1, <1>2, <3>1
      <4>3. /\ r \in Memory /\ OneUse(r) /\ NoneLost(r, Pool) /\ QueueOK(r)
            /\ Maps(m, r, check, v, w, x)
        BY <1>1, <1>2, <3>1, <4>1, <4>2, PageMappedInCheck
      <4>. QED  BY <4>3
    <3>. QED  BY <2>1, <3>1, <3>3 DEF MemInv, SwapOK
  <2>2. CASE check_mm_struct # check
    <3>1. mm \in Mm \ {check} /\ check_mm_struct = NoMm /\ check \notin mms
      BY <1>1, <2>2 DEF MemInv, SwapOK
    <3>2. /\ memory' \in Memory /\ OneUse(memory') /\ NoneLost(memory', Pool)
          /\ \E f \in Frame : MapsPage(memory, memory', mm, v, w, x, f)
      BY <1>1, <1>2, <3>1, PageMapped DEF w, MemInv
    <3>3. PICK f \in Frame : MapsPage(memory, memory', mm, v, w, x, f)
      BY <3>2
    <3>4. Maps(memory, memory', mm, v, w, x)
      <4>. PICK m : m = memory
        OBVIOUS
      <4>. PICK r : r = memory'
        OBVIOUS
      <4>1. m \in Memory /\ r \in Memory /\ OneUse(m) /\ MapsPage(m, r, mm, v, w, x, f)
        BY <1>1, <1>2, <3>2, <3>3
      <4>2. Maps(m, r, mm, v, w, x)
        BY <1>1, <4>1, MappedAlone
      <4>. QED  BY <4>2
    <3>5. \A other \in Mm, u \in Page :
            memory'.pte[other][u] = IF other = mm /\ u = v THEN InFrame(f, w)
                                    ELSE memory.pte[other][u]
      BY <3>3 DEF MapsPage
    <3>6. memory'.queue = memory.queue
      BY <3>3 DEF MapsPage
    <3>7. \A other \in Mm, u \in Page : memory'.pte[other][u].kind # "slot"
      BY <2>2, <3>5, NewPtes DEF MemInv, SwapOK
    <3>8. \A other \in mms : memory'.table[other][VPT] # NoFrame
      <4>1. \A other \in mms : other \in Mm /\ memory.table[other][VPT] # NoFrame
        BY <2>2 DEF MemInv, SwapOK, TypeOK
      <4>2. \A other \in Mm : memory'.table[other][VPT] = memory.table[other][VPT]
        BY <3>3, DirOfPage DEF MapsPage
      <4>. QED  BY <4>1, <4>2
    <3>. QED  BY <2>2, <3>1, <3>2, <3>4, <3>6, <3>7, <3>8 DEF MemInv, SwapOK
  <2>. QED  BY <2>1, <2>2
<1>4. FramesOK'
  BY <1>2, <1>3 DEF FramesOK
<1>5. /\ memory'.pte[mm][v].kind = "frame" /\ memory'.pte[mm][v].write = w
      /\ Stored(memory', mm, v) = x
      /\ \A other \in Mm, u \in Page : ~(other = mm /\ u = v) =>
           /\ Stored(memory', other, u) = Stored(memory, other, u)
           /\ memory'.pte[other][u] = Empty <=> memory.pte[other][u] = Empty
           /\ memory'.pte[other][u].kind = "frame" => memory'.pte[other][u] = memory.pte[other][u]
      /\ \A other \in Mm, d \in Dir :
           memory'.table[other][d] = memory.table[other][d] \/ (other = mm /\ d = DirOf(v))
  BY <1>3 DEF Maps
<1>6. AbsentOK'
  BY <1>1, <1>5 DEF AbsentOK, MemInv
<1>7. ValuesOK'
  BY <1>1, <1>5 DEF ValuesOK, MemInv
<1>8. PagesOK'
  <2>1. ASSUME NEW other \in Mm, NEW u \in Page, memory'.pte[other][u] # Empty
        PROVE  \E a \in ToSet(mmap_list[other]) :
                 Covers(a, u) /\ (memory'.pte[other][u].kind = "frame" =>
                                    memory'.pte[other][u].write = a.write)
    <3>1. CASE other = mm /\ u = v
      BY <1>5, <3>1 DEF w
    <3>2. CASE ~(other = mm /\ u = v)
      BY <1>5, <2>1, <3>2 DEF MemInv, PagesOK, Held
    <3>. QED  BY <3>1, <3>2
  <2>2. ASSUME NEW other \in Mm, NEW d \in Dir \ {VPT}, memory'.table[other][d] # NoFrame
        PROVE  \E u \in Page, a \in ToSet(mmap_list[other]) : DirOf(u) = d /\ Covers(a, u)
    BY <1>5, <2>2 DEF MemInv, PagesOK
  <2>. QED  BY <2>1, <2>2 DEF PagesOK, Held
<1>. QED  BY <1>3, <1>4, <1>6, <1>7, <1>8 DEF w

LEMMA UnmappedFacts ==
  ASSUME NEW fs \in SUBSET Frame
  PROVE  /\ Unmapped(fs) \in Memory
         /\ OneUse(Unmapped(fs)) /\ NoneLost(Unmapped(fs), fs) /\ QueueOK(Unmapped(fs))
         /\ \A mm \in Mm : /\ \A v \in Page : Unmapped(fs).pte[mm][v] = Empty
                           /\ \A d \in Dir : Unmapped(fs).table[mm][d] = NoFrame
<1>. DEFINE m == Unmapped(fs)
<1>1. 0 \in Page
  BY Constants DEF Page
<1>2. /\ m.free = fs /\ m.queue = <<>>
      /\ m.table = [mm \in Mm |-> [d \in Dir |-> NoFrame]]
      /\ m.pte = [mm \in Mm |-> [v \in Page |-> Empty]]
      /\ m.content = [f \in Frame |-> Fresh]
      /\ m.va = [f \in Frame |-> 0]
      /\ m.disk = [s \in 1..NPAGE |-> Fresh]
  BY DEF Unmapped
<1>3. m \in Memory
  <2>1. m = [free |-> m.free, table |-> m.table, pte |-> m.pte, content |-> m.content,
             queue |-> m.queue, va |-> m.va, disk |-> m.disk]
    BY DEF Unmapped
  <2>2. m.pte \in [Mm -> [Page -> Pte]] /\ m.table \in [Mm -> [Dir -> Frame \cup {NoFrame}]]
    BY <1>2, NewPtes
  <2>3. /\ m.content \in [Frame -> Value \cup {Fresh}] /\ m.va \in [Frame -> Page]
        /\ m.disk \in [1..NPAGE -> Value \cup {Fresh}]
    BY <1>1, <1>2
  <2>4. m.free \in SUBSET Frame /\ m.queue \in Seq(Frame)
    BY <1>2
  <2>. HIDE DEF m
  <2>. QED  BY <2>1, <2>2, <2>3, <2>4 DEF Memory
<1>. HIDE DEF m
<1>4. \A mm \in Mm : /\ \A v \in Page : m.pte[mm][v] = Empty
                     /\ \A d \in Dir : m.table[mm][d] = NoFrame
  BY <1>2
<1>5. /\ \A mm \in Mm, v \in Page : \A f : ~Mapped(m, mm, v, f)
      /\ \A mm \in Mm, d \in Dir : \A f \in Frame : ~Tabled(m, mm, d, f)
  BY <1>4, NewPtes, Constants DEF Mapped, Tabled
<1>6. OneUse(m) /\ NoneLost(m, fs)
  BY <1>2, <1>5 DEF OneUse, NoneLost
<1>7. QueueOK(m)
  BY <1>2, <1>4, <1>5, EmptyFacts, NewPtes, Constants DEF QueueOK
<1>. QED  BY <1>3, <1>4, <1>6, <1>7 DEF m

LEMMA MemInit == Init => MemInv
<1>. SUFFICES ASSUME Init  PROVE MemInv
  OBVIOUS
<1>. DEFINE whole == [start |-> 0, end |-> NPAGE,
                      read |-> TRUE, write |-> TRUE, exec |-> FALSE, stack |-> FALSE]
<1>1. whole \in Vma /\ whole.start = 0 /\ whole.end = NPAGE
  BY Constants DEF Vma, Page
<1>. HIDE DEF whole
<1>2. /\ check_mm_struct = check /\ mms = {check} /\ loading = NoMm /\ source = NoMm
      /\ mmap_list = [mm \in Mm |-> IF mm = check THEN <<whole>> ELSE <<>>]
      /\ mmap_cache = [mm \in Mm |-> NoVma]
      /\ memory = Unmapped(CheckFrame)
  BY DEF Init, whole
<1>3. /\ memory \in Memory /\ OneUse(memory) /\ NoneLost(memory, CheckFrame) /\ QueueOK(memory)
      /\ \A mm \in Mm : /\ \A v \in Page : memory.pte[mm][v] = Empty
                        /\ \A d \in Dir : memory.table[mm][d] = NoFrame
  BY <1>2, UnmappedFacts, Constants
<1>4. <<whole>> \in Seq(Vma) /\ Len(<<whole>>) = 1 /\ <<whole>>[1] = whole /\ <<>> \in Seq(Vma)
      /\ Len(<<>>) = 0
  BY <1>1
<1>5. mmap_list \in [Mm -> Seq(Vma)]
  BY <1>2, <1>4
<1>6. TypeOK
  BY <1>2, <1>3, <1>5, Constants DEF TypeOK
<1>7. AbsentOK
  BY <1>2, <1>3 DEF AbsentOK
<1>8. SwapOK
  BY <1>2, <1>3 DEF SwapOK
<1>9. FramesOK
  BY <1>2, <1>3 DEF FramesOK, Pool
<1>10. ListsOK
  <2>1. ASSUME NEW mm \in Mm  PROVE Ordered(mmap_list[mm]) /\ mmap_cache[mm] = NoVma
    <3>1. CASE mm = check
      <4>. PICK list : list = mmap_list[mm]
        OBVIOUS
      <4>1. Len(list) = 1 /\ list[1] = whole
        BY <1>2, <1>4, <3>1
      <4>2. \A i \in 1..Len(list) : i = 1
        BY <4>1
      <4>3. Ordered(list)
        BY <1>1, <4>1, <4>2, Constants DEF Ordered
      <4>. QED  BY <1>2, <4>3
    <3>2. CASE mm # check
      <4>. PICK list : list = mmap_list[mm]
        OBVIOUS
      <4>1. Len(list) = 0
        BY <1>2, <1>4, <3>2
      <4>2. Ordered(list)
        BY <4>1 DEF Ordered
      <4>. QED  BY <1>2, <4>2
    <3>. QED  BY <3>1, <3>2
  <2>. QED  BY <2>1 DEF ListsOK
<1>11. PagesOK /\ ValuesOK
  BY <1>3 DEF PagesOK, ValuesOK
<1>12. CopyOK
  BY <1>2 DEF CopyOK
<1>. QED  BY <1>6, <1>7, <1>8, <1>9, <1>10, <1>11, <1>12 DEF MemInv

\* A new address space has its directory and nothing else.
LEMMA DirectoryKeeps ==
  ASSUME MemInv, NEW mm \in Mm \ (mms \cup {check}), NEW vs \in SUBSET Page,
         check_mm_struct = NoMm, Room(mm, vs), memory' = SetupPgdir(mm), mms' = mms \cup {mm},
         UNCHANGED <<check_mm_struct, mmap_list, mmap_cache>>
  PROVE  /\ memory' \in Memory /\ memory'.pte = memory.pte
         /\ \A other \in Mm, v \in Page : Stored(memory', other, v) = Stored(memory, other, v)
         /\ AbsentOK' /\ SwapOK' /\ FramesOK' /\ ListsOK' /\ PagesOK' /\ ValuesOK'
<1>1. /\ TypeOK /\ memory.table[mm][VPT] = NoFrame /\ VPT \in Dir /\ check # NoMm
      /\ OneUse(memory) /\ NoneLost(memory, Pool) /\ Pool \in SUBSET Frame /\ Pool' = Pool
  BY DirectoryEntry, Constants DEF MemInv, AbsentOK, FramesOK, Pool
<1>2. /\ memory' \in Memory /\ OneUse(memory') /\ NoneLost(memory', Pool)
      /\ \E f \in Frame : TakesTable(memory, memory', mm, VPT, f)
  BY <1>1, DirectorySet
<1>3. PICK f \in Frame : TakesTable(memory, memory', mm, VPT, f)
  BY <1>2
<1>4. /\ memory'.pte = memory.pte /\ memory'.content = memory.content
      /\ memory'.queue = memory.queue /\ memory'.disk = memory.disk
      /\ \A other \in Mm, d \in Dir :
           memory'.table[other][d] = IF other = mm /\ d = VPT THEN f ELSE memory.table[other][d]
  BY <1>3 DEF TakesTable
<1>5. \A other \in Mm, v \in Page : Stored(memory', other, v) = Stored(memory, other, v)
  BY <1>4 DEF Stored
<1>6. AbsentOK'
  BY <1>4 DEF MemInv, AbsentOK
<1>7. SwapOK'
  <2>1. /\ check \notin mms /\ IsInjective(memory.queue)
        /\ \A other \in Mm, v \in Page : memory.pte[other][v].kind # "slot"
        /\ \A other \in mms : other \in Mm /\ memory.table[other][VPT] # NoFrame
    BY <1>1 DEF MemInv, SwapOK, TypeOK
  <2>2. \A other \in mms' : memory'.table[other][VPT] # NoFrame
    BY <1>1, <1>4, <2>1, Constants
  <2>. QED  BY <1>1, <1>4, <2>1, <2>2 DEF SwapOK
<1>8. FramesOK'
  BY <1>1, <1>2 DEF FramesOK
<1>9. ListsOK' /\ ValuesOK'
  BY <1>4, <1>5 DEF MemInv, ListsOK, ValuesOK
<1>10. PagesOK'
  BY <1>4 DEF MemInv, PagesOK, Held
<1>. QED  BY <1>2, <1>4, <1>5, <1>6, <1>7, <1>8, <1>9, <1>10

LEMMA CreateKeeps == ASSUME MemInv, NEW mm \in Mm, Create(mm)  PROVE MemInv'
<1>1. /\ check_mm_struct = NoMm /\ loading = NoMm /\ mm \in Mm \ (mms \cup {check})
      /\ mms' = mms \cup {mm} /\ loading' = mm /\ Room(mm, {}) /\ memory' = SetupPgdir(mm)
      /\ UNCHANGED <<check_mm_struct, source, mmap_list, mmap_cache>>
  BY DEF Create
<1>2. source = NoMm
  BY <1>1 DEF MemInv, CopyOK
<1>3. /\ memory' \in Memory
      /\ AbsentOK' /\ SwapOK' /\ FramesOK' /\ ListsOK' /\ PagesOK' /\ ValuesOK'
  <2>1. {} \in SUBSET Page
    OBVIOUS
  <2>. QED  BY <1>1, <2>1, DirectoryKeeps
<1>4. TypeOK' /\ CopyOK'
  BY <1>1, <1>2, <1>3 DEF MemInv, TypeOK, CopyOK
<1>. QED  BY <1>3, <1>4 DEF MemInv

LEMMA LoadedKeeps == ASSUME MemInv, NEW mm \in Mm, Loaded(mm)  PROVE MemInv'
<1>1. /\ loading = mm /\ source = NoMm /\ loading' = NoMm
      /\ UNCHANGED <<check_mm_struct, mms, source, mmap_list, mmap_cache, memory>>
  BY DEF Loaded, Loading
<1>2. TypeOK'
  BY <1>1 DEF MemInv, TypeOK
<1>3. AbsentOK' /\ SwapOK' /\ CopyOK'
  BY <1>1 DEF MemInv, AbsentOK, SwapOK, CopyOK
<1>4. FramesOK' /\ ListsOK' /\ ValuesOK'
  BY <1>1 DEF MemInv, FramesOK, Pool, ListsOK, ValuesOK
<1>5. PagesOK'
  BY <1>1 DEF MemInv, PagesOK, Held
<1>. QED  BY <1>2, <1>3, <1>4, <1>5 DEF MemInv

LEMMA CopiedKeeps == ASSUME MemInv, NEW child \in Mm, Copied(child)  PROVE MemInv'
<1>1. /\ loading = child /\ source # NoMm /\ loading' = NoMm /\ source' = NoMm
      /\ UNCHANGED <<check_mm_struct, mms, mmap_list, mmap_cache, memory>>
  BY DEF Copied, Copying
<1>2. TypeOK'
  BY <1>1 DEF MemInv, TypeOK
<1>3. AbsentOK' /\ SwapOK' /\ CopyOK'
  BY <1>1 DEF MemInv, AbsentOK, SwapOK, CopyOK
<1>4. FramesOK' /\ ListsOK' /\ ValuesOK'
  BY <1>1 DEF MemInv, FramesOK, Pool, ListsOK, ValuesOK
<1>5. PagesOK'
  BY <1>1 DEF MemInv, PagesOK, Held
<1>. QED  BY <1>2, <1>3, <1>4, <1>5 DEF MemInv

\* The address space of a child starts with nothing but its directory.
LEMMA ForkFacts ==
  ASSUME MemInv, NEW mm \in Mm, NEW child \in Mm \ {check}, Fork(mm, child)
  PROVE  /\ check_mm_struct = NoMm /\ loading = NoMm /\ mm \in mms /\ child \notin mms
         /\ mms' = mms \cup {child} /\ loading' = child /\ source' = mm
         /\ UNCHANGED <<check_mm_struct, mmap_list, mmap_cache>>
         /\ memory' \in Memory /\ memory'.pte = memory.pte
         /\ \A other \in Mm, v \in Page : Stored(memory', other, v) = Stored(memory, other, v)
         /\ AbsentOK' /\ SwapOK' /\ FramesOK' /\ ListsOK' /\ PagesOK' /\ ValuesOK'
<1>. DEFINE present == {v \in Page : Held(mm, v) /\ \E vma \in ToSet(mmap_list[mm]) : Covers(vma, v)}
<1>1. /\ check_mm_struct = NoMm /\ loading = NoMm /\ mm \in mms /\ child \notin mms
      /\ mms' = mms \cup {child} /\ loading' = child /\ source' = mm
      /\ Room(child, present) /\ memory' = SetupPgdir(child)
      /\ UNCHANGED <<check_mm_struct, mmap_list, mmap_cache>>
  BY DEF Fork
<1>2. present \in SUBSET Page /\ child \in Mm \ (mms \cup {check})
  BY <1>1
<1>. HIDE DEF present
<1>. QED  BY <1>1, <1>2, DirectoryKeeps

LEMMA ForkKeeps ==
  ASSUME MemInv, NEW mm \in Mm, NEW child \in Mm \ {check}, Fork(mm, child)
  PROVE  MemInv'
<1>1. /\ check_mm_struct = NoMm /\ loading = NoMm /\ mm \in mms /\ child \notin mms
      /\ mms' = mms \cup {child} /\ loading' = child /\ source' = mm
      /\ UNCHANGED <<check_mm_struct, mmap_list, mmap_cache>>
      /\ memory' \in Memory /\ memory'.pte = memory.pte
      /\ AbsentOK' /\ SwapOK' /\ FramesOK' /\ ListsOK' /\ PagesOK' /\ ValuesOK'
  BY ForkFacts
<1>2. mm # NoMm /\ child # NoMm
  BY Constants
<1>3. TypeOK'
  BY <1>1 DEF MemInv, TypeOK
<1>4. CopyOK'
  <2>1. mmap_list[child] = <<>> /\ \A v \in Page : memory'.pte[child][v] = Empty
    BY <1>1 DEF MemInv, AbsentOK
  <2>2. Len(mmap_list[mm]) \in Nat
    BY ListFacts DEF MemInv, TypeOK
  <2>3. IsEnd(mmap_list[child], mmap_list[mm])
    <3>. PICK list, whole : list = mmap_list[child] /\ whole = mmap_list[mm]
      OBVIOUS
    <3>1. Len(list) = 0 /\ Len(whole) \in Nat
      BY <2>1, <2>2
    <3>2. IsEnd(list, whole)
      BY <3>1 DEF IsEnd
    <3>. QED  BY <3>2
  <2>. QED  BY <1>1, <1>2, <2>1, <2>3 DEF CopyOK
<1>. QED  BY <1>1, <1>3, <1>4 DEF MemInv

LEMMA LoadPageKeeps ==
  ASSUME MemInv, NEW mm \in Mm, NEW v \in Page, NEW x \in Value, LoadPage(mm, v, x)
  PROVE  MemInv'
<1>1. /\ loading = mm /\ source = NoMm /\ memory.pte[mm][v] = Empty /\ Room(mm, {v})
      /\ UNCHANGED <<check_mm_struct, mms, loading, source, mmap_list, mmap_cache>>
  BY DEF LoadPage, Loading
<1>2. PICK vma \in ToSet(mmap_list[mm]) :
        Covers(vma, v) /\ memory' = MapPage(memory, mm, v, vma.write, x)
  BY DEF LoadPage
<1>3. mm \in mms /\ ~Held(mm, v)
  BY <1>1, Constants, NewPtes DEF MemInv, TypeOK, Held
<1>4. memory' \in Memory /\ AbsentOK' /\ SwapOK' /\ FramesOK' /\ PagesOK' /\ ValuesOK'
  BY <1>1, <1>2, <1>3, MappingKeeps
<1>5. TypeOK' /\ ListsOK' /\ CopyOK'
  BY <1>1, <1>4 DEF MemInv, TypeOK, ListsOK, CopyOK
<1>. QED  BY <1>4, <1>5 DEF MemInv

\* A fault that is let through gives a page of a vma a value that it did not have, or
\* the one that was swapped out.
LEMMA FaultFacts ==
  ASSUME MemInv, NEW mm \in Mm, NEW v \in Page, NEW write \in BOOLEAN, PageFault(mm, v, write)
  PROVE  /\ mm \in mms /\ loading = NoMm /\ source = NoMm
         /\ UNCHANGED <<check_mm_struct, mms, loading, source, mmap_list>>
         /\ mmap_cache' \in [Mm -> Vma \cup {NoVma}]
         /\ \A other \in Mm \ {mm} : mmap_cache'[other] = mmap_cache[other]
         /\ mmap_cache'[mm] \in ToSet(mmap_list[mm]) \cup {NoVma}
         /\ \/ UNCHANGED memory
            \/ \E vma \in ToSet(mmap_list[mm]), x \in Value :
                 /\ Covers(vma, v) /\ ~Held(mm, v) /\ Room(mm, {v})
                 /\ memory' = MapPage(memory, mm, v, vma.write, x)
                 /\ memory.pte[mm][v] # Empty => x = Stored(memory, mm, v)
<1>. PICK vma : vma = FindVma(mm, v)
  OBVIOUS
<1>1. /\ mm \in mms /\ loading = NoMm /\ ~Held(mm, v) /\ Cached(mm, v)
      /\ UNCHANGED <<check_mm_struct, mms, loading, source, mmap_list>>
  BY DEF PageFault
<1>2. \/ UNCHANGED memory
      \/ /\ vma # NoVma /\ Room(mm, {v})
         /\ IF memory.pte[mm][v] = Empty
              THEN \E x \in Value : memory' = MapPage(memory, mm, v, vma.write, x)
              ELSE memory' = MapPage(memory, mm, v, vma.write, memory.disk[memory.pte[mm][v].slot])
  BY DEF PageFault
<1>3. source = NoMm
  BY <1>1 DEF MemInv, CopyOK
<1>4. /\ mmap_cache' \in [Mm -> Vma \cup {NoVma}]
      /\ \A other \in Mm \ {mm} : mmap_cache'[other] = mmap_cache[other]
      /\ mmap_cache'[mm] \in ToSet(mmap_list[mm]) \cup {NoVma}
  BY <1>1, CachedFacts DEF MemInv
<1>5. CASE UNCHANGED memory
  BY <1>1, <1>3, <1>4, <1>5
<1>6. CASE ~UNCHANGED memory
  <2>1. vma \in ToSet(mmap_list[mm]) /\ Covers(vma, v) /\ Room(mm, {v})
    BY <1>2, <1>6, FindFacts DEF MemInv
  <2>2. CASE memory.pte[mm][v] = Empty
    <3>1. PICK x \in Value : memory' = MapPage(memory, mm, v, vma.write, x)
      BY <1>2, <1>6, <2>2
    <3>. QED  BY <1>1, <1>3, <1>4, <2>1, <2>2, <3>1
  <2>3. CASE memory.pte[mm][v] # Empty
    <3>. PICK x : x = Stored(memory, mm, v)
      OBVIOUS
    <3>1. memory.pte[mm][v].kind = "slot"
      BY <1>1, <2>3, PteFacts DEF MemInv, TypeOK, Held
    <3>2. x = memory.disk[memory.pte[mm][v].slot] /\ x \in Value
      BY <2>3, <3>1 DEF Stored, MemInv, ValuesOK
    <3>3. memory' = MapPage(memory, mm, v, vma.write, x)
      BY <1>2, <1>6, <2>3, <3>2
    <3>. QED  BY <1>1, <1>3, <1>4, <2>1, <3>2, <3>3
  <2>. QED  BY <2>2, <2>3
<1>. QED  BY <1>5, <1>6

LEMMA PageFaultKeeps ==
  ASSUME MemInv, NEW mm \in Mm, NEW v \in Page, NEW write \in BOOLEAN, PageFault(mm, v, write)
  PROVE  MemInv'
<1>1. /\ mm \in mms /\ loading = NoMm /\ source = NoMm
      /\ UNCHANGED <<check_mm_struct, mms, loading, source, mmap_list>>
      /\ mmap_cache' \in [Mm -> Vma \cup {NoVma}]
      /\ \A other \in Mm \ {mm} : mmap_cache'[other] = mmap_cache[other]
      /\ mmap_cache'[mm] \in ToSet(mmap_list[mm]) \cup {NoVma}
  BY FaultFacts
<1>2. ListsOK' /\ CopyOK'
  BY <1>1 DEF MemInv, ListsOK, CopyOK
<1>3. CASE UNCHANGED memory
  <2>1. TypeOK'
    BY <1>1, <1>3 DEF MemInv, TypeOK
  <2>2. AbsentOK' /\ SwapOK'
    BY <1>1, <1>3 DEF MemInv, AbsentOK, SwapOK
  <2>3. FramesOK' /\ ValuesOK' /\ PagesOK'
    BY <1>1, <1>3 DEF MemInv, FramesOK, Pool, ValuesOK, PagesOK, Held
  <2>. QED  BY <1>2, <2>1, <2>2, <2>3 DEF MemInv
<1>4. CASE ~UNCHANGED memory
  <2>1. PICK vma \in ToSet(mmap_list[mm]), x \in Value :
          /\ Covers(vma, v) /\ ~Held(mm, v) /\ Room(mm, {v})
          /\ memory' = MapPage(memory, mm, v, vma.write, x)
    BY <1>4, FaultFacts
  <2>2. memory' \in Memory /\ AbsentOK' /\ SwapOK' /\ FramesOK' /\ PagesOK' /\ ValuesOK'
    BY <1>1, <2>1, MappingKeeps
  <2>3. TypeOK'
    BY <1>1, <2>2 DEF MemInv, TypeOK
  <2>. QED  BY <1>2, <2>2, <2>3 DEF MemInv
<1>. QED  BY <1>3, <1>4

\* A write changes its own page alone.
LEMMA WriteFacts ==
  ASSUME MemInv, NEW mm \in Mm, NEW v \in Page, NEW x \in Value, Write(mm, v, x)
  PROVE  /\ mm \in mms /\ source = NoMm
         /\ UNCHANGED <<check_mm_struct, mms, loading, source, mmap_list, mmap_cache>>
         /\ Held(mm, v) /\ memory.pte[mm][v].write
         /\ memory' \in Memory
         /\ memory'.free = memory.free /\ memory'.table = memory.table
         /\ memory'.pte = memory.pte /\ memory'.queue = memory.queue /\ memory'.va = memory.va
         /\ \A other \in Mm, u \in Page :
              Stored(memory', other, u) = IF other = mm /\ u = v THEN x
                                          ELSE Stored(memory, other, u)
<1>1. /\ mm \in mms /\ loading = NoMm /\ Held(mm, v) /\ memory.pte[mm][v].write
      /\ memory' = [memory EXCEPT !.content[memory.pte[mm][v].frame] = x]
      /\ UNCHANGED <<check_mm_struct, mms, loading, source, mmap_list, mmap_cache>>
  BY DEF Write
<1>2. source = NoMm /\ memory \in Memory
  BY <1>1 DEF MemInv, CopyOK, TypeOK
<1>. DEFINE f == memory.pte[mm][v].frame  content1 == [memory.content EXCEPT ![f] = x]
<1>3. f \in Frame /\ memory.pte[mm][v].kind = "frame"
  BY <1>1, <1>2, PteFacts DEF Held
<1>4. /\ memory'.free = memory.free /\ memory'.table = memory.table
      /\ memory'.pte = memory.pte /\ memory'.queue = memory.queue /\ memory'.va = memory.va
      /\ memory'.disk = memory.disk /\ memory'.content = content1
  BY <1>1, <1>2 DEF Memory
<1>5. memory' = [free |-> memory'.free, table |-> memory'.table, pte |-> memory'.pte,
                 content |-> memory'.content, queue |-> memory'.queue, va |-> memory'.va,
                 disk |-> memory'.disk]
  BY <1>1, <1>2 DEF Memory
<1>6. \A g \in Frame : content1[g] = IF g = f THEN x ELSE memory.content[g]
  BY <1>2, <1>3, MemoryFields
<1>7. content1 \in [Frame -> Value \cup {Fresh}]
  BY <1>2, <1>3, MemoryFields
<1>. HIDE DEF content1, f
<1>8. memory' \in Memory
  <2>. PICK m : m = memory
    OBVIOUS
  <2>. PICK r : r = memory'
    OBVIOUS
  <2>1. m \in Memory
    BY <1>2
  <2>2. /\ r = [free |-> r.free, table |-> r.table, pte |-> r.pte, content |-> r.content,
                queue |-> r.queue, va |-> r.va, disk |-> r.disk]
        /\ r.free = m.free /\ r.table = m.table /\ r.pte = m.pte /\ r.queue = m.queue
        /\ r.va = m.va /\ r.disk = m.disk /\ r.content = content1
    BY <1>4, <1>5
  <2>3. r \in Memory
    BY <1>7, <2>1, <2>2, MemoryFields DEF Memory
  <2>. QED  BY <2>3
<1>9. ASSUME NEW other \in Mm, NEW u \in Page
      PROVE  Stored(memory', other, u) = IF other = mm /\ u = v THEN x
                                         ELSE Stored(memory, other, u)
  <2>1. memory.pte[other][u].kind = "frame" => memory.pte[other][u].frame \in Frame
    BY <1>2, PteFacts
  <2>2. memory.pte[other][u].kind = "frame" /\ memory.pte[other][u].frame = f
          => other = mm /\ u = v
    BY <1>3, <2>1 DEF MemInv, FramesOK, OneUse, Mapped, f
  <2>3. CASE other = mm /\ u = v
    BY <1>3, <1>4, <1>6, <2>3 DEF Stored, f
  <2>4. CASE ~(other = mm /\ u = v)
    BY <1>4, <1>6, <2>1, <2>2, <2>4 DEF Stored
  <2>. QED  BY <2>3, <2>4
<1>. QED  BY <1>1, <1>2, <1>4, <1>8, <1>9

LEMMA WriteKeeps ==
  ASSUME MemInv, NEW mm \in Mm, NEW v \in Page, NEW x \in Value, Write(mm, v, x)
  PROVE  MemInv'
<1>1. /\ mm \in mms /\ source = NoMm
      /\ UNCHANGED <<check_mm_struct, mms, loading, source, mmap_list, mmap_cache>>
      /\ memory' \in Memory
      /\ memory'.free = memory.free /\ memory'.table = memory.table
      /\ memory'.pte = memory.pte /\ memory'.queue = memory.queue /\ memory'.va = memory.va
      /\ \A other \in Mm, u \in Page :
           Stored(memory', other, u) = IF other = mm /\ u = v THEN x
                                       ELSE Stored(memory, other, u)
  BY WriteFacts
<1>2. TypeOK'
  BY <1>1 DEF MemInv, TypeOK
<1>3. AbsentOK' /\ ListsOK' /\ CopyOK'
  BY <1>1 DEF MemInv, AbsentOK, ListsOK, CopyOK
<1>4. /\ \A other \in Mm, u \in Page : \A g :
           Mapped(memory', other, u, g) <=> Mapped(memory, other, u, g)
      /\ \A other \in Mm, d \in Dir : \A g :
           Tabled(memory', other, d, g) <=> Tabled(memory, other, d, g)
  BY <1>1 DEF Mapped, Tabled
<1>5. FramesOK'
  BY <1>1, <1>4 DEF MemInv, FramesOK, Pool, OneUse, NoneLost
<1>6. QueueOK(memory) => QueueOK(memory')
  BY <1>1, <1>4, Constants DEF QueueOK
<1>7. SwapOK'
  BY <1>1, <1>6 DEF MemInv, SwapOK
<1>8. PagesOK'
  BY <1>1 DEF MemInv, PagesOK, Held
<1>9. ValuesOK'
  BY <1>1 DEF MemInv, ValuesOK
<1>. QED  BY <1>2, <1>3, <1>5, <1>7, <1>8, <1>9 DEF MemInv

\* Only the vmas and the cache of mm change, and only by a vma that fits in.
VmaAdded(mm, vma) ==
  /\ FitsIn(mmap_list[mm], vma)
  /\ mmap_list' = [mmap_list EXCEPT ![mm] = InsertVma(@, vma)]

LEMMA AddingKeeps ==
  ASSUME MemInv, check_mm_struct = NoMm, NEW mm \in mms, NEW vma \in Vma, VmaAdded(mm, vma),
         mmap_cache' \in [Mm -> Vma \cup {NoVma}],
         \A other \in Mm \ {mm} : mmap_cache'[other] = mmap_cache[other],
         mmap_cache'[mm] \in ToSet(mmap_list[mm]) \cup {NoVma},
         UNCHANGED <<check_mm_struct, mms, loading, source, memory>>
  PROVE  /\ TypeOK' /\ AbsentOK' /\ SwapOK' /\ FramesOK' /\ ListsOK' /\ PagesOK' /\ ValuesOK'
         /\ \A other \in Mm : ToSet(mmap_list[other]) \subseteq ToSet(mmap_list'[other])
<1>1. /\ mm \in Mm /\ mmap_list[mm] \in Seq(Vma) /\ Ordered(mmap_list[mm])
      /\ mmap_list \in [Mm -> Seq(Vma)] /\ check_mm_struct # check
  BY Constants DEF MemInv, TypeOK, ListsOK
<1>2. /\ InsertVma(mmap_list[mm], vma) \in Seq(Vma)
      /\ ToSet(InsertVma(mmap_list[mm], vma)) = ToSet(mmap_list[mm]) \cup {vma}
      /\ Ordered(InsertVma(mmap_list[mm], vma))
  BY <1>1, InsertFacts DEF VmaAdded
<1>3. /\ mmap_list' \in [Mm -> Seq(Vma)]
      /\ \A other \in Mm \ {mm} : mmap_list'[other] = mmap_list[other]
      /\ ToSet(mmap_list'[mm]) = ToSet(mmap_list[mm]) \cup {vma}
      /\ Ordered(mmap_list'[mm])
  BY <1>1, <1>2 DEF VmaAdded
<1>4. \A other \in Mm : ToSet(mmap_list[other]) \subseteq ToSet(mmap_list'[other])
  BY <1>3
<1>5. TypeOK'
  BY <1>3 DEF MemInv, TypeOK
<1>6. AbsentOK'
  BY <1>3 DEF MemInv, AbsentOK
<1>7. SwapOK'
  BY <1>1 DEF MemInv, SwapOK
<1>8. FramesOK' /\ ValuesOK'
  BY DEF MemInv, FramesOK, Pool, ValuesOK
<1>9. ListsOK'
  BY <1>3 DEF MemInv, ListsOK
<1>10. PagesOK'
  BY <1>4 DEF MemInv, PagesOK, Held
<1>. QED  BY <1>4, <1>5, <1>6, <1>7, <1>8, <1>9, <1>10

\* A refused segment leaves the vmas, an accepted one fits in.
LEMMA MmMapFacts ==
  ASSUME MemInv, NEW mm \in Mm, NEW vma \in Segment, MmMap(mm, vma)
  PROVE  /\ mm \in mms /\ loading = mm /\ source = NoMm /\ check_mm_struct = NoMm
         /\ UNCHANGED <<check_mm_struct, mms, loading, source, memory>>
         /\ mmap_cache' \in [Mm -> Vma \cup {NoVma}]
         /\ \A other \in Mm \ {mm} : mmap_cache'[other] = mmap_cache[other]
         /\ mmap_cache'[mm] \in ToSet(mmap_list[mm]) \cup {NoVma}
         /\ UNCHANGED mmap_list \/ VmaAdded(mm, vma)
<1>1. /\ loading = mm /\ source = NoMm /\ Cached(mm, vma.start)
      /\ UNCHANGED <<check_mm_struct, mms, loading, source, memory>>
      /\ UNCHANGED mmap_list \/ VmaAdded(mm, vma)
  BY DEF MmMap, Loading, VmaAdded
<1>2. mm \in mms /\ check_mm_struct = NoMm
  BY <1>1, Constants DEF MemInv, TypeOK, SwapOK
<1>3. /\ mmap_cache' \in [Mm -> Vma \cup {NoVma}]
      /\ \A other \in Mm \ {mm} : mmap_cache'[other] = mmap_cache[other]
      /\ mmap_cache'[mm] \in ToSet(mmap_list[mm]) \cup {NoVma}
  BY <1>1, CachedFacts DEF MemInv
<1>. QED  BY <1>1, <1>2, <1>3

LEMMA MmMapKeeps ==
  ASSUME MemInv, NEW mm \in Mm, NEW vma \in Segment, MmMap(mm, vma)
  PROVE  MemInv'
<1>1. /\ mm \in mms /\ loading = mm /\ source = NoMm /\ check_mm_struct = NoMm
      /\ UNCHANGED <<check_mm_struct, mms, loading, source, memory>>
      /\ mmap_cache' \in [Mm -> Vma \cup {NoVma}]
      /\ \A other \in Mm \ {mm} : mmap_cache'[other] = mmap_cache[other]
      /\ mmap_cache'[mm] \in ToSet(mmap_list[mm]) \cup {NoVma}
  BY MmMapFacts
<1>2. CopyOK'
  BY <1>1 DEF CopyOK
<1>3. CASE UNCHANGED mmap_list
  <2>1. TypeOK' /\ AbsentOK' /\ SwapOK'
    BY <1>1, <1>3 DEF MemInv, TypeOK, AbsentOK, SwapOK
  <2>2. FramesOK' /\ ValuesOK' /\ PagesOK' /\ ListsOK'
    BY <1>1, <1>3 DEF MemInv, FramesOK, Pool, ValuesOK, PagesOK, Held, ListsOK
  <2>. QED  BY <1>2, <2>1, <2>2 DEF MemInv
<1>4. CASE VmaAdded(mm, vma)
  <2>1. vma \in Vma
    BY Constants
  <2>2. TypeOK' /\ AbsentOK' /\ SwapOK' /\ FramesOK' /\ ListsOK' /\ PagesOK' /\ ValuesOK'
    BY <1>1, <1>4, <2>1, AddingKeeps
  <2>. QED  BY <1>2, <2>2 DEF MemInv
<1>. QED  BY <1>3, <1>4, MmMapFacts

\* list has n fewer vmas than whole.
Lacks(list, whole, n) == n \in Nat \ {0} /\ Len(whole) = Len(list) + n

\* What a child lacks of its parent's vmas comes before what it has got.
LEMMA EndInserted ==
  ASSUME NEW list \in Seq(Vma), NEW whole \in Seq(Vma), Ordered(list), Ordered(whole),
         IsEnd(list, whole), NEW n \in Nat, Lacks(list, whole, n)
  PROVE  whole[n] \in Vma /\ IsEnd(InsertVma(list, whole[n]), whole)
<1>. DEFINE c == Len(list)  vma == whole[n]
<1>1. /\ c \in Nat /\ n \in Nat /\ n > 0 /\ Len(whole) = c + n
      /\ \A i \in 1..c : list[i] = whole[i + n] /\ list[i] \in Vma
      /\ \A i \in 1..c + n : whole[i] \in Vma
  <2>1. c \in Nat /\ n > 0 /\ Len(whole) = c + n /\ Len(whole) - Len(list) = n
    BY ListFacts DEF Lacks
  <2>. QED  BY <2>1, ListFacts DEF IsEnd
<1>2. n \in 1..c + n /\ vma \in Vma
  BY <1>1
<1>3. Passed(list, vma) = 0
  <2>. PICK k : k = Passed(list, vma)
    OBVIOUS
  <2>1. k \in 0..c /\ \A i \in 1..k : list[i].start <= vma.start
    BY <1>2, PassedFacts
  <2>2. SUFFICES ASSUME k >= 1  PROVE FALSE
    BY <1>1, <2>1
  <2>3. 1 \in 1..k /\ 1 \in 1..c /\ 1 + n \in 1..c + n
    BY <1>1, <2>1, <2>2
  <2>4. list[1].start <= vma.start /\ list[1] = whole[1 + n]
    BY <1>1, <2>1, <2>3
  <2>5. vma.start < vma.end /\ vma.end <= whole[1 + n].start
    <3>1. n < 1 + n /\ Len(whole) = c + n
      BY <1>1
    <3>. QED  BY <1>2, <2>3, <3>1 DEF Ordered
  <2>6. vma.start \in Nat /\ vma.end \in Nat /\ list[1].start \in Nat
    BY <1>1, <1>2, <2>3, VmaFacts
  <2>. QED  BY <2>4, <2>5, <2>6
<1>. DEFINE r == InsertVma(list, vma)
<1>4. /\ r \in Seq(Vma) /\ Len(r) = c + 1
      /\ \A i \in 1..c + 1 : r[i] = IF i = 1 THEN vma ELSE list[i - 1]
  <2>0. PICK k : k = 0
    OBVIOUS
  <2>1. r = InsertAt(list, k + 1, vma) /\ k \in 0..Len(list)
    BY <1>1, <1>3, <2>0 DEF InsertVma
  <2>. HIDE DEF vma
  <2>2. vma \in Vma /\ k \in 0..Len(list)
    BY <1>2, <2>1
  <2>3. /\ InsertAt(list, k + 1, vma) \in Seq(Vma)
        /\ Len(InsertAt(list, k + 1, vma)) = Len(list) + 1
        /\ \A i \in 1..Len(list) + 1 :
             InsertAt(list, k + 1, vma)[i]
               = IF i <= k THEN list[i] ELSE IF i = k + 1 THEN vma ELSE list[i - 1]
    BY <2>2, InsertAtFacts
  <2>. HIDE DEF r
  <2>4. /\ r \in Seq(Vma) /\ Len(r) = Len(list) + 1
        /\ \A i \in 1..Len(list) + 1 :
             r[i] = IF i <= k THEN list[i] ELSE IF i = k + 1 THEN vma ELSE list[i - 1]
    BY <2>1, <2>3
  <2>5. ASSUME NEW i \in 1..Len(list) + 1
        PROVE  r[i] = IF i = 1 THEN vma ELSE list[i - 1]
    <3>1. ~(i <= k) /\ (i = k + 1 <=> i = 1)
      BY <1>1, <2>0
    <3>2. r[i] = IF i <= k THEN list[i] ELSE IF i = k + 1 THEN vma ELSE list[i - 1]
      BY <2>4
    <3>. QED  BY <3>1, <3>2
  <2>. QED  BY <2>4, <2>5
<1>. HIDE DEF r, c
<1>5. ASSUME NEW i \in 1..c + 1  PROVE r[i] = whole[i + (n - 1)]
  <2>1. CASE i = 1
    BY <1>1, <1>4, <2>1
  <2>2. CASE i # 1
    <3>1. i - 1 \in 1..c /\ (i - 1) + n = i + (n - 1)
      BY <1>1, <2>2
    <3>2. r[i] = list[i - 1]
      BY <1>4, <2>2
    <3>3. \A j \in 1..c : list[j] = whole[j + n]
      BY <1>1
    <3>. PICK j : j = i - 1
      OBVIOUS
    <3>4. list[j] = whole[j + n] /\ j + n = i + (n - 1)
      BY <3>1, <3>3
    <3>. QED  BY <3>2, <3>4
  <2>. QED  BY <2>1, <2>2
<1>6. Len(whole) - Len(r) = n - 1 /\ n - 1 \in Nat
  BY <1>1, <1>4
<1>. HIDE DEF vma
<1>7. IsEnd(r, whole)
  <2>1. Len(r) = c + 1
    BY <1>4
  <2>. QED  BY <1>5, <1>6, <2>1 DEF IsEnd
<1>. QED  BY <1>2, <1>7 DEF r, vma

LEMMA CopyVmaFacts ==
  ASSUME MemInv, NEW child \in Mm, CopyVma(child)
  PROVE  /\ child \in mms /\ loading = child /\ source \in mms /\ source # child
         /\ check_mm_struct = NoMm
         /\ UNCHANGED <<check_mm_struct, mms, loading, source, mmap_cache, memory>>
         /\ IsEnd(mmap_list[child], mmap_list[source])
         /\ LET n == Len(mmap_list[source]) - Len(mmap_list[child]) IN
            n > 0 /\ VmaAdded(child, mmap_list[source][n])
<1>1. /\ loading = child /\ source # NoMm
      /\ UNCHANGED <<check_mm_struct, mms, loading, source, mmap_cache, memory>>
      /\ LET n == Len(mmap_list[source]) - Len(mmap_list[child]) IN
            n > 0 /\ VmaAdded(child, mmap_list[source][n])
  BY DEF CopyVma, Copying, VmaAdded
<1>2. child \in mms /\ source \in mms
  BY <1>1, Constants DEF MemInv, TypeOK
<1>3. source # child /\ IsEnd(mmap_list[child], mmap_list[source])
  BY <1>1 DEF MemInv, CopyOK
<1>4. check_mm_struct = NoMm
  BY <1>1, Constants DEF MemInv, TypeOK, SwapOK
<1>. QED  BY <1>1, <1>2, <1>3, <1>4

LEMMA CopyVmaKeeps == ASSUME MemInv, NEW child \in Mm, CopyVma(child)  PROVE MemInv'
<1>w. PICK list, whole : list = mmap_list[child] /\ whole = mmap_list[source]
  OBVIOUS
<1>0. PICK n : n = Len(whole) - Len(list)
  OBVIOUS
<1>1. /\ child \in mms /\ loading = child /\ source \in mms /\ source # child
      /\ check_mm_struct = NoMm
      /\ UNCHANGED <<check_mm_struct, mms, loading, source, mmap_cache, memory>>
      /\ IsEnd(list, whole) /\ n > 0 /\ VmaAdded(child, whole[n])
  BY <1>w, <1>0, CopyVmaFacts
<1>2. /\ list \in Seq(Vma) /\ whole \in Seq(Vma) /\ Ordered(list) /\ Ordered(whole)
      /\ source \in Mm /\ mmap_list \in [Mm -> Seq(Vma)]
  BY <1>w, <1>1 DEF MemInv, TypeOK, ListsOK
<1>3. whole[n] \in Vma /\ IsEnd(InsertVma(list, whole[n]), whole)
  <2>1. n \in Nat /\ Lacks(list, whole, n)
    <3>1. Len(list) \in Nat /\ Len(whole) \in Nat /\ n > 0
      BY <1>1, <1>2, ListFacts
    <3>. QED  BY <1>0, <3>1 DEF Lacks
  <2>. QED  BY <1>1, <1>2, <2>1, EndInserted
<1>4. /\ mmap_cache' \in [Mm -> Vma \cup {NoVma}]
      /\ \A other \in Mm \ {child} : mmap_cache'[other] = mmap_cache[other]
      /\ mmap_cache'[child] \in ToSet(mmap_list[child]) \cup {NoVma}
  BY <1>1 DEF MemInv, TypeOK, ListsOK
<1>5. TypeOK' /\ AbsentOK' /\ SwapOK' /\ FramesOK' /\ ListsOK' /\ PagesOK' /\ ValuesOK'
  BY <1>1, <1>3, <1>4, AddingKeeps
<1>6. mmap_list'[child] = InsertVma(list, whole[n]) /\ mmap_list'[source] = whole
  BY <1>w, <1>1, <1>2 DEF VmaAdded
<1>7. CopyOK'
  BY <1>1, <1>3, <1>6 DEF MemInv, CopyOK, Held
<1>. QED  BY <1>5, <1>7 DEF MemInv

\* A page is copied with the rights of the child's vma, which is its parent's.
LEMMA CopyPageFacts ==
  ASSUME MemInv, NEW child \in Mm, NEW v \in Page, CopyPage(child, v)
  PROVE  /\ child \in mms /\ loading = child /\ source \in mms /\ source # child
         /\ check_mm_struct = NoMm
         /\ UNCHANGED <<check_mm_struct, mms, loading, source, mmap_list, mmap_cache>>
         /\ \E vma \in ToSet(mmap_list[child]), x \in Value :
              /\ Covers(vma, v) /\ ~Held(child, v) /\ Room(child, {v})
              /\ memory' = MapPage(memory, child, v, vma.write, x)
              /\ Held(source, v) /\ x = Stored(memory, source, v)
<1>1. /\ loading = child /\ source # NoMm /\ Held(source, v) /\ ~Held(child, v)
      /\ Room(child, {v}) /\ memory' = Copy(source, child, v)
      /\ UNCHANGED <<check_mm_struct, mms, loading, source, mmap_list, mmap_cache>>
  BY DEF CopyPage, Copying
<1>2. PICK vma \in ToSet(mmap_list[child]) : Covers(vma, v)
  BY DEF CopyPage
<1>3. child \in mms /\ source \in mms /\ source \in Mm
  BY <1>1, Constants DEF MemInv, TypeOK
<1>4. source # child /\ IsEnd(mmap_list[child], mmap_list[source])
  BY <1>1 DEF MemInv, CopyOK
<1>5. check_mm_struct = NoMm
  BY <1>1, Constants DEF MemInv, TypeOK, SwapOK
<1>w. PICK list, whole : list = mmap_list[child] /\ whole = mmap_list[source]
  OBVIOUS
<1>6. list \in Seq(Vma) /\ whole \in Seq(Vma) /\ Ordered(whole)
  BY <1>w, <1>3 DEF MemInv, TypeOK, ListsOK
<1>7. vma \in ToSet(whole)
  <2>1. PICK i \in 1..Len(list) : list[i] = vma
    BY <1>w, <1>2, <1>6, ListFacts
  <2>2. PICK n : n = Len(whole) - Len(list) /\ n \in Nat /\ list[i] = whole[i + n]
    BY <1>w, <1>4 DEF IsEnd
  <2>3. i + n \in 1..Len(whole)
    <3>1. Len(list) \in Nat /\ Len(whole) \in Nat
      BY <1>6, ListFacts
    <3>. QED  BY <2>2, <3>1
  <2>. QED  BY <1>6, <2>1, <2>2, <2>3, ListFacts
<1>8. memory.pte[source][v] # Empty
  BY <1>1, NewPtes DEF Held
<1>9. memory.pte[source][v].write = vma.write
  <2>1. PICK other \in ToSet(whole) : Covers(other, v) /\ memory.pte[source][v].write = other.write
    BY <1>w, <1>1, <1>3, <1>8 DEF MemInv, PagesOK
  <2>2. v \in Nat
    BY Constants DEF Page
  <2>3. other = vma
    BY <1>w, <1>2, <1>6, <1>7, <2>1, <2>2, CoverOnce
  <2>. QED  BY <2>1, <2>3
<1>. PICK x : x = Stored(memory, source, v)
  OBVIOUS
<1>10. x \in Value
  BY <1>3, <1>8 DEF MemInv, ValuesOK
<1>11. x = memory.content[memory.pte[source][v].frame]
  BY <1>1 DEF Held, Stored
<1>12. memory' = MapPage(memory, child, v, vma.write, x)
  BY <1>1, <1>9, <1>11 DEF Copy
<1>. QED  BY <1>1, <1>2, <1>3, <1>4, <1>5, <1>10, <1>12

LEMMA CopyPageKeeps ==
  ASSUME MemInv, NEW child \in Mm, NEW v \in Page, CopyPage(child, v)
  PROVE  MemInv'
<1>1. /\ child \in mms /\ loading = child /\ source \in mms /\ source # child
      /\ check_mm_struct = NoMm
      /\ UNCHANGED <<check_mm_struct, mms, loading, source, mmap_list, mmap_cache>>
  BY CopyPageFacts
<1>2. PICK vma \in ToSet(mmap_list[child]), x \in Value :
        /\ Covers(vma, v) /\ ~Held(child, v) /\ Room(child, {v})
        /\ memory' = MapPage(memory, child, v, vma.write, x)
        /\ Held(source, v) /\ x = Stored(memory, source, v)
  BY CopyPageFacts
<1>3. /\ memory' \in Memory /\ Maps(memory, memory', child, v, vma.write, x)
      /\ AbsentOK' /\ SwapOK' /\ FramesOK' /\ PagesOK' /\ ValuesOK'
  BY <1>1, <1>2, MappingKeeps
<1>4. TypeOK' /\ ListsOK'
  BY <1>1, <1>3 DEF MemInv, TypeOK, ListsOK
<1>5. source \in Mm /\ source # check /\ child # check /\ source # NoMm
  BY <1>1, Constants DEF MemInv, SwapOK, TypeOK
<1>6. /\ memory'.pte[child][v].kind = "frame" /\ Stored(memory', child, v) = x
      /\ \A other \in {child, source}, u \in Page : ~(other = child /\ u = v) =>
           /\ Stored(memory', other, u) = Stored(memory, other, u)
           /\ memory'.pte[other][u] = memory.pte[other][u]
  BY <1>3, <1>5 DEF Maps
<1>7. CopyOK'
  <2>1. IsEnd(mmap_list[child], mmap_list[source])
    BY <1>1, <1>5 DEF MemInv, CopyOK
  <2>2. ASSUME NEW u \in Page, memory'.pte[child][u] # Empty
        PROVE  /\ memory'.pte[source][u].kind = "frame" /\ memory'.pte[child][u].kind = "frame"
               /\ Stored(memory', child, u) = Stored(memory', source, u)
    <3>1. CASE u = v
      BY <1>1, <1>2, <1>6, <3>1 DEF Held
    <3>2. CASE u # v
      BY <1>1, <1>5, <1>6, <2>2, <3>2 DEF MemInv, CopyOK, Held
    <3>. QED  BY <3>1, <3>2
  <2>3. loading' = child /\ source' = source /\ child # NoMm /\ child # source
        /\ mmap_list' = mmap_list
    BY <1>1, Constants DEF MemInv, TypeOK
  <2>. QED  BY <2>1, <2>2, <2>3 DEF CopyOK, Held
<1>. QED  BY <1>3, <1>4, <1>7 DEF MemInv

\* From m to r the address space mm loses all its pages, its page tables and its
\* directory, and only these become free.
Frees(m, r, mm) ==
  /\ \A other \in Mm, v \in Page :
       r.pte[other][v] = IF other = mm THEN Empty ELSE m.pte[other][v]
  /\ \A other \in Mm, d \in Dir :
       r.table[other][d] = IF other = mm THEN NoFrame ELSE m.table[other][d]
  /\ \A f \in Frame : f \in r.free <=> \/ f \in m.free
                                       \/ \E v \in Page : Mapped(m, mm, v, f)
                                       \/ \E d \in Dir : Tabled(m, mm, d, f)
  /\ \A f \in Frame : r.content[f] = m.content[f] \/ \E v \in Page : Mapped(m, mm, v, f)
  /\ r.queue = m.queue /\ r.disk = m.disk

LEMMA AllFreed ==
  ASSUME NEW m \in Memory, NEW r \in Memory, NEW mm \in Mm, NEW pool \in SUBSET Frame,
         OneUse(m), NoneLost(m, pool), Frees(m, r, mm)
  PROVE  /\ OneUse(r) /\ NoneLost(r, pool)
         /\ \A other \in Mm \ {mm}, v \in Page : Stored(r, other, v) = Stored(m, other, v)
<1>1. \A other \in Mm, v \in Page : \A f :
        Mapped(r, other, v, f) <=> other # mm /\ Mapped(m, other, v, f)
  BY NewPtes DEF Mapped, Frees
<1>2. \A other \in Mm, d \in Dir : \A f \in Frame :
        Tabled(r, other, d, f) <=> other # mm /\ Tabled(m, other, d, f)
  BY Constants DEF Tabled, Frees
<1>3. \A f \in Frame : f \in r.free <=> \/ f \in m.free
                                        \/ \E v \in Page : Mapped(m, mm, v, f)
                                        \/ \E d \in Dir : Tabled(m, mm, d, f)
  BY DEF Frees
<1>4. OneUse(r)
  BY <1>1, <1>2, <1>3 DEF OneUse
<1>5. NoneLost(r, pool)
  <2>1. ASSUME NEW f \in pool
        PROVE  \/ f \in r.free
               \/ \E other \in Mm, v \in Page : Mapped(r, other, v, f)
               \/ \E other \in Mm, d \in Dir : Tabled(r, other, d, f)
    BY <1>1, <1>2, <1>3 DEF NoneLost
  <2>. QED  BY <2>1 DEF NoneLost
<1>6. ASSUME NEW other \in Mm \ {mm}, NEW v \in Page  PROVE Stored(r, other, v) = Stored(m, other, v)
  <2>1. r.pte[other][v] = m.pte[other][v] /\ r.disk = m.disk
    BY DEF Frees
  <2>2. CASE m.pte[other][v].kind = "frame"
    <3>. PICK f : f = m.pte[other][v].frame
      OBVIOUS
    <3>1. f \in Frame /\ Mapped(m, other, v, f)
      BY <2>2, PteFacts DEF Mapped
    <3>2. ~\E u \in Page : Mapped(m, mm, u, f)
      BY <3>1 DEF OneUse
    <3>3. r.content[f] = m.content[f]
      BY <3>1, <3>2 DEF Frees
    <3>. QED  BY <2>1, <3>3 DEF Stored
  <2>. QED  BY <2>1, <2>2 DEF Stored
<1>. QED  BY <1>4, <1>5, <1>6

\* All the pages and page tables of mm are under its vmas; put_pgdir frees the directory.
LEMMA DestroyFacts ==
  ASSUME MemInv, NEW mm \in Mm, Destroy(mm)
  PROVE  /\ mm \in mms /\ check_mm_struct = NoMm /\ loading \in {NoMm, mm} /\ source = NoMm
         /\ mms' = mms \ {mm} /\ loading' = NoMm /\ UNCHANGED <<check_mm_struct, source>>
         /\ mmap_list' = [mmap_list EXCEPT ![mm] = <<>>]
         /\ mmap_cache' = [mmap_cache EXCEPT ![mm] = NoVma]
         /\ memory' \in Memory /\ Frees(memory, memory', mm)
<1>. DEFINE mapped == UNION {Pages(vma) : vma \in ToSet(mmap_list[mm])}
            frames == {memory.pte[mm][v].frame : v \in {u \in mapped : Held(mm, u)}}
            tables == TablesPut(mmap_list[mm])
            free1 == (memory.free \cup frames \cup {memory.table[mm][d] : d \in tables}) \ {NoFrame}
            content1 == [f \in Frame |-> IF f \in frames THEN Fresh ELSE memory.content[f]]
            pte1 == [memory.pte EXCEPT ![mm] = [v \in Page |-> Empty]]
            table1 == [memory.table EXCEPT ![mm] = [d \in Dir |-> NoFrame]]
<1>1. /\ mm \in mms /\ check_mm_struct = NoMm /\ loading \in {NoMm, mm} /\ source = NoMm
      /\ mms' = mms \ {mm} /\ loading' = NoMm /\ UNCHANGED <<check_mm_struct, source>>
      /\ mmap_list' = [mmap_list EXCEPT ![mm] = <<>>]
      /\ mmap_cache' = [mmap_cache EXCEPT ![mm] = NoVma]
  BY DEF Destroy
<1>2. memory' = [memory EXCEPT !.free = free1, !.content = content1, !.pte = pte1,
                               !.table = table1]
  BY DEF Destroy
<1>3. memory \in Memory /\ mmap_list[mm] \in Seq(Vma)
  BY DEF MemInv, TypeOK
<1>4. /\ \A v \in mapped : v \in Page /\ \E vma \in ToSet(mmap_list[mm]) : v \in Pages(vma)
      /\ \A v \in Page, vma \in ToSet(mmap_list[mm]) : Covers(vma, v) => v \in Pages(vma) /\ v \in mapped
  <2>1. ASSUME NEW vma \in ToSet(mmap_list[mm])
        PROVE  /\ Pages(vma) \subseteq Page
               /\ \A v \in Page : Covers(vma, v) => v \in Pages(vma)
    <3>1. vma \in Vma
      BY <1>3, ListFacts
    <3>. QED  BY <3>1, VmaFacts, Constants DEF Pages, Covers, Page
  <2>. QED  BY <2>1
<1>5. \A f : f \in frames <=> \E v \in Page : Mapped(memory, mm, v, f)
  <2>1. ASSUME NEW v \in Page, NEW f, Mapped(memory, mm, v, f)
        PROVE  v \in mapped /\ Held(mm, v) /\ memory.pte[mm][v].frame = f
    <3>1. memory.pte[mm][v] # Empty
      BY <2>1, NewPtes DEF Mapped
    <3>2. \E vma \in ToSet(mmap_list[mm]) : Covers(vma, v)
      BY <3>1 DEF MemInv, PagesOK
    <3>. QED  BY <1>4, <2>1, <3>2 DEF Mapped, Held
  <2>. HIDE DEF mapped
  <2>. QED  BY <1>4, <2>1 DEF Mapped, Held
<1>6. /\ tables \subseteq Dir
      /\ \A d \in Dir : memory.table[mm][d] # NoFrame => d \in tables
  <2>1. tables = {DirOf(v) : v \in mapped} \cup {VPT}
    BY DEF TablesPut, TablesUnder
  <2>2. ASSUME NEW d \in Dir, memory.table[mm][d] # NoFrame  PROVE d \in tables
    <3>1. CASE d = VPT
      BY <2>1, <3>1
    <3>2. CASE d # VPT
      <4>1. PICK v \in Page, vma \in ToSet(mmap_list[mm]) : DirOf(v) = d /\ Covers(vma, v)
        BY <2>2, <3>2 DEF MemInv, PagesOK
      <4>. QED  BY <1>4, <2>1, <4>1
    <3>. QED  BY <3>1, <3>2
  <2>. HIDE DEF tables, mapped
  <2>. QED  BY <1>4, <2>1, <2>2, DirOfPage, DirectoryEntry
<1>7. frames \subseteq Frame
  <2>1. \A v \in Page : \A f : Mapped(memory, mm, v, f) => f \in Frame
    BY <1>3, PteFacts DEF Mapped
  <2>. HIDE DEF frames
  <2>. QED  BY <1>5, <2>1
<1>8. ASSUME NEW f \in Frame
      PROVE  f \in free1 <=> \/ f \in memory.free
                             \/ \E v \in Page : Mapped(memory, mm, v, f)
                             \/ \E d \in Dir : Tabled(memory, mm, d, f)
  <2>1. f # NoFrame
    BY Constants
  <2>2. f \in {memory.table[mm][d] : d \in tables} <=> \E d \in Dir : Tabled(memory, mm, d, f)
    BY <1>6, <2>1 DEF Tabled
  <2>. HIDE DEF frames, tables
  <2>. QED  BY <1>5, <2>1, <2>2
<1>9. free1 \in SUBSET Frame
  <2>1. \A d \in tables : memory.table[mm][d] \in Frame \cup {NoFrame}
    BY <1>3, <1>6, MemoryFields
  <2>. HIDE DEF frames, tables
  <2>. QED  BY <1>3, <1>7, <2>1, MemoryFields
<1>10. \A f \in Frame : content1[f] = memory.content[f] \/ \E v \in Page : Mapped(memory, mm, v, f)
  <2>. HIDE DEF frames
  <2>. QED  BY <1>5
<1>11. content1 \in [Frame -> Value \cup {Fresh}]
  BY <1>3, MemoryFields
<1>12. /\ pte1 \in [Mm -> [Page -> Pte]]
       /\ \A other \in Mm, v \in Page :
            pte1[other][v] = IF other = mm THEN Empty ELSE memory.pte[other][v]
  BY <1>3, MemoryFields, NewPtes
<1>13. /\ table1 \in [Mm -> [Dir -> Frame \cup {NoFrame}]]
       /\ \A other \in Mm, d \in Dir :
            table1[other][d] = IF other = mm THEN NoFrame ELSE memory.table[other][d]
  BY <1>3, MemoryFields
<1>. HIDE DEF free1, content1, pte1, table1
<1>14. memory' = [free |-> free1, table |-> table1, pte |-> pte1, content |-> content1,
                  queue |-> memory.queue, va |-> memory.va, disk |-> memory.disk]
  BY <1>2, <1>3 DEF Memory
<1>. PICK r : r = memory'
  OBVIOUS
<1>. PICK m : m = memory
  OBVIOUS
<1>15. /\ r = [free |-> free1, table |-> table1, pte |-> pte1, content |-> content1,
               queue |-> m.queue, va |-> m.va, disk |-> m.disk]
       /\ m \in Memory
  BY <1>3, <1>14
<1>16. r \in Memory
  BY <1>9, <1>11, <1>12, <1>13, <1>15, MemoryFields DEF Memory
<1>17. /\ r.free = free1 /\ r.table = table1 /\ r.pte = pte1 /\ r.content = content1
       /\ r.queue = m.queue /\ r.disk = m.disk
  BY <1>15
<1>18. Frees(m, r, mm)
  BY <1>8, <1>10, <1>12, <1>13, <1>17 DEF Frees
<1>. QED  BY <1>1, <1>16, <1>18

LEMMA DestroyKeeps == ASSUME MemInv, NEW mm \in Mm, Destroy(mm)  PROVE MemInv'
<1>1. /\ mm \in mms /\ check_mm_struct = NoMm /\ loading \in {NoMm, mm} /\ source = NoMm
      /\ mms' = mms \ {mm} /\ loading' = NoMm /\ UNCHANGED <<check_mm_struct, source>>
      /\ mmap_list' = [mmap_list EXCEPT ![mm] = <<>>]
      /\ mmap_cache' = [mmap_cache EXCEPT ![mm] = NoVma]
      /\ memory' \in Memory /\ Frees(memory, memory', mm)
  BY DestroyFacts
<1>2. /\ mmap_list \in [Mm -> Seq(Vma)] /\ mmap_cache \in [Mm -> Vma \cup {NoVma}]
      /\ memory \in Memory /\ check # NoMm /\ Pool \in SUBSET Frame /\ Pool' = Pool
  BY <1>1, Constants DEF MemInv, TypeOK, Pool
<1>3. TypeOK'
  BY <1>1, <1>2 DEF MemInv, TypeOK
<1>4. /\ \A other \in Mm, v \in Page :
           memory'.pte[other][v] = IF other = mm THEN Empty ELSE memory.pte[other][v]
      /\ \A other \in Mm, d \in Dir :
           memory'.table[other][d] = IF other = mm THEN NoFrame ELSE memory.table[other][d]
      /\ memory'.queue = memory.queue
  BY <1>1 DEF Frees
<1>5. /\ mmap_list'[mm] = <<>> /\ mmap_cache'[mm] = NoVma
      /\ \A other \in Mm \ {mm} : /\ mmap_list'[other] = mmap_list[other]
                                  /\ mmap_cache'[other] = mmap_cache[other]
  BY <1>1, <1>2
<1>6. AbsentOK'
  BY <1>1, <1>4, <1>5 DEF MemInv, AbsentOK
<1>7. SwapOK'
  <2>1. check_mm_struct' # check /\ check \notin mms'
    BY <1>1, <1>2 DEF MemInv, SwapOK
  <2>2. IsInjective(memory'.queue)
    BY <1>1, <1>2, <1>4 DEF MemInv, SwapOK
  <2>3. \A other \in Mm, v \in Page : memory'.pte[other][v].kind # "slot"
    <3>1. \A other \in Mm, v \in Page : memory.pte[other][v].kind # "slot"
      BY <1>1, <1>2 DEF MemInv, SwapOK
    <3>. QED  BY <1>4, <3>1, NewPtes
  <2>4. \A other \in mms' : memory'.table[other][VPT] # NoFrame
    <3>1. \A other \in mms : other \in Mm /\ memory.table[other][VPT] # NoFrame
      BY <1>1, <1>2 DEF MemInv, SwapOK, TypeOK
    <3>. QED  BY <1>1, <1>4, <3>1, DirectoryEntry
  <2>. QED  BY <2>1, <2>2, <2>3, <2>4 DEF SwapOK
<1>8. /\ OneUse(memory') /\ NoneLost(memory', Pool)
      /\ \A other \in Mm \ {mm}, v \in Page :
           Stored(memory', other, v) = Stored(memory, other, v)
  <2>. PICK m : m = memory
    OBVIOUS
  <2>. PICK r : r = memory'
    OBVIOUS
  <2>1. m \in Memory /\ r \in Memory /\ OneUse(m) /\ NoneLost(m, Pool) /\ Frees(m, r, mm)
    BY <1>1, <1>2 DEF MemInv, FramesOK
  <2>2. /\ OneUse(r) /\ NoneLost(r, Pool)
        /\ \A other \in Mm \ {mm}, v \in Page : Stored(r, other, v) = Stored(m, other, v)
    BY <1>2, <2>1, AllFreed
  <2>. QED  BY <2>2
<1>9. FramesOK'
  BY <1>2, <1>8 DEF FramesOK
<1>10. ListsOK'
  <2>1. ASSUME NEW other \in Mm
        PROVE  /\ Ordered(mmap_list'[other])
               /\ mmap_cache'[other] \in ToSet(mmap_list'[other]) \cup {NoVma}
    <3>1. CASE other = mm
      <4>. PICK list : list = mmap_list'[mm]
        OBVIOUS
      <4>1. Len(list) = 0
        BY <1>5
      <4>2. Ordered(list)
        BY <4>1 DEF Ordered
      <4>. QED  BY <1>5, <3>1, <4>2
    <3>2. CASE other # mm
      BY <1>5, <3>2 DEF MemInv, ListsOK
    <3>. QED  BY <3>1, <3>2
  <2>. QED  BY <2>1 DEF ListsOK
<1>11. PagesOK'
  BY <1>4, <1>5 DEF MemInv, PagesOK, Held
<1>12. ValuesOK'
  BY <1>4, <1>8 DEF MemInv, ValuesOK
<1>13. CopyOK'
  BY <1>1 DEF CopyOK
<1>. QED  BY <1>3, <1>6, <1>7, <1>9, <1>10, <1>11, <1>12, <1>13 DEF MemInv

LEMMA EndCheckKeeps == ASSUME MemInv, EndCheck  PROVE MemInv'
<1>1. /\ check_mm_struct = check /\ check_mm_struct' = NoMm /\ mms' = mms \ {check}
      /\ mmap_list' = [mmap_list EXCEPT ![check] = <<>>]
      /\ mmap_cache' = [mmap_cache EXCEPT ![check] = NoVma]
      /\ memory' = Unmapped(Frame \ CheckFrame)
      /\ UNCHANGED <<loading, source>>
  BY DEF EndCheck
<1>2. mms = {check} /\ loading = NoMm /\ source = NoMm /\ check \in Mm /\ check # NoMm
  BY <1>1, Constants DEF MemInv, SwapOK
<1>3. mms' = {} /\ Pool' = Frame \ CheckFrame
  BY <1>1, <1>2 DEF Pool
<1>4. /\ memory' \in Memory /\ OneUse(memory') /\ NoneLost(memory', Frame \ CheckFrame)
      /\ \A mm \in Mm : /\ \A v \in Page : memory'.pte[mm][v] = Empty
                        /\ \A d \in Dir : memory'.table[mm][d] = NoFrame
  BY <1>1, UnmappedFacts
<1>5. QueueOK(memory')
  BY <1>1, UnmappedFacts
<1>6. \A mm \in Mm : mmap_list'[mm] = <<>> /\ mmap_cache'[mm] = NoVma
  BY <1>1, <1>2 DEF MemInv, TypeOK, AbsentOK
<1>7. TypeOK'
  BY <1>1, <1>2, <1>3, <1>4 DEF MemInv, TypeOK
<1>8. AbsentOK'
  BY <1>4, <1>6 DEF AbsentOK
<1>9. SwapOK'
  <2>1. IsInjective(memory'.queue)
    BY <1>5 DEF QueueOK
  <2>. QED  BY <1>1, <1>2, <1>3, <1>4, <2>1, NewPtes DEF SwapOK
<1>10. FramesOK'
  BY <1>3, <1>4 DEF FramesOK
<1>11. ListsOK'
  <2>. PICK list : list = <<>>
    OBVIOUS
  <2>1. Len(list) = 0
    OBVIOUS
  <2>2. Ordered(list)
    BY <2>1 DEF Ordered
  <2>. QED  BY <1>6, <2>2 DEF ListsOK
<1>12. PagesOK' /\ ValuesOK' /\ CopyOK'
  BY <1>1, <1>2, <1>4 DEF PagesOK, ValuesOK, CopyOK
<1>. QED  BY <1>7, <1>8, <1>9, <1>10, <1>11, <1>12 DEF MemInv

LEMMA MemNext == MemInv /\ [Next]_vars => MemInv'
<1>. SUFFICES ASSUME MemInv, [Next]_vars  PROVE MemInv'
  OBVIOUS
<1>1. CASE EndCheck
  BY <1>1, EndCheckKeeps
<1>2. ASSUME NEW mm \in Mm, Create(mm)  PROVE MemInv'
  BY <1>2, CreateKeeps
<1>3. ASSUME NEW mm \in Mm, Loaded(mm)  PROVE MemInv'
  BY <1>3, LoadedKeeps
<1>4. ASSUME NEW mm \in Mm, Destroy(mm)  PROVE MemInv'
  BY <1>4, DestroyKeeps
<1>5. ASSUME NEW mm \in Mm, CopyVma(mm)  PROVE MemInv'
  BY <1>5, CopyVmaKeeps
<1>6. ASSUME NEW mm \in Mm, Copied(mm)  PROVE MemInv'
  BY <1>6, CopiedKeeps
<1>7. ASSUME NEW mm \in Mm, NEW v \in Page, CopyPage(mm, v)  PROVE MemInv'
  BY <1>7, CopyPageKeeps
<1>8. ASSUME NEW mm \in Mm, NEW vma \in Segment, MmMap(mm, vma)  PROVE MemInv'
  BY <1>8, MmMapKeeps
<1>9. ASSUME NEW mm \in Mm, NEW v \in Page, NEW x \in Value, LoadPage(mm, v, x)  PROVE MemInv'
  BY <1>9, LoadPageKeeps
<1>10. ASSUME NEW mm \in Mm, NEW v \in Page, NEW x \in Value, Write(mm, v, x)  PROVE MemInv'
  BY <1>10, WriteKeeps
<1>11. ASSUME NEW mm \in Mm, NEW v \in Page, NEW write \in BOOLEAN, PageFault(mm, v, write)
       PROVE  MemInv'
  BY <1>11, PageFaultKeeps
<1>12. ASSUME NEW mm \in Mm, NEW child \in Mm \ {check}, Fork(mm, child)  PROVE MemInv'
  BY <1>12, ForkKeeps
<1>13. CASE UNCHANGED vars
  <2>1. UNCHANGED <<check_mm_struct, mms, loading, source, mmap_list, mmap_cache, memory>>
    BY <1>13 DEF vars
  <2>2. TypeOK' /\ AbsentOK' /\ SwapOK'
    BY <2>1 DEF MemInv, TypeOK, AbsentOK, SwapOK
  <2>3. FramesOK' /\ ValuesOK' /\ PagesOK' /\ ListsOK' /\ CopyOK'
    BY <2>1 DEF MemInv, FramesOK, Pool, ValuesOK, PagesOK, Held, ListsOK, CopyOK
  <2>. QED  BY <2>2, <2>3 DEF MemInv
<1>. QED
  BY <1>1, <1>2, <1>3, <1>4, <1>5, <1>6, <1>7, <1>8, <1>9, <1>10, <1>11, <1>12, <1>13 DEF Next

-----------------------------------------------------------------------------
(* What follows from the invariant. *)

\* No step breaks the invariant: what check_swap leaves alone, what a fork half done has
\* copied, which frames, tables and vmas an address space has.
THEOREM MemAlways == Spec => []MemInv
  BY MemInit, MemNext, PTL DEF Spec

LEMMA AtMostOne ==
  ASSUME NEW S, \A a, b \in S : a = b
  PROVE  IF S = {} THEN Cardinality(S) = 0 ELSE Cardinality(S) = 1
<1>1. CASE S = {}
  BY <1>1, FS_EmptySet
<1>2. CASE S # {}
  <2>1. PICK a : a \in S
    BY <1>2
  <2>2. S = {a}
    BY <2>1
  <2>3. Cardinality({a}) = 1
    BY FS_Singleton
  <2>. QED  BY <1>2, <2>2, <2>3
<1>. QED  BY <1>1, <1>2

\* Every page frame is free, or mapped at one page, or one page table, or one page
\* directory, and nothing else: faults, writes, loads that succeed or fail, forks in every
\* stage, exits and swapping neither share nor lose one.  An address space has the frame
\* that setup_pgdir took for its directory until put_pgdir frees it, and not longer.
THEOREM MemFramesExact == Spec => []FramesExact
<1>1. MemInv => FramesExact
  <2>. SUFFICES ASSUME MemInv  PROVE FramesExact
    OBVIOUS
  <2>1. TypeOK /\ Pool \subseteq Frame /\ OneUse(memory) /\ NoneLost(memory, Pool)
    BY Constants DEF MemInv, FramesOK, Pool
  <2>2. ASSUME NEW f \in Pool
        PROVE  Cardinality(MappedAt(f)) + Cardinality(TableOf(f))
                 + (IF f \in memory.free THEN 1 ELSE 0) = 1
    <3>. DEFINE M == MappedAt(f)  T == TableOf(f)
    <3>0. f \in Frame
      BY <2>1
    <3>1. \A at : at \in M <=> at \in Mm \X Page /\ Mapped(memory, at[1], at[2], f)
      BY DEF MappedAt, Mapped, Held
    <3>2. \A at : at \in T <=> at \in Mm \X Dir /\ Tabled(memory, at[1], at[2], f)
      BY DEF TableOf, Tabled
    <3>. HIDE DEF M, T
    <3>3. ASSUME NEW a \in M, NEW b \in M  PROVE a = b
      <4>1. /\ a = <<a[1], a[2]>> /\ a[1] \in Mm /\ a[2] \in Page /\ Mapped(memory, a[1], a[2], f)
            /\ b = <<b[1], b[2]>> /\ b[1] \in Mm /\ b[2] \in Page /\ Mapped(memory, b[1], b[2], f)
        BY <3>1
      <4>2. a[1] = b[1] /\ a[2] = b[2]
        BY <2>1, <3>0, <4>1 DEF OneUse
      <4>. QED  BY <4>1, <4>2
    <3>4. ASSUME NEW a \in T, NEW b \in T  PROVE a = b
      <4>1. /\ a = <<a[1], a[2]>> /\ a[1] \in Mm /\ a[2] \in Dir /\ Tabled(memory, a[1], a[2], f)
            /\ b = <<b[1], b[2]>> /\ b[1] \in Mm /\ b[2] \in Dir /\ Tabled(memory, b[1], b[2], f)
        BY <3>2
      <4>2. a[1] = b[1] /\ a[2] = b[2]
        BY <2>1, <3>0, <4>1 DEF OneUse
      <4>. QED  BY <4>1, <4>2
    <3>5. (IF M = {} THEN Cardinality(M) = 0 ELSE Cardinality(M) = 1)
          /\ (IF T = {} THEN Cardinality(T) = 0 ELSE Cardinality(T) = 1)
      BY <3>3, <3>4, AtMostOne
    <3>6. M # {} <=> \E mm \in Mm, v \in Page : Mapped(memory, mm, v, f)
      <4>1. ASSUME NEW mm \in Mm, NEW v \in Page, Mapped(memory, mm, v, f)  PROVE <<mm, v>> \in M
        BY <3>1, <4>1
      <4>2. ASSUME NEW a \in M
            PROVE  a[1] \in Mm /\ a[2] \in Page /\ Mapped(memory, a[1], a[2], f)
        BY <3>1
      <4>. QED  BY <4>1, <4>2
    <3>7. T # {} <=> \E mm \in Mm, d \in Dir : Tabled(memory, mm, d, f)
      <4>1. ASSUME NEW mm \in Mm, NEW d \in Dir, Tabled(memory, mm, d, f)  PROVE <<mm, d>> \in T
        BY <3>2, <4>1
      <4>2. ASSUME NEW a \in T
            PROVE  a[1] \in Mm /\ a[2] \in Dir /\ Tabled(memory, a[1], a[2], f)
        BY <3>2
      <4>. QED  BY <4>1, <4>2
    <3>8. /\ M # {} \/ T # {} \/ f \in memory.free
          /\ M = {} \/ T = {}
          /\ f \in memory.free => M = {} /\ T = {}
      BY <2>1, <3>0, <3>6, <3>7 DEF OneUse, NoneLost
    <3>9. Cardinality(M) + Cardinality(T) + (IF f \in memory.free THEN 1 ELSE 0) = 1
      <4>. PICK cm : cm = Cardinality(M)
        OBVIOUS
      <4>. PICK ct : ct = Cardinality(T)
        OBVIOUS
      <4>. QED  BY <3>5, <3>8
    <3>. QED  BY <3>9 DEF M, T
  <2>3. ASSUME NEW mm \in Mm  PROVE memory.table[mm][VPT] # NoFrame <=> mm \in mms \ {check}
    <3>1. CASE check_mm_struct = check
      <4>1. mms = {check} /\ memory.table[mm][VPT] = NoFrame
        BY <3>1, DirectoryEntry DEF MemInv, SwapOK, QueueOK
      <4>. QED  BY <4>1
    <3>2. CASE check_mm_struct # check
      <4>1. mm \in mms => mm # check /\ memory.table[mm][VPT] # NoFrame
        BY <3>2 DEF MemInv, SwapOK
      <4>2. mm \notin mms => memory.table[mm][VPT] = NoFrame
        BY DirectoryEntry DEF MemInv, AbsentOK
      <4>. QED  BY <4>1, <4>2
    <3>. QED  BY <3>1, <3>2
  <2>. QED  BY <2>1, <2>2, <2>3 DEF FramesExact
<1>. QED  BY <1>1, MemAlways, PTL

\* The vmas of every address space stay in order and apart, and a page is only mapped or
\* swapped out under one and with its rights.
THEOREM MemVmasExact == Spec => []VmasExact
<1>1. MemInv => VmasExact
  <2>. SUFFICES ASSUME MemInv, NEW mm \in Mm
                PROVE  LET list == mmap_list[mm] IN
                       /\ \A i \in 1..Len(list) : list[i].start < list[i].end
                       /\ \A i \in 1..Len(list) - 1 : list[i].end <= list[i + 1].start
                       /\ \A v \in Page : memory.pte[mm][v] # Empty =>
                            \E vma \in ToSet(list) :
                              Covers(vma, v) /\ (Held(mm, v) => memory.pte[mm][v].write = vma.write)
                       /\ mmap_cache[mm] \in ToSet(list) \cup {NoVma}
    BY DEF VmasExact
  <2>0. PICK list : list = mmap_list[mm]
    OBVIOUS
  <2>1. /\ list \in Seq(Vma) /\ Ordered(list)
        /\ mmap_cache[mm] \in ToSet(list) \cup {NoVma}
        /\ \A v \in Page : memory.pte[mm][v] # Empty =>
             \E vma \in ToSet(list) :
               Covers(vma, v) /\ (Held(mm, v) => memory.pte[mm][v].write = vma.write)
    BY <2>0 DEF MemInv, TypeOK, ListsOK, PagesOK
  <2>2. ASSUME NEW i \in 1..Len(list) - 1  PROVE list[i].end <= list[i + 1].start
    <3>1. i \in 1..Len(list) /\ i + 1 \in 1..Len(list) /\ i < i + 1
      BY <2>1, ListFacts
    <3>. QED  BY <2>1, <3>1 DEF Ordered
  <2>3. \A i \in 1..Len(list) : list[i].start < list[i].end
    BY <2>1 DEF Ordered
  <2>. QED  BY <2>0, <2>1, <2>2, <2>3
<1>. QED  BY <1>1, MemAlways, PTL

\* While check_swap runs the queue is that of the mapped pages; afterwards no page is
\* swapped out.
THEOREM MemSwapExact == Spec => []SwapExact
<1>1. MemInv => SwapExact
  <2>. SUFFICES ASSUME MemInv  PROVE SwapExact
    OBVIOUS
  <2>. DEFINE mapped == {v \in Page : Held(check, v)}
  <2>1. memory \in Memory /\ check \in Mm /\ IsInjective(memory.queue)
        /\ memory.queue \in Seq(Frame)
    BY Constants, MemoryFields DEF MemInv, TypeOK, SwapOK, QueueOK
  <2>2. ASSUME check_mm_struct = check
        PROVE  /\ ToSet(memory.queue) = {memory.pte[check][v].frame : v \in mapped}
               /\ \A v \in mapped : memory.va[memory.pte[check][v].frame] = v
    <3>1. QueueOK(memory)
      BY <2>2 DEF MemInv, SwapOK
    <3>2. \A v \in mapped : Mapped(memory, check, v, memory.pte[check][v].frame)
                            /\ memory.pte[check][v].frame \in Frame /\ v \in Page
      BY <2>1, PteFacts DEF Mapped, Held
    <3>3. \A v \in Page, f \in Frame : Mapped(memory, check, v, f) =>
            v \in mapped /\ f = memory.pte[check][v].frame
      BY DEF Mapped, Held
    <3>4. \A f \in ToSet(memory.queue) : f \in Frame
      <4>. PICK q : q = memory.queue
        OBVIOUS
      <4>. QED  BY <2>1 DEF ToSet
    <3>. HIDE DEF mapped
    <3>5. ASSUME NEW f \in ToSet(memory.queue)  PROVE \E v \in mapped : memory.pte[check][v].frame = f
      BY <3>1, <3>3, <3>4 DEF QueueOK
    <3>6. ASSUME NEW v \in mapped
          PROVE  /\ memory.pte[check][v].frame \in ToSet(memory.queue)
                 /\ memory.va[memory.pte[check][v].frame] = v
      BY <3>1, <3>2 DEF QueueOK
    <3>. QED  BY <3>5, <3>6
  <2>3. ASSUME NEW mm \in Mm, NEW v \in Page, memory.pte[mm][v].kind = "slot"
        PROVE  mm = check /\ check_mm_struct = check /\ memory.pte[mm][v].slot = v + 1
    <3>1. check_mm_struct = check
      BY <2>3 DEF MemInv, SwapOK
    <3>2. QueueOK(memory)
      BY <3>1 DEF MemInv, SwapOK
    <3>3. mm = check
      BY <2>3, <3>2, NewPtes DEF QueueOK
    <3>. QED  BY <2>3, <3>1, <3>2, <3>3 DEF QueueOK
  <2>. QED  BY <2>1, <2>2, <2>3 DEF SwapExact
<1>. QED  BY <1>1, MemAlways, PTL

\* What user_mem_check asks of the vma of v: VM_READ or VM_WRITE, and no write to the
\* lowest page of a stack.
Permits(vma, v, write) ==
  /\ IF write THEN vma.write ELSE vma.read
  /\ ~(write /\ vma.stack /\ v = vma.start)

\* The pages from v to e are all in vmas that allow the access.
Allowed(mm, v, write) ==
  \E vma \in ToSet(mmap_list[mm]) : Covers(vma, v) /\ Permits(vma, v, write)

AllAllowed(mm, s, e, write) == \A v \in s..e - 1 : Allowed(mm, v, write)

\* The vma that find_vma gives for the first page takes user_mem_check on to its end.
LEMMA AllowedStep ==
  ASSUME TypeOK, ListsOK, NEW mm \in Mm, NEW v \in 0..NPAGE, NEW e \in 0..NPAGE,
         NEW write \in BOOLEAN, v < e, NEW vma, vma = FindVma(mm, v)
  PROVE  /\ vma # NoVma => vma.end \in 0..NPAGE /\ v < vma.end
         /\ AllAllowed(mm, v, e, write) <=>
              /\ vma # NoVma
              /\ Permits(vma, v, write)
              /\ AllAllowed(mm, vma.end, e, write)
<1>. PICK list : list = mmap_list[mm]
  OBVIOUS
<1>1. /\ list \in Seq(Vma) /\ Ordered(list) /\ NPAGE \in Nat /\ v \in Nat /\ e \in Nat
  BY Constants DEF TypeOK, ListsOK
<1>2. /\ vma # NoVma => vma \in ToSet(list) /\ vma \in Vma /\ Covers(vma, v)
      /\ vma = NoVma => \A a \in ToSet(list) : ~Covers(a, v)
  BY FindFacts
<1>3. v \in v..e - 1
  BY <1>1
<1>4. CASE vma = NoVma
  BY <1>2, <1>3, <1>4 DEF AllAllowed, Allowed
<1>5. CASE vma # NoVma
  <2>1. /\ vma.start \in Nat /\ vma.end \in Nat /\ vma.end <= NPAGE
        /\ vma.start <= v /\ v < vma.end
    BY <1>2, <1>5, VmaFacts DEF Covers
  <2>2. ASSUME AllAllowed(mm, v, e, write)
        PROVE  /\ Permits(vma, v, write)
               /\ AllAllowed(mm, vma.end, e, write)
    <3>1. PICK a \in ToSet(list) : Covers(a, v) /\ Permits(a, v, write)
      BY <1>3, <2>2 DEF AllAllowed, Allowed
    <3>2. a = vma
      BY <1>1, <1>2, <1>5, <3>1, CoverOnce
    <3>3. \A u \in vma.end..e - 1 : u \in v..e - 1
      BY <1>1, <2>1
    <3>. QED  BY <2>2, <3>1, <3>2, <3>3 DEF AllAllowed
  <2>3. ASSUME Permits(vma, v, write),
               AllAllowed(mm, vma.end, e, write), NEW u \in v..e - 1
        PROVE  Allowed(mm, u, write)
    <3>1. CASE u >= vma.end
      <4>1. u \in vma.end..e - 1
        BY <1>1, <2>1, <3>1
      <4>. QED  BY <2>3, <4>1 DEF AllAllowed
    <3>2. CASE u < vma.end
      <4>1. Covers(vma, u) /\ (u = vma.start => u = v)
        BY <1>1, <2>1, <3>2 DEF Covers
      <4>. QED  BY <1>2, <1>5, <2>3, <4>1 DEF Allowed, Permits
    <3>. QED  BY <1>1, <2>1, <3>1, <3>2
  <2>4. vma.end \in 0..NPAGE
    BY <1>1, <2>1
  <2>. QED  BY <1>5, <2>1, <2>2, <2>3, <2>4 DEF AllAllowed
<1>. QED  BY <1>4, <1>5

LEMMA UserMemCheckFacts ==
  ASSUME TypeOK, ListsOK, NEW mm \in Mm, NEW s \in 0..NPAGE, NEW e \in 0..NPAGE,
         NEW write \in BOOLEAN
  PROVE  UserMemCheck(mm, s, e, write) <=> AllAllowed(mm, s, e, write)
<1>. DEFINE Rest(v, there) ==
              v >= e \/ LET vma == FindVma(mm, v) IN
                        /\ vma # NoVma
                        /\ IF write THEN vma.write ELSE vma.read
                        /\ ~(write /\ vma.stack /\ v = vma.start)
                        /\ there[vma.end]
            Step(there) == [v \in 0..NPAGE |-> Rest(v, there)]
            ok == CHOOSE there : there = Step(there)
            all == [v \in 0..NPAGE |-> AllAllowed(mm, v, e, write)]
<1>1. UserMemCheck(mm, s, e, write) = ok[s]
  BY DEF UserMemCheck
<1>2. ASSUME NEW v \in 0..NPAGE, v >= e  PROVE AllAllowed(mm, v, e, write)
  <2>1. v..e - 1 = {}
    BY <1>2, Constants
  <2>. QED  BY <2>1 DEF AllAllowed
<1>3. ASSUME NEW v \in 0..NPAGE, v < e
      PROVE  /\ FindVma(mm, v) # NoVma =>
                  FindVma(mm, v).end \in 0..NPAGE /\ v < FindVma(mm, v).end
             /\ AllAllowed(mm, v, e, write) <=>
                  /\ FindVma(mm, v) # NoVma
                  /\ Permits(FindVma(mm, v), v, write)
                  /\ AllAllowed(mm, FindVma(mm, v).end, e, write)
  BY <1>3, AllowedStep
<1>4. ASSUME NEW v \in 0..NPAGE  PROVE AllAllowed(mm, v, e, write) <=> Rest(v, all)
  <2>1. CASE v >= e
    BY <1>2, <2>1
  <2>2. CASE v < e
    <3>1. FindVma(mm, v) # NoVma =>
            (all[FindVma(mm, v).end] <=> AllAllowed(mm, FindVma(mm, v).end, e, write))
      BY <1>3, <2>2
    <3>2. ~(v >= e)
      BY <2>2, Constants
    <3>. HIDE DEF all
    <3>. QED  BY <1>3, <2>2, <3>1, <3>2 DEF Permits
  <2>3. v >= e \/ v < e
    BY Constants
  <2>. QED  BY <2>1, <2>2, <2>3
<1>5. all = Step(all)
  <2>. HIDE DEF all
  <2>1. ASSUME NEW v \in 0..NPAGE  PROVE AllAllowed(mm, v, e, write) = Rest(v, all)
    <3>1. AllAllowed(mm, v, e, write) \in BOOLEAN
      BY DEF AllAllowed
    <3>2. Rest(v, all) \in BOOLEAN
      OBVIOUS
    <3>. HIDE DEF Rest
    <3>. QED  BY <1>4, <3>1, <3>2
  <2>. HIDE DEF Rest
  <2>2. [v \in 0..NPAGE |-> AllAllowed(mm, v, e, write)] = [v \in 0..NPAGE |-> Rest(v, all)]
    BY <2>1
  <2>. QED  BY <2>2 DEF all
<1>6. ok = Step(ok)
  BY <1>5, Zenon
<1>. HIDE DEF ok
<1>7. ASSUME NEW v \in 0..NPAGE  PROVE ok[v] <=> Rest(v, ok)
  BY <1>6, Zenon
<1>. DEFINE Same(v) == ok[v] <=> AllAllowed(mm, v, e, write)
            Bad == {k \in Nat : \E v \in 0..NPAGE : k = NPAGE - v /\ ~Same(v)}
<1>8. ASSUME NEW v \in 0..NPAGE, \A u \in 0..NPAGE : v < u => Same(u)
      PROVE  Same(v)
  <2>1. CASE v >= e
    <3>1. ok[v]
      BY <1>7, <2>1
    <3>. QED  BY <1>2, <2>1, <3>1
  <2>2. CASE v < e
    <3>. PICK vma : vma = FindVma(mm, v)
      OBVIOUS
    <3>1. ~(v >= e)
      BY <2>2, Constants
    <3>2. ok[v] <=> /\ vma # NoVma
                    /\ Permits(vma, v, write)
                    /\ ok[vma.end]
      BY <1>7, <3>1 DEF Permits
    <3>3. vma # NoVma => (ok[vma.end] <=> AllAllowed(mm, vma.end, e, write))
      BY <1>3, <1>8, <2>2
    <3>4. AllAllowed(mm, v, e, write) <=>
            /\ vma # NoVma
            /\ Permits(vma, v, write)
            /\ AllAllowed(mm, vma.end, e, write)
      BY <1>3, <2>2
    <3>. QED  BY <3>2, <3>3, <3>4
  <2>. QED  BY <2>1, <2>2, Constants
<1>. HIDE DEF Same
<1>9. Bad = {}
  <2>. SUFFICES ASSUME Bad # {}  PROVE FALSE
    OBVIOUS
  <2>1. Min(Bad) \in Bad /\ \A c \in Bad : Min(Bad) <= c
    <3>1. Bad \in SUBSET Nat
      OBVIOUS
    <3>. HIDE DEF Bad
    <3>. QED  BY <3>1, MinFacts
  <2>. PICK k : k = Min(Bad)
    OBVIOUS
  <2>2. k \in Bad /\ \A c \in Bad : k <= c
    BY <2>1
  <2>3. PICK v \in 0..NPAGE : k = NPAGE - v /\ ~Same(v)
    BY <2>2
  <2>4. ASSUME NEW u \in 0..NPAGE, v < u  PROVE Same(u)
    <3>1. NPAGE - u \in Nat /\ ~(k <= NPAGE - u)
      BY <2>3, <2>4, Constants
    <3>2. NPAGE - u \notin Bad
      <4>. HIDE DEF Bad
      <4>. QED  BY <2>2, <3>1
    <3>. QED  BY <3>1, <3>2
  <2>. QED  BY <1>8, <2>3, <2>4
<1>10. Same(s)
  <2>1. NPAGE - s \in Nat
    BY Constants
  <2>. QED  BY <1>9, <2>1
<1>. QED  BY <1>1, <1>10 DEF Same

\* user_mem_check goes through a range a vma at a time and accepts it exactly if every
\* page of it is in a vma with the right asked for, to read or to write, whatever vma was
\* found last.
THEOREM MemUserMemCheckExact == Spec => []UserMemCheckExact
<1>1. MemInv => UserMemCheckExact
  <2>. SUFFICES ASSUME MemInv, NEW mm \in mms, NEW s \in 0..NPAGE, NEW e \in 0..NPAGE,
                       NEW write \in BOOLEAN
                PROVE  UserMemCheck(mm, s, e, write) <=>
                         \A v \in s..e - 1 : \E vma \in ToSet(mmap_list[mm]) :
                           /\ Covers(vma, v)
                           /\ write => vma.write /\ ~(vma.stack /\ v = vma.start)
                           /\ ~write => vma.read
    BY DEF UserMemCheckExact
  <2>1. TypeOK /\ ListsOK /\ mm \in Mm
    BY DEF MemInv, TypeOK
  <2>2. UserMemCheck(mm, s, e, write) <=> AllAllowed(mm, s, e, write)
    BY <2>1, UserMemCheckFacts
  <2>. QED  BY <2>2 DEF AllAllowed, Allowed, Permits
<1>. QED  BY <1>1, MemAlways, PTL

-----------------------------------------------------------------------------
(* Private memory is implemented. *)

\* What a set of vmas lets a program do with a page.
Right(vmas, v) ==
  IF \E vma \in vmas : Covers(vma, v) /\ vma.write THEN "rw"
  ELSE IF \E vma \in vmas : Covers(vma, v) THEN "r"
  ELSE "none"

\* The pages of all address spaces as private memory has them.
Prot == [mm \in Mm |-> Rights(mm)]
Data == [mm \in Mm |-> Contents(mm)]
ProtType == [Mm -> [Page -> {"none", "r", "rw"}]]
DataType == [Mm -> [Page -> Value \cup {Fresh}]]

LEMMA StoredType ==
  ASSUME NEW m \in Memory, NEW mm \in Mm, NEW v \in Page
  PROVE  Stored(m, mm, v) \in Value \cup {Fresh}
  BY PteFacts, MemoryFields DEF Stored

LEMMA View ==
  ASSUME memory \in Memory
  PROVE  /\ Prot \in ProtType /\ Data \in DataType
         /\ \A mm \in Mm, v \in Page :
              /\ Prot[mm][v] = IF Copying(mm) THEN "none" ELSE Right(ToSet(mmap_list[mm]), v)
              /\ Data[mm][v] = IF Copying(mm) THEN Fresh ELSE Stored(memory, mm, v)
<1>1. ASSUME NEW mm \in Mm
      PROVE  /\ Rights(mm) \in [Page -> {"none", "r", "rw"}]
             /\ \A v \in Page : Rights(mm)[v] =
                  IF Copying(mm) THEN "none" ELSE Right(ToSet(mmap_list[mm]), v)
  BY DEF Rights, Right
<1>2. ASSUME NEW mm \in Mm
      PROVE  /\ Contents(mm) \in [Page -> Value \cup {Fresh}]
             /\ \A v \in Page : Contents(mm)[v] =
                  IF Copying(mm) THEN Fresh ELSE Stored(memory, mm, v)
  <2>1. ASSUME NEW v \in Page
        PROVE  (IF Copying(mm) \/ memory.pte[mm][v].kind = "none" THEN Fresh
                ELSE IF memory.pte[mm][v].kind = "frame" THEN memory.content[memory.pte[mm][v].frame]
                ELSE memory.disk[memory.pte[mm][v].slot])
               = IF Copying(mm) THEN Fresh ELSE Stored(memory, mm, v)
    BY PteFacts DEF Stored
  <2>2. ASSUME NEW v \in Page
        PROVE  (IF Copying(mm) THEN Fresh ELSE Stored(memory, mm, v)) \in Value \cup {Fresh}
    BY StoredType
  <2>. QED  BY <2>1, <2>2 DEF Contents
<1>. QED  BY <1>1, <1>2 DEF Prot, Data, ProtType, DataType

\* The same after a step.
LEMMA ViewNext ==
  ASSUME memory' \in Memory
  PROVE  /\ Prot' \in ProtType /\ Data' \in DataType
         /\ \A mm \in Mm, v \in Page :
              /\ Prot'[mm][v] = IF Copying(mm)' THEN "none" ELSE Right(ToSet(mmap_list'[mm]), v)
              /\ Data'[mm][v] = IF Copying(mm)' THEN Fresh ELSE Stored(memory', mm, v)
<1>1. ASSUME NEW mm \in Mm
      PROVE  /\ Rights(mm)' \in [Page -> {"none", "r", "rw"}]
             /\ \A v \in Page : Rights(mm)'[v] =
                  IF Copying(mm)' THEN "none" ELSE Right(ToSet(mmap_list'[mm]), v)
  BY DEF Rights, Right
<1>2. ASSUME NEW mm \in Mm
      PROVE  /\ Contents(mm)' \in [Page -> Value \cup {Fresh}]
             /\ \A v \in Page : Contents(mm)'[v] =
                  IF Copying(mm)' THEN Fresh ELSE Stored(memory', mm, v)
  <2>1. ASSUME NEW v \in Page
        PROVE  (IF Copying(mm)' \/ memory'.pte[mm][v].kind = "none" THEN Fresh
                ELSE IF memory'.pte[mm][v].kind = "frame"
                       THEN memory'.content[memory'.pte[mm][v].frame]
                ELSE memory'.disk[memory'.pte[mm][v].slot])
               = IF Copying(mm)' THEN Fresh ELSE Stored(memory', mm, v)
    BY PteFacts DEF Stored
  <2>2. ASSUME NEW v \in Page
        PROVE  (IF Copying(mm)' THEN Fresh ELSE Stored(memory', mm, v)) \in Value \cup {Fresh}
    BY StoredType
  <2>. QED  BY <2>1, <2>2 DEF Contents
<1>. QED  BY <1>1, <1>2 DEF Prot, Data, ProtType, DataType

\* No step of private memory, ...
LEMMA Stutters ==
  ASSUME memory \in Memory, memory' \in Memory,
         \A mm \in Mm, v \in Page : Prot'[mm][v] = Prot[mm][v] /\ Data'[mm][v] = Data[mm][v]
  PROVE  UNCHANGED Abstract!vars
<1>1. /\ Prot \in ProtType /\ Data \in DataType
      /\ Prot' \in ProtType /\ Data' \in DataType
  BY View, ViewNext
<1>2. \A mm \in Mm : Prot'[mm] = Prot[mm] /\ Data'[mm] = Data[mm]
  BY <1>1 DEF ProtType, DataType
<1>3. Prot' = Prot /\ Data' = Data
  BY <1>1, <1>2 DEF ProtType, DataType
<1>. QED  BY <1>3 DEF Abstract!vars, Prot, Data

\* ... a first value of a page, or a write, ...
LEMMA PageSet ==
  ASSUME memory \in Memory, memory' \in Memory, NEW mm \in Mm, NEW v \in Page, NEW x \in Value,
         \A other \in Mm, u \in Page : Prot'[other][u] = Prot[other][u],
         \A other \in Mm, u \in Page :
           Data'[other][u] = IF other = mm /\ u = v THEN x ELSE Data[other][u]
  PROVE  /\ Prot[mm][v] # "none" /\ Data[mm][v] = Fresh => Abstract!Touch(mm, v, x)
         /\ Prot[mm][v] = "rw" /\ Data[mm][v] # Fresh => Abstract!Write(mm, v, x)
<1>1. /\ Prot \in ProtType /\ Data \in DataType
      /\ Prot' \in ProtType /\ Data' \in DataType
  BY View, ViewNext
<1>2. \A other \in Mm : Prot'[other] = Prot[other]
  BY <1>1 DEF ProtType
<1>3. Prot' = Prot
  BY <1>1, <1>2 DEF ProtType
<1>. DEFINE data1 == [Data EXCEPT ![mm][v] = x]
<1>4. data1 \in DataType /\ \A other \in Mm, u \in Page :
        data1[other][u] = IF other = mm /\ u = v THEN x ELSE Data[other][u]
  BY <1>1 DEF DataType
<1>. HIDE DEF data1
<1>5. \A other \in Mm : Data'[other] = data1[other]
  BY <1>1, <1>4 DEF DataType
<1>6. Data' = data1
  BY <1>1, <1>4, <1>5 DEF DataType
<1>. QED  BY <1>3, <1>6 DEF data1, Abstract!Touch, Abstract!Write, Prot, Data

\* ... a child with what its parent has, ...
LEMMA Forked ==
  ASSUME memory \in Memory, memory' \in Memory, NEW mm \in Mm, NEW child \in Mm,
         \A v \in Page : Prot[child][v] = "none",
         \A other \in Mm, u \in Page :
           /\ Prot'[other][u] = IF other = child THEN Prot[mm][u] ELSE Prot[other][u]
           /\ Data'[other][u] = IF other = child THEN Data[mm][u] ELSE Data[other][u]
  PROVE  Abstract!Fork(mm, child)
<1>1. /\ Prot \in ProtType /\ Data \in DataType
      /\ Prot' \in ProtType /\ Data' \in DataType
  BY View, ViewNext
<1>2. Prot[child] = [v \in Page |-> "none"]
  BY <1>1 DEF ProtType
<1>. DEFINE prot1 == [Prot EXCEPT ![child] = Prot[mm]]  data1 == [Data EXCEPT ![child] = Data[mm]]
<1>3. /\ prot1 \in ProtType /\ data1 \in DataType
      /\ \A other \in Mm : /\ prot1[other] = IF other = child THEN Prot[mm] ELSE Prot[other]
                           /\ data1[other] = IF other = child THEN Data[mm] ELSE Data[other]
  BY <1>1 DEF ProtType, DataType
<1>. HIDE DEF prot1, data1
<1>4. \A other \in Mm : Prot'[other] = prot1[other] /\ Data'[other] = data1[other]
  BY <1>1, <1>3 DEF ProtType, DataType
<1>5. Prot' = prot1 /\ Data' = data1
  BY <1>1, <1>3, <1>4 DEF ProtType, DataType
<1>. QED  BY <1>2, <1>5 DEF prot1, data1, Abstract!Fork, Abstract!Nothing, Prot, Data

\* ... and an address space without anything.
LEMMA Destroyed ==
  ASSUME memory \in Memory, memory' \in Memory, NEW mm \in Mm,
         \A other \in Mm, u \in Page :
           /\ Prot'[other][u] = IF other = mm THEN "none" ELSE Prot[other][u]
           /\ Data'[other][u] = IF other = mm THEN Fresh ELSE Data[other][u]
  PROVE  Abstract!Destroy(mm)
<1>1. /\ Prot \in ProtType /\ Data \in DataType
      /\ Prot' \in ProtType /\ Data' \in DataType
  BY View, ViewNext
<1>. DEFINE prot1 == [Prot EXCEPT ![mm] = [v \in Page |-> "none"]]
            data1 == [Data EXCEPT ![mm] = [v \in Page |-> Fresh]]
<1>2. /\ prot1 \in ProtType /\ data1 \in DataType
      /\ \A other \in Mm, u \in Page :
           /\ prot1[other][u] = IF other = mm THEN "none" ELSE Prot[other][u]
           /\ data1[other][u] = IF other = mm THEN Fresh ELSE Data[other][u]
  BY <1>1 DEF ProtType, DataType
<1>. HIDE DEF prot1, data1
<1>3. \A other \in Mm : Prot'[other] = prot1[other] /\ Data'[other] = data1[other]
  BY <1>1, <1>2 DEF ProtType, DataType
<1>4. Prot' = prot1 /\ Data' = data1
  BY <1>1, <1>2, <1>3 DEF ProtType, DataType
<1>. QED
  BY <1>4 DEF prot1, data1, Abstract!Destroy, Abstract!Nothing, Abstract!Untouched, Prot, Data

\* Two address spaces are seen before and after a step as they were.
LEMMA QuietSteps ==
  ASSUME MemInv, MemInv', NEW mm \in Mm, Create(mm) \/ Loaded(mm)
  PROVE  UNCHANGED Abstract!vars
<1>1. /\ source = NoMm /\ source' = NoMm /\ UNCHANGED mmap_list
  BY DEF MemInv, CopyOK, Create, Loaded, Loading
<1>2. memory \in Memory /\ memory' \in Memory
  BY DEF MemInv, TypeOK
<1>3. \A other \in Mm, v \in Page : Stored(memory', other, v) = Stored(memory, other, v)
  <2>1. CASE Create(mm)
    <3>1. /\ check_mm_struct = NoMm /\ mm \in Mm \ (mms \cup {check}) /\ Room(mm, {})
          /\ memory' = SetupPgdir(mm) /\ mms' = mms \cup {mm} /\ {} \in SUBSET Page
          /\ UNCHANGED <<check_mm_struct, mmap_list, mmap_cache>>
      BY <2>1 DEF Create
    <3>. QED  BY <3>1, DirectoryKeeps
  <2>2. CASE Loaded(mm)
    BY <2>2 DEF Loaded
  <2>. QED  BY <2>1, <2>2
<1>4. ASSUME NEW other \in Mm, NEW v \in Page
      PROVE  Prot'[other][v] = Prot[other][v] /\ Data'[other][v] = Data[other][v]
  BY <1>1, <1>2, <1>3, View, ViewNext DEF Copying
<1>. QED  BY <1>2, <1>4, Stutters

\* What a child gets is not there before its copy is complete.
LEMMA ForkStutters ==
  ASSUME MemInv, MemInv', NEW mm \in Mm, NEW child \in Mm \ {check}, Fork(mm, child)
  PROVE  UNCHANGED Abstract!vars
<1>1. /\ loading = NoMm /\ child \notin mms /\ mm \in mms /\ loading' = child /\ source' = mm
      /\ UNCHANGED mmap_list
      /\ \A other \in Mm, v \in Page : Stored(memory', other, v) = Stored(memory, other, v)
  BY ForkFacts
<1>2. memory \in Memory /\ memory' \in Memory
  BY DEF MemInv, TypeOK
<1>3. /\ \A v \in Page : memory.pte[child][v] = Empty
      /\ mmap_list[child] = <<>> /\ ToSet(<<>>) = {}
  BY <1>1, EmptyFacts DEF MemInv, AbsentOK
<1>4. \A other \in Mm : ~Copying(other) /\ (Copying(other)' <=> other = child)
  BY <1>1, Constants DEF Copying
<1>5. ASSUME NEW v \in Page
      PROVE  Stored(memory, child, v) = Fresh /\ Right(ToSet(mmap_list[child]), v) = "none"
  BY <1>3, NewPtes DEF Stored, Right
<1>6. ASSUME NEW other \in Mm, NEW v \in Page
      PROVE  Prot'[other][v] = Prot[other][v] /\ Data'[other][v] = Data[other][v]
  BY <1>1, <1>2, <1>4, <1>5, View, ViewNext
<1>. QED  BY <1>2, <1>6, Stutters

LEMMA CopyVmaStutters ==
  ASSUME MemInv, MemInv', NEW child \in Mm, CopyVma(child)
  PROVE  UNCHANGED Abstract!vars
<1>1. /\ loading = child /\ source # NoMm /\ UNCHANGED <<loading, source, memory>>
      /\ mmap_list' = [mmap_list EXCEPT
                         ![child] = InsertVma(@, mmap_list[source][Len(mmap_list[source])
                                                                   - Len(mmap_list[child])])]
  BY DEF CopyVma, Copying
<1>2. memory \in Memory /\ memory' \in Memory
  BY DEF MemInv, TypeOK
<1>3. \A other \in Mm \ {child} : mmap_list'[other] = mmap_list[other]
  BY <1>1 DEF MemInv, TypeOK
<1>4. \A other \in Mm : (Copying(other) <=> other = child) /\ (Copying(other)' <=> other = child)
  BY <1>1 DEF Copying
<1>5. ASSUME NEW other \in Mm, NEW v \in Page
      PROVE  Prot'[other][v] = Prot[other][v] /\ Data'[other][v] = Data[other][v]
  BY <1>1, <1>2, <1>3, <1>4, View, ViewNext
<1>. QED  BY <1>2, <1>5, Stutters

LEMMA CopyPageStutters ==
  ASSUME MemInv, MemInv', NEW child \in Mm, NEW v \in Page, CopyPage(child, v)
  PROVE  UNCHANGED Abstract!vars
<1>1. /\ child \in mms /\ loading = child /\ source \in mms
      /\ UNCHANGED <<check_mm_struct, mms, loading, source, mmap_list, mmap_cache>>
  BY CopyPageFacts
<1>2. PICK vma \in ToSet(mmap_list[child]), x \in Value :
        /\ Covers(vma, v) /\ ~Held(child, v) /\ Room(child, {v})
        /\ memory' = MapPage(memory, child, v, vma.write, x)
  BY CopyPageFacts
<1>3. Maps(memory, memory', child, v, vma.write, x)
  BY <1>1, <1>2, MappingKeeps
<1>4. memory \in Memory /\ memory' \in Memory
  BY DEF MemInv, TypeOK
<1>5. \A other \in Mm : (Copying(other) <=> other = child) /\ (Copying(other)' <=> other = child)
  BY <1>1, Constants DEF Copying, MemInv, TypeOK
<1>6. \A other \in Mm \ {child}, u \in Page : Stored(memory', other, u) = Stored(memory, other, u)
  BY <1>3 DEF Maps
<1>7. ASSUME NEW other \in Mm, NEW u \in Page
      PROVE  Prot'[other][u] = Prot[other][u] /\ Data'[other][u] = Data[other][u]
  BY <1>1, <1>4, <1>5, <1>6, View, ViewNext
<1>. QED  BY <1>4, <1>7, Stutters

\* A page that is mapped under a vma when it had nothing is touched, and when it was
\* swapped out it is as before.
LEMMA MappingSeen ==
  ASSUME MemInv, MemInv', NEW mm \in mms, NEW v \in Page, NEW vma \in ToSet(mmap_list[mm]),
         NEW x \in Value, Covers(vma, v), source = NoMm, UNCHANGED <<source, mmap_list>>,
         Maps(memory, memory', mm, v, vma.write, x),
         memory.pte[mm][v] # Empty => x = Stored(memory, mm, v)
  PROVE  Abstract!Touch(mm, v, x) \/ UNCHANGED Abstract!vars
<1>1. memory \in Memory /\ memory' \in Memory /\ mm \in Mm
  BY DEF MemInv, TypeOK
<1>2. \A other \in Mm : ~Copying(other) /\ ~Copying(other)'
  BY DEF Copying
<1>3. /\ Stored(memory', mm, v) = x
      /\ \A other \in Mm, u \in Page : ~(other = mm /\ u = v) =>
           Stored(memory', other, u) = Stored(memory, other, u)
  BY DEF Maps
<1>4. \A other \in Mm, u \in Page : Prot'[other][u] = Prot[other][u]
  BY <1>1, <1>2, View, ViewNext
<1>5. \A other \in Mm, u \in Page :
        Data'[other][u] = IF other = mm /\ u = v THEN x ELSE Data[other][u]
  BY <1>1, <1>2, <1>3, View, ViewNext
<1>6. CASE memory.pte[mm][v] = Empty
  <2>1. Data[mm][v] = Fresh
    <3>1. Stored(memory, mm, v) = Fresh
      BY <1>6, NewPtes DEF Stored
    <3>. QED  BY <1>1, <1>2, <3>1, View
  <2>2. Prot[mm][v] # "none"
    <3>1. Right(ToSet(mmap_list[mm]), v) # "none"
      BY DEF Right
    <3>. QED  BY <1>1, <1>2, <3>1, View
  <2>. QED  BY <1>1, <1>4, <1>5, <2>1, <2>2, PageSet
<1>7. CASE memory.pte[mm][v] # Empty
  <2>1. Data[mm][v] = x
    BY <1>1, <1>2, <1>7, View
  <2>2. \A other \in Mm, u \in Page :
          Prot'[other][u] = Prot[other][u] /\ Data'[other][u] = Data[other][u]
    BY <1>4, <1>5, <2>1
  <2>. QED  BY <1>1, <2>2, Stutters
<1>. QED  BY <1>6, <1>7

LEMMA LoadPageTouches ==
  ASSUME MemInv, MemInv', NEW mm \in Mm, NEW v \in Page, NEW x \in Value, LoadPage(mm, v, x)
  PROVE  Abstract!Touch(mm, v, x) \/ UNCHANGED Abstract!vars
<1>1. /\ loading = mm /\ source = NoMm /\ memory.pte[mm][v] = Empty /\ Room(mm, {v})
      /\ UNCHANGED <<check_mm_struct, mms, loading, source, mmap_list, mmap_cache>>
  BY DEF LoadPage, Loading
<1>2. PICK vma \in ToSet(mmap_list[mm]) :
        Covers(vma, v) /\ memory' = MapPage(memory, mm, v, vma.write, x)
  BY DEF LoadPage
<1>3. mm \in mms /\ ~Held(mm, v)
  BY <1>1, Constants, NewPtes DEF MemInv, TypeOK, Held
<1>4. Maps(memory, memory', mm, v, vma.write, x)
  BY <1>1, <1>2, <1>3, MappingKeeps
<1>. QED  BY <1>1, <1>2, <1>3, <1>4, MappingSeen

LEMMA PageFaultTouches ==
  ASSUME MemInv, MemInv', NEW mm \in Mm, NEW v \in Page, NEW write \in BOOLEAN,
         PageFault(mm, v, write)
  PROVE  (\E x \in Value : Abstract!Touch(mm, v, x)) \/ UNCHANGED Abstract!vars
<1>1. /\ mm \in mms /\ loading = NoMm /\ source = NoMm
      /\ UNCHANGED <<check_mm_struct, mms, loading, source, mmap_list>>
      /\ \A other \in Mm \ {mm} : mmap_cache'[other] = mmap_cache[other]
  BY FaultFacts
<1>2. CASE UNCHANGED memory
  <2>1. memory \in Memory /\ memory' \in Memory
    BY DEF MemInv, TypeOK
  <2>2. ASSUME NEW other \in Mm, NEW u \in Page
        PROVE  Prot'[other][u] = Prot[other][u] /\ Data'[other][u] = Data[other][u]
    BY <1>1, <1>2, <2>1, View, ViewNext DEF Copying
  <2>. QED  BY <2>1, <2>2, Stutters
<1>3. CASE ~UNCHANGED memory
  <2>1. PICK vma \in ToSet(mmap_list[mm]), x \in Value :
          /\ Covers(vma, v) /\ ~Held(mm, v) /\ Room(mm, {v})
          /\ memory' = MapPage(memory, mm, v, vma.write, x)
          /\ memory.pte[mm][v] # Empty => x = Stored(memory, mm, v)
    BY <1>3, FaultFacts
  <2>2. Maps(memory, memory', mm, v, vma.write, x)
    BY <1>1, <2>1, MappingKeeps
  <2>. QED  BY <1>1, <2>1, <2>2, MappingSeen
<1>. QED  BY <1>2, <1>3

LEMMA WriteWrites ==
  ASSUME MemInv, MemInv', NEW mm \in Mm, NEW v \in Page, NEW x \in Value, Write(mm, v, x)
  PROVE  Abstract!Write(mm, v, x)
<1>1. /\ source = NoMm /\ UNCHANGED <<source, mmap_list>>
      /\ Held(mm, v) /\ memory.pte[mm][v].write
      /\ \A other \in Mm, u \in Page :
           Stored(memory', other, u) = IF other = mm /\ u = v THEN x ELSE Stored(memory, other, u)
  BY WriteFacts
<1>2. memory \in Memory /\ memory' \in Memory
  BY DEF MemInv, TypeOK
<1>3. \A other \in Mm : ~Copying(other) /\ ~Copying(other)'
  BY <1>1 DEF Copying
<1>4. memory.pte[mm][v] # Empty
  BY <1>1, NewPtes DEF Held
<1>5. Prot[mm][v] = "rw"
  <2>1. PICK vma \in ToSet(mmap_list[mm]) : Covers(vma, v) /\ memory.pte[mm][v].write = vma.write
    BY <1>1, <1>4 DEF MemInv, PagesOK
  <2>2. Right(ToSet(mmap_list[mm]), v) = "rw"
    BY <1>1, <2>1 DEF Right
  <2>. QED  BY <1>2, <1>3, <2>2, View
<1>6. Data[mm][v] # Fresh
  <2>1. Stored(memory, mm, v) \in Value
    BY <1>4 DEF MemInv, ValuesOK
  <2>. QED  BY <1>2, <1>3, <2>1, View, Constants
<1>7. \A other \in Mm, u \in Page : Prot'[other][u] = Prot[other][u]
  BY <1>1, <1>2, <1>3, View, ViewNext
<1>8. \A other \in Mm, u \in Page :
        Data'[other][u] = IF other = mm /\ u = v THEN x ELSE Data[other][u]
  BY <1>1, <1>2, <1>3, View, ViewNext
<1>. QED  BY <1>2, <1>5, <1>6, <1>7, <1>8, PageSet

\* A new vma has none of the pages that another has.
LEMMA MmMapMaps ==
  ASSUME MemInv, MemInv', NEW mm \in Mm, NEW vma \in Segment, MmMap(mm, vma)
  PROVE  Abstract!Map(mm)
<1>1. /\ mm \in mms /\ source = NoMm /\ UNCHANGED <<source, memory>>
      /\ UNCHANGED mmap_list \/ VmaAdded(mm, vma)
  BY MmMapFacts
<1>2. memory \in Memory /\ memory' \in Memory /\ vma \in Vma
  BY Constants DEF MemInv, TypeOK
<1>3. \A other \in Mm : ~Copying(other) /\ ~Copying(other)'
  BY <1>1 DEF Copying
<1>4. /\ \A other \in Mm \ {mm} : mmap_list'[other] = mmap_list[other]
      /\ \A v \in Page : Right(ToSet(mmap_list[mm]), v) # "none" =>
           Right(ToSet(mmap_list'[mm]), v) = Right(ToSet(mmap_list[mm]), v)
  <2>1. CASE UNCHANGED mmap_list
    BY <2>1
  <2>2. CASE VmaAdded(mm, vma)
    <3>0. mmap_list \in [Mm -> Seq(Vma)] /\ Ordered(mmap_list[mm])
      BY DEF MemInv, TypeOK, ListsOK
    <3>1. mmap_list'[mm] = InsertVma(mmap_list[mm], vma)
      BY <2>2, <3>0 DEF VmaAdded
    <3>2. /\ ToSet(mmap_list'[mm]) = ToSet(mmap_list[mm]) \cup {vma}
          /\ \A other \in ToSet(mmap_list[mm]) : other.end <= vma.start \/ vma.end <= other.start
      BY <1>2, <2>2, <3>0, <3>1, InsertFacts DEF VmaAdded
    <3>3. ASSUME NEW v \in Page, NEW other \in ToSet(mmap_list[mm]), Covers(other, v)
          PROVE  ~Covers(vma, v)
      <4>1. other \in Vma /\ v \in Nat
        BY <3>0, ListFacts, Constants DEF Page
      <4>2. /\ other.start \in Nat /\ other.end \in Nat /\ vma.start \in Nat /\ vma.end \in Nat
            /\ other.end <= vma.start \/ vma.end <= other.start
        BY <1>2, <3>2, <4>1, VmaFacts
      <4>. QED  BY <3>3, <4>1, <4>2 DEF Covers
    <3>4. ASSUME NEW v \in Page, Right(ToSet(mmap_list[mm]), v) # "none"
          PROVE  Right(ToSet(mmap_list'[mm]), v) = Right(ToSet(mmap_list[mm]), v)
      <4>1. PICK other \in ToSet(mmap_list[mm]) : Covers(other, v)
        BY <3>4 DEF Right
      <4>2. ~Covers(vma, v)
        BY <3>3, <4>1
      <4>. QED  BY <3>2, <4>1, <4>2 DEF Right
    <3>5. \A other \in Mm \ {mm} : mmap_list'[other] = mmap_list[other]
      BY <2>2, <3>0 DEF VmaAdded
    <3>. QED  BY <3>4, <3>5
  <2>. QED  BY <1>1, <2>1, <2>2
<1>5. /\ Prot \in ProtType /\ Data \in DataType
      /\ Prot' \in ProtType /\ Data' \in DataType
  BY <1>2, View, ViewNext
<1>6. Data' = Data
  <2>1. \A other \in Mm, v \in Page : Data'[other][v] = Data[other][v]
    BY <1>1, <1>2, <1>3, View, ViewNext
  <2>2. \A other \in Mm : Data'[other] = Data[other]
    BY <1>5, <2>1 DEF DataType
  <2>. QED  BY <1>5, <2>2 DEF DataType
<1>7. \A v \in Page : Prot[mm][v] # "none" => Prot'[mm][v] = Prot[mm][v]
  BY <1>2, <1>3, <1>4, View, ViewNext
<1>8. \A other \in Mm \ {mm} : Prot'[other] = Prot[other]
  <2>1. \A other \in Mm \ {mm}, v \in Page : Prot'[other][v] = Prot[other][v]
    BY <1>2, <1>3, <1>4, View, ViewNext
  <2>. QED  BY <1>5, <2>1 DEF ProtType
<1>. QED  BY <1>6, <1>7, <1>8 DEF Abstract!Map, Prot, Data

\* A complete child has all the vmas and all the pages of its parent.
LEMMA CopiedForks ==
  ASSUME MemInv, MemInv', NEW child \in Mm, Copied(child)
  PROVE  source \in Mm /\ Abstract!Fork(source, child)
<1>1. /\ loading = child /\ source # NoMm /\ loading' = NoMm /\ source' = NoMm
      /\ UNCHANGED <<mmap_list, memory>> /\ RangesCopied(child)
      /\ Len(mmap_list[child]) = Len(mmap_list[source])
  BY DEF Copied, Copying
<1>2. memory \in Memory /\ memory' \in Memory /\ source \in mms /\ source \in Mm
      /\ mmap_list \in [Mm -> Seq(Vma)]
  BY <1>1 DEF MemInv, TypeOK
<1>3. /\ source # child /\ IsEnd(mmap_list[child], mmap_list[source])
      /\ \A v \in Page : memory.pte[child][v] # Empty =>
           Stored(memory, child, v) = Stored(memory, source, v)
  BY <1>1 DEF MemInv, CopyOK
<1>4. /\ \A other \in Mm : Copying(other) <=> other = child
      /\ \A other \in Mm : ~Copying(other)'
  BY <1>1 DEF Copying
<1>5. ToSet(mmap_list[child]) = ToSet(mmap_list[source])
  <2>0. PICK list, whole : list = mmap_list[child] /\ whole = mmap_list[source]
    OBVIOUS
  <2>1. list \in Seq(Vma) /\ whole \in Seq(Vma) /\ Len(list) = Len(whole) /\ IsEnd(list, whole)
    BY <1>1, <1>2, <1>3, <2>0
  <2>2. \A i \in 1..Len(list) : list[i] = whole[i]
    <3>1. Len(whole) - Len(list) = 0 /\ Len(list) \in Nat
      BY <2>1, ListFacts
    <3>. QED  BY <2>1, <3>1 DEF IsEnd
  <2>3. ASSUME NEW y \in ToSet(list)  PROVE y \in ToSet(whole)
    <3>1. PICK i \in 1..Len(list) : list[i] = y
      BY <2>1, ListFacts
    <3>. QED  BY <2>1, <2>2, <3>1, ListFacts
  <2>4. ASSUME NEW y \in ToSet(whole)  PROVE y \in ToSet(list)
    <3>1. PICK i \in 1..Len(whole) : whole[i] = y
      BY <2>1, ListFacts
    <3>. QED  BY <2>1, <2>2, <3>1, ListFacts
  <2>. QED  BY <2>0, <2>3, <2>4
<1>6. ASSUME NEW v \in Page  PROVE Stored(memory, child, v) = Stored(memory, source, v)
  <2>1. CASE memory.pte[child][v] # Empty
    BY <1>3, <2>1
  <2>2. CASE memory.pte[child][v] = Empty /\ memory.pte[source][v] = Empty
    BY <2>2, NewPtes DEF Stored
  <2>3. CASE memory.pte[child][v] = Empty /\ memory.pte[source][v] # Empty
    <3>1. memory.pte[source][v].kind # "slot"
      BY <1>1, <1>2, Constants DEF MemInv, SwapOK, TypeOK
    <3>2. Held(source, v)
      BY <1>2, <2>3, <3>1, PteFacts DEF Held
    <3>3. PICK vma \in ToSet(mmap_list[child]) : Covers(vma, v)
      BY <1>2, <1>5, <2>3 DEF MemInv, PagesOK
    <3>4. v \in Pages(vma)
      <4>1. vma \in Vma /\ v \in Nat
        BY <1>2, <3>3, ListFacts, Constants DEF Page
      <4>2. vma.start \in Nat /\ vma.end \in Nat
        BY <4>1, VmaFacts
      <4>. QED  BY <3>3, <4>1, <4>2 DEF Covers, Pages
    <3>5. Held(child, v)
      BY <1>1, <3>2, <3>3, <3>4 DEF RangesCopied
    <3>. QED  BY <2>3, <3>5, NewPtes DEF Held
  <2>. QED  BY <2>1, <2>2, <2>3
<1>7. \A v \in Page : Prot[child][v] = "none"
  BY <1>2, <1>4, View
<1>8. ASSUME NEW other \in Mm, NEW u \in Page
      PROVE  /\ Prot'[other][u] = IF other = child THEN Prot[source][u] ELSE Prot[other][u]
             /\ Data'[other][u] = IF other = child THEN Data[source][u] ELSE Data[other][u]
  <2>1. CASE other = child
    BY <1>1, <1>2, <1>3, <1>4, <1>5, <1>6, <2>1, View, ViewNext
  <2>2. CASE other # child
    BY <1>1, <1>2, <1>4, <2>2, View, ViewNext
  <2>. QED  BY <2>1, <2>2
<1>. QED  BY <1>2, <1>7, <1>8, Forked

LEMMA DestroyDestroys ==
  ASSUME MemInv, MemInv', NEW mm \in Mm, Destroy(mm)
  PROVE  Abstract!Destroy(mm)
<1>1. /\ source = NoMm /\ UNCHANGED source /\ mmap_list' = [mmap_list EXCEPT ![mm] = <<>>]
      /\ memory' \in Memory /\ Frees(memory, memory', mm)
  BY DestroyFacts
<1>2. memory \in Memory /\ Pool \in SUBSET Frame /\ mmap_list \in [Mm -> Seq(Vma)]
      /\ OneUse(memory) /\ NoneLost(memory, Pool)
  BY Constants DEF MemInv, TypeOK, FramesOK, Pool
<1>3. \A other \in Mm : ~Copying(other) /\ ~Copying(other)'
  BY <1>1 DEF Copying
<1>4. \A other \in Mm \ {mm}, v \in Page : Stored(memory', other, v) = Stored(memory, other, v)
  <2>. PICK m : m = memory
    OBVIOUS
  <2>. PICK r : r = memory'
    OBVIOUS
  <2>1. m \in Memory /\ r \in Memory /\ OneUse(m) /\ NoneLost(m, Pool) /\ Frees(m, r, mm)
    BY <1>1, <1>2
  <2>2. \A other \in Mm \ {mm}, v \in Page : Stored(r, other, v) = Stored(m, other, v)
    BY <1>2, <2>1, AllFreed
  <2>. QED  BY <2>2
<1>5. \A v \in Page : Stored(memory', mm, v) = Fresh
  BY <1>1, NewPtes DEF Frees, Stored
<1>6. /\ \A other \in Mm \ {mm} : mmap_list'[other] = mmap_list[other]
      /\ \A v \in Page : Right(ToSet(mmap_list'[mm]), v) = "none"
  <2>1. ToSet(<<>>) = {}
    BY EmptyFacts
  <2>. QED  BY <1>1, <1>2, <2>1 DEF Right
<1>7. ASSUME NEW other \in Mm, NEW u \in Page
      PROVE  /\ Prot'[other][u] = IF other = mm THEN "none" ELSE Prot[other][u]
             /\ Data'[other][u] = IF other = mm THEN Fresh ELSE Data[other][u]
  BY <1>1, <1>2, <1>3, <1>4, <1>5, <1>6, View, ViewNext
<1>. QED  BY <1>1, <1>2, <1>7, Destroyed

\* check_swap takes its pages with it, and nobody else had any.
LEMMA EndCheckDestroys ==
  ASSUME MemInv, MemInv', EndCheck
  PROVE  Abstract!Destroy(check)
<1>1. /\ check_mm_struct = check /\ UNCHANGED source /\ memory' = Unmapped(Frame \ CheckFrame)
      /\ mmap_list' = [mmap_list EXCEPT ![check] = <<>>]
  BY DEF EndCheck
<1>2. /\ mms = {check} /\ source = NoMm /\ check \in Mm
  BY <1>1, Constants DEF MemInv, SwapOK
<1>3. memory \in Memory /\ memory' \in Memory
  BY DEF MemInv, TypeOK
<1>4. \A other \in Mm : ~Copying(other) /\ ~Copying(other)'
  BY <1>1, <1>2 DEF Copying
<1>5. \A other \in Mm, v \in Page : memory'.pte[other][v] = Empty
  BY <1>1, UnmappedFacts
<1>6. /\ \A other \in Mm : mmap_list'[other] = <<>>
      /\ \A other \in Mm \ {check} : mmap_list[other] = <<>> /\
           \A v \in Page : memory.pte[other][v] = Empty
  BY <1>1, <1>2 DEF MemInv, TypeOK, AbsentOK
<1>7. \A v \in Page : Right(ToSet(<<>>), v) = "none"
  BY EmptyFacts DEF Right
<1>8. /\ \A other \in Mm, v \in Page : Stored(memory', other, v) = Fresh
      /\ \A other \in Mm \ {check}, v \in Page : Stored(memory, other, v) = Fresh
  BY <1>5, <1>6, NewPtes DEF Stored
<1>9. ASSUME NEW other \in Mm, NEW u \in Page
      PROVE  /\ Prot'[other][u] = IF other = check THEN "none" ELSE Prot[other][u]
             /\ Data'[other][u] = IF other = check THEN Fresh ELSE Data[other][u]
  BY <1>3, <1>4, <1>6, <1>7, <1>8, View, ViewNext
<1>. QED  BY <1>2, <1>3, <1>9, Destroyed

LEMMA PrivateStep == MemInv /\ MemInv' /\ [Next]_vars => [Abstract!Next]_(Abstract!vars)
<1>. SUFFICES ASSUME MemInv, MemInv', [Next]_vars  PROVE Abstract!Next \/ UNCHANGED Abstract!vars
  OBVIOUS
<1>0. check \in Mm
  BY Constants
<1>1. CASE EndCheck
  BY <1>0, <1>1, EndCheckDestroys DEF Abstract!Next
<1>2. ASSUME NEW mm \in Mm, Create(mm) \/ Loaded(mm)  PROVE UNCHANGED Abstract!vars
  BY <1>2, QuietSteps
<1>3. ASSUME NEW mm \in Mm, Destroy(mm)  PROVE Abstract!Next
  BY <1>3, DestroyDestroys DEF Abstract!Next
<1>4. ASSUME NEW mm \in Mm, CopyVma(mm)  PROVE UNCHANGED Abstract!vars
  BY <1>4, CopyVmaStutters
<1>5. ASSUME NEW mm \in Mm, Copied(mm)  PROVE Abstract!Next
  BY <1>5, CopiedForks DEF Abstract!Next
<1>6. ASSUME NEW mm \in Mm, NEW v \in Page, CopyPage(mm, v)  PROVE UNCHANGED Abstract!vars
  BY <1>6, CopyPageStutters
<1>7. ASSUME NEW mm \in Mm, NEW vma \in Segment, MmMap(mm, vma)  PROVE Abstract!Next
  BY <1>7, MmMapMaps DEF Abstract!Next
<1>8. ASSUME NEW mm \in Mm, NEW v \in Page, NEW x \in Value, LoadPage(mm, v, x)
      PROVE  Abstract!Next \/ UNCHANGED Abstract!vars
  BY <1>8, LoadPageTouches DEF Abstract!Next
<1>9. ASSUME NEW mm \in Mm, NEW v \in Page, NEW x \in Value, Write(mm, v, x)
      PROVE  Abstract!Next
  BY <1>9, WriteWrites DEF Abstract!Next
<1>10. ASSUME NEW mm \in Mm, NEW v \in Page, NEW write \in BOOLEAN, PageFault(mm, v, write)
       PROVE  Abstract!Next \/ UNCHANGED Abstract!vars
  BY <1>10, PageFaultTouches DEF Abstract!Next
<1>11. ASSUME NEW mm \in Mm, NEW child \in Mm \ {check}, Fork(mm, child)
       PROVE  UNCHANGED Abstract!vars
  BY <1>11, ForkStutters
<1>12. CASE UNCHANGED vars
  <2>1. UNCHANGED <<loading, source, mmap_list, memory>>
    BY <1>12 DEF vars
  <2>2. memory \in Memory /\ memory' \in Memory
    BY DEF MemInv, TypeOK
  <2>3. ASSUME NEW other \in Mm, NEW v \in Page
        PROVE  Prot'[other][v] = Prot[other][v] /\ Data'[other][v] = Data[other][v]
    BY <2>1, <2>2, View, ViewNext DEF Copying
  <2>. QED  BY <2>2, <2>3, Stutters
<1>. QED
  BY <1>1, <1>2, <1>3, <1>4, <1>5, <1>6, <1>7, <1>8, <1>9, <1>10, <1>11, <1>12 DEF Next

\* Before anything is loaded no address space holds anything.
LEMMA PrivateInit == Init => Abstract!Init
<1>. SUFFICES ASSUME Init  PROVE Abstract!Init
  OBVIOUS
<1>1. MemInv /\ source = NoMm /\ memory = Unmapped(CheckFrame) /\ CheckFrame \in SUBSET Frame
  BY MemInit, Constants DEF Init
<1>2. memory \in Memory /\ \A mm \in Mm, v \in Page : memory.pte[mm][v] = Empty
  BY <1>1, UnmappedFacts DEF MemInv, TypeOK
<1>3. Prot \in ProtType /\ Data \in DataType
  BY <1>2, View
<1>4. \A mm \in Mm, v \in Page : Data[mm][v] = Fresh
  <2>1. \A mm \in Mm, v \in Page : Stored(memory, mm, v) = Fresh
    BY <1>2, NewPtes DEF Stored
  <2>. QED  BY <1>2, <2>1, View
<1>5. \A mm \in Mm : Data[mm] = [v \in Page |-> Fresh]
  BY <1>3, <1>4 DEF DataType
<1>6. Data = [mm \in Mm |-> [v \in Page |-> Fresh]]
  BY <1>3, <1>5 DEF DataType
<1>. QED  BY <1>3, <1>6 DEF Abstract!Init, Abstract!Untouched, Prot, Data, ProtType

\* Page tables, faults, swapping and the page by page copy of a fork implement private
\* memory: every address space has pages that only its own writes change, and a child
\* starts with exactly what its parent has.
THEOREM MemPrivate == Spec => ImplementsPrivateMemory
<1>1. MemInv /\ [Next]_vars => MemInv /\ MemInv' /\ [Next]_vars
  BY MemNext
<1>2. MemInv /\ [Next]_vars => [Abstract!Next]_(Abstract!vars)
  BY <1>1, PrivateStep
<1>. QED  BY <1>2, PrivateInit, MemAlways, PTL DEF Spec, ImplementsPrivateMemory, Abstract!Spec
=============================================================================
