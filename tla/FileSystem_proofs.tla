------------------------- MODULE FileSystem_proofs -------------------------
(* Proofs about the file system: the counts of open files and inodes are exact, for any
   number of threads, tables, inodes and descriptors, and every block of the disk has
   one owner, for any number of files and blocks and any size of blocks, inodes and
   index blocks. *)
EXTENDS Files, Sfs, FiniteSetTheorems, WellFoundedInduction, TLAPS

-----------------------------------------------------------------------------
(* Open files and inodes. *)

\* The threads that sleep in a read of descriptor fd of table t.
Readers(t, fd) == {p \in Proc : filesp[p] = t /\ reading[p] = fd}

\* A descriptor that is not in use holds nothing; one that is points to an inode, and
\* somebody holds it: a closed file without a reader would never be freed.
FilesHeld ==
  \A t \in Table, fd \in Fd :
    LET file == fd_array[t][fd] IN
    IF file.status = "NONE" THEN file = Unused
    ELSE file.node \in Node /\ file.open_count >= 1

\* Only a thread that runs sleeps in a read.
ReadersRun == \A p \in Proc : reading[p] # NoFd => filesp[p] # NoTable

FilesIInv == FilesInv /\ RefsExact /\ FilesHeld /\ ReadersRun

\* The conjuncts of TypeOK without the bounds that the counts imply.
OpenFile == [status : {"NONE", "OPENED", "CLOSED"}, node : Node \cup {NoNode},
         open_count : Int]
WeakType ==
  /\ filesp \in [Proc -> Table \cup {NoTable}]
  /\ files_count \in [Table -> Int]
  /\ pwd \in [Table -> Dir \cup {NoNode}]
  /\ fd_array \in [Table -> [Fd -> OpenFile]]
  /\ ref_count \in [Node -> Int] /\ open_count \in [Node -> Int]
  /\ reading \in [Proc -> Fd \cup {NoFd}]
  /\ lost \in [Node -> Nat]

-----------------------------------------------------------------------------
LEMMA FdFinite == IsFiniteSet(Fd)
<1>. NENTRY - 1 \in Int /\ 0 \in Int
  BY FilesAssumption
<1>. QED  BY FS_Interval DEF Fd

\* The elements of S that f gives the value v.
At(S, f, v) == {s \in S : f[s] = v}

\* f and g differ at x at most, where g is y.
ChangedAt(S, f, g, x, y) == g[x] = y /\ \A s \in S : s # x => g[s] = f[s]

\* Changing a function at one argument moves that argument from the count of its old
\* value to the count of its new one.
LEMMA CountChange ==
  ASSUME NEW S, IsFiniteSet(S), NEW f, NEW g, NEW x \in S, NEW y, NEW v,
         ChangedAt(S, f, g, x, y)
  PROVE  /\ Cardinality(At(S, f, v)) \in Nat
         /\ Cardinality(At(S, g, v))
              = Cardinality(At(S, f, v)) - One(v, f[x]) + One(v, y)
<1>. DEFINE before == At(S, f, v)
            after == At(S, g, v)
            rest == before \ {x}
<1>1. IsFiniteSet(before)
  BY FS_Subset DEF At
<1>2. /\ IsFiniteSet(rest)
      /\ Cardinality(rest) = Cardinality(before) - One(v, f[x])
      /\ Cardinality(before) \in Nat
  <2>1. /\ IsFiniteSet(rest)
        /\ Cardinality(rest) = IF x \in before THEN Cardinality(before) - 1
                               ELSE Cardinality(before)
    BY <1>1, FS_RemoveElement
  <2>2. Cardinality(before) \in Nat
    BY <1>1, FS_CardinalityType
  <2>3. x \in before <=> v = f[x]
    BY DEF At
  <2>. HIDE DEF before, rest
  <2>. QED  BY <2>1, <2>2, <2>3 DEF One
<1>3. Cardinality(after) = Cardinality(rest) + One(v, y)
  <2>1. CASE v = y
    <3>1. after = rest \cup {x} /\ x \notin rest
      BY <2>1 DEF At, ChangedAt
    <3>. HIDE DEF after, rest
    <3>. QED  BY <1>2, <2>1, <3>1, FS_AddElement DEF One
  <2>2. CASE v # y
    <3>1. after = rest
      BY <2>2 DEF At, ChangedAt
    <3>2. Cardinality(rest) \in Nat
      BY <1>2, FS_CardinalityType
    <3>. HIDE DEF after, rest
    <3>. QED  BY <2>2, <3>1, <3>2 DEF One
  <2>. QED  BY <2>1, <2>2
<1>4. One(v, f[x]) \in Int /\ One(v, y) \in Int
  BY DEF One
<1>. HIDE DEF before, after, rest
<1>5. Cardinality(after) = Cardinality(before) - One(v, f[x]) + One(v, y)
  BY <1>2, <1>3, <1>4
<1>. QED  BY <1>2, <1>5 DEF before, after

\* The descriptors that point to n, of all tables and of one, in a state f of fd_array.
HoldersIn(f, n) == {tf \in Table \X Fd : f[tf[1]][tf[2]].node = n}
Row(f, t, n) == {fd \in Fd : f[t][fd].node = n}

OnlyTable(fa, fb, t) == \A u \in Table : u # t => fb[u] = fa[u]

LEMMA RowFinite ==
  ASSUME NEW f, NEW t, NEW n
  PROVE  IsFiniteSet(Row(f, t, n)) /\ Cardinality(Row(f, t, n)) \in Nat
<1>. Row(f, t, n) \in SUBSET Fd
  BY DEF Row
<1>. QED  BY FdFinite, FS_Subset, FS_CardinalityType

\* When only table t changes, the descriptors that point to n change by those of t.
LEMMA HoldersChange ==
  ASSUME NEW fa, NEW fb, NEW t \in Table, NEW n,
         OnlyTable(fa, fb, t)
  PROVE  /\ Cardinality(HoldersIn(fa, n)) \in Nat
         /\ Cardinality(HoldersIn(fb, n)) =
              Cardinality(HoldersIn(fa, n)) - Cardinality(Row(fa, t, n))
              + Cardinality(Row(fb, t, n))
<1>. DEFINE rest(f) == {tf \in HoldersIn(f, n) : tf[1] # t}
<1>1. ASSUME NEW f
      PROVE  /\ Cardinality(rest(f)) \in Nat
             /\ Cardinality(HoldersIn(f, n))
                  = Cardinality(rest(f)) + Cardinality(Row(f, t, n))
  <2>1. IsFiniteSet(Table \X Fd)
    BY FilesAssumption, FdFinite, FS_Product
  <2>2. IsFiniteSet(rest(f)) /\ Cardinality(rest(f)) \in Nat
    <3>. rest(f) \in SUBSET (Table \X Fd)
      BY DEF HoldersIn
    <3>. HIDE DEF rest
    <3>. QED  BY <2>1, FS_Subset, FS_CardinalityType
  <2>3. /\ IsFiniteSet({t} \X Row(f, t, n))
        /\ Cardinality({t} \X Row(f, t, n)) = Cardinality(Row(f, t, n))
    <3>. IsFiniteSet({t}) /\ Cardinality({t}) = 1
      BY FS_Singleton
    <3>1. /\ IsFiniteSet({t} \X Row(f, t, n))
          /\ Cardinality({t} \X Row(f, t, n)) = Cardinality({t}) * Cardinality(Row(f, t, n))
      BY RowFinite, FS_Product, Zenon
    <3>. QED  BY <3>1, RowFinite
  <2>4. /\ HoldersIn(f, n) = rest(f) \cup ({t} \X Row(f, t, n))
        /\ rest(f) \cap ({t} \X Row(f, t, n)) = {}
    BY DEF HoldersIn, Row
  <2>. HIDE DEF rest
  <2>5. Cardinality(rest(f) \cap ({t} \X Row(f, t, n))) = 0
    BY <2>4, FS_EmptySet
  <2>6. Cardinality(HoldersIn(f, n)) =
          Cardinality(rest(f)) + Cardinality({t} \X Row(f, t, n))
          - Cardinality(rest(f) \cap ({t} \X Row(f, t, n)))
    BY <2>2, <2>3, <2>4, FS_Union
  <2>. QED  BY <2>2, <2>3, <2>5, <2>6, RowFinite
<1>2. rest(fa) = rest(fb)
  BY DEF HoldersIn, OnlyTable
<1>. HIDE DEF rest
<1>. QED  BY <1>1, <1>2, RowFinite

\* A descriptor of t that did not point to n is given to n0.
LEMMA HolderAdded ==
  ASSUME NEW fa, NEW fb, NEW t \in Table, NEW fd0 \in Fd, NEW n0, NEW n,
         OnlyTable(fa, fb, t), fa[t][fd0].node # n
  PROVE  Row(fb, t, n) = Row(fa, t, n) \cup (IF n = n0 THEN {fd0} ELSE {})
           => Cardinality(HoldersIn(fb, n)) = Cardinality(HoldersIn(fa, n)) + One(n, n0)
<1>1. /\ Cardinality(HoldersIn(fa, n)) \in Nat
      /\ Cardinality(HoldersIn(fb, n)) =
           Cardinality(HoldersIn(fa, n)) - Cardinality(Row(fa, t, n))
           + Cardinality(Row(fb, t, n))
  BY HoldersChange
<1>2. SUFFICES ASSUME Row(fb, t, n) = Row(fa, t, n) \cup (IF n = n0 THEN {fd0} ELSE {})
               PROVE  Cardinality(HoldersIn(fb, n))
                        = Cardinality(HoldersIn(fa, n)) + One(n, n0)
  OBVIOUS
<1>3. Cardinality(Row(fb, t, n)) = Cardinality(Row(fa, t, n)) + One(n, n0)
  <2>1. CASE n = n0
    <3>1. Row(fb, t, n) = Row(fa, t, n) \cup {fd0} /\ fd0 \notin Row(fa, t, n)
      BY <1>2, <2>1 DEF Row
    <3>2. Cardinality(Row(fa, t, n) \cup {fd0})
            = IF fd0 \in Row(fa, t, n) THEN Cardinality(Row(fa, t, n))
              ELSE Cardinality(Row(fa, t, n)) + 1
      BY RowFinite, FS_AddElement, Zenon
    <3>. QED  BY <2>1, <3>1, <3>2 DEF One
  <2>2. CASE n # n0
    <3>1. Row(fb, t, n) = Row(fa, t, n)
      BY <1>2, <2>2
    <3>. QED  BY <2>2, <3>1, RowFinite DEF One
  <2>. QED  BY <2>1, <2>2
<1>4. One(n, n0) \in Int
  BY DEF One
<1>. QED  BY <1>1, <1>3, <1>4, RowFinite

\* The descriptors fds of t no longer point to n.
LEMMA HoldersRemoved ==
  ASSUME NEW fa, NEW fb, NEW t \in Table, NEW n, NEW fds,
         OnlyTable(fa, fb, t)
  PROVE  fds \subseteq Row(fa, t, n) /\ Row(fb, t, n) = Row(fa, t, n) \ fds
           => Cardinality(HoldersIn(fb, n))
                = Cardinality(HoldersIn(fa, n)) - Cardinality(fds)
<1>1. /\ Cardinality(HoldersIn(fa, n)) \in Nat
      /\ Cardinality(HoldersIn(fb, n)) =
           Cardinality(HoldersIn(fa, n)) - Cardinality(Row(fa, t, n))
           + Cardinality(Row(fb, t, n))
  BY HoldersChange
<1>2. SUFFICES ASSUME fds \subseteq Row(fa, t, n), Row(fb, t, n) = Row(fa, t, n) \ fds
               PROVE  Cardinality(HoldersIn(fb, n))
                        = Cardinality(HoldersIn(fa, n)) - Cardinality(fds)
  OBVIOUS
<1>3. Row(fa, t, n) \cap fds = fds
  BY <1>2
<1>4. Cardinality(Row(fb, t, n)) = Cardinality(Row(fa, t, n)) - Cardinality(fds)
  BY <1>2, <1>3, RowFinite, FS_Difference
<1>5. Cardinality(fds) \in Nat
  BY <1>2, RowFinite, FS_Subset, FS_CardinalityType
<1>. QED  BY <1>1, <1>4, <1>5, RowFinite

LEMMA SomeThreads ==
  ASSUME NEW P \in SUBSET Proc
  PROVE  /\ IsFiniteSet(P) /\ Cardinality(P) \in Nat
         /\ Cardinality(Proc) \in Nat /\ Cardinality(P) <= Cardinality(Proc)
         /\ Cardinality(P) = 0 <=> P = {}
  BY FilesAssumption, FS_Subset, FS_CardinalityType, FS_EmptySet

\* The counts give the bounds of the type.
LEMMA CountsBound ==
  ASSUME WeakType', TablesHeld', HoldsExact', RefsExact'
  PROVE  TypeOK'
<1>1. files_count' \in [Table -> 0..Cardinality(Proc)]
  <2>1. ASSUME NEW t \in Table
        PROVE  files_count'[t] \in 0..Cardinality(Proc)
    <3>. PICK P \in SUBSET Proc : P = {p \in Proc : filesp'[p] = t}
      OBVIOUS
    <3>1. files_count'[t] = Cardinality(P)
      BY DEF TablesHeld
    <3>. QED  BY <3>1, SomeThreads
  <2>. QED  BY <2>1 DEF WeakType
<1>2. ASSUME NEW t \in Table, NEW fd \in Fd
      PROVE  fd_array'[t][fd].open_count \in 0..1 + Cardinality(Proc)
  <2>. PICK P \in SUBSET Proc : P = {p \in Proc : filesp'[p] = t /\ reading'[p] = fd}
    OBVIOUS
  <2>1. fd_array'[t][fd].open_count
          = Cardinality(P) + (IF fd_array'[t][fd].status = "OPENED" THEN 1 ELSE 0)
    BY DEF HoldsExact
  <2>. QED  BY <2>1, SomeThreads
<1>3. fd_array' \in [Table -> [Fd -> [status : {"NONE", "OPENED", "CLOSED"},
                                     node : Node \cup {NoNode},
                                     open_count : 0..1 + Cardinality(Proc)]]]
  BY <1>2 DEF WeakType, OpenFile
<1>4. ASSUME NEW n \in Node
      PROVE  ref_count'[n] \in Nat /\ open_count'[n] \in Nat
  <2>1. Cardinality(Holders(n, Fd)') \in Nat
    <3>. IsFiniteSet(Table \X Fd) /\ Holders(n, Fd)' \in SUBSET (Table \X Fd)
      BY FilesAssumption, FdFinite, FS_Product DEF Holders
    <3>. QED  BY FS_Subset, FS_CardinalityType
  <2>2. Cardinality({t \in Table : pwd'[t] = n}) \in Nat
    <3>. PICK U \in SUBSET Table : U = {t \in Table : pwd'[t] = n}
      OBVIOUS
    <3>. QED  BY FilesAssumption, FS_Subset, FS_CardinalityType
  <2>3. KernelRefs(n) \in Nat /\ lost'[n] \in Nat
    BY DEF KernelRefs, WeakType
  <2>4. /\ open_count'[n] = Cardinality(Holders(n, Fd)')
        /\ ref_count'[n] = open_count'[n] + Cardinality({t \in Table : pwd'[t] = n})
                           + KernelRefs(n) + lost'[n]
    BY DEF RefsExact, KernelRefs
  <2>. QED  BY <2>1, <2>2, <2>3, <2>4
<1>5. ref_count' \in [Node -> Nat] /\ open_count' \in [Node -> Nat]
  BY <1>4 DEF WeakType
<1>. QED  BY <1>1, <1>3, <1>5 DEF WeakType, TypeOK

LEMMA WeakTypes == ASSUME FilesIInv  PROVE WeakType
<1>1. fd_array \in [Table -> [Fd -> OpenFile]]
  BY DEF FilesIInv, FilesInv, TypeOK, OpenFile
<1>2. files_count \in [Table -> Int] /\ ref_count \in [Node -> Int]
      /\ open_count \in [Node -> Int]
  BY DEF FilesIInv, FilesInv, TypeOK
<1>. QED  BY <1>1, <1>2 DEF FilesIInv, FilesInv, TypeOK, WeakType

\* The table of a thread counts it, and counts no other when its count is 1.
LEMMA TableInUse ==
  ASSUME FilesIInv, NEW p \in Proc, filesp[p] # NoTable
  PROVE  /\ filesp[p] \in Table
         /\ files_count[filesp[p]] \in Nat /\ files_count[filesp[p]] >= 1
         /\ files_count[filesp[p]] = 1 => \A q \in Proc : filesp[q] = filesp[p] => q = p
<1>. PICK t : t = filesp[p]
  OBVIOUS
<1>1. t \in Table
  BY WeakTypes DEF WeakType
<1>. PICK P \in SUBSET Proc : P = {q \in Proc : filesp[q] = t}
  OBVIOUS
<1>2. files_count[t] = Cardinality(P) /\ p \in P
  BY <1>1 DEF FilesIInv, FilesInv, TablesHeld
<1>3. Cardinality(P) \in Nat /\ Cardinality(P) # 0
  BY <1>2, SomeThreads
<1>4. Cardinality(P) = 1 => P = {p}
  BY <1>2, SomeThreads, FS_Singleton
<1>. QED  BY <1>1, <1>2, <1>3, <1>4

\* A file in which a thread sleeps is in use, and held beside its descriptor.
LEMMA ReaderHolds ==
  ASSUME FilesIInv, NEW p \in Proc, reading[p] # NoFd
  PROVE  LET file == fd_array[filesp[p]][reading[p]] IN
         /\ filesp[p] \in Table /\ reading[p] \in Fd
         /\ file.status # "NONE" /\ file.open_count \in Int
         /\ file.status = "OPENED" => file.open_count >= 2
         /\ file.open_count = 1 =>
              \A q \in Proc : filesp[q] = filesp[p] /\ reading[q] = reading[p] => q = p
<1>. PICK t, fd, file : t = filesp[p] /\ fd = reading[p] /\ file = fd_array[t][fd]
  OBVIOUS
<1>1. t \in Table /\ fd \in Fd /\ file \in OpenFile
  BY WeakTypes DEF WeakType, FilesIInv, ReadersRun
<1>. PICK P \in SUBSET Proc : P = {q \in Proc : filesp[q] = t /\ reading[q] = fd}
  OBVIOUS
<1>2. /\ p \in P
      /\ file.open_count = Cardinality(P) + (IF file.status = "OPENED" THEN 1 ELSE 0)
  BY <1>1 DEF FilesIInv, FilesInv, HoldsExact
<1>3. Cardinality(P) \in Nat /\ Cardinality(P) # 0
  BY <1>2, SomeThreads
<1>4. file.status = "NONE" => file.open_count = 0
  BY <1>1 DEF FilesIInv, FilesHeld, Unused
<1>5. Cardinality(P) = 1 => P = {p}
  BY <1>2, SomeThreads, FS_Singleton
<1>6. file.status # "NONE" /\ file.open_count \in Int
  BY <1>2, <1>3, <1>4
<1>7. file.status = "OPENED" => file.open_count >= 2
  BY <1>2, <1>3
<1>8. file.open_count = 1 => P = {p}
  BY <1>2, <1>3, <1>5
<1>. QED  BY <1>1, <1>6, <1>7, <1>8
-----------------------------------------------------------------------------
\* Nobody starts or ends a read.
SameReaders == \A t \in Table, fd \in Fd : Readers(t, fd)' = Readers(t, fd)

\* Descriptor fd0 of table t is given to n0, and no file changes otherwise.
DescriptorGiven(t, fd0, n0) == fd_array' = [fd_array EXCEPT ![t][fd0] = Opened(n0)]

\* An unused descriptor is given to n0.
LEMMA FilesOpened ==
  ASSUME FilesIInv, SameReaders, NEW t \in Table, NEW fd0 \in Fd, NEW n0 \in Node,
         fd_array[t][fd0].status = "NONE",
         DescriptorGiven(t, fd0, n0)
  PROVE  /\ fd_array' \in [Table -> [Fd -> OpenFile]]
         /\ FilesHeld' /\ HoldsExact'
         /\ \A n \in Node : Cardinality(Holders(n, Fd)')
                              = Cardinality(Holders(n, Fd)) + One(n, n0)
<1>1. fd_array \in [Table -> [Fd -> OpenFile]]
  BY WeakTypes DEF WeakType
<1>2. Opened(n0) \in OpenFile
  BY DEF Opened, OpenFile
<1>3. fd_array' \in [Table -> [Fd -> OpenFile]]
  BY <1>1, <1>2 DEF DescriptorGiven
<1>4. \A u \in Table, fd \in Fd :
        fd_array'[u][fd] = IF u = t /\ fd = fd0 THEN Opened(n0) ELSE fd_array[u][fd]
  BY <1>1 DEF DescriptorGiven
<1>5. FilesHeld'
  <2>2. Opened(n0).status # "NONE" /\ Opened(n0).node \in Node /\ Opened(n0).open_count >= 1
    BY DEF Opened
  <2>3. SUFFICES ASSUME NEW u \in Table, NEW fd \in Fd
                 PROVE  IF fd_array'[u][fd].status = "NONE" THEN fd_array'[u][fd] = Unused
                        ELSE fd_array'[u][fd].node \in Node
                             /\ fd_array'[u][fd].open_count >= 1
    BY DEF FilesHeld, Unused
  <2>4. CASE u = t /\ fd = fd0
    BY <1>4, <2>2, <2>4
  <2>5. CASE ~(u = t /\ fd = fd0)
    BY <1>4, <2>5 DEF FilesIInv, FilesHeld
  <2>. QED  BY <2>4, <2>5
<1>6. fd_array[t][fd0] = Unused
  BY DEF FilesIInv, FilesHeld
<1>7. HoldsExact'
  <2>1. SUFFICES ASSUME NEW u \in Table, NEW fd \in Fd
                 PROVE  fd_array'[u][fd].open_count
                          = Cardinality(Readers(u, fd)')
                            + (IF fd_array'[u][fd].status = "OPENED" THEN 1 ELSE 0)
    BY DEF HoldsExact, Readers
  <2>2. /\ Readers(u, fd)' = Readers(u, fd)
        /\ fd_array[u][fd].open_count
             = Cardinality(Readers(u, fd))
               + (IF fd_array[u][fd].status = "OPENED" THEN 1 ELSE 0)
    BY DEF FilesIInv, FilesInv, HoldsExact, Readers, SameReaders
  <2>3. CASE u = t /\ fd = fd0
    <3>1. Cardinality(Readers(u, fd)) \in Nat
      BY SomeThreads DEF Readers
    <3>2. Cardinality(Readers(u, fd)) = 0
      BY <1>6, <2>2, <2>3, <3>1 DEF Unused
    <3>3. fd_array'[u][fd] = Opened(n0)
      BY <1>4, <2>3
    <3>. QED  BY <2>2, <3>2, <3>3 DEF Opened
  <2>4. CASE ~(u = t /\ fd = fd0)
    <3>1. fd_array'[u][fd] = fd_array[u][fd]
      BY <1>4, <2>4
    <3>. QED  BY <2>2, <3>1
  <2>. QED  BY <2>3, <2>4
<1>8. ASSUME NEW n \in Node
      PROVE  Cardinality(Holders(n, Fd)') = Cardinality(Holders(n, Fd)) + One(n, n0)
  <2>1. OnlyTable(fd_array, fd_array', t) /\ fd_array[t][fd0].node # n
    BY <1>1, <1>6, FilesAssumption DEF Unused, OnlyTable, DescriptorGiven
  <2>2. Row(fd_array', t, n) = Row(fd_array, t, n) \cup (IF n = n0 THEN {fd0} ELSE {})
    <3>1. \A fd \in Fd : fd_array'[t][fd] = IF fd = fd0 THEN Opened(n0) ELSE fd_array[t][fd]
      BY <1>4
    <3>. QED  BY <2>1, <3>1 DEF Row, Opened
  <2>3. Holders(n, Fd) = HoldersIn(fd_array, n)
        /\ Holders(n, Fd)' = HoldersIn(fd_array', n)
    BY DEF Holders, HoldersIn
  <2>4. Row(fd_array', t, n) = Row(fd_array, t, n) \cup (IF n = n0 THEN {fd0} ELSE {})
          => Cardinality(HoldersIn(fd_array', n))
               = Cardinality(HoldersIn(fd_array, n)) + One(n, n0)
    BY <2>1, HolderAdded
  <2>. QED  BY <2>2, <2>3, <2>4
<1>. QED  BY <1>3, <1>5, <1>7, <1>8

\* The open descriptors fds of table t are closed, and no file changes otherwise.
DescriptorsClosed(t, fds) ==
  fd_array' = [fd_array EXCEPT ![t] =
                 [fd \in Fd |-> IF fd \in fds THEN ClosedFile(fd_array[t][fd])
                                ELSE fd_array[t][fd]]]

LEMMA HoldsChanged ==
  ASSUME NEW file \in OpenFile
  PROVE  /\ [file EXCEPT !.open_count = @ - 1] \in OpenFile
         /\ [file EXCEPT !.open_count = @ + 1] \in OpenFile
         /\ [file EXCEPT !.status = "CLOSED"] \in OpenFile
  BY DEF OpenFile

LEMMA HoldDropped ==
  ASSUME NEW file \in OpenFile
  PROVE  [file EXCEPT !.status = "CLOSED", !.open_count = @ - 1] \in OpenFile
<1>. PICK closed : closed = [file EXCEPT !.status = "CLOSED"]
  OBVIOUS
<1>1. [closed EXCEPT !.open_count = @ - 1] \in OpenFile
  BY HoldsChanged
<1>2. [file EXCEPT !.status = "CLOSED", !.open_count = @ - 1]
        = [closed EXCEPT !.open_count = @ - 1]
  BY DEF OpenFile
<1>. QED  BY <1>1, <1>2

\* What was a reader's stays, CLOSED; the rest is unused.
LEMMA ClosedFileFacts ==
  ASSUME FilesIInv, NEW t \in Table, NEW fd \in Fd, fd_array[t][fd].status = "OPENED"
  PROVE  LET file == fd_array[t][fd]
             readers == Cardinality(Readers(t, fd))
         IN /\ ClosedFile(file) \in OpenFile
            /\ ClosedFile(file).status # "OPENED"
            /\ ClosedFile(file).open_count = readers
            /\ file.open_count = 1 => ClosedFile(file) = Unused
            /\ file.open_count # 1 => /\ ClosedFile(file).status = "CLOSED"
                                      /\ ClosedFile(file).node = file.node
                                      /\ ClosedFile(file).open_count >= 1
            /\ file.node \in Node
<1>. PICK file, k : file = fd_array[t][fd] /\ k = Cardinality(Readers(t, fd))
  OBVIOUS
<1>1. file \in OpenFile /\ file.status = "OPENED"
  BY WeakTypes DEF WeakType
<1>2. file.open_count = k + 1 /\ file.node \in Node
  BY <1>1 DEF FilesIInv, FilesInv, HoldsExact, FilesHeld, Readers
<1>3. k \in Nat
  BY SomeThreads DEF Readers
<1>4. CASE file.open_count = 1
  <2>1. ClosedFile(file) = Unused
    BY <1>1, <1>4 DEF ClosedFile
  <2>. QED  BY <1>2, <1>3, <1>4, <2>1 DEF Unused, OpenFile
<1>5. CASE file.open_count # 1
  <2>1. ClosedFile(file) = [file EXCEPT !.status = "CLOSED", !.open_count = @ - 1]
    BY <1>1, <1>5 DEF ClosedFile
  <2>2. /\ ClosedFile(file).status = "CLOSED" /\ ClosedFile(file).node = file.node
        /\ ClosedFile(file).open_count = k
    BY <1>1, <1>2, <1>3, <2>1 DEF OpenFile
  <2>3. ClosedFile(file) \in OpenFile
    BY <1>1, <2>1, HoldDropped
  <2>. QED  BY <1>2, <1>3, <1>5, <2>2, <2>3
<1>. QED  BY <1>4, <1>5

LEMMA FilesClosed ==
  ASSUME FilesIInv, SameReaders, NEW t \in Table, NEW fds \in SUBSET Fd,
         \A fd \in fds : fd_array[t][fd].status = "OPENED",
         DescriptorsClosed(t, fds)
  PROVE  /\ fd_array' \in [Table -> [Fd -> OpenFile]]
         /\ FilesHeld' /\ HoldsExact'
         /\ \A n \in Node : /\ Closing(t, fds, n) \in Nat
                            /\ Cardinality(Holders(n, Fd)')
                                 = Cardinality(Holders(n, Fd)) - Closing(t, fds, n)
<1>1. fd_array \in [Table -> [Fd -> OpenFile]]
  BY WeakTypes DEF WeakType
<1>2. ASSUME NEW fd \in fds
      PROVE  ClosedFile(fd_array[t][fd]) \in OpenFile
  BY ClosedFileFacts
<1>3. fd_array' \in [Table -> [Fd -> OpenFile]]
  BY <1>1, <1>2 DEF DescriptorsClosed
<1>4. \A u \in Table, fd \in Fd :
        fd_array'[u][fd] = IF u = t /\ fd \in fds THEN ClosedFile(fd_array[u][fd])
                           ELSE fd_array[u][fd]
  BY <1>1 DEF DescriptorsClosed
<1>5. FilesHeld'
  <2>1. SUFFICES ASSUME NEW u \in Table, NEW fd \in Fd
                 PROVE  IF fd_array'[u][fd].status = "NONE" THEN fd_array'[u][fd] = Unused
                        ELSE fd_array'[u][fd].node \in Node
                             /\ fd_array'[u][fd].open_count >= 1
    BY DEF FilesHeld, Unused
  <2>2. CASE u = t /\ fd \in fds
    <3>1. CASE fd_array[t][fd].open_count = 1
      BY <1>4, <2>2, <3>1, ClosedFileFacts DEF Unused
    <3>2. CASE fd_array[t][fd].open_count # 1
      BY <1>4, <2>2, <3>2, ClosedFileFacts
    <3>. QED  BY <3>1, <3>2
  <2>3. CASE ~(u = t /\ fd \in fds)
    BY <1>4, <2>3 DEF FilesIInv, FilesHeld
  <2>. QED  BY <2>2, <2>3
<1>6. HoldsExact'
  <2>1. SUFFICES ASSUME NEW u \in Table, NEW fd \in Fd
                 PROVE  fd_array'[u][fd].open_count
                          = Cardinality(Readers(u, fd)')
                            + (IF fd_array'[u][fd].status = "OPENED" THEN 1 ELSE 0)
    BY DEF HoldsExact, Readers
  <2>2. /\ Readers(u, fd)' = Readers(u, fd)
        /\ fd_array[u][fd].open_count
             = Cardinality(Readers(u, fd))
               + (IF fd_array[u][fd].status = "OPENED" THEN 1 ELSE 0)
    BY DEF FilesIInv, FilesInv, HoldsExact, Readers, SameReaders
  <2>3. CASE u = t /\ fd \in fds
    <3>1. Cardinality(Readers(u, fd)) \in Nat
      BY SomeThreads DEF Readers
    <3>2. /\ fd_array'[u][fd].status # "OPENED"
          /\ fd_array'[u][fd].open_count = Cardinality(Readers(u, fd))
      BY <1>4, <2>3, ClosedFileFacts
    <3>. QED  BY <2>2, <3>1, <3>2
  <2>4. CASE ~(u = t /\ fd \in fds)
    BY <1>4, <2>2, <2>4
  <2>. QED  BY <2>3, <2>4
<1>7. ASSUME NEW n \in Node
      PROVE  /\ Closing(t, fds, n) \in Nat
             /\ Cardinality(Holders(n, Fd)')
                  = Cardinality(Holders(n, Fd)) - Closing(t, fds, n)
  <2>. DEFINE gone == {fd \in fds : fd_array[t][fd].node = n
                                    /\ fd_array[t][fd].open_count = 1}
  <2>1. gone \subseteq Row(fd_array, t, n) /\ Closing(t, fds, n) = Cardinality(gone)
    BY DEF Row, Closing
  <2>2. Row(fd_array', t, n) = Row(fd_array, t, n) \ gone
    <3>1. ASSUME NEW fd \in Fd
          PROVE  fd_array'[t][fd].node = n
                   <=> fd_array[t][fd].node = n /\ fd \notin gone
      <4>1. CASE fd \in fds /\ fd_array[t][fd].open_count = 1
        <5>1. fd_array'[t][fd].node = NoNode
          BY <1>4, <4>1, ClosedFileFacts DEF Unused
        <5>. QED  BY <4>1, <5>1, FilesAssumption
      <4>2. CASE fd \in fds /\ fd_array[t][fd].open_count # 1
        BY <1>4, <4>2, ClosedFileFacts
      <4>3. CASE fd \notin fds
        BY <1>4, <4>3
      <4>. QED  BY <4>1, <4>2, <4>3
    <3>. QED  BY <3>1 DEF Row
  <2>3. OnlyTable(fd_array, fd_array', t)
    BY <1>1 DEF OnlyTable, DescriptorsClosed
  <2>4. Holders(n, Fd) = HoldersIn(fd_array, n)
        /\ Holders(n, Fd)' = HoldersIn(fd_array', n)
    BY DEF Holders, HoldersIn
  <2>. HIDE DEF gone
  <2>5. Cardinality(HoldersIn(fd_array', n))
          = Cardinality(HoldersIn(fd_array, n)) - Cardinality(gone)
    BY <2>1, <2>2, <2>3, HoldersRemoved
  <2>6. Cardinality(gone) \in Nat
    BY <2>1, RowFinite, FS_Subset, FS_CardinalityType
  <2>. QED  BY <2>1, <2>4, <2>5, <2>6
<1>. QED  BY <1>3, <1>5, <1>6, <1>7

\* A step that changes the files and the directory of a table in use keeps the others.
LEMMA TablesKept ==
  ASSUME FilesIInv, filesp' = filesp, files_count' = files_count,
         NEW t \in Table, files_count[t] >= 1, OnlyTable(fd_array, fd_array', t),
         OnlyTable(pwd, pwd', t)
  PROVE  TablesHeld'
<1>1. SUFFICES ASSUME NEW u \in Table
               PROVE  /\ files_count'[u] = Cardinality({p \in Proc : filesp'[p] = u})
                      /\ files_count'[u] = 0 =>
                           pwd'[u] = NoNode /\ \A fd \in Fd : fd_array'[u][fd] = Unused
  BY DEF TablesHeld, Unused
<1>2. /\ files_count[u] = Cardinality({p \in Proc : filesp[p] = u})
      /\ files_count[u] = 0 =>
           pwd[u] = NoNode /\ \A fd \in Fd : fd_array[u][fd] = Unused
  BY DEF FilesIInv, FilesInv, TablesHeld
<1>3. u # t => fd_array'[u] = fd_array[u] /\ pwd'[u] = pwd[u]
  BY DEF OnlyTable
<1>4. files_count[t] # 0
  OBVIOUS
<1>. QED  BY <1>2, <1>3, <1>4

\* The references of an inode move with its holders when no directory changes.
LEMMA RefsMove ==
  ASSUME FilesIInv, NEW d, pwd' = pwd, lost' = lost,
         \A n \in Node : /\ d[n] \in Int
                         /\ Cardinality(Holders(n, Fd)') = Cardinality(Holders(n, Fd)) + d[n]
                         /\ ref_count'[n] = ref_count[n] + d[n]
                         /\ open_count'[n] = open_count[n] + d[n]
  PROVE  RefsExact'
<1>1. SUFFICES ASSUME NEW n \in Node
               PROVE  /\ open_count'[n] = Cardinality(Holders(n, Fd)')
                      /\ ref_count'[n] = open_count'[n]
                           + Cardinality({t \in Table : pwd'[t] = n})
                           + KernelRefs(n) + lost'[n]
  BY DEF RefsExact, KernelRefs
<1>. PICK k : k = Cardinality({t \in Table : pwd[t] = n})
  OBVIOUS
<1>2. /\ open_count[n] = Cardinality(Holders(n, Fd))
      /\ ref_count[n] = open_count[n] + k + KernelRefs(n) + lost[n]
  BY DEF FilesIInv, RefsExact
<1>3. k \in Nat
  <2>. PICK U \in SUBSET Table : U = {t \in Table : pwd[t] = n}
    OBVIOUS
  <2>. QED  BY FilesAssumption, FS_Subset, FS_CardinalityType
<1>4. KernelRefs(n) \in Nat /\ lost[n] \in Nat /\ open_count[n] \in Nat
  BY DEF KernelRefs, FilesIInv, FilesInv, TypeOK
<1>5. Cardinality({t \in Table : pwd'[t] = n}) = k
  OBVIOUS
<1>6. /\ d[n] \in Int
      /\ Cardinality(Holders(n, Fd)') = Cardinality(Holders(n, Fd)) + d[n]
      /\ ref_count'[n] = ref_count[n] + d[n]
      /\ open_count'[n] = open_count[n] + d[n]
  OBVIOUS
<1>. QED  BY <1>2, <1>3, <1>4, <1>5, <1>6

LEMMA AllHolds ==
  ASSUME WeakType', TablesHeld', HoldsExact', RefsExact', FilesHeld', ReadersRun'
  PROVE  FilesIInv'
  BY CountsBound DEF FilesIInv, FilesInv
-----------------------------------------------------------------------------
LEMMA InitHolds == Init => FilesIInv
<1>. SUFFICES ASSUME Init PROVE FilesIInv
  OBVIOUS
<1>. PICK p \in Proc, t \in Table :
       /\ filesp = [q \in Proc |-> IF q = p THEN t ELSE NoTable]
       /\ files_count = [u \in Table |-> IF u = t THEN 1 ELSE 0]
       /\ pwd = [u \in Table |-> IF u = t THEN root ELSE NoNode]
       /\ fd_array = [u \in Table |-> [fd \in Fd |-> Unused]]
       /\ ref_count = [n \in Node |-> KernelRefs(n) + (IF n = root THEN 1 ELSE 0)]
       /\ open_count = [n \in Node |-> 0]
       /\ reading = [q \in Proc |-> NoFd]
       /\ lost = [n \in Node |-> 0]
  BY DEF Init
<1>1. TypeOK
  <2>1. {p} \in SUBSET Proc /\ Cardinality({p}) = 1
    BY FS_Singleton
  <2>2. Cardinality(Proc) \in Nat /\ 1 <= Cardinality(Proc)
    BY <2>1, SomeThreads
  <2>3. files_count \in [Table -> 0..Cardinality(Proc)]
    BY <2>2
  <2>4. Unused \in [status : {"NONE", "OPENED", "CLOSED"}, node : Node \cup {NoNode},
                    open_count : 0..1 + Cardinality(Proc)]
    BY <2>2 DEF Unused
  <2>5. ref_count \in [Node -> Nat]
    BY DEF KernelRefs
  <2>6. pwd \in [Table -> Dir \cup {NoNode}]
    BY FilesAssumption
  <2>. QED  BY <2>3, <2>4, <2>5, <2>6 DEF TypeOK
<1>2. TablesHeld
  <2>1. SUFFICES ASSUME NEW u \in Table
                 PROVE  /\ files_count[u] = Cardinality({q \in Proc : filesp[q] = u})
                        /\ files_count[u] = 0 =>
                             pwd[u] = NoNode /\ \A fd \in Fd : fd_array[u][fd] = Unused
    BY DEF TablesHeld
  <2>2. CASE u = t
    <3>1. {q \in Proc : filesp[q] = u} = {p}
      BY <2>2, FilesAssumption
    <3>2. Cardinality({p}) = 1
      BY FS_Singleton
    <3>3. files_count[u] = 1 /\ files_count[u] # 0
      BY <2>2
    <3>. QED  BY <3>1, <3>2, <3>3, Zenon
  <2>3. CASE u # t
    <3>1. {q \in Proc : filesp[q] = u} = {}
      BY <2>3, FilesAssumption
    <3>. QED  BY <2>3, <3>1, FS_EmptySet
  <2>. QED  BY <2>2, <2>3
<1>3. HoldsExact
  <2>1. SUFFICES ASSUME NEW u \in Table, NEW fd \in Fd
                 PROVE  fd_array[u][fd].open_count
                          = Cardinality({q \in Proc : filesp[q] = u /\ reading[q] = fd})
                            + (IF fd_array[u][fd].status = "OPENED" THEN 1 ELSE 0)
    BY DEF HoldsExact
  <2>2. {q \in Proc : filesp[q] = u /\ reading[q] = fd} = {}
    BY FilesAssumption DEF Fd
  <2>3. fd_array[u][fd].open_count = 0 /\ fd_array[u][fd].status = "NONE"
    BY DEF Unused
  <2>4. Cardinality({q \in Proc : filesp[q] = u /\ reading[q] = fd}) = 0
    BY <2>2, FS_EmptySet
  <2>. QED  BY <2>3, <2>4
<1>4. RefsExact
  <2>1. SUFFICES ASSUME NEW n \in Node
                 PROVE  /\ open_count[n] = Cardinality(Holders(n, Fd))
                        /\ ref_count[n] = open_count[n] + Cardinality({u \in Table : pwd[u] = n})
                                          + KernelRefs(n) + lost[n]
    BY DEF RefsExact
  <2>2. Holders(n, Fd) = {}
    BY FilesAssumption DEF Holders, Unused
  <2>3. Cardinality({u \in Table : pwd[u] = n}) = IF n = root THEN 1 ELSE 0
    <3>1. CASE n = root
      <4>1. {u \in Table : pwd[u] = n} = {t}
        BY <3>1, FilesAssumption
      <4>. QED  BY <3>1, <4>1, FS_Singleton
    <3>2. CASE n # root
      <4>1. {u \in Table : pwd[u] = n} = {}
        BY <3>2, FilesAssumption
      <4>. QED  BY <3>2, <4>1, FS_EmptySet
    <3>. QED  BY <3>1, <3>2
  <2>4. KernelRefs(n) \in Nat
    BY DEF KernelRefs
  <2>. QED  BY <2>2, <2>3, <2>4, FS_EmptySet
<1>5. FilesHeld /\ ReadersRun
  BY DEF FilesHeld, ReadersRun, Unused
<1>. QED  BY <1>1, <1>2, <1>3, <1>4, <1>5 DEF FilesIInv, FilesInv

\* What file_open and file_dup do with the descriptor they found.
LEMMA GivenStep ==
  ASSUME FilesIInv, NEW p \in Proc, NEW n0 \in Node, NEW fd0 \in Fd,
         Running(p), FileOf(p, fd0).status = "NONE",
         DescriptorGiven(filesp[p], fd0, n0),
         ref_count' = [ref_count EXCEPT ![n0] = @ + 1],
         open_count' = [open_count EXCEPT ![n0] = @ + 1],
         UNCHANGED <<filesp, files_count, pwd, reading, lost>>
  PROVE  FilesIInv'
<1>. PICK t : t = filesp[p]
  OBVIOUS
<1>1. t \in Table /\ files_count[t] >= 1
  BY TableInUse DEF Running
<1>2. SameReaders
  BY DEF SameReaders, Readers
<1>3. /\ fd_array' \in [Table -> [Fd -> OpenFile]]
      /\ FilesHeld' /\ HoldsExact'
      /\ \A n \in Node : Cardinality(Holders(n, Fd)')
                           = Cardinality(Holders(n, Fd)) + One(n, n0)
  BY <1>1, <1>2, FilesOpened DEF FileOf
<1>4. WeakType
  BY WeakTypes
<1>5. \A n \in Node : /\ One(n, n0) \in Int
                      /\ ref_count'[n] = ref_count[n] + One(n, n0)
                      /\ open_count'[n] = open_count[n] + One(n, n0)
  BY <1>4 DEF WeakType, One
<1>6. WeakType'
  BY <1>3, <1>4 DEF WeakType
<1>7. OnlyTable(fd_array, fd_array', t) /\ OnlyTable(pwd, pwd', t)
  BY <1>4 DEF WeakType, OnlyTable, DescriptorGiven
<1>8. TablesHeld'
  BY <1>1, <1>7, TablesKept
<1>9. RefsExact'
  <2>. PICK d : d = [n \in Node |-> One(n, n0)]
    OBVIOUS
  <2>1. \A n \in Node : /\ d[n] \in Int
                        /\ Cardinality(Holders(n, Fd)') = Cardinality(Holders(n, Fd)) + d[n]
                        /\ ref_count'[n] = ref_count[n] + d[n]
                        /\ open_count'[n] = open_count[n] + d[n]
    BY <1>3, <1>5
  <2>. QED  BY <2>1, RefsMove
<1>10. ReadersRun'
  BY DEF FilesIInv, ReadersRun
<1>. QED  BY <1>3, <1>6, <1>8, <1>9, <1>10, AllHolds

\* What file_close does, and files_closeall, in a table that stays.
LEMMA ClosedStep ==
  ASSUME FilesIInv, NEW p \in Proc, NEW fds \in SUBSET Descriptors(p, "OPENED"),
         Running(p), DescriptorsClosed(filesp[p], fds),
         ref_count' = [n \in Node |-> ref_count[n] - Closing(filesp[p], fds, n)],
         open_count' = [n \in Node |-> open_count[n] - Closing(filesp[p], fds, n)],
         UNCHANGED <<filesp, files_count, pwd, reading, lost>>
  PROVE  FilesIInv'
<1>. PICK t : t = filesp[p]
  OBVIOUS
<1>1. t \in Table /\ files_count[t] >= 1
  BY TableInUse DEF Running
<1>2. SameReaders
  BY DEF SameReaders, Readers
<1>3. fds \in SUBSET Fd /\ \A fd \in fds : fd_array[t][fd].status = "OPENED"
  BY DEF Descriptors, FileOf
<1>4. /\ fd_array' \in [Table -> [Fd -> OpenFile]]
      /\ FilesHeld' /\ HoldsExact'
      /\ \A n \in Node : /\ Closing(t, fds, n) \in Nat
                         /\ Cardinality(Holders(n, Fd)')
                              = Cardinality(Holders(n, Fd)) - Closing(t, fds, n)
  BY <1>1, <1>2, <1>3, FilesClosed
<1>5. WeakType
  BY WeakTypes
<1>6. WeakType'
  BY <1>4, <1>5 DEF WeakType
<1>7. OnlyTable(fd_array, fd_array', t) /\ OnlyTable(pwd, pwd', t)
  BY <1>5 DEF WeakType, OnlyTable, DescriptorsClosed
<1>8. TablesHeld'
  BY <1>1, <1>7, TablesKept
<1>9. RefsExact'
  <2>. PICK d : d = [n \in Node |-> 0 - Closing(t, fds, n)]
    OBVIOUS
  <2>1. ASSUME NEW n \in Node
        PROVE  /\ d[n] \in Int
               /\ Cardinality(Holders(n, Fd)') = Cardinality(Holders(n, Fd)) + d[n]
               /\ ref_count'[n] = ref_count[n] + d[n]
               /\ open_count'[n] = open_count[n] + d[n]
    <3>. PICK k : k = Closing(t, fds, n)
      OBVIOUS
    <3>1. k \in Nat /\ d[n] = 0 - k
          /\ Cardinality(Holders(n, Fd)') = Cardinality(Holders(n, Fd)) - k
      BY <1>4
    <3>2. ref_count'[n] = ref_count[n] - k /\ open_count'[n] = open_count[n] - k
      OBVIOUS
    <3>3. ref_count[n] \in Int /\ open_count[n] \in Int
      BY <1>5 DEF WeakType
    <3>4. Cardinality(Holders(n, Fd)) \in Int
      BY <3>3 DEF FilesIInv, RefsExact
    <3>. QED  BY <3>1, <3>2, <3>3, <3>4
  <2>. QED  BY <2>1, RefsMove
<1>10. ReadersRun'
  BY DEF FilesIInv, ReadersRun
<1>. QED  BY <1>4, <1>6, <1>8, <1>9, <1>10, AllHolds

LEMMA OpenStep ==
  ASSUME FilesIInv, NEW p \in Proc, NEW n \in Node, Open(p, n)
  PROVE  FilesIInv'
<1>. PICK fd \in Fd : /\ Lowest(p, fd)
                      /\ fd_array' = [fd_array EXCEPT ![filesp[p]][fd] = Opened(n)]
  BY DEF Open
<1>1. FileOf(p, fd).status = "NONE"
  BY DEF Lowest, Descriptors
<1>2. DescriptorGiven(filesp[p], fd, n)
  BY DEF DescriptorGiven
<1>3. Running(p) /\ UNCHANGED <<filesp, files_count, pwd, reading, lost>>
      /\ ref_count' = [ref_count EXCEPT ![n] = @ + 1]
      /\ open_count' = [open_count EXCEPT ![n] = @ + 1]
  BY DEF Open
<1>. QED  BY <1>1, <1>2, <1>3, GivenStep

LEMMA DupStep ==
  ASSUME FilesIInv, NEW p \in Proc, NEW fd1 \in Fd, NEW fd2 \in Fd, Dup(p, fd1, fd2)
  PROVE  FilesIInv'
<1>. PICK n : n = FileOf(p, fd1).node
  OBVIOUS
<1>1. filesp[p] \in Table /\ FileOf(p, fd1).status = "OPENED"
      /\ FileOf(p, fd2).status = "NONE"
  BY TableInUse DEF Dup, Running, Descriptors
<1>2. n \in Node
  BY <1>1 DEF FileOf, FilesIInv, FilesHeld
<1>3. DescriptorGiven(filesp[p], fd2, n)
  BY DEF DescriptorGiven, Dup
<1>4. Running(p) /\ UNCHANGED <<filesp, files_count, pwd, reading, lost>>
      /\ ref_count' = [ref_count EXCEPT ![n] = @ + 1]
      /\ open_count' = [open_count EXCEPT ![n] = @ + 1]
  BY DEF Dup
<1>. QED  BY <1>1, <1>2, <1>3, <1>4, GivenStep

LEMMA CloseStep ==
  ASSUME FilesIInv, NEW p \in Proc, NEW fd \in Fd, Close(p, fd)
  PROVE  FilesIInv'
<1>1. Running(p) /\ UNCHANGED <<filesp, files_count, pwd, reading, lost>>
      /\ {fd} \in SUBSET Descriptors(p, "OPENED")
      /\ ref_count' = [n \in Node |-> ref_count[n] - Closing(filesp[p], {fd}, n)]
      /\ open_count' = [n \in Node |-> open_count[n] - Closing(filesp[p], {fd}, n)]
  BY DEF Close
<1>2. DescriptorsClosed(filesp[p], {fd})
  <2>. PICK t : t = filesp[p]
    OBVIOUS
  <2>1. t \in Table /\ fd_array \in [Table -> [Fd -> OpenFile]]
    BY <1>1, TableInUse, WeakTypes DEF Running, WeakType
  <2>2. fd_array' = [fd_array EXCEPT ![t][fd] = ClosedFile(@)]
    BY DEF Close
  <2>3. [fd_array[t] EXCEPT ![fd] = ClosedFile(@)]
          = [f \in Fd |-> IF f \in {fd} THEN ClosedFile(fd_array[t][f]) ELSE fd_array[t][f]]
    BY <2>1
  <2>. QED  BY <2>1, <2>2, <2>3 DEF DescriptorsClosed
<1>. QED  BY <1>1, <1>2, ClosedStep

LEMMA ExecStep ==
  ASSUME FilesIInv, NEW p \in Proc, Exec(p)
  PROVE  FilesIInv'
<1>. PICK fds : fds = Descriptors(p, "OPENED") \ 0..NSTD - 1
  OBVIOUS
<1>1. Running(p) /\ UNCHANGED <<filesp, files_count, pwd, reading, lost>>
      /\ ref_count' = [n \in Node |-> ref_count[n] - Closing(filesp[p], fds, n)]
      /\ open_count' = [n \in Node |-> open_count[n] - Closing(filesp[p], fds, n)]
  BY DEF Exec
<1>2. fds \in SUBSET Descriptors(p, "OPENED")
  OBVIOUS
<1>3. DescriptorsClosed(filesp[p], fds)
  BY DEF Exec, DescriptorsClosed, FileOf
<1>. QED  BY <1>1, <1>2, <1>3, ClosedStep

LEMMA OpenExclusiveStep ==
  ASSUME FilesIInv, NEW p \in Proc, NEW n \in Node, OpenExclusive(p, n)
  PROVE  FilesIInv'
<1>1. /\ lost' = [lost EXCEPT ![n] = @ + 1]
      /\ ref_count' = [ref_count EXCEPT ![n] = @ + 1]
      /\ UNCHANGED <<filesp, files_count, pwd, fd_array, reading, open_count>>
  BY DEF OpenExclusive, RefLost
<1>2. WeakType
  BY WeakTypes
<1>3. lost \in [Node -> Nat] /\ ref_count \in [Node -> Nat] /\ open_count \in [Node -> Nat]
  BY DEF FilesIInv, FilesInv, TypeOK
<1>4. WeakType'
  BY <1>1, <1>2, <1>3 DEF WeakType
<1>5. RefsExact'
  <2>1. SUFFICES ASSUME NEW m \in Node
                 PROVE  /\ open_count'[m] = Cardinality(Holders(m, Fd)')
                        /\ ref_count'[m] = open_count'[m]
                             + Cardinality({t \in Table : pwd'[t] = m})
                             + KernelRefs(m) + lost'[m]
    BY DEF RefsExact, KernelRefs
  <2>. PICK U \in SUBSET Table : U = {t \in Table : pwd[t] = m}
    OBVIOUS
  <2>2. /\ open_count[m] = Cardinality(Holders(m, Fd))
        /\ ref_count[m] = open_count[m] + Cardinality(U) + KernelRefs(m) + lost[m]
    BY DEF FilesIInv, RefsExact
  <2>3. Cardinality(U) \in Nat /\ KernelRefs(m) \in Nat
    BY FilesAssumption, FS_Subset, FS_CardinalityType DEF KernelRefs
  <2>4. Holders(m, Fd)' = Holders(m, Fd) /\ {t \in Table : pwd'[t] = m} = U
    BY <1>1 DEF Holders
  <2>5. ref_count'[m] - ref_count[m] = lost'[m] - lost[m] /\ open_count'[m] = open_count[m]
        /\ ref_count'[m] \in Int /\ lost'[m] \in Int
    BY <1>1, <1>3
  <2>6. lost[m] \in Nat /\ ref_count[m] \in Nat /\ open_count[m] \in Nat
    BY <1>3
  <2>7. ref_count'[m] = open_count'[m] + Cardinality(U) + KernelRefs(m) + lost'[m]
    BY <2>2, <2>3, <2>5, <2>6
  <2>. QED  BY <2>2, <2>4, <2>5, <2>7
<1>6. TablesHeld' /\ HoldsExact' /\ FilesHeld' /\ ReadersRun'
  BY <1>1 DEF FilesIInv, FilesInv, TablesHeld, HoldsExact, FilesHeld, ReadersRun, Unused
<1>. QED  BY <1>4, <1>5, <1>6, AllHolds

LEMMA ChdirStep ==
  ASSUME FilesIInv, NEW p \in Proc, NEW dir \in Dir, Chdir(p, dir)
  PROVE  FilesIInv'
<1>. PICK t : t = filesp[p]
  OBVIOUS
<1>1. t \in Table /\ files_count[t] >= 1
  BY TableInUse DEF Chdir, Running
<1>2. /\ pwd' = [pwd EXCEPT ![t] = dir]
      /\ ref_count' = [n \in Node |-> ref_count[n] + One(n, dir) - One(n, pwd[t])]
      /\ UNCHANGED <<filesp, files_count, fd_array, reading, open_count, lost>>
  BY DEF Chdir
<1>3. WeakType
  BY WeakTypes
<1>4. \A n, m : One(n, m) \in Int
  BY DEF One
<1>5. WeakType'
  <2>1. ref_count' \in [Node -> Int]
    BY <1>2, <1>3, <1>4 DEF WeakType
  <2>. QED  BY <1>2, <1>3, <2>1 DEF WeakType
<1>6. RefsExact'
  <2>1. SUFFICES ASSUME NEW m \in Node
                 PROVE  /\ open_count'[m] = Cardinality(Holders(m, Fd)')
                        /\ ref_count'[m] = open_count'[m]
                             + Cardinality({u \in Table : pwd'[u] = m})
                             + KernelRefs(m) + lost'[m]
    BY DEF RefsExact, KernelRefs
  <2>2. /\ Cardinality(At(Table, pwd, m)) \in Nat
        /\ Cardinality(At(Table, pwd', m))
             = Cardinality(At(Table, pwd, m)) - One(m, pwd[t]) + One(m, dir)
    <3>1. ChangedAt(Table, pwd, pwd', t, dir) /\ IsFiniteSet(Table)
      BY <1>1, <1>2, <1>3, FilesAssumption DEF WeakType, ChangedAt
    <3>. QED  BY <1>1, <3>1, CountChange
  <2>. PICK k, l : k = Cardinality({u \in Table : pwd[u] = m})
                   /\ l = Cardinality({u \in Table : pwd'[u] = m})
    OBVIOUS
  <2>3. k \in Nat /\ l = k - One(m, pwd[t]) + One(m, dir)
    <3>1. k = Cardinality(At(Table, pwd, m))
          /\ l = Cardinality(At(Table, pwd', m))
      BY DEF At
    <3>. QED  BY <2>2, <3>1
  <2>4. /\ open_count[m] = Cardinality(Holders(m, Fd))
        /\ ref_count[m] = open_count[m] + k + KernelRefs(m) + lost[m]
    BY DEF FilesIInv, RefsExact
  <2>5. KernelRefs(m) \in Int /\ lost[m] \in Int /\ open_count[m] \in Int
    BY <1>3 DEF KernelRefs, WeakType
  <2>6. ref_count'[m] = ref_count[m] + One(m, dir) - One(m, pwd[t])
    BY <1>2
  <2>7. Holders(m, Fd)' = Holders(m, Fd) /\ open_count'[m] = open_count[m]
        /\ lost'[m] = lost[m]
    BY <1>2 DEF Holders
  <2>8. ref_count'[m] = open_count'[m] + l + KernelRefs(m) + lost'[m]
    BY <1>4, <2>3, <2>4, <2>5, <2>6, <2>7
  <2>. QED  BY <2>4, <2>7, <2>8
<1>7. TablesHeld'
  <2>. OnlyTable(fd_array, fd_array', t) /\ OnlyTable(pwd, pwd', t)
    BY <1>2, <1>3 DEF WeakType, OnlyTable
  <2>. QED  BY <1>1, <1>2, TablesKept
<1>8. HoldsExact' /\ FilesHeld' /\ ReadersRun'
  BY <1>2 DEF FilesIInv, FilesInv, HoldsExact, FilesHeld, ReadersRun, Unused
<1>. QED  BY <1>5, <1>6, <1>7, <1>8, AllHolds

LEMMA ReadBeginStep ==
  ASSUME FilesIInv, NEW p \in Proc, NEW fd0 \in Fd, ReadBegin(p, fd0)
  PROVE  FilesIInv'
<1>. PICK t : t = filesp[p]
  OBVIOUS
<1>1. t \in Table /\ files_count[t] >= 1
  BY TableInUse DEF ReadBegin, Running
<1>2. /\ fd_array' = [fd_array EXCEPT ![t][fd0].open_count = @ + 1]
      /\ reading' = [reading EXCEPT ![p] = fd0]
      /\ UNCHANGED <<filesp, files_count, pwd, ref_count, open_count, lost>>
      /\ fd_array[t][fd0].status = "OPENED" /\ reading[p] = NoFd
  BY DEF ReadBegin, Descriptors, FileOf, countVars, Running
<1>3. WeakType
  BY WeakTypes
<1>4. [fd_array[t][fd0] EXCEPT !.open_count = @ + 1] \in OpenFile
  <2>1. fd_array[t][fd0] \in OpenFile
    BY <1>1, <1>3 DEF WeakType
  <2>. QED  BY <2>1, HoldsChanged
<1>5. fd_array' \in [Table -> [Fd -> OpenFile]]
      /\ \A u \in Table, fd \in Fd :
           fd_array'[u][fd] = IF u = t /\ fd = fd0
                              THEN [fd_array[t][fd0] EXCEPT !.open_count = @ + 1]
                              ELSE fd_array[u][fd]
  BY <1>1, <1>2, <1>3, <1>4 DEF WeakType
<1>6. WeakType'
  BY <1>2, <1>3, <1>5 DEF WeakType
<1>7. ASSUME NEW u \in Table, NEW fd \in Fd
      PROVE  /\ fd_array'[u][fd].status = fd_array[u][fd].status
             /\ fd_array'[u][fd].node = fd_array[u][fd].node
             /\ fd_array'[u][fd].open_count
                  = fd_array[u][fd].open_count + (IF u = t /\ fd = fd0 THEN 1 ELSE 0)
  <2>1. fd_array[u][fd] \in OpenFile
    BY <1>3 DEF WeakType
  <2>2. CASE u = t /\ fd = fd0
    BY <1>5, <2>1, <2>2 DEF OpenFile
  <2>3. CASE ~(u = t /\ fd = fd0)
    BY <1>5, <2>1, <2>3 DEF OpenFile
  <2>. QED  BY <2>2, <2>3
<1>8. FilesHeld'
  <2>1. SUFFICES ASSUME NEW u \in Table, NEW fd \in Fd
                 PROVE  IF fd_array'[u][fd].status = "NONE" THEN fd_array'[u][fd] = Unused
                        ELSE fd_array'[u][fd].node \in Node
                             /\ fd_array'[u][fd].open_count >= 1
    BY DEF FilesHeld, Unused
  <2>2. IF fd_array[u][fd].status = "NONE" THEN fd_array[u][fd] = Unused
        ELSE fd_array[u][fd].node \in Node /\ fd_array[u][fd].open_count >= 1
    BY DEF FilesIInv, FilesHeld
  <2>3. fd_array[u][fd].open_count \in Int
    BY <1>3 DEF WeakType, OpenFile
  <2>4. CASE u = t /\ fd = fd0
    BY <1>2, <1>7, <2>2, <2>3, <2>4
  <2>5. CASE ~(u = t /\ fd = fd0)
    BY <1>5, <2>2, <2>5
  <2>. QED  BY <2>4, <2>5
<1>9. HoldsExact'
  <2>1. SUFFICES ASSUME NEW u \in Table, NEW fd \in Fd
                 PROVE  fd_array'[u][fd].open_count
                          = Cardinality(Readers(u, fd)')
                            + (IF fd_array'[u][fd].status = "OPENED" THEN 1 ELSE 0)
    BY DEF HoldsExact, Readers
  <2>2. fd_array[u][fd].open_count
          = Cardinality(Readers(u, fd))
            + (IF fd_array[u][fd].status = "OPENED" THEN 1 ELSE 0)
    BY DEF FilesIInv, FilesInv, HoldsExact, Readers
  <2>3. IsFiniteSet(Readers(u, fd)) /\ Cardinality(Readers(u, fd)) \in Nat
    BY SomeThreads DEF Readers
  <2>4. reading \in [Proc -> Fd \cup {NoFd}] /\ NoFd \notin Fd
    BY <1>3, FilesAssumption DEF WeakType, Fd
  <2>5. CASE u = t /\ fd = fd0
    <3>1. Readers(u, fd)' = Readers(u, fd) \cup {p} /\ p \notin Readers(u, fd)
      BY <1>2, <2>4, <2>5 DEF Readers
    <3>2. Cardinality(Readers(u, fd)') = Cardinality(Readers(u, fd)) + 1
      BY <2>3, <3>1, FS_AddElement
    <3>. QED  BY <1>2, <1>7, <2>2, <2>3, <2>5, <3>2
  <2>6. CASE ~(u = t /\ fd = fd0)
    <3>1. Readers(u, fd)' = Readers(u, fd)
      BY <1>2, <2>4, <2>6 DEF Readers
    <3>. QED  BY <1>5, <2>2, <2>6, <3>1
  <2>. QED  BY <2>5, <2>6
<1>10. RefsExact'
  <2>1. \A n : Holders(n, Fd)' = Holders(n, Fd)
    BY <1>7 DEF Holders
  <2>2. \A n : {u \in Table : pwd'[u] = n} = {u \in Table : pwd[u] = n}
    BY <1>2
  <2>. QED  BY <1>2, <2>1, <2>2 DEF FilesIInv, RefsExact, KernelRefs
<1>11. TablesHeld'
  <2>. OnlyTable(fd_array, fd_array', t) /\ OnlyTable(pwd, pwd', t)
    BY <1>2, <1>3 DEF WeakType, OnlyTable
  <2>. QED  BY <1>1, <1>2, TablesKept
<1>12. ReadersRun'
  <2>. NoTable # t
    BY <1>1, FilesAssumption
  <2>. QED  BY <1>2, <1>3 DEF FilesIInv, ReadersRun, WeakType
<1>. QED  BY <1>6, <1>8, <1>9, <1>10, <1>11, <1>12, AllHolds

LEMMA ReadEndStep ==
  ASSUME FilesIInv, NEW p \in Proc, ReadEnd(p)
  PROVE  FilesIInv'
<1>. PICK t, fd0 : t = filesp[p] /\ fd0 = reading[p]
  OBVIOUS
<1>1. /\ reading[p] # NoFd
      /\ fd_array' = [fd_array EXCEPT ![t][fd0] = ReleasedFile(@)]
      /\ ref_count' = [n \in Node |-> ref_count[n] - Closing(t, {fd0}, n)]
      /\ open_count' = [n \in Node |-> open_count[n] - Closing(t, {fd0}, n)]
      /\ reading' = [reading EXCEPT ![p] = NoFd]
      /\ UNCHANGED <<filesp, files_count, pwd, lost>>
  BY DEF ReadEnd
<1>. PICK file : file = fd_array[t][fd0]
  OBVIOUS
<1>2. /\ t \in Table /\ fd0 \in Fd
      /\ file.status # "NONE" /\ file.open_count \in Int
      /\ file.status = "OPENED" => file.open_count >= 2
  BY <1>1, ReaderHolds
<1>3. WeakType
  BY WeakTypes
<1>4. file \in OpenFile /\ file.node \in Node /\ file.open_count >= 1
  BY <1>2, <1>3 DEF WeakType, FilesIInv, FilesHeld
<1>5. files_count[t] >= 1
  BY <1>1, <1>2, TableInUse, FilesAssumption
<1>6. /\ ReleasedFile(file) \in OpenFile
      /\ file.open_count = 1 => ReleasedFile(file) = Unused
      /\ file.open_count # 1 => /\ ReleasedFile(file).status = file.status
                                /\ ReleasedFile(file).node = file.node
                                /\ ReleasedFile(file).open_count = file.open_count - 1
  <2>1. CASE file.open_count = 1
    BY <2>1 DEF ReleasedFile, Unused, OpenFile
  <2>2. CASE file.open_count # 1
    BY <1>4, <2>2, HoldsChanged DEF ReleasedFile, OpenFile
  <2>. QED  BY <2>1, <2>2
<1>7. fd_array' \in [Table -> [Fd -> OpenFile]]
      /\ \A u \in Table, fd \in Fd :
           fd_array'[u][fd] = IF u = t /\ fd = fd0 THEN ReleasedFile(file)
                              ELSE fd_array[u][fd]
  BY <1>1, <1>2, <1>3, <1>6 DEF WeakType
<1>8. FilesHeld'
  <2>1. SUFFICES ASSUME NEW u \in Table, NEW fd \in Fd
                 PROVE  IF fd_array'[u][fd].status = "NONE" THEN fd_array'[u][fd] = Unused
                        ELSE fd_array'[u][fd].node \in Node
                             /\ fd_array'[u][fd].open_count >= 1
    BY DEF FilesHeld, Unused
  <2>2. CASE u = t /\ fd = fd0
    <3>1. CASE file.open_count = 1
      BY <1>6, <1>7, <2>2, <3>1 DEF Unused
    <3>2. CASE file.open_count # 1
      <4>1. /\ fd_array'[u][fd].status = file.status
            /\ fd_array'[u][fd].node = file.node
            /\ fd_array'[u][fd].open_count = file.open_count - 1
        BY <1>6, <1>7, <2>2, <3>2
      <4>2. file.open_count - 1 >= 1
        BY <1>2, <1>4, <3>2
      <4>. QED  BY <1>2, <1>4, <4>1, <4>2
    <3>. QED  BY <3>1, <3>2
  <2>3. CASE ~(u = t /\ fd = fd0)
    BY <1>7, <2>3 DEF FilesIInv, FilesHeld
  <2>. QED  BY <2>2, <2>3
<1>9. HoldsExact'
  <2>1. SUFFICES ASSUME NEW u \in Table, NEW fd \in Fd
                 PROVE  fd_array'[u][fd].open_count
                          = Cardinality(Readers(u, fd)')
                            + (IF fd_array'[u][fd].status = "OPENED" THEN 1 ELSE 0)
    BY DEF HoldsExact, Readers
  <2>2. fd_array[u][fd].open_count
          = Cardinality(Readers(u, fd))
            + (IF fd_array[u][fd].status = "OPENED" THEN 1 ELSE 0)
    BY DEF FilesIInv, FilesInv, HoldsExact, Readers
  <2>3. IsFiniteSet(Readers(u, fd)) /\ Cardinality(Readers(u, fd)) \in Nat
    BY SomeThreads DEF Readers
  <2>4. reading \in [Proc -> Fd \cup {NoFd}] /\ NoFd \notin Fd
    BY <1>3, FilesAssumption DEF WeakType, Fd
  <2>5. CASE u = t /\ fd = fd0
    <3>1. Readers(u, fd)' = Readers(u, fd) \ {p} /\ p \in Readers(u, fd)
      BY <1>1, <2>4, <2>5 DEF Readers
    <3>2. Cardinality(Readers(u, fd)') = Cardinality(Readers(u, fd)) - 1
      BY <2>3, <3>1, FS_RemoveElement
    <3>3. CASE file.open_count = 1
      <4>1. file.status # "OPENED"
        BY <1>2, <3>3
      <4>2. fd_array'[u][fd] = Unused
        BY <1>6, <1>7, <2>5, <3>3
      <4>. QED  BY <2>2, <2>3, <2>5, <3>2, <3>3, <4>1, <4>2 DEF Unused
    <3>4. CASE file.open_count # 1
      <4>1. /\ fd_array'[u][fd].status = file.status
            /\ fd_array'[u][fd].open_count = file.open_count - 1
        BY <1>6, <1>7, <2>5, <3>4
      <4>. QED  BY <2>2, <2>3, <2>5, <3>2, <4>1
    <3>. QED  BY <3>3, <3>4
  <2>6. CASE ~(u = t /\ fd = fd0)
    <3>1. Readers(u, fd)' = Readers(u, fd)
      BY <1>1, <2>4, <2>6 DEF Readers
    <3>. QED  BY <1>7, <2>2, <2>6, <3>1
  <2>. QED  BY <2>5, <2>6
<1>10. ASSUME NEW n \in Node
       PROVE  /\ Closing(t, {fd0}, n) \in Nat
              /\ Cardinality(Holders(n, Fd)')
                   = Cardinality(Holders(n, Fd)) - Closing(t, {fd0}, n)
  <2>. DEFINE gone == {fd \in {fd0} : fd_array[t][fd].node = n
                                      /\ fd_array[t][fd].open_count = 1}
  <2>1. gone \subseteq Row(fd_array, t, n) /\ Closing(t, {fd0}, n) = Cardinality(gone)
    BY <1>2 DEF Row, Closing
  <2>2. Row(fd_array', t, n) = Row(fd_array, t, n) \ gone
    <3>1. ASSUME NEW fd \in Fd
          PROVE  fd_array'[t][fd].node = n
                   <=> fd_array[t][fd].node = n /\ fd \notin gone
      <4>1. CASE fd = fd0 /\ file.open_count = 1
        <5>1. fd_array'[t][fd].node = NoNode
          BY <1>2, <1>6, <1>7, <4>1 DEF Unused
        <5>. QED  BY <4>1, <5>1, FilesAssumption
      <4>2. CASE fd = fd0 /\ file.open_count # 1
        BY <1>2, <1>6, <1>7, <4>2
      <4>3. CASE fd # fd0
        BY <1>2, <1>7, <4>3
      <4>. QED  BY <4>1, <4>2, <4>3
    <3>. QED  BY <3>1 DEF Row
  <2>3. OnlyTable(fd_array, fd_array', t)
    BY <1>1, <1>3 DEF OnlyTable, WeakType
  <2>4. Holders(n, Fd) = HoldersIn(fd_array, n)
        /\ Holders(n, Fd)' = HoldersIn(fd_array', n)
    BY DEF Holders, HoldersIn
  <2>. HIDE DEF gone
  <2>5. Cardinality(HoldersIn(fd_array', n))
          = Cardinality(HoldersIn(fd_array, n)) - Cardinality(gone)
    BY <1>2, <2>1, <2>2, <2>3, HoldersRemoved
  <2>6. Cardinality(gone) \in Nat
    BY <2>1, RowFinite, FS_Subset, FS_CardinalityType
  <2>. QED  BY <2>1, <2>4, <2>5, <2>6
<1>11. WeakType'
  <2>1. ref_count' \in [Node -> Int] /\ open_count' \in [Node -> Int]
    <3>1. ASSUME NEW n \in Node
          PROVE  /\ ref_count[n] - Closing(t, {fd0}, n) \in Int
                 /\ open_count[n] - Closing(t, {fd0}, n) \in Int
      <4>1. ref_count[n] \in Int /\ open_count[n] \in Int
        BY <1>3 DEF WeakType
      <4>2. Closing(t, {fd0}, n) \in Nat
        BY <1>10
      <4>. QED  BY <4>1, <4>2
    <3>. QED  BY <1>1, <3>1
  <2>. QED  BY <1>1, <1>3, <1>7, <2>1 DEF WeakType
<1>12. RefsExact'
  <2>. PICK d : d = [n \in Node |-> 0 - Closing(t, {fd0}, n)]
    OBVIOUS
  <2>1. ASSUME NEW n \in Node
        PROVE  /\ d[n] \in Int
               /\ Cardinality(Holders(n, Fd)') = Cardinality(Holders(n, Fd)) + d[n]
               /\ ref_count'[n] = ref_count[n] + d[n]
               /\ open_count'[n] = open_count[n] + d[n]
    <3>. PICK k : k = Closing(t, {fd0}, n)
      OBVIOUS
    <3>1. k \in Nat /\ d[n] = 0 - k
          /\ Cardinality(Holders(n, Fd)') = Cardinality(Holders(n, Fd)) - k
      BY <1>10
    <3>2. ref_count'[n] = ref_count[n] - k /\ open_count'[n] = open_count[n] - k
      BY <1>1
    <3>3. ref_count[n] \in Int /\ open_count[n] \in Int
      BY <1>3 DEF WeakType
    <3>4. Cardinality(Holders(n, Fd)) \in Int
      BY <3>3 DEF FilesIInv, RefsExact
    <3>. QED  BY <3>1, <3>2, <3>3, <3>4
  <2>. QED  BY <1>1, <2>1, RefsMove
<1>13. TablesHeld'
  <2>. OnlyTable(fd_array, fd_array', t) /\ OnlyTable(pwd, pwd', t)
    BY <1>1, <1>3 DEF WeakType, OnlyTable
  <2>. QED  BY <1>1, <1>2, <1>5, TablesKept
<1>14. ReadersRun'
  BY <1>1, <1>3 DEF FilesIInv, ReadersRun, WeakType
<1>. QED  BY <1>8, <1>9, <1>11, <1>12, <1>13, <1>14, AllHolds

-----------------------------------------------------------------------------
\* The counts of the tables when a thread without one gets table t.
LEMMA ThreadJoins ==
  ASSUME FilesIInv, NEW child \in Proc, NEW t \in Table, filesp[child] = NoTable,
         filesp' = [filesp EXCEPT ![child] = t], files_count' = ThreadCounted(t)
  PROVE  /\ filesp' \in [Proc -> Table \cup {NoTable}]
         /\ files_count' \in [Table -> Int]
         /\ \A u \in Table : /\ files_count'[u] = Cardinality({p \in Proc : filesp'[p] = u})
                             /\ files_count'[u] = 0 => u # t /\ files_count[u] = 0
<1>1. WeakType
  BY WeakTypes
<1>2. filesp' \in [Proc -> Table \cup {NoTable}] /\ files_count' \in [Table -> Int]
  BY <1>1 DEF WeakType, ThreadCounted
<1>3. ChangedAt(Proc, filesp, filesp', child, t) /\ IsFiniteSet(Proc)
  BY <1>1, FilesAssumption DEF WeakType, ChangedAt
<1>4. ASSUME NEW u \in Table
      PROVE  /\ files_count'[u] = Cardinality({p \in Proc : filesp'[p] = u})
             /\ files_count'[u] = 0 => u # t /\ files_count[u] = 0
  <2>1. /\ Cardinality(At(Proc, filesp, u)) \in Nat
        /\ Cardinality(At(Proc, filesp', u))
             = Cardinality(At(Proc, filesp, u)) - One(u, filesp[child]) + One(u, t)
    BY <1>3, CountChange
  <2>2. One(u, filesp[child]) = 0
    BY FilesAssumption DEF One
  <2>3. files_count[u] = Cardinality(At(Proc, filesp, u))
    BY DEF FilesIInv, FilesInv, TablesHeld, At
  <2>4. files_count'[u] = files_count[u] + One(u, t) /\ One(u, t) \in Nat
    BY <1>1 DEF ThreadCounted, WeakType, One
  <2>5. u = t => One(u, t) = 1
    BY DEF One
  <2>6. {p \in Proc : filesp'[p] = u} = At(Proc, filesp', u)
    BY DEF At
  <2>. PICK a, b, c, d : a = Cardinality(At(Proc, filesp, u)) /\ c = One(u, t)
                         /\ b = Cardinality(At(Proc, filesp', u)) /\ d = files_count'[u]
    OBVIOUS
  <2>7. /\ a \in Nat /\ c \in Nat /\ b = a + c /\ d = a + c /\ (u = t => c = 1)
        /\ files_count[u] = a
    BY <2>1, <2>2, <2>3, <2>4, <2>5
  <2>8. d = b /\ (d = 0 => u # t /\ a = 0)
    BY <2>7
  <2>. QED  BY <2>6, <2>7, <2>8
<1>. QED  BY <1>2, <1>4

\* A thread that does not run reads nothing, so whatever table it is given the reads
\* are the same.
LEMMA ReadersKept ==
  ASSUME FilesIInv, NEW p \in Proc, NEW t, reading[p] = NoFd,
         filesp' = [filesp EXCEPT ![p] = t], reading' = reading
  PROVE  SameReaders
<1>1. WeakType /\ NoFd \notin Fd
  BY WeakTypes, FilesAssumption DEF Fd
<1>. QED  BY <1>1 DEF WeakType, SameReaders, Readers

LEMMA ForkSharedStep ==
  ASSUME FilesIInv, NEW p \in Proc, NEW child \in Proc, ForkShared(p, child)
  PROVE  FilesIInv'
<1>. PICK t : t = filesp[p]
  OBVIOUS
<1>1. /\ filesp[child] = NoTable /\ filesp' = [filesp EXCEPT ![child] = t]
      /\ files_count' = ThreadCounted(t)
      /\ UNCHANGED <<pwd, fd_array, reading, ref_count, open_count, lost>>
  BY DEF ForkShared, countVars
<1>2. t \in Table
  BY TableInUse DEF ForkShared, Running
<1>3. /\ filesp' \in [Proc -> Table \cup {NoTable}]
      /\ files_count' \in [Table -> Int]
      /\ \A u \in Table : /\ files_count'[u] = Cardinality({q \in Proc : filesp'[q] = u})
                          /\ files_count'[u] = 0 => u # t /\ files_count[u] = 0
  BY <1>1, <1>2, ThreadJoins
<1>4. WeakType'
  BY <1>1, <1>3, WeakTypes DEF WeakType
<1>5. TablesHeld'
  BY <1>1, <1>3 DEF FilesIInv, FilesInv, TablesHeld, Unused
<1>6. HoldsExact'
  <2>1. SameReaders
    BY <1>1, ReadersKept DEF FilesIInv, ReadersRun
  <2>. QED  BY <1>1, <2>1 DEF FilesIInv, FilesInv, HoldsExact, SameReaders, Readers
<1>7. RefsExact' /\ FilesHeld'
  BY <1>1 DEF FilesIInv, RefsExact, Holders, KernelRefs, FilesHeld, Unused
<1>8. ReadersRun'
  BY <1>1, <1>2, WeakTypes, FilesAssumption DEF FilesIInv, ReadersRun, WeakType
<1>. QED  BY <1>4, <1>5, <1>6, <1>7, <1>8, AllHolds

LEMMA LeaveStep ==
  ASSUME FilesIInv, NEW p \in Proc, NEW fds0 \in SUBSET Fd, Leave(p, fds0)
  PROVE  FilesIInv'
<1>. PICK t : t = filesp[p]
  OBVIOUS
<1>. DEFINE last == files_count[t] = 1
<1>. PICK fds :
       fds = {fd \in IF last THEN Fd ELSE fds0 : fd_array[t][fd].status = "OPENED"}
  OBVIOUS
<1>1. /\ reading[p] = NoFd /\ t # NoTable
      /\ filesp' = [filesp EXCEPT ![p] = NoTable]
      /\ files_count' = [files_count EXCEPT ![t] = @ - 1]
      /\ pwd' = IF last THEN [pwd EXCEPT ![t] = NoNode] ELSE pwd
      /\ ref_count' = [n \in Node |-> ref_count[n] - Closing(t, fds, n) - PwdDropped(t, n)]
      /\ open_count' = [n \in Node |-> open_count[n] - Closing(t, fds, n)]
      /\ UNCHANGED <<reading, lost>>
  BY DEF Leave, Running
<1>2. WeakType
  BY WeakTypes
<1>3. /\ t \in Table /\ files_count[t] \in Nat /\ files_count[t] >= 1
      /\ last => \A q \in Proc : filesp[q] = t => q = p
  BY <1>1, TableInUse
<1>4. fds \in SUBSET Fd /\ \A fd \in fds : fd_array[t][fd].status = "OPENED"
  OBVIOUS
<1>5. DescriptorsClosed(t, fds)
  <2>1. fd_array' = [fd_array EXCEPT ![t] =
                       [fd \in Fd |-> IF fd \in fds THEN ClosedFile(@[fd]) ELSE @[fd]]]
    BY DEF Leave
  <2>. QED  BY <1>2, <1>3, <2>1 DEF DescriptorsClosed, WeakType
<1>6. SameReaders
  BY <1>1, ReadersKept
<1>7. /\ fd_array' \in [Table -> [Fd -> OpenFile]]
      /\ FilesHeld' /\ HoldsExact'
      /\ \A n \in Node : /\ Closing(t, fds, n) \in Nat
                         /\ Cardinality(Holders(n, Fd)')
                              = Cardinality(Holders(n, Fd)) - Closing(t, fds, n)
  BY <1>3, <1>4, <1>5, <1>6, FilesClosed
<1>8. OnlyTable(fd_array, fd_array', t) /\ OnlyTable(pwd, pwd', t)
  BY <1>1, <1>2, <1>5 DEF WeakType, OnlyTable, DescriptorsClosed
<1>9. ASSUME last, NEW fd \in Fd
      PROVE  fd_array'[t][fd] = Unused
  <2>1. Readers(t, fd)' = {}
    <3>1. Readers(t, fd) = {}
      BY <1>1, <1>3, <1>9, FilesAssumption DEF Readers, Fd
    <3>. QED  BY <1>3, <1>6, <3>1 DEF SameReaders
  <2>2. fd_array'[t][fd].open_count
          = Cardinality(Readers(t, fd)')
            + (IF fd_array'[t][fd].status = "OPENED" THEN 1 ELSE 0)
    BY <1>3, <1>7 DEF HoldsExact, Readers
  <2>3. fd_array'[t][fd].status # "OPENED"
    <3>1. CASE fd \in fds
      <4>1. fd_array'[t][fd] = ClosedFile(fd_array[t][fd])
        BY <1>2, <1>3, <1>5, <3>1 DEF DescriptorsClosed, WeakType
      <4>. QED  BY <1>3, <1>4, <3>1, <4>1, ClosedFileFacts
    <3>2. CASE fd \notin fds
      <4>1. fd_array'[t][fd] = fd_array[t][fd]
        BY <1>2, <1>3, <1>5, <3>2 DEF DescriptorsClosed, WeakType
      <4>. QED  BY <1>9, <3>2, <4>1
    <3>. QED  BY <3>1, <3>2
  <2>4. fd_array'[t][fd].open_count = 0
    BY <2>1, <2>2, <2>3, FS_EmptySet
  <2>. QED  BY <1>3, <1>7, <2>4 DEF FilesHeld, Unused
<1>10. WeakType'
  <2>1. ASSUME NEW n \in Node
        PROVE  /\ ref_count[n] - Closing(t, fds, n) - PwdDropped(t, n) \in Int
               /\ open_count[n] - Closing(t, fds, n) \in Int
    <3>1. ref_count[n] \in Int /\ open_count[n] \in Int /\ PwdDropped(t, n) \in Int
      BY <1>2 DEF WeakType, PwdDropped, One
    <3>2. Closing(t, fds, n) \in Nat
      BY <1>7
    <3>. QED  BY <3>1, <3>2
  <2>2. ref_count' \in [Node -> Int] /\ open_count' \in [Node -> Int]
    BY <1>1, <2>1
  <2>3. /\ filesp' \in [Proc -> Table \cup {NoTable}]
        /\ files_count' \in [Table -> Int]
        /\ pwd' \in [Table -> Dir \cup {NoNode}]
    BY <1>1, <1>2 DEF WeakType
  <2>. QED  BY <1>1, <1>2, <1>7, <2>2, <2>3 DEF WeakType
<1>11. TablesHeld'
  <2>1. SUFFICES ASSUME NEW u \in Table
                 PROVE  /\ files_count'[u] = Cardinality({q \in Proc : filesp'[q] = u})
                        /\ files_count'[u] = 0 =>
                             pwd'[u] = NoNode /\ \A fd \in Fd : fd_array'[u][fd] = Unused
    BY DEF TablesHeld, Unused
  <2>2. ChangedAt(Proc, filesp, filesp', p, NoTable) /\ IsFiniteSet(Proc)
    BY <1>1, <1>2, FilesAssumption DEF WeakType, ChangedAt
  <2>3. /\ Cardinality(At(Proc, filesp, u)) \in Nat
        /\ Cardinality(At(Proc, filesp', u))
             = Cardinality(At(Proc, filesp, u)) - One(u, filesp[p]) + One(u, NoTable)
    BY <2>2, CountChange
  <2>4. One(u, NoTable) = 0 /\ One(u, t) \in Nat
    BY FilesAssumption DEF One
  <2>5. /\ files_count[u] = Cardinality(At(Proc, filesp, u))
        /\ files_count[u] = 0 =>
             pwd[u] = NoNode /\ \A fd \in Fd : fd_array[u][fd] = Unused
    BY DEF FilesIInv, FilesInv, TablesHeld, At
  <2>6. files_count'[u] = files_count[u] - One(u, t)
    BY <1>1, <1>2 DEF WeakType, One
  <2>7. {q \in Proc : filesp'[q] = u} = At(Proc, filesp', u)
    BY DEF At
  <2>8. files_count'[u] = Cardinality({q \in Proc : filesp'[q] = u})
    <3>. PICK a, c : a = files_count[u] /\ c = One(u, t)
      OBVIOUS
    <3>1. a \in Nat /\ c \in Nat /\ Cardinality(At(Proc, filesp', u)) = a - c + 0
      BY <2>3, <2>4, <2>5
    <3>2. a - c + 0 = a - c
      BY <3>1
    <3>. QED  BY <2>6, <2>7, <3>1, <3>2
  <2>9. ASSUME files_count'[u] = 0
        PROVE  pwd'[u] = NoNode /\ \A fd \in Fd : fd_array'[u][fd] = Unused
    <3>1. CASE u = t
      <4>1. last
        <5>. One(t, t) = 1
          BY DEF One
        <5>. QED  BY <1>3, <2>6, <2>9, <3>1
      <4>2. pwd'[t] = NoNode
        BY <1>1, <1>2, <1>3, <4>1 DEF WeakType
      <4>. QED  BY <1>9, <3>1, <4>1, <4>2
    <3>2. CASE u # t
      <4>1. files_count[u] = 0
        BY <2>3, <2>5, <2>6, <2>9, <3>2 DEF One
      <4>2. fd_array'[u] = fd_array[u] /\ pwd'[u] = pwd[u]
        BY <1>8, <3>2 DEF OnlyTable
      <4>. QED  BY <2>5, <4>1, <4>2
    <3>. QED  BY <3>1, <3>2
  <2>. QED  BY <2>8, <2>9
<1>12. RefsExact'
  <2>1. SUFFICES ASSUME NEW n \in Node
                 PROVE  /\ open_count'[n] = Cardinality(Holders(n, Fd)')
                        /\ ref_count'[n] = open_count'[n]
                             + Cardinality({u \in Table : pwd'[u] = n})
                             + KernelRefs(n) + lost'[n]
    BY DEF RefsExact, KernelRefs
  <2>2. /\ Cardinality(At(Table, pwd, n)) \in Nat
        /\ Cardinality(At(Table, pwd', n))
             = Cardinality(At(Table, pwd, n)) - PwdDropped(t, n)
    <3>1. CASE last
      <4>1. ChangedAt(Table, pwd, pwd', t, NoNode) /\ IsFiniteSet(Table)
        BY <1>1, <1>2, <1>3, <3>1, FilesAssumption DEF WeakType, ChangedAt
      <4>2. /\ Cardinality(At(Table, pwd, n)) \in Nat
            /\ Cardinality(At(Table, pwd', n))
                 = Cardinality(At(Table, pwd, n)) - One(n, pwd[t]) + One(n, NoNode)
        BY <1>3, <4>1, CountChange
      <4>3. One(n, NoNode) = 0 /\ One(n, pwd[t]) \in Int
            /\ PwdDropped(t, n) = One(n, pwd[t])
        BY <3>1, FilesAssumption DEF One, PwdDropped
      <4>. QED  BY <4>2, <4>3
    <3>2. CASE ~last
      <4>1. Cardinality(At(Table, pwd, n)) \in Nat
        BY FilesAssumption, FS_Subset, FS_CardinalityType DEF At
      <4>2. pwd' = pwd /\ PwdDropped(t, n) = 0
        BY <1>1, <3>2 DEF PwdDropped
      <4>. QED  BY <4>1, <4>2
    <3>. QED  BY <3>1, <3>2
  <2>3. /\ {u \in Table : pwd[u] = n} = At(Table, pwd, n)
        /\ {u \in Table : pwd'[u] = n} = At(Table, pwd', n)
    BY DEF At
  <2>. PICK k, c, d, l, kr, h :
         /\ k = Closing(t, fds, n) /\ c = Cardinality(At(Table, pwd, n))
         /\ d = PwdDropped(t, n) /\ l = Cardinality(At(Table, pwd', n))
         /\ kr = KernelRefs(n) /\ h = Cardinality(Holders(n, Fd))
    OBVIOUS
  <2>4. /\ open_count[n] = h
        /\ ref_count[n] = open_count[n] + c + kr + lost[n]
    BY <2>3 DEF FilesIInv, RefsExact
  <2>5. k \in Int /\ d \in Int /\ kr \in Int /\ lost[n] \in Int /\ open_count[n] \in Int
        /\ c \in Int /\ l = c - d
    BY <1>2, <1>7, <2>2 DEF WeakType, PwdDropped, KernelRefs, One
  <2>6. /\ ref_count'[n] = ref_count[n] - k - d
        /\ open_count'[n] = open_count[n] - k /\ lost'[n] = lost[n]
        /\ Cardinality(Holders(n, Fd)') = h - k
    BY <1>1, <1>7
  <2>7. /\ open_count'[n] = Cardinality(Holders(n, Fd)')
        /\ ref_count'[n] = open_count'[n] + l + kr + lost'[n]
    BY <2>4, <2>5, <2>6
  <2>. QED  BY <2>3, <2>7
<1>13. ReadersRun'
  BY <1>1, <1>2 DEF FilesIInv, ReadersRun, WeakType
<1>. QED  BY <1>7, <1>10, <1>11, <1>12, <1>13, AllHolds

LEMMA ForkCopiedStep ==
  ASSUME FilesIInv, NEW p \in Proc, NEW child \in Proc, ForkCopied(p, child)
  PROVE  FilesIInv'
<1>. PICK from : from = filesp[p]
  OBVIOUS
<1>. DEFINE copied(n) == {fd \in Descriptors(p, "OPENED") : FileOf(p, fd).node = n}
<1>. PICK to \in Table :
       /\ files_count[to] = 0
       /\ filesp' = [filesp EXCEPT ![child] = to]
       /\ files_count' = ThreadCounted(to)
       /\ pwd' = [pwd EXCEPT ![to] = pwd[from]]
       /\ fd_array' = [fd_array EXCEPT ![to] = [fd \in Fd |-> CopiedFile(FileOf(p, fd))]]
  BY DEF ForkCopied
<1>1. /\ filesp[child] = NoTable /\ Running(p)
      /\ ref_count' = [n \in Node |-> ref_count[n] + Cardinality(copied(n)) + One(n, pwd[from])]
      /\ open_count' = [n \in Node |-> open_count[n] + Cardinality(copied(n))]
      /\ UNCHANGED <<reading, lost>>
  BY DEF ForkCopied
<1>2. WeakType
  BY WeakTypes
<1>3. from \in Table /\ from # to
  BY <1>1, TableInUse DEF Running
<1>4. pwd[to] = NoNode /\ \A fd \in Fd : fd_array[to][fd] = Unused
  BY DEF FilesIInv, FilesInv, TablesHeld
<1>5. /\ filesp' \in [Proc -> Table \cup {NoTable}]
      /\ files_count' \in [Table -> Int]
      /\ \A u \in Table : /\ files_count'[u] = Cardinality({q \in Proc : filesp'[q] = u})
                          /\ files_count'[u] = 0 => u # to /\ files_count[u] = 0
  BY <1>1, ThreadJoins
<1>6. SameReaders
  BY <1>1, ReadersKept DEF FilesIInv, ReadersRun
<1>7. ASSUME NEW fd \in Fd
      PROVE  /\ FileOf(p, fd) = fd_array[from][fd]
             /\ FileOf(p, fd).status = "OPENED" => FileOf(p, fd).node \in Node
             /\ CopiedFile(FileOf(p, fd)) \in OpenFile
             /\ fd_array'[to][fd] = CopiedFile(FileOf(p, fd))
  <2>1. FileOf(p, fd) = fd_array[from][fd]
    BY DEF FileOf
  <2>2. FileOf(p, fd).status = "OPENED" => FileOf(p, fd).node \in Node
    BY <1>3, <2>1 DEF FilesIInv, FilesHeld
  <2>3. CopiedFile(FileOf(p, fd)) \in OpenFile
    BY <2>2 DEF CopiedFile, Opened, Unused, OpenFile
  <2>4. fd_array'[to][fd] = CopiedFile(FileOf(p, fd))
    BY <1>2 DEF WeakType
  <2>. QED  BY <2>1, <2>2, <2>3, <2>4
<1>8. fd_array' \in [Table -> [Fd -> OpenFile]]
  <2>1. [fd \in Fd |-> CopiedFile(FileOf(p, fd))] \in [Fd -> OpenFile]
    BY <1>7
  <2>. QED  BY <1>2, <2>1 DEF WeakType
<1>9. OnlyTable(fd_array, fd_array', to) /\ OnlyTable(pwd, pwd', to)
  BY <1>2 DEF WeakType, OnlyTable
<1>10. FilesHeld'
  <2>1. SUFFICES ASSUME NEW u \in Table, NEW fd \in Fd
                 PROVE  IF fd_array'[u][fd].status = "NONE" THEN fd_array'[u][fd] = Unused
                        ELSE fd_array'[u][fd].node \in Node
                             /\ fd_array'[u][fd].open_count >= 1
    BY DEF FilesHeld, Unused
  <2>2. CASE u = to
    BY <1>7, <2>2 DEF CopiedFile, Opened, Unused
  <2>3. CASE u # to
    <3>1. fd_array'[u] = fd_array[u]
      BY <1>9, <2>3 DEF OnlyTable
    <3>. QED  BY <3>1 DEF FilesIInv, FilesHeld
  <2>. QED  BY <2>2, <2>3
<1>11. HoldsExact'
  <2>1. SUFFICES ASSUME NEW u \in Table, NEW fd \in Fd
                 PROVE  fd_array'[u][fd].open_count
                          = Cardinality(Readers(u, fd)')
                            + (IF fd_array'[u][fd].status = "OPENED" THEN 1 ELSE 0)
    BY DEF HoldsExact, Readers
  <2>2. /\ Readers(u, fd)' = Readers(u, fd)
        /\ fd_array[u][fd].open_count
             = Cardinality(Readers(u, fd))
               + (IF fd_array[u][fd].status = "OPENED" THEN 1 ELSE 0)
    BY <1>6 DEF FilesIInv, FilesInv, HoldsExact, Readers, SameReaders
  <2>3. CASE u = to
    <3>1. Cardinality(Readers(u, fd)) \in Nat
      BY SomeThreads DEF Readers
    <3>2. Cardinality(Readers(u, fd)) = 0
      BY <1>4, <2>2, <2>3, <3>1 DEF Unused
    <3>3. fd_array'[u][fd].open_count
            = IF fd_array'[u][fd].status = "OPENED" THEN 1 ELSE 0
      <4>1. \/ fd_array'[to][fd] = Opened(FileOf(p, fd).node)
            \/ fd_array'[to][fd] = Unused
        BY <1>7 DEF CopiedFile
      <4>2. CASE fd_array'[to][fd] = Opened(FileOf(p, fd).node)
        BY <2>3, <4>2 DEF Opened
      <4>3. CASE fd_array'[to][fd] = Unused
        BY <2>3, <4>3 DEF Unused
      <4>. QED  BY <4>1, <4>2, <4>3
    <3>. QED  BY <2>2, <3>2, <3>3
  <2>4. CASE u # to
    <3>1. fd_array'[u] = fd_array[u]
      BY <1>9, <2>4 DEF OnlyTable
    <3>. QED  BY <2>2, <3>1
  <2>. QED  BY <2>3, <2>4
<1>12. ASSUME NEW n \in Node
       PROVE  /\ Cardinality(copied(n)) \in Nat
              /\ Cardinality(Holders(n, Fd)')
                   = Cardinality(Holders(n, Fd)) + Cardinality(copied(n))
  <2>1. Row(fd_array, to, n) = {}
    BY <1>4, FilesAssumption DEF Row, Unused
  <2>2. Row(fd_array', to, n) = copied(n)
    <3>1. ASSUME NEW fd \in Fd
          PROVE  fd_array'[to][fd].node = n
                   <=> FileOf(p, fd).status = "OPENED" /\ FileOf(p, fd).node = n
      <4>1. CASE FileOf(p, fd).status = "OPENED"
        <5>1. fd_array'[to][fd] = Opened(FileOf(p, fd).node)
          BY <1>7, <4>1 DEF CopiedFile
        <5>. QED  BY <4>1, <5>1 DEF Opened
      <4>2. CASE FileOf(p, fd).status # "OPENED"
        <5>1. fd_array'[to][fd] = Unused
          BY <1>7, <4>2 DEF CopiedFile
        <5>. QED  BY <4>2, <5>1, FilesAssumption DEF Unused
      <4>. QED  BY <4>1, <4>2
    <3>. QED  BY <3>1 DEF Row, Descriptors
  <2>3. /\ Cardinality(HoldersIn(fd_array, n)) \in Nat
        /\ Cardinality(HoldersIn(fd_array', n)) =
             Cardinality(HoldersIn(fd_array, n)) - Cardinality(Row(fd_array, to, n))
             + Cardinality(Row(fd_array', to, n))
    <3>. HIDE DEF copied
    <3>. QED  BY <1>9, HoldersChange
  <2>4. Holders(n, Fd) = HoldersIn(fd_array, n)
        /\ Holders(n, Fd)' = HoldersIn(fd_array', n)
    BY DEF Holders, HoldersIn
  <2>5. Cardinality(copied(n)) \in Nat
    BY <2>2, RowFinite
  <2>. HIDE DEF copied
  <2>6. Cardinality(Row(fd_array, to, n)) = 0
    BY <2>1, FS_EmptySet
  <2>. QED  BY <2>2, <2>3, <2>4, <2>5, <2>6
<1>. HIDE DEF copied
<1>13. WeakType'
  <2>1. ASSUME NEW n \in Node
        PROVE  /\ ref_count[n] + Cardinality(copied(n)) + One(n, pwd[from]) \in Int
               /\ open_count[n] + Cardinality(copied(n)) \in Int
    <3>1. ref_count[n] \in Int /\ open_count[n] \in Int /\ One(n, pwd[from]) \in Int
      BY <1>2 DEF WeakType, One
    <3>2. Cardinality(copied(n)) \in Nat
      BY <1>12
    <3>. QED  BY <3>1, <3>2
  <2>2. ref_count' \in [Node -> Int] /\ open_count' \in [Node -> Int]
    BY <1>1, <2>1
  <2>3. pwd' \in [Table -> Dir \cup {NoNode}]
    BY <1>2, <1>3 DEF WeakType
  <2>. QED  BY <1>1, <1>2, <1>5, <1>8, <2>2, <2>3 DEF WeakType
<1>14. TablesHeld'
  <2>1. SUFFICES ASSUME NEW u \in Table
                 PROVE  /\ files_count'[u] = Cardinality({q \in Proc : filesp'[q] = u})
                        /\ files_count'[u] = 0 =>
                             pwd'[u] = NoNode /\ \A fd \in Fd : fd_array'[u][fd] = Unused
    BY DEF TablesHeld, Unused
  <2>2. ASSUME files_count'[u] = 0
        PROVE  pwd'[u] = NoNode /\ \A fd \in Fd : fd_array'[u][fd] = Unused
    <3>1. u # to /\ files_count[u] = 0
      BY <1>5, <2>2
    <3>2. fd_array'[u] = fd_array[u] /\ pwd'[u] = pwd[u]
      BY <1>9, <3>1 DEF OnlyTable
    <3>. QED  BY <3>1, <3>2 DEF FilesIInv, FilesInv, TablesHeld
  <2>. QED  BY <1>5, <2>2
<1>15. RefsExact'
  <2>1. SUFFICES ASSUME NEW n \in Node
                 PROVE  /\ open_count'[n] = Cardinality(Holders(n, Fd)')
                        /\ ref_count'[n] = open_count'[n]
                             + Cardinality({u \in Table : pwd'[u] = n})
                             + KernelRefs(n) + lost'[n]
    BY DEF RefsExact, KernelRefs
  <2>2. /\ Cardinality(At(Table, pwd, n)) \in Nat
        /\ Cardinality(At(Table, pwd', n))
             = Cardinality(At(Table, pwd, n)) - One(n, pwd[to]) + One(n, pwd[from])
    <3>1. ChangedAt(Table, pwd, pwd', to, pwd[from]) /\ IsFiniteSet(Table)
      BY <1>2, FilesAssumption DEF WeakType, ChangedAt
    <3>. QED  BY <3>1, CountChange
  <2>3. One(n, pwd[to]) = 0
    BY <1>4, FilesAssumption DEF One
  <2>4. /\ {u \in Table : pwd[u] = n} = At(Table, pwd, n)
        /\ {u \in Table : pwd'[u] = n} = At(Table, pwd', n)
    BY DEF At
  <2>. PICK k, c, d, l, kr, h :
         /\ k = Cardinality(copied(n)) /\ c = Cardinality(At(Table, pwd, n))
         /\ d = One(n, pwd[from]) /\ l = Cardinality(At(Table, pwd', n))
         /\ kr = KernelRefs(n) /\ h = Cardinality(Holders(n, Fd))
    OBVIOUS
  <2>5. /\ open_count[n] = h
        /\ ref_count[n] = open_count[n] + c + kr + lost[n]
    BY <2>4 DEF FilesIInv, RefsExact
  <2>6. d \in Int
    BY DEF One
  <2>7. k \in Int /\ kr \in Int /\ lost[n] \in Int /\ open_count[n] \in Int
    BY <1>2, <1>12 DEF WeakType, KernelRefs
  <2>8. c \in Int /\ l = c + d
    BY <2>2, <2>3, <2>6
  <2>9. /\ ref_count'[n] = ref_count[n] + k + d
        /\ open_count'[n] = open_count[n] + k /\ lost'[n] = lost[n]
        /\ Cardinality(Holders(n, Fd)') = h + k
    BY <1>1, <1>12
  <2>10. /\ open_count'[n] = Cardinality(Holders(n, Fd)')
         /\ ref_count'[n] = open_count'[n] + l + kr + lost'[n]
    BY <2>5, <2>6, <2>7, <2>8, <2>9
  <2>. QED  BY <2>4, <2>10
<1>16. ReadersRun'
  BY <1>1, <1>2, FilesAssumption DEF FilesIInv, ReadersRun, WeakType
<1>. QED  BY <1>10, <1>11, <1>13, <1>14, <1>15, <1>16, AllHolds
-----------------------------------------------------------------------------
\* Every descriptor, table and inode count stays exact whatever the threads do.
THEOREM FilesInvariance == Spec => []FilesIInv
<1>1. FilesIInv /\ [Next]_vars => FilesIInv'
  <2>. SUFFICES ASSUME FilesIInv, [Next]_vars  PROVE FilesIInv'
    OBVIOUS
  <2>1. CASE UNCHANGED vars
    <3>1. TypeOK'
      BY <2>1 DEF vars, countVars, FilesIInv, FilesInv, TypeOK
    <3>2. TablesHeld' /\ HoldsExact' /\ FilesHeld' /\ ReadersRun'
      BY <2>1 DEF vars, countVars, FilesIInv, FilesInv, TablesHeld, HoldsExact, FilesHeld,
                  ReadersRun, Unused
    <3>3. RefsExact'
      BY <2>1 DEF vars, countVars, FilesIInv, RefsExact, Holders, KernelRefs
    <3>. QED  BY <3>1, <3>2, <3>3 DEF FilesIInv, FilesInv
  <2>2. ASSUME NEW p \in Proc, NEW n \in Node, Open(p, n) \/ OpenExclusive(p, n)
        PROVE  FilesIInv'
    BY <2>2, OpenStep, OpenExclusiveStep
  <2>3. ASSUME NEW p \in Proc, NEW fd \in Fd, Close(p, fd) \/ ReadBegin(p, fd)
        PROVE  FilesIInv'
    BY <2>3, CloseStep, ReadBeginStep
  <2>4. ASSUME NEW p \in Proc, NEW fd1 \in Fd, NEW fd2 \in Fd, Dup(p, fd1, fd2)
        PROVE  FilesIInv'
    BY <2>4, DupStep
  <2>5. ASSUME NEW p \in Proc, ReadEnd(p)
        PROVE  FilesIInv'
    BY <2>5, ReadEndStep
  <2>6. ASSUME NEW p \in Proc, NEW dir \in Dir, Chdir(p, dir)
        PROVE  FilesIInv'
    BY <2>6, ChdirStep
  <2>7. ASSUME NEW p \in Proc, NEW child \in Proc,
               ForkShared(p, child) \/ ForkCopied(p, child)
        PROVE  FilesIInv'
    BY <2>7, ForkSharedStep, ForkCopiedStep
  <2>8. ASSUME NEW p \in Proc, Exit(p)
        PROVE  FilesIInv'
    BY <2>8, LeaveStep DEF Exit
  <2>9. ASSUME NEW p \in Proc, Exec(p)
        PROVE  FilesIInv'
    BY <2>9, ExecStep
  <2>10. ASSUME NEW p \in Proc, ExecFails(p)
         PROVE  FilesIInv'
    <3>. NSTD..NENTRY - 1 \in SUBSET Fd
      BY FilesAssumption DEF Fd
    <3>. QED  BY <2>10, LeaveStep DEF ExecFails
  <2>. QED  BY <2>1, <2>2, <2>3, <2>4, <2>5, <2>6, <2>7, <2>8, <2>9, <2>10 DEF Next
<1>. QED  BY <1>1, InitHolds, PTL DEF Spec

\* Descriptors and tables are held by exactly those who use them.
THEOREM FilesAreHeld == Spec => []FilesInv
<1>1. FilesIInv => FilesInv
  BY DEF FilesIInv
<1>. QED  BY <1>1, FilesInvariance, PTL

\* The counts of an inode are exactly what points to it.
THEOREM CountsAreExact == Spec => []RefsExact
<1>1. FilesIInv => RefsExact
  BY DEF FilesIInv
<1>. QED  BY <1>1, FilesInvariance, PTL

\* While a read sleeps, its descriptor points to the file the read began with.
THEOREM ReaderFindsItsFile == Spec => ReaderKeepsFile
<1>. DEFINE Kept == \A p \in Proc : reading[p] # NoFd /\ reading'[p] # NoFd =>
       fd_array'[filesp[p]][reading[p]].node = fd_array[filesp[p]][reading[p]].node
<1>1. FilesIInv /\ [Next]_vars => [Kept]_vars
  <2>1. SUFFICES ASSUME FilesIInv, Next, NEW q \in Proc, reading[q] # NoFd,
                        reading'[q] # NoFd
                 PROVE  fd_array'[filesp[q]][reading[q]].node
                          = fd_array[filesp[q]][reading[q]].node
    BY Zenon
  <2>. PICK u, fd, file : u = filesp[q] /\ fd = reading[q] /\ file = fd_array[u][fd]
    OBVIOUS
  <2>2. /\ u \in Table /\ fd \in Fd
        /\ file.status # "NONE" /\ file.open_count \in Int
        /\ file.status = "OPENED" => file.open_count >= 2
        /\ file.open_count = 1 =>
             \A p \in Proc : filesp[p] = u /\ reading[p] = fd => p = q
    BY <2>1, ReaderHolds
  <2>3. fd_array \in [Table -> [Fd -> OpenFile]] /\ reading \in [Proc -> Fd \cup {NoFd}]
    BY <2>1, WeakTypes DEF WeakType
  <2>4. ASSUME NEW t \in Table, NEW fds, DescriptorsClosed(t, fds)
        PROVE  fd_array'[u][fd].node = file.node
    <3>1. fd_array'[u][fd] = IF u = t /\ fd \in fds THEN ClosedFile(file) ELSE file
      BY <2>2, <2>3, <2>4 DEF DescriptorsClosed
    <3>2. ClosedFile(file).node = file.node
      <4>1. file \in OpenFile
        BY <2>2, <2>3
      <4>2. file.status = "OPENED" => file.open_count # 1
        BY <2>2
      <4>. QED  BY <4>1, <4>2 DEF ClosedFile, OpenFile
    <3>. QED  BY <3>1, <3>2
  <2>5. ASSUME NEW p \in Proc, NEW n \in Node, Open(p, n)
        PROVE  fd_array'[u][fd].node = file.node
    <3>. PICK fd0 \in Fd : /\ Lowest(p, fd0)
                           /\ fd_array' = [fd_array EXCEPT ![filesp[p]][fd0] = Opened(n)]
      BY <2>5 DEF Open
    <3>1. ~(filesp[p] = u /\ fd0 = fd)
      BY <2>2 DEF Lowest, Descriptors, FileOf
    <3>. QED  BY <2>2, <2>3, <3>1
  <2>6. ASSUME NEW p \in Proc, NEW fd1 \in Fd, NEW fd2 \in Fd, Dup(p, fd1, fd2)
        PROVE  fd_array'[u][fd].node = file.node
    <3>1. ~(filesp[p] = u /\ fd2 = fd)
      BY <2>2, <2>6 DEF Dup, Descriptors, FileOf
    <3>. QED  BY <2>2, <2>3, <2>6, <3>1 DEF Dup
  <2>7. ASSUME NEW p \in Proc, NEW fd0 \in Fd, Close(p, fd0)
        PROVE  fd_array'[u][fd].node = file.node
    <3>. PICK t : t = filesp[p]
      OBVIOUS
    <3>1. t \in Table /\ fd_array' = [fd_array EXCEPT ![t][fd0] = ClosedFile(@)]
      BY <2>1, <2>7, TableInUse DEF Close, Running
    <3>2. [fd_array[t] EXCEPT ![fd0] = ClosedFile(@)]
            = [f \in Fd |-> IF f \in {fd0} THEN ClosedFile(fd_array[t][f]) ELSE fd_array[t][f]]
      BY <2>3, <3>1
    <3>3. DescriptorsClosed(t, {fd0})
      BY <2>3, <3>1, <3>2 DEF DescriptorsClosed
    <3>. QED  BY <2>4, <3>1, <3>3
  <2>8. ASSUME NEW p \in Proc, NEW fd0 \in Fd, ReadBegin(p, fd0)
        PROVE  fd_array'[u][fd].node = file.node
    <3>1. fd_array' = [fd_array EXCEPT ![filesp[p]][fd0].open_count = @ + 1]
      BY <2>8 DEF ReadBegin
    <3>2. fd_array'[u][fd] = IF u = filesp[p] /\ fd = fd0
                             THEN [file EXCEPT !.open_count = @ + 1] ELSE file
      BY <2>2, <2>3, <3>1
    <3>3. [file EXCEPT !.open_count = @ + 1].node = file.node
      BY <2>2, <2>3 DEF OpenFile
    <3>. QED  BY <3>2, <3>3
  <2>9. ASSUME NEW p \in Proc, ReadEnd(p)
        PROVE  fd_array'[u][fd].node = file.node
    <3>1. /\ fd_array' = [fd_array EXCEPT ![filesp[p]][reading[p]] = ReleasedFile(@)]
          /\ reading' = [reading EXCEPT ![p] = NoFd]
      BY <2>9 DEF ReadEnd
    <3>2. p # q
      BY <2>1, <2>3, <3>1
    <3>3. CASE filesp[p] = u /\ reading[p] = fd
      <4>1. file.open_count # 1
        BY <2>2, <3>2, <3>3
      <4>2. fd_array'[u][fd] = [file EXCEPT !.open_count = @ - 1]
        BY <2>2, <2>3, <3>1, <3>3, <4>1 DEF ReleasedFile
      <4>3. [file EXCEPT !.open_count = @ - 1].node = file.node
        BY <2>2, <2>3 DEF OpenFile
      <4>. QED  BY <4>2, <4>3
    <3>4. CASE ~(filesp[p] = u /\ reading[p] = fd)
      BY <2>2, <2>3, <3>1, <3>4
    <3>. QED  BY <3>3, <3>4
  <2>10. ASSUME NEW p \in Proc, NEW child \in Proc, ForkCopied(p, child)
         PROVE  fd_array'[u][fd].node = file.node
    <3>. PICK to \in Table :
           /\ files_count[to] = 0
           /\ fd_array' = [fd_array EXCEPT ![to] = [f \in Fd |-> CopiedFile(FileOf(p, f))]]
      BY <2>10 DEF ForkCopied
    <3>1. u # to
      <4>1. u # NoTable
        BY <2>2, FilesAssumption
      <4>. QED  BY <2>1, <4>1, TableInUse
    <3>. QED  BY <2>2, <2>3, <3>1
  <2>11. ASSUME NEW p \in Proc, NEW fds0 \in SUBSET Fd, Leave(p, fds0)
         PROVE  fd_array'[u][fd].node = file.node
    <3>. PICK t : t = filesp[p]
      OBVIOUS
    <3>. PICK fds : fds = {f \in IF files_count[t] = 1 THEN Fd ELSE fds0 :
                             fd_array[t][f].status = "OPENED"}
      OBVIOUS
    <3>1. t \in Table
      BY <2>1, <2>11, TableInUse DEF Leave, Running
    <3>2. fd_array' = [fd_array EXCEPT ![t] =
                         [f \in Fd |-> IF f \in fds THEN ClosedFile(@[f]) ELSE @[f]]]
      BY <2>11 DEF Leave
    <3>3. DescriptorsClosed(t, fds)
      BY <2>3, <3>1, <3>2 DEF DescriptorsClosed
    <3>. QED  BY <2>4, <3>1, <3>3
  <2>12. ASSUME NEW p \in Proc, Exec(p)
         PROVE  fd_array'[u][fd].node = file.node
    <3>1. filesp[p] \in Table
      BY <2>1, <2>12, TableInUse DEF Exec, Running
    <3>2. DescriptorsClosed(filesp[p], Descriptors(p, "OPENED") \ 0..NSTD - 1)
      BY <2>12 DEF Exec, DescriptorsClosed, FileOf
    <3>. QED  BY <2>4, <3>1, <3>2
  <2>13. NSTD..NENTRY - 1 \in SUBSET Fd /\ {} \in SUBSET Fd
    BY FilesAssumption DEF Fd
  <2>14. ASSUME fd_array' = fd_array
         PROVE  fd_array'[u][fd].node = file.node
    BY <2>14
  <2>15. fd_array'[u][fd].node = file.node
    BY <2>1, <2>5, <2>6, <2>7, <2>8, <2>9, <2>10, <2>11, <2>12, <2>13, <2>14
       DEF Next, Exit, ExecFails, OpenExclusive, Chdir, ForkShared
  <2>. QED  BY <2>15
<1>. QED  BY <1>1, FilesInvariance, PTL DEF Spec, ReaderKeepsFile

-----------------------------------------------------------------------------
(* The blocks of the disk. *)

\* What the disk holds of a file that is not dirty.  An index block is written
\* through, so the number of blocks may lag behind once the direct ones are in use.
SameOnDisk(f) ==
  /\ disk[f].size = din[f].size
  /\ disk[f].direct = din[f].direct
  /\ disk[f].indirect = din[f].indirect
  /\ disk[f].blocks <= din[f].blocks
  /\ disk[f].blocks = din[f].blocks \/ disk[f].blocks >= SFS_NDIRECT
  /\ disk[f].size \div SFS_BLKSIZE <= disk[f].blocks

\* What is not marked dirty is on the disk.
DiskOK ==
  /\ ~super_dirty => d_freemap = freemap /\ d_unused = unused_blocks
  /\ \A f \in File \ dirty : SameOnDisk(f)
  /\ phase = "down" => dirty = {} /\ ~super_dirty

\* The call that makes f empty.
Emptying(f) == [op |-> "truncate", file |-> f, len |-> 0]

\* A file has the blocks its size needs, and those of what is being written, except
\* while it is made empty; and a seek only makes it longer.
CallOK ==
  /\ phase # "up" => call = NoCall
  /\ \A f \in File : call # Emptying(f) => din[f].size \div SFS_BLKSIZE <= din[f].blocks
  /\ call.op \in {"read", "write"} /\ call.end <= call.pos
       => call.pos \div SFS_BLKSIZE <= din[call.file].blocks
  /\ call.op = "truncate" => call.len = 0 \/ call.len > din[call.file].size

SfsIInv == BlocksExact /\ DiskOK /\ CallOK

-----------------------------------------------------------------------------
LEMMA Constants ==
  /\ SFS_NDIRECT \in Nat \ {0} /\ SFS_BLK_NENTRY \in Nat \ {0}
  /\ SFS_BLKSIZE \in Nat \ {0} /\ SFS_MAX_FILE_SIZE \in Nat \ {0} /\ MaxLen \in Nat \ {0}
  /\ IsFiniteSet(Block) /\ 0 \notin Block /\ Block \subseteq Nat
  BY SfsAssumption

LEMMA LowestMember ==
  ASSUME NEW S \in SUBSET Nat, S # {}
  PROVE  LowestBlock(S) \in S
<1>. PICK R : R = {ss \in Nat \X Nat : ss[1] < ss[2]}
  OBVIOUS
<1>1. IsWellFoundedOn(R, Nat)
  <2>1. R = OpToRel(<, Nat)
    BY DEF OpToRel
  <2>. QED  BY <2>1, NatLessThanWellFounded
<1>2. PICK b \in S : \A c \in S : ~(<<c, b>> \in R)
  BY <1>1, WFMin
<1>3. \A c \in S : b <= c
  <2>1. SUFFICES ASSUME NEW c \in S  PROVE b <= c
    OBVIOUS
  <2>2. b \in Nat /\ c \in Nat /\ ~(c < b)
    BY <1>2
  <2>. QED  BY <2>2
<1>. QED  BY <1>3 DEF LowestBlock

\* No more than k blocks are full when a is within the first k.
LEMMA BlocksNeeded ==
  ASSUME NEW a \in Nat, NEW b \in Nat \ {0}, NEW k \in Nat, a <= k * b
  PROVE  a \div b <= k
<1>1. PICK q, r : q = a \div b /\ r = a % b
  OBVIOUS
<1>2. q \in Nat /\ r \in Nat /\ a = b * q + r
  BY <1>1
<1>3. ASSUME q >= k + 1 PROVE FALSE
  <2>1. b * q >= b * (k + 1)
    BY <1>2, <1>3
  <2>2. b * (k + 1) = k * b + b
    OBVIOUS
  <2>. QED BY <1>2, <2>1, <2>2
<1>. QED  BY <1>1, <1>2, <1>3

-----------------------------------------------------------------------------
(* The pointers of one file: d is its inode and e its index block.         *)

Ptr(d, e, i) == IF i < SFS_NDIRECT THEN d.direct[i]
                ELSE IF d.indirect = 0 THEN 0 ELSE e[i - SFS_NDIRECT]
Refs(d, e) == ({Ptr(d, e, i) : i \in Index} \cup {d.indirect}) \ {0}

Once(d, e) ==
  /\ \A i, j \in Index : i # j /\ Ptr(d, e, i) # 0 => Ptr(d, e, i) # Ptr(d, e, j)
  /\ d.indirect # 0 => \A i \in Index : Ptr(d, e, i) # d.indirect
Mapped(d, e) ==
  /\ \A i \in Index : i < d.blocks => Ptr(d, e, i) # 0
  /\ \A i \in Direct : i >= d.blocks => d.direct[i] = 0

IndexBlock == [Entry -> Pointer]

LEMMA Pointers ==
  ASSUME NEW f
  PROVE  /\ \A i : BlockAt(f, i) = Ptr(din[f], entries[f], i)
         /\ Used(f) = Refs(din[f], entries[f])
         /\ NoBlockTwice(f) <=> Once(din[f], entries[f])
  BY DEF BlockAt, Ptr, Used, Refs, NoBlockTwice, Once

LEMMA PtrTypes ==
  ASSUME NEW d \in Inode, NEW e \in IndexBlock, NEW i \in Index
  PROVE  Ptr(d, e, i) \in Pointer
<1>1. i < SFS_NDIRECT => i \in Direct
  BY Constants DEF Index, Direct
<1>2. ~(i < SFS_NDIRECT) => i - SFS_NDIRECT \in Entry
  BY Constants DEF Index, Entry
<1>. QED  BY <1>1, <1>2 DEF Ptr, Inode, IndexBlock, Pointer

LEMMA RefsTypes ==
  ASSUME NEW d \in Inode, NEW e \in IndexBlock
  PROVE  Refs(d, e) \subseteq Block
<1>1. d.indirect \in Pointer
  BY DEF Inode
<1>. QED  BY <1>1, PtrTypes DEF Refs, Pointer

\* One block more at the end, with the new blocks B.
Extended(d, e, d2, e2, B) ==
  /\ d2 \in Inode /\ e2 \in IndexBlock
  /\ d2.size = d.size /\ d2.blocks = d.blocks + 1
  /\ Refs(d2, e2) = Refs(d, e) \cup B
  /\ Once(d2, e2) /\ Mapped(d2, e2)
  /\ \A i \in Index : i # d.blocks \/ Ptr(d, e, i) # 0 => Ptr(d2, e2, i) = Ptr(d, e, i)

\* A new pointer x for an index that had none.
LEMMA PointerSet ==
  ASSUME NEW d \in Inode, NEW e \in IndexBlock, NEW d2 \in Inode, NEW e2 \in IndexBlock, NEW x,
         Once(d, e), Mapped(d, e), d.blocks \in Index, x # 0, x \notin Refs(d, e),
         Ptr(d, e, d.blocks) = 0,
         d2.size = d.size, d2.blocks = d.blocks + 1, d2.indirect = d.indirect,
         \A i \in Index : Ptr(d2, e2, i) = IF i = d.blocks THEN x ELSE Ptr(d, e, i)
  PROVE  Extended(d, e, d2, e2, {x})
<1>. PICK n : n = d.blocks
  OBVIOUS
<1>1. n \in Index /\ n \in Nat
  BY Constants DEF Index
<1>2. \A i \in Index : Ptr(d, e, i) # x
  BY DEF Refs
<1>3. Refs(d2, e2) = Refs(d, e) \cup {x}
  <2>1. ASSUME NEW y, y \in Refs(d2, e2)  PROVE y \in Refs(d, e) \cup {x}
    BY <2>1 DEF Refs
  <2>2. x \in Refs(d2, e2)
    BY <1>1 DEF Refs
  <2>3. ASSUME NEW y, y \in Refs(d, e)  PROVE y \in Refs(d2, e2)
    <3>1. CASE y = d.indirect
      BY <2>3, <3>1 DEF Refs
    <3>2. CASE y # d.indirect
      <4>. PICK i \in Index : y = Ptr(d, e, i) /\ y # 0
        BY <2>3, <3>2 DEF Refs
      <4>1. Ptr(d2, e2, i) = y
        OBVIOUS
      <4>. QED  BY <4>1 DEF Refs
    <3>. QED  BY <3>1, <3>2
  <2>. QED  BY <2>1, <2>2, <2>3
<1>4. Once(d2, e2)
  <2>1. x # d.indirect \/ d.indirect = 0
    BY DEF Refs
  <2>2. ASSUME NEW i \in Index, NEW j \in Index, i # j, Ptr(d2, e2, i) # 0
        PROVE  Ptr(d2, e2, i) # Ptr(d2, e2, j)
    <3>1. CASE i = n
      BY <1>2, <2>2, <3>1
    <3>2. CASE j = n
      BY <1>2, <2>2, <3>2
    <3>3. CASE i # n /\ j # n
      BY <2>2, <3>3 DEF Once
    <3>. QED  BY <3>1, <3>2, <3>3
  <2>3. d2.indirect # 0 => \A i \in Index : Ptr(d2, e2, i) # d2.indirect
    BY <2>1 DEF Once
  <2>. QED  BY <2>2, <2>3 DEF Once
<1>5. Mapped(d2, e2)
  <2>1. ASSUME NEW i \in Index, i < d2.blocks  PROVE Ptr(d2, e2, i) # 0
    <3>1. i \in Nat /\ i < n + 1
      BY <2>1, Constants DEF Index
    <3>2. CASE i = n
      BY <3>2
    <3>3. CASE i # n
      <4>1. i < n
        BY <1>1, <3>1, <3>3
      <4>. QED  BY <3>3, <4>1 DEF Mapped
    <3>. QED  BY <3>2, <3>3
  <2>2. ASSUME NEW i \in Direct, i >= d2.blocks  PROVE d2.direct[i] = 0
    <3>1. i \in Nat /\ i \in Index /\ i < SFS_NDIRECT /\ i >= n + 1
      BY <2>2, Constants DEF Index, Direct
    <3>2. i # n /\ i >= n
      BY <1>1, <3>1
    <3>3. Ptr(d2, e2, i) = Ptr(d, e, i)
      BY <3>1, <3>2
    <3>4. d2.direct[i] = d.direct[i]
      BY <3>1, <3>3 DEF Ptr
    <3>. QED  BY <3>2, <3>4 DEF Mapped
  <2>. QED  BY <2>1, <2>2 DEF Mapped
<1>6. \A i \in Index : i # d.blocks \/ Ptr(d, e, i) # 0 => Ptr(d2, e2, i) = Ptr(d, e, i)
  OBVIOUS
<1>. QED  BY <1>3, <1>4, <1>5, <1>6 DEF Extended

\* The pointer is there already.
LEMMA PointerFound ==
  ASSUME NEW d \in Inode, NEW e \in IndexBlock, NEW d2 \in Inode,
         Once(d, e), Mapped(d, e), d.blocks \in Index, Ptr(d, e, d.blocks) # 0,
         d2.size = d.size, d2.blocks = d.blocks + 1, d2.indirect = d.indirect,
         d2.direct = d.direct
  PROVE  Extended(d, e, d2, e, {}) /\ d.blocks >= SFS_NDIRECT
<1>. PICK n : n = d.blocks
  OBVIOUS
<1>1. n \in Index /\ n \in Nat
  BY Constants DEF Index
<1>2. \A i : Ptr(d2, e, i) = Ptr(d, e, i)
  BY DEF Ptr
<1>3. Refs(d2, e) = Refs(d, e) \cup {}
  BY <1>2 DEF Refs
<1>4. Once(d2, e)
  BY <1>2 DEF Once
<1>5. n >= SFS_NDIRECT
  <2>1. ASSUME n < SFS_NDIRECT  PROVE FALSE
    <3>1. n \in Direct
      BY <1>1, <2>1, Constants DEF Direct
    <3>. QED  BY <1>1, <2>1, <3>1 DEF Mapped, Ptr
  <2>. QED  BY <1>1, <2>1, Constants
<1>6. Mapped(d2, e)
  <2>1. ASSUME NEW i \in Index, i < d2.blocks  PROVE Ptr(d2, e, i) # 0
    <3>1. i \in Nat /\ i < n + 1
      BY <2>1, Constants DEF Index
    <3>2. CASE i = n
      BY <1>2, <3>2
    <3>3. CASE i # n
      <4>1. i < n
        BY <1>1, <3>1, <3>3
      <4>. QED  BY <1>2, <4>1 DEF Mapped
    <3>. QED  BY <3>2, <3>3
  <2>2. ASSUME NEW i \in Direct, i >= d2.blocks  PROVE d2.direct[i] = 0
    <3>1. i \in Nat /\ i >= n + 1
      BY <2>2, Constants DEF Direct
    <3>2. i >= n
      BY <1>1, <3>1
    <3>. QED  BY <3>2 DEF Mapped
  <2>. QED  BY <2>1, <2>2 DEF Mapped
<1>. QED  BY <1>2, <1>3, <1>4, <1>5, <1>6 DEF Extended

\* The first pointer of a new index block.
LEMMA IndexBlockSet ==
  ASSUME NEW d \in Inode, NEW e \in IndexBlock, NEW d2 \in Inode, NEW e2 \in IndexBlock,
         NEW x, NEW y,
         Once(d, e), Mapped(d, e), d.blocks \in Index, d.blocks >= SFS_NDIRECT,
         x # 0, x \notin Refs(d, e), y # 0, y \notin Refs(d, e), x # y,
         d.indirect = 0, d2.size = d.size, d2.blocks = d.blocks + 1,
         d2.indirect = x, d2.direct = d.direct,
         \A i \in Entry : e2[i] = IF i = d.blocks - SFS_NDIRECT THEN y ELSE 0
  PROVE  Extended(d, e, d2, e2, {x, y})
<1>. PICK n : n = d.blocks
  OBVIOUS
<1>1. n \in Index /\ n \in Nat /\ n >= SFS_NDIRECT
  BY Constants DEF Index
<1>2. \A i \in Index : i \in Nat /\ (~(i < SFS_NDIRECT) => i - SFS_NDIRECT \in Entry)
  BY Constants DEF Index, Entry
<1>3. \A i \in Index : Ptr(d2, e2, i) = IF i = n THEN y ELSE Ptr(d, e, i)
  <2>1. SUFFICES ASSUME NEW i \in Index
                 PROVE  Ptr(d2, e2, i) = IF i = n THEN y ELSE Ptr(d, e, i)
    OBVIOUS
  <2>2. CASE i < SFS_NDIRECT
    BY <1>1, <1>2, <2>2, Constants DEF Ptr
  <2>3. CASE ~(i < SFS_NDIRECT)
    <3>1. i - SFS_NDIRECT = n - SFS_NDIRECT <=> i = n
      BY <1>1, <1>2, Constants
    <3>. QED  BY <1>2, <2>3, <3>1 DEF Ptr
  <2>. QED  BY <2>2, <2>3
<1>4. \A i \in Index : Ptr(d, e, i) # x /\ Ptr(d, e, i) # y
  BY DEF Refs
<1>5. Ptr(d, e, n) = 0
  BY <1>1, <1>2, Constants DEF Ptr
<1>6. Refs(d2, e2) = Refs(d, e) \cup {x, y}
  <2>1. ASSUME NEW z, z \in Refs(d2, e2)  PROVE z \in Refs(d, e) \cup {x, y}
    BY <1>3, <2>1 DEF Refs
  <2>2. x \in Refs(d2, e2) /\ y \in Refs(d2, e2)
    BY <1>1, <1>3 DEF Refs
  <2>3. ASSUME NEW z, z \in Refs(d, e)  PROVE z \in Refs(d2, e2)
    <3>. PICK i \in Index : z = Ptr(d, e, i) /\ z # 0
      BY <2>3 DEF Refs
    <3>1. Ptr(d2, e2, i) = z
      BY <1>3, <1>5
    <3>. QED  BY <3>1 DEF Refs
  <2>. QED  BY <2>1, <2>2, <2>3
<1>7. Once(d2, e2)
  <2>1. ASSUME NEW i \in Index, NEW j \in Index, i # j, Ptr(d2, e2, i) # 0
        PROVE  Ptr(d2, e2, i) # Ptr(d2, e2, j)
    <3>1. CASE i = n
      BY <1>3, <1>4, <2>1, <3>1
    <3>2. CASE j = n
      BY <1>3, <1>4, <2>1, <3>2
    <3>3. CASE i # n /\ j # n
      BY <1>3, <2>1, <3>3 DEF Once
    <3>. QED  BY <3>1, <3>2, <3>3
  <2>2. \A i \in Index : Ptr(d2, e2, i) # d2.indirect
    BY <1>3, <1>4
  <2>. QED  BY <2>1, <2>2 DEF Once
<1>8. Mapped(d2, e2)
  <2>1. ASSUME NEW i \in Index, i < d2.blocks  PROVE Ptr(d2, e2, i) # 0
    <3>1. i \in Nat /\ i < n + 1
      BY <1>2, <2>1
    <3>2. CASE i = n
      BY <1>3, <3>2
    <3>3. CASE i # n
      <4>1. i < n
        BY <1>1, <3>1, <3>3
      <4>. QED  BY <1>3, <3>3, <4>1 DEF Mapped
    <3>. QED  BY <3>2, <3>3
  <2>2. ASSUME NEW i \in Direct, i >= d2.blocks  PROVE d2.direct[i] = 0
    <3>1. i \in Nat /\ i >= n + 1
      BY <2>2, Constants DEF Direct
    <3>2. i >= n
      BY <1>1, <3>1
    <3>. QED  BY <3>2 DEF Mapped
  <2>. QED  BY <2>1, <2>2 DEF Mapped
<1>9. \A i \in Index : i # d.blocks \/ Ptr(d, e, i) # 0 => Ptr(d2, e2, i) = Ptr(d, e, i)
  BY <1>3, <1>5
<1>. QED  BY <1>6, <1>7, <1>8, <1>9 DEF Extended

\* The last block, at n, is taken off.
LastCleared(d, e, d2, e2, n) ==
  /\ d2.size = d.size /\ d2.blocks = n /\ d2.indirect = d.indirect
  /\ \A i \in Direct : d2.direct[i] = IF i = n THEN 0 ELSE d.direct[i]
  /\ \A i \in Entry : e2[i] = IF i + SFS_NDIRECT = n /\ d.indirect # 0 THEN 0 ELSE e[i]

LEMMA LastRemoved ==
  ASSUME NEW d \in Inode, NEW e \in IndexBlock, NEW d2 \in Inode, NEW e2 \in IndexBlock,
         NEW n \in Index, d.blocks = n + 1, Once(d, e), Mapped(d, e),
         LastCleared(d, e, d2, e2, n)
  PROVE  /\ Ptr(d, e, n) \in Refs(d, e)
         /\ Refs(d2, e2) = Refs(d, e) \ {Ptr(d, e, n)}
         /\ Once(d2, e2) /\ Mapped(d2, e2)
         /\ \A i \in Index : i # n => Ptr(d2, e2, i) = Ptr(d, e, i)
<1>. USE DEF LastCleared
<1>1. \A i \in Index : /\ i \in Nat
                       /\ i < SFS_NDIRECT => i \in Direct
                       /\ ~(i < SFS_NDIRECT) => i - SFS_NDIRECT \in Entry
  BY Constants DEF Index, Entry, Direct
<1>2. \A i \in Index : Ptr(d2, e2, i) = IF i = n THEN 0 ELSE Ptr(d, e, i)
  <2>1. SUFFICES ASSUME NEW i \in Index
                 PROVE  Ptr(d2, e2, i) = IF i = n THEN 0 ELSE Ptr(d, e, i)
    OBVIOUS
  <2>2. CASE i < SFS_NDIRECT
    BY <1>1, <2>2 DEF Ptr
  <2>3. CASE ~(i < SFS_NDIRECT)
    <3>1. (i - SFS_NDIRECT) + SFS_NDIRECT = i
      BY <1>1, <2>3, Constants
    <3>. QED  BY <1>1, <2>3, <3>1 DEF Ptr
  <2>. QED  BY <2>2, <2>3
<1>3. Ptr(d, e, n) # 0
  BY <1>1 DEF Mapped
<1>4. \A i \in Index : i # n => Ptr(d, e, i) # Ptr(d, e, n)
  BY <1>3 DEF Once
<1>5. d.indirect # Ptr(d, e, n)
  BY <1>3 DEF Once
<1>6. Refs(d2, e2) = Refs(d, e) \ {Ptr(d, e, n)}
  <2>1. ASSUME NEW z, z \in Refs(d2, e2)  PROVE z \in Refs(d, e) /\ z # Ptr(d, e, n)
    BY <1>2, <1>4, <1>5, <2>1 DEF Refs
  <2>2. ASSUME NEW z, z \in Refs(d, e), z # Ptr(d, e, n)  PROVE z \in Refs(d2, e2)
    <3>1. CASE z = d.indirect
      BY <2>2, <3>1 DEF Refs
    <3>2. CASE z # d.indirect
      <4>. PICK i \in Index : z = Ptr(d, e, i) /\ z # 0
        BY <2>2, <3>2 DEF Refs
      <4>1. Ptr(d2, e2, i) = z
        BY <1>2, <2>2
      <4>. QED  BY <4>1 DEF Refs
    <3>. QED  BY <3>1, <3>2
  <2>. QED  BY <2>1, <2>2
<1>7. Once(d2, e2)
  <2>1. ASSUME NEW i \in Index, NEW j \in Index, i # j, Ptr(d2, e2, i) # 0
        PROVE  Ptr(d2, e2, i) # Ptr(d2, e2, j)
    BY <1>2, <2>1 DEF Once
  <2>2. d2.indirect # 0 => \A i \in Index : Ptr(d2, e2, i) # d2.indirect
    BY <1>2 DEF Once
  <2>. QED  BY <2>1, <2>2 DEF Once
<1>8. Mapped(d2, e2)
  <2>1. ASSUME NEW i \in Index, i < d2.blocks  PROVE Ptr(d2, e2, i) # 0
    <3>1. i # n /\ i < d.blocks
      BY <1>1, <2>1
    <3>. QED  BY <1>2, <3>1 DEF Mapped
  <2>2. ASSUME NEW i \in Direct, i >= d2.blocks  PROVE d2.direct[i] = 0
    <3>1. CASE i = n
      BY <3>1
    <3>2. CASE i # n
      <4>1. i >= d.blocks
        BY <1>1, <2>2, <3>2, Constants DEF Direct
      <4>. QED  BY <3>2, <4>1 DEF Mapped
    <3>. QED  BY <3>1, <3>2
  <2>. QED  BY <2>1, <2>2 DEF Mapped
<1>9. Ptr(d, e, n) \in Refs(d, e)
  BY <1>3 DEF Refs
<1>. QED  BY <1>2, <1>6, <1>7, <1>8, <1>9

-----------------------------------------------------------------------------
(* All files together.                                                     *)

FileRefs(f) == Refs(din[f], entries[f])

\* BlocksExact without the types, file by file.
Owned ==
  /\ freemap = Block \ UNION {FileRefs(f) : f \in File}
  /\ \A f \in File : Once(din[f], entries[f]) /\ Mapped(din[f], entries[f])
  /\ \A f, g \in File : f # g => FileRefs(f) \cap FileRefs(g) = {}
  /\ unused_blocks = Cardinality(freemap)

LEMMA ExactIsOwned == BlocksExact <=> SfsTypeOK /\ Owned
<1>1. \A f : Used(f) = FileRefs(f)
  BY Pointers DEF FileRefs
<1>2. \A f \in File : NoBlockTwice(f) <=> Once(din[f], entries[f])
  BY Pointers
<1>3. BlocksMapped <=> \A f \in File : Mapped(din[f], entries[f])
  BY Pointers DEF BlocksMapped, Mapped
<1>. QED  BY <1>1, <1>2, <1>3 DEF BlocksExact, BlocksOwnedOnce, Owned

LEMMA ExactIsOwnedNext == BlocksExact' <=> SfsTypeOK' /\ Owned'
<1>1. \A f : Used(f)' = FileRefs(f)'
  BY DEF FileRefs, BlockAt, Ptr, Used, Refs
<1>2. \A f \in File : NoBlockTwice(f)' <=> Once(din'[f], entries'[f])
  BY DEF BlockAt, Ptr, NoBlockTwice, Once
<1>3. BlocksMapped' <=> \A f \in File : Mapped(din'[f], entries'[f])
  BY DEF BlocksMapped, Mapped, BlockAt, Ptr
<1>. QED  BY <1>1, <1>2, <1>3 DEF BlocksExact, BlocksOwnedOnce, Owned

\* The blocks of f change to some of its own and of the free ones.
LEMMA OwnedMoves ==
  ASSUME Owned, NEW f \in File,
         FileRefs(f) \subseteq Block,
         \A g \in File : g # f => din'[g] = din[g] /\ entries'[g] = entries[g],
         Once(din'[f], entries'[f]), Mapped(din'[f], entries'[f]),
         FileRefs(f)' \subseteq FileRefs(f) \cup freemap,
         freemap' = (freemap \cup FileRefs(f)) \ FileRefs(f)',
         unused_blocks' = Cardinality(freemap')
  PROVE  Owned'
<1>1. \A g \in File : g # f => FileRefs(g)' = FileRefs(g)
  BY DEF FileRefs
<1>2. \A g \in File : g # f => FileRefs(g) \cap FileRefs(f)' = {}
  BY DEF Owned
<1>3. \A g, h \in File : g # h => FileRefs(g)' \cap FileRefs(h)' = {}
  <2>1. SUFFICES ASSUME NEW g \in File, NEW h \in File, g # h
                 PROVE  FileRefs(g)' \cap FileRefs(h)' = {}
    OBVIOUS
  <2>2. CASE g = f
    BY <1>1, <1>2, <2>1, <2>2
  <2>3. CASE h = f
    BY <1>1, <1>2, <2>1, <2>3
  <2>4. CASE g # f /\ h # f
    BY <1>1, <2>1, <2>4 DEF Owned
  <2>. QED  BY <2>2, <2>3, <2>4
<1>4. freemap' = Block \ UNION {FileRefs(g)' : g \in File}
  <2>1. ASSUME NEW b, b \in freemap'
        PROVE  b \in Block /\ \A g \in File : b \notin FileRefs(g)'
    <3>1. b \in Block
      BY <2>1 DEF Owned
    <3>2. ASSUME NEW g \in File, g # f  PROVE b \notin FileRefs(g)
      BY <2>1, <3>2 DEF Owned
    <3>. QED  BY <1>1, <2>1, <3>1, <3>2
  <2>2. ASSUME NEW b \in Block, \A g \in File : b \notin FileRefs(g)'
        PROVE  b \in freemap'
    <3>1. b \notin FileRefs(f)'
      BY <2>2
    <3>2. ASSUME NEW g \in File, g # f  PROVE b \notin FileRefs(g)
      BY <1>1, <2>2, <3>2
    <3>3. b \in freemap \cup FileRefs(f)
      BY <3>2 DEF Owned
    <3>. QED  BY <3>1, <3>3
  <2>. QED  BY <2>1, <2>2
<1>5. \A g \in File : Once(din'[g], entries'[g]) /\ Mapped(din'[g], entries'[g])
  <2>1. SUFFICES ASSUME NEW g \in File
                 PROVE  Once(din'[g], entries'[g]) /\ Mapped(din'[g], entries'[g])
    OBVIOUS
  <2>2. CASE g = f
    BY <2>2
  <2>3. CASE g # f
    BY <2>3 DEF Owned
  <2>. QED  BY <2>2, <2>3
<1>. QED  BY <1>3, <1>4, <1>5 DEF Owned

LEMMA FileTypes ==
  ASSUME SfsTypeOK, NEW f \in File
  PROVE  /\ din[f] \in Inode /\ entries[f] \in IndexBlock
         /\ din[f].blocks \in Nat /\ din[f].size \in Size
         /\ din[f].direct \in [Direct -> Pointer] /\ din[f].indirect \in Pointer
         /\ FileRefs(f) \subseteq Block
<1>1. din[f] \in Inode /\ entries[f] \in IndexBlock
  BY DEF SfsTypeOK, IndexBlock
<1>2. FileRefs(f) \subseteq Block
  BY <1>1, RefsTypes DEF FileRefs
<1>3. SFS_NDIRECT + SFS_BLK_NENTRY \in Nat
  BY Constants
<1>. QED  BY <1>1, <1>2, <1>3 DEF Inode

\* What a step of the block management of f may do, whether it adds a block, finds the
\* disk full or removes a block.
BlockStep(f) ==
  /\ freemap' \subseteq Block /\ super_dirty' \in BOOLEAN
  /\ din' \in [File -> Inode] /\ entries' \in [File -> IndexBlock]
  /\ Owned'
  /\ \A g \in File : g # f => din'[g] = din[g] /\ entries'[g] = entries[g]
  /\ din'[f].size = din[f].size
  /\ dirty \subseteq dirty' /\ dirty' \subseteq dirty \cup {f}
  /\ f \notin dirty' => /\ din'[f].direct = din[f].direct
                        /\ din'[f].indirect = din[f].indirect
                        /\ din'[f].blocks >= din[f].blocks
                        /\ din'[f].blocks = din[f].blocks \/ din[f].blocks >= SFS_NDIRECT
  /\ ~super_dirty' => /\ ~super_dirty
                      /\ freemap' = freemap /\ unused_blocks' = unused_blocks

LEMMA Taken ==
  ASSUME SfsTypeOK, Owned, NEW B \in SUBSET freemap, Take(B)
  PROVE  /\ freemap' = freemap \ B /\ super_dirty' = TRUE
         /\ unused_blocks' = Cardinality(freemap')
<1>1. IsFiniteSet(freemap)
  BY Constants, FS_Subset DEF SfsTypeOK
<1>2. IsFiniteSet(freemap \ B) /\ freemap \cap B = B
      /\ Cardinality(freemap \ B) = Cardinality(freemap) - Cardinality(freemap \cap B)
  BY <1>1, FS_Difference
<1>. QED  BY <1>2 DEF Take, Owned

LEMMA Given ==
  ASSUME SfsTypeOK, Owned, NEW b, b \notin freemap, Give(b)
  PROVE  /\ freemap' = freemap \cup {b} /\ super_dirty' = TRUE
         /\ unused_blocks' = Cardinality(freemap')
<1>1. IsFiniteSet(freemap)
  BY Constants, FS_Subset DEF SfsTypeOK
<1>2. Cardinality(freemap \cup {b}) = Cardinality(freemap) + 1
  BY <1>1, FS_AddElement
<1>. QED  BY <1>2 DEF Give, Owned

\* When f is extended by free blocks everything is owned once again.
LEMMA ExtendedOwned ==
  ASSUME SfsTypeOK, Owned, NEW f \in File, NEW B \in SUBSET freemap,
         \A g \in File : g # f => din'[g] = din[g] /\ entries'[g] = entries[g],
         Extended(din[f], entries[f], din'[f], entries'[f], B),
         freemap' = freemap \ B, unused_blocks' = Cardinality(freemap')
  PROVE  Owned'
<1>1. FileRefs(f) \subseteq Block /\ FileRefs(f) \cap freemap = {}
  BY FileTypes DEF Owned
<1>2. FileRefs(f)' = FileRefs(f) \cup B
  BY DEF FileRefs, Extended
<1>3. freemap' = (freemap \cup FileRefs(f)) \ FileRefs(f)'
  BY <1>1, <1>2
<1>4. Once(din'[f], entries'[f]) /\ Mapped(din'[f], entries'[f])
  BY DEF Extended
<1>5. FileRefs(f)' \subseteq FileRefs(f) \cup freemap
  BY <1>2
<1>. QED  BY <1>1, <1>3, <1>4, <1>5, OwnedMoves

\* The step that extends f by the free blocks B.
LEMMA ExtendedStep ==
  ASSUME SfsTypeOK, Owned, NEW f \in File, NEW B \in SUBSET freemap,
         din' \in [File -> Inode], entries' \in [File -> IndexBlock],
         \A g \in File : g # f => din'[g] = din[g] /\ entries'[g] = entries[g],
         Extended(din[f], entries[f], din'[f], entries'[f], B),
         \/ B = {} /\ UNCHANGED <<freemap, unused_blocks, super_dirty>>
         \/ Take(B),
         dirty \subseteq dirty', dirty' \subseteq dirty \cup {f},
         f \notin dirty' => /\ din'[f].direct = din[f].direct
                            /\ din'[f].indirect = din[f].indirect
                            /\ din[f].blocks >= SFS_NDIRECT
  PROVE  /\ BlockStep(f)
         /\ din'[f].blocks = din[f].blocks + 1
         /\ \A i \in Index : i # din[f].blocks => BlockAt(f, i)' = BlockAt(f, i)
<1>1. /\ freemap' = freemap \ B /\ unused_blocks' = Cardinality(freemap')
      /\ super_dirty' \in BOOLEAN
      /\ ~super_dirty' => /\ ~super_dirty
                          /\ freemap' = freemap /\ unused_blocks' = unused_blocks
  <2>1. CASE B = {} /\ UNCHANGED <<freemap, unused_blocks, super_dirty>>
    BY <2>1 DEF SfsTypeOK, Owned
  <2>2. CASE Take(B)
    BY <2>2, Taken
  <2>. QED  BY <2>1, <2>2
<1>2. Owned'
  BY <1>1, ExtendedOwned
<1>3. /\ din'[f].size = din[f].size /\ din'[f].blocks = din[f].blocks + 1
      /\ \A i \in Index : i # din[f].blocks \/ Ptr(din[f], entries[f], i) # 0
           => Ptr(din'[f], entries'[f], i) = Ptr(din[f], entries[f], i)
  BY DEF Extended
<1>4. \A i \in Index : i # din[f].blocks => BlockAt(f, i)' = BlockAt(f, i)
  BY <1>3 DEF BlockAt, Ptr
<1>5. din'[f].blocks >= din[f].blocks
  BY <1>3, FileTypes
<1>6. freemap' \subseteq Block
  BY <1>1 DEF SfsTypeOK
<1>7. BlockStep(f)
  BY <1>1, <1>2, <1>3, <1>5, <1>6 DEF BlockStep
<1>. QED  BY <1>3, <1>4, <1>7

\* What the three ways of changing the inode of f in memory write.
LEMMA CountWritten ==
  ASSUME SfsTypeOK, NEW f \in File, din[f].blocks \in Index,
         din' = [din EXCEPT ![f].blocks = @ + 1]
  PROVE  /\ din' \in [File -> Inode]
         /\ \A g \in File : g # f => din'[g] = din[g]
         /\ din'[f].size = din[f].size /\ din'[f].blocks = din[f].blocks + 1
         /\ din'[f].indirect = din[f].indirect
         /\ din'[f].direct = din[f].direct
<1>1. din[f].blocks + 1 \in 0..SFS_NDIRECT + SFS_BLK_NENTRY
  BY Constants DEF Index
<1>2. din \in [File -> Inode] /\ din[f] \in Inode
  BY DEF SfsTypeOK
<1>3. din'[f] \in Inode
  BY <1>1, <1>2 DEF Inode
<1>. QED  BY <1>2, <1>3 DEF Inode

DirectSet(f, i, b) == din' = [din EXCEPT ![f].direct[i] = b, ![f].blocks = @ + 1]

LEMMA DirectWritten ==
  ASSUME SfsTypeOK, NEW f \in File, din[f].blocks \in Index,
         NEW i \in Direct, NEW b \in Pointer, DirectSet(f, i, b)
  PROVE  /\ din' \in [File -> Inode]
         /\ \A g \in File : g # f => din'[g] = din[g]
         /\ din'[f].size = din[f].size /\ din'[f].blocks = din[f].blocks + 1
         /\ din'[f].indirect = din[f].indirect
         /\ din'[f].direct = [din[f].direct EXCEPT ![i] = b]
<1>1. din[f].blocks + 1 \in 0..SFS_NDIRECT + SFS_BLK_NENTRY
  BY Constants DEF Index
<1>2. din \in [File -> Inode] /\ din[f] \in Inode
  BY DEF SfsTypeOK
<1>3. din'[f] \in Inode
  BY <1>1, <1>2 DEF Inode, DirectSet
<1>. QED  BY <1>2, <1>3 DEF Inode, DirectSet

LEMMA IndirectWritten ==
  ASSUME SfsTypeOK, NEW f \in File, din[f].blocks \in Index,
         NEW b \in Pointer,
         din' = [din EXCEPT ![f].indirect = b, ![f].blocks = @ + 1]
  PROVE  /\ din' \in [File -> Inode]
         /\ \A g \in File : g # f => din'[g] = din[g]
         /\ din'[f].size = din[f].size /\ din'[f].blocks = din[f].blocks + 1
         /\ din'[f].indirect = b
         /\ din'[f].direct = din[f].direct
<1>1. din[f].blocks + 1 \in 0..SFS_NDIRECT + SFS_BLK_NENTRY
  BY Constants DEF Index
<1>2. din \in [File -> Inode] /\ din[f] \in Inode
  BY DEF SfsTypeOK
<1>3. din'[f] \in Inode
  BY <1>1, <1>2 DEF Inode
<1>. QED  BY <1>2, <1>3 DEF Inode

LEMMA BlocksAdded ==
  ASSUME SfsTypeOK, Owned, NEW f \in File, din[f].blocks \in Index, AddBlock(f)
  PROVE  /\ BlockStep(f)
         /\ din'[f].blocks = din[f].blocks + 1
         /\ \A i \in Index : i # din[f].blocks => BlockAt(f, i)' = BlockAt(f, i)
<1>. DEFINE n == din[f].blocks
            d == din[f]
            e == entries[f]
<1>0. /\ d \in Inode /\ e \in IndexBlock /\ d.indirect \in Pointer
      /\ n \in Nat /\ n \in Index
  BY FileTypes
<1>1. BlockAt(f, n) = Ptr(d, e, n)
  BY Pointers
<1>2. Once(d, e) /\ Mapped(d, e)
  BY DEF Owned
<1>3. \A b \in freemap : b # 0 /\ b \notin Refs(d, e) /\ b \in Pointer
  BY Constants DEF Owned, FileRefs, SfsTypeOK, Pointer
<1>4. ASSUME NEW S \in SUBSET freemap, S # {}  PROVE LowestBlock(S) \in S
  BY <1>4, LowestMember, Constants DEF SfsTypeOK
<1>5. entries \in [File -> IndexBlock] /\ dirty \subseteq File
  BY DEF SfsTypeOK, IndexBlock
<1>6. /\ Needed(f, n) = 0 <=> Ptr(d, e, n) # 0
      /\ Needed(f, n) = 1 => Ptr(d, e, n) = 0
      /\ Needed(f, n) = 1 /\ n >= SFS_NDIRECT => d.indirect # 0
      /\ Needed(f, n) = 2 => d.indirect = 0 /\ n >= SFS_NDIRECT
  BY <1>1 DEF Needed
<1>7. CASE AddNothing(f, n)
  <2>1. /\ din' \in [File -> Inode] /\ \A g \in File : g # f => din'[g] = din[g]
        /\ din'[f].size = d.size /\ din'[f].blocks = n + 1
        /\ din'[f].indirect = d.indirect /\ din'[f].direct = d.direct
    BY <1>7, CountWritten DEF AddNothing
  <2>2. din'[f] \in Inode /\ entries'[f] = e /\ Ptr(d, e, n) # 0 /\ entries' = entries
        /\ dirty' = dirty
    BY <1>6, <1>7, <2>1 DEF AddNothing
  <2>3. Extended(d, e, din'[f], entries'[f], {}) /\ n >= SFS_NDIRECT
    BY <1>0, <1>2, <2>1, <2>2, PointerFound
  <2>4. UNCHANGED <<freemap, unused_blocks, super_dirty>>
    BY <1>7 DEF AddNothing
  <2>5. PICK B : B = {}
    OBVIOUS
  <2>6. /\ B \in SUBSET freemap /\ dirty \subseteq dirty' /\ dirty' \subseteq dirty \cup {f}
        /\ entries' \in [File -> IndexBlock] /\ \A g \in File : g # f => entries'[g] = entries[g]
        /\ Extended(din[f], entries[f], din'[f], entries'[f], B)
    BY <1>5, <2>2, <2>3, <2>5
  <2>7. /\ BlockStep(f)
        /\ din'[f].blocks = din[f].blocks + 1
        /\ \A i \in Index : i # din[f].blocks => BlockAt(f, i)' = BlockAt(f, i)
    BY <2>1, <2>3, <2>4, <2>5, <2>6, ExtendedStep
  <2>. QED  BY <2>7
<1>8. CASE AddDirect(f, n)
  <2>. PICK b : b = LowestBlock(freemap)
    OBVIOUS
  <2>1. b \in freemap /\ Take({b}) /\ n \in Direct /\ n < SFS_NDIRECT
    BY <1>0, <1>4, <1>8, Constants DEF AddDirect, Direct
  <2>2. /\ din' \in [File -> Inode] /\ \A g \in File : g # f => din'[g] = din[g]
        /\ din'[f].size = d.size /\ din'[f].blocks = n + 1
        /\ din'[f].indirect = d.indirect
        /\ din'[f].direct = [d.direct EXCEPT ![n] = b]
    <3>1. n \in Direct /\ b \in Pointer
      BY <1>3, <2>1
    <3>2. DirectSet(f, n, b)
      BY <1>8 DEF AddDirect, DirectSet
    <3>. QED  BY <3>1, <3>2, DirectWritten
  <2>3. din'[f] \in Inode /\ entries'[f] = e /\ Ptr(d, e, n) = 0 /\ entries' = entries
        /\ dirty' = dirty \cup {f}
    BY <1>6, <1>8, <2>2 DEF AddDirect
  <2>4. \A i \in Index : Ptr(din'[f], e, i) = IF i = n THEN b ELSE Ptr(d, e, i)
    <3>1. SUFFICES ASSUME NEW i \in Index
                   PROVE  Ptr(din'[f], e, i) = IF i = n THEN b ELSE Ptr(d, e, i)
      OBVIOUS
    <3>2. i < SFS_NDIRECT => i \in Direct
      BY Constants DEF Index, Direct
    <3>3. d.direct \in [Direct -> Pointer]
      BY <1>0 DEF Inode
    <3>. QED  BY <2>1, <2>2, <3>2, <3>3 DEF Ptr
  <2>5. Extended(d, e, din'[f], entries'[f], {b})
    BY <1>0, <1>2, <1>3, <2>1, <2>2, <2>3, <2>4, PointerSet
  <2>6. {b} \in SUBSET freemap /\ f \in dirty'
        /\ \A g \in File : g # f => entries'[g] = entries[g]
    BY <2>1, <2>3
  <2>. HIDE DEF n, d, e
  <2>. QED  BY <1>5, <2>1, <2>2, <2>3, <2>5, <2>6, ExtendedStep DEF n, d, e
<1>9. CASE AddEntry(f, n)
  <2>. PICK b : b = LowestBlock(freemap)
    OBVIOUS
  <2>1. b \in freemap /\ Take({b}) /\ n >= SFS_NDIRECT /\ n - SFS_NDIRECT \in Entry
    BY <1>0, <1>4, <1>9, Constants DEF AddEntry, Entry, Index
  <2>2. /\ din' \in [File -> Inode] /\ \A g \in File : g # f => din'[g] = din[g]
        /\ din'[f].size = d.size /\ din'[f].blocks = n + 1
        /\ din'[f].indirect = d.indirect /\ din'[f].direct = d.direct
    BY <1>9, CountWritten DEF AddEntry
  <2>3. entries' = [entries EXCEPT ![f][n - SFS_NDIRECT] = b]
    BY <1>9 DEF AddEntry
  <2>4. /\ entries' \in [File -> IndexBlock] /\ \A g \in File : g # f => entries'[g] = entries[g]
        /\ entries'[f] = [e EXCEPT ![n - SFS_NDIRECT] = b]
    BY <1>3, <1>5, <2>1, <2>3 DEF IndexBlock
  <2>5. din'[f] \in Inode /\ entries'[f] \in IndexBlock /\ Ptr(d, e, n) = 0 /\ d.indirect # 0
        /\ dirty' = dirty
    BY <1>6, <1>9, <2>1, <2>2, <2>4 DEF AddEntry
  <2>6. \A i \in Index : Ptr(din'[f], entries'[f], i) = IF i = n THEN b ELSE Ptr(d, e, i)
    <3>1. SUFFICES ASSUME NEW i \in Index
                   PROVE  Ptr(din'[f], entries'[f], i) = IF i = n THEN b ELSE Ptr(d, e, i)
      OBVIOUS
    <3>2. CASE i < SFS_NDIRECT
      <4>1. i # n
        BY <1>0, <2>1, <3>2, Constants DEF Index
      <4>. QED  BY <2>2, <3>2, <4>1 DEF Ptr
    <3>3. CASE ~(i < SFS_NDIRECT)
      <4>1. i - SFS_NDIRECT \in Entry /\ (i - SFS_NDIRECT = n - SFS_NDIRECT <=> i = n)
        BY <1>0, <3>3, Constants DEF Index, Entry
      <4>. QED  BY <1>0, <2>2, <2>4, <2>5, <3>3, <4>1 DEF Ptr, IndexBlock
    <3>. QED  BY <3>2, <3>3
  <2>7. Extended(d, e, din'[f], entries'[f], {b})
    BY <1>0, <1>2, <1>3, <2>1, <2>2, <2>5, <2>6, PointerSet
  <2>8. {b} \in SUBSET freemap
    BY <2>1
  <2>. HIDE DEF n, d, e
  <2>. QED  BY <1>5, <2>1, <2>2, <2>4, <2>5, <2>7, <2>8, ExtendedStep DEF n, d, e
<1>10. CASE AddIndexBlock(f, n)
  <2>. PICK x : x = LowestBlock(freemap)
    OBVIOUS
  <2>. PICK y : y = LowestBlock(freemap \ {x})
    OBVIOUS
  <2>1. /\ Needed(f, n) = 2 /\ Cardinality(freemap) >= 2 /\ Take({x, y})
        /\ entries' = [entries EXCEPT ![f] = [j \in Entry |-> IF j = n - SFS_NDIRECT THEN y ELSE 0]]
        /\ din' = [din EXCEPT ![f].indirect = x, ![f].blocks = @ + 1]
        /\ dirty' = dirty \cup {f}
    BY <1>10 DEF AddIndexBlock
  <2>2. x \in freemap /\ y \in freemap /\ x # y
    <3>1. freemap # {}
      BY <2>1, FS_EmptySet
    <3>2. x \in freemap
      BY <1>4, <3>1
    <3>3. freemap # {x}
      <4>1. Cardinality({x}) = 1
        BY FS_Singleton
      <4>2. Cardinality(freemap) >= 2
        BY <2>1
      <4>. QED  BY <4>1, <4>2
    <3>4. freemap \ {x} # {}
      BY <3>2, <3>3
    <3>5. y \in freemap \ {x}
      BY <1>4, <3>4
    <3>. QED  BY <3>2, <3>5
  <2>3. /\ din' \in [File -> Inode] /\ \A g \in File : g # f => din'[g] = din[g]
        /\ din'[f].size = d.size /\ din'[f].blocks = n + 1
        /\ din'[f].indirect = x /\ din'[f].direct = d.direct
    BY <1>3, <2>1, <2>2, IndirectWritten
  <2>4. /\ entries'[f] = [j \in Entry |-> IF j = n - SFS_NDIRECT THEN y ELSE 0]
        /\ \A g \in File : g # f => entries'[g] = entries[g]
        /\ entries' \in [File -> IndexBlock]
    <3>1. [j \in Entry |-> IF j = n - SFS_NDIRECT THEN y ELSE 0] \in IndexBlock
      BY <1>3, <2>2 DEF IndexBlock, Pointer
    <3>. QED  BY <1>5, <2>1, <3>1
  <2>5. din'[f] \in Inode /\ entries'[f] \in IndexBlock /\ d.indirect = 0 /\ n >= SFS_NDIRECT
    BY <1>6, <2>1, <2>3, <2>4
  <2>6. \A j \in Entry : entries'[f][j] = IF j = n - SFS_NDIRECT THEN y ELSE 0
    BY <2>4
  <2>7. Extended(d, e, din'[f], entries'[f], {x, y})
    BY <1>0, <1>2, <1>3, <2>2, <2>3, <2>5, <2>6, IndexBlockSet
  <2>8. {x, y} \in SUBSET freemap /\ f \in dirty'
    BY <2>1, <2>2
  <2>. HIDE DEF n, d, e
  <2>. QED  BY <1>5, <2>1, <2>3, <2>4, <2>7, <2>8, ExtendedStep DEF n, d, e
<1>. QED  BY <1>7, <1>8, <1>9, <1>10 DEF AddBlock

LEMMA DiskFullStep ==
  ASSUME SfsTypeOK, Owned, NEW f \in File, DiskFull(f)
  PROVE  BlockStep(f) /\ din' = din
<1>1. /\ UNCHANGED <<freemap, unused_blocks, din, dirty, entries>>
      /\ super_dirty' = (super_dirty \/ freemap # {})
  BY DEF DiskFull
<1>2. Owned'
  BY <1>1 DEF Owned, FileRefs
<1>3. super_dirty' \in BOOLEAN /\ (~super_dirty' => ~super_dirty)
  BY <1>1
<1>4. freemap \subseteq Block /\ din \in [File -> Inode] /\ entries \in [File -> IndexBlock]
  BY DEF SfsTypeOK, IndexBlock
<1>5. din[f].blocks \in Nat
  BY FileTypes
<1>. QED  BY <1>1, <1>2, <1>3, <1>4, <1>5 DEF BlockStep

\* The block that RemoveBlock frees is the last one of f; it is there.
LEMMA BlockRemoved ==
  ASSUME SfsTypeOK, Owned, NEW f \in File, din[f].blocks > 0, RemoveBlock(f)
  PROVE  /\ BlockStep(f) /\ f \in dirty'
         /\ din'[f].blocks = din[f].blocks - 1
         /\ \A i \in Index : i # din[f].blocks - 1 => BlockAt(f, i)' = BlockAt(f, i)
<1>. DEFINE d == din[f]
            e == entries[f]
            d2 == din'[f]
            e2 == entries'[f]
            m == din[f].blocks - 1
<1>1. /\ d \in Inode /\ e \in IndexBlock /\ d.direct \in [Direct -> Pointer]
      /\ d.indirect \in Pointer /\ din \in [File -> Inode] /\ entries \in [File -> IndexBlock]
      /\ FileRefs(f) \subseteq Block
  BY FileTypes DEF SfsTypeOK, IndexBlock
<1>2. PICK n : n = m
  OBVIOUS
<1>3. n \in Index /\ d.blocks = n + 1 /\ n \in Nat
      /\ n \in 0..SFS_NDIRECT + SFS_BLK_NENTRY
  <2>1. d.blocks \in 0..SFS_NDIRECT + SFS_BLK_NENTRY
    BY <1>1 DEF Inode
  <2>. QED  BY <1>2, <2>1, Constants DEF Index
<1>4. /\ din' = [din EXCEPT ![f].blocks = n,
                            ![f].direct = [j \in Direct |-> IF j = n THEN 0 ELSE @[j]]]
      /\ entries' = [entries EXCEPT ![f] = [j \in Entry |->
                       IF j + SFS_NDIRECT = n /\ d.indirect # 0 THEN 0 ELSE @[j]]]
      /\ dirty' = dirty \cup {f}
      /\ IF BlockAt(f, n) = 0 THEN UNCHANGED <<freemap, unused_blocks, super_dirty>>
         ELSE Give(BlockAt(f, n))
  BY <1>2 DEF RemoveBlock
<1>5. [j \in Direct |-> IF j = n THEN 0 ELSE d.direct[j]] \in [Direct -> Pointer]
  BY <1>1 DEF Pointer
<1>6. d2 \in Inode
  BY <1>1, <1>3, <1>4, <1>5 DEF Inode
<1>7. /\ din' \in [File -> Inode]
      /\ \A g \in File : g # f => din'[g] = din[g]
      /\ d2.size = d.size /\ d2.blocks = n /\ d2.indirect = d.indirect
      /\ d2.direct = [j \in Direct |-> IF j = n THEN 0 ELSE d.direct[j]]
  BY <1>1, <1>4, <1>6 DEF Inode
<1>8. e2 = [j \in Entry |-> IF j + SFS_NDIRECT = n /\ d.indirect # 0 THEN 0 ELSE e[j]]
  BY <1>1, <1>4
<1>9. e2 \in IndexBlock
  BY <1>1, <1>8 DEF IndexBlock, Pointer
<1>10. entries' \in [File -> IndexBlock] /\ \A g \in File : g # f => entries'[g] = entries[g]
  BY <1>1, <1>4, <1>9
<1>11. LastCleared(d, e, d2, e2, n)
  BY <1>7, <1>8 DEF LastCleared
<1>12. Once(d, e) /\ Mapped(d, e)
  BY DEF Owned
<1>13. /\ Ptr(d, e, n) \in Refs(d, e)
       /\ Refs(d2, e2) = Refs(d, e) \ {Ptr(d, e, n)}
       /\ Once(d2, e2) /\ Mapped(d2, e2)
       /\ \A i \in Index : i # n => Ptr(d2, e2, i) = Ptr(d, e, i)
  BY <1>1, <1>3, <1>6, <1>9, <1>11, <1>12, LastRemoved
<1>. HIDE DEF d, e, d2, e2
<1>14. PICK b : b = Ptr(d, e, n)
  OBVIOUS
<1>15. BlockAt(f, n) = b /\ b # 0 /\ b \notin freemap /\ b \in Block
       /\ FileRefs(f) = Refs(d, e) /\ FileRefs(f)' = Refs(d2, e2)
       /\ FileRefs(f) \cap freemap = {}
  <2>1. FileRefs(f) = Refs(d, e) /\ FileRefs(f)' = Refs(d2, e2)
    BY DEF FileRefs, d, e, d2, e2
  <2>2. BlockAt(f, n) = b
    BY <1>14, Pointers DEF d, e
  <2>3. b \in FileRefs(f)
    BY <1>13, <1>14, <2>1
  <2>4. FileRefs(f) \cap freemap = {}
    BY DEF Owned
  <2>. QED  BY <1>1, <2>1, <2>2, <2>3, <2>4, Constants
<1>16. /\ freemap' = freemap \cup {b} /\ super_dirty' = TRUE
       /\ unused_blocks' = Cardinality(freemap')
  BY <1>4, <1>15, Given
<1>17. Owned'
  <2>1. freemap' = (freemap \cup FileRefs(f)) \ FileRefs(f)'
    BY <1>13, <1>14, <1>15, <1>16
  <2>2. FileRefs(f)' \subseteq FileRefs(f) \cup freemap
    BY <1>13, <1>15
  <2>3. Once(din'[f], entries'[f]) /\ Mapped(din'[f], entries'[f])
    BY <1>13 DEF d2, e2
  <2>. QED  BY <1>1, <1>7, <1>10, <1>16, <2>1, <2>2, <2>3, OwnedMoves
<1>18. freemap' \subseteq Block
  BY <1>15, <1>16 DEF SfsTypeOK
<1>19. BlockStep(f)
  BY <1>4, <1>7, <1>10, <1>16, <1>17, <1>18 DEF BlockStep, d, d2
<1>20. \A i \in Index : i # din[f].blocks - 1 => BlockAt(f, i)' = BlockAt(f, i)
  BY <1>2, <1>13 DEF BlockAt, Ptr, d, e, d2, e2
<1>. QED  BY <1>2, <1>4, <1>7, <1>19, <1>20 DEF d2

-----------------------------------------------------------------------------
(* What the steps have in common.                                          *)

\* SfsIInv, with the ownership file by file.
AllOK == SfsTypeOK /\ Owned /\ DiskOK /\ CallOK

\* What DataStaysPut says of a step, for one file.
KeptFile(f) ==
  /\ \A i \in Index :
       i < din[f].size \div SFS_BLKSIZE /\ i < din'[f].blocks
         => BlockAt(f, i)' = BlockAt(f, i)
  /\ din'[f].size < din[f].size => call = [op |-> "truncate", file |-> f, len |-> 0]

StaysPut == \A f \in File : KeptFile(f)

LEMMA KeptWhenSame ==
  ASSUME SfsTypeOK, NEW f \in File, din'[f] = din[f], entries'[f] = entries[f]
  PROVE  KeptFile(f)
<1>1. din[f].size \in Nat
  BY FileTypes, Constants DEF Size
<1>2. \A i : BlockAt(f, i)' = BlockAt(f, i)
  BY DEF BlockAt
<1>. QED  BY <1>1, <1>2 DEF KeptFile

LEMMA CallShape ==
  ASSUME call \in Calls
  PROVE  /\ NoCall.op = "none" /\ NoCall \in Calls
         /\ \A f : NoCall # Emptying(f)
         /\ call.op \in {"read", "write"}
              => /\ call.file \in File /\ call.pos \in Size /\ call.end \in Size
                 /\ \A f : call # Emptying(f)
         /\ call.op = "truncate"
              => /\ call.file \in File /\ call.len \in Size
                 /\ \A f : call = Emptying(f) <=> call.file = f /\ call.len = 0
<1>1. NoCall.op = "none" /\ NoCall \in Calls
  BY DEF NoCall, Calls
<1>2. \A f : Emptying(f).op = "truncate" /\ Emptying(f).file = f /\ Emptying(f).len = 0
  BY DEF Emptying
<1>3. ASSUME call.op \in {"read", "write"}
      PROVE  /\ call.file \in File /\ call.pos \in Size /\ call.end \in Size
             /\ \A f : call # Emptying(f)
  <2>1. call \in [op : {"read", "write"}, file : File, pos : Size, end : Size]
    BY <1>1, <1>3 DEF Calls
  <2>. QED  BY <1>2, <1>3, <2>1
<1>4. ASSUME call.op = "truncate"
      PROVE  /\ call.file \in File /\ call.len \in Size
             /\ \A f : call = Emptying(f) <=> call.file = f /\ call.len = 0
  <2>1. call \in [op : {"truncate"}, file : File, len : Size]
    BY <1>1, <1>4 DEF Calls
  <2>2. call = [op |-> call.op, file |-> call.file, len |-> call.len]
    BY <2>1
  <2>. QED  BY <1>2, <1>4, <2>1, <2>2 DEF Emptying
<1>. QED  BY <1>1, <1>2, <1>3, <1>4

\* Sizes are numbers, and so is what is computed from them.
LEMMA Quotients ==
  ASSUME SfsTypeOK, NEW f \in File
  PROVE  /\ din[f].size \in Nat /\ din[f].blocks \in Nat
         /\ din[f].size \div SFS_BLKSIZE \in Nat
         /\ disk[f] \in Inode /\ disk[f].size \in Size /\ disk[f].size \in Nat
         /\ disk[f].blocks \in Nat
<1>1. din[f] \in Inode /\ disk[f] \in Inode
  BY DEF SfsTypeOK
<1>2. /\ din[f].size \in Nat /\ din[f].blocks \in Nat
      /\ disk[f].size \in Size /\ disk[f].size \in Nat /\ disk[f].blocks \in Nat
  BY <1>1, Constants DEF Inode, Size
<1>3. din[f].size \div SFS_BLKSIZE \in Nat
  BY <1>2, Constants
<1>. QED  BY <1>1, <1>2, <1>3

\* SfsTypeOK' and DiskOK' after a step of the block management.
LEMMA BlockStepTypes ==
  ASSUME SfsTypeOK, NEW f \in File, BlockStep(f),
         UNCHANGED <<diskVars, reach, phase>>, call' \in Calls
  PROVE  SfsTypeOK'
<1>1. unused_blocks' \in 0..Cardinality(Block)
  <2>1. freemap' \subseteq Block /\ unused_blocks' = Cardinality(freemap')
    BY DEF BlockStep, Owned
  <2>2. IsFiniteSet(Block)
    BY Constants
  <2>3. /\ IsFiniteSet(freemap') /\ Cardinality(freemap') <= Cardinality(Block)
    BY <2>1, <2>2, FS_Subset
  <2>4. Cardinality(freemap') \in Nat /\ Cardinality(Block) \in Nat
    BY <2>2, <2>3, FS_CardinalityType
  <2>. QED  BY <2>1, <2>3, <2>4
<1>2. dirty' \subseteq File
  BY DEF BlockStep, SfsTypeOK
<1>3. /\ freemap' \subseteq Block /\ super_dirty' \in BOOLEAN
      /\ din' \in [File -> Inode] /\ entries' \in [File -> [Entry -> Pointer]]
  BY DEF BlockStep, IndexBlock
<1>. QED  BY <1>1, <1>2, <1>3 DEF SfsTypeOK, diskVars

LEMMA BlockStepDisk ==
  ASSUME SfsTypeOK, DiskOK, phase = "up", NEW f \in File, BlockStep(f),
         UNCHANGED <<diskVars, phase>>
  PROVE  DiskOK'
<1>1. ASSUME NEW g \in File, g \notin dirty'  PROVE SameOnDisk(g)'
  <2>1. g \notin dirty /\ SameOnDisk(g) /\ disk'[g] = disk[g]
    BY <1>1 DEF BlockStep, DiskOK, diskVars
  <2>2. CASE g # f
    <3>1. din'[g] = din[g]
      BY <2>2 DEF BlockStep
    <3>. QED  BY <2>1, <3>1 DEF SameOnDisk
  <2>3. CASE g = f
    <3>1. /\ din'[f].size = din[f].size
          /\ din'[f].direct = din[f].direct /\ din'[f].indirect = din[f].indirect
          /\ din'[f].blocks >= din[f].blocks
          /\ din'[f].blocks = din[f].blocks \/ din[f].blocks >= SFS_NDIRECT
          /\ din'[f] \in Inode
      BY <1>1, <2>3 DEF BlockStep
    <3>2. din'[f].blocks \in Nat /\ din[f].blocks \in Nat /\ disk[f].blocks \in Nat
      BY <3>1, Quotients, Constants DEF Inode
    <3>3. /\ disk[f].blocks <= din'[f].blocks
          /\ disk[f].blocks = din'[f].blocks \/ disk[f].blocks >= SFS_NDIRECT
      BY <2>1, <2>3, <3>1, <3>2, Constants DEF SameOnDisk
    <3>. QED  BY <2>1, <2>3, <3>1, <3>3 DEF SameOnDisk
  <2>. QED  BY <2>2, <2>3
<1>2. ~super_dirty' => d_freemap' = freemap' /\ d_unused' = unused_blocks'
  BY DEF BlockStep, DiskOK, diskVars
<1>3. phase' # "down"
  OBVIOUS
<1>. QED  BY <1>1, <1>2, <1>3 DEF DiskOK

\* The pointers stay, and so do the owners.
LEMMA SameOwned ==
  ASSUME Owned, UNCHANGED <<freemap, unused_blocks, entries>>,
         \A f \in File : din'[f].direct = din[f].direct /\ din'[f].indirect = din[f].indirect,
         \A f \in File : Mapped(din'[f], entries[f])
  PROVE  Owned' /\ \A f \in File : \A i : BlockAt(f, i)' = BlockAt(f, i)
<1>1. ASSUME NEW f \in File
      PROVE  \A i : Ptr(din'[f], entries[f], i) = Ptr(din[f], entries[f], i)
  BY DEF Ptr
<1>2. ASSUME NEW f \in File
      PROVE  FileRefs(f)' = FileRefs(f) /\ Once(din'[f], entries[f])
  BY <1>1 DEF FileRefs, Refs, Once, Owned
<1>3. \A f \in File : \A i : BlockAt(f, i)' = BlockAt(f, i)
  BY DEF BlockAt
<1>. QED  BY <1>2, <1>3 DEF Owned

\* When nothing of the file system in memory or on disk changes.
LEMMA FrameSame ==
  ASSUME AllOK, UNCHANGED <<memVars, diskVars, reach>>, call' \in Calls,
         phase' \in {"up", "panic"}, CallOK'
  PROVE  AllOK' /\ StaysPut
<1>1. SfsTypeOK'
  BY DEF AllOK, SfsTypeOK, memVars, diskVars
<1>2. Owned'
  BY DEF AllOK, Owned, FileRefs, memVars
<1>3. DiskOK'
  BY DEF AllOK, DiskOK, SameOnDisk, memVars, diskVars
<1>4. StaysPut
  BY KeptWhenSame DEF AllOK, StaysPut, memVars
<1>. QED  BY <1>1, <1>2, <1>3, <1>4 DEF AllOK

\* When a call ends that does not empty a file.
LEMMA NoCallOK ==
  ASSUME SfsTypeOK, CallOK, din' = din, call' = NoCall, \A f \in File : call # Emptying(f)
  PROVE  CallOK'
<1>1. NoCall.op = "none" /\ \A f : NoCall # Emptying(f)
  BY CallShape DEF SfsTypeOK
<1>. QED  BY <1>1 DEF CallOK

-----------------------------------------------------------------------------
(* Reads and writes.                                                       *)

LEMMA StartIOStep ==
  ASSUME AllOK, NEW f \in File, NEW op \in {"read", "write"}, StartIO(op, f)
  PROVE  AllOK' /\ StaysPut
<1>1. PICK offset \in 0..reach[f], len \in 1..MaxLen,
           limit \in {din[f].size, SFS_MAX_FILE_SIZE} :
        /\ offset < limit
        /\ call' = [op |-> op, file |-> f, pos |-> offset, end |-> Lesser(offset + len, limit)]
  BY DEF StartIO
<1>2. SfsTypeOK /\ CallOK /\ phase = "up" /\ call = NoCall
      /\ UNCHANGED <<memVars, diskVars, reach, phase>>
  BY DEF AllOK, StartIO, Idle
<1>3. PICK end : end = Lesser(offset + len, limit)
  OBVIOUS
<1>4. offset \in Size /\ end \in Size /\ offset < end
  <2>1. reach[f] \in Size /\ din[f].size \in Size
    BY <1>2, FileTypes DEF SfsTypeOK
  <2>2. limit \in Size /\ offset \in Size /\ offset \in Nat /\ limit \in Nat /\ len \in Nat
        /\ len >= 1
    BY <2>1, Constants DEF Size
  <2>. QED  BY <1>1, <1>3, <2>2, Constants DEF Lesser, Size
<1>5. call' \in Calls
  BY <1>1, <1>3, <1>4 DEF Calls
<1>6. CallOK'
  <2>1. call' = [op |-> op, file |-> f, pos |-> offset, end |-> end]
    BY <1>1, <1>3
  <2>2. call'.op = op /\ call'.pos = offset /\ call'.end = end
    BY <2>1
  <2>3. ~(call'.end <= call'.pos)
    BY <1>4, <2>2, Constants DEF Size
  <2>4. \A g \in File : din[g].size \div SFS_BLKSIZE <= din[g].blocks
    BY <1>2, CallShape DEF CallOK, SfsTypeOK
  <2>5. din' = din /\ phase' = "up"
    BY <1>2 DEF memVars
  <2>. QED  BY <2>2, <2>3, <2>4, <2>5 DEF CallOK
<1>. QED  BY <1>2, <1>5, <1>6, FrameSame

LEMMA NextPosition ==
  ASSUME SfsTypeOK, call.op \in {"read", "write"}
  PROVE  /\ BlockNo \in Nat /\ NextPos \in Size /\ NextPos \div SFS_BLKSIZE <= BlockNo + 1
         /\ call.pos \div SFS_BLKSIZE = BlockNo
<1>1. call.pos \in Size /\ call.end \in Size
  BY CallShape DEF SfsTypeOK
<1>2. call.pos \in Nat /\ call.end \in Nat /\ SFS_BLKSIZE \in Nat \ {0}
  BY <1>1, Constants DEF Size
<1>3. BlockNo \in Nat
  BY <1>2 DEF BlockNo
<1>. PICK q : q = BlockNo
  OBVIOUS
<1>. PICK k : k = q + 1
  OBVIOUS
<1>. PICK m : m = k * SFS_BLKSIZE
  OBVIOUS
<1>4. q \in Nat /\ k \in Nat /\ m \in Nat
  BY <1>2, <1>3
<1>5. NextPos = Lesser(call.end, m)
  BY DEF NextPos, BlockNo
<1>6. NextPos \in Nat /\ NextPos <= m /\ NextPos <= call.end
  BY <1>2, <1>4, <1>5 DEF Lesser
<1>7. NextPos \in Size
  BY <1>1, <1>6, Constants DEF Size
<1>8. NextPos \div SFS_BLKSIZE <= k
  BY <1>2, <1>4, <1>6, BlocksNeeded
<1>. QED  BY <1>3, <1>7, <1>8 DEF BlockNo

\* A call that only moves on or ends early stays a call on the same file.
LEMMA CallMoved ==
  ASSUME SfsTypeOK, call.op \in {"read", "write"}, NEW x \in Size,
         call' \in {[call EXCEPT !.pos = x], [call EXCEPT !.end = x]}
  PROVE  /\ call' \in Calls /\ call'.op = call.op /\ call'.file = call.file
         /\ call' = [call EXCEPT !.pos = x] => call'.pos = x
         /\ call' = [call EXCEPT !.end = x] => call'.pos = call.pos
         /\ \A f : call' # Emptying(f)
<1>1. call \in [op : {"read", "write"}, file : File, pos : Size, end : Size]
  BY DEF SfsTypeOK, Calls, NoCall
<1>2. call' \in [op : {"read", "write"}, file : File, pos : Size, end : Size]
  BY <1>1
<1>3. call' \in Calls /\ \A f : call' # Emptying(f)
  BY <1>2 DEF Calls, Emptying
<1>. QED  BY <1>1, <1>3

LEMMA IOBlockStep ==
  ASSUME AllOK, NEW f \in File, IOBlock(f)
  PROVE  AllOK' /\ StaysPut
<1>1. SfsTypeOK /\ CallOK /\ phase = "up" /\ call.op \in {"read", "write"} /\ call.file = f
      /\ UNCHANGED <<memVars, diskVars, reach, phase>>
  BY DEF AllOK, IOBlock, InIO, During
<1>2. BlockNo < din[f].blocks /\ call' = [call EXCEPT !.pos = NextPos]
  BY DEF IOBlock
<1>. PICK x : x = NextPos
  OBVIOUS
<1>3. x \in Size /\ x \div SFS_BLKSIZE <= BlockNo + 1 /\ BlockNo \in Nat
  BY <1>1, NextPosition
<1>4. call' \in Calls /\ call'.op = call.op /\ call'.file = f /\ call'.pos = x
      /\ \A g : call' # Emptying(g)
  BY <1>1, <1>2, <1>3, CallMoved
<1>5. CallOK'
  <2>1. x \div SFS_BLKSIZE <= din[f].blocks
    BY <1>1, <1>2, <1>3, Quotients, Constants DEF Size
  <2>2. \A g : call # Emptying(g)
    BY <1>1, CallShape DEF SfsTypeOK
  <2>3. din' = din /\ phase' = "up"
    BY <1>1 DEF memVars
  <2>. QED  BY <1>1, <1>4, <2>1, <2>2, <2>3 DEF CallOK
<1>. QED  BY <1>1, <1>4, <1>5, FrameSame

LEMMA IOAddBlockStep ==
  ASSUME AllOK, NEW f \in File, IOAddBlock(f)
  PROVE  AllOK' /\ StaysPut
<1>1. SfsTypeOK /\ Owned /\ DiskOK /\ CallOK /\ phase = "up" /\ call.op \in {"read", "write"}
      /\ call.file = f /\ UNCHANGED <<diskVars, reach, phase>>
  BY DEF AllOK, IOAddBlock, InIO, During
<1>2. BlockNo = din[f].blocks /\ din[f].blocks \in Index /\ AddBlock(f)
      /\ call' = [call EXCEPT !.pos = NextPos]
  BY DEF IOAddBlock
<1>. PICK x : x = NextPos
  OBVIOUS
<1>3. x \in Size /\ x \div SFS_BLKSIZE <= BlockNo + 1 /\ BlockNo \in Nat
  BY <1>1, NextPosition
<1>4. call' \in Calls /\ call'.op = call.op /\ call'.file = f /\ call'.pos = x
      /\ \A g : call' # Emptying(g)
  BY <1>1, <1>2, <1>3, CallMoved
<1>5. /\ BlockStep(f) /\ din'[f].blocks = din[f].blocks + 1
      /\ \A i \in Index : i # din[f].blocks => BlockAt(f, i)' = BlockAt(f, i)
  BY <1>1, <1>2, BlocksAdded
<1>6. SfsTypeOK' /\ Owned' /\ DiskOK'
  BY <1>1, <1>4, <1>5, BlockStepTypes, BlockStepDisk DEF BlockStep
<1>7. \A g : call # Emptying(g)
  BY <1>1, CallShape DEF SfsTypeOK
<1>8. /\ din'[f].size = din[f].size
      /\ \A g \in File : g # f => din'[g] = din[g] /\ entries'[g] = entries[g]
  BY <1>5 DEF BlockStep
<1>9. \A g \in File : din[g].size \div SFS_BLKSIZE <= din[g].blocks
  BY <1>1, <1>7 DEF CallOK
<1>10. CallOK'
  <2>1. x \div SFS_BLKSIZE <= din'[f].blocks
    BY <1>2, <1>3, <1>5
  <2>2. din'[f].size \div SFS_BLKSIZE <= din'[f].blocks
    <3>1. din[f].size \div SFS_BLKSIZE \in Nat /\ din[f].blocks \in Nat
      BY <1>1, Quotients
    <3>. QED  BY <1>5, <1>8, <1>9, <3>1
  <2>3. \A g \in File : din'[g].size \div SFS_BLKSIZE <= din'[g].blocks
    BY <1>8, <1>9, <2>2
  <2>. QED  BY <1>1, <1>4, <2>1, <2>3 DEF CallOK
<1>11. StaysPut
  <2>1. ASSUME NEW g \in File, g # f  PROVE KeptFile(g)
    BY <1>1, <1>8, <2>1, KeptWhenSame
  <2>2. KeptFile(f)
    <3>1. din[f].size \in Nat /\ din[f].size \div SFS_BLKSIZE \in Nat /\ din[f].blocks \in Nat
      BY <1>1, Quotients
    <3>2. \A i \in Index : i \in Nat
      BY Constants DEF Index
    <3>3. \A i \in Index : i < din[f].size \div SFS_BLKSIZE => i # din[f].blocks
      BY <1>9, <3>1, <3>2
    <3>. QED  BY <1>5, <1>8, <3>1, <3>3 DEF KeptFile
  <2>. QED  BY <2>1, <2>2 DEF StaysPut
<1>. QED  BY <1>6, <1>10, <1>11 DEF AllOK

LEMMA IODiskFullStep ==
  ASSUME AllOK, NEW f \in File, IODiskFull(f)
  PROVE  AllOK' /\ StaysPut
<1>1. SfsTypeOK /\ Owned /\ DiskOK /\ CallOK /\ phase = "up" /\ call.op \in {"read", "write"}
      /\ call.file = f /\ UNCHANGED <<diskVars, reach, phase>>
  BY DEF AllOK, IODiskFull, InIO, During
<1>2. BlockNo = din[f].blocks /\ DiskFull(f) /\ call' = [call EXCEPT !.end = call.pos]
  BY DEF IODiskFull
<1>. PICK x : x = call.pos
  OBVIOUS
<1>3. x \in Size /\ x \div SFS_BLKSIZE = BlockNo
  BY <1>1, CallShape DEF SfsTypeOK, BlockNo
<1>4. call' \in Calls /\ call'.op = call.op /\ call'.file = f /\ call'.pos = x
      /\ \A g : call' # Emptying(g)
  BY <1>1, <1>2, <1>3, CallMoved
<1>5. BlockStep(f) /\ din' = din
  BY <1>1, <1>2, DiskFullStep
<1>6. SfsTypeOK' /\ Owned' /\ DiskOK'
  BY <1>1, <1>4, <1>5, BlockStepTypes, BlockStepDisk DEF BlockStep
<1>7. \A g : call # Emptying(g)
  BY <1>1, CallShape DEF SfsTypeOK
<1>8. CallOK'
  <2>1. x \div SFS_BLKSIZE <= din[f].blocks
    BY <1>1, <1>2, <1>3, Quotients
  <2>. QED  BY <1>1, <1>4, <1>5, <1>7, <2>1 DEF CallOK
<1>9. entries' = entries
  BY <1>2 DEF DiskFull
<1>10. StaysPut
  BY <1>1, <1>5, <1>9, KeptWhenSame DEF StaysPut
<1>. QED  BY <1>6, <1>8, <1>10 DEF AllOK

LEMMA PanicStep ==
  ASSUME AllOK, Panic, \A f \in File : call # Emptying(f)
  PROVE  AllOK' /\ StaysPut
<1>1. /\ phase' = "panic" /\ call' = NoCall /\ UNCHANGED <<memVars, diskVars, reach>>
  BY DEF Panic
<1>2. SfsTypeOK /\ CallOK /\ NoCall \in Calls /\ din' = din
  BY <1>1, CallShape DEF AllOK, SfsTypeOK, memVars
<1>3. CallOK'
  BY <1>1, <1>2, NoCallOK
<1>. QED  BY <1>1, <1>2, <1>3, FrameSame

LEMMA IOPanicStep ==
  ASSUME AllOK, NEW f \in File, IOPanic(f)
  PROVE  AllOK' /\ StaysPut
<1>1. Panic /\ call.op \in {"read", "write"}
  BY DEF IOPanic, InIO, During
<1>2. \A g : call # Emptying(g)
  BY <1>1, CallShape DEF AllOK, SfsTypeOK
<1>. QED  BY <1>1, <1>2, PanicStep

\* When the size of f is all that changes of the files.
LEMMA SizeSet ==
  ASSUME SfsTypeOK, Owned, DiskOK, phase = "up", NEW f \in File, NEW s \in Size,
         din' = [din EXCEPT ![f].size = s], dirty' = dirty \cup {f},
         reach' = [reach EXCEPT ![f] = Greater(@, s)], call' = NoCall,
         UNCHANGED <<freemap, unused_blocks, super_dirty, entries, diskVars, phase>>
  PROVE  /\ SfsTypeOK' /\ Owned' /\ DiskOK'
         /\ \A g \in File : g # f => din'[g] = din[g]
         /\ din'[f].size = s /\ din'[f].blocks = din[f].blocks
         /\ \A g \in File : \A i : BlockAt(g, i)' = BlockAt(g, i)
<1>1. din \in [File -> Inode] /\ din[f] \in Inode /\ reach \in [File -> Size]
  BY DEF SfsTypeOK
<1>2. din'[f] \in Inode
  BY <1>1 DEF Inode
<1>3. /\ din' \in [File -> Inode] /\ \A g \in File : g # f => din'[g] = din[g]
      /\ din'[f].size = s /\ din'[f].blocks = din[f].blocks
      /\ din'[f].direct = din[f].direct /\ din'[f].indirect = din[f].indirect
  BY <1>1, <1>2 DEF Inode
<1>4. reach' \in [File -> Size]
  <2>1. Greater(reach[f], s) \in Size
    BY <1>1 DEF Greater
  <2>. QED  BY <1>1, <2>1
<1>5. NoCall \in Calls
  BY CallShape DEF SfsTypeOK
<1>6. SfsTypeOK'
  BY <1>3, <1>4, <1>5 DEF SfsTypeOK, diskVars
<1>7. \A g \in File : din'[g].direct = din[g].direct /\ din'[g].indirect = din[g].indirect
                      /\ din'[g].blocks = din[g].blocks
  BY <1>3
<1>8. \A g \in File : Mapped(din'[g], entries[g])
  BY <1>7 DEF Owned, Mapped, Ptr
<1>9. Owned' /\ \A g \in File : \A i : BlockAt(g, i)' = BlockAt(g, i)
  BY <1>7, <1>8, SameOwned
<1>10. DiskOK'
  <2>1. ASSUME NEW g \in File, g \notin dirty'  PROVE SameOnDisk(g)'
    <3>1. g # f /\ SameOnDisk(g) /\ din'[g] = din[g] /\ disk'[g] = disk[g]
      BY <1>3, <2>1 DEF DiskOK, diskVars
    <3>. QED  BY <3>1 DEF SameOnDisk
  <2>. QED  BY <2>1 DEF DiskOK, diskVars
<1>. QED  BY <1>3, <1>6, <1>9, <1>10

LEMMA FinishIOStep ==
  ASSUME AllOK, NEW f \in File, FinishIO(f)
  PROVE  AllOK' /\ StaysPut
<1>1. SfsTypeOK /\ Owned /\ DiskOK /\ CallOK /\ phase = "up" /\ call.op \in {"read", "write"}
      /\ call.file = f /\ ~Unfinished /\ call' = NoCall
      /\ UNCHANGED <<freemap, unused_blocks, super_dirty, entries, diskVars, phase>>
  BY DEF AllOK, FinishIO, InIO, During
<1>. PICK x : x = call.pos
  OBVIOUS
<1>2. x \in Size /\ x \in Nat /\ call.end \in Nat /\ \A g : call # Emptying(g)
      /\ din[f].size \in Nat /\ din[f].size \in Size
  BY <1>1, CallShape, FileTypes, Constants DEF SfsTypeOK, Size
<1>3. x \div SFS_BLKSIZE <= din[f].blocks
  <2>1. call.end <= call.pos
    BY <1>1, <1>2 DEF Unfinished
  <2>. QED  BY <1>1, <2>1 DEF CallOK
<1>4. \A g \in File : din[g].size \div SFS_BLKSIZE <= din[g].blocks
  BY <1>1, <1>2 DEF CallOK
<1>5. NoCall.op = "none" /\ \A g : NoCall # Emptying(g)
  BY <1>1, CallShape DEF SfsTypeOK
<1>6. CASE x > din[f].size
  <2>1. din' = [din EXCEPT ![f].size = x] /\ dirty' = dirty \cup {f}
        /\ reach' = [reach EXCEPT ![f] = Greater(@, din'[f].size)]
    BY <1>6 DEF FinishIO
  <2>2. din'[f].size = x
    BY <1>1, <2>1 DEF SfsTypeOK, Inode
  <2>3. /\ SfsTypeOK' /\ Owned' /\ DiskOK'
        /\ \A g \in File : g # f => din'[g] = din[g]
        /\ din'[f].size = x /\ din'[f].blocks = din[f].blocks
        /\ \A g \in File : \A i : BlockAt(g, i)' = BlockAt(g, i)
    BY <1>1, <1>2, <2>1, <2>2, SizeSet
  <2>4. CallOK'
    BY <1>1, <1>3, <1>4, <1>5, <2>3 DEF CallOK
  <2>5. StaysPut
    <3>1. ASSUME NEW g \in File, g # f  PROVE KeptFile(g)
      BY <1>1, <2>3, <3>1, KeptWhenSame
    <3>2. KeptFile(f)
      BY <1>2, <1>6, <2>3 DEF KeptFile
    <3>. QED  BY <3>1, <3>2 DEF StaysPut
  <2>. QED  BY <2>3, <2>4, <2>5 DEF AllOK
<1>7. CASE ~(x > din[f].size)
  <2>1. din' = din /\ dirty' = dirty
        /\ reach' = [reach EXCEPT ![f] = Greater(@, din'[f].size)]
    BY <1>7 DEF FinishIO
  <2>2. reach' \in [File -> Size]
    <3>1. Greater(reach[f], din'[f].size) \in Size
      BY <1>1, <1>2, <2>1 DEF Greater, SfsTypeOK
    <3>. QED  BY <1>1, <2>1, <3>1 DEF SfsTypeOK
  <2>3. SfsTypeOK'
    BY <1>1, <2>1, <2>2, CallShape DEF SfsTypeOK, diskVars
  <2>4. Owned' /\ DiskOK'
    BY <1>1, <2>1 DEF Owned, FileRefs, DiskOK, SameOnDisk, diskVars
  <2>5. CallOK'
    BY <1>1, <1>2, <2>1, NoCallOK
  <2>6. StaysPut
    BY <1>1, <2>1, KeptWhenSame DEF StaysPut
  <2>. QED  BY <2>3, <2>4, <2>5, <2>6 DEF AllOK
<1>. QED  BY <1>6, <1>7

-----------------------------------------------------------------------------
(* Truncation and growth.                                                  *)

LEMMA StartTruncateStep ==
  ASSUME AllOK, NEW f \in File, StartTruncate(f)
  PROVE  AllOK' /\ StaysPut
<1>1. SfsTypeOK /\ CallOK /\ phase = "up" /\ call = NoCall
      /\ UNCHANGED <<memVars, diskVars, reach, phase>>
  BY DEF AllOK, StartTruncate, Idle
<1>2. PICK len \in {0} \cup din[f].size + 1..SFS_MAX_FILE_SIZE - 1 :
        call' = [op |-> "truncate", file |-> f, len |-> len]
  BY DEF StartTruncate
<1>3. len \in Size /\ (len = 0 \/ len > din[f].size)
  BY <1>1, Quotients, Constants DEF Size
<1>4. call' \in Calls /\ call'.op = "truncate" /\ call'.len = len /\ call'.file = f
  BY <1>2, <1>3 DEF Calls
<1>5. CallOK'
  <2>1. \A g \in File : din[g].size \div SFS_BLKSIZE <= din[g].blocks
    BY <1>1, CallShape DEF CallOK, SfsTypeOK
  <2>2. din' = din /\ phase' = "up"
    BY <1>1 DEF memVars
  <2>. QED  BY <1>3, <1>4, <2>1, <2>2 DEF CallOK
<1>. QED  BY <1>1, <1>4, <1>5, FrameSame

LEMMA Products ==
  ASSUME NEW x \in Nat, NEW y \in Nat
  PROVE  x * y \in Nat /\ x * y = y * x
  OBVIOUS

\* Nothing for an empty file, and enough for any other.
LEMMA Target ==
  ASSUME SfsTypeOK, call.op = "truncate"
  PROVE  /\ call.len \in Nat /\ TargetBlocks \in Nat
         /\ call.len = 0 => TargetBlocks = 0
         /\ \A n \in Nat : n <= call.len => n \div SFS_BLKSIZE <= TargetBlocks
<1>. PICK b : b = SFS_BLKSIZE
  OBVIOUS
<1>. PICK a : a = call.len
  OBVIOUS
<1>1. b \in Nat \ {0} /\ a \in Nat
  BY CallShape, Constants DEF SfsTypeOK, Size
<1>. PICK c : c = a + b - 1
  OBVIOUS
<1>. PICK t, r : t = c \div b /\ r = c % b
  OBVIOUS
<1>2. c \in Nat /\ t \in Nat /\ r \in 0..b - 1 /\ c = b * t + r
  BY <1>1
<1>3. TargetBlocks = t
  BY DEF TargetBlocks
<1>4. a <= t * b
  <2>1. a + b - 1 <= b * t + b - 1
    BY <1>1, <1>2
  <2>2. b * t \in Nat /\ b * t = t * b
    BY <1>1, <1>2, Products
  <2>. QED  BY <1>1, <2>1, <2>2
<1>5. \A n \in Nat : n <= a => n \div b <= t
  <2>1. SUFFICES ASSUME NEW n \in Nat, n <= a  PROVE n \div b <= t
    OBVIOUS
  <2>2. t * b \in Nat
    BY <1>1, <1>2, Products
  <2>3. n <= t * b
    BY <1>1, <1>4, <2>1, <2>2
  <2>. QED  BY <1>1, <1>2, <2>3, BlocksNeeded
<1>6. a = 0 => t = 0
  BY <1>1, <1>2
<1>. QED  BY <1>1, <1>2, <1>3, <1>5, <1>6

\* What a step of a truncation starts from.
LEMMA Truncating ==
  ASSUME AllOK, NEW f \in File, During("truncate", f)
  PROVE  /\ SfsTypeOK /\ Owned /\ DiskOK /\ CallOK /\ phase = "up"
         /\ call.op = "truncate" /\ call.file = f /\ call.len \in Size /\ call.len \in Nat
         /\ call.len = 0 \/ call.len > din[f].size
         /\ call.len # 0 => \A g : call # Emptying(g)
         /\ \A g : g # f => call # Emptying(g)
         /\ call.len = 0 => call = Emptying(f)
         /\ TargetBlocks \in Nat /\ (call.len = 0 => TargetBlocks = 0)
         /\ din[f].size \in Nat /\ din[f].blocks \in Nat
         /\ din[f].size \div SFS_BLKSIZE \in Nat
<1>1. SfsTypeOK /\ Owned /\ DiskOK /\ CallOK /\ phase = "up"
      /\ call.op = "truncate" /\ call.file = f
  BY DEF AllOK, During
<1>2. call.len = 0 \/ call.len > din[f].size
  BY <1>1 DEF CallOK
<1>3. /\ call.len \in Size /\ (call.len # 0 => \A g : call # Emptying(g))
      /\ \A g : g # f => call # Emptying(g)
      /\ call.len = 0 => call = Emptying(f)
  BY <1>1, CallShape DEF SfsTypeOK
<1>. QED  BY <1>1, <1>2, <1>3, Target, Quotients

LEMMA TruncateGrowStep ==
  ASSUME AllOK, NEW f \in File, TruncateGrow(f)
  PROVE  AllOK' /\ StaysPut
<1>1. /\ During("truncate", f) /\ din[f].blocks < TargetBlocks /\ din[f].blocks \in Index
      /\ AddBlock(f) /\ UNCHANGED <<diskVars, reach, call, phase>>
  BY DEF TruncateGrow, InTruncate
<1>2. /\ SfsTypeOK /\ Owned /\ DiskOK /\ CallOK /\ phase = "up" /\ call.op = "truncate"
      /\ call.file = f
      /\ call.len = 0 \/ call.len > din[f].size
      /\ TargetBlocks \in Nat /\ (call.len = 0 => TargetBlocks = 0)
      /\ din[f].blocks \in Nat /\ (call.len # 0 => \A g : call # Emptying(g))
      /\ din[f].size \in Nat /\ din[f].size \div SFS_BLKSIZE \in Nat
  BY <1>1, Truncating
<1>3. call.len # 0
  BY <1>1, <1>2
<1>4. \A g \in File : din[g].size \div SFS_BLKSIZE <= din[g].blocks
  BY <1>2, <1>3 DEF CallOK
<1>5. /\ BlockStep(f) /\ din'[f].blocks = din[f].blocks + 1
      /\ \A i \in Index : i # din[f].blocks => BlockAt(f, i)' = BlockAt(f, i)
  BY <1>1, <1>2, BlocksAdded
<1>6. SfsTypeOK' /\ Owned' /\ DiskOK'
  BY <1>1, <1>2, <1>5, BlockStepTypes, BlockStepDisk DEF BlockStep, SfsTypeOK
<1>7. /\ din'[f].size = din[f].size
      /\ \A g \in File : g # f => din'[g] = din[g] /\ entries'[g] = entries[g]
  BY <1>5 DEF BlockStep
<1>8. CallOK'
  <2>1. din'[f].size \div SFS_BLKSIZE <= din'[f].blocks
    BY <1>2, <1>4, <1>5, <1>7
  <2>2. \A g \in File : din'[g].size \div SFS_BLKSIZE <= din'[g].blocks
    BY <1>4, <1>7, <2>1
  <2>. QED  BY <1>1, <1>2, <1>7, <2>2 DEF CallOK
<1>9. StaysPut
  <2>1. ASSUME NEW g \in File, g # f  PROVE KeptFile(g)
    BY <1>2, <1>7, <2>1, KeptWhenSame
  <2>2. KeptFile(f)
    <3>1. \A i \in Index : i \in Nat
      BY Constants DEF Index
    <3>2. \A i \in Index : i < din[f].size \div SFS_BLKSIZE => i # din[f].blocks
      BY <1>2, <1>4, <3>1
    <3>. QED  BY <1>2, <1>5, <1>7, <3>2 DEF KeptFile
  <2>. QED  BY <2>1, <2>2 DEF StaysPut
<1>. QED  BY <1>6, <1>8, <1>9 DEF AllOK

LEMMA TruncateDiskFullStep ==
  ASSUME AllOK, NEW f \in File, TruncateDiskFull(f)
  PROVE  AllOK' /\ StaysPut
<1>1. /\ During("truncate", f) /\ din[f].blocks < TargetBlocks
      /\ DiskFull(f) /\ call' = NoCall /\ UNCHANGED <<diskVars, reach, phase>>
  BY DEF TruncateDiskFull, InTruncate
<1>2. /\ SfsTypeOK /\ Owned /\ DiskOK /\ CallOK /\ phase = "up"
      /\ TargetBlocks \in Nat /\ (call.len = 0 => TargetBlocks = 0)
      /\ din[f].blocks \in Nat /\ (call.len # 0 => \A g : call # Emptying(g))
  BY <1>1, Truncating
<1>3. call.len # 0
  BY <1>1, <1>2
<1>4. BlockStep(f) /\ din' = din /\ entries' = entries
  BY <1>1, <1>2, DiskFullStep DEF DiskFull
<1>5. call' \in Calls
  BY <1>1, <1>2, CallShape DEF SfsTypeOK
<1>6. SfsTypeOK' /\ Owned' /\ DiskOK'
  BY <1>1, <1>2, <1>4, <1>5, BlockStepTypes, BlockStepDisk DEF BlockStep
<1>7. CallOK'
  BY <1>1, <1>2, <1>3, <1>4, NoCallOK
<1>8. StaysPut
  BY <1>2, <1>4, KeptWhenSame DEF StaysPut
<1>. QED  BY <1>6, <1>7, <1>8 DEF AllOK

LEMMA TruncateShrinkStep ==
  ASSUME AllOK, NEW f \in File, TruncateShrink(f)
  PROVE  AllOK' /\ StaysPut
<1>1. /\ During("truncate", f) /\ din[f].blocks > TargetBlocks
      /\ RemoveBlock(f) /\ UNCHANGED <<diskVars, reach, call, phase>>
  BY DEF TruncateShrink, InTruncate
<1>2. /\ SfsTypeOK /\ Owned /\ DiskOK /\ CallOK /\ phase = "up" /\ call.op = "truncate"
      /\ call.file = f /\ call.len \in Nat
      /\ call.len = 0 \/ call.len > din[f].size
      /\ TargetBlocks \in Nat
      /\ din[f].blocks \in Nat /\ din[f].size \in Nat /\ din[f].size \div SFS_BLKSIZE \in Nat
      /\ \A g : g # f => call # Emptying(g)
      /\ call.len = 0 => call = Emptying(f)
  BY <1>1, Truncating
<1>3. /\ BlockStep(f) /\ din'[f].blocks = din[f].blocks - 1
      /\ \A i \in Index : i # din[f].blocks - 1 => BlockAt(f, i)' = BlockAt(f, i)
  BY <1>1, <1>2, BlockRemoved
<1>4. SfsTypeOK' /\ Owned' /\ DiskOK'
  BY <1>1, <1>2, <1>3, BlockStepTypes, BlockStepDisk DEF BlockStep, SfsTypeOK
<1>5. /\ din'[f].size = din[f].size
      /\ \A g \in File : g # f => din'[g] = din[g] /\ entries'[g] = entries[g]
  BY <1>3 DEF BlockStep
<1>6. CallOK'
  <2>1. ASSUME call.len # 0  PROVE din'[f].size \div SFS_BLKSIZE <= din'[f].blocks
    <3>1. din[f].size \div SFS_BLKSIZE <= TargetBlocks
      BY <1>2, <2>1, Target
    <3>. QED  BY <1>1, <1>2, <1>3, <1>5, <3>1
  <2>2. \A g \in File : call # Emptying(g) => din'[g].size \div SFS_BLKSIZE <= din'[g].blocks
    BY <1>2, <1>5, <2>1 DEF CallOK
  <2>. QED  BY <1>1, <1>2, <1>5, <2>2 DEF CallOK
<1>7. StaysPut
  <2>1. ASSUME NEW g \in File, g # f  PROVE KeptFile(g)
    BY <1>2, <1>5, <2>1, KeptWhenSame
  <2>2. KeptFile(f)
    <3>1. \A i \in Index : i \in Nat
      BY Constants DEF Index
    <3>2. \A i \in Index : i < din'[f].blocks => i # din[f].blocks - 1
      BY <1>2, <1>3, <3>1
    <3>. QED  BY <1>2, <1>3, <1>5, <3>2 DEF KeptFile
  <2>. QED  BY <2>1, <2>2 DEF StaysPut
<1>. QED  BY <1>4, <1>6, <1>7 DEF AllOK

LEMMA TruncatePanicStep ==
  ASSUME AllOK, NEW f \in File, TruncatePanic(f)
  PROVE  AllOK' /\ StaysPut
<1>1. During("truncate", f) /\ din[f].blocks < TargetBlocks /\ Panic
  BY DEF TruncatePanic, InTruncate
<1>2. \A g : call # Emptying(g)
  BY <1>1, Truncating
<1>. QED  BY <1>1, <1>2, PanicStep

LEMMA FinishTruncateStep ==
  ASSUME AllOK, NEW f \in File, FinishTruncate(f)
  PROVE  AllOK' /\ StaysPut
<1>1. /\ During("truncate", f) /\ din[f].blocks = TargetBlocks
      /\ din' = [din EXCEPT ![f].size = call.len] /\ dirty' = dirty \cup {f}
      /\ reach' = [reach EXCEPT ![f] = Greater(@, call.len)] /\ call' = NoCall
      /\ UNCHANGED <<freemap, unused_blocks, super_dirty, entries, diskVars, phase>>
  BY DEF FinishTruncate, InTruncate
<1>2. /\ SfsTypeOK /\ Owned /\ DiskOK /\ CallOK /\ phase = "up" /\ call.op = "truncate"
      /\ call.len \in Size /\ call.len \in Nat
      /\ call.len = 0 \/ call.len > din[f].size
      /\ din[f].size \in Nat
      /\ \A g : g # f => call # Emptying(g)
      /\ call.len = 0 => call = Emptying(f)
  BY <1>1, Truncating
<1>3. /\ SfsTypeOK' /\ Owned' /\ DiskOK'
      /\ \A g \in File : g # f => din'[g] = din[g]
      /\ din'[f].size = call.len /\ din'[f].blocks = din[f].blocks
      /\ \A g \in File : \A i : BlockAt(g, i)' = BlockAt(g, i)
  <2>. PICK s : s = call.len
    OBVIOUS
  <2>1. /\ s \in Size /\ din' = [din EXCEPT ![f].size = s]
        /\ reach' = [reach EXCEPT ![f] = Greater(@, s)]
    BY <1>1, <1>2
  <2>2. /\ SfsTypeOK' /\ Owned' /\ DiskOK'
        /\ \A g \in File : g # f => din'[g] = din[g]
        /\ din'[f].size = s /\ din'[f].blocks = din[f].blocks
        /\ \A g \in File : \A i : BlockAt(g, i)' = BlockAt(g, i)
    BY <1>1, <1>2, <2>1, SizeSet
  <2>. QED  BY <2>2
<1>4. CallOK'
  <2>1. din'[f].size \div SFS_BLKSIZE <= din'[f].blocks
    BY <1>1, <1>2, <1>3, Target
  <2>2. \A g \in File : din'[g].size \div SFS_BLKSIZE <= din'[g].blocks
    BY <1>2, <1>3, <2>1 DEF CallOK
  <2>3. NoCall.op = "none"
    BY <1>2, CallShape DEF SfsTypeOK
  <2>. QED  BY <1>1, <1>2, <2>2, <2>3 DEF CallOK
<1>5. StaysPut
  <2>1. ASSUME NEW g \in File, g # f  PROVE KeptFile(g)
    BY <1>1, <1>2, <1>3, <2>1, KeptWhenSame
  <2>2. KeptFile(f)
    <3>1. call.len < din[f].size => call = [op |-> "truncate", file |-> f, len |-> 0]
      BY <1>2 DEF Emptying
    <3>. QED  BY <1>3, <3>1 DEF KeptFile
  <2>. QED  BY <2>1, <2>2 DEF StaysPut
<1>. QED  BY <1>3, <1>4, <1>5 DEF AllOK

LEMMA TruncateNothingStep ==
  ASSUME AllOK, NEW f \in File, TruncateNothing(f)
  PROVE  AllOK' /\ StaysPut
<1>1. /\ During("truncate", f) /\ din[f].size = call.len
      /\ call' = NoCall /\ UNCHANGED <<memVars, diskVars, reach>>
      /\ phase' \in {phase, "panic"}
  BY DEF TruncateNothing, Panic
<1>2. /\ SfsTypeOK /\ CallOK /\ phase = "up"
      /\ call.len \in Nat /\ (call.len = 0 \/ call.len > din[f].size)
      /\ din[f].blocks \in Nat
      /\ \A g : g # f => call # Emptying(g)
  BY <1>1, Truncating
<1>3. NoCall.op = "none" /\ NoCall \in Calls
  BY <1>2, CallShape DEF SfsTypeOK
<1>4. CallOK'
  <2>1. din[f].size = 0
    BY <1>1, <1>2
  <2>2. din[f].size \div SFS_BLKSIZE <= din[f].blocks
    BY <1>2, <2>1, Constants
  <2>3. \A g \in File : din[g].size \div SFS_BLKSIZE <= din[g].blocks
    BY <1>2, <2>2 DEF CallOK
  <2>4. din' = din
    BY <1>1 DEF memVars
  <2>. QED  BY <1>1, <1>3, <2>3, <2>4 DEF CallOK
<1>. QED  BY <1>1, <1>2, <1>3, <1>4, FrameSame

-----------------------------------------------------------------------------
(* The disk.                                                               *)

LEMMA IdleFiles ==
  ASSUME AllOK, call = NoCall
  PROVE  /\ SfsTypeOK /\ Owned /\ DiskOK /\ CallOK /\ NoCall \in Calls
         /\ NoCall.op = "none" /\ \A g : NoCall # Emptying(g)
         /\ \A f \in File : din[f].size \div SFS_BLKSIZE <= din[f].blocks
<1>1. NoCall.op = "none" /\ NoCall \in Calls /\ \A g : NoCall # Emptying(g)
  BY CallShape DEF AllOK, SfsTypeOK
<1>. QED  BY <1>1 DEF AllOK, CallOK

\* What is written to the disk of f is what is in memory.
LEMMA WrittenOut ==
  ASSUME SfsTypeOK, NEW f \in File, disk'[f] = din[f], din'[f] = din[f],
         din[f].size \div SFS_BLKSIZE <= din[f].blocks
  PROVE  SameOnDisk(f)'
  BY Quotients DEF SameOnDisk

LEMMA FsyncStep ==
  ASSUME AllOK, NEW f \in File, Fsync(f)
  PROVE  AllOK' /\ StaysPut
<1>1. /\ phase = "up" /\ call = NoCall
      /\ disk' = [disk EXCEPT ![f] = din[f]] /\ dirty' = dirty \ {f}
      /\ UNCHANGED <<freemap, unused_blocks, super_dirty, din, entries,
                     d_freemap, d_unused, reach, call, phase>>
  BY DEF Fsync, Idle
<1>2. /\ SfsTypeOK /\ Owned /\ DiskOK /\ CallOK
      /\ \A g \in File : din[g].size \div SFS_BLKSIZE <= din[g].blocks
  BY <1>1, IdleFiles
<1>3. SfsTypeOK'
  BY <1>1, <1>2 DEF SfsTypeOK
<1>4. Owned'
  BY <1>1, <1>2 DEF Owned, FileRefs
<1>5. DiskOK'
  <2>1. ASSUME NEW g \in File, g \notin dirty'  PROVE SameOnDisk(g)'
    <3>1. CASE g = f
      <4>1. disk'[f] = din[f] /\ din'[f] = din[f]
        BY <1>1, <1>2 DEF SfsTypeOK
      <4>. QED  BY <1>2, <3>1, <4>1, WrittenOut
    <3>2. CASE g # f
      <4>1. SameOnDisk(g) /\ disk'[g] = disk[g] /\ din'[g] = din[g]
        BY <1>1, <1>2, <2>1, <3>2 DEF DiskOK, SfsTypeOK
      <4>. QED  BY <4>1 DEF SameOnDisk
    <3>. QED  BY <3>1, <3>2
  <2>. QED  BY <1>1, <1>2, <2>1 DEF DiskOK
<1>6. CallOK'
  BY <1>1, <1>2 DEF CallOK
<1>7. StaysPut
  BY <1>1, <1>2, KeptWhenSame DEF StaysPut
<1>. QED  BY <1>3, <1>4, <1>5, <1>6, <1>7 DEF AllOK

\* The inodes read from the disk have all that the ones in memory had.
LEMMA ReadBack ==
  ASSUME AllOK, call = NoCall, UNCHANGED <<freemap, unused_blocks, entries, diskVars>>,
         NEW S \in SUBSET (File \ dirty),
         \A f \in File : din'[f] = IF f \in S THEN disk[f] ELSE din[f]
  PROVE  /\ Owned' /\ StaysPut
         /\ \A f \in File \ dirty : SameOnDisk(f)'
         /\ \A f \in File : din'[f].size \div SFS_BLKSIZE <= din'[f].blocks
<1>1. /\ SfsTypeOK /\ Owned /\ DiskOK /\ CallOK
      /\ \A g \in File : din[g].size \div SFS_BLKSIZE <= din[g].blocks
  BY IdleFiles
<1>2. \A f \in S : SameOnDisk(f)
  BY <1>1 DEF DiskOK
<1>3. ASSUME NEW f \in File
      PROVE  /\ din'[f].direct = din[f].direct /\ din'[f].indirect = din[f].indirect
             /\ din'[f].size = din[f].size
             /\ din'[f].size \div SFS_BLKSIZE <= din'[f].blocks
             /\ din'[f].blocks \in Nat /\ din'[f].blocks <= din[f].blocks
             /\ din'[f].blocks = din[f].blocks \/ din'[f].blocks >= SFS_NDIRECT
  <2>1. CASE f \in S
    BY <1>1, <1>2, <2>1, Quotients DEF SameOnDisk
  <2>2. CASE f \notin S
    BY <1>1, <2>2, Quotients
  <2>. QED  BY <2>1, <2>2
<1>4. ASSUME NEW f \in File  PROVE Mapped(din'[f], entries[f])
  <2>1. Mapped(din[f], entries[f]) /\ din[f].blocks \in Nat
    BY <1>1, Quotients DEF Owned
  <2>2. ASSUME NEW i \in Index, i < din'[f].blocks  PROVE Ptr(din'[f], entries[f], i) # 0
    <3>1. i < din[f].blocks
      BY <1>3, <2>1, <2>2, Constants DEF Index
    <3>2. Ptr(din'[f], entries[f], i) = Ptr(din[f], entries[f], i)
      BY <1>3 DEF Ptr
    <3>. QED  BY <2>1, <3>1, <3>2 DEF Mapped
  <2>3. ASSUME NEW i \in Direct, i >= din'[f].blocks  PROVE din'[f].direct[i] = 0
    <3>1. i >= din[f].blocks
      <4>1. i \in Nat /\ i < SFS_NDIRECT
        BY Constants DEF Direct
      <4>. QED  BY <1>3, <2>1, <2>3, <4>1, Constants
    <3>. QED  BY <1>3, <2>1, <3>1 DEF Mapped
  <2>. QED  BY <2>2, <2>3 DEF Mapped
<1>5. Owned' /\ \A f \in File : \A i : BlockAt(f, i)' = BlockAt(f, i)
  BY <1>1, <1>3, <1>4, SameOwned
<1>6. StaysPut
  <2>1. SUFFICES ASSUME NEW f \in File  PROVE KeptFile(f)
    BY DEF StaysPut
  <2>2. din[f].size \in Nat
    BY <1>1, Quotients
  <2>. QED  BY <1>3, <1>5, <2>2 DEF KeptFile
<1>7. ASSUME NEW f \in File \ dirty  PROVE SameOnDisk(f)'
  <2>1. SameOnDisk(f) /\ disk'[f] = disk[f]
    BY <1>1 DEF DiskOK, diskVars
  <2>2. CASE f \in S
    <3>1. din'[f] = disk[f] /\ disk[f].blocks \in Nat
      BY <1>1, <2>2, Quotients
    <3>. QED  BY <2>1, <3>1 DEF SameOnDisk
  <2>3. CASE f \notin S
    <3>1. din'[f] = din[f]
      BY <2>3
    <3>. QED  BY <2>1, <3>1 DEF SameOnDisk
  <2>. QED  BY <2>2, <2>3
<1>. QED  BY <1>3, <1>5, <1>6, <1>7

LEMMA ReloadStep ==
  ASSUME AllOK, NEW f \in File, Reload(f)
  PROVE  AllOK' /\ StaysPut
<1>1. /\ phase = "up" /\ call = NoCall /\ f \notin dirty
      /\ din' = [din EXCEPT ![f] = disk[f]]
      /\ reach' = [reach EXCEPT ![f] = disk[f].size]
      /\ UNCHANGED <<freemap, unused_blocks, super_dirty, dirty, entries, diskVars, call, phase>>
  BY DEF Reload, Idle
<1>2. /\ SfsTypeOK /\ Owned /\ DiskOK /\ CallOK /\ disk[f] \in Inode /\ disk[f].size \in Size
      /\ NoCall.op = "none"
  BY <1>1, IdleFiles, Quotients
<1>3. \A g \in File : din'[g] = IF g \in {f} THEN disk[g] ELSE din[g]
  BY <1>1, <1>2 DEF SfsTypeOK
<1>4. /\ Owned' /\ StaysPut
      /\ \A g \in File \ dirty : SameOnDisk(g)'
      /\ \A g \in File : din'[g].size \div SFS_BLKSIZE <= din'[g].blocks
  BY <1>1, <1>3, ReadBack
<1>5. SfsTypeOK'
  BY <1>1, <1>2 DEF SfsTypeOK, diskVars
<1>6. DiskOK'
  BY <1>1, <1>2, <1>4 DEF DiskOK, diskVars
<1>7. CallOK'
  BY <1>1, <1>2, <1>4 DEF CallOK
<1>. QED  BY <1>4, <1>5, <1>6, <1>7 DEF AllOK

LEMMA SyncStep ==
  ASSUME AllOK, Sync
  PROVE  AllOK' /\ StaysPut
<1>1. /\ phase = "up" /\ call = NoCall /\ phase' = "down"
      /\ disk' = [f \in File |-> IF f \in dirty THEN din[f] ELSE disk[f]]
      /\ dirty' = {} /\ super_dirty' = FALSE
      /\ UNCHANGED <<freemap, unused_blocks, din, entries, reach, call>>
  BY DEF Sync, Idle
<1>2. /\ SfsTypeOK /\ Owned /\ DiskOK /\ CallOK
      /\ NoCall.op = "none"
      /\ \A g \in File : din[g].size \div SFS_BLKSIZE <= din[g].blocks
  BY <1>1, IdleFiles
<1>3. d_freemap' = freemap /\ d_unused' = unused_blocks
  <2>1. CASE super_dirty
    BY <2>1 DEF Sync
  <2>2. CASE ~super_dirty
    BY <1>2, <2>2 DEF Sync, DiskOK
  <2>. QED  BY <2>1, <2>2
<1>4. SfsTypeOK'
  BY <1>1, <1>2, <1>3 DEF SfsTypeOK
<1>5. Owned'
  BY <1>1, <1>2 DEF Owned, FileRefs
<1>6. DiskOK'
  <2>1. ASSUME NEW g \in File  PROVE SameOnDisk(g)'
    <3>1. CASE g \in dirty
      <4>1. disk'[g] = din[g] /\ din'[g] = din[g]
        BY <1>1, <3>1
      <4>. QED  BY <1>2, <4>1, WrittenOut
    <3>2. CASE g \notin dirty
      <4>1. SameOnDisk(g) /\ disk'[g] = disk[g] /\ din'[g] = din[g]
        BY <1>1, <1>2, <3>2 DEF DiskOK
      <4>. QED  BY <4>1 DEF SameOnDisk
    <3>. QED  BY <3>1, <3>2
  <2>. QED  BY <1>1, <1>3, <2>1 DEF DiskOK
<1>7. CallOK'
  BY <1>1, <1>2 DEF CallOK
<1>8. StaysPut
  BY <1>1, <1>2, KeptWhenSame DEF StaysPut
<1>. QED  BY <1>4, <1>5, <1>6, <1>7, <1>8 DEF AllOK

LEMMA MountStep ==
  ASSUME AllOK, Mount
  PROVE  AllOK' /\ StaysPut
<1>1. phase = "down" /\ UNCHANGED <<super_dirty, dirty, entries, diskVars, call>>
  BY DEF Mount
<1>2. call = NoCall /\ dirty = {} /\ d_freemap = freemap /\ d_unused = unused_blocks
  BY <1>1 DEF AllOK, CallOK, DiskOK
<1>3. /\ SfsTypeOK /\ Owned /\ DiskOK /\ CallOK /\ NoCall.op = "none"
  BY <1>2, IdleFiles
<1>4. d_unused = Cardinality(d_freemap)
  BY <1>2, <1>3 DEF Owned
<1>5. /\ freemap' = d_freemap /\ unused_blocks' = d_unused /\ din' = disk
      /\ reach' = [f \in File |-> disk[f].size] /\ phase' = "up"
  BY <1>4 DEF Mount
<1>6. \A g \in File : din'[g] = IF g \in File THEN disk[g] ELSE din[g]
  BY <1>5
<1>7. UNCHANGED <<freemap, unused_blocks, entries, diskVars>> /\ File \in SUBSET (File \ dirty)
  BY <1>1, <1>2, <1>5
<1>8. /\ Owned' /\ StaysPut
      /\ \A g \in File \ dirty : SameOnDisk(g)'
      /\ \A g \in File : din'[g].size \div SFS_BLKSIZE <= din'[g].blocks
  BY <1>2, <1>6, <1>7, ReadBack
<1>9. SfsTypeOK'
  <2>1. reach' \in [File -> Size]
    BY <1>3, <1>5, Quotients
  <2>. QED  BY <1>1, <1>3, <1>5, <2>1 DEF SfsTypeOK, diskVars
<1>10. DiskOK'
  BY <1>1, <1>2, <1>3, <1>5, <1>8 DEF DiskOK, diskVars
<1>11. CallOK'
  BY <1>1, <1>2, <1>3, <1>5, <1>8 DEF CallOK
<1>. QED  BY <1>8, <1>9, <1>10, <1>11 DEF AllOK

-----------------------------------------------------------------------------
LEMMA SfsStarts == SfsInit => AllOK
<1>. SUFFICES ASSUME SfsInit  PROVE AllOK
  OBVIOUS
<1>1. \A f \in File : /\ din[f] = [size |-> 0, blocks |-> 0, indirect |-> 0,
                                   direct |-> [i \in Direct |-> 0]]
                      /\ entries[f] = [i \in Entry |-> 0]
                      /\ disk[f] = din[f]
  BY DEF SfsInit
<1>2. IsFiniteSet(Block) /\ Cardinality(Block) \in Nat
  BY Constants, FS_CardinalityType
<1>3. NoCall \in Calls /\ NoCall.op = "none" /\ \A f : NoCall # Emptying(f)
  BY DEF NoCall, Calls, Emptying
<1>4. [size |-> 0, blocks |-> 0, indirect |-> 0, direct |-> [i \in Direct |-> 0]] \in Inode
  BY Constants DEF Inode, Size, Pointer
<1>5. SfsTypeOK
  <2>1. din \in [File -> Inode]
    BY <1>4 DEF SfsInit
  <2>2. entries \in [File -> [Entry -> Pointer]]
    BY DEF SfsInit, Pointer
  <2>3. reach \in [File -> Size]
    BY Constants DEF SfsInit, Size
  <2>4. Cardinality(Block) \in 0..Cardinality(Block)
    BY <1>2
  <2>5. freemap = Block /\ unused_blocks = Cardinality(Block) /\ super_dirty = FALSE
        /\ dirty = {} /\ disk = din /\ d_freemap = freemap /\ d_unused = unused_blocks
        /\ call = NoCall /\ phase = "up"
    BY DEF SfsInit
  <2>. QED  BY <1>3, <2>1, <2>2, <2>3, <2>4, <2>5 DEF SfsTypeOK
<1>6. ASSUME NEW f \in File
      PROVE  FileRefs(f) = {} /\ Once(din[f], entries[f]) /\ Mapped(din[f], entries[f])
  <2>1. din[f].indirect = 0 /\ din[f].blocks = 0 /\ \A i \in Direct : din[f].direct[i] = 0
    BY <1>1
  <2>2. \A i \in Index : i \in Nat /\ (i < SFS_NDIRECT => i \in Direct)
    BY Constants DEF Index, Direct
  <2>3. \A i \in Index : Ptr(din[f], entries[f], i) = 0
    BY <2>1, <2>2 DEF Ptr
  <2>4. FileRefs(f) = {}
    BY <2>1, <2>3 DEF FileRefs, Refs
  <2>5. Once(din[f], entries[f])
    BY <2>1, <2>3 DEF Once
  <2>6. Mapped(din[f], entries[f])
    BY <2>1, <2>2, <2>3 DEF Mapped
  <2>. QED  BY <2>4, <2>5, <2>6
<1>7. Owned
  BY <1>6 DEF SfsInit, Owned
<1>8. ASSUME NEW f \in File
      PROVE  din[f].size \div SFS_BLKSIZE <= din[f].blocks /\ SameOnDisk(f)
  <2>1. din[f].size = 0 /\ din[f].blocks = 0 /\ disk[f] = din[f]
    BY <1>1
  <2>2. 0 \div SFS_BLKSIZE = 0
    BY Constants
  <2>. QED  BY <2>1, <2>2 DEF SameOnDisk
<1>9. DiskOK
  BY <1>8 DEF SfsInit, DiskOK
<1>10. CallOK
  BY <1>3, <1>8 DEF SfsInit, CallOK
<1>. QED  BY <1>5, <1>7, <1>9, <1>10 DEF AllOK

LEMMA SfsSteps == AllOK /\ [SfsNext]_sfsVars => AllOK' /\ StaysPut
<1>. SUFFICES ASSUME AllOK, [SfsNext]_sfsVars  PROVE AllOK' /\ StaysPut
  OBVIOUS
<1>1. ASSUME NEW f \in File, FileNext(f)  PROVE AllOK' /\ StaysPut
  BY <1>1, StartIOStep, IOBlockStep, IOAddBlockStep, IODiskFullStep, IOPanicStep,
     FinishIOStep, StartTruncateStep, TruncateGrowStep, TruncateDiskFullStep,
     TruncateShrinkStep, TruncatePanicStep, FinishTruncateStep, TruncateNothingStep,
     FsyncStep, ReloadStep
     DEF FileNext
<1>2. CASE Sync
  BY <1>2, SyncStep
<1>3. CASE Mount
  BY <1>3, MountStep
<1>4. CASE UNCHANGED sfsVars
  <2>1. AllOK'
    BY <1>4 DEF AllOK, SfsTypeOK, Owned, FileRefs, DiskOK, SameOnDisk, CallOK,
                sfsVars, memVars, diskVars
  <2>2. StaysPut
    BY <1>4, KeptWhenSame DEF AllOK, StaysPut, sfsVars, memVars
  <2>. QED  BY <2>1, <2>2
<1>. QED  BY <1>1, <1>2, <1>3, <1>4 DEF SfsNext

\* The strengthened invariant: besides the owners of the blocks, what the disk holds of
\* the files that are not dirty, and how far a call in progress may be ahead of the size.
THEOREM SfsInvariance == SfsSpec => []SfsIInv
<1>1. SfsIInv <=> AllOK
  BY ExactIsOwned DEF SfsIInv, AllOK
<1>2. SfsIInv' <=> AllOK'
  BY ExactIsOwnedNext DEF SfsIInv, AllOK
<1>3. SfsInit => SfsIInv
  BY <1>1, SfsStarts
<1>4. SfsIInv /\ [SfsNext]_sfsVars => SfsIInv'
  BY <1>1, <1>2, SfsSteps
<1>. QED  BY <1>3, <1>4, PTL DEF SfsSpec

\* A block is free or one pointer's of one file, the super block counts the free ones,
\* and a file has a block for every index below din->blocks: what sfs_block_alloc,
\* sfs_block_free and sfs_bmap_load_nolock assert.
THEOREM BlocksHaveOneOwner == SfsSpec => []BlocksExact
<1>1. SfsIInv => BlocksExact
  BY DEF SfsIInv
<1>. QED  BY <1>1, SfsInvariance, PTL

\* After fs_cleanup the disk has the sizes, the pointers and the free blocks that were in
\* memory.
THEOREM ShutdownIsClean == SfsSpec => []CleanShutdown
<1>1. SfsIInv => CleanShutdown
  BY DEF SfsIInv, DiskOK, SameOnDisk, CleanShutdown
<1>. QED  BY <1>1, SfsInvariance, PTL

\* No write, failed write, reload or remount moves a block that a file keeps, and only
\* opening with O_TRUNC or O_CREAT makes a file shorter.
THEOREM DataIsKept == SfsSpec => DataStaysPut
<1>1. SfsIInv /\ [SfsNext]_sfsVars => StaysPut
  BY SfsSteps, ExactIsOwned DEF SfsIInv, AllOK
<1>2. SfsSpec => [][StaysPut]_sfsVars
  BY <1>1, SfsInvariance, PTL DEF SfsSpec
<1>. QED  BY <1>2 DEF DataStaysPut, StaysPut, KeptFile

\* The check of sfs_do_mount, that the super block and the bitmap on disk agree, passes
\* after every clean shutdown: Mount never stops the kernel.
THEOREM MountSucceeds == SfsSpec => [](phase = "down" => d_unused = Cardinality(d_freemap))
<1>1. SfsIInv => (phase = "down" => d_unused = Cardinality(d_freemap))
  BY DEF SfsIInv, DiskOK, BlocksExact, BlocksOwnedOnce
<1>. QED  BY <1>1, SfsInvariance, PTL
=============================================================================
