------------------------------- MODULE Files -------------------------------
(***************************************************************************)
(* Open files: the descriptor tables of kern/fs/fs.c and kern/fs/file.c,   *)
(* the working directories of vfs/vfspath.c, and the reference and open    *)
(* counts of the inodes they point to (vfs/vfsfile.c, vfs/inode.c).        *)
(*                                                                         *)
(* Kernel code is not preempted and the disk is polled, so a system call   *)
(* is one step, except a read of the keyboard: its thread sleeps inside    *)
(* vop_read and other threads run.  An inode of the disk is in memory      *)
(* while its ref_count is not 0.                                           *)
(***************************************************************************)
EXTENDS Integers, FiniteSets, FiniteSetsExt

CONSTANTS Proc,      \* the threads
          Table,     \* the places for a struct files_struct
          Node,      \* the inodes: those of Dir and Device, the rest regular files
          Dir, Device,
          root,      \* the root directory of disk0
          NoTable, NoNode, NoFd,
          NENTRY,    \* FILES_STRUCT_NENTRY
          NSTD,      \* the descriptors an exec keeps, stdin and stdout: 2
          MaxLost    \* bound: opens that lose a reference

ASSUME FilesAssumption ==
  /\ IsFiniteSet(Proc) /\ IsFiniteSet(Table)
  /\ Dir \subseteq Node /\ Device \subseteq Node \ Dir /\ root \in Dir
  /\ NoTable \notin Table /\ NoNode \notin Node
  /\ NENTRY \in Nat /\ NSTD \in 0..NENTRY /\ MaxLost \in Nat
  /\ NoFd \notin 0..NENTRY - 1

VARIABLES filesp,      \* proc->filesp; NoTable for a thread that does not run
          files_count, \* how many threads use the table; 0 for a free place
          pwd,         \* filesp->pwd
          fd_array,    \* filesp->fd_array
          ref_count, open_count, \* the counts of the inodes
          reading,     \* the descriptor of the keyboard read the thread sleeps in
          lost         \* history: references that were taken and forgotten

countVars == <<ref_count, open_count, lost>>
vars == <<filesp, files_count, pwd, fd_array, reading, countVars>>

Fd == 0..NENTRY - 1

\* struct file.  FD_INIT never outlives the system call that sets it.
Unused == [status |-> "NONE", node |-> NoNode, open_count |-> 0]
Opened(n) == [status |-> "OPENED", node |-> n, open_count |-> 1]

TypeOK ==
  /\ filesp \in [Proc -> Table \cup {NoTable}]
  /\ files_count \in [Table -> 0..Cardinality(Proc)]
  /\ pwd \in [Table -> Dir \cup {NoNode}]
  /\ fd_array \in [Table -> [Fd -> [status : {"NONE", "OPENED", "CLOSED"},
                                    node : Node \cup {NoNode},
                                    open_count : 0..1 + Cardinality(Proc)]]]
  /\ ref_count \in [Node -> Nat] /\ open_count \in [Node -> Nat]
  /\ reading \in [Proc -> Fd \cup {NoFd}]
  /\ lost \in [Node -> Nat]

\* References of the kernel itself: the device list, bootfs_node, and the working
\* directory of init_main.
KernelRefs(n) == IF n = root THEN 2 ELSE IF n \in Device THEN 1 ELSE 0

\* vfs_set_bootfs is done and user_main, a copy of init_main, is about to run.
Init ==
  \E p \in Proc, t \in Table :
    /\ filesp = [q \in Proc |-> IF q = p THEN t ELSE NoTable]
    /\ files_count = [u \in Table |-> IF u = t THEN 1 ELSE 0]
    /\ pwd = [u \in Table |-> IF u = t THEN root ELSE NoNode]
    /\ fd_array = [u \in Table |-> [fd \in Fd |-> Unused]]
    /\ ref_count = [n \in Node |-> KernelRefs(n) + (IF n = root THEN 1 ELSE 0)]
    /\ open_count = [n \in Node |-> 0]
    /\ reading = [q \in Proc |-> NoFd]
    /\ lost = [n \in Node |-> 0]

\* p runs user code: it is in no read.
Running(p) == filesp[p] # NoTable /\ reading[p] = NoFd
FileOf(p, fd) == fd_array[filesp[p]][fd]
Descriptors(p, status) == {fd \in Fd : FileOf(p, fd).status = status}

\* fd_array_alloc(NO_FD): the lowest unused descriptor.
Lowest(p, fd) ==
  fd \in Descriptors(p, "NONE") /\ \A other \in Descriptors(p, "NONE") : fd <= other

One(n, m) == IF n = m THEN 1 ELSE 0
-----------------------------------------------------------------------------
\* Mutant: the descriptor is free at once, whoever still reads from it.
ClosedAtOnce(file) == IF file.status = "OPENED" THEN Unused ELSE file

\* fd_array_close: a file that a read still holds stays, CLOSED.
ClosedFile(file) ==
  IF file.status # "OPENED" THEN file
  ELSE IF file.open_count = 1 THEN Unused
  ELSE [file EXCEPT !.status = "CLOSED", !.open_count = @ - 1]

\* fd_array_release: the last one out of a closed file frees it.
ReleasedFile(file) ==
  IF file.open_count = 1 THEN Unused ELSE [file EXCEPT !.open_count = @ - 1]

\* How many of the descriptors fds of table t are the last hold of a file on n, and
\* give it to vfs_close when they are closed.
Closing(t, fds, n) ==
  Cardinality({fd \in fds : fd_array[t][fd].node = n /\ fd_array[t][fd].open_count = 1})

\* file_open that succeeds: vfs_lookup and vop_open_inc leave one reference and one
\* open on the inode.
Open(p, n) ==
  /\ Running(p)
  /\ \E fd \in Fd :
       /\ Lowest(p, fd)
       /\ fd_array' = [fd_array EXCEPT ![filesp[p]][fd] = Opened(n)]
  /\ ref_count' = [ref_count EXCEPT ![n] = @ + 1]
  /\ open_count' = [open_count EXCEPT ![n] = @ + 1]
  /\ UNCHANGED <<filesp, files_count, pwd, reading, lost>>

\* vfs_open of an existing file with O_CREAT and O_EXCL returns E_EXISTS with the
\* reference that vfs_lookup took.
RefLost(n) == [ref_count EXCEPT ![n] = @ + 1]

OpenExclusive(p, n) ==
  /\ Running(p)
  /\ Descriptors(p, "NONE") # {}
  /\ MapThenSumSet(LAMBDA m : lost[m], Node) < MaxLost
  /\ lost' = [lost EXCEPT ![n] = @ + 1]
  /\ ref_count' = RefLost(n)
  /\ UNCHANGED <<filesp, files_count, pwd, fd_array, reading, open_count>>

\* file_close
Close(p, fd) ==
  LET t == filesp[p] IN
  /\ Running(p)
  /\ fd \in Descriptors(p, "OPENED")
  /\ fd_array' = [fd_array EXCEPT ![t][fd] = ClosedFile(@)]
  /\ ref_count' = [n \in Node |-> ref_count[n] - Closing(t, {fd}, n)]
  /\ open_count' = [n \in Node |-> open_count[n] - Closing(t, {fd}, n)]
  /\ UNCHANGED <<filesp, files_count, pwd, reading, lost>>

\* file_dup(fd1, NO_FD), or file_dup(fd1, fd2) on an unused fd2.
Dup(p, fd1, fd2) ==
  LET n == FileOf(p, fd1).node IN
  /\ Running(p)
  /\ fd1 \in Descriptors(p, "OPENED") /\ fd2 \in Descriptors(p, "NONE")
  /\ fd_array' = [fd_array EXCEPT ![filesp[p]][fd2] = Opened(n)]
  /\ ref_count' = [ref_count EXCEPT ![n] = @ + 1]
  /\ open_count' = [open_count EXCEPT ![n] = @ + 1]
  /\ UNCHANGED <<filesp, files_count, pwd, reading, lost>>

\* file_read gets to the sleep in dev_stdin_read: fd_array_acquire.  An operation
\* that does not sleep acquires and releases in one step and changes no count.
ReadBegin(p, fd) ==
  /\ Running(p)
  /\ fd \in Descriptors(p, "OPENED") /\ FileOf(p, fd).node \in Device
  /\ fd_array' = [fd_array EXCEPT ![filesp[p]][fd].open_count = @ + 1]
  /\ reading' = [reading EXCEPT ![p] = fd]
  /\ UNCHANGED <<filesp, files_count, pwd, countVars>>

\* A key press or a kill ends the sleep: fd_array_release.
ReadEnd(p) ==
  LET t == filesp[p]  fd == reading[p] IN
  /\ fd # NoFd
  /\ fd_array' = [fd_array EXCEPT ![t][fd] = ReleasedFile(@)]
  /\ ref_count' = [n \in Node |-> ref_count[n] - Closing(t, {fd}, n)]
  /\ open_count' = [n \in Node |-> open_count[n] - Closing(t, {fd}, n)]
  /\ reading' = [reading EXCEPT ![p] = NoFd]
  /\ UNCHANGED <<filesp, files_count, pwd, lost>>

\* vfs_chdir, vfs_set_curdir
Chdir(p, dir) ==
  LET t == filesp[p] IN
  /\ Running(p)
  /\ pwd' = [pwd EXCEPT ![t] = dir]
  /\ ref_count' = [n \in Node |-> ref_count[n] + One(n, dir) - One(n, pwd[t])]
  /\ UNCHANGED <<filesp, files_count, fd_array, reading, open_count, lost>>

-----------------------------------------------------------------------------
\* files_count_inc
ThreadCounted(t) == [files_count EXCEPT ![t] = @ + 1]

\* do_fork with CLONE_FS: copy_files shares the table.
ForkShared(p, child) ==
  /\ Running(p) /\ filesp[child] = NoTable
  /\ filesp' = [filesp EXCEPT ![child] = filesp[p]]
  /\ files_count' = ThreadCounted(filesp[p])
  /\ UNCHANGED <<pwd, fd_array, reading, countVars>>

\* dup_files copies the files that are open, each with a hold of its own.
CopiedFile(file) == IF file.status = "OPENED" THEN Opened(file.node) ELSE Unused

\* do_fork without CLONE_FS: files_create and dup_files.
ForkCopied(p, child) ==
  LET from == filesp[p]
      copies(n) == Cardinality({fd \in Descriptors(p, "OPENED") : FileOf(p, fd).node = n})
  IN
  /\ Running(p) /\ filesp[child] = NoTable
  /\ \E to \in {t \in Table : files_count[t] = 0} :
       /\ filesp' = [filesp EXCEPT ![child] = to]
       /\ files_count' = ThreadCounted(to)
       /\ pwd' = [pwd EXCEPT ![to] = pwd[from]]
       /\ fd_array' = [fd_array EXCEPT ![to] = [fd \in Fd |-> CopiedFile(FileOf(p, fd))]]
  /\ ref_count' = [n \in Node |-> ref_count[n] + copies(n) + One(n, pwd[from])]
  /\ open_count' = [n \in Node |-> open_count[n] + copies(n)]
  /\ UNCHANGED <<reading, lost>>

\* Mutant: the working directory is forgotten when the table goes.
PwdKept(t, n) == 0

\* files_destroy drops the working directory.
PwdDropped(t, n) == IF files_count[t] = 1 THEN One(n, pwd[t]) ELSE 0

\* p closes the descriptors fds and leaves its table, do_exit's put_files; the last
\* thread out destroys it.
Leave(p, fds) ==
  LET t == filesp[p]
      last == files_count[t] = 1
      closed == {fd \in IF last THEN Fd ELSE fds : fd_array[t][fd].status = "OPENED"}
  IN
  /\ Running(p)
  /\ filesp' = [filesp EXCEPT ![p] = NoTable]
  /\ files_count' = [files_count EXCEPT ![t] = @ - 1]
  /\ pwd' = IF last THEN [pwd EXCEPT ![t] = NoNode] ELSE pwd
  /\ fd_array' = [fd_array EXCEPT ![t] =
                    [fd \in Fd |-> IF fd \in closed THEN ClosedFile(@[fd]) ELSE @[fd]]]
  /\ ref_count' = [n \in Node |-> ref_count[n] - Closing(t, closed, n) - PwdDropped(t, n)]
  /\ open_count' = [n \in Node |-> open_count[n] - Closing(t, closed, n)]
  /\ UNCHANGED <<reading, lost>>

Exit(p) == Leave(p, {})

\* do_execve: files_closeall, then the program file is opened at the lowest unused
\* descriptor, read and closed again: no more is left of it.
Exec(p) ==
  LET t == filesp[p]
      closed == Descriptors(p, "OPENED") \ 0..NSTD - 1
      after == [fd \in Fd |-> IF fd \in closed THEN ClosedFile(FileOf(p, fd))
                              ELSE FileOf(p, fd)]
  IN
  /\ Running(p)
  /\ fd_array' = [fd_array EXCEPT ![t] = after]
  /\ \E fd \in Fd : after[fd] = Unused
  /\ ref_count' = [n \in Node |-> ref_count[n] - Closing(t, closed, n)]
  /\ open_count' = [n \in Node |-> open_count[n] - Closing(t, closed, n)]
  /\ UNCHANGED <<filesp, files_count, pwd, reading, lost>>

\* The program cannot be opened or loaded: its descriptor, if there is one, goes
\* with the others in do_exit, but the files of the rest of the table are closed.
ExecFails(p) == Leave(p, NSTD..NENTRY - 1)

Next ==
  \E p \in Proc :
    \/ \E n \in Node : Open(p, n) \/ OpenExclusive(p, n)
    \/ \E fd \in Fd : Close(p, fd) \/ ReadBegin(p, fd)
    \/ \E fd1, fd2 \in Fd : Dup(p, fd1, fd2)
    \/ ReadEnd(p)
    \/ \E dir \in Dir : Chdir(p, dir)
    \/ \E child \in Proc : ForkShared(p, child) \/ ForkCopied(p, child)
    \/ Exit(p) \/ Exec(p) \/ ExecFails(p)

Spec == Init /\ [][Next]_vars

-----------------------------------------------------------------------------
Holders(n, fds) == {tf \in Table \X fds : fd_array[tf[1]][tf[2]].node = n}

\* The counts of an inode are exactly what points to it: the kernel, the working
\* directories, and the descriptors that are open or closed under a reader; what is
\* missing is what O_CREAT with O_EXCL forgot.  So an inode is never reclaimed
\* under somebody, and never kept by nobody for any other reason.
RefsExact ==
  \A n \in Node :
    /\ open_count[n] = Cardinality(Holders(n, Fd))
    /\ ref_count[n] = open_count[n] + Cardinality({t \in Table : pwd[t] = n})
                      + KernelRefs(n) + lost[n]

\* A table is there as long as a thread uses it, and when files_destroy frees it no
\* file is left in it, not even one that is closed under a reader (its assertion).
TablesHeld ==
  \A t \in Table :
    /\ files_count[t] = Cardinality({p \in Proc : filesp[p] = t})
    /\ files_count[t] = 0 => pwd[t] = NoNode /\ \A fd \in Fd : fd_array[t][fd] = Unused

\* Each hold of a file is its descriptor while that is open, or one of the reads that
\* sleep in it: file_read finds, when it wakes, the file it went to sleep in.
HoldsExact ==
  \A t \in Table, fd \in Fd :
    LET file == fd_array[t][fd]
        readers == {p \in Proc : filesp[p] = t /\ reading[p] = fd}
    IN file.open_count = Cardinality(readers) + (IF file.status = "OPENED" THEN 1 ELSE 0)

\* Descriptors and tables are held by exactly those who use them.
FilesInv == TypeOK /\ TablesHeld /\ HoldsExact

\* Nothing another thread does while a read sleeps puts another file in its place.
ReaderKeepsFile ==
  [][\A p \in Proc : reading[p] # NoFd /\ reading'[p] # NoFd =>
       fd_array'[filesp[p]][reading[p]].node = fd_array[filesp[p]][reading[p]].node]_vars
=============================================================================
