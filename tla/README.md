# The ucore kernel in TLA+

This directory is a verification development for ucore, the teaching kernel of
this repository. It models the finished kernel, `src/labcodes/lab8`; the
directories `lab1` to `lab7` are earlier stages of the same code and
`src/labcodes_answer` holds other solutions of the exercises. Paths below are
relative to `src/labcodes/lab8/kern` unless they start with `src/` or `libs/`.

The kernel runs on one processor and is not preempted: kernel code gives up the
CPU only where it calls `schedule()`. What can happen in between is an interrupt
(timer, keyboard) wherever interrupts are enabled, and everything that other
threads do while one of them is switched out. The models cut the kernel's code at
exactly these points: one action runs from one such point to the next.

## The system and its parts

| part | state it keeps | operations | what it calls or shares | what is hard |
|---|---|---|---|---|
| wait queues, semaphores (`sync/wait.c`, `sem.c`) | value and queue of nodes on the waiters' kernel stacks | `down`, `up`, `try_down` | `wakeup_proc`, `schedule` | interrupts between queueing and `schedule()`, kills, nodes that outlive their frame |
| scheduler core (`schedule/sched.c`) | run queue, `current`, `need_resched`, timer list | `wakeup_proc`, `schedule`, `add_timer`, `del_timer`, `run_timer_list` | scheduling class; called by everything that blocks | run queue and process state must agree; differences in the timer list |
| stride class (`schedule/default_sched_stride.c`, `libs/skew_heap.h`) | strides, priorities, time slices, heap | `enqueue`, `dequeue`, `pick_next`, `proc_tick` | called by the core | wrap-around of strides; links of the heap |
| processes (`process/proc.c`) | process table, tree, exit codes, flags | `do_fork`, `do_exit`, `do_wait`, `do_kill`, `do_yield`, `do_sleep`, `init_main` | scheduler, memory, files | death of parent and child in any order, kills of sleepers, slots used again |
| monitors (`sync/monitor.c`) | mutex, `next`, condition semaphores and counts | `cond_signal`, `cond_wait` | semaphores | hand-over of the monitor among three parties |
| philosophers (`sync/check_sync.c`) | states of the philosophers | `phi_take_forks`, `phi_put_forks` and so on | monitor, `do_sleep` | waiting in a circle |
| page allocator (`mm/default_pmm.c`) | free list of runs | `alloc_pages`, `free_pages` | every memory user | merging with both neighbours, partial release |
| stdin (`fs/devs/dev_stdin.c`) | ring buffer, wait queue | key press, `read` | keyboard interrupt, scheduler | input that arrives while a reader goes to sleep, a full ring, kills |
| simple file system (`fs/sfs`) | bitmap, super block, inodes, index blocks | read, write, truncate, seek, fsync, sync, mount | disk; called through `fs/vfs` | a full disk half-way, memory against disk |
| vfs, open files (`fs/vfs`, `fs/file.c`, `fs/fs.c`) | reference and open counts of inodes, descriptor tables, working directories | open, close, dup, read, chdir, fork, exec, exit | file systems, devices, processes | counts on error paths, tables shared by threads, closing under a sleeping reader |
| virtual memory, swap (`mm/vmm.c`, `pmm.c`, `swap*.c`) | vmas and their cache, page tables, contents of frames, the FIFO queue | map, load, fault, write, copy, destroy, swap | page allocator, `do_execve`, `do_fork` | range arithmetic, failed loads, victims in the queue |
| kernel heap (`mm/kmalloc.c`) | circular list of free blocks, list of big blocks | `kmalloc`, `kfree` | page allocator | merging in a circular list, rounding of sizes, failure half-way |
| drivers, traps, system calls, boot, libraries, user programs | | | | mostly sequential |

`PROJECT.json` lists every part with what is modelled of it, and under `hazards`
the places in the code that are hard to test, each with the properties that
would catch it.

What makes each part correct, in short: a permit of a semaphore is never lost or
made and goes to the thread that has waited longest; the run queue is exactly the
runnable threads off the CPU; every process that exits is reaped once, by its
parent or by init; a sleeper wakes at the tick it asked for; the thread with the
least stride runs; one thread is in a monitor and no signaller is left behind; a
page, and a disk block, has one owner; nobody sleeps on unread input; a clean
disk says what the memory said; a pid is nobody else's; an inode is counted by exactly
those who point to it; a page changes by its own writes only; and no block of the
heap overlaps another.

## Modules

| module | what it models | state and actions |
|---|---|---|
| `Sched` | the part of `sched.c` all thread models share | `state`, `wait_state`, `current`, `rq`, `need_resched`; `WakeupAll`, `ScheduleTo`, `SetSleeping`, `ProcTick`. Which runnable thread is picked is left open, so that the results hold for every scheduling class. |
| `KernelThreads` | `sem.c`, `wait.c`, `do_sleep`, `do_kill`, the tail of `trap()` | a program point per thread. `DownBlock` ends where `__down` enables interrupts, `SwitchTo` is `schedule()`, `DownReturn` what follows; `UpHandOff`/`UpFree` are `__up`; `TimerIRQ` may come at every point |
| `TimerList` | `add_timer`, `del_timer`, `run_timer_list` | the list and the differences in it |
| `TimedThreads` | `KernelThreads` over `TimerList` | a sleep links a timer, the tick wakes exactly the threads whose timers run out, a killed sleeper takes its timer off the list |
| `Semaphores` | abstract: counting semaphores that hand a permit to the longest waiter | implemented by `KernelThreads` |
| `Timers` | abstract: each sleeper has its own count of ticks left | implemented by `TimerList` |
| `Process` | `do_fork`, `do_exit`, `do_wait`, `do_kill`, `init_main` over `Sched` | a slot of the process table stands for its pid; the children of a process are a sequence, youngest first |
| `GetPid` | `get_pid` and `proc_list` | `last_pid` and `next_safe` between calls; a walk is one action for each turn of its loop |
| `StrideSched` | the stride class with wrapped words and their signed comparison | the pool is a set; `total` is a history variable with the stride as it would be without wrapping |
| `StrideHeap` | `libs/skew_heap.h`, pointers and all, under the stride class | implements `StrideSched` |
| `Monitor` | `cond_signal`, `cond_wait` and the protocol at the monitor's entry and exit | its semaphores are atomic hand-overs, which `ImplementsSemaphores` says the code's are |
| `Philosophers` | the monitor solution of `check_sync.c`, over `Monitor` | one action for each statement inside the monitor |
| `SemaPhilosophers` | the semaphore solution of `check_sync.c`, over `Semaphores` | a program point per philosopher; interleaved more finely than the kernel does |
| `DiningTable` | abstract: both forks are taken at once, no neighbours eat together | implemented by both solutions |
| `FirstFit` | `default_alloc_pages`, `default_free_pages` | page descriptors and the free list |
| `PageAllocator` | abstract: disjoint runs of pages in use | implemented by `FirstFit` |
| `KernelHeap` | `slob_alloc`, `slob_free`, `__kmalloc`, `kfree`, `find_order` over `FirstFit` | the circular free list in the order of its links, units of the blocks, big blocks; beside it other callers of `alloc_pages` |
| `VirtualMemory` | `setup_pgdir`, `put_pgdir`, `mm_map`, `insert_vma_struct`, `find_vma`, `dup_mmap`, `copy_range`, `exit_mmap`, `do_pgfault`, `user_mem_check`, `load_icode`, `swap_out`, `swap_in`, the FIFO queue | `memory` holds frames, page tables, entries and contents; operations are operators on it, so that a call that does several is their composition. The frame of a page directory is that of its entry `VPT`, by which the directory maps itself. A fork is `Fork`, then `CopyVma` and `CopyPage` for each vma and page of the address space in `source`, then `Copied`: nothing else runs meanwhile, and a kernel that finds no frame stops, so the copy has no failure path |
| `PrivateMemory` | abstract: every address space has pages of its own | implemented by `VirtualMemory` |
| `Stdin` | `dev_stdin_read`, `dev_stdin_write` over `Sched` | a character is the number of its key press |
| `Files` | `file_open`, `file_close`, `file_read`, `file_dup`, `files_closeall`, `dup_files`, `vfs_open`, `vfs_close`, `vfs_chdir`, the counts of `inode.c`, and their use in `do_fork`, `do_execve`, `do_exit` | descriptors with status, inode and count; `ReadBegin`/`ReadEnd` enclose the one sleep |
| `Sfs` | bitmap, block pointers, sizes, write-back and mount of `fs/sfs` | one action for each iteration of a call's loop over blocks; memory and disk copies side by side |

`<Module>_proofs.tla` proves the theorems of a module: `KernelThreads_proofs` (with
`TimedThreads` and `TimerList`), `Process_proofs` (with `GetPid`), `Philosophers_proofs` (with
`Monitor` and `SemaPhilosophers`), `Stdin_proofs`, `FileSystem_proofs` (`Files` and
`Sfs`), `VirtualMemory_proofs`, and `Resources_proofs` for the two parts that share out a resource and call
nobody, `StrideSched` and `KernelHeap` with its `FirstFit`; `QueueLemmas` holds what they share about sequences.
`MC*.tla` and the `.cfg` files hold the instances for TLC. Definitions whose comment starts with `Mutant` are deliberately wrong variants of the
definition that follows them. They are not used by the specifications; each is put in
the place of the right one to see that the property it goes with notices the difference.

How the models compose: `TimedThreads` joins threads, semaphores and timers;
`Process` and `Stdin` run over the same `Sched`; `Philosophers` runs over `Monitor`,
and both `Monitor` and `SemaPhilosophers` take semaphores as the abstract ones that
`KernelThreads` is shown to implement; `KernelHeap` runs over `FirstFit`, among other users of it.
Where a model rests on another without containing it, it takes only what the other one is
shown to promise: `VirtualMemory` a free frame or none, `Process` a pid nobody has.

## Runs

| run | instance | what it shows |
|---|---|---|
| `threads` | three threads and idle, one semaphore that starts with one permit and has at most two, sleeps of up to two ticks | the assertions in `sem.c`, stack nodes, no lost sleeper; the code implements `Semaphores`, and every sleeper wakes at its tick (`Timers`) |
| `process_safety` | idle, init and three slots; or six pids and up to five listed processes | tree, run queue, table and `init_main`'s closing assertions, only the parent frees a zombie; `get_pid` gives fresh pids and comes back. The two models share the run and not a behaviour (variable `part`) |
| `process_live` | idle, init and two slots, fair | orphans are reaped, killed processes exit, also those asleep in `do_wait` |
| `stride_closed` | three threads that keep running, words of three bits, totals up to 11, from every start within the bound | the least stride is picked, strides stay close |
| `stride_claim` | two threads that may fork and sleep | **violated**: see Findings |
| `stride_heap` | three threads, words of two bits | the heap refines the pool, links stay those of a tree, through merges and removals of the root (the kernel removes no other node) |
| `philosophers` | four philosophers, two meals each, in either solution (variable `solution`), fair | the table is implemented, the monitor has one owner, permits are exact, no deadlock, all meals eaten |
| `stdin` | two readers and idle, ring of two, three key presses, reads of up to two | exact input, nobody sleeps on input, killed readers leave |
| `files` | three threads and places for three tables, two descriptors each, two directories (the root among them) and the keyboard | counts of tables, files and inodes are exact; a sleeping read keeps its file |
| `sfs` | two files, four blocks, one direct and one indirect pointer, two bytes to a block | blocks owned once, mapped, clean shutdown, data stays put |
| `virtual_memory` | the address space of `check_swap` with two frames, then two address spaces of three pages over eight other frames, two pages to a page table; a page of text that is for execution only, two of data under both page tables, and a stack that overlaps the data | every frame has one use, those of page tables and directories too; vmas and their cache, the swap queue, `user_mem_check` for reads and writes; private memory is implemented |
| `kernel_heap` | regions of four pages and of one with a reserved page between, six units to a page, requests of 1, 2, 6 and 12 units, three blocks held, other runs of up to three pages | no overlap, nothing lost, blocks large enough, lists in order; the page allocator keeps its promise |

Why the bounds are enough to meet the interesting cases:

* Three threads are an owner, one that waits and one that overtakes, kills or wakes; one
  semaphore, as a thread waits for one at a time and semaphores share nothing but
  the scheduler. Sleeps of one and two ticks make timers that run out together, one
  after the other, and that are linked in front of, behind and in place of each other.
* Three slots beside init are a process, its child and its grandchild or sibling, and a
  slot used again. Six pids for five processes wrap within a few forks, and a full list
  makes a walk start again for each of its entries.
* Words of three bits wrap once before the totals reach their bound of 11.
* Four philosophers make a circle in which two may eat at once and in which
  the two neighbours of one are not neighbours of each other.
* A ring of two with three key presses overwrites a character.
* Three threads in one table are one that reads, one that closes, and one that opens
  again; two descriptors with one that an exec keeps show what it closes.
* Four blocks are fewer than the six two files can use with their index blocks, so
  every allocation fails somewhere, and the largest size is above what pointers
  reach, as 128 MB is above 48 KB + 4 MB in the code.
* Two frames for three pages make every page of `check_swap` a victim once. Two address
  spaces with three pages, two page tables and a directory each need twelve frames and
  have eight, so that forks, loads and faults run into the end of the memory; the stack
  segment overlaps the data so that mappings are refused, and the text can be executed and
  faulted in but not read, so that a check that forgets `VM_READ` is seen.
* Requests of 1, 2, 6 and 12 units are one that splits, one that fits exactly, one above a page less a
  unit and one of two pages. A region of four pages allows a release that merges
  to the left, to the right, to both sides and across neither.

Four runs leave out of the state what no property or step reads again (`VIEW`) or
treat equal places as one (`SYMMETRY`). The `VIEW` of `sfs` leaves out the disk copies that will be
written before they are next read (the disk's inode of a dirty file, the disk's bitmap while
`super_dirty`); that of `kernel_heap` the results of the last calls and `page->property` where no
free block begins. Deadlock is not checked where the system really stops: when the kernel has
halted or panicked (`process_*`, `sfs`), when all threads have exited (`files`) and when
the dinner is over.

### Fairness

Liveness is checked under the fairness that the code's own scheduling gives:
the thread on the CPU goes on with its kernel code (weak fairness of its
steps), the timer interrupt comes as long as it is enabled (weak fairness of
`TimerIRQ`), and a thread that is again and again in the run queue when the scheduler
chooses is chosen at some time (strong fairness of the switch to it). The last one is what a
scheduling class promises; for round robin it holds outright, for the stride
class as long as every pass is positive and the strides stay comparable. It is
not assumed that a user program ever calls anything, or that it exits. The
philosophers have a bounded number of meals, and for them it is enough that the
CPU does not stand still while somebody can go on (weak fairness of the whole
next-state relation).

## Proofs

Each invariant proved below has a strengthening that holds at the start, is kept by every
step, and implies it. The proofs have one lemma per action.

`KernelThreads_proofs`, for every set of threads and semaphores and every
initial number of permits: `IInv` is an invariant (`Invariance`), and from it
the type invariant, the exactness of the run queue, conservation of permits, that no
permit idles while a thread waits, that no linked wait node or timer is on a dead stack frame, both assertions
of `sem.c`, that no sleeper is lost (the last three together are `SleepersAreSafe`), and, as an action
property, that only an `up` ends a wait. None of these is inductive alone. For example that `up` never
meets a waiter that a kill has woken needs: a thread in a queue is asleep with
`WT_KSEM`; that this cannot change under a kill needs `wait_state` to be
what the thread went to sleep with, hence what each program point says about state and wait state
(`PointOK`, `SleepOK`); and that the thread which goes to sleep is not in the run queue needs the run queue to be
exact. With `IInv` each `up` and `down` maps to the one of `Semaphores` and every other
step to a stutter: the code implements the abstract semaphores (`SemaphoresImplemented`), which `Monitor` and
`SemaPhilosophers` take for granted.

Its second part is about `TimedThreads` with its `TimerList`, for every number of threads and every longest sleep: `add_timer`,
`del_timer` and `run_timer_list` wake every sleeper at exactly the tick it asked for, the head of the list never stands
at 0, and the list links just the timers that `do_sleep` has on a stack (`TimersImplemented`); and the threads over the list
are threads of `KernelThreads` (`TimedThreadsAreThreads`), so that all that is proved of these, for timers that run out
at any tick, holds with the real list. The inductive invariant is `TimersOK`: nobody stands in the list twice, and
the *sums* of the differences, not only the head, lie between 1 and the longest sleep (`Sound`); without that bound `del_timer` could
push a difference out of range. What an action does to the differences is one thing, what it does to the
sums another (`AddDue`, `DelDue`, `TickDue`): a new timer gets its own sum and moves no other, a deleted one takes
only its own away, a tick takes one off them all. Each is shown by giving the new sums and
citing that only one function adds up the differences of a list (`DueUnique`). The sums are
what the abstract `Timers` counts down (`LeftFacts`).

`Process_proofs`, for every set of slots: the process table is sound (`TableIsSound`), no exit is lost
(`NoExitIsLost`), only a parent reaps (`OnlyTheParentReaps`). `ProcIInv` adds to `TableInv` what each
point says of state and CPU (`PointOK`), that `init` never exits (`RootsOK`), that `do_wait` is the only
place to sleep at (`Reasons`), and that the only exited child a sleeper can have is the one
that stands between `state = PROC_ZOMBIE` and the wakeup in `do_exit` (`SleeperOK`). That the tree stays whole when a
process is freed needs `NoDeadParent`: what is reaped has left `do_exit`, so it has given its children away. That no exit is
lost when children pass to `init` needs the second wakeup of `do_exit`: the exited ones among them are
`init`'s from then on. `InitMainEndsAlone`, that `init_main`'s closing assertions hold, needs that the tree
has its root in idle and no cycle; `Rooted` says it without a recursive definition: a set of
processes that has idle and every child of its members has everybody.

In the same module, for `get_pid`, for every `MAX_PID` and every number of processes below it: `PidsAreFresh` needs beside
`PidInv` only that a candidate is a pid while a walk goes on (`Candidate`). `WalksEnd` counts: the
candidates a call has tried are an interval of pids, wrapped at the end (`Tried`), each of them was
found in `proc_list`, and each restart adds one; so there are at most as many restarts as entries,
and since a list shorter than the number of pids cannot hold them all the walk ends.

The first part of `Resources_proofs` is the arithmetic claim behind the stride class, for every word
size, priority and number of threads that keep running: true strides of
the threads stay within `BIG_STRIDE` of each other (`StridesStayClose`), the wrapped strides are congruent to the
true ones, hence the signed comparison is exact (`ComparisonIsExact`) and
the thread picked is a least one (`LeastIsPicked`). The inductive invariant
joins the bound to congruence and to a fixed set of threads. For the open system, where threads
fork and sleep, only types and time slices are proved; the claim is false there.

`Philosophers_proofs` begins with the monitor, whoever calls it, and cites only `MonitorAssumption` (a finite set of
threads and any set of conditions) for that part: one owner
(`MonitorHasOneOwner`) and exact counters with no stranded signaller (`MonitorBookkeeping`). The inductive
`IndInv` says where each thread stands (in which queue or let through: `Standing`), that at most one of
all threads let through or inside is there (`OwnerUnique`), which semaphore a hand-over went to
(`HandingOver`), that the counts are the numbers of those who stand there (`Counted`), that no
condition and no `next` stores a signal (`NoStoredSignal`), and that a thread which has signalled
finds the one it woke on the way out (`SignallersKept`).

Then, for every number of philosophers and meals: the dinner takes only steps of the
monitor (`DinnerUsesMonitor`), so the monitor's theorems hold in it (`DinnerKeepsMonitor`); nobody is hungry
without a neighbour who eats or is about to test for him (`NobodyHungryForNothing`); and the table
is implemented (`DinnerImplementsTable`). `PhilIInv` adds to `IndInv` what each point of the routines says of the
philosopher's own state.

The same module shows the same for the semaphore solution (`SemaphoresImplementTable`), with
each semaphore's value, queue and hand-overs given by where its philosopher is and what
he does (`Fork`), and the mutex held by one (`OwnsTable`).

`Stdin_proofs`, for every set of threads, size of the ring and length of reads: nobody sleeps on input and no
wait node dangles (`DeviceIsSound`), and the input is exact (`InputIsExact`). For the first `StdinIInv` adds
what each point says of state, wait state and wakeup flags (`PointOK`): a killed reader may still be
linked and awake, and a node that a key press unlinked carries `WT_KBD`. For the second it describes the characters
read and those in the ring as one row (`Char`), which a read does not change at all and a key press extends or,
in a full ring, changes at its oldest unread place (`DataOK`); that rests on `Slot` being different for positions less
than the ring's size apart (`SlotFacts`).

The first part of `FileSystem_proofs`, about `Files`, for every number of threads, tables, descriptors and inodes: the counts of tables, files (`FilesAreHeld`)
and inodes (`CountsAreExact`) are exact, and a sleeping read keeps its file (`ReaderFindsItsFile`). `FilesIInv` adds
that a descriptor in use points to an inode and is held by somebody (`FilesHeld`): without it a closed file
might have no hold left, `ClosedFile` would not see a last one, and a table could be
destroyed with a file in it. The counts are cardinalities, so the argument is how each
cardinality changes when one element moves: a thread to another table or a table to another directory (`CountChange`), a
descriptor to another inode (`HolderAdded`, `HoldersRemoved`, both from `HoldersChange`, which splits
the holders of an inode by table).

Its second part, about `Sfs`, for every number of files and blocks and every size of blocks, inodes and index blocks: a block has
one owner (`BlocksHaveOneOwner`), a clean shutdown leaves on disk what was in memory (`ShutdownIsClean`), and what
a file keeps stays where it is (`DataIsKept`). `SfsIInv` adds two things. `DiskOK`: the disk has the size and
the pointers of every file that is not dirty, while its count of blocks may lag behind, but not below the direct
ones; that is what makes a reload safe. `CallOK`: a file has the blocks its size needs, except while it is being made
empty, and a call is at most one step ahead of that. The argument about pointers is made
for one inode and its index block (`PointerSet`, `PointerFound`, `IndexBlockSet`, `LastRemoved`) and carried to all
files by `OwnedMoves`: the blocks of one file change to some of its own and of the free ones. The panic of
`Mount` is never reached (`MountSucceeds`); those of `IOPanic`, `TruncatePanic` and `TruncateNothing` are (see Findings), and
the invariant holds when they happen.

`VirtualMemory_proofs`, for every number of address spaces, frames, pages and pages to a page table, and every
set of segments: no frame is shared or lost, and an address space has a page directory exactly while it exists (`MemFramesExact`), vmas are in order and pages lie under them
with their rights (`MemVmasExact`), the swap queue is that of the mapped pages and no entry survives `check_swap`
(`MemSwapExact`), `user_mem_check` asks every page for the right to read or to write (`MemUserMemCheckExact`), and private memory is
implemented (`MemPrivate`). `MemInv` is inductive (`MemAlways`) with these parts. `FramesOK` says that a
frame has one use at most and every frame of the pool one; that alone is not inductive, since `exit_mmap` frees
only what lies under a vma: `PagesOK` says that pages and page tables other than the directory are nowhere else. `ListsOK` has the
order for any two vmas and not only for neighbours. `AbsentOK` says that an address space that is not there has
nothing, which is what a new one starts from; `SwapOK` that every other one has a directory, which `put_pgdir` then frees, and that during `check_swap` there is no other, so that `swap_out` finds its victim
in the queue and the victim's entry at its address. `ValuesOK` and `CopyOK` are for the refinement: what a
page holds was written, and a child half copied has the last vmas of its parent and equal pages under them, so that
it can be shown all at once when the copy ends (while it is copied it is hidden: `Rights`, `Contents`). Each operation on
`memory` has a lemma about what it maps and leaves alone (`PageMapped`, `SwappedOut`, `DirectorySet`, `DestroyFacts`). `Destroy` adds frames to a set, in which one freed twice within the call would not show; that the pages,
the page tables and the directory are different frames is what `FramesExact` says of the state before. The recursive
function in `UserMemCheck` needs no induction: of the pages at which it differed from its closed form the last one would
be no such page (`AllowedStep`).

The rest of `Resources_proofs` is about `FirstFit` and `KernelHeap`, for every memory (regions that neither overlap
nor touch), every size of a page above three units and every set of sizes: the page list and the heap are exact
whatever is allocated, freed and refused (`HeapAlways`), and under the heap `default_pmm.c` keeps the promise of
`PageAllocator` at every step (`HeapPages`). The inductive invariant is `HeapInv` (`HeapInductive`). `PagesInv` has the
order of the free list for any two blocks. The merge loop of `default_free_pages` keeps `TurnOK`: whatever the
turn, the block merged so far, the blocks passed and those to come cover the same pages, and those passed
touch nothing; so the place it looks for afterwards is the right one (`PlaceFacts`, `FreeFacts`). `HeapOK`
says that the blocks in the list and those handed out (`Allocated`: the headers of small blocks and the
descriptors of big ones) tile the units of the heap's pages (`Tiles`), and that the list is a ring: each
block is followed by a gap and then the next one, or by `arena` (`RingOK`). A ring stays one from
wherever it is read (`RingTurned`), which is what moving `slobfree` does; `PlaceFound` says that the loop of `slob_free`
stops, at the only place where the ring stays in order. Splitting, taking, joining and adding a tile
have a lemma each, and `FreedFacts` and `CutFacts` combine them for `slob_free` and `slob_alloc`. `PendingOK` carries the
descriptor through the moment between the two allocations of a big block, in which it is neither free nor in
`bigblocks`. Both loops are recursive functions; a smallest counterexample replaces induction (`RunsExist`, which `DueIn` shares, and `TurnsEnd`).

The assumptions are the named `ASSUME`s of the modules (`ProcAssumption`,
`SemAssumption`, `StrideAssumption`, `PidAssumption`, `MonitorAssumption`, `PhilosophersAssumption`, ...): idle is one of
the threads, the sets are finite where a cardinality is taken, `MAX_PID` is above the number
of processes, as the code's own static assertion has it. `SizesAssumption` says of the sizes kmalloc is called with that
the halving in `find_order`, which rounds down, leaves room for them, and that `MaxRun` bounds the runs it asks for: 8193 bytes would get two pages, but the
only caller that asks for more than two pages, the buffer of the disk, asks for four. TLC evaluates each of them.

Only model-checked: everything under fairness (liveness and `ENABLED` are out of
the prover's reach) and `StrideHeap`, whose merge is recursive. Every other property of a passing run
is stated by a theorem above.

## Findings

* The stride class rests on the claim that strides in the queue never differ
  by more than the largest pass (`src/labcodes/lab6/memo-cdz/memo.md:239-241`). It
  holds, and is proved, for a fixed set of threads that keep running. A
  new process starts at stride 0 and a woken one at the stride it fell asleep with, so
  with forks and sleeps the claim and with it the choice of the least
  stride fails: run `stride_claim`.

Disagreements and oddities met on the way, that are in the models but have no run of their own:

* `process/proc.c:1175`, the comment of `do_kill`, says that a killed process exits only after it has reaped
  its children, and refers to `do_wait` ("要等到被kill的pid线程回收其子线程后,pid线程才会exit,之后才能被回收=> 详见do_wait").
  `do_wait` (`process/proc.c:1145-1147`) calls `do_exit` as soon as `schedule()` comes back to a killed process,
  and its children go to `init`. `KilledExits` states what the code does.
* `fs/devs/dev_stdin.c:41` and `:85` say that a key press wakes one waiting
  process. `wakeup_queue` wakes all of them; the ones that find nothing sleep again.
* `fs/sfs/sfs_inode.c:995`: a seek beyond the end that runs out of disk space leaves
  blocks beyond the size. Opening the file with `O_TRUNC` when its size is 0 then fails
  `assert(tblks == din->blocks)` (`Sfs!TruncateNothing`).
* `fs/sfs/sfs_inode.c:383`: a descriptor whose file was truncated through another one
  writes at its old position and fails `assert(index <= din->blocks)` (`Sfs!IOPanic`); if the position
  falls into the block after the last and the disk is full, the file gets a
  size without blocks instead.
* `fs/sfs/sfs.h:31`: the largest file size exceeds what direct and indirect pointers
  reach, so a long enough write stops the kernel instead of failing (`Sfs!IOPanic`, `Sfs!TruncatePanic`).
* `din->blocks` is raised without `sin->dirty` when the new block goes into an
  index block that exists; after a seek that failed half-way a reload
  forgets those blocks. They are found again, with their old contents, when the file grows
  (`Sfs!AddNothing`), which is why `CleanShutdown` says nothing about `blocks`.
* `fs/vfs/vfsfile.c:47`: opening an existing file with `O_CREAT` and `O_EXCL` keeps the
  reference of the lookup (`Files!OpenExclusive`; `lost` counts them, and `RefsExact` shows that nothing else is lost).
* `mm/swap.c:306-318`: `check_swap` does not give back its four frames and its page table
  (`VirtualMemory!EndCheck`).
* `mm/kmalloc.c:268`: `find_order` halves the size with truncation, so a request just above
  a page times a power of two, 8193 bytes for example, gets a block that is too small. No caller asks
  for such a size; the instance has sizes like those the kernel asks for.
* `process/proc.c:674`: a process that kills pid 1 makes `init_main` leave `do_wait` and call `do_exit`,
  which panics. It is a step of `Process`; no property forbids it.

## Not modelled

* System calls on files are not interleaved with each other: the kernel is not
  preempted and the disk driver polls, so no thread ever sleeps with a lock of the file system
  held. Its locks are therefore never contended; only `stdin` blocks.
* A power failure. The file system has no recovery: bitmap and super block are
  written at the end only, and `sfs_do_mount` asserts that they agree.
* Errors of the disk.
* Path lookup, directories and `stat`: string handling. Creating, removing and renaming
  files is not implemented in this kernel.
* Swapping after boot: `check_mm_struct` is `NULL` once `check_swap` is done, and a kernel that has no free page then
  loops in `alloc_pages`. `VirtualMemory` has no step for it; `SwapExact` says that no swap entry exists by then.
* The failure paths of `setup_pgdir` (`bad_pgdir_cleanup_mm` in `load_icode` and `copy_mm`): once `swap_init_ok` is set
  `alloc_pages` does not return without a page, so they are not taken. A `kmalloc` that fails in `mm_create`.
* A fork that fails for want of a kernel stack (`proc.c:634` keeps what was set up before), threads that share an
  address space (no program creates them), and `mm_brk` (no caller).
* The trap frame, the argument strings of `exec`, port I/O, formatting, start-up and symbol printing, the
  red-black tree (no caller), user programs and the image builder: straight-line code.
* The earlier labs and `src/labcodes_answer`. Most of the repository is some fifteen copies of this kernel at
  different stages; the maps of `PROJECT.json` point into one of them, `lab8`, which contains the others' code in its final form. The
  share of the whole tree they cover is small for that reason.

`PROJECT.json` has the status of each component.

## Plan

Done: threads, semaphores, timers, processes, pids, stride scheduling, page allocator, kernel heap,
virtual memory and swapping, monitors, both solutions of the philosophers, stdin, open files, block
management of the file system; the proofs above.

Left: models of the directories of the file system and of the failure paths of `do_fork`.
