------------------------------ MODULE Process ------------------------------
(***************************************************************************)
(* The life of a process in kern/process/proc.c: do_fork, do_exit, do_wait,*)
(* do_kill and the init_main thread that adopts and reaps orphans, over    *)
(* the scheduler core of module Sched.                                     *)
(*                                                                         *)
(* A member of Proc is a slot for a struct proc_struct and stands for its  *)
(* pid as well: a slot freed by do_wait may be used again, as a pid may.   *)
(* The cptr/optr/yptr list of a process's children is the sequence kids,   *)
(* youngest child first; the pointers themselves are not modelled.         *)
(***************************************************************************)
EXTENDS Sched

CONSTANTS init,         \* initproc
          AnyChild,     \* the pid 0 that makes do_wait take any child
          MAX_PROCESS   \* limit on nr_process

ASSUME ProcessAssumption ==
  /\ init \in Proc \ {idle}
  /\ AnyChild \notin Proc
  /\ MAX_PROCESS \in 2..Cardinality(Proc)

VARIABLES pc,        \* where each process is
          live,      \* the slots in use; all but idle are in proc_list and hash_list
          parent,    \* proc->parent
          kids,      \* the children of a process, youngest first
          exiting,   \* the processes with PF_EXITING in proc->flags
          waitpid    \* the pid argument of the process's do_wait

procVars == <<pc, live, parent, kids, exiting, waitpid>>
vars == <<schedVars, procVars>>

PC == {"unused", "user", "trap", "trap_sched", "wait_scan", "wait_sched",
       "wait_back", "exit_zombie", "exit_sched", "dead", "idle",
       "init_fork", "init_sched", "init_done", "panic"}

\* Types, and what do_exit and do_kill rely on when they test wait_state alone: a
\* process carries a reason exactly while it sleeps, and dead slots are blank.
TypeOK ==
  /\ SchedTypeOK
  /\ \A p \in Proc : (wait_state[p] = "CHILD") = (state[p] = "SLEEPING")
  /\ \A p \in Proc : (p \in live) = (state[p] # "UNINIT")
  /\ pc \in [Proc -> PC]
  /\ live \subseteq Proc
  /\ parent \in [Proc -> Proc]
  /\ kids \in [Proc -> Seq(Proc)]
  /\ exiting \subseteq Proc
  /\ waitpid \in [Proc -> Proc \cup {AnyChild}]

\* The end of proc_init: idle has created init and enters cpu_idle.
Init ==
  /\ state = [p \in Proc |-> IF p \in {idle, init} THEN "RUNNABLE" ELSE "UNINIT"]
  /\ wait_state = [p \in Proc |-> "NONE"]
  /\ current = idle
  /\ rq = {init}
  /\ need_resched = [p \in Proc |-> p = idle]
  /\ pc = [p \in Proc |-> IF p = idle THEN "idle"
                          ELSE IF p = init THEN "init_fork" ELSE "unused"]
  /\ live = {idle, init}
  /\ parent = [p \in Proc |-> idle]
  /\ kids = [p \in Proc |-> IF p = idle THEN <<init>> ELSE <<>>]
  /\ exiting = {}
  /\ waitpid = [p \in Proc |-> AnyChild]

At(p, point) == current = p /\ pc[p] = point
Goto(p, point) == pc' = [pc EXCEPT ![p] = point]
Children(p) == ToSet(kids[p])

\* nr_process: idle and everything in proc_list.
NrProcess == Cardinality(live)

-----------------------------------------------------------------------------
\* do_fork into the free slot c: alloc_proc, set_links and wakeup_proc.  The
\* steps before set_links that can fail leave no trace that is visible here.
Fork(p, c) ==
  /\ At(p, "user") \/ At(p, "init_fork")
  /\ c \in Proc \ live
  /\ NrProcess < MAX_PROCESS
  /\ live' = live \cup {c}
  /\ parent' = [parent EXCEPT ![c] = p]
  /\ kids' = [kids EXCEPT ![p] = Cons(c, @)]
  /\ pc' = [pc EXCEPT ![c] = "user", ![p] = IF p = init THEN "wait_scan" ELSE "trap"]
  /\ WakeupAll({c})
  /\ UNCHANGED <<current, need_resched, exiting, waitpid>>

-----------------------------------------------------------------------------
\* do_wait(pid): the scan starts.
Wait(p, pid) ==
  /\ At(p, "user")
  /\ waitpid' = [waitpid EXCEPT ![p] = pid]
  /\ Goto(p, "wait_scan")
  /\ UNCHANGED <<schedVars, live, parent, kids, exiting>>

\* Mutant: the parent of a child named by its pid is not compared with current.
AwaitedOfAnyone(p) ==
  {c \in live : IF waitpid[p] = AnyChild THEN parent[c] = p ELSE c = waitpid[p]}

\* The children do_wait looks at: one found by pid, or all of them.
Awaited(p) == {c \in live : parent[c] = p /\ waitpid[p] \in {c, AnyChild}}

\* The exited child a walk along the list meets first.
YoungestZombie(p) == kids[p][SelectInSeq(kids[p], LAMBDA c : state[c] = "ZOMBIE")]

\* The scan meets an exited child: out of hash_list and proc_list, memory freed
\* (a free slot holds the values alloc_proc gives it).  With pid 0 the list is
\* walked from the youngest child.  init_main goes on to call schedule().
WaitReap(p, z) ==
  /\ At(p, "wait_scan")
  /\ z \in Awaited(p)
  /\ state[z] = "ZOMBIE"
  /\ waitpid[p] = AnyChild => z = YoungestZombie(p)
  /\ live' = live \ {z}
  /\ kids' = [kids EXCEPT ![p] = RemoveFirst(@, z)]
  /\ state' = [state EXCEPT ![z] = "UNINIT"]
  /\ parent' = [parent EXCEPT ![z] = idle]
  /\ exiting' = exiting \ {z}
  /\ waitpid' = [waitpid EXCEPT ![p] = AnyChild]
  /\ pc' = [pc EXCEPT ![z] = "unused",
                      ![p] = IF p = init THEN "init_sched" ELSE "trap"]
  /\ UNCHANGED <<wait_state, current, rq, need_resched>>

\* haskid, and no exited one.
MustWait(p) == Awaited(p) # {} /\ \A c \in Awaited(p) : state[c] # "ZOMBIE"

\* The scan meets children but no exited one: sleep; schedule() is still to come.
WaitSleep(p) ==
  /\ At(p, "wait_scan")
  /\ MustWait(p)
  /\ SetSleeping(p, "CHILD")
  /\ Goto(p, "wait_sched")
  /\ UNCHANGED <<current, rq, need_resched, live, parent, kids, exiting, waitpid>>

\* The scan meets nobody to wait for: -E_BAD_PROC, which ends the loop of init_main.
WaitNobody(p) ==
  /\ At(p, "wait_scan")
  /\ Awaited(p) = {}
  /\ waitpid' = [waitpid EXCEPT ![p] = AnyChild]
  /\ Goto(p, IF p = init THEN "init_done" ELSE "trap")
  /\ UNCHANGED <<schedVars, live, parent, kids, exiting>>

\* Mutant: do_wait does not look at PF_EXITING.
WaitAgainKilled(p) ==
  /\ At(p, "wait_back")
  /\ Goto(p, "wait_scan")
  /\ UNCHANGED <<schedVars, live, parent, kids, exiting, waitpid>>

\* schedule() is back in do_wait: scan again unless the process was killed.
WaitAgain(p) ==
  /\ At(p, "wait_back")
  /\ p \notin exiting
  /\ Goto(p, "wait_scan")
  /\ UNCHANGED <<schedVars, live, parent, kids, exiting, waitpid>>

-----------------------------------------------------------------------------
\* do_exit up to state = PROC_ZOMBIE, from sys_exit, from the tail of trap() or
\* from do_wait for a killed process; init must never get here.
Exit(p) ==
  /\ \/ At(p, "user")
     \/ (At(p, "trap") \/ At(p, "wait_back")) /\ p \in exiting
  /\ IF p = init
       THEN /\ Goto(p, "panic")
            /\ UNCHANGED state
       ELSE /\ state' = [state EXCEPT ![p] = "ZOMBIE"]
            /\ Goto(p, "exit_zombie")
  /\ UNCHANGED <<wait_state, current, rq, need_resched, live, parent, kids,
                 exiting, waitpid>>

\* Mutant: only init is told, and only of children it inherits.
NotifiedInitOnly(p) ==
  {q \in {init} : /\ wait_state[q] = "CHILD"
                  /\ \E c \in Children(p) : state[c] = "ZOMBIE"}

\* Mutant: init is not told of the exited children it inherits.
NotifiedParentOnly(p) == {q \in {parent[p]} : wait_state[q] = "CHILD"}

\* Whom do_exit wakes: the parent if it waits for a child, and init if it waits
\* and inherits a child that has already exited.
Notified(p) ==
  {q \in {parent[p]} : wait_state[q] = "CHILD"} \cup
  {q \in {init} : /\ wait_state[q] = "CHILD"
                  /\ \E c \in Children(p) : state[c] = "ZOMBIE"}

\* Mutant: the children keep their dead parent.
InheritNothing(p) == UNCHANGED <<parent, kids>>

\* The loop of do_exit that hands the children to init, each in front of the last.
Inherit(p) ==
  /\ kids' = [kids EXCEPT ![p] = <<>>, ![init] = Reverse(kids[p]) \o @]
  /\ parent' = [c \in Proc |-> IF c \in Children(p) THEN init ELSE parent[c]]

\* do_exit with interrupts off: tell the parent, give the children away.
ExitNotify(p) ==
  /\ At(p, "exit_zombie")
  /\ WakeupAll(Notified(p))
  /\ Inherit(p)
  /\ Goto(p, "exit_sched")
  /\ UNCHANGED <<current, need_resched, live, exiting, waitpid>>

-----------------------------------------------------------------------------
\* do_kill(pid): every process in hash_list can be named, init included.
Kill(p, q) ==
  /\ At(p, "user")
  /\ q \in live \ {idle}
  /\ q \notin exiting
  /\ exiting' = exiting \cup {q}
  /\ WakeupAll({x \in {q} : wait_state[x] \in Interruptible})
  /\ Goto(p, "trap")
  /\ UNCHANGED <<current, need_resched, live, parent, kids, waitpid>>

\* The tail of trap() for a process that is not being killed.
TrapReturn(p) ==
  /\ At(p, "trap")
  /\ p \notin exiting
  /\ Goto(p, IF need_resched[p] THEN "trap_sched" ELSE "user")
  /\ UNCHANGED <<schedVars, live, parent, kids, exiting, waitpid>>

\* The point a process resumes from when schedule() returns to it.
AfterSchedule == [trap_sched |-> "user", wait_sched |-> "wait_back",
                  exit_sched |-> "dead", init_sched |-> "wait_scan", idle |-> "idle"]

SwitchTo(p, next) ==
  /\ current = p
  /\ pc[p] \in {"trap_sched", "wait_sched", "exit_sched", "init_sched"}
     \/ (pc[p] = "idle" /\ need_resched[p])
  /\ ScheduleTo(next)
  /\ Goto(p, AfterSchedule[pc[p]])
  /\ UNCHANGED <<live, parent, kids, exiting, waitpid>>

\* The kernel panicked, or init_main has returned and idle powers the machine off.
Halted == pc[init] \in {"panic", "init_done"}

\* The timer interrupt.
TimerIRQ ==
  /\ ~Halted
  /\ ProcTick
  /\ IF pc[current] = "user" THEN Goto(current, "trap") ELSE UNCHANGED pc
  /\ UNCHANGED <<state, wait_state, current, rq, live, parent, kids, exiting, waitpid>>

-----------------------------------------------------------------------------
\* A system call of the user program p.
SystemCall(p) ==
  \/ \E c \in Proc : (p # init /\ Fork(p, c)) \/ Kill(p, c)
  \/ \E pid \in Proc \cup {AnyChild} : Wait(p, pid)
  \/ p \notin exiting /\ Exit(p)

\* Kernel code of p that runs on by itself.
KernelStep(p) ==
  \/ \E c \in Proc : (p = init /\ Fork(p, c)) \/ WaitReap(p, c) \/ SwitchTo(p, c)
  \/ WaitSleep(p) \/ WaitNobody(p) \/ WaitAgain(p)
  \/ p \in exiting /\ Exit(p)
  \/ ExitNotify(p)
  \/ TrapReturn(p)

Next == (\E p \in Proc : SystemCall(p) \/ KernelStep(p)) \/ TimerIRQ

Spec == Init /\ [][Next]_vars

\* The running process executes its kernel code to the end of the call, the timer
\* ticks, and the scheduling policy passes no runnable process over for ever.
Fairness ==
  /\ WF_vars(TimerIRQ /\ need_resched'[current])
  /\ \A p \in Proc : WF_vars(KernelStep(p))
  /\ \A p \in Proc \ {idle} : SF_vars(\E q \in Proc : SwitchTo(q, p))

FairSpec == Spec /\ Fairness

-----------------------------------------------------------------------------
\* The process tree is whole: every process but idle is listed exactly once, by
\* its own parent, which still exists; free slots appear nowhere in it.
TreeWhole ==
  /\ \A p \in live \ {idle} : parent[p] \in live /\ p \in Children(parent[p])
  /\ \A p \in Proc :
       /\ IsInjective(kids[p])
       /\ \A c \in Children(p) : c \in live /\ parent[c] = p
       /\ p \notin live => kids[p] = <<>>

\* An exited process has given all its children away before it lets anyone run,
\* so no process is left with a parent that will never wait for it.
NoDeadParent ==
  \A p \in live \ {idle} :
    state[parent[p]] = "ZOMBIE" => pc[parent[p]] = "exit_zombie"

\* The process table is sound, between any two steps of any processes: the tree is
\* whole, nobody hangs on a dead parent, and the run queue holds just who can run.
TableInv == TypeOK /\ RunQueueExact /\ TreeWhole /\ NoDeadParent

\* No exit goes unnoticed: a process asleep in do_wait has no exited child that it
\* waits for, whether the child exited before, after or as an inherited orphan.
NoLostExit ==
  pc[current] # "exit_zombie" =>
    \A p \in live : state[p] = "SLEEPING" =>
      /\ wait_state[p] = "CHILD"
      /\ MustWait(p)

\* The assertions at the end of init_main: once do_wait tells init that it has no
\* child, only idle and init are left and nr_process is 2.
InitMainAssertions ==
  pc[init] = "init_done" =>
    /\ kids[init] = <<>> /\ kids[idle] = <<init>>
    /\ NrProcess = 2

\* Only do_wait of the parent frees a process, and only one that has exited and
\* left its kernel stack for good.
OnlyParentReaps ==
  [][\A p \in live \ live' :
       /\ state[p] = "ZOMBIE" /\ pc[p] = "dead"
       /\ current = parent[p]]_vars

\* init reaps every exited process that it fathered or inherited.
OrphansReaped ==
  \A p \in Proc :
    (p \in live /\ state[p] = "ZOMBIE" /\ parent[p] = init) ~>
      (p \notin live \/ Halted)

\* A killed process exits, whether the kill found it running, ready or asleep in
\* do_wait; only when the kill lands after trap() has tested PF_EXITING may it go
\* to sleep in do_wait once more, until a child that is still running exits.
\* (A killed init meets do_exit's panic instead, or never sleeps again.)
\* One that was killed while it slept in do_wait never waits again: do_wait tests
\* PF_EXITING when schedule() comes back.
\* The comment of do_kill says that a killed process exits only after it has reaped
\* its children; do_wait does not do so, it calls do_exit, which gives them to init,
\* and the property states that.
KilledExits ==
  /\ \A p \in Proc \ {init} :
       (p \in live /\ p \in exiting) ~>
         (p \notin live \/ state[p] \in {"ZOMBIE", "SLEEPING"} \/ Halted)
  /\ \A p \in Proc :
       (p \in exiting /\ state[p] = "RUNNABLE" /\ pc[p] = "wait_back") ~>
         (state[p] = "ZOMBIE" \/ Halted)
=============================================================================
