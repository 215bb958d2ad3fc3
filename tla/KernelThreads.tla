--------------------------- MODULE KernelThreads ---------------------------
(***************************************************************************)
(* Threads that block, sleep, are killed and exit on ucore's single        *)
(* non-preemptive kernel: kern/sync/sem.c and wait.c (semaphores), do_sleep,*)
(* do_kill, do_yield and the end of do_exit in kern/process/proc.c, the    *)
(* timer interrupt and the tail of trap() in kern/trap/trap.c.             *)
(*                                                                         *)
(* A thread moves through program points pc: one action runs from one      *)
(* point where an interrupt or a thread switch can happen to the next.     *)
(* Durations are abstracted: a pending timer may expire at any tick        *)
(* (module TimerList models the list that counts).                         *)
(***************************************************************************)
EXTENDS Sched

CONSTANTS Sem,          \* the kernel semaphores
          InitValue,    \* InitValue[s]: the value sem_init gives s
          MaxPermits    \* bound: no up() once this many permits are out

ASSUME SemAssumption ==
  /\ Sem # {}
  /\ InitValue \in [Sem -> Nat]
  /\ MaxPermits \in Nat

VARIABLES pc,            \* where each thread is
          exiting,       \* the threads with PF_EXITING in proc->flags
          value,         \* sem->value
          queue,         \* sem->wait_queue, first waiter first
          wsem,          \* the semaphore of the thread's last __down that slept
          wakeup_flags,  \* wait->wakeup_flags of the thread's wait node
          timers,        \* the threads whose timer_t is linked in timer_list
          credit         \* history: permits given minus downs granted

threadVars == <<pc, exiting, value, queue, wsem, wakeup_flags, timers, credit>>
vars == <<schedVars, threadVars>>

PC == {"user", "kern", "trap", "trap_sched", "down_sched", "down_wait",
       "sleep_sched", "sleep_wait", "exit_sched", "dead", "idle"}

Waiters(s) == ToSet(queue[s])

\* The threads an up() has handed a permit to and that have not run since.
Granted(s) == {p \in Proc : /\ pc[p] = "down_wait"
                            /\ wsem[p] = s
                            /\ p \notin Waiters(s)}

TypeOK ==
  /\ SchedTypeOK
  /\ pc \in [Proc -> PC]
  /\ exiting \subseteq Proc
  /\ value \in [Sem -> Nat]
  /\ queue \in [Sem -> Seq(Proc)]
  /\ wsem \in [Proc -> Sem]
  /\ wakeup_flags \in [Proc -> {"INTERRUPTED", "KSEM"}]
  /\ timers \subseteq Proc
  /\ credit \in [Sem -> Nat]

\* idleproc has just entered cpu_idle; the other threads are ready to run.
Init ==
  /\ state = [p \in Proc |-> "RUNNABLE"]
  /\ wait_state = [p \in Proc |-> "NONE"]
  /\ current = idle
  /\ rq = Proc \ {idle}
  /\ need_resched = [p \in Proc |-> p = idle]
  /\ pc = [p \in Proc |-> IF p = idle THEN "idle" ELSE "user"]
  /\ exiting = {}
  /\ value = InitValue
  /\ queue = [s \in Sem |-> <<>>]
  /\ wsem = [p \in Proc |-> CHOOSE s \in Sem : TRUE]
  /\ wakeup_flags = [p \in Proc |-> "INTERRUPTED"]
  /\ timers = {}
  /\ credit = InitValue

At(p, point) == current = p /\ pc[p] = point
Goto(p, point) == pc' = [pc EXCEPT ![p] = point]

-----------------------------------------------------------------------------
\* A user program enters the kernel through the system call gate.
Syscall(p) ==
  /\ At(p, "user")
  /\ Goto(p, "kern")
  /\ UNCHANGED <<schedVars, exiting, value, queue, wsem, wakeup_flags, timers, credit>>

\* if (sem->value > 0)
PermitLeft(s) == value[s] > 0

\* Mutant: __up never looks at the queue.
NobodyAsked(s) == TRUE

\* wait_queue_first(&(sem->wait_queue)) == NULL
NobodyWaits(s) == queue[s] = <<>>

\* __down on a semaphore with a permit left, and try_down that succeeds.
DownFast(p, s) ==
  /\ At(p, "kern")
  /\ PermitLeft(s)
  /\ value' = [value EXCEPT ![s] = @ - 1]
  /\ credit' = [credit EXCEPT ![s] = @ - 1]
  /\ UNCHANGED <<schedVars, pc, exiting, queue, wsem, wakeup_flags, timers>>

\* __down without a permit: wait_current_set links a wait node on the thread's
\* kernel stack at the tail of the queue; schedule() is still to come.
DownBlock(p, s) ==
  /\ At(p, "kern")
  /\ ~PermitLeft(s)
  /\ SetSleeping(p, "KSEM")
  /\ queue' = [queue EXCEPT ![s] = Append(@, p)]
  /\ wsem' = [wsem EXCEPT ![p] = s]
  /\ wakeup_flags' = [wakeup_flags EXCEPT ![p] = "INTERRUPTED"]
  /\ Goto(p, "down_sched")
  /\ UNCHANGED <<current, rq, need_resched, exiting, value, timers, credit>>

\* __down after schedule() returned: wait_current_del takes the node out of the
\* queue if it is still there, then down() asserts that it was not interrupted.
DownReturn(p) ==
  /\ At(p, "down_wait")
  /\ queue' = IF p \in Waiters(wsem[p])
                THEN [queue EXCEPT ![wsem[p]] = Remove(@, p)] ELSE queue
  /\ credit' = [credit EXCEPT ![wsem[p]] = @ - 1]
  /\ Goto(p, "kern")
  /\ UNCHANGED <<schedVars, exiting, value, wsem, wakeup_flags, timers>>

\* __up with nobody waiting.
UpFree(p, s) ==
  /\ At(p, "kern")
  /\ credit[s] < MaxPermits
  /\ NobodyWaits(s)
  /\ value' = [value EXCEPT ![s] = @ + 1]
  /\ credit' = [credit EXCEPT ![s] = @ + 1]
  /\ UNCHANGED <<schedVars, pc, exiting, queue, wsem, wakeup_flags, timers>>

\* __up with a waiter: the permit is handed to the first one and the value
\* does not change.
UpHandOff(p, s) ==
  /\ At(p, "kern")
  /\ credit[s] < MaxPermits
  /\ ~NobodyWaits(s)
  /\ LET first == Head(queue[s]) IN
       /\ queue' = [queue EXCEPT ![s] = Tail(@)]
       /\ wakeup_flags' = [wakeup_flags EXCEPT ![first] = "KSEM"]
       /\ WakeupAll({first})
  /\ credit' = [credit EXCEPT ![s] = @ + 1]
  /\ UNCHANGED <<current, need_resched, pc, exiting, value, wsem, timers>>

\* do_sleep up to the interrupt enable before schedule().
Sleep(p) ==
  /\ At(p, "kern")
  /\ SetSleeping(p, "TIMER")
  /\ timers' = timers \cup {p}
  /\ Goto(p, "sleep_sched")
  /\ UNCHANGED <<current, rq, need_resched, exiting, value, queue, wsem,
                 wakeup_flags, credit>>

\* Mutant: do_sleep relies on run_timer_list to have unlinked the timer.
TimerLeft(p) == timers

\* del_timer(&__timer) for the timer on p's stack.
TimerDeleted(p) == timers \ {p}

\* do_sleep after schedule() returned: del_timer, whoever woke the thread.
SleepReturn(p) ==
  /\ At(p, "sleep_wait")
  /\ timers' = TimerDeleted(p)
  /\ Goto(p, "kern")
  /\ UNCHANGED <<schedVars, exiting, value, queue, wsem, wakeup_flags, credit>>

\* do_kill: mark q and wake it if its sleep may be interrupted.
Kill(p, q) ==
  /\ At(p, "kern")
  /\ q # idle
  /\ q \notin exiting
  /\ exiting' = exiting \cup {q}
  /\ WakeupAll({x \in {q} : wait_state[x] \in Interruptible})
  /\ UNCHANGED <<current, need_resched, pc, value, queue, wsem, wakeup_flags,
                 timers, credit>>

\* do_yield only asks for a switch; the tail of trap() makes it.
Yield(p) ==
  /\ At(p, "kern")
  /\ need_resched' = [need_resched EXCEPT ![p] = TRUE]
  /\ UNCHANGED <<state, wait_state, current, rq, threadVars>>

\* ! (current->flags & PF_EXITING)
MayReturn(p) == p \notin exiting

\* The tail of trap() on the way back to user mode: a thread that is not being
\* killed goes to schedule() if asked to, else straight back.
TrapReturn(p) ==
  /\ At(p, "kern") \/ At(p, "trap")
  /\ MayReturn(p)
  /\ Goto(p, IF need_resched[p] THEN "trap_sched" ELSE "user")
  /\ UNCHANGED <<schedVars, exiting, value, queue, wsem, wakeup_flags, timers, credit>>

\* do_exit, from sys_exit or for a killed thread from the tail of trap().
Exit(p) ==
  /\ At(p, "kern") \/ (At(p, "trap") /\ p \in exiting)
  /\ state' = [state EXCEPT ![p] = "ZOMBIE"]
  /\ Goto(p, "exit_sched")
  /\ UNCHANGED <<wait_state, current, rq, need_resched, exiting, value, queue,
                 wsem, wakeup_flags, timers, credit>>

\* The point a thread resumes from when schedule() returns to it.
AfterSchedule == [trap_sched |-> "user", down_sched |-> "down_wait",
                  sleep_sched |-> "sleep_wait", exit_sched |-> "dead",
                  idle |-> "idle"]

\* schedule(), called by p, gives the CPU to next.
SwitchTo(p, next) ==
  /\ current = p
  /\ pc[p] \in {"trap_sched", "down_sched", "sleep_sched", "exit_sched"}
     \/ (pc[p] = "idle" /\ need_resched[p])
  /\ ScheduleTo(next)
  /\ Goto(p, AfterSchedule[pc[p]])
  /\ UNCHANGED <<exiting, value, queue, wsem, wakeup_flags, timers, credit>>

\* The timer interrupt: run_timer_list wakes the threads whose timers run out
\* and takes those timers off the list, then charges the tick to the running
\* thread.  Out of user mode it enters the kernel, inside it just returns.
TimerIRQ(expired) ==
  /\ WakeupAll(expired)
  /\ timers' = timers \ expired
  /\ ProcTick
  /\ IF pc[current] = "user" THEN Goto(current, "trap") ELSE UNCHANGED pc
  /\ UNCHANGED <<current, exiting, value, queue, wsem, wakeup_flags, credit>>

-----------------------------------------------------------------------------
\* What a thread does apart from do_sleep.
WakefulStep(p) ==
  \/ Syscall(p)
  \/ \E s \in Sem : DownFast(p, s) \/ DownBlock(p, s) \/ UpFree(p, s) \/ UpHandOff(p, s)
  \/ DownReturn(p)
  \/ \E q \in Proc : Kill(p, q)
  \/ Yield(p)
  \/ TrapReturn(p)
  \/ Exit(p)
  \/ \E next \in Proc : SwitchTo(p, next)

Step(p) == WakefulStep(p) \/ Sleep(p) \/ SleepReturn(p)

Tick == \E expired \in SUBSET timers : TimerIRQ(expired)

Next == (\E p \in Proc : Step(p)) \/ Tick

Spec == Init /\ [][Next]_vars

-----------------------------------------------------------------------------
\* Nobody sleeps without a node that will wake him: a thread asleep on a
\* semaphore is in that semaphore's queue and a thread in do_sleep has its timer
\* on the list, whatever kills and ticks came between the sleep and schedule().
NoLostSleeper ==
  \A p \in Proc : state[p] = "SLEEPING" =>
    \/ wait_state[p] = "KSEM" /\ p \in Waiters(wsem[p])
    \/ wait_state[p] = "TIMER" /\ p \in timers

\* Wait nodes and timers live on the kernel stack of the thread that linked
\* them, so one may be linked only while its owner is inside __down or do_sleep,
\* and a wait node only in one queue, once.
StackNodesLive ==
  /\ \A s \in Sem :
       /\ IsInjective(queue[s])
       /\ \A p \in Waiters(s) : wsem[p] = s /\ pc[p] \in {"down_sched", "down_wait"}
  /\ \A p \in timers : pc[p] \in {"sleep_sched", "sleep_wait"}

\* The assertion of __up: whoever stands in a semaphore queue still sleeps with
\* wait_state WT_KSEM, so no kill and no tick ever woke it there.
WaitersAsleep ==
  \A s \in Sem : \A p \in Waiters(s) :
    state[p] = "SLEEPING" /\ wait_state[p] = "KSEM"

\* A semaphore never has a permit left and a thread waiting at the same time.
NoIdlePermit ==
  \A s \in Sem : value[s] > 0 => queue[s] = <<>>

\* Permits are neither lost nor made: what was put in and not yet taken out is
\* the value plus the permits handed to threads that have not run since.
Conservation ==
  \A s \in Sem : credit[s] = value[s] + Cardinality(Granted(s))

\* The assertion of down(): __down returns 0, that is a thread leaves its sleep
\* on a semaphore only because an up() woke it.
DownNotInterrupted ==
  \A p \in Proc : At(p, "down_wait") =>
    p \notin Waiters(wsem[p]) /\ wakeup_flags[p] = "KSEM"

\* A sleeper can be woken, its nodes are where they may be, and it leaves a
\* semaphore only with a permit.
SleepersSafe == StackNodesLive /\ NoLostSleeper /\ DownNotInterrupted

\* Only an up() on its semaphore, and only for the first in line, ends a wait on
\* a semaphore; in particular a kill does not.
OnlyUpEndsAWait ==
  [][\A p \in Proc :
       (state[p] = "SLEEPING" /\ wait_state[p] = "KSEM" /\ state'[p] = "RUNNABLE") =>
         /\ p = Head(queue[wsem[p]])
         /\ queue'[wsem[p]] = Tail(queue[wsem[p]])
         /\ credit'[wsem[p]] = credit[wsem[p]] + 1]_vars

\* The contract of sem.c: whatever kills, ticks and switches come in between, these
\* are semaphores that hand each permit to the thread that has waited longest.
Sm == INSTANCE Semaphores WITH granted <- [s \in Sem |-> Granted(s)]
ImplementsSemaphores == Sm!Spec

-----------------------------------------------------------------------------
\* What a thread's program point says about its state: the strengthening that
\* makes the invariants above inductive (proved in KernelThreads_proofs).
PointOK(p) ==
  /\ p = idle <=> pc[p] = "idle"
  /\ pc[p] \in {"exit_sched", "dead"} <=> state[p] = "ZOMBIE"
  /\ pc[p] \in {"user", "kern", "trap", "trap_sched", "idle"} => state[p] = "RUNNABLE"
  /\ p # current => pc[p] \in {"user", "down_wait", "sleep_wait", "dead", "idle"}
  /\ p = current => pc[p] # "dead"
  /\ p = current /\ pc[p] \in {"down_wait", "sleep_wait"} => state[p] = "RUNNABLE"

SleepOK(p) ==
  /\ state[p] # "UNINIT"
  /\ state[p] # "SLEEPING" => wait_state[p] = "NONE"
  /\ pc[p] = "down_sched" => state[p] = "SLEEPING"
  /\ pc[p] \in {"down_sched", "down_wait"} =>
       \/ state[p] = "SLEEPING" /\ wait_state[p] = "KSEM" /\ p \in Waiters(wsem[p])
       \/ state[p] = "RUNNABLE" /\ wakeup_flags[p] = "KSEM"
  /\ pc[p] \in {"sleep_sched", "sleep_wait"} /\ state[p] = "SLEEPING" =>
       wait_state[p] = "TIMER" /\ p \in timers

IInv ==
  /\ TypeOK
  /\ RunQueueExact
  /\ ReschedOnlyCurrent
  /\ StackNodesLive
  /\ WaitersAsleep
  /\ NoIdlePermit
  /\ Conservation
  /\ \A p \in Proc : PointOK(p) /\ SleepOK(p)
=============================================================================
