------------------------------- MODULE Stdin -------------------------------
(***************************************************************************)
(* The keyboard device of kern/fs/devs/dev_stdin.c: characters put into a  *)
(* ring buffer by the keyboard interrupt, and threads that read them or    *)
(* sleep in a wait queue (kern/sync/wait.c) until there are some.          *)
(*                                                                         *)
(* A character is the number of the key press that made it.                *)
(***************************************************************************)
EXTENDS Sched

CONSTANTS STDIN_BUFSIZE,   \* the size of stdin_buffer
          MaxLen,          \* bound: the longest read
          MaxTyped         \* bound: key presses

ASSUME StdinAssumption ==
  STDIN_BUFSIZE \in Nat \ {0} /\ MaxLen \in Nat \ {0} /\ MaxTyped \in Nat

VARIABLES pc,             \* where each thread is
          exiting,        \* the threads with PF_EXITING in proc->flags
          stdin_buffer,   \* the ring; 0 where nothing was written yet
          p_rpos, p_wpos, \* how many characters were read and written
          wait_queue,     \* the threads with a linked wait node
          wakeup_flags,   \* wait->wakeup_flags of the thread's wait node
          len,            \* what is left of the thread's read
          got,            \* history: the characters read, in order
          typed           \* history: the key presses so far

devVars == <<stdin_buffer, p_rpos, p_wpos, wait_queue, wakeup_flags, len, got, typed>>
vars == <<schedVars, pc, exiting, devVars>>

TypeOK ==
  /\ SchedTypeOK
  /\ pc \in [Proc -> {"user", "trap", "trap_sched", "read", "read_sched", "read_wait",
                      "exit_sched", "dead", "idle"}]
  /\ exiting \subseteq Proc
  /\ stdin_buffer \in [0..STDIN_BUFSIZE - 1 -> 0..MaxTyped]
  /\ p_rpos \in 0..p_wpos /\ p_wpos - p_rpos <= STDIN_BUFSIZE
  /\ wait_queue \in Seq(Proc)
  /\ wakeup_flags \in [Proc -> {"INTERRUPTED", "KBD"}]
  /\ len \in [Proc -> 0..MaxLen]

Init ==
  /\ state = [p \in Proc |-> "RUNNABLE"]
  /\ wait_state = [p \in Proc |-> "NONE"]
  /\ current = idle
  /\ rq = Proc \ {idle}
  /\ need_resched = [p \in Proc |-> p = idle]
  /\ pc = [p \in Proc |-> IF p = idle THEN "idle" ELSE "user"]
  /\ exiting = {}
  /\ stdin_buffer = [i \in 0..STDIN_BUFSIZE - 1 |-> 0]
  /\ p_rpos = 0 /\ p_wpos = 0
  /\ wait_queue = <<>>
  /\ wakeup_flags = [p \in Proc |-> "INTERRUPTED"]
  /\ len = [p \in Proc |-> 0]
  /\ got = <<>>
  /\ typed = 0

At(p, point) == current = p /\ pc[p] = point
Goto(p, point) == pc' = [pc EXCEPT ![p] = point]
Waiters == ToSet(wait_queue)
Slot(pos) == pos % STDIN_BUFSIZE

\* The unread characters, oldest first.
Unread == [i \in 1..p_wpos - p_rpos |-> stdin_buffer[Slot(p_rpos + i - 1)]]

-----------------------------------------------------------------------------
\* Mutant: the write position runs on when the buffer is full.
AdvancedAlways == p_wpos + 1

\* p_wpos only moves while there is room.
Advanced == IF p_wpos - p_rpos < STDIN_BUFSIZE THEN p_wpos + 1 ELSE p_wpos

\* Mutant: the first reader only.
WakeupCountOne == IF wait_queue = <<>> THEN 0 ELSE 1

\* wakeup_queue(wait_queue, WT_KBD, 1) unlinks nodes at the head until none is left.
WakeupCount == Len(wait_queue)
Woken == ToSet(SubSeq(wait_queue, 1, WakeupCount))

\* IRQ_KBD: dev_stdin_write(c).  In a full buffer the new character replaces the
\* oldest unread one.
KeyPress ==
  /\ typed < MaxTyped
  /\ typed' = typed + 1
  /\ stdin_buffer' = [stdin_buffer EXCEPT ![Slot(p_wpos)] = typed']
  /\ p_wpos' = Advanced
  /\ wakeup_flags' = [p \in Proc |-> IF p \in Woken THEN "KBD" ELSE wakeup_flags[p]]
  /\ wait_queue' = SubSeq(wait_queue, WakeupCount + 1, Len(wait_queue))
  /\ WakeupAll(Woken)
  /\ IF pc[current] = "user" THEN Goto(current, "trap") ELSE UNCHANGED pc
  /\ UNCHANGED <<current, need_resched, exiting, p_rpos, len, got>>

\* read(0, buf, n): the system call gets to dev_stdin_read.
Read(p, n) ==
  /\ At(p, "user")
  /\ len' = [len EXCEPT ![p] = n]
  /\ Goto(p, "read")
  /\ UNCHANGED <<schedVars, exiting, stdin_buffer, p_rpos, p_wpos, wait_queue,
                 wakeup_flags, got, typed>>

\* The loop of dev_stdin_read, interrupts off, for a thread whose node is not in
\* the queue q: take what is there; if that is not enough, sleep at its tail.
Take(p, q) ==
  LET k == IF len[p] <= p_wpos - p_rpos THEN len[p] ELSE p_wpos - p_rpos IN
  /\ got' = got \o SubSeq(Unread, 1, k)
  /\ p_rpos' = p_rpos + k
  /\ len' = [len EXCEPT ![p] = @ - k]
  /\ IF k = len[p]
       THEN /\ Goto(p, "trap")
            /\ wait_queue' = q
            /\ UNCHANGED <<state, wait_state, wakeup_flags>>
       ELSE /\ SetSleeping(p, "KBD")
            /\ wait_queue' = Append(q, p)
            /\ wakeup_flags' = [wakeup_flags EXCEPT ![p] = "INTERRUPTED"]
            /\ Goto(p, "read_sched")

ReadStart(p) ==
  /\ At(p, "read")
  /\ Take(p, wait_queue)
  /\ UNCHANGED <<current, rq, need_resched, exiting, stdin_buffer, p_wpos, typed>>

\* wait_current_del
NodeDeleted(p) == IF p \in Waiters THEN RemoveFirst(wait_queue, p) ELSE wait_queue

\* Mutant: why the thread was woken is not asked.
ReadResumeAnyhow(p) ==
  /\ At(p, "read_wait")
  /\ Take(p, NodeDeleted(p))
  /\ UNCHANGED <<current, rq, need_resched, exiting, stdin_buffer, p_wpos, typed>>

\* schedule() is back in dev_stdin_read: read on if a key press woke the thread,
\* else give up with what it has.
ReadResume(p) ==
  /\ At(p, "read_wait")
  /\ IF wakeup_flags[p] = "KBD" THEN Take(p, NodeDeleted(p))
     ELSE /\ wait_queue' = NodeDeleted(p)
          /\ len' = [len EXCEPT ![p] = 0]
          /\ Goto(p, "trap")
          /\ UNCHANGED <<state, wait_state, wakeup_flags, p_rpos, got>>
  /\ UNCHANGED <<current, rq, need_resched, exiting, stdin_buffer, p_wpos, typed>>

\* do_kill of another thread.
Kill(p, q) ==
  /\ At(p, "user")
  /\ q # idle /\ q \notin exiting
  /\ exiting' = exiting \cup {q}
  /\ WakeupAll({x \in {q} : wait_state[x] \in Interruptible})
  /\ Goto(p, "trap")
  /\ UNCHANGED <<current, need_resched, devVars>>

\* The tail of trap(): a killed thread exits, another may have to reschedule.
TrapReturn(p) ==
  /\ At(p, "trap")
  /\ p \notin exiting
  /\ Goto(p, IF need_resched[p] THEN "trap_sched" ELSE "user")
  /\ UNCHANGED <<schedVars, exiting, devVars>>

Exit(p) ==
  /\ At(p, "user") \/ (At(p, "trap") /\ p \in exiting)
  /\ state' = [state EXCEPT ![p] = "ZOMBIE"]
  /\ Goto(p, "exit_sched")
  /\ UNCHANGED <<wait_state, current, rq, need_resched, exiting, devVars>>

AfterSchedule == [trap_sched |-> "user", read_sched |-> "read_wait",
                  exit_sched |-> "dead", idle |-> "idle"]

SwitchTo(p, next) ==
  /\ current = p
  /\ pc[p] \in {"trap_sched", "read_sched", "exit_sched"}
     \/ (pc[p] = "idle" /\ need_resched[p])
  /\ ScheduleTo(next)
  /\ Goto(p, AfterSchedule[pc[p]])
  /\ UNCHANGED <<exiting, devVars>>

TimerIRQ ==
  /\ ProcTick
  /\ IF pc[current] = "user" THEN Goto(current, "trap") ELSE UNCHANGED pc
  /\ UNCHANGED <<state, wait_state, current, rq, exiting, devVars>>

\* The kernel code of p.
KernelStep(p) ==
  \/ ReadStart(p) \/ ReadResume(p) \/ TrapReturn(p)
  \/ p \in exiting /\ Exit(p)
  \/ \E next \in Proc : SwitchTo(p, next)

\* What the user program p asks for.
SystemCall(p) ==
  \/ \E n \in 1..MaxLen : Read(p, n)
  \/ \E q \in Proc : Kill(p, q)
  \/ p \notin exiting /\ Exit(p)

Next == KeyPress \/ TimerIRQ \/ \E p \in Proc : KernelStep(p) \/ SystemCall(p)

Spec == Init /\ [][Next]_vars

\* Kernel code runs on, the timer ticks, the scheduler passes nobody over for ever.
Fairness ==
  /\ WF_vars(TimerIRQ /\ need_resched'[current])
  /\ \A p \in Proc :
       /\ WF_vars(KernelStep(p))
       /\ SF_vars(\E q \in Proc : SwitchTo(q, p))

FairSpec == Spec /\ Fairness

-----------------------------------------------------------------------------
\* A reader sleeps in the queue only while there is nothing to read: no key press
\* slips in between its look at the buffer and its sleep.
NobodySleepsOnInput ==
  \A p \in Proc :
    (state[p] = "SLEEPING" \/ p \in Waiters) => p \in Waiters /\ p_rpos = p_wpos

\* A wait node is on its thread's stack, so it is in the queue, once, only while
\* the thread is inside dev_stdin_read.
NodesLive ==
  /\ IsInjective(wait_queue)
  /\ \A p \in Waiters : pc[p] \in {"read_sched", "read_wait"}

\* No character is read twice or both read and still unread, whatever is
\* overwritten; and as long as the buffer never was full the readers get what was
\* typed, in order.
InputExact ==
  /\ IsInjective(got \o Unread)
  /\ p_wpos = typed => got \o Unread = [i \in 1..typed |-> i]

\* The device and the scheduler agree: types, run queue and linked wait nodes, and
\* nobody sleeps on input.
StdinInv == TypeOK /\ RunQueueExact /\ NodesLive /\ NobodySleepsOnInput

\* A thread inside dev_stdin_read gets to read whatever input there is, or another
\* reader takes it first, or a kill ends the read.
InputReachesReader ==
  \A p \in Proc :
    (pc[p] \in {"read", "read_sched", "read_wait"} /\ p_rpos < p_wpos)
      ~> (p_rpos = p_wpos \/ pc[p] \notin {"read", "read_sched", "read_wait"})

\* A reader woken by do_kill exits, unless a key press puts WT_KBD over its wakeup
\* flags before it runs: then it reads on, and may even sleep again although killed.
KilledReaderExits ==
  \A p \in Proc :
    (p \in exiting /\ pc[p] = "read_wait" /\ state[p] = "RUNNABLE")
      ~> (state[p] = "ZOMBIE" \/ wakeup_flags[p] = "KBD")
=============================================================================
