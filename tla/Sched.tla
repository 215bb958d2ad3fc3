------------------------------- MODULE Sched -------------------------------
(***************************************************************************)
(* The scheduler core every blocking part of the kernel is built on:       *)
(* kern/schedule/sched.c (wakeup_proc, schedule) over the scheduling       *)
(* fields of struct proc_struct (kern/process/proc.h).                     *)
(*                                                                         *)
(* This module declares the shared state and the operators that change it; *)
(* the modules that EXTEND it add the kernel paths that call them.  Every  *)
(* operator stands for one local_intr_save/local_intr_restore section.     *)
(* Which runnable thread pick_next returns is left open here; module       *)
(* StrideSched models the policy.                                          *)
(***************************************************************************)
EXTENDS Naturals, FiniteSets, Sequences, SequencesExt

CONSTANTS Proc,   \* the threads (struct proc_struct) of the system
          idle    \* idleproc, the thread that runs when nothing else can

ASSUME ProcAssumption == idle \in Proc /\ IsFiniteSet(Proc)

VARIABLES state,         \* proc->state
          wait_state,    \* proc->wait_state, the reason the thread sleeps
          current,       \* the thread that owns the CPU
          rq,            \* the threads linked in the run queue
          need_resched   \* proc->need_resched

schedVars == <<state, wait_state, current, rq, need_resched>>

\* enum proc_state
ProcState == {"UNINIT", "SLEEPING", "RUNNABLE", "ZOMBIE"}

\* The WT_* reasons; NONE is the 0 of a thread that waits for nothing.
WaitState == {"NONE", "KSEM", "CHILD", "TIMER", "KBD"}

\* Mutant: WT_KSEM given the WT_INTERRUPTED bit too.
InterruptibleAll == {"KSEM", "CHILD", "TIMER", "KBD"}

\* The reasons that carry the WT_INTERRUPTED bit.
Interruptible == {"CHILD", "TIMER", "KBD"}

SchedTypeOK ==
  /\ state \in [Proc -> ProcState]
  /\ wait_state \in [Proc -> WaitState]
  /\ current \in Proc
  /\ rq \subseteq Proc
  /\ need_resched \in [Proc -> BOOLEAN]

-----------------------------------------------------------------------------
\* Mutant: the test for the running thread guards the whole wakeup.
WakeupAllButCurrent(S) ==
  LET woken == {p \in S : state[p] # "RUNNABLE" /\ p # current} IN
  /\ state' = [p \in Proc |-> IF p \in woken THEN "RUNNABLE" ELSE state[p]]
  /\ wait_state' = [p \in Proc |-> IF p \in woken THEN "NONE" ELSE wait_state[p]]
  /\ rq' = rq \cup (woken \ {idle})

\* wakeup_proc(p) for every p of S.  A thread that is already runnable is left
\* as it is (the warn branch), the running thread is not put in the run queue,
\* and sched_class_enqueue drops idleproc.
WakeupAll(S) ==
  LET woken == {p \in S : state[p] # "RUNNABLE"} IN
  /\ state' = [p \in Proc |-> IF p \in woken THEN "RUNNABLE" ELSE state[p]]
  /\ wait_state' = [p \in Proc |-> IF p \in woken THEN "NONE" ELSE wait_state[p]]
  /\ rq' = rq \cup (woken \ {current, idle})

\* The state a thread writes into itself before it gives the CPU away.
SetSleeping(p, why) ==
  /\ state' = [state EXCEPT ![p] = "SLEEPING"]
  /\ wait_state' = [wait_state EXCEPT ![p] = why]

\* Mutant: schedule() puts the current thread back whatever its state.
EnqueuedAlways == IF current # idle THEN rq \cup {current} ELSE rq

\* The run queue once schedule() has put a still runnable current thread back.
Enqueued ==
  IF state[current] = "RUNNABLE" /\ current # idle THEN rq \cup {current} ELSE rq

\* schedule() when pick_next returns next, or idleproc from an empty queue.
ScheduleTo(next) ==
  /\ next \in (IF Enqueued = {} THEN {idle} ELSE Enqueued)
  /\ rq' = Enqueued \ {next}
  /\ current' = next
  /\ need_resched' = [need_resched EXCEPT ![current] = FALSE]
  /\ UNCHANGED <<state, wait_state>>

\* sched_class_proc_tick(current): idle always asks to be rescheduled, another
\* thread does once its time slice is used up (the slice is abstracted).
ProcTick ==
  \E expired \in BOOLEAN :
    need_resched' = [need_resched EXCEPT
                       ![current] = @ \/ expired \/ current = idle]

-----------------------------------------------------------------------------
\* The run queue holds exactly the threads that want the CPU and do not have it:
\* no runnable thread is forgotten and no sleeping or dead one can be picked.
RunQueueExact ==
  rq = {p \in Proc \ {idle} : state[p] = "RUNNABLE" /\ p # current}

\* A thread that is off the CPU asks for nothing: schedule() cleared its
\* need_resched before it left, so its next turn starts with a full slice.
ReschedOnlyCurrent ==
  \A p \in Proc : need_resched[p] => p = current
=============================================================================
