---------------------------- MODULE TimedThreads ----------------------------
(***************************************************************************)
(* The threads of KernelThreads over the timer list of TimerList:          *)
(* do_sleep (kern/process/proc.c) links a timer that counts ticks, the     *)
(* timer interrupt wakes exactly the threads whose timers run out, and a   *)
(* thread that is killed in its sleep takes its timer off the list again.  *)
(***************************************************************************)
EXTENDS KernelThreads

CONSTANT MaxSleep     \* bound: the longest sleep

ASSUME MaxSleepAssumption == MaxSleep \in Nat \ {0}

VARIABLES timer_list, expires, woken   \* see TimerList

timerVars == <<timer_list, expires, woken>>
timedVars == <<vars, timerVars>>

T == INSTANCE TimerList

TimedInit == Init /\ T!Init

\* do_sleep(n) up to schedule().
SleepFor(p, n) == Sleep(p) /\ T!AddTimer(p, n)

\* do_sleep after schedule(): the timer may have run out or not.
SleepOver(p) ==
  /\ SleepReturn(p)
  /\ IF p \in T!Linked THEN T!DelTimer(p) ELSE UNCHANGED timerVars

\* The timer interrupt with run_timer_list.
TimerTick == T!RunTimerList /\ TimerIRQ(woken')

TimedNext ==
  \/ \E p \in Proc : SleepOver(p) \/ \E n \in 1..MaxSleep : SleepFor(p, n)
  \/ TimerTick
  \/ UNCHANGED timerVars /\ \E p \in Proc : WakefulStep(p)

TimedSpec == TimedInit /\ [][TimedNext]_timedVars

-----------------------------------------------------------------------------
\* The list links a timer for each thread that has one on its stack, and for no
\* other, stays a difference list, and its head never stands at 0 when a tick comes
\* (the assertion of run_timer_list).
TimerListInv == T!TypeOK /\ T!HeadRunning /\ T!Linked = timers

\* Every sleeper is woken by exactly the tick it asked for, whoever sleeps in
\* front of it, joins at the same tick or is killed meanwhile; the list is sound
\* throughout.
ImplementsTimers == T!ImplementsTimers /\ []TimerListInv
=============================================================================
