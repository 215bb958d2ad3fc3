----------------------------- MODULE TimerList -----------------------------
(***************************************************************************)
(* The timer list of kern/schedule/sched.c: add_timer, del_timer and       *)
(* run_timer_list.  The list is a list of differences: each timer keeps    *)
(* the ticks it runs beyond the timer in front of it, so a tick only       *)
(* touches the head.                                                       *)
(***************************************************************************)
EXTENDS Naturals, Sequences, SequencesExt

CONSTANTS Proc,      \* the threads; each has at most the one timer of its do_sleep
          MaxSleep   \* bound: the longest sleep

VARIABLES timer_list,   \* the threads whose timers are linked, in list order
          expires,      \* timer->expires; 0 without a timer
          woken         \* the threads run_timer_list woke at the last tick

vars == <<timer_list, expires, woken>>

Linked == ToSet(timer_list)

TypeOK ==
  /\ timer_list \in Seq(Proc)
  /\ expires \in [Proc -> 0..MaxSleep]
  /\ woken \subseteq Proc

Init == timer_list = <<>> /\ expires = [p \in Proc |-> 0] /\ woken = {}

\* The ticks until the i-th timer of a list with these differences runs out.
DueIn(list, exp) ==
  LET due[i \in 0..Len(list)] == IF i = 0 THEN 0 ELSE due[i - 1] + exp[list[i]]
  IN  due

Due == DueIn(timer_list, expires)

\* Where the timer of a thread stands in the list.
Place(p) == SelectInSeq(timer_list, LAMBDA q : q = p)

-----------------------------------------------------------------------------
\* Mutant: the timer behind the new one runs on from its old difference.
FollowerDelayed(exp, p, next) == exp

\* next->expires -= timer->expires
FollowerShortened(exp, p, next) == [exp EXCEPT ![next] = @ - exp[p]]

\* add_timer: walk past every timer that runs out no later, link in front of the
\* first one that runs out later.
AddTimer(p, n) ==
  /\ p \notin Linked
  /\ LET at == SelectInSeq([i \in DOMAIN timer_list |-> Due[i]], LAMBDA t : n < t)
         pos == IF at = 0 THEN Len(timer_list) + 1 ELSE at
         exp == [expires EXCEPT ![p] = n - Due[pos - 1]]
     IN  /\ timer_list' = InsertAt(timer_list, pos, p)
         /\ expires' = IF at = 0 THEN exp ELSE FollowerShortened(exp, p, timer_list[pos])
  /\ UNCHANGED woken

\* next->expires += timer->expires, when the i-th timer has a next.
FollowerLengthened(i) ==
  IF i = Len(timer_list) THEN expires
  ELSE [expires EXCEPT ![timer_list[i + 1]] = @ + expires[timer_list[i]]]

\* del_timer of a timer that is linked; of any other it does nothing.
DelTimer(p) ==
  /\ p \in Linked
  /\ LET i == Place(p) IN
       /\ timer_list' = RemoveAt(timer_list, i)
       /\ expires' = [FollowerLengthened(i) EXCEPT ![p] = 0]
  /\ UNCHANGED woken

\* How many timers at the head of the list have run out.
RunOut(exp) ==
  LET running == SelectInSeq(timer_list, LAMBDA p : exp[p] # 0)
  IN  IF running = 0 THEN Len(timer_list) ELSE running - 1

\* run_timer_list: charge the tick to the head, then wake and unlink every thread
\* whose timer has run out.
RunTimerList ==
  IF timer_list = <<>> THEN woken' = {} /\ UNCHANGED <<timer_list, expires>>
  ELSE LET exp == [expires EXCEPT ![Head(timer_list)] = @ - 1]
           n == RunOut(exp)
       IN  /\ woken' = ToSet(SubSeq(timer_list, 1, n))
           /\ timer_list' = SubSeq(timer_list, n + 1, Len(timer_list))
           /\ expires' = exp

Next ==
  \/ \E p \in Proc : DelTimer(p) \/ \E n \in 1..MaxSleep : AddTimer(p, n)
  \/ RunTimerList

Spec == Init /\ [][Next]_vars

-----------------------------------------------------------------------------
\* The assertion of run_timer_list: after any sequence of sleeps and early
\* wakeups the head of the list has not run out already.
HeadRunning == timer_list # <<>> => expires[Head(timer_list)] # 0

\* The differences add up: every thread is woken by exactly the tick it asked for,
\* whoever sleeps in front of it, joins at the same tick or is killed meanwhile.
Left == [p \in Proc |-> IF p \in Linked THEN Due[Place(p)] ELSE 0]

Promised == INSTANCE Timers WITH left <- Left

ImplementsTimers == Promised!Spec
=============================================================================
