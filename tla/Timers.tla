------------------------------- MODULE Timers -------------------------------
(***************************************************************************)
(* What the timer list of kern/schedule/sched.c promises do_sleep: a thread*)
(* that asks for n ticks is woken by the n-th tick from then, unless it    *)
(* takes its timer back first.                                             *)
(***************************************************************************)
EXTENDS Naturals

CONSTANTS Proc,      \* the threads; each has at most the one timer of its do_sleep
          MaxSleep   \* bound: the longest sleep

VARIABLES left,      \* the ticks a thread's timer still has to run; 0 without a timer
          woken      \* the threads woken by the last tick

Init == left = [p \in Proc |-> 0] /\ woken = {}

Start(p, n) ==
  /\ left[p] = 0
  /\ left' = [left EXCEPT ![p] = n]
  /\ UNCHANGED woken

Cancel(p) ==
  /\ left' = [left EXCEPT ![p] = 0]
  /\ UNCHANGED woken

Tick ==
  /\ woken' = {p \in Proc : left[p] = 1}
  /\ left' = [p \in Proc |-> IF left[p] = 0 THEN 0 ELSE left[p] - 1]

Next ==
  \/ \E p \in Proc : Cancel(p) \/ \E n \in 1..MaxSleep : Start(p, n)
  \/ Tick

Spec == Init /\ [][Next]_<<left, woken>>
=============================================================================
