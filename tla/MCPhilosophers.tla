--------------------------- MODULE MCPhilosophers ---------------------------
(* Small instances of both solutions of check_sync for TLC, one or the other in a
   behaviour. *)
EXTENDS SemaPhilosophers

VARIABLE solution   \* "condvar" or "semaphore"

dinnerVars == <<allVars, semaVars, solution>>

DinnerInit == PhilInit /\ SemaInit /\ solution \in {"condvar", "semaphore"}

DinnerNext ==
  /\ UNCHANGED solution
  /\ \/ solution = "condvar" /\ PhilNext /\ UNCHANGED semaVars
     \/ solution = "semaphore" /\ SemaNext /\ UNCHANGED allVars

\* The CPU does not stand still while a philosopher can run or his sleep can end.  As
\* everybody has a bounded number of meals, it need not be fair among them.
DinnerSpec == DinnerInit /\ [][DinnerNext]_dinnerVars /\ WF_dinnerVars(DinnerNext)

\* All meals are eaten: no deadlock and no philosopher starves.
AllMealsEaten ==
  <>(IF solution = "condvar" THEN \A i \in Proc : Finished(i)
                             ELSE \A i \in Proc : SemaFinished(i))
=============================================================================
