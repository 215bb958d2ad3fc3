-------------------------- MODULE SemaPhilosophers --------------------------
(***************************************************************************)
(* The dining philosophers of kern/sync/check_sync.c in their semaphore    *)
(* version: mutex guards the table and s[i] is where philosopher i waits   *)
(* for the neighbour who gives him his forks.  The semaphores are the      *)
(* abstract ones.  Threads may be interleaved at every step, which is more *)
(* than a kernel without preemption does.                                  *)
(***************************************************************************)
EXTENDS Philosophers   \* for N, TIMES, Proc and the neighbours

CONSTANT tableMutex   \* mutex, a static variable of check_sync.c

ASSUME SemaPhilosophersAssumption == tableMutex \notin Proc

VARIABLES sema_value, sema_queue, sema_granted,   \* mutex, and the s[i], named by i
          state_sema,    \* what each philosopher does
          sema_at,       \* where he is in philosopher_using_semaphore
          sema_iter      \* his meals so far

TableSem == Proc \cup {tableMutex}

T == INSTANCE Semaphores
       WITH Sem <- TableSem,
            InitValue <- [s \in TableSem |-> IF s = tableMutex THEN 1 ELSE 0],
            value <- sema_value, queue <- sema_queue, granted <- sema_granted

tableVars == <<sema_value, sema_queue, sema_granted>>
semaVars == <<tableVars, state_sema, sema_at, sema_iter>>

\* "*_down" stands in down(&tableMutex), "take_wait" in down(&s[i]).
Points == {"think", "hungry", "take_down", "take", "take_test", "take_up", "take_fork",
           "take_wait", "eat", "full", "put_down", "put", "put_left", "put_right", "put_up"}

SemaTypeOK ==
  /\ sema_value \in [TableSem -> Nat]
  /\ sema_queue \in [TableSem -> Seq(Proc)]
  /\ sema_granted \in [TableSem -> SUBSET Proc]
  /\ state_sema \in [Proc -> {"THINKING", "HUNGRY", "EATING"}]
  /\ sema_at \in [Proc -> Points]
  /\ sema_iter \in [Proc -> 0..TIMES]

SemaInit ==
  /\ T!Init
  /\ state_sema = [i \in Proc |-> "THINKING"]
  /\ sema_at = [i \in Proc |-> "think"]
  /\ sema_iter = [i \in Proc |-> 0]

SemaMove(i, from, to) == sema_at[i] = from /\ sema_at' = [sema_at EXCEPT ![i] = to]

-----------------------------------------------------------------------------
\* down(s): with a permit i passes, without one it stands at the point wait until
\* an up() has let it through.
SemaDown(i, s, from, wait, to) ==
  /\ \/ SemaMove(i, from, to) /\ T!Take(i, s)
     \/ SemaMove(i, from, wait) /\ T!Wait(i, s)
     \/ SemaMove(i, wait, to) /\ T!Return(i, s)
  /\ UNCHANGED <<state_sema, sema_iter>>

\* Mutant: phi_test_sema looks at the left neighbour only.
SemaTestLeftOnly(i, j) ==
  IF state_sema[j] = "HUNGRY" /\ state_sema[Left(j)] # "EATING"
    THEN state_sema' = [state_sema EXCEPT ![j] = "EATING"] /\ T!Up(j)
    ELSE UNCHANGED <<state_sema, tableVars>>

\* phi_test_sema(j), called by i: j eats, and has a permit to go on, waiting or not.
SemaTest(i, j) ==
  IF /\ state_sema[j] = "HUNGRY"
     /\ state_sema[Left(j)] # "EATING" /\ state_sema[Right(j)] # "EATING"
    THEN state_sema' = [state_sema EXCEPT ![j] = "EATING"] /\ T!Up(j)
    ELSE UNCHANGED <<state_sema, tableVars>>

\* while (iter++ < TIMES), and the sleep before the meal.
SemaThink(i) ==
  /\ SemaMove(i, "think", "hungry")
  /\ sema_iter[i] < TIMES
  /\ UNCHANGED <<tableVars, state_sema, sema_iter>>

\* phi_take_forks_sema
SemaTakeDown(i) == SemaDown(i, tableMutex, "hungry", "take_down", "take")

SemaHungry(i) ==
  /\ SemaMove(i, "take", "take_test")
  /\ state_sema' = [state_sema EXCEPT ![i] = "HUNGRY"]
  /\ UNCHANGED <<tableVars, sema_iter>>

SemaTestSelf(i) ==
  SemaMove(i, "take_test", "take_up") /\ SemaTest(i, i) /\ UNCHANGED sema_iter

SemaTakeUp(i) ==
  /\ SemaMove(i, "take_up", "take_fork")
  /\ T!Up(tableMutex)
  /\ UNCHANGED <<state_sema, sema_iter>>

\* Here a neighbour may already have given him the forks, or is still to do so.
SemaForkDown(i) == SemaDown(i, i, "take_fork", "take_wait", "eat")

\* The sleep of the meal.
SemaEat(i) ==
  SemaMove(i, "eat", "full") /\ UNCHANGED <<tableVars, state_sema, sema_iter>>

\* phi_put_forks_sema
SemaPutDown(i) == SemaDown(i, tableMutex, "full", "put_down", "put")

SemaPutForks(i) ==
  /\ SemaMove(i, "put", "put_left")
  /\ state_sema' = [state_sema EXCEPT ![i] = "THINKING"]
  /\ UNCHANGED <<tableVars, sema_iter>>

SemaTestLeft(i) ==
  SemaMove(i, "put_left", "put_right") /\ SemaTest(i, Left(i)) /\ UNCHANGED sema_iter

SemaTestRight(i) ==
  SemaMove(i, "put_right", "put_up") /\ SemaTest(i, Right(i)) /\ UNCHANGED sema_iter

SemaPutUp(i) ==
  /\ SemaMove(i, "put_up", "think")
  /\ T!Up(tableMutex)
  /\ sema_iter' = [sema_iter EXCEPT ![i] = @ + 1]
  /\ UNCHANGED state_sema

SemaStep(i) ==
  \/ SemaThink(i) \/ SemaEat(i)
  \/ SemaTakeDown(i) \/ SemaHungry(i) \/ SemaTestSelf(i) \/ SemaTakeUp(i) \/ SemaForkDown(i)
  \/ SemaPutDown(i) \/ SemaPutForks(i) \/ SemaTestLeft(i) \/ SemaTestRight(i) \/ SemaPutUp(i)

SemaNext == \E i \in Proc : SemaStep(i)

SemaSpec == SemaInit /\ [][SemaNext]_semaVars

\* The thread returns and exits.
SemaFinished(i) == sema_at[i] = "think" /\ sema_iter[i] = TIMES

-----------------------------------------------------------------------------
\* The permits that wait for philosopher i: in s[i], or handed to him by up.
Permits(i) == sema_value[i] + Cardinality(sema_granted[i])

\* A permit of s[i] is laid by exactly while i has been given his forks and has not come
\* past his down() yet: it never meets a philosopher who is hungry again, and nobody but
\* i waits there.
PermitsExact ==
  \A i \in Proc :
    /\ Permits(i) = IF sema_at[i] \in {"take_up", "take_fork", "take_wait"}
                         /\ state_sema[i] = "EATING" THEN 1 ELSE 0
    /\ ToSet(sema_queue[i]) \subseteq {i}

\* One philosopher at a time is in the critical section of tableMutex.
CriticalSection ==
  sema_value[tableMutex] + Cardinality(sema_granted[tableMutex]) +
    Cardinality({i \in Proc : sema_at[i] \in {"take", "take_test", "take_up", "put",
                                         "put_left", "put_right", "put_up"}}) = 1

\* Who eats has both forks, and who waits without them has a neighbour who eats or is
\* about to test for him.
ForksInHand ==
  \A i \in Proc :
    /\ sema_at[i] \in {"eat", "full"} => state_sema[i] = "EATING"
    /\ sema_at[i] = "take_wait" /\ state_sema[i] = "HUNGRY" =>
         \/ \E j \in {Left(i), Right(i)} : state_sema[j] = "EATING"
         \/ sema_at[Right(i)] = "put_left" \/ sema_at[Left(i)] \in {"put_left", "put_right"}

SemaInv == SemaTypeOK /\ PermitsExact /\ CriticalSection /\ ForksInHand

SD == INSTANCE DiningTable WITH state <- state_sema

\* The semaphore solution is the table of DiningTable, with every permit accounted for.
SemaImplementsTable == SD!Spec /\ []SemaInv
=============================================================================
