---------------------------- MODULE Philosophers ----------------------------
(***************************************************************************)
(* The dining philosophers of kern/sync/check_sync.c in their monitor      *)
(* version: threads 0..N-1 that share one Monitor with a condition         *)
(* variable per philosopher.  The threads never sleep inside the monitor;  *)
(* do_sleep while they think and eat is Monitor's Pause outside it.        *)
(***************************************************************************)
EXTENDS Monitor

CONSTANTS N,       \* philosophers
          TIMES    \* meals of each

ASSUME PhilosophersAssumption ==
  N \in Nat \ {0, 1} /\ TIMES \in Nat /\ Proc = 0..N - 1 /\ CV = Proc

VARIABLES state_condvar,   \* what each philosopher does
          at,              \* where he is in philosopher_using_condvar
          iter             \* his meals so far

philVars == <<state_condvar, at, iter>>
allVars == <<vars, philVars>>

Left(i) == (i + N - 1) % N
Right(i) == (i + 1) % N

PhilTypeOK ==
  /\ TypeOK
  /\ state_condvar \in [Proc -> {"THINKING", "HUNGRY", "EATING"}]
  /\ at \in [Proc -> {"think", "hungry", "take", "take_test", "take_wait", "take_leave",
                      "eat", "full", "put", "put_left", "put_right", "put_leave"}]
  /\ iter \in [Proc -> 0..TIMES]

PhilInit ==
  /\ Init
  /\ state_condvar = [i \in Proc |-> "THINKING"]
  /\ at = [i \in Proc |-> "think"]
  /\ iter = [i \in Proc |-> 0]

Stand(i, point) == at' = [at EXCEPT ![i] = point]

\* Philosopher i executes in the routine at point.
In(i, point) == At(i, "in") /\ at[i] = point

-----------------------------------------------------------------------------
\* Mutant: only the left fork is looked at.
ForksFreeLeft(i) ==
  state_condvar[i] = "HUNGRY" /\ state_condvar[Left(i)] # "EATING"

\* the condition of phi_test_condvar
ForksFree(i) ==
  /\ state_condvar[i] = "HUNGRY"
  /\ state_condvar[Left(i)] # "EATING"
  /\ state_condvar[Right(i)] # "EATING"

\* phi_test_condvar(j), called by i.
Test(i, j) ==
  IF ForksFree(j)
    THEN /\ state_condvar' = [state_condvar EXCEPT ![j] = "EATING"]
         /\ Signal(i, j) \/ SignalLost(i, j)
    ELSE UNCHANGED <<state_condvar, vars>>

\* phi_take_forks_condvar or phi_put_forks_condvar begins.
Begin(i) ==
  /\ Enter(i)
  /\ \/ at[i] = "hungry" /\ Stand(i, "take")
     \/ at[i] = "full" /\ Stand(i, "put")
  /\ UNCHANGED <<state_condvar, iter>>

Hungry(i) ==
  /\ In(i, "take")
  /\ state_condvar' = [state_condvar EXCEPT ![i] = "HUNGRY"]
  /\ Stand(i, "take_test")
  /\ UNCHANGED <<vars, iter>>

TestSelf(i) ==
  /\ In(i, "take_test")
  /\ Test(i, i)
  /\ Stand(i, "take_wait")
  /\ UNCHANGED iter

\* if (state_condvar[i] != EATING) cond_wait
WaitForks(i) ==
  /\ In(i, "take_wait")
  /\ IF state_condvar[i] # "EATING" THEN Wait(i, i) ELSE UNCHANGED vars
  /\ Stand(i, "take_leave")
  /\ UNCHANGED <<state_condvar, iter>>

PutDown(i) ==
  /\ In(i, "put")
  /\ state_condvar' = [state_condvar EXCEPT ![i] = "THINKING"]
  /\ Stand(i, "put_left")
  /\ UNCHANGED <<vars, iter>>

TestLeft(i) ==
  /\ In(i, "put_left")
  /\ Test(i, Left(i))
  /\ Stand(i, "put_right")
  /\ UNCHANGED iter

\* Mutant: the right neighbour is forgotten.
TestRightNever(i) ==
  /\ In(i, "put_right")
  /\ Stand(i, "put_leave")
  /\ UNCHANGED <<vars, state_condvar, iter>>

TestRight(i) ==
  /\ In(i, "put_right")
  /\ Test(i, Right(i))
  /\ Stand(i, "put_leave")
  /\ UNCHANGED iter

End(i) ==
  /\ Leave(i)
  /\ \/ at[i] = "take_leave" /\ Stand(i, "eat") /\ UNCHANGED iter
     \/ at[i] = "put_leave" /\ Stand(i, "think") /\ iter' = [iter EXCEPT ![i] = @ + 1]
  /\ UNCHANGED state_condvar

\* iter ++ < TIMES
MealsLeft(i) == iter[i] < TIMES

\* do_sleep while the philosopher thinks or eats.
Rest(i) ==
  /\ Pause(i) /\ pc[i] = "out"
  /\ \/ at[i] = "think" /\ MealsLeft(i) /\ Stand(i, "hungry")
     \/ at[i] = "eat" /\ Stand(i, "full")
  /\ UNCHANGED <<state_condvar, iter>>

Finished(i) == at[i] = "think" /\ ~MealsLeft(i)

\* The thread returns and exits.
Quit(i) == Pause(i) /\ Finished(i) /\ UNCHANGED philVars

PhilStep(i) ==
  \/ Rest(i) \/ Quit(i)
  \/ Begin(i) \/ End(i)
  \/ Hungry(i) \/ TestSelf(i) \/ WaitForks(i)
  \/ PutDown(i) \/ TestLeft(i) \/ TestRight(i)
  \/ Inside(i) /\ UNCHANGED philVars

Schedule(i) == ~Finished(i) /\ Dispatch(i) /\ UNCHANGED philVars

Done == running = nobody /\ (\A i \in Proc : Finished(i)) /\ UNCHANGED allVars

PhilNext == Done \/ \E i \in Proc : PhilStep(i) \/ Schedule(i)

PhilSpec == PhilInit /\ [][PhilNext]_allVars

-----------------------------------------------------------------------------
\* The forks: the table of check_sync is the one of DiningTable.
D == INSTANCE DiningTable WITH state <- state_condvar
ImplementsTable == D!Spec

\* A philosopher is at his meal only with both forks in hand: when cond_wait returns
\* he does not test again, he relies on the neighbour who gave them to him.
EatsWithForks ==
  \A i \in Proc : at[i] \in {"eat", "full"} => state_condvar[i] = "EATING"

\* Nobody is left hungry for nothing: a philosopher asleep on his condition has a
\* neighbour who eats, or one in put_forks who has yet to test for him.
HungryForAReason ==
  \A i \in Proc :
    (pc[i] = "waiting" /\ Asleep(i)) =>
      \/ \E j \in {Left(i), Right(i)} : state_condvar[j] = "EATING"
      \/ at[Right(i)] = "put_left" \/ at[Left(i)] \in {"put_left", "put_right"}

\* The table and the monitor under it: types, forks in hand at every meal, and nobody
\* hungry without a reason.
PhilInv == PhilTypeOK /\ EatsWithForks /\ HungryForAReason
=============================================================================
