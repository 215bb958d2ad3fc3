---------------------------- MODULE DiningTable ----------------------------
(* What both halves of kern/sync/check_sync.c are there to show: philosophers *)
(* who get hungry, eat with both forks, and put them down.                     *)
EXTENDS Naturals

CONSTANT N   \* the number of philosophers

VARIABLE state   \* what each philosopher does

Phil == 0..N - 1
Left(i) == (i + N - 1) % N
Right(i) == (i + 1) % N

Init == state = [i \in Phil |-> "THINKING"]

GetHungry(i) ==
  /\ state[i] = "THINKING"
  /\ state' = [state EXCEPT ![i] = "HUNGRY"]

\* Both forks are taken at once.
Eat(i) ==
  /\ state[i] = "HUNGRY"
  /\ state[Left(i)] # "EATING" /\ state[Right(i)] # "EATING"
  /\ state' = [state EXCEPT ![i] = "EATING"]

PutForks(i) ==
  /\ state[i] = "EATING"
  /\ state' = [state EXCEPT ![i] = "THINKING"]

Next == \E i \in Phil : GetHungry(i) \/ Eat(i) \/ PutForks(i)

Spec == Init /\ [][Next]_state
=============================================================================
