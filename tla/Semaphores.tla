----------------------------- MODULE Semaphores -----------------------------
(***************************************************************************)
(* What kern/sync/sem.c promises to its callers: counting semaphores that  *)
(* hand a permit straight to the thread that has waited longest.  How the  *)
(* kernel's wait queues and scheduler keep the promise is KernelThreads.   *)
(***************************************************************************)
EXTENDS Naturals, Sequences, SequencesExt

CONSTANTS Proc,        \* the threads
          Sem,         \* the semaphores
          InitValue    \* InitValue[s]: the value sem_init gives s

VARIABLES value,     \* the permits nobody has
          queue,     \* the threads that wait, longest first
          granted    \* the threads that were handed a permit and have not run since

semVars == <<value, queue, granted>>

Init ==
  /\ value = InitValue
  /\ queue = [s \in Sem |-> <<>>]
  /\ granted = [s \in Sem |-> {}]

Blocked == UNION {ToSet(queue[s]) \cup granted[s] : s \in Sem}

\* down() that finds a permit
Take(p, s) ==
  /\ value[s] > 0
  /\ p \notin Blocked
  /\ value' = [value EXCEPT ![s] = @ - 1]
  /\ UNCHANGED <<queue, granted>>

\* down() that has to wait
Wait(p, s) ==
  /\ value[s] = 0
  /\ p \notin Blocked
  /\ queue' = [queue EXCEPT ![s] = Append(@, p)]
  /\ UNCHANGED <<value, granted>>

\* the waiting down() returns
Return(p, s) ==
  /\ p \in granted[s]
  /\ granted' = [granted EXCEPT ![s] = @ \ {p}]
  /\ UNCHANGED <<value, queue>>

\* up()
Up(s) ==
  IF queue[s] = <<>>
    THEN /\ value' = [value EXCEPT ![s] = @ + 1]
         /\ UNCHANGED <<queue, granted>>
    ELSE /\ queue' = [queue EXCEPT ![s] = Tail(@)]
         /\ granted' = [granted EXCEPT ![s] = @ \cup {Head(queue[s])}]
         /\ UNCHANGED value

Next ==
  \E s \in Sem : Up(s) \/ \E p \in Proc : Take(p, s) \/ Wait(p, s) \/ Return(p, s)

Spec == Init /\ [][Next]_semVars
=============================================================================
