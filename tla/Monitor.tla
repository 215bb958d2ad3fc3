------------------------------ MODULE Monitor ------------------------------
(***************************************************************************)
(* The monitor of kern/sync/monitor.c: condition variables with Hoare's    *)
(* rule (the signaller stops, the waiter runs at once) made of semaphores. *)
(*                                                                         *)
(* The kernel is not preempted: the thread that has the CPU keeps it until *)
(* a down() blocks it.  cond_signal leans on that, for it lets the waiter  *)
(* go before it counts itself in next_count.                               *)
(***************************************************************************)
EXTENDS Naturals, FiniteSets, Sequences, SequencesExt

CONSTANTS Proc,      \* the threads
          CV,        \* the condition variables of the monitor
          mutex,     \* mt->mutex, the right to be in the monitor
          next,      \* mt->next, where signallers wait
          nobody     \* "no thread has the CPU"

ASSUME MonitorAssumption ==
  /\ IsFiniteSet(Proc) /\ CV # {} /\ nobody \notin Proc
  /\ mutex # next /\ mutex \notin CV /\ next \notin CV

VARIABLES value, queue, granted,   \* the semaphores: mutex, next and cv->sem
          count,        \* cv->count of each condition variable
          next_count,   \* mt->next_count
          cv,           \* the condition variable of the thread's last call
          pc,           \* where each thread is
          running       \* the thread that has the CPU

monitorVars == <<count, next_count, cv>>
semVars == <<value, queue, granted>>
vars == <<semVars, monitorVars, pc, running>>

Sem == CV \cup {mutex, next}

S == INSTANCE Semaphores
       WITH InitValue <- [s \in Sem |-> IF s = mutex THEN 1 ELSE 0]

PC == {"out", "entering", "in", "wait", "waiting", "signal", "signaling"}

TypeOK ==
  /\ value \in [Sem -> 0..1]
  /\ queue \in [Sem -> Seq(Proc)]
  /\ granted \in [Sem -> SUBSET Proc]
  /\ count \in [CV -> 0..Cardinality(Proc)]
  /\ next_count \in 0..Cardinality(Proc)
  /\ cv \in [Proc -> CV]
  /\ pc \in [Proc -> PC]
  /\ running \in Proc \cup {nobody}

Init ==
  /\ S!Init
  /\ count = [c \in CV |-> 0]
  /\ next_count = 0
  /\ cv = [p \in Proc |-> CHOOSE c \in CV : TRUE]
  /\ pc = [p \in Proc |-> "out"]
  /\ running = nobody

At(p, point) == running = p /\ pc[p] = point
Goto(p, point) == pc' = [pc EXCEPT ![p] = point]

-----------------------------------------------------------------------------
\* down(s), up to the point where it returns or has to wait.
Down(p, s) ==
  IF value[s] > 0 THEN S!Take(p, s) /\ UNCHANGED running
                  ELSE S!Wait(p, s) /\ running' = nobody

\* down(s) is back.
DownReturn(p, s) ==
  IF p \in granted[s] THEN S!Return(p, s) ELSE UNCHANGED semVars

\* Mutant: the monitor is always given back to newcomers.
PassOnMutex == S!Up(mutex)

\* Who leaves the monitor gives it to a signaller that waits, else to a newcomer.
PassOn == S!Up(IF next_count > 0 THEN next ELSE mutex)

Asleep(p) == \E s \in Sem : p \in ToSet(queue[s])

\* schedule(): any thread that is not asleep may be given the CPU.
Dispatch(p) ==
  /\ running = nobody
  /\ ~Asleep(p)
  /\ running' = p
  /\ UNCHANGED <<semVars, monitorVars, pc>>

\* A thread may sleep elsewhere outside the monitor, and in a routine's body.
MayPause(p) == pc[p] \in {"out", "in"}

Pause(p) ==
  /\ running = p
  /\ MayPause(p)
  /\ running' = nobody
  /\ UNCHANGED <<semVars, monitorVars, pc>>

\* A routine of the monitor begins with down(&mt->mutex).
Enter(p) ==
  /\ At(p, "out")
  /\ Down(p, mutex)
  /\ Goto(p, "entering")
  /\ UNCHANGED monitorVars

Entered(p) ==
  /\ At(p, "entering")
  /\ DownReturn(p, mutex)
  /\ Goto(p, "in")
  /\ UNCHANGED <<monitorVars, running>>

\* cond_wait(c): count the thread, give up the monitor, ...
Wait(p, c) ==
  /\ At(p, "in")
  /\ count' = [count EXCEPT ![c] = @ + 1]
  /\ PassOn
  /\ cv' = [cv EXCEPT ![p] = c]
  /\ Goto(p, "wait")
  /\ UNCHANGED <<next_count, running>>

\* ... down(&cvp->sem), ...
WaitDown(p) ==
  /\ At(p, "wait")
  /\ Down(p, cv[p])
  /\ Goto(p, "waiting")
  /\ UNCHANGED monitorVars

\* ... and back in the monitor.
Waited(p) ==
  /\ At(p, "waiting")
  /\ DownReturn(p, cv[p])
  /\ count' = [count EXCEPT ![cv[p]] = @ - 1]
  /\ Goto(p, "in")
  /\ UNCHANGED <<next_count, cv, running>>

\* Mutant: the waiters are not looked for.
AnyoneWaitsAlways(c) == TRUE

\* cvp->count > 0
AnyoneWaits(c) == count[c] > 0

\* cond_signal(c) with nobody waiting does nothing.
SignalLost(p, c) ==
  /\ At(p, "in")
  /\ ~AnyoneWaits(c)
  /\ UNCHANGED vars

\* cond_signal(c): let the first waiter go, ...
Signal(p, c) ==
  /\ At(p, "in")
  /\ AnyoneWaits(c)
  /\ S!Up(c)
  /\ Goto(p, "signal")
  /\ UNCHANGED <<monitorVars, running>>

\* ... next_count ++, down(&mt->next), ...
SignalDown(p) ==
  /\ At(p, "signal")
  /\ next_count' = next_count + 1
  /\ Down(p, next)
  /\ Goto(p, "signaling")
  /\ UNCHANGED <<count, cv>>

\* ... and back in the monitor.
Signaled(p) ==
  /\ At(p, "signaling")
  /\ DownReturn(p, next)
  /\ next_count' = next_count - 1
  /\ Goto(p, "in")
  /\ UNCHANGED <<count, cv, running>>

\* A routine of the monitor ends by passing the monitor on.
Leave(p) ==
  /\ At(p, "in")
  /\ PassOn
  /\ Goto(p, "out")
  /\ UNCHANGED <<monitorVars, running>>

\* What cond_wait, cond_signal and down() do once they are called.
Inside(p) ==
  Entered(p) \/ WaitDown(p) \/ Waited(p) \/ SignalDown(p) \/ Signaled(p)

Next ==
  \E p \in Proc :
    \/ Dispatch(p) \/ Pause(p)
    \/ Enter(p) \/ Leave(p) \/ Inside(p)
    \/ \E c \in CV : Wait(p, c) \/ Signal(p, c)

Spec == Init /\ [][Next]_vars

-----------------------------------------------------------------------------
\* The threads that have the monitor: in a routine's body, or let through by the
\* semaphore they stood at.
Owners ==
  {p \in Proc : pc[p] = "in" \/
                (pc[p] \in {"entering", "waiting", "signaling"} /\ ~Asleep(p))}

\* "Only one process at a time may be active in a monitor" (monitor.h:16), and the
\* right to be in it is never lost: nobody has it just while the mutex is free or
\* the thread that is giving it up still runs.  A waiter let through by cond_signal
\* is the owner at once, so nothing changes between the signal and its return.
OneOwner == Cardinality(Owners) + value[mutex] = 1

\* "If a condition variable is signaled with nobody waiting, the signal is lost"
\* (monitor.h:22): no permit is ever kept in a condition's semaphore or in next.
NoStoredSignal == \A s \in CV \cup {next} : value[s] = 0

\* While signallers wait for the monitor to come back, somebody else has it.
NoStrandedSignaller ==
  queue[next] # <<>> => value[mutex] = 0 /\ Owners # {}

\* The counters are kept by hand, apart from the queues, and a waiter's own count --
\* comes only when it runs again; still, whenever a thread in the monitor reads them
\* they say exactly how many threads are asleep.
CountsExact ==
  \A p \in Proc : pc[p] = "in" =>
    /\ next_count = Len(queue[next])
    /\ \A c \in CV : count[c] = Len(queue[c])

\* The bookkeeping of the monitor: types, counters, no signal laid by, and no signaller
\* left behind.
MonitorInv == TypeOK /\ NoStoredSignal /\ CountsExact /\ NoStrandedSignaller
=============================================================================
