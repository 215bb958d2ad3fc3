----------------------- MODULE KernelThreads_proofs ------------------------
(* Proofs that IInv is an inductive invariant of KernelThreads, that its threads
   implement the semaphores, and TimedThreads the timers, of their callers. *)
EXTENDS TimedThreads, QueueLemmas

LEMMA WaitersType ==
  ASSUME TypeOK
  PROVE  \A s \in Sem : Waiters(s) \subseteq Proc
<1>. SUFFICES ASSUME NEW s \in Sem PROVE Waiters(s) \subseteq Proc
  OBVIOUS
<1>1. queue[s] \in Seq(Proc)
  BY DEF TypeOK
<1>. QED  BY <1>1 DEF Waiters, ToSet

LEMMA SameGranted ==
  ASSUME NEW s \in Sem, \A q \in Proc : q \in Granted(s)' <=> q \in Granted(s)
  PROVE  Granted(s)' = Granted(s)
<1>1. Granted(s) \subseteq Proc /\ Granted(s)' \subseteq Proc
  BY DEF Granted
<1>. QED  BY <1>1

LEMMA InitInv == Init => IInv
<1>. SUFFICES ASSUME Init PROVE IInv
  OBVIOUS
<1>. USE ProcAssumption, SemAssumption DEF Init
<1>1. TypeOK
  <2>1. (CHOOSE s \in Sem : TRUE) \in Sem
    OBVIOUS
  <2>. QED  BY <2>1 DEF TypeOK, SchedTypeOK, ProcState, WaitState, PC
<1>2. \A s \in Sem : Waiters(s) = {}
  BY EmptyFacts DEF Waiters
<1>3. \A s \in Sem : Granted(s) = {}
  BY DEF Granted
<1>4. RunQueueExact /\ ReschedOnlyCurrent
  BY DEF RunQueueExact, ReschedOnlyCurrent
<1>5. StackNodesLive /\ WaitersAsleep /\ NoIdlePermit
  BY <1>2, EmptyFacts DEF StackNodesLive, WaitersAsleep, NoIdlePermit
<1>6. Conservation
  <2>1. \A s \in Sem : Cardinality(Granted(s)) = 0
    BY <1>3, FS_EmptySet
  <2>. QED  BY <2>1 DEF Conservation
<1>7. \A p \in Proc : PointOK(p) /\ SleepOK(p)
  BY DEF PointOK, SleepOK
<1>. QED  BY <1>1, <1>4, <1>5, <1>6, <1>7 DEF IInv

(* Where a thread that runs in the kernel stands: on the CPU, runnable, and in no
   wait queue nor on the timer list. *)
LEMMA RunningFacts ==
  ASSUME IInv, NEW p \in Proc, At(p, "user") \/ At(p, "kern") \/ At(p, "trap")
  PROVE  /\ p = current /\ p # idle /\ state[p] = "RUNNABLE"
         /\ pc[p] \in {"user", "kern", "trap"}
         /\ \A t \in Sem : Waiters(t) \subseteq Proc /\ p \notin Waiters(t)
         /\ p \notin timers
  BY WaitersType DEF IInv, At, PointOK, StackNodesLive

(* The six parts of the invariant that only look at thread states, program points
   and queues survive a step that leaves all of those alone but moves the running
   thread between points outside __down, do_sleep and do_exit. *)
LEMMA RunningStep ==
  ASSUME IInv, NEW p \in Proc,
         At(p, "user") \/ At(p, "kern") \/ At(p, "trap"),
         NEW point \in {"user", "kern", "trap", "trap_sched"},
         Goto(p, point) \/ UNCHANGED pc,
         UNCHANGED <<state, wait_state, current, rq, queue, wsem, wakeup_flags, timers>>,
         need_resched' \in [Proc -> BOOLEAN],
         \A q \in Proc : need_resched'[q] => q = current,
         exiting' \subseteq Proc, value' \in [Sem -> Nat], credit' \in [Sem -> Nat]
  PROVE  /\ TypeOK' /\ RunQueueExact' /\ ReschedOnlyCurrent' /\ StackNodesLive'
         /\ WaitersAsleep'
         /\ \A q \in Proc : (PointOK(q) /\ SleepOK(q))'
         /\ \A t \in Sem : Granted(t)' = Granted(t)
<1>. USE DEF IInv, Goto
<1>0. /\ p = current /\ p # idle /\ state[p] = "RUNNABLE"
      /\ pc[p] \in {"user", "kern", "trap"}
      /\ \A t \in Sem : Waiters(t) \subseteq Proc /\ p \notin Waiters(t)
      /\ p \notin timers
  BY RunningFacts
<1>1. TypeOK'
  BY <1>0 DEF TypeOK, SchedTypeOK, PC
<1>2. \A t \in Sem : Waiters(t)' = Waiters(t)
  BY DEF Waiters
<1>3. RunQueueExact' /\ ReschedOnlyCurrent'
  BY <1>0 DEF RunQueueExact, ReschedOnlyCurrent
<1>4. \A q \in Proc : q # p => pc'[q] = pc[q]
  BY DEF TypeOK
<1>5. pc'[p] \in {"user", "kern", "trap", "trap_sched"}
  BY <1>0 DEF TypeOK
<1>6. StackNodesLive'
  <2>1. \A t \in Sem : IsInjective(queue[t])'
    BY DEF StackNodesLive
  <2>2. ASSUME NEW t \in Sem, NEW q \in Waiters(t)'
        PROVE  wsem'[q] = t /\ pc'[q] \in {"down_sched", "down_wait"}
    <3>1. q \in Waiters(t) /\ q \in Proc /\ q # p
      BY <1>0, <1>2
    <3>. QED  BY <1>4, <3>1 DEF StackNodesLive
  <2>3. \A q \in timers' : pc'[q] \in {"sleep_sched", "sleep_wait"}
    BY <1>0, <1>4 DEF StackNodesLive, TypeOK
  <2>. QED  BY <2>1, <2>2, <2>3 DEF StackNodesLive
<1>7. WaitersAsleep'
  BY <1>0, <1>2 DEF WaitersAsleep
<1>8. \A q \in Proc : (PointOK(q) /\ SleepOK(q))'
  <2>. SUFFICES ASSUME NEW q \in Proc PROVE PointOK(q)' /\ SleepOK(q)'
    OBVIOUS
  <2>1. PointOK(q) /\ SleepOK(q)
    OBVIOUS
  <2>2. CASE q = p
    BY <1>0, <1>5, <2>1, <2>2 DEF PointOK, SleepOK
  <2>3. CASE q # p
    <3>1. wsem[q] \in Sem
      BY DEF TypeOK
    <3>. QED  BY <1>2, <1>4, <2>1, <2>3, <3>1 DEF PointOK, SleepOK
  <2>. QED  BY <2>2, <2>3
<1>9. \A t \in Sem, q \in Proc : q \in Granted(t)' <=> q \in Granted(t)
  BY <1>0, <1>2, <1>4, <1>5 DEF Granted
<1>. QED  BY <1>1, <1>3, <1>6, <1>7, <1>8, <1>9, SameGranted

LEMMA SyscallInv ==
  ASSUME IInv, NEW p \in Proc, Syscall(p)
  PROVE  IInv'
<1>1. /\ At(p, "user")
      /\ Goto(p, "kern")
      /\ UNCHANGED <<state, wait_state, current, rq, need_resched, queue, wsem,
                     wakeup_flags, timers, exiting, value, credit>>
  BY DEF Syscall, schedVars
<1>2. /\ TypeOK' /\ RunQueueExact' /\ ReschedOnlyCurrent' /\ StackNodesLive'
      /\ WaitersAsleep'
      /\ \A q \in Proc : (PointOK(q) /\ SleepOK(q))'
      /\ \A t \in Sem : Granted(t)' = Granted(t)
  BY <1>1, RunningStep DEF IInv, TypeOK, SchedTypeOK, ReschedOnlyCurrent
<1>3. NoIdlePermit' /\ Conservation'
  BY <1>1, <1>2 DEF IInv, NoIdlePermit, Conservation
<1>. QED  BY <1>2, <1>3 DEF IInv

LEMMA TrapReturnInv ==
  ASSUME IInv, NEW p \in Proc, TrapReturn(p)
  PROVE  IInv'
<1>1. /\ At(p, "kern") \/ At(p, "trap")
      /\ UNCHANGED <<state, wait_state, current, rq, need_resched, queue, wsem,
                     wakeup_flags, timers, exiting, value, credit>>
      /\ \E point \in {"user", "trap_sched"} : Goto(p, point)
  BY DEF TrapReturn, schedVars
<1>2. /\ TypeOK' /\ RunQueueExact' /\ ReschedOnlyCurrent' /\ StackNodesLive'
      /\ WaitersAsleep'
      /\ \A q \in Proc : (PointOK(q) /\ SleepOK(q))'
      /\ \A t \in Sem : Granted(t)' = Granted(t)
  BY <1>1, RunningStep DEF IInv, TypeOK, SchedTypeOK, ReschedOnlyCurrent
<1>3. NoIdlePermit' /\ Conservation'
  BY <1>1, <1>2 DEF IInv, NoIdlePermit, Conservation
<1>. QED  BY <1>2, <1>3 DEF IInv

LEMMA YieldInv ==
  ASSUME IInv, NEW p \in Proc, Yield(p)
  PROVE  IInv'
<1>1. /\ At(p, "kern")
      /\ need_resched' = [need_resched EXCEPT ![p] = TRUE]
      /\ UNCHANGED <<state, wait_state, current, rq, pc, queue, wsem,
                     wakeup_flags, timers, exiting, value, credit>>
  BY DEF Yield, threadVars
<1>2. /\ need_resched' \in [Proc -> BOOLEAN]
      /\ \A q \in Proc : need_resched'[q] => q = current
  BY <1>1 DEF At, IInv, TypeOK, SchedTypeOK, ReschedOnlyCurrent
<1>3. /\ TypeOK' /\ RunQueueExact' /\ ReschedOnlyCurrent' /\ StackNodesLive'
      /\ WaitersAsleep'
      /\ \A q \in Proc : (PointOK(q) /\ SleepOK(q))'
      /\ \A t \in Sem : Granted(t)' = Granted(t)
  BY <1>1, <1>2, RunningStep DEF IInv, TypeOK
<1>4. NoIdlePermit' /\ Conservation'
  BY <1>1, <1>3 DEF IInv, NoIdlePermit, Conservation
<1>. QED  BY <1>3, <1>4 DEF IInv

LEMMA DownFastInv ==
  ASSUME IInv, NEW p \in Proc, NEW s \in Sem, DownFast(p, s)
  PROVE  IInv'
<1>1. /\ At(p, "kern")
      /\ value[s] > 0
      /\ value' = [value EXCEPT ![s] = @ - 1]
      /\ credit' = [credit EXCEPT ![s] = @ - 1]
      /\ UNCHANGED <<state, wait_state, current, rq, need_resched, pc, queue, wsem,
                     wakeup_flags, timers, exiting>>
  BY DEF DownFast, PermitLeft, schedVars
<1>2. /\ Granted(s) \subseteq Proc
      /\ IsFiniteSet(Granted(s))
      /\ Cardinality(Granted(s)) \in Nat
  BY ProcAssumption, FS_Subset, FS_CardinalityType DEF Granted
<1>3. value' \in [Sem -> Nat] /\ credit' \in [Sem -> Nat]
  BY <1>1, <1>2 DEF IInv, TypeOK, Conservation
<1>4. /\ TypeOK' /\ RunQueueExact' /\ ReschedOnlyCurrent' /\ StackNodesLive'
      /\ WaitersAsleep'
      /\ \A q \in Proc : (PointOK(q) /\ SleepOK(q))'
      /\ \A t \in Sem : Granted(t)' = Granted(t)
  BY <1>1, <1>3, RunningStep DEF IInv, TypeOK, SchedTypeOK, ReschedOnlyCurrent
<1>5. NoIdlePermit'
  BY <1>1 DEF IInv, TypeOK, NoIdlePermit
<1>6. Conservation'
  BY <1>1, <1>2, <1>4 DEF IInv, TypeOK, Conservation
<1>. QED  BY <1>4, <1>5, <1>6 DEF IInv

LEMMA UpFreeInv ==
  ASSUME IInv, NEW p \in Proc, NEW s \in Sem, UpFree(p, s)
  PROVE  IInv'
<1>1. /\ At(p, "kern")
      /\ queue[s] = <<>>
      /\ value' = [value EXCEPT ![s] = @ + 1]
      /\ credit' = [credit EXCEPT ![s] = @ + 1]
      /\ UNCHANGED <<state, wait_state, current, rq, need_resched, pc, queue, wsem,
                     wakeup_flags, timers, exiting>>
  BY DEF UpFree, NobodyWaits, schedVars
<1>2. /\ IsFiniteSet(Granted(s))
      /\ Cardinality(Granted(s)) \in Nat
  BY ProcAssumption, FS_Subset, FS_CardinalityType DEF Granted
<1>3. value' \in [Sem -> Nat] /\ credit' \in [Sem -> Nat]
  BY <1>1 DEF IInv, TypeOK
<1>4. /\ TypeOK' /\ RunQueueExact' /\ ReschedOnlyCurrent' /\ StackNodesLive'
      /\ WaitersAsleep'
      /\ \A q \in Proc : (PointOK(q) /\ SleepOK(q))'
      /\ \A t \in Sem : Granted(t)' = Granted(t)
  BY <1>1, <1>3, RunningStep DEF IInv, TypeOK, SchedTypeOK, ReschedOnlyCurrent
<1>5. NoIdlePermit'
  BY <1>1 DEF IInv, TypeOK, NoIdlePermit
<1>6. Conservation'
  BY <1>1, <1>2, <1>4 DEF IInv, TypeOK, Conservation
<1>. QED  BY <1>4, <1>5, <1>6 DEF IInv

LEMMA DownBlockInv ==
  ASSUME IInv, NEW p \in Proc, NEW s \in Sem, DownBlock(p, s)
  PROVE  IInv'
<1>. USE DEF DownBlock, PermitLeft, At, Goto, SetSleeping, IInv
<1>0. /\ p = current /\ pc[p] = "kern" /\ p # idle /\ state[p] = "RUNNABLE"
      /\ queue[s] \in Seq(Proc) /\ p \notin Waiters(s)
      /\ \A t \in Sem : Waiters(t) \subseteq Proc /\ p \notin Waiters(t)
  BY WaitersType DEF PointOK, TypeOK, SchedTypeOK, StackNodesLive
<1>1. TypeOK'
  BY <1>0, AppendFacts DEF TypeOK, SchedTypeOK, ProcState, WaitState, PC
<1>2. /\ \A t \in Sem : t # s => Waiters(t)' = Waiters(t)
      /\ Waiters(s)' = Waiters(s) \cup {p}
  BY <1>0, AppendFacts DEF TypeOK, Waiters
<1>3. RunQueueExact' /\ ReschedOnlyCurrent'
  BY <1>0 DEF RunQueueExact, ReschedOnlyCurrent, TypeOK, SchedTypeOK
<1>4. StackNodesLive'
  <2>1. \A t \in Sem : IsInjective(queue[t])'
    BY <1>0, AppendFacts DEF TypeOK, Waiters, StackNodesLive
  <2>2. \A t \in Sem : \A q \in Waiters(t)' : wsem'[q] = t /\ pc'[q] \in {"down_sched", "down_wait"}
    BY <1>0, <1>2 DEF TypeOK, StackNodesLive
  <2>3. \A q \in timers' : pc'[q] \in {"sleep_sched", "sleep_wait"}
    BY <1>0 DEF TypeOK, StackNodesLive
  <2>. QED  BY <2>1, <2>2, <2>3 DEF StackNodesLive
<1>5. WaitersAsleep'
  <2>. SUFFICES ASSUME NEW t \in Sem, NEW q \in Waiters(t)'
                PROVE  state'[q] = "SLEEPING" /\ wait_state'[q] = "KSEM"
    BY DEF WaitersAsleep
  <2>1. q = p \/ (q # p /\ q \in Waiters(t))
    BY <1>2
  <2>. QED  BY <1>0, <2>1 DEF WaitersAsleep, TypeOK, SchedTypeOK
<1>6. NoIdlePermit'
  BY <1>0 DEF NoIdlePermit, TypeOK
<1>7. Conservation'
  <2>1. \A t \in Sem, q \in Proc : q \in Granted(t)' <=> q \in Granted(t)
    BY <1>0, <1>2 DEF Granted, TypeOK
  <2>. QED  BY <2>1, SameGranted DEF Conservation
<1>8. \A q \in Proc : (PointOK(q) /\ SleepOK(q))'
  <2>. SUFFICES ASSUME NEW q \in Proc PROVE PointOK(q)' /\ SleepOK(q)'
    OBVIOUS
  <2>1. PointOK(q)'
    BY <1>0 DEF PointOK, TypeOK, SchedTypeOK
  <2>2. SleepOK(q)'
    BY ZenonT(60), <1>0, <1>2 DEF SleepOK, PointOK, TypeOK, SchedTypeOK
  <2>. QED  BY <2>1, <2>2
<1>. QED  BY <1>1, <1>3, <1>4, <1>5, <1>6, <1>7, <1>8

(* wakeup_proc keeps the run queue exact and touches only whom it wakes. *)
LEMMA WakeupFacts ==
  ASSUME IInv, NEW S \in SUBSET Proc, WakeupAll(S), UNCHANGED current,
         \A q \in S : state[q] # "ZOMBIE"
  PROVE  /\ state' \in [Proc -> ProcState]
         /\ wait_state' \in [Proc -> WaitState]
         /\ rq' \subseteq Proc
         /\ RunQueueExact'
         /\ \A q \in Proc : q \notin S => /\ state'[q] = state[q]
                                          /\ wait_state'[q] = wait_state[q]
         /\ \A q \in S : state'[q] = "RUNNABLE" /\ wait_state'[q] = "NONE"
<1>. USE DEF WakeupAll, IInv
<1>1. \A q \in Proc : state[q] = "RUNNABLE" => wait_state[q] = "NONE"
  BY DEF SleepOK
<1>2. /\ state' \in [Proc -> ProcState]
      /\ wait_state' \in [Proc -> WaitState]
      /\ rq' \subseteq Proc
  BY DEF TypeOK, SchedTypeOK, ProcState, WaitState
<1>3. /\ \A q \in Proc : q \notin S => /\ state'[q] = state[q]
                                       /\ wait_state'[q] = wait_state[q]
      /\ \A q \in S : state'[q] = "RUNNABLE" /\ wait_state'[q] = "NONE"
  BY <1>1
<1>4. \A q \in Proc \ {idle} : q \in rq' <=> state'[q] = "RUNNABLE" /\ q # current'
  BY DEF RunQueueExact
<1>5. rq' \subseteq Proc \ {idle}
  BY DEF RunQueueExact
<1>. QED  BY <1>2, <1>3, <1>4, <1>5 DEF RunQueueExact

LEMMA UpHandOffInv ==
  ASSUME IInv, NEW p \in Proc, NEW s \in Sem, UpHandOff(p, s)
  PROVE  IInv'
<1>. USE DEF IInv
<1>. DEFINE first == Head(queue[s])
<1>1. /\ At(p, "kern")
      /\ queue[s] # <<>>
      /\ queue' = [queue EXCEPT ![s] = Tail(@)]
      /\ wakeup_flags' = [wakeup_flags EXCEPT ![first] = "KSEM"]
      /\ WakeupAll({first})
      /\ credit' = [credit EXCEPT ![s] = @ + 1]
      /\ UNCHANGED <<current, need_resched, pc, exiting, value, wsem, timers>>
  BY DEF UpHandOff, NobodyWaits
<1>2. /\ p = current /\ pc[p] = "kern" /\ p # idle /\ state[p] = "RUNNABLE"
      /\ \A t \in Sem : Waiters(t) \subseteq Proc /\ p \notin Waiters(t)
  BY <1>1, RunningFacts DEF At
<1>3. queue[s] \in Seq(Proc) /\ IsInjective(queue[s])
  BY DEF TypeOK, StackNodesLive
<1>4. /\ first \in Waiters(s) /\ first \in Proc
      /\ Tail(queue[s]) \in Seq(Proc)
      /\ ToSet(Tail(queue[s])) = Waiters(s) \ {first}
      /\ IsInjective(Tail(queue[s]))
  BY <1>1, <1>3, TailFacts DEF Waiters
<1>5. /\ first # p
      /\ state[first] = "SLEEPING"
      /\ wsem[first] = s
      /\ pc[first] = "down_wait"
  BY <1>2, <1>4 DEF WaitersAsleep, StackNodesLive, PointOK
<1>6. /\ state' \in [Proc -> ProcState]
      /\ wait_state' \in [Proc -> WaitState]
      /\ rq' \subseteq Proc
      /\ RunQueueExact'
      /\ \A q \in Proc : q # first => /\ state'[q] = state[q]
                                      /\ wait_state'[q] = wait_state[q]
      /\ state'[first] = "RUNNABLE" /\ wait_state'[first] = "NONE"
  <2>1. {first} \in SUBSET Proc /\ \A q \in {first} : state[q] # "ZOMBIE"
    BY <1>4, <1>5
  <2>2. WakeupAll({first}) /\ UNCHANGED current
    BY <1>1
  <2>. QED  BY <2>1, <2>2, WakeupFacts
<1>7. /\ Waiters(s)' = Waiters(s) \ {first}
      /\ \A t \in Sem : t # s => Waiters(t)' = Waiters(t)
  BY <1>1, <1>4 DEF TypeOK, Waiters
<1>8. \A t \in Sem : first \in Waiters(t) => t = s
  BY <1>4, <1>5 DEF StackNodesLive
<1>9. TypeOK'
  <2>1. queue' \in [Sem -> Seq(Proc)]
    BY <1>1, <1>4 DEF TypeOK
  <2>2. credit' \in [Sem -> Nat] /\ wakeup_flags' \in [Proc -> {"INTERRUPTED", "KSEM"}]
    BY SMTT(40), <1>1 DEF TypeOK
  <2>3. SchedTypeOK'
    BY <1>1, <1>6 DEF TypeOK, SchedTypeOK
  <2>. QED  BY <1>1, <2>1, <2>2, <2>3 DEF TypeOK
<1>10. ReschedOnlyCurrent'
  BY <1>1 DEF ReschedOnlyCurrent
<1>11. StackNodesLive'
  <2>1. \A t \in Sem : IsInjective(queue[t])'
    BY SMTT(40), <1>1, <1>4 DEF TypeOK, StackNodesLive
  <2>2. \A t \in Sem : \A q \in Waiters(t)' : wsem'[q] = t /\ pc'[q] \in {"down_sched", "down_wait"}
    BY <1>1, <1>7 DEF StackNodesLive
  <2>3. \A q \in timers' : pc'[q] \in {"sleep_sched", "sleep_wait"}
    BY <1>1 DEF StackNodesLive
  <2>. QED  BY <2>1, <2>2, <2>3 DEF StackNodesLive
<1>12. WaitersAsleep'
  <2>. SUFFICES ASSUME NEW t \in Sem, NEW q \in Waiters(t)'
                PROVE  state'[q] = "SLEEPING" /\ wait_state'[q] = "KSEM"
    BY DEF WaitersAsleep
  <2>1. q \in Waiters(t) /\ q # first /\ q \in Proc
    BY <1>2, <1>7, <1>8
  <2>. QED  BY <1>6, <2>1 DEF WaitersAsleep
<1>13. NoIdlePermit'
  BY <1>1 DEF NoIdlePermit, TypeOK
<1>14. Conservation'
  <2>1. \A t \in Sem : t # s => Granted(t)' = Granted(t)
    <3>. SUFFICES ASSUME NEW t \in Sem, t # s, NEW q \in Proc
                  PROVE  q \in Granted(t)' <=> q \in Granted(t)
      BY SameGranted
    <3>. QED  BY <1>1, <1>7 DEF Granted
  <2>2. Granted(s)' = Granted(s) \cup {first} /\ first \notin Granted(s)
    <3>1. Granted(s)' \subseteq Proc /\ Granted(s) \subseteq Proc
      BY DEF Granted
    <3>2. \A q \in Proc : q \in Granted(s)' <=> q \in Granted(s) \/ q = first
      BY <1>1, <1>4, <1>5, <1>7 DEF Granted
    <3>3. first \notin Granted(s)
      BY <1>4 DEF Granted
    <3>. QED  BY <1>4, <3>1, <3>2, <3>3
  <2>3. IsFiniteSet(Granted(s)) /\ Cardinality(Granted(s)) \in Nat
    BY ProcAssumption, FS_Subset, FS_CardinalityType DEF Granted
  <2>4. Cardinality(Granted(s)') = Cardinality(Granted(s)) + 1
    BY <2>2, <2>3, FS_AddElement
  <2>5. \A t \in Sem : credit'[t] = value'[t] + Cardinality(Granted(t)')
    <3>1. credit[s] \in Nat /\ value[s] \in Nat
          /\ credit[s] = value[s] + Cardinality(Granted(s))
      BY DEF Conservation, TypeOK
    <3>2. credit'[s] = credit[s] + 1 /\ value'[s] = value[s]
      BY <1>1 DEF TypeOK
    <3>3. \A t \in Sem : t # s => credit'[t] = credit[t] /\ value'[t] = value[t]
      BY <1>1 DEF TypeOK
    <3>4. credit'[s] = value'[s] + Cardinality(Granted(s)')
      BY <2>3, <2>4, <3>1, <3>2
    <3>5. \A t \in Sem : t # s => credit'[t] = value'[t] + Cardinality(Granted(t)')
      BY <2>1, <3>3 DEF Conservation
    <3>. QED  BY <3>4, <3>5
  <2>. QED  BY <2>5 DEF Conservation
<1>15. \A q \in Proc : (PointOK(q) /\ SleepOK(q))'
  <2>. SUFFICES ASSUME NEW q \in Proc PROVE PointOK(q)' /\ SleepOK(q)'
    OBVIOUS
  <2>1. PointOK(q) /\ SleepOK(q) /\ wsem[q] \in Sem
    BY DEF TypeOK
  <2>2. CASE q = first
    BY <1>1, <1>2, <1>5, <1>6, <2>1, <2>2 DEF PointOK, SleepOK, TypeOK
  <2>3. CASE q # first
    <3>1. q \in Waiters(wsem[q]) => q \in Waiters(wsem[q])'
      BY <1>1, <1>7, <2>1, <2>3
    <3>. QED  BY <1>1, <1>6, <2>1, <2>3, <3>1 DEF PointOK, SleepOK, TypeOK
  <2>. QED  BY <2>2, <2>3
<1>. QED  BY <1>6, <1>9, <1>10, <1>11, <1>12, <1>13, <1>14, <1>15

LEMMA DownReturnInv ==
  ASSUME IInv, NEW p \in Proc, DownReturn(p)
  PROVE  IInv'
<1>. USE DEF IInv
<1>0. PICK s \in Sem : s = wsem[p]
  BY DEF TypeOK
<1>1. /\ p = current /\ pc[p] = "down_wait"
      /\ state[p] = "RUNNABLE" /\ p \notin Waiters(s)
      /\ p # idle
  BY <1>0 DEF DownReturn, At, PointOK, WaitersAsleep
<1>2. /\ credit' = [credit EXCEPT ![s] = @ - 1]
      /\ pc' = [pc EXCEPT ![p] = "kern"]
      /\ UNCHANGED <<state, wait_state, current, rq, need_resched, exiting, value,
                     queue, wsem, wakeup_flags, timers>>
  BY <1>0, <1>1 DEF DownReturn, Goto, schedVars
<1>3. \A t \in Sem : Waiters(t)' = Waiters(t) /\ p \notin Waiters(t)
  BY <1>0, <1>1, <1>2 DEF Waiters, StackNodesLive
<1>4. /\ p \in Granted(s)
      /\ IsFiniteSet(Granted(s)) /\ Cardinality(Granted(s)) \in Nat
  BY <1>0, <1>1, ProcAssumption, FS_Subset, FS_CardinalityType DEF Granted
<1>5. /\ Granted(s)' = Granted(s) \ {p}
      /\ \A t \in Sem : t # s => Granted(t)' = Granted(t)
  <2>1. \A t \in Sem : Granted(t)' \subseteq Proc /\ Granted(t) \subseteq Proc
    BY DEF Granted
  <2>2. \A t \in Sem, q \in Proc : q # p => (q \in Granted(t)' <=> q \in Granted(t))
    BY <1>2, <1>3 DEF Granted, TypeOK
  <2>3. \A t \in Sem : p \notin Granted(t)' /\ (t # s => p \notin Granted(t))
    BY <1>0, <1>2 DEF Granted, TypeOK
  <2>. QED  BY <1>1, <2>1, <2>2, <2>3
<1>6. Cardinality(Granted(s)') = Cardinality(Granted(s)) - 1
  BY <1>4, <1>5, FS_RemoveElement
<1>7. credit[s] \in Nat /\ value[s] \in Nat /\ credit[s] = value[s] + Cardinality(Granted(s))
  BY <1>1 DEF Conservation, TypeOK
<1>8. Cardinality(Granted(s)) # 0
  BY <1>4, FS_EmptySet
<1>9. TypeOK'
  <2>1. credit' \in [Sem -> Nat]
    BY <1>2, <1>4, <1>7, <1>8 DEF TypeOK
  <2>. QED  BY <1>2, <2>1 DEF TypeOK, SchedTypeOK, PC
<1>10. RunQueueExact' /\ ReschedOnlyCurrent' /\ NoIdlePermit'
  BY <1>2 DEF RunQueueExact, ReschedOnlyCurrent, NoIdlePermit
<1>11. StackNodesLive' /\ WaitersAsleep'
  <2>1. \A t \in Sem : IsInjective(queue[t])'
    BY <1>2 DEF StackNodesLive
  <2>2. \A q \in Proc : q # p => pc'[q] = pc[q]
    BY <1>2 DEF TypeOK
  <2>3. \A t \in Sem : \A q \in Waiters(t)' : wsem'[q] = t /\ pc'[q] \in {"down_sched", "down_wait"}
    BY <1>2, <1>3, <2>2, WaitersType DEF StackNodesLive
  <2>4. \A q \in timers' : pc'[q] \in {"sleep_sched", "sleep_wait"}
    BY <1>1, <1>2, <2>2 DEF StackNodesLive, TypeOK
  <2>5. WaitersAsleep'
    BY <1>2, <1>3 DEF WaitersAsleep
  <2>. QED  BY <2>1, <2>3, <2>4, <2>5 DEF StackNodesLive
<1>12. Conservation'
  <2>1. credit'[s] = value'[s] + Cardinality(Granted(s)')
    BY <1>1, <1>2, <1>4, <1>6, <1>7 DEF TypeOK
  <2>2. \A t \in Sem : t # s => credit'[t] = value'[t] + Cardinality(Granted(t)')
    BY <1>2, <1>5 DEF Conservation, TypeOK
  <2>. QED  BY <2>1, <2>2 DEF Conservation
<1>13. \A q \in Proc : (PointOK(q) /\ SleepOK(q))'
  <2>. SUFFICES ASSUME NEW q \in Proc PROVE PointOK(q)' /\ SleepOK(q)'
    OBVIOUS
  <2>1. PointOK(q) /\ SleepOK(q) /\ wsem[q] \in Sem
    BY DEF TypeOK
  <2>2. CASE q = p
    BY <1>1, <1>2, <2>1, <2>2 DEF PointOK, SleepOK, TypeOK
  <2>3. CASE q # p
    BY <1>2, <1>3, <2>1, <2>3 DEF PointOK, SleepOK, TypeOK
  <2>. QED  BY <2>2, <2>3
<1>. QED  BY <1>9, <1>10, <1>11, <1>12, <1>13

LEMMA SleepInv ==
  ASSUME IInv, NEW p \in Proc, Sleep(p)
  PROVE  IInv'
<1>. USE DEF IInv
<1>1. /\ p = current /\ pc[p] = "kern" /\ p # idle /\ state[p] = "RUNNABLE"
      /\ \A t \in Sem : Waiters(t) \subseteq Proc /\ p \notin Waiters(t)
  BY RunningFacts DEF Sleep, At
<1>2. /\ state' = [state EXCEPT ![p] = "SLEEPING"]
      /\ wait_state' = [wait_state EXCEPT ![p] = "TIMER"]
      /\ timers' = timers \cup {p}
      /\ pc' = [pc EXCEPT ![p] = "sleep_sched"]
      /\ UNCHANGED <<current, rq, need_resched, exiting, value, queue, wsem,
                     wakeup_flags, credit>>
  BY DEF Sleep, SetSleeping, Goto
<1>3. \A q \in Proc : q # p => /\ state'[q] = state[q]
                               /\ wait_state'[q] = wait_state[q]
                               /\ pc'[q] = pc[q]
  BY <1>2 DEF TypeOK, SchedTypeOK
<1>4. state'[p] = "SLEEPING" /\ wait_state'[p] = "TIMER" /\ pc'[p] = "sleep_sched"
  BY <1>2 DEF TypeOK, SchedTypeOK
<1>5. \A t \in Sem : Waiters(t)' = Waiters(t)
  BY <1>2 DEF Waiters
<1>6. TypeOK'
  BY <1>2 DEF TypeOK, SchedTypeOK, ProcState, WaitState, PC
<1>7. RunQueueExact' /\ ReschedOnlyCurrent' /\ NoIdlePermit'
  BY <1>1, <1>2, <1>3 DEF RunQueueExact, ReschedOnlyCurrent, NoIdlePermit
<1>8. StackNodesLive' /\ WaitersAsleep'
  <2>1. \A t \in Sem : IsInjective(queue[t])'
    BY <1>2 DEF StackNodesLive
  <2>2. \A t \in Sem : \A q \in Waiters(t)' : wsem'[q] = t /\ pc'[q] \in {"down_sched", "down_wait"}
    BY <1>1, <1>2, <1>3, <1>5 DEF StackNodesLive
  <2>3. \A q \in timers' : pc'[q] \in {"sleep_sched", "sleep_wait"}
    BY <1>2, <1>3, <1>4 DEF StackNodesLive, TypeOK
  <2>4. WaitersAsleep'
    BY <1>1, <1>3, <1>5 DEF WaitersAsleep
  <2>. QED  BY <2>1, <2>2, <2>3, <2>4 DEF StackNodesLive
<1>9. Conservation'
  <2>1. \A t \in Sem, q \in Proc : q \in Granted(t)' <=> q \in Granted(t)
    BY <1>1, <1>2, <1>3, <1>4, <1>5 DEF Granted
  <2>. QED  BY <1>2, <2>1, SameGranted DEF Conservation
<1>10. \A q \in Proc : (PointOK(q) /\ SleepOK(q))'
  <2>. SUFFICES ASSUME NEW q \in Proc PROVE PointOK(q)' /\ SleepOK(q)'
    OBVIOUS
  <2>1. PointOK(q) /\ SleepOK(q) /\ wsem[q] \in Sem
    BY DEF TypeOK
  <2>2. CASE q = p
    BY <1>1, <1>2, <1>4, <2>1, <2>2 DEF PointOK, SleepOK
  <2>3. CASE q # p
    BY <1>2, <1>3, <1>5, <2>1, <2>3 DEF PointOK, SleepOK
  <2>. QED  BY <2>2, <2>3
<1>. QED  BY <1>6, <1>7, <1>8, <1>9, <1>10

LEMMA SleepReturnInv ==
  ASSUME IInv, NEW p \in Proc, SleepReturn(p)
  PROVE  IInv'
<1>. USE DEF IInv
<1>1. /\ p = current /\ pc[p] = "sleep_wait" /\ p # idle /\ state[p] = "RUNNABLE"
      /\ \A t \in Sem : Waiters(t) \subseteq Proc /\ p \notin Waiters(t)
  BY WaitersType DEF SleepReturn, At, PointOK, StackNodesLive
<1>2. /\ timers' = timers \ {p}
      /\ pc' = [pc EXCEPT ![p] = "kern"]
      /\ UNCHANGED <<state, wait_state, current, rq, need_resched, exiting, value,
                     queue, wsem, wakeup_flags, credit>>
  BY DEF SleepReturn, TimerDeleted, Goto, schedVars
<1>3. pc'[p] = "kern" /\ \A q \in Proc : q # p => pc'[q] = pc[q]
  BY <1>2 DEF TypeOK
<1>4. \A t \in Sem : Waiters(t)' = Waiters(t)
  BY <1>2 DEF Waiters
<1>5. TypeOK'
  BY <1>2 DEF TypeOK, SchedTypeOK, PC
<1>6. RunQueueExact' /\ ReschedOnlyCurrent' /\ NoIdlePermit'
  BY <1>2 DEF RunQueueExact, ReschedOnlyCurrent, NoIdlePermit
<1>7. StackNodesLive' /\ WaitersAsleep'
  <2>1. \A t \in Sem : IsInjective(queue[t])'
    BY <1>2 DEF StackNodesLive
  <2>2. \A t \in Sem : \A q \in Waiters(t)' : wsem'[q] = t /\ pc'[q] \in {"down_sched", "down_wait"}
    BY <1>1, <1>2, <1>3, <1>4 DEF StackNodesLive
  <2>3. \A q \in timers' : pc'[q] \in {"sleep_sched", "sleep_wait"}
    BY <1>2, <1>3 DEF StackNodesLive, TypeOK
  <2>4. WaitersAsleep'
    BY <1>2, <1>4 DEF WaitersAsleep
  <2>. QED  BY <2>1, <2>2, <2>3, <2>4 DEF StackNodesLive
<1>8. Conservation'
  <2>1. \A t \in Sem, q \in Proc : q \in Granted(t)' <=> q \in Granted(t)
    BY <1>1, <1>2, <1>3, <1>4 DEF Granted
  <2>. QED  BY <1>2, <2>1, SameGranted DEF Conservation
<1>9. \A q \in Proc : (PointOK(q) /\ SleepOK(q))'
  <2>. SUFFICES ASSUME NEW q \in Proc PROVE PointOK(q)' /\ SleepOK(q)'
    OBVIOUS
  <2>1. PointOK(q) /\ SleepOK(q) /\ wsem[q] \in Sem
    BY DEF TypeOK
  <2>2. CASE q = p
    BY <1>1, <1>2, <1>3, <2>1, <2>2 DEF PointOK, SleepOK
  <2>3. CASE q # p
    BY <1>2, <1>3, <1>4, <2>1, <2>3 DEF PointOK, SleepOK
  <2>. QED  BY <2>2, <2>3
<1>. QED  BY <1>5, <1>6, <1>7, <1>8, <1>9

LEMMA ExitInv ==
  ASSUME IInv, NEW p \in Proc, Exit(p)
  PROVE  IInv'
<1>. USE DEF IInv
<1>1. /\ p = current /\ pc[p] \in {"kern", "trap"} /\ p # idle
      /\ state[p] = "RUNNABLE" /\ p \notin timers
      /\ \A t \in Sem : Waiters(t) \subseteq Proc /\ p \notin Waiters(t)
  BY RunningFacts DEF Exit, At
<1>2. /\ state' = [state EXCEPT ![p] = "ZOMBIE"]
      /\ pc' = [pc EXCEPT ![p] = "exit_sched"]
      /\ UNCHANGED <<wait_state, current, rq, need_resched, exiting, value, queue,
                     wsem, wakeup_flags, timers, credit>>
  BY DEF Exit, Goto
<1>3. \A q \in Proc : q # p => state'[q] = state[q] /\ pc'[q] = pc[q]
  BY <1>2 DEF TypeOK, SchedTypeOK
<1>4. state'[p] = "ZOMBIE" /\ pc'[p] = "exit_sched"
  BY <1>2 DEF TypeOK, SchedTypeOK
<1>5. \A t \in Sem : Waiters(t)' = Waiters(t)
  BY <1>2 DEF Waiters
<1>6. TypeOK'
  BY <1>2 DEF TypeOK, SchedTypeOK, ProcState, PC
<1>7. RunQueueExact' /\ ReschedOnlyCurrent' /\ NoIdlePermit'
  BY <1>1, <1>2, <1>3 DEF RunQueueExact, ReschedOnlyCurrent, NoIdlePermit
<1>8. StackNodesLive' /\ WaitersAsleep'
  <2>1. \A t \in Sem : IsInjective(queue[t])'
    BY <1>2 DEF StackNodesLive
  <2>2. \A t \in Sem : \A q \in Waiters(t)' : wsem'[q] = t /\ pc'[q] \in {"down_sched", "down_wait"}
    BY <1>1, <1>2, <1>3, <1>5 DEF StackNodesLive
  <2>3. \A q \in timers' : pc'[q] \in {"sleep_sched", "sleep_wait"}
    BY <1>1, <1>2, <1>3 DEF StackNodesLive, TypeOK
  <2>4. WaitersAsleep'
    BY <1>1, <1>2, <1>3, <1>5 DEF WaitersAsleep
  <2>. QED  BY <2>1, <2>2, <2>3, <2>4 DEF StackNodesLive
<1>9. Conservation'
  <2>1. \A t \in Sem, q \in Proc : q \in Granted(t)' <=> q \in Granted(t)
    BY <1>1, <1>2, <1>3, <1>4, <1>5 DEF Granted
  <2>. QED  BY <1>2, <2>1, SameGranted DEF Conservation
<1>10. \A q \in Proc : (PointOK(q) /\ SleepOK(q))'
  <2>. SUFFICES ASSUME NEW q \in Proc PROVE PointOK(q)' /\ SleepOK(q)'
    OBVIOUS
  <2>1. PointOK(q) /\ SleepOK(q) /\ wsem[q] \in Sem
    BY DEF TypeOK
  <2>2. CASE q = p
    BY <1>1, <1>2, <1>4, <2>1, <2>2 DEF PointOK, SleepOK
  <2>3. CASE q # p
    BY <1>2, <1>3, <1>5, <2>1, <2>3 DEF PointOK, SleepOK
  <2>. QED  BY <2>2, <2>3
<1>. QED  BY <1>6, <1>7, <1>8, <1>9, <1>10

LEMMA SwitchToInv ==
  ASSUME IInv, NEW p \in Proc, NEW next \in Proc, SwitchTo(p, next)
  PROVE  IInv'
<1>. USE DEF IInv
<1>1. /\ p = current
      /\ pc[p] \in {"trap_sched", "down_sched", "sleep_sched", "exit_sched", "idle"}
      /\ ScheduleTo(next)
      /\ pc' = [pc EXCEPT ![p] = AfterSchedule[pc[p]]]
      /\ UNCHANGED <<state, wait_state, exiting, value, queue, wsem, wakeup_flags,
                     timers, credit>>
  BY DEF SwitchTo, Goto, ScheduleTo
<1>2. /\ current' = next
      /\ rq' = Enqueued \ {next}
      /\ need_resched' = [need_resched EXCEPT ![current] = FALSE]
      /\ next \in (IF Enqueued = {} THEN {idle} ELSE Enqueued)
  BY <1>1 DEF ScheduleTo
<1>3. \A q \in Proc : q # p => pc'[q] = pc[q]
  BY <1>1 DEF TypeOK
<1>4. \/ pc[p] = "trap_sched" /\ pc'[p] = "user"
      \/ pc[p] = "down_sched" /\ pc'[p] = "down_wait"
      \/ pc[p] = "sleep_sched" /\ pc'[p] = "sleep_wait"
      \/ pc[p] = "exit_sched" /\ pc'[p] = "dead"
      \/ pc[p] = "idle" /\ pc'[p] = "idle"
  BY <1>1 DEF TypeOK, AfterSchedule
<1>5. state[idle] = "RUNNABLE" /\ idle \in Proc /\ pc[idle] = "idle"
  BY ProcAssumption DEF PointOK
<1>6. Enqueued = {q \in Proc \ {idle} : state[q] = "RUNNABLE"}
  BY <1>1 DEF RunQueueExact, Enqueued
<1>7. state[next] = "RUNNABLE" /\ next \in Proc
  BY <1>2, <1>5, <1>6
<1>8. TypeOK'
  BY <1>1, <1>2, <1>4, <1>6 DEF TypeOK, SchedTypeOK, PC
<1>9. RunQueueExact'
  BY <1>1, <1>2, <1>6 DEF RunQueueExact
<1>10. ReschedOnlyCurrent'
  BY <1>1, <1>2 DEF ReschedOnlyCurrent, TypeOK, SchedTypeOK
<1>11. NoIdlePermit'
  BY <1>1 DEF NoIdlePermit
<1>12. \A t \in Sem : Waiters(t)' = Waiters(t) /\ Waiters(t) \subseteq Proc
  BY <1>1, WaitersType DEF Waiters
<1>13. StackNodesLive' /\ WaitersAsleep'
  <2>1. \A t \in Sem : IsInjective(queue[t])'
    BY <1>1 DEF StackNodesLive
  <2>2. \A t \in Sem : \A q \in Waiters(t)' : wsem'[q] = t /\ pc'[q] \in {"down_sched", "down_wait"}
    BY <1>1, <1>3, <1>4, <1>12 DEF StackNodesLive
  <2>3. \A q \in timers' : pc'[q] \in {"sleep_sched", "sleep_wait"}
    BY <1>1, <1>3, <1>4 DEF StackNodesLive, TypeOK
  <2>4. WaitersAsleep'
    BY <1>1, <1>12 DEF WaitersAsleep
  <2>. QED  BY <2>1, <2>2, <2>3, <2>4 DEF StackNodesLive
<1>14. Conservation'
  <2>1. ASSUME pc[p] = "down_sched" PROVE p \in Waiters(wsem[p])
    BY <1>1, <2>1 DEF SleepOK
  <2>2. \A t \in Sem, q \in Proc : q \in Granted(t)' <=> q \in Granted(t)
    BY <1>1, <1>3, <1>4, <1>12, <2>1 DEF Granted
  <2>. QED  BY <1>1, <2>2, SameGranted DEF Conservation
<1>15. \A q \in Proc : (PointOK(q) /\ SleepOK(q))'
  <2>. SUFFICES ASSUME NEW q \in Proc PROVE PointOK(q)' /\ SleepOK(q)'
    OBVIOUS
  <2>1. PointOK(q) /\ SleepOK(q) /\ wsem[q] \in Sem
    BY DEF TypeOK
  <2>2. CASE q = p
    <3>1. PointOK(q)'
      BY <1>1, <1>2, <1>4, <1>7, <2>1, <2>2 DEF PointOK
    <3>2. SleepOK(q)'
      BY <1>1, <1>4, <1>12, <2>1, <2>2 DEF SleepOK
    <3>. QED  BY <3>1, <3>2
  <2>3. CASE q # p
    <3>1. PointOK(q)'
      BY <1>1, <1>2, <1>3, <1>7, <2>1, <2>3 DEF PointOK
    <3>2. SleepOK(q)'
      BY <1>1, <1>3, <1>12, <2>1, <2>3 DEF SleepOK
    <3>. QED  BY <3>1, <3>2
  <2>. QED  BY <2>2, <2>3
<1>. QED  BY <1>8, <1>9, <1>10, <1>11, <1>13, <1>14, <1>15

(* Kill and the timer interrupt wake threads that sleep outside every semaphore
   queue; such a wakeup keeps the invariant. *)
LEMMA InterruptWakeupInv ==
  ASSUME IInv, NEW S \in SUBSET Proc, WakeupAll(S),
         \A q \in S : state[q] # "ZOMBIE" /\ pc[q] \notin {"down_sched", "down_wait"},
         UNCHANGED <<current, value, queue, wsem, wakeup_flags, credit>>,
         exiting' \subseteq Proc,
         timers' \subseteq timers,
         \A q \in timers : q \in timers' \/ q \in S,
         need_resched' \in [Proc -> BOOLEAN],
         \A q \in Proc : need_resched'[q] => q = current,
         UNCHANGED pc \/ (pc[current] = "user" /\ Goto(current, "trap"))
  PROVE  IInv'
<1>. USE DEF IInv
<1>1. /\ state' \in [Proc -> ProcState]
      /\ wait_state' \in [Proc -> WaitState]
      /\ rq' \subseteq Proc
      /\ RunQueueExact'
      /\ \A q \in Proc : q \notin S => /\ state'[q] = state[q]
                                       /\ wait_state'[q] = wait_state[q]
      /\ \A q \in S : state'[q] = "RUNNABLE" /\ wait_state'[q] = "NONE"
  BY WakeupFacts
<1>2. /\ pc' \in [Proc -> PC]
      /\ \A q \in Proc : \/ pc'[q] = pc[q]
                         \/ q = current /\ pc[q] = "user" /\ pc'[q] = "trap"
  BY DEF TypeOK, SchedTypeOK, PC, Goto
<1>3. TypeOK'
  BY <1>1, <1>2 DEF TypeOK, SchedTypeOK
<1>4. ReschedOnlyCurrent' /\ NoIdlePermit'
  BY DEF ReschedOnlyCurrent, NoIdlePermit
<1>5. \A t \in Sem : Waiters(t)' = Waiters(t) /\ Waiters(t) \subseteq Proc
  BY WaitersType DEF Waiters
<1>6. \A t \in Sem : \A q \in Waiters(t) : q \notin S
  BY DEF StackNodesLive
<1>7. StackNodesLive' /\ WaitersAsleep'
  <2>1. \A t \in Sem : IsInjective(queue[t])'
    BY DEF StackNodesLive
  <2>2. \A t \in Sem : \A q \in Waiters(t)' : wsem'[q] = t /\ pc'[q] \in {"down_sched", "down_wait"}
    BY <1>2, <1>5 DEF StackNodesLive
  <2>3. \A q \in timers' : pc'[q] \in {"sleep_sched", "sleep_wait"}
    BY <1>2 DEF StackNodesLive, TypeOK
  <2>4. WaitersAsleep'
    BY <1>1, <1>5, <1>6 DEF WaitersAsleep
  <2>. QED  BY <2>1, <2>2, <2>3, <2>4 DEF StackNodesLive
<1>8. Conservation'
  <2>1. \A t \in Sem, q \in Proc : q \in Granted(t)' <=> q \in Granted(t)
    BY <1>2, <1>5 DEF Granted
  <2>. QED  BY <2>1, SameGranted DEF Conservation
<1>9. \A q \in Proc : (PointOK(q) /\ SleepOK(q))'
  <2>. SUFFICES ASSUME NEW q \in Proc PROVE PointOK(q)' /\ SleepOK(q)'
    OBVIOUS
  <2>1. PointOK(q) /\ SleepOK(q) /\ wsem[q] \in Sem
    BY DEF TypeOK
  <2>2. CASE q \in S
    BY <1>1, <1>2, <2>1, <2>2 DEF PointOK, SleepOK
  <2>3. CASE q \notin S
    <3>1. PointOK(q)'
      BY <1>1, <1>2, <2>1, <2>3 DEF PointOK
    <3>2. SleepOK(q)'
      BY <1>1, <1>2, <1>5, <2>1, <2>3 DEF SleepOK
    <3>. QED  BY <3>1, <3>2
  <2>. QED  BY <2>2, <2>3
<1>. QED  BY <1>1, <1>3, <1>4, <1>7, <1>8, <1>9

LEMMA KillInv ==
  ASSUME IInv, NEW p \in Proc, NEW q \in Proc, Kill(p, q)
  PROVE  IInv'
<1>. DEFINE S == {x \in {q} : wait_state[x] \in Interruptible}
<1>1. S \in SUBSET Proc
  OBVIOUS
<1>2. \A x \in S : state[x] # "ZOMBIE" /\ pc[x] \notin {"down_sched", "down_wait"}
  BY DEF IInv, SleepOK, Interruptible
<1>3. /\ WakeupAll(S)
      /\ UNCHANGED <<current, need_resched, pc, value, queue, wsem, wakeup_flags,
                     timers, credit>>
      /\ exiting' \subseteq Proc
  BY DEF Kill, IInv, TypeOK
<1>4. /\ timers' \subseteq timers
      /\ \A x \in timers : x \in timers' \/ x \in S
      /\ need_resched' \in [Proc -> BOOLEAN]
      /\ \A x \in Proc : need_resched'[x] => x = current
  BY <1>3 DEF IInv, TypeOK, SchedTypeOK, ReschedOnlyCurrent
<1>. HIDE DEF S
<1>. QED  BY <1>1, <1>2, <1>3, <1>4, InterruptWakeupInv

LEMMA TickInv ==
  ASSUME IInv, Tick
  PROVE  IInv'
<1>1. PICK S \in SUBSET timers : TimerIRQ(S)
  BY DEF Tick
<1>2. S \in SUBSET Proc
  BY DEF IInv, TypeOK
<1>3. \A x \in S : state[x] # "ZOMBIE" /\ pc[x] \notin {"down_sched", "down_wait"}
  BY <1>2 DEF IInv, StackNodesLive, PointOK
<1>4. /\ WakeupAll(S)
      /\ timers' = timers \ S
      /\ UNCHANGED <<current, exiting, value, queue, wsem, wakeup_flags, credit>>
      /\ UNCHANGED pc \/ (pc[current] = "user" /\ Goto(current, "trap"))
  BY <1>1 DEF TimerIRQ
<1>5. PICK e \in BOOLEAN : need_resched' = [need_resched EXCEPT
                                             ![current] = @ \/ e \/ current = idle]
  BY <1>1 DEF TimerIRQ, ProcTick
<1>6. need_resched' \in [Proc -> BOOLEAN]
  BY <1>5, Zenon DEF IInv, TypeOK, SchedTypeOK
<1>7. \A x \in Proc : need_resched'[x] => x = current
  BY <1>5 DEF IInv, TypeOK, SchedTypeOK, ReschedOnlyCurrent
<1>8. /\ exiting' \subseteq Proc
      /\ timers' \subseteq timers
      /\ \A x \in timers : x \in timers' \/ x \in S
  BY <1>4 DEF IInv, TypeOK
<1>. QED  BY <1>2, <1>3, <1>4, <1>6, <1>7, <1>8, InterruptWakeupInv

LEMMA StutterInv ==
  ASSUME IInv, UNCHANGED vars
  PROVE  IInv'
BY DEF vars, schedVars, threadVars, IInv, TypeOK, SchedTypeOK, RunQueueExact,
       ReschedOnlyCurrent, StackNodesLive, WaitersAsleep, NoIdlePermit,
       Conservation, Granted, Waiters, PointOK, SleepOK

(* Every step of the kernel threads keeps IInv, one case per action. *)
LEMMA NextInv == IInv /\ [Next]_vars => IInv'
<1>. SUFFICES ASSUME IInv, [Next]_vars PROVE IInv'
  OBVIOUS
<1>1. ASSUME NEW p \in Proc, Step(p) PROVE IInv'
  <2>1. CASE Syscall(p)  BY <2>1, SyscallInv
  <2>2. ASSUME NEW s \in Sem, DownFast(p, s) PROVE IInv'  BY <2>2, DownFastInv
  <2>3. ASSUME NEW s \in Sem, DownBlock(p, s) PROVE IInv'  BY <2>3, DownBlockInv
  <2>4. ASSUME NEW s \in Sem, UpFree(p, s) PROVE IInv'  BY <2>4, UpFreeInv
  <2>5. ASSUME NEW s \in Sem, UpHandOff(p, s) PROVE IInv'  BY <2>5, UpHandOffInv
  <2>6. CASE DownReturn(p)  BY <2>6, DownReturnInv
  <2>7. CASE Sleep(p)  BY <2>7, SleepInv
  <2>8. CASE SleepReturn(p)  BY <2>8, SleepReturnInv
  <2>9. ASSUME NEW q \in Proc, Kill(p, q) PROVE IInv'  BY <2>9, KillInv
  <2>10. CASE Yield(p)  BY <2>10, YieldInv
  <2>11. CASE TrapReturn(p)  BY <2>11, TrapReturnInv
  <2>12. CASE Exit(p)  BY <2>12, ExitInv
  <2>13. ASSUME NEW next \in Proc, SwitchTo(p, next) PROVE IInv'  BY <2>13, SwitchToInv
  <2>. QED  BY <1>1, <2>1, <2>2, <2>3, <2>4, <2>5, <2>6, <2>7, <2>8, <2>9, <2>10,
               <2>11, <2>12, <2>13 DEF Step, WakefulStep
<1>2. CASE Tick  BY <1>2, TickInv
<1>3. CASE UNCHANGED vars  BY <1>3, StutterInv
<1>. QED  BY <1>1, <1>2, <1>3 DEF Next

(* IInv holds in every state the kernel threads can reach, for every number of
   threads and semaphores: the sleepers, queues, timers and permits of sem.c,
   wait.c and do_sleep never lose track of one another. *)
THEOREM Invariance == Spec => []IInv
<1>. QED  BY InitInv, NextInv, PTL DEF Spec

(* Every variable keeps its type; in particular no permit count goes negative. *)
THEOREM TypeCorrect == Spec => []TypeOK
<1>1. IInv => TypeOK  BY DEF IInv
<1>. QED  BY Invariance, <1>1, PTL

(* sched.c: the run queue is exactly the runnable threads that are off the CPU. *)
THEOREM RunQueueCorrect == Spec => []RunQueueExact
<1>1. IInv => RunQueueExact  BY DEF IInv
<1>. QED  BY Invariance, <1>1, PTL

(* sem.c: permits are neither lost nor made. *)
THEOREM PermitsConserved == Spec => []Conservation
<1>1. IInv => Conservation  BY DEF IInv
<1>. QED  BY Invariance, <1>1, PTL

(* sem.c: no thread waits at a semaphore that has a permit left. *)
THEOREM NoPermitIdles == Spec => []NoIdlePermit
<1>1. IInv => NoIdlePermit  BY DEF IInv
<1>. QED  BY Invariance, <1>1, PTL

(* wait.c, sched.c: wait nodes and timers never outlive the stack frame that
   holds them. *)
THEOREM NoDanglingNode == Spec => []StackNodesLive
<1>1. IInv => StackNodesLive  BY DEF IInv
<1>. QED  BY Invariance, <1>1, PTL

(* sem.c:71, the assertion of __up, never fails. *)
THEOREM UpAssertion == Spec => []WaitersAsleep
<1>1. IInv => WaitersAsleep  BY DEF IInv
<1>. QED  BY Invariance, <1>1, PTL

(* sem.c:93, the assertion of down(), never fails. *)
THEOREM DownAssertion == Spec => []DownNotInterrupted
<1>1. ASSUME IInv PROVE DownNotInterrupted
  <2>. SUFFICES ASSUME NEW p \in Proc, At(p, "down_wait")
                PROVE  p \notin Waiters(wsem[p]) /\ wakeup_flags[p] = "KSEM"
    BY DEF DownNotInterrupted
  <2>1. state[p] = "RUNNABLE" /\ wakeup_flags[p] = "KSEM" /\ wsem[p] \in Sem
    BY <1>1 DEF IInv, PointOK, SleepOK, At, TypeOK
  <2>. QED  BY <1>1, <2>1 DEF IInv, WaitersAsleep
<1>. QED  BY Invariance, <1>1, PTL

(* No interleaving of kills, ticks and switches leaves a thread asleep where
   nothing will wake it. *)
THEOREM NoSleeperLost == Spec => []NoLostSleeper
<1>1. ASSUME IInv PROVE NoLostSleeper
  <2>. SUFFICES ASSUME NEW p \in Proc, state[p] = "SLEEPING"
                PROVE  \/ wait_state[p] = "KSEM" /\ p \in Waiters(wsem[p])
                       \/ wait_state[p] = "TIMER" /\ p \in timers
    BY DEF NoLostSleeper
  <2>1. pc[p] \in {"down_sched", "down_wait", "sleep_sched", "sleep_wait"}
    BY <1>1 DEF IInv, TypeOK, PC, PointOK
  <2>. QED  BY <1>1, <2>1 DEF IInv, SleepOK
<1>. QED  BY Invariance, <1>1, PTL

(* The three together: no thread sleeps where nothing wakes it, no node outlives its
   stack frame, and down() is never interrupted. *)
THEOREM SleepersAreSafe == Spec => []SleepersSafe
<1>. QED  BY NoDanglingNode, NoSleeperLost, DownAssertion, PTL DEF SleepersSafe

(* A wait on a semaphore ends only by an up() on it, for the first in line. *)
THEOREM WaitEndsByUp == Spec => OnlyUpEndsAWait
<1>. DEFINE A == \A p \in Proc :
       (state[p] = "SLEEPING" /\ wait_state[p] = "KSEM" /\ state'[p] = "RUNNABLE") =>
         /\ p = Head(queue[wsem[p]])
         /\ queue'[wsem[p]] = Tail(queue[wsem[p]])
         /\ credit'[wsem[p]] = credit[wsem[p]] + 1
<1>1. ASSUME IInv, Next PROVE A
  <2>. SUFFICES ASSUME NEW p \in Proc, state[p] = "SLEEPING", wait_state[p] = "KSEM",
                       state'[p] = "RUNNABLE"
                PROVE  /\ p = Head(queue[wsem[p]])
                       /\ queue'[wsem[p]] = Tail(queue[wsem[p]])
                       /\ credit'[wsem[p]] = credit[wsem[p]] + 1
    OBVIOUS
  <2>1. pc[p] \in {"down_sched", "down_wait"}
    BY <1>1 DEF IInv, TypeOK, PC, PointOK, SleepOK
  <2>2. state' # state
    OBVIOUS
  <2>3. ASSUME NEW r \in Proc, NEW s \in Sem, UpHandOff(r, s)
        PROVE  /\ p = Head(queue[wsem[p]])
               /\ queue'[wsem[p]] = Tail(queue[wsem[p]])
               /\ credit'[wsem[p]] = credit[wsem[p]] + 1
    <3>1. p = Head(queue[s])
      BY <1>1, <2>3 DEF UpHandOff, WakeupAll, IInv, TypeOK, SchedTypeOK
    <3>2. queue[s] # <<>> /\ queue[s] \in Seq(Proc)
      BY <1>1, <2>3 DEF UpHandOff, NobodyWaits, IInv, TypeOK
    <3>3. wsem[p] = s
      BY <1>1, <3>1, <3>2, TailFacts DEF IInv, StackNodesLive, Waiters
    <3>4. queue' = [queue EXCEPT ![s] = Tail(@)] /\ credit' = [credit EXCEPT ![s] = @ + 1]
      BY <2>3 DEF UpHandOff
    <3>5. queue'[s] = Tail(queue[s]) /\ credit'[s] = credit[s] + 1
      BY <1>1, <3>4 DEF IInv, TypeOK
    <3>. QED  BY <3>1, <3>3, <3>5
  <2>4. ASSUME NEW r \in Proc, NEW q \in Proc, Kill(r, q) PROVE FALSE
    BY <1>1, <2>4 DEF Kill, WakeupAll, Interruptible, IInv, TypeOK, SchedTypeOK
  <2>5. ASSUME NEW S \in SUBSET timers, TimerIRQ(S) PROVE FALSE
    <3>1. p \notin S
      BY <1>1, <2>1 DEF IInv, StackNodesLive
    <3>. QED  BY <2>5, <3>1 DEF TimerIRQ, WakeupAll
  <2>6. ASSUME NEW r \in Proc, NEW s \in Sem, DownBlock(r, s) \/ DownFast(r, s) \/ UpFree(r, s)
        PROVE  FALSE
    BY <1>1, <2>2, <2>6 DEF DownBlock, DownFast, UpFree, SetSleeping, schedVars, IInv,
                            TypeOK, SchedTypeOK
  <2>7. ASSUME NEW r \in Proc, Sleep(r) \/ Exit(r) PROVE FALSE
    BY <1>1, <2>7 DEF Sleep, Exit, SetSleeping, IInv, TypeOK, SchedTypeOK
  <2>8. ASSUME NEW r \in Proc,
               \/ Syscall(r) \/ DownReturn(r) \/ SleepReturn(r) \/ Yield(r) \/ TrapReturn(r)
               \/ \E next \in Proc : SwitchTo(r, next)
        PROVE  FALSE
    BY <2>2, <2>8 DEF Syscall, DownReturn, SleepReturn, Yield, TrapReturn, SwitchTo,
                      ScheduleTo, schedVars
  <2>. QED  BY <1>1, <2>3, <2>4, <2>5, <2>6, <2>7, <2>8 DEF Next, Step, WakefulStep, Tick
<1>2. IInv /\ [Next]_vars => [A]_vars
  BY <1>1
<1>. QED  BY Invariance, <1>2, PTL DEF Spec, OnlyUpEndsAWait

-----------------------------------------------------------------------------
(* The threads implement the semaphores of their callers. *)

(* A step that leaves values and queues, and moves nobody into or out of the point
   behind schedule() in __down, is none of the abstract semaphores. *)
LEMMA SemStutter ==
  ASSUME value' = value, queue' = queue,
         \A q \in Proc : \A s \in Sem : q \in Granted(s)' <=> q \in Granted(s)
  PROVE  UNCHANGED Sm!semVars
<1>1. \A s \in Sem : Granted(s)' = Granted(s)
  BY SameGranted
<1>. QED  BY <1>1 DEF Sm!semVars

(* A running thread neither waits nor was handed a permit. *)
LEMMA KernelNotBlocked ==
  ASSUME IInv, NEW p \in Proc, At(p, "kern")
  PROVE  p \notin Sm!Blocked
<1>1. \A s \in Sem : p \notin ToSet(queue[s]) /\ p \notin Granted(s)
  BY RunningFacts DEF Waiters, Granted, At
<1>. QED  BY <1>1 DEF Sm!Blocked, Sm!ToSet, ToSet

LEMMA DownFastTakes ==
  ASSUME IInv, NEW p \in Proc, NEW s \in Sem, DownFast(p, s)
  PROVE  Sm!Next
<1>1. p \notin Sm!Blocked
  BY KernelNotBlocked DEF DownFast
<1>2. \A t \in Sem : Granted(t)' = Granted(t)
  BY SameGranted DEF DownFast, Granted, Waiters
<1>3. Sm!Take(p, s)
  BY <1>1, <1>2 DEF DownFast, PermitLeft, Sm!Take
<1>. QED  BY <1>3 DEF Sm!Next

LEMMA DownBlockWaits ==
  ASSUME IInv, NEW p \in Proc, NEW s \in Sem, DownBlock(p, s)
  PROVE  Sm!Next
<1>1. p \notin Sm!Blocked
  BY KernelNotBlocked DEF DownBlock
<1>2. value[s] = 0
  BY DEF DownBlock, PermitLeft, IInv, TypeOK
<1>3. /\ queue' = [queue EXCEPT ![s] = Append(@, p)] /\ value' = value
      /\ queue[s] \in Seq(Proc) /\ queue \in [Sem -> Seq(Proc)]
      /\ ToSet(Append(queue[s], p)) = ToSet(queue[s]) \cup {p}
      /\ pc[p] = "kern" /\ pc'[p] = "down_sched"
      /\ \A q \in Proc : q # p => pc'[q] = pc[q] /\ wsem'[q] = wsem[q]
  BY AppendFacts DEF DownBlock, Goto, At, IInv, TypeOK
<1>4. \A t \in Sem, q \in Proc : q # p => (q \in Waiters(t)' <=> q \in Waiters(t))
  BY <1>3 DEF Waiters
<1>5. \A t \in Sem : Granted(t)' = Granted(t)
  <2>. SUFFICES ASSUME NEW t \in Sem, NEW q \in Proc
                PROVE  q \in Granted(t)' <=> q \in Granted(t)
    BY SameGranted
  <2>. QED  BY <1>3, <1>4 DEF Granted
<1>6. Sm!Wait(p, s)
  BY <1>1, <1>2, <1>3, <1>5 DEF Sm!Wait
<1>. QED  BY <1>6 DEF Sm!Next

(* The node is out of the queue already, so wait_current_del finds nothing to do. *)
LEMMA DownReturnReturns ==
  ASSUME IInv, NEW p \in Proc, DownReturn(p)
  PROVE  Sm!Next
<1>. PICK s \in Sem : s = wsem[p]
  BY DEF IInv, TypeOK
<1>1. p \notin Waiters(s)
  BY DEF DownReturn, At, IInv, PointOK, WaitersAsleep
<1>2. /\ value' = value /\ queue' = queue /\ wsem' = wsem
      /\ pc[p] = "down_wait" /\ pc'[p] = "kern"
      /\ \A q \in Proc : q # p => pc'[q] = pc[q]
  BY <1>1 DEF DownReturn, Goto, At, IInv, TypeOK
<1>3. p \in Granted(s) /\ \A t \in Sem : t # s => p \notin Granted(t)
  BY <1>1, <1>2 DEF Granted
<1>4. \A t \in Sem : Granted(t)' = IF t = s THEN Granted(t) \ {p} ELSE Granted(t)
  <2>1. \A t \in Sem, q \in Proc : q \in Granted(t)' <=> q \in Granted(t) /\ q # p
    BY <1>2 DEF Granted, Waiters
  <2>2. \A t \in Sem : Granted(t) \subseteq Proc /\ Granted(t)' \subseteq Proc
    BY DEF Granted
  <2>. QED  BY <1>3, <2>1, <2>2
<1>5. Sm!Return(p, s)
  BY <1>2, <1>3, <1>4 DEF Sm!Return
<1>. QED  BY <1>5 DEF Sm!Next

LEMMA UpFreeUps ==
  ASSUME IInv, NEW p \in Proc, NEW s \in Sem, UpFree(p, s)
  PROVE  Sm!Next
<1>1. \A t \in Sem : Granted(t)' = Granted(t)
  BY SameGranted DEF UpFree, Granted, Waiters
<1>2. Sm!Up(s)
  BY <1>1 DEF UpFree, NobodyWaits, Sm!Up
<1>. QED  BY <1>2 DEF Sm!Next

LEMMA UpHandOffUps ==
  ASSUME IInv, NEW p \in Proc, NEW s \in Sem, UpHandOff(p, s)
  PROVE  Sm!Next
<1>. PICK first : first = Head(queue[s])
  OBVIOUS
<1>1. /\ queue[s] # <<>> /\ queue' = [queue EXCEPT ![s] = Tail(@)] /\ value' = value
      /\ pc' = pc /\ wsem' = wsem /\ pc[p] = "kern" /\ p = current
  BY DEF UpHandOff, NobodyWaits, At
<1>2. /\ first \in Waiters(s) /\ first \in Proc
      /\ ToSet(Tail(queue[s])) = ToSet(queue[s]) \ {first}
  BY <1>1, TailFacts DEF IInv, TypeOK, StackNodesLive, Waiters
<1>3. wsem[first] = s /\ pc[first] = "down_wait"
  BY <1>1, <1>2 DEF IInv, StackNodesLive, PointOK
<1>4. \A t \in Sem : Waiters(t)' = IF t = s THEN Waiters(t) \ {first} ELSE Waiters(t)
  BY <1>1, <1>2 DEF Waiters, IInv, TypeOK
<1>5. \A t \in Sem : Granted(t)' = IF t = s THEN Granted(t) \cup {first} ELSE Granted(t)
  <2>1. \A t \in Sem, q \in Proc :
          q \in Granted(t)' <=> q \in Granted(t) \/ (t = s /\ q = first)
    BY <1>1, <1>2, <1>3, <1>4 DEF Granted
  <2>2. \A t \in Sem : Granted(t) \subseteq Proc /\ Granted(t)' \subseteq Proc
    BY DEF Granted
  <2>. QED  BY <1>2, <2>1, <2>2
<1>6. Sm!Up(s)
  BY <1>1, <1>5 DEF Sm!Up
<1>. QED  BY <1>6 DEF Sm!Next

(* A thread that leaves the CPU inside __down is still in its queue. *)
LEMMA SwitchToStutters ==
  ASSUME IInv, NEW p \in Proc, NEW next \in Proc, SwitchTo(p, next)
  PROVE  UNCHANGED Sm!semVars
<1>1. /\ value' = value /\ queue' = queue /\ wsem' = wsem
      /\ pc[p] \in {"trap_sched", "down_sched", "sleep_sched", "exit_sched", "idle"}
      /\ pc'[p] = AfterSchedule[pc[p]]
      /\ \A q \in Proc : q # p => pc'[q] = pc[q]
  BY DEF SwitchTo, Goto, IInv, TypeOK
<1>2. \A s \in Sem : p \notin Granted(s)
  BY <1>1 DEF Granted
<1>3. \A s \in Sem : p \notin Granted(s)'
  <2>1. CASE pc[p] = "down_sched"
    <3>1. p \in Waiters(wsem[p])
      BY <2>1 DEF IInv, SleepOK
    <3>. QED  BY <1>1, <3>1 DEF Granted, Waiters
  <2>2. CASE pc[p] # "down_sched"
    <3>1. pc'[p] # "down_wait"
      BY <1>1, <2>2 DEF AfterSchedule
    <3>. QED  BY <3>1 DEF Granted
  <2>. QED  BY <2>1, <2>2
<1>4. \A q \in Proc : \A s \in Sem : q \in Granted(s)' <=> q \in Granted(s)
  BY <1>1, <1>2, <1>3 DEF Granted, Waiters
<1>. QED  BY <1>1, <1>4, SemStutter

(* The rest of the kernel is not seen by the users of semaphores. *)
LEMMA OtherStutters ==
  ASSUME IInv, value' = value, queue' = queue, wsem' = wsem,
         pc' = pc \/ \E p \in Proc : \E point :
           Goto(p, point) /\ pc[p] # "down_wait" /\ point # "down_wait"
  PROVE  UNCHANGED Sm!semVars
<1>1. \A q \in Proc : pc'[q] = "down_wait" <=> pc[q] = "down_wait"
  BY DEF Goto, IInv, TypeOK
<1>2. \A q \in Proc : \A s \in Sem : q \in Granted(s)' <=> q \in Granted(s)
  BY <1>1 DEF Granted, Waiters
<1>. QED  BY <1>2, SemStutter

LEMMA SemStep == ASSUME IInv, [Next]_vars PROVE [Sm!Next]_(Sm!semVars)
<1>1. ASSUME NEW p \in Proc, WakefulStep(p) \/ Sleep(p) \/ SleepReturn(p)
      PROVE  [Sm!Next]_(Sm!semVars)
  <2>1. CASE \E s \in Sem : DownFast(p, s) \/ DownBlock(p, s) \/ UpFree(p, s) \/ UpHandOff(p, s)
    BY <2>1, DownFastTakes, DownBlockWaits, UpFreeUps, UpHandOffUps
  <2>2. CASE DownReturn(p)
    BY <2>2, DownReturnReturns
  <2>3. CASE \E next \in Proc : SwitchTo(p, next)
    BY <2>3, SwitchToStutters
  <2>4. CASE \/ Syscall(p) \/ Yield(p) \/ TrapReturn(p) \/ Exit(p) \/ Sleep(p) \/ SleepReturn(p)
             \/ \E q \in Proc : Kill(p, q)
    <3>1. /\ value' = value /\ queue' = queue /\ wsem' = wsem
          /\ pc' = pc \/ \E point : Goto(p, point) /\ pc[p] # "down_wait" /\ point # "down_wait"
      BY <2>4 DEF Syscall, Yield, TrapReturn, Exit, Sleep, SleepReturn, Kill, At, threadVars
    <3>. QED  BY <3>1, OtherStutters
  <2>. QED  BY <1>1, <2>1, <2>2, <2>3, <2>4 DEF WakefulStep
<1>2. CASE Tick
  <2>1. PICK expired \in SUBSET timers : TimerIRQ(expired)
    BY <1>2 DEF Tick
  <2>2. current \in Proc
    BY DEF IInv, TypeOK, SchedTypeOK
  <2>3. /\ value' = value /\ queue' = queue /\ wsem' = wsem
        /\ pc' = pc \/ (Goto(current, "trap") /\ pc[current] # "down_wait")
    BY <2>1 DEF TimerIRQ
  <2>. QED  BY <2>2, <2>3, OtherStutters
<1>3. CASE UNCHANGED vars
  BY <1>3, OtherStutters DEF vars, threadVars
<1>. QED  BY <1>1, <1>2, <1>3 DEF Next, Step

(* The contract of sem.c holds for every number of threads and semaphores: whatever
   kills, ticks and switches come in between, down and up are those of counting
   semaphores that hand each permit to the thread that has waited longest. *)
THEOREM SemaphoresImplemented == Spec => ImplementsSemaphores
<1>1. Init => Sm!Init
  <2>1. Init => \A s \in Sem : Granted(s) = {}
    BY DEF Init, Granted
  <2>. QED  BY <2>1 DEF Init, Sm!Init
<1>2. IInv /\ [Next]_vars => [Sm!Next]_(Sm!semVars)
  BY SemStep
<1>. QED  BY <1>1, <1>2, Invariance, PTL DEF Spec, ImplementsSemaphores, Sm!Spec

-----------------------------------------------------------------------------
(* The timer list: what its differences add up to. *)

\* f adds up the differences of a list.
Sums(list, exp, f) ==
  f[0] = 0 /\ \A i \in 1..Len(list) : f[i] = f[i - 1] + exp[list[i]]

SameUpTo(n, f, g) == \A i \in 0..n : f[i] = g[i]

NumbersUpTo(n, f) == \A i \in 0..n : f[i] \in Nat

\* The ticks until each timer runs out, by the recursion of DueIn.
LEMMA DueFacts ==
  ASSUME NEW list \in Seq(Proc), NEW exp \in [Proc -> Nat]
  PROVE  /\ Sums(list, exp, T!DueIn(list, exp))
         /\ NumbersUpTo(Len(list), T!DueIn(list, exp))
<1>n. PICK n : n = Len(list)
  OBVIOUS
<1>1. n \in Nat /\ \A i \in 1..n : list[i] \in Proc /\ exp[list[i]] \in Nat
  BY <1>n
<1>. DEFINE step == [i \in 1..n |-> [t \in Nat |-> t + exp[list[i]]]]
<1>2. step \in [1..n -> [Nat -> Nat]]
  BY <1>1
<1>3. \A t \in Nat : \A i \in 1..n : step[i][t] = t + exp[list[i]]
  OBVIOUS
<1>. HIDE DEF step
<1>4. PICK f \in [0..n -> Nat] : f[0] = 0 /\ \A i \in 1..n : f[i] = step[i][f[i - 1]]
  <2>s. PICK st : st = step
    OBVIOUS
  <2>1. 0 \in Nat /\ n \in Nat /\ st \in [1..n -> [Nat -> Nat]]
    BY <1>1, <1>2, <2>s
  <2>2. \E f : RunOf(Nat, 0, n, st, f)
    BY <2>1, RunsExist
  <2>. QED  BY <2>2, <2>s DEF RunOf
<1>5. \A i \in 1..n : f[i - 1] \in Nat /\ f[i] = f[i - 1] + exp[list[i]]
  <2>. TAKE i \in 1..n
  <2>1. i - 1 \in 0..n
    BY <1>1
  <2>2. f[i - 1] \in Nat
    BY <2>1
  <2>. QED  BY <1>3, <1>4, <2>2
<1>. DEFINE Sum1(g, i) == IF i = 0 THEN 0 ELSE g[i - 1] + exp[list[i]]
            Right(g) == g = [i \in 0..n |-> Sum1(g, i)]
<1>6. Right(f)
  <2>1. \A i \in 0..n : f[i] = Sum1(f, i)
    <3>. TAKE i \in 0..n
    <3>1. i = 0 \/ i \in 1..n
      BY <1>1
    <3>2. i \in 1..n => i # 0
      BY <1>1
    <3>. QED  BY <1>4, <1>5, <3>1, <3>2
  <2>. QED  BY <2>1
<1>g. PICK g : g = T!DueIn(list, exp)
  OBVIOUS
<1>7. g = CHOOSE h : Right(h)
  BY <1>g, <1>n DEF T!DueIn
<1>8. Right(g)
  <2>. HIDE DEF Right
  <2>. QED  BY <1>6, <1>7
<1>9. g[0] = 0
  BY <1>1, <1>8
<1>10. \A i \in 1..n : g[i] = g[i - 1] + exp[list[i]]
  <2>. TAKE i \in 1..n
  <2>1. i \in 0..n /\ i # 0
    BY <1>1
  <2>2. g[i] = Sum1(g, i)
    BY <1>8, <2>1
  <2>. QED  BY <2>1, <2>2
<1>11. \A i \in 0..n : g[i] \in Nat
  <2>. DEFINE Bad == {i \in 0..n : g[i] \notin Nat}
  <2>1. SUFFICES ASSUME Bad # {}  PROVE FALSE
    OBVIOUS
  <2>2. Bad \in SUBSET Nat
    OBVIOUS
  <2>k. PICK k : k = Min(Bad)
    OBVIOUS
  <2>3. k \in Bad /\ \A c \in Bad : k <= c
    <3>. HIDE DEF Bad
    <3>. QED  BY <2>1, <2>2, <2>k, MinFacts
  <2>4. k \in 0..n /\ g[k] \notin Nat /\ k # 0
    BY <1>9, <2>3
  <2>5. k \in 1..n /\ k - 1 \in 0..n /\ ~(k <= k - 1)
    BY <1>1, <2>4
  <2>6. g[k - 1] \in Nat
    BY <2>3, <2>5
  <2>7. g[k] = g[k - 1] + exp[list[k]] /\ exp[list[k]] \in Nat
    BY <1>1, <1>10, <2>5
  <2>. QED  BY <2>4, <2>6, <2>7
<1>. QED  BY <1>9, <1>10, <1>11, <1>g, <1>n DEF Sums, NumbersUpTo

\* Nothing else adds up the same differences.
LEMMA DueUnique ==
  ASSUME NEW list \in Seq(Proc), NEW exp \in [Proc -> Nat], NEW f,
         Sums(list, exp, f)
  PROVE  SameUpTo(Len(list), T!DueIn(list, exp), f)
<1>n. PICK n : n = Len(list)
  OBVIOUS
<1>g. PICK g : g = T!DueIn(list, exp)
  OBVIOUS
<1>1. n \in Nat
  BY <1>n
<1>2. /\ g[0] = 0 /\ \A i \in 1..n : g[i] = g[i - 1] + exp[list[i]]
      /\ f[0] = 0 /\ \A i \in 1..n : f[i] = f[i - 1] + exp[list[i]]
  <2>1. Sums(list, exp, g)
    BY <1>g, DueFacts
  <2>. QED  BY <1>n, <2>1 DEF Sums
<1>. DEFINE Bad == {i \in 0..n : g[i] # f[i]}
<1>3. SUFFICES ASSUME Bad # {}  PROVE FALSE
  BY <1>n, <1>g DEF SameUpTo
<1>4. Bad \in SUBSET Nat
  OBVIOUS
<1>k. PICK k : k = Min(Bad)
  OBVIOUS
<1>5. k \in Bad /\ \A c \in Bad : k <= c
  <2>. HIDE DEF Bad
  <2>. QED  BY <1>3, <1>4, <1>k, MinFacts
<1>6. k \in 0..n /\ g[k] # f[k] /\ k # 0
  BY <1>2, <1>5
<1>7. k \in 1..n /\ k - 1 \in 0..n /\ ~(k <= k - 1)
  BY <1>1, <1>6
<1>8. g[k - 1] = f[k - 1]
  BY <1>5, <1>7
<1>9. g[k] = g[k - 1] + exp[list[k]] /\ f[k] = f[k - 1] + exp[list[k]]
  BY <1>2, <1>7, <1>n
<1>. QED  BY <1>6, <1>8, <1>9

\* A timer behind another runs out no earlier.
LEMMA DueGrows ==
  ASSUME NEW list \in Seq(Proc), NEW exp \in [Proc -> Nat],
         NEW i \in 0..Len(list), NEW j \in 0..Len(list), i <= j
  PROVE  T!DueIn(list, exp)[i] <= T!DueIn(list, exp)[j]
<1>n. PICK n : n = Len(list)
  OBVIOUS
<1>g. PICK g : g = T!DueIn(list, exp)
  OBVIOUS
<1>1. n \in Nat /\ \A k \in 1..n : list[k] \in Proc /\ exp[list[k]] \in Nat
  BY <1>n
<1>2. /\ \A k \in 0..n : g[k] \in Nat
      /\ \A k \in 1..n : g[k] = g[k - 1] + exp[list[k]]
  <2>1. Sums(list, exp, g) /\ NumbersUpTo(Len(list), g)
    BY <1>g, DueFacts
  <2>. QED  BY <1>n, <2>1 DEF Sums, NumbersUpTo
<1>. DEFINE Bad == {k \in i..n : ~(g[i] <= g[k])}
<1>3. SUFFICES ASSUME Bad # {}  PROVE FALSE
  <2>1. j \in i..n
    BY <1>n
  <2>. QED  BY <1>g, <2>1
<1>4. Bad \in SUBSET Nat
  BY <1>n
<1>k. PICK k : k = Min(Bad)
  OBVIOUS
<1>5. k \in Bad /\ \A c \in Bad : k <= c
  <2>. HIDE DEF Bad
  <2>. QED  BY <1>3, <1>4, <1>k, MinFacts
<1>6. k \in i..n /\ ~(g[i] <= g[k])
  BY <1>5
<1>0. i \in 0..n /\ i \in Nat
  BY <1>n
<1>7. k # i
  BY <1>0, <1>2, <1>6
<1>8. k \in 1..n /\ k - 1 \in i..n /\ k - 1 \in 0..n /\ k \in 0..n /\ ~(k <= k - 1)
  BY <1>0, <1>1, <1>6, <1>7
<1>9. g[i] <= g[k - 1]
  BY <1>5, <1>8
<1>10. g[k] = g[k - 1] + exp[list[k]] /\ exp[list[k]] \in Nat
  BY <1>1, <1>2, <1>8
<1>11. g[i] \in Nat /\ g[k - 1] \in Nat /\ g[k] \in Nat
  BY <1>0, <1>2, <1>8
<1>a. PICK a, b, c, e : a = g[i] /\ b = g[k - 1] /\ c = g[k] /\ e = exp[list[k]]
  OBVIOUS
<1>12. a \in Nat /\ b \in Nat /\ c \in Nat /\ e \in Nat /\ a <= b /\ c = b + e
  BY <1>9, <1>10, <1>11, <1>a
<1>13. a <= c
  BY <1>12
<1>. QED  BY <1>6, <1>13, <1>a

\* What add_timer does to the sums: the new timer gets its own, nobody else's changes.
AddCharges(list, exp, p, n, k, exp2) ==
  /\ exp2[p] = n - T!DueIn(list, exp)[k]
  /\ k < Len(list) => exp2[list[k + 1]] = exp[list[k + 1]] - exp2[p]
  /\ \A q \in Proc : q # p /\ (k < Len(list) => q # list[k + 1]) => exp2[q] = exp[q]

AddSums(list, exp, p, n, k, exp2) ==
  \A j \in 0..Len(list) + 1 :
    T!DueIn(InsertAt(list, k + 1, p), exp2)[j] =
      IF j <= k THEN T!DueIn(list, exp)[j]
      ELSE IF j = k + 1 THEN n ELSE T!DueIn(list, exp)[j - 1]

LEMMA AddDue ==
  ASSUME NEW list \in Seq(Proc), IsInjective(list), NEW exp \in [Proc -> Nat],
         NEW p \in Proc, p \notin ToSet(list), NEW n \in Nat, NEW k \in 0..Len(list),
         NEW exp2 \in [Proc -> Nat], AddCharges(list, exp, p, n, k, exp2)
  PROVE  AddSums(list, exp, p, n, k, exp2)
<1>0. /\ exp2[p] = n - T!DueIn(list, exp)[k]
      /\ k < Len(list) => exp2[list[k + 1]] = exp[list[k + 1]] - exp2[p]
      /\ \A q \in Proc : q # p /\ (k < Len(list) => q # list[k + 1]) => exp2[q] = exp[q]
  BY DEF AddCharges
<1>l. PICK l : l = Len(list)
  OBVIOUS
<1>g. PICK g : g = T!DueIn(list, exp)
  OBVIOUS
<1>s. PICK list2 : list2 = InsertAt(list, k + 1, p)
  OBVIOUS
<1>1. l \in Nat /\ k \in 0..l /\ k \in Nat /\ k <= l
  BY <1>l
<1>2. /\ \A i \in 1..l : list[i] \in Proc /\ exp[list[i]] \in Nat /\ list[i] # p
      /\ \A i \in 1..l : \A j \in 1..l : list[i] = list[j] => i = j
  <2>1. DOMAIN list = 1..l /\ \A i \in 1..l : list[i] \in Proc
    BY <1>l
  <2>2. \A i \in 1..l : list[i] \in ToSet(list)
    BY <2>1 DEF ToSet
  <2>3. \A i \in 1..l : \A j \in 1..l : list[i] = list[j] => i = j
    BY <2>1 DEF IsInjective
  <2>. QED  BY <2>1, <2>2, <2>3
<1>3. /\ list2 \in Seq(Proc) /\ Len(list2) = l + 1
      /\ \A i \in 1..l + 1 :
           list2[i] = IF i <= k THEN list[i] ELSE IF i = k + 1 THEN p ELSE list[i - 1]
  <2>1. /\ InsertAt(list, k + 1, p) \in Seq(Proc)
        /\ Len(InsertAt(list, k + 1, p)) = Len(list) + 1
        /\ \A i \in 1..Len(list) + 1 :
             InsertAt(list, k + 1, p)[i] =
               IF i <= k THEN list[i] ELSE IF i = k + 1 THEN p ELSE list[i - 1]
    BY InsertAtFacts
  <2>. QED  BY <2>1, <1>l, <1>s
<1>4. /\ g[0] = 0
      /\ \A i \in 0..l : g[i] \in Nat
      /\ \A i \in 1..l : g[i] = g[i - 1] + exp[list[i]]
  <2>1. Sums(list, exp, g) /\ NumbersUpTo(Len(list), g)
    BY <1>g, DueFacts
  <2>. QED  BY <1>l, <2>1 DEF Sums, NumbersUpTo
<1>. DEFINE f == [j \in 0..l + 1 |-> IF j <= k THEN g[j] ELSE IF j = k + 1 THEN n ELSE g[j - 1]]
<1>f. \A j \in 0..l + 1 : f[j] = IF j <= k THEN g[j] ELSE IF j = k + 1 THEN n ELSE g[j - 1]
  OBVIOUS
<1>. HIDE DEF f
<1>5. f[0] = 0
  BY <1>1, <1>4, <1>f
<1>6. \A i \in 1..l + 1 : f[i] = f[i - 1] + exp2[list2[i]]
  <2>. TAKE i \in 1..l + 1
  <2>0. i \in 0..l + 1 /\ i - 1 \in 0..l + 1 /\ i \in Nat
    BY <1>1
  <2>1. CASE i <= k
    <3>0. i \in 1..l /\ i - 1 <= k
      BY <1>1, <2>0, <2>1
    <3>1. i \in 1..l /\ f[i] = g[i] /\ f[i - 1] = g[i - 1] /\ list2[i] = list[i]
      BY <1>3, <1>f, <2>0, <2>1, <3>0
    <3>2. k < l => k + 1 \in 1..l /\ i # k + 1
      BY <1>1, <2>1
    <3>3. exp2[list[i]] = exp[list[i]]
      <4>1. k < Len(list) => list[i] # list[k + 1]
        BY <1>l, <1>2, <3>1, <3>2
      <4>. QED  BY <1>0, <1>2, <3>1, <4>1
    <3>. QED  BY <1>4, <3>1, <3>3
  <2>2. CASE i = k + 1
    <3>1. f[i] = n /\ f[i - 1] = g[k] /\ list2[i] = p
      <4>1. ~(i <= k) /\ i - 1 = k /\ i - 1 <= k
        BY <1>1, <2>2
      <4>. QED  BY <1>3, <1>f, <2>0, <2>2, <4>1
    <3>2. exp2[p] = n - g[k] /\ g[k] \in Nat
      BY <1>0, <1>1, <1>4, <1>g
    <3>3. n = g[k] + (n - g[k])
      BY <3>2
    <3>. QED  BY <3>1, <3>2, <3>3
  <2>3. CASE i = k + 2
    <3>1. /\ k < l /\ k + 1 \in 1..l /\ f[i] = g[k + 1] /\ f[i - 1] = n
          /\ list2[i] = list[k + 1] /\ (k + 1) - 1 = k
      <4>1. /\ ~(i <= k) /\ i # k + 1 /\ i - 1 = k + 1 /\ ~(i - 1 <= k)
            /\ k < l /\ k + 1 \in 1..l /\ (k + 1) - 1 = k
        BY <1>1, <2>0, <2>3
      <4>2. f[i] = g[i - 1] /\ f[i - 1] = n
        BY <1>f, <2>0, <4>1
      <4>3. list2[i] = list[i - 1]
        BY <1>3, <4>1
      <4>. QED  BY <4>1, <4>2, <4>3
    <3>2. exp2[list[k + 1]] = exp[list[k + 1]] - exp2[p]
      BY <1>0, <1>l, <3>1
    <3>3. g[k + 1] = g[k] + exp[list[k + 1]] /\ exp2[p] = n - g[k]
      BY <1>0, <1>4, <1>g, <3>1
    <3>. PICK a, b, c : a = g[k] /\ b = exp[list[k + 1]] /\ c = exp2[list[k + 1]]
      OBVIOUS
    <3>4. a \in Nat /\ b \in Nat /\ c = b - (n - a) /\ g[k + 1] = a + b
      BY <1>1, <1>2, <1>4, <3>1, <3>2, <3>3
    <3>5. \A x, y, z \in Nat : x + y = z + (y - (z - x))
      OBVIOUS
    <3>6. a + b = n + (b - (n - a))
      BY <3>4, <3>5
    <3>. QED  BY <3>1, <3>4, <3>6
  <2>4. CASE i > k + 2
    <3>1. /\ i - 1 \in 1..l /\ f[i] = g[i - 1] /\ f[i - 1] = g[(i - 1) - 1]
          /\ list2[i] = list[i - 1] /\ i - 1 # k + 1 /\ (k < l => k + 1 \in 1..l)
      <4>1. /\ ~(i <= k) /\ i # k + 1 /\ ~(i - 1 <= k) /\ i - 1 # k + 1
            /\ i - 1 \in 1..l /\ (k < l => k + 1 \in 1..l)
        BY <1>1, <2>0, <2>4
      <4>2. f[i] = g[i - 1] /\ f[i - 1] = g[(i - 1) - 1]
        BY <1>f, <2>0, <4>1
      <4>3. list2[i] = list[i - 1]
        BY <1>3, <4>1
      <4>. QED  BY <4>1, <4>2, <4>3
    <3>2. k < l => list[i - 1] # list[k + 1]
      BY <1>2, <3>1
    <3>3. exp2[list[i - 1]] = exp[list[i - 1]]
      BY <1>0, <1>l, <1>2, <3>1, <3>2
    <3>4. g[i - 1] = g[(i - 1) - 1] + exp[list[i - 1]]
      BY <1>4, <3>1
    <3>. QED  BY <3>1, <3>3, <3>4
  <2>5. i <= k \/ i = k + 1 \/ i = k + 2 \/ i > k + 2
    BY <1>1, <2>0
  <2>. QED  BY <2>1, <2>2, <2>3, <2>4, <2>5
<1>7. \A i \in 0..Len(list2) : T!DueIn(list2, exp2)[i] = f[i]
  <2>h. PICK h : h = f
    OBVIOUS
  <2>1. Sums(list2, exp2, h)
    BY <1>3, <1>5, <1>6, <2>h DEF Sums
  <2>2. SameUpTo(Len(list2), T!DueIn(list2, exp2), h)
    BY <1>3, <2>1, DueUnique
  <2>. QED  BY <2>2, <2>h DEF SameUpTo
<1>8. \A j \in 0..Len(list) + 1 : T!DueIn(list2, exp2)[j] =
        IF j <= k THEN g[j] ELSE IF j = k + 1 THEN n ELSE g[j - 1]
  BY <1>3, <1>7, <1>f, <1>l
<1>. QED  BY <1>8, <1>g, <1>s DEF AddSums

\* What del_timer does to the sums: the timer's own goes, nobody else's changes.
DelCharges(list, exp, k, exp2) ==
  /\ k < Len(list) => exp2[list[k + 1]] = exp[list[k + 1]] + exp[list[k]]
  /\ \A q \in Proc : q # list[k] /\ (k < Len(list) => q # list[k + 1]) => exp2[q] = exp[q]

DelSums(list, exp, k, exp2) ==
  \A j \in 0..Len(list) - 1 :
    T!DueIn(RemoveAt(list, k), exp2)[j] =
      IF j < k THEN T!DueIn(list, exp)[j] ELSE T!DueIn(list, exp)[j + 1]

LEMMA DelDue ==
  ASSUME NEW list \in Seq(Proc), IsInjective(list), NEW exp \in [Proc -> Nat],
         NEW k \in 1..Len(list), NEW exp2 \in [Proc -> Nat], DelCharges(list, exp, k, exp2)
  PROVE  DelSums(list, exp, k, exp2)
<1>0. /\ k < Len(list) => exp2[list[k + 1]] = exp[list[k + 1]] + exp[list[k]]
      /\ \A q \in Proc : q # list[k] /\ (k < Len(list) => q # list[k + 1]) => exp2[q] = exp[q]
  BY DEF DelCharges
<1>l. PICK l : l = Len(list)
  OBVIOUS
<1>g. PICK g : g = T!DueIn(list, exp)
  OBVIOUS
<1>s. PICK list2 : list2 = RemoveAt(list, k)
  OBVIOUS
<1>1. l \in Nat /\ k \in 1..l /\ k \in Nat /\ k <= l /\ l - 1 \in Nat
  BY <1>l
<1>2. /\ \A i \in 1..l : list[i] \in Proc /\ exp[list[i]] \in Nat
      /\ \A i \in 1..l : \A j \in 1..l : list[i] = list[j] => i = j
  <2>1. DOMAIN list = 1..l /\ \A i \in 1..l : list[i] \in Proc
    BY <1>l
  <2>2. \A i \in 1..l : \A j \in 1..l : list[i] = list[j] => i = j
    BY <2>1 DEF IsInjective
  <2>. QED  BY <2>1, <2>2
<1>3. /\ list2 \in Seq(Proc) /\ Len(list2) = l - 1
      /\ \A i \in 1..l - 1 : list2[i] = IF i < k THEN list[i] ELSE list[i + 1]
  <2>1. /\ RemoveAt(list, k) \in Seq(Proc)
        /\ Len(RemoveAt(list, k)) = Len(list) - 1
        /\ \A i \in 1..Len(list) - 1 :
             RemoveAt(list, k)[i] = IF i < k THEN list[i] ELSE list[i + 1]
    BY RemoveAtFacts
  <2>. QED  BY <2>1, <1>l, <1>s
<1>4. /\ g[0] = 0
      /\ \A i \in 0..l : g[i] \in Nat
      /\ \A i \in 1..l : g[i] = g[i - 1] + exp[list[i]]
  <2>1. Sums(list, exp, g) /\ NumbersUpTo(Len(list), g)
    BY <1>g, DueFacts
  <2>. QED  BY <1>l, <2>1 DEF Sums, NumbersUpTo
<1>. DEFINE f == [j \in 0..l - 1 |-> IF j < k THEN g[j] ELSE g[j + 1]]
<1>f. \A j \in 0..l - 1 : f[j] = IF j < k THEN g[j] ELSE g[j + 1]
  OBVIOUS
<1>. HIDE DEF f
<1>5. f[0] = 0
  BY <1>1, <1>4, <1>f
<1>6. \A i \in 1..l - 1 : f[i] = f[i - 1] + exp2[list2[i]]
  <2>. TAKE i \in 1..l - 1
  <2>0. i \in 0..l - 1 /\ i - 1 \in 0..l - 1 /\ i \in Nat /\ i \in 1..l /\ i + 1 \in 1..l
    BY <1>1
  <2>1. CASE i < k
    <3>0. i - 1 < k /\ i # k /\ (k < l => k + 1 \in 1..l /\ i # k + 1)
      BY <1>1, <2>0, <2>1
    <3>1. f[i] = g[i] /\ f[i - 1] = g[i - 1] /\ list2[i] = list[i]
      BY <1>3, <1>f, <2>0, <2>1, <3>0
    <3>2. exp2[list[i]] = exp[list[i]]
      <4>1. list[i] # list[k] /\ (k < Len(list) => list[i] # list[k + 1])
        BY <1>1, <1>2, <1>l, <2>0, <3>0
      <4>. QED  BY <1>0, <1>2, <2>0, <4>1
    <3>. QED  BY <1>4, <2>0, <3>1, <3>2
  <2>2. CASE i = k
    <3>0. k < l /\ ~(i < k) /\ i - 1 < k /\ k + 1 \in 1..l /\ (k + 1) - 1 = k
      BY <1>1, <2>0, <2>2
    <3>1. f[i] = g[k + 1] /\ f[i - 1] = g[k - 1] /\ list2[i] = list[k + 1]
      BY <1>3, <1>f, <2>0, <2>2, <3>0
    <3>2. exp2[list[k + 1]] = exp[list[k + 1]] + exp[list[k]]
      BY <1>0, <1>l, <3>0
    <3>3. g[k + 1] = g[k] + exp[list[k + 1]] /\ g[k] = g[k - 1] + exp[list[k]] /\ k - 1 \in 0..l
      BY <1>1, <1>4, <3>0
    <3>. PICK a, b, c : a = g[k - 1] /\ b = exp[list[k]] /\ c = exp[list[k + 1]]
      OBVIOUS
    <3>4. a \in Nat /\ b \in Nat /\ c \in Nat
      BY <1>1, <1>2, <1>4, <3>0, <3>3
    <3>5. \A x, y, z \in Nat : (x + y) + z = x + (z + y)
      OBVIOUS
    <3>6. (a + b) + c = a + (c + b)
      BY ONLY <3>4, <3>5, Zenon
    <3>. QED  BY <3>1, <3>2, <3>3, <3>6
  <2>3. CASE i > k
    <3>0. /\ ~(i < k) /\ ~(i - 1 < k) /\ (i - 1) + 1 = i /\ (i + 1) - 1 = i
          /\ i + 1 # k /\ (k < l => k + 1 \in 1..l /\ i + 1 # k + 1)
      BY <1>1, <2>0, <2>3
    <3>1. f[i] = g[i + 1] /\ f[i - 1] = g[i] /\ list2[i] = list[i + 1]
      BY <1>3, <1>f, <2>0, <2>3, <3>0
    <3>2. exp2[list[i + 1]] = exp[list[i + 1]]
      <4>1. list[i + 1] # list[k] /\ (k < Len(list) => list[i + 1] # list[k + 1])
        BY <1>1, <1>2, <1>l, <2>0, <3>0
      <4>. QED  BY <1>0, <1>2, <2>0, <4>1
    <3>3. g[i + 1] = g[i] + exp[list[i + 1]]
      BY <1>4, <2>0, <3>0
    <3>. QED  BY <3>1, <3>2, <3>3
  <2>4. i < k \/ i = k \/ i > k
    BY <1>1, <2>0
  <2>. QED  BY <2>1, <2>2, <2>3, <2>4
<1>7. \A i \in 0..Len(list2) : T!DueIn(list2, exp2)[i] = f[i]
  <2>h. PICK h : h = f
    OBVIOUS
  <2>1. Sums(list2, exp2, h)
    BY <1>3, <1>5, <1>6, <2>h DEF Sums
  <2>2. SameUpTo(Len(list2), T!DueIn(list2, exp2), h)
    BY <1>3, <2>1, DueUnique
  <2>. QED  BY <2>2, <2>h DEF SameUpTo
<1>8. \A j \in 0..Len(list) - 1 : T!DueIn(list2, exp2)[j] = IF j < k THEN g[j] ELSE g[j + 1]
  BY <1>3, <1>7, <1>f, <1>l
<1>. QED  BY <1>8, <1>g, <1>s DEF DelSums

\* What run_timer_list does to the sums: a tick off the head is a tick off them all,
\* and the timers that have run out in front leave nothing behind.
TickSums(list, exp, n, exp2) ==
  /\ \A i \in 1..n : T!DueIn(list, exp)[i] = 1
  /\ n < Len(list) => T!DueIn(list, exp)[n + 1] = exp2[list[n + 1]] + 1
  /\ \A j \in 1..Len(list) - n :
       T!DueIn(SubSeq(list, n + 1, Len(list)), exp2)[j] = T!DueIn(list, exp)[j + n] - 1

LEMMA TickDue ==
  ASSUME NEW list \in Seq(Proc), IsInjective(list), list # <<>>,
         NEW exp \in [Proc -> Nat], NEW exp2 \in [Proc -> Nat],
         exp[list[1]] > 0, exp2 = [exp EXCEPT ![list[1]] = @ - 1],
         NEW n \in 0..Len(list), \A i \in 1..n : exp2[list[i]] = 0
  PROVE  TickSums(list, exp, n, exp2)
<1>l. PICK l : l = Len(list)
  OBVIOUS
<1>g. PICK g : g = T!DueIn(list, exp)
  OBVIOUS
<1>e. PICK e : e = T!DueIn(list, exp2)
  OBVIOUS
<1>s. PICK list2 : list2 = SubSeq(list, n + 1, Len(list))
  OBVIOUS
<1>1. l \in Nat /\ n \in 0..l /\ n \in Nat /\ n <= l /\ l - n \in Nat /\ 1 \in 1..l
  BY <1>l
<1>2. /\ \A i \in 1..l : list[i] \in Proc /\ exp[list[i]] \in Nat /\ exp2[list[i]] \in Nat
      /\ \A i \in 2..l : exp2[list[i]] = exp[list[i]]
      /\ exp2[list[1]] = exp[list[1]] - 1
  <2>1. DOMAIN list = 1..l /\ \A i \in 1..l : list[i] \in Proc
    BY <1>l
  <2>2. \A i \in 2..l : i \in 1..l /\ i # 1
    BY <1>1
  <2>3. \A i \in 2..l : list[i] # list[1]
    BY <1>1, <2>1, <2>2 DEF IsInjective
  <2>. QED  BY <1>1, <2>1, <2>2, <2>3
<1>3. /\ list2 \in Seq(Proc) /\ Len(list2) = l - n
      /\ \A i \in 1..l - n : list2[i] = list[n + i]
  BY <1>1, <1>l, <1>s
<1>4. /\ g[0] = 0
      /\ \A i \in 0..l : g[i] \in Nat
      /\ \A i \in 1..l : g[i] = g[i - 1] + exp[list[i]]
  <2>1. Sums(list, exp, g) /\ NumbersUpTo(Len(list), g)
    BY <1>g, DueFacts
  <2>. QED  BY <1>l, <2>1 DEF Sums, NumbersUpTo
<1>5. /\ e[0] = 0
      /\ \A i \in 0..l : e[i] \in Nat
      /\ \A i \in 1..l : e[i] = e[i - 1] + exp2[list[i]]
  <2>1. Sums(list, exp2, e) /\ NumbersUpTo(Len(list), e)
    BY <1>e, DueFacts
  <2>. QED  BY <1>l, <2>1 DEF Sums, NumbersUpTo
<1>6. \A i \in 1..l : e[i] = g[i] - 1
  <2>. DEFINE f == [i \in 0..l |-> IF i = 0 THEN 0 ELSE g[i] - 1]
  <2>f. f[0] = 0 /\ \A i \in 1..l : f[i] = g[i] - 1
    BY <1>1
  <2>. HIDE DEF f
  <2>1. \A i \in 1..l : f[i] = f[i - 1] + exp2[list[i]]
    <3>. TAKE i \in 1..l
    <3>1. CASE i = 1
      <4>1. f[1] = g[1] - 1 /\ f[1 - 1] = 0 /\ g[1] = 0 + exp[list[1]]
        BY <1>1, <1>4, <2>f
      <4>. QED  BY <1>1, <1>2, <3>1, <4>1
    <3>2. CASE i # 1
      <4>1. i \in 2..l /\ i - 1 \in 1..l /\ i - 1 \in 0..l
        BY <1>1, <3>2
      <4>2. f[i] = g[i] - 1 /\ f[i - 1] = g[i - 1] - 1 /\ g[i] = g[i - 1] + exp[list[i]]
        BY <1>4, <2>f, <4>1
      <4>3. g[i - 1] \in Nat /\ exp[list[i]] \in Nat /\ exp2[list[i]] = exp[list[i]]
        BY <1>2, <1>4, <4>1
      <4>4. \A x, y \in Nat : (x + y) - 1 = (x - 1) + y
        OBVIOUS
      <4>5. (g[i - 1] + exp[list[i]]) - 1 = (g[i - 1] - 1) + exp[list[i]]
        BY <4>3, <4>4
      <4>. QED  BY <4>2, <4>3, <4>5
    <3>. QED  BY <3>1, <3>2
  <2>2. \A i \in 0..l : e[i] = f[i]
    <3>h. PICK h : h = f
      OBVIOUS
    <3>1. Sums(list, exp2, h)
      BY <1>l, <2>f, <2>1, <3>h DEF Sums
    <3>2. SameUpTo(Len(list), T!DueIn(list, exp2), h)
      BY <3>1, DueUnique
    <3>. QED  BY <3>2, <3>h, <1>l, <1>e DEF SameUpTo
  <2>. QED  BY <2>2, <2>f
<1>7. \A i \in 0..n : e[i] = 0
  <2>. DEFINE Bad == {i \in 0..n : e[i] # 0}
  <2>1. SUFFICES ASSUME Bad # {}  PROVE FALSE
    OBVIOUS
  <2>2. Bad \in SUBSET Nat
    OBVIOUS
  <2>k. PICK k : k = Min(Bad)
    OBVIOUS
  <2>3. k \in Bad /\ \A c \in Bad : k <= c
    <3>. HIDE DEF Bad
    <3>. QED  BY <2>1, <2>2, <2>k, MinFacts
  <2>4. k \in 0..n /\ e[k] # 0 /\ k # 0
    BY <1>5, <2>3
  <2>5. k \in 1..n /\ k \in 1..l /\ k - 1 \in 0..n /\ ~(k <= k - 1)
    BY <1>1, <2>4
  <2>6. e[k - 1] = 0
    BY <2>3, <2>5
  <2>7. e[k] = e[k - 1] + exp2[list[k]] /\ exp2[list[k]] = 0
    BY <1>5, <2>5
  <2>. QED  BY <2>4, <2>6, <2>7
<1>8. \A i \in 1..n : g[i] = 1
  <2>. TAKE i \in 1..n
  <2>1. i \in 1..l /\ i \in 0..n /\ i \in 0..l
    BY <1>1
  <2>2. e[i] = 0 /\ e[i] = g[i] - 1 /\ g[i] \in Nat
    BY <1>4, <1>6, <1>7, <2>1
  <2>. QED  BY <2>2
<1>9. ASSUME n < l  PROVE g[n + 1] = exp2[list[n + 1]] + 1
  <2>1. n + 1 \in 1..l /\ n + 1 \in 0..l /\ (n + 1) - 1 = n /\ n \in 0..n
    BY <1>1, <1>9
  <2>2. e[n + 1] = e[n] + exp2[list[n + 1]] /\ e[n] = 0 /\ e[n + 1] = g[n + 1] - 1
    BY <1>5, <1>6, <1>7, <2>1
  <2>3. g[n + 1] \in Nat /\ exp2[list[n + 1]] \in Nat
    BY <1>2, <1>4, <2>1
  <2>. PICK a, b : a = g[n + 1] /\ b = exp2[list[n + 1]]
    OBVIOUS
  <2>4. a \in Nat /\ b \in Nat /\ a - 1 = b
    BY <2>2, <2>3
  <2>5. a = b + 1
    BY ONLY <2>4
  <2>. QED  BY <2>5
<1>10. \A j \in 0..l - n : T!DueIn(list2, exp2)[j] = e[j + n]
  <2>. DEFINE f == [j \in 0..l - n |-> e[j + n]]
  <2>f. \A j \in 0..l - n : f[j] = e[j + n]
    OBVIOUS
  <2>. HIDE DEF f
  <2>h. PICK h : h = f
    OBVIOUS
  <2>1. h[0] = 0
    <3>1. 0 \in 0..l - n /\ 0 + n = n /\ n \in 0..n
      BY <1>1
    <3>. QED  BY <1>7, <2>f, <2>h, <3>1
  <2>2. \A i \in 1..Len(list2) : h[i] = h[i - 1] + exp2[list2[i]]
    <3>. TAKE i \in 1..Len(list2)
    <3>1. /\ i \in 1..l - n /\ i \in 0..l - n /\ i - 1 \in 0..l - n /\ n + i = i + n
          /\ i + n \in 1..l /\ (i - 1) + n = (i + n) - 1
      BY <1>1, <1>3
    <3>2. h[i] = e[i + n] /\ h[i - 1] = e[(i + n) - 1] /\ list2[i] = list[i + n]
      BY <1>3, <2>f, <2>h, <3>1
    <3>3. e[i + n] = e[(i + n) - 1] + exp2[list[i + n]]
      BY <1>5, <3>1
    <3>. QED  BY <3>2, <3>3
  <2>3. Sums(list2, exp2, h)
    BY <2>1, <2>2 DEF Sums
  <2>4. SameUpTo(Len(list2), T!DueIn(list2, exp2), h)
    BY <1>3, <2>3, DueUnique
  <2>. QED  BY <1>3, <2>f, <2>h, <2>4 DEF SameUpTo
<1>11. \A j \in 1..l - n : T!DueIn(list2, exp2)[j] = g[j + n] - 1
  <2>. TAKE j \in 1..l - n
  <2>1. j \in 0..l - n /\ j + n \in 1..l
    BY <1>1
  <2>. QED  BY <1>6, <1>10, <2>1
<1>. QED  BY <1>8, <1>9, <1>11, <1>l, <1>g, <1>s DEF TickSums

\* A list of differences: nobody stands in it twice, and every timer in it has a tick
\* to run, and none more than the longest sleep.
Sound(list, exp) ==
  /\ list \in Seq(Proc) /\ IsInjective(list)
  /\ exp \in [Proc -> 0..MaxSleep]
  /\ \A i \in 1..Len(list) : T!DueIn(list, exp)[i] \in 1..MaxSleep

\* The differences are in range when the sums are.
LEMMA SoundIf ==
  ASSUME NEW list \in Seq(Proc), IsInjective(list), NEW exp \in [Proc -> Nat],
         \A i \in 1..Len(list) : T!DueIn(list, exp)[i] \in 1..MaxSleep,
         \A q \in Proc : q \notin ToSet(list) => exp[q] <= MaxSleep
  PROVE  Sound(list, exp)
<1>g. PICK g : g = T!DueIn(list, exp)
  OBVIOUS
<1>1. /\ g[0] = 0
      /\ \A i \in 0..Len(list) : g[i] \in Nat
      /\ \A i \in 1..Len(list) : g[i] = g[i - 1] + exp[list[i]]
  <2>1. Sums(list, exp, g) /\ NumbersUpTo(Len(list), g)
    BY <1>g, DueFacts
  <2>. QED  BY <2>1 DEF Sums, NumbersUpTo
<1>2. \A q \in Proc : exp[q] <= MaxSleep
  <2>. TAKE q \in Proc
  <2>1. CASE q \in ToSet(list)
    <3>1. DOMAIN list = 1..Len(list) /\ Len(list) \in Nat
      OBVIOUS
    <3>2. PICK i \in 1..Len(list) : list[i] = q
      BY <2>1, <3>1 DEF ToSet
    <3>3. i - 1 \in 0..Len(list) /\ i \in 0..Len(list)
      BY <3>1
    <3>4. g[i] = g[i - 1] + exp[q] /\ g[i - 1] \in Nat /\ g[i] \in 1..MaxSleep /\ exp[q] \in Nat
      BY <1>1, <1>g, <3>2, <3>3
    <3>. PICK a, b, c : a = g[i] /\ b = g[i - 1] /\ c = exp[q]
      OBVIOUS
    <3>5. a = b + c /\ b \in Nat /\ a \in 1..MaxSleep /\ c \in Nat /\ MaxSleep \in Nat
      BY <3>4, MaxSleepAssumption
    <3>6. c <= MaxSleep
      BY ONLY <3>5
    <3>. QED  BY <3>6
  <2>. QED  BY <2>1
<1>3. exp \in [Proc -> 0..MaxSleep]
  BY <1>2, MaxSleepAssumption
<1>. QED  BY <1>3 DEF Sound

LEMMA SoundNat ==
  ASSUME NEW list, NEW exp, Sound(list, exp)
  PROVE  list \in Seq(Proc) /\ IsInjective(list) /\ exp \in [Proc -> Nat]
<1>1. 0..MaxSleep \subseteq Nat
  BY MaxSleepAssumption
<1>. QED  BY <1>1 DEF Sound

\* The ticks left to each thread.
LeftIn(list, exp) ==
  [p \in Proc |-> IF p \in ToSet(list)
                  THEN T!DueIn(list, exp)[SelectInSeq(list, LAMBDA q : q = p)] ELSE 0]

IsLeft(list, exp, left) ==
  /\ left = [q \in Proc |-> left[q]]
  /\ \A q \in Proc : q \notin ToSet(list) => left[q] = 0
  /\ \A k \in 1..Len(list) : left[list[k]] = T!DueIn(list, exp)[k]

LEMMA LeftFacts ==
  ASSUME NEW list \in Seq(Proc), IsInjective(list), NEW exp
  PROVE  IsLeft(list, exp, LeftIn(list, exp))
<1>1. Len(list) \in Nat /\ DOMAIN list = 1..Len(list) /\ \A i \in 1..Len(list) : list[i] \in Proc
  OBVIOUS
<1>2. \A k \in 1..Len(list) : LeftIn(list, exp)[list[k]] = T!DueIn(list, exp)[k]
  <2>. TAKE k \in 1..Len(list)
  <2>1. {i \in 1..Len(list) : list[i] = list[k]} = {k}
    BY <1>1 DEF IsInjective
  <2>2. Min({k}) = k
    BY DEF Min
  <2>3. SelectInSeq(list, LAMBDA v : v = list[k]) = k
    BY <2>1, <2>2 DEF SelectInSeq
  <2>4. list[k] \in ToSet(list) /\ list[k] \in Proc
    BY <1>1 DEF ToSet
  <2>. QED  BY <2>3, <2>4 DEF LeftIn
<1>3. \A q \in Proc : q \notin ToSet(list) => LeftIn(list, exp)[q] = 0
  BY DEF LeftIn
<1>4. LeftIn(list, exp) = [q \in Proc |-> LeftIn(list, exp)[q]]
  BY DEF LeftIn
<1>. QED  BY <1>2, <1>3, <1>4 DEF IsLeft

\* Two such functions of threads are equal when they agree on the list and off it.
LEMMA LeftIs ==
  /\ T!Left = LeftIn(timer_list, expires)
  /\ T!Left' = LeftIn(timer_list', expires')
<1>1. T!Left = LeftIn(timer_list, expires)
  BY DEF T!Left, LeftIn, T!Linked, T!ToSet, ToSet, T!Due, T!Place, T!SelectInSeq, SelectInSeq, T!Min, Min
<1>2. T!Left' = LeftIn(timer_list', expires')
  BY DEF T!Left, LeftIn, T!Linked, T!ToSet, ToSet, T!Due, T!Place, T!SelectInSeq, SelectInSeq, T!Min, Min
<1>. QED  BY <1>1, <1>2

\* add_timer, between its timer k and the one behind.
Added(list, exp, p, n, k, list2, exp2) ==
  /\ p \in Proc /\ p \notin ToSet(list) /\ n \in 1..MaxSleep /\ k \in 0..Len(list)
  /\ T!DueIn(list, exp)[k] <= n
  /\ k < Len(list) => n < T!DueIn(list, exp)[k + 1]
  /\ list2 = InsertAt(list, k + 1, p)
  /\ exp2 = IF k = Len(list) THEN [exp EXCEPT ![p] = n - T!DueIn(list, exp)[k]]
            ELSE T!FollowerShortened([exp EXCEPT ![p] = n - T!DueIn(list, exp)[k]], p, list[k + 1])

AddedOK(list, exp, p, n, list2, exp2) ==
  /\ Sound(list2, exp2)
  /\ ToSet(list2) = ToSet(list) \cup {p}
  /\ LeftIn(list, exp)[p] = 0
  /\ LeftIn(list2, exp2) = [LeftIn(list, exp) EXCEPT ![p] = n]

LEMMA AddedFacts ==
  ASSUME NEW list, NEW exp, Sound(list, exp), NEW p, NEW n, NEW k, NEW list2, NEW exp2,
         Added(list, exp, p, n, k, list2, exp2)
  PROVE  AddedOK(list, exp, p, n, list2, exp2)
<1>g. PICK g : g = T!DueIn(list, exp)
  OBVIOUS
<1>h. PICK h : h = T!DueIn(list2, exp2)
  OBVIOUS
<1>l. PICK l : l = Len(list)
  OBVIOUS
<1>1. list \in Seq(Proc) /\ IsInjective(list) /\ exp \in [Proc -> Nat]
  BY SoundNat
<1>2. /\ p \in Proc /\ p \notin ToSet(list) /\ n \in 1..MaxSleep /\ k \in 0..l /\ k + 1 \in Nat
      /\ l \in Nat /\ n \in Nat /\ k \in Nat
      /\ list2 = InsertAt(list, k + 1, p)
  BY <1>1, <1>l, MaxSleepAssumption DEF Added
<1>3. /\ g[k] <= n
      /\ k < l => n < g[k + 1]
  BY <1>g, <1>l DEF Added
<1>4. /\ g[0] = 0
      /\ \A i \in 0..l : g[i] \in Nat
      /\ \A i \in 1..l : g[i] = g[i - 1] + exp[list[i]]
  <2>1. Sums(list, exp, g) /\ NumbersUpTo(Len(list), g)
    BY <1>1, <1>g, DueFacts
  <2>. QED  BY <1>l, <2>1 DEF Sums, NumbersUpTo
<1>5. /\ DOMAIN list = 1..l /\ \A i \in 1..l : list[i] \in Proc /\ list[i] \in ToSet(list) /\ list[i] # p
      /\ \A i \in 1..l : \A j \in 1..l : list[i] = list[j] => i = j
  <2>1. DOMAIN list = 1..l /\ \A i \in 1..l : list[i] \in Proc
    BY <1>1, <1>l
  <2>2. \A i \in 1..l : list[i] \in ToSet(list)
    BY <2>1 DEF ToSet
  <2>3. \A i \in 1..l : \A j \in 1..l : list[i] = list[j] => i = j
    BY <1>1, <2>1 DEF IsInjective
  <2>. QED  BY <1>2, <2>1, <2>2, <2>3
<1>6. PICK d \in Nat : d = n - g[k] /\ d <= n
  <2>1. g[k] \in Nat
    BY <1>2, <1>4
  <2>2. n - g[k] \in Nat /\ n - g[k] <= n
    BY <1>2, <1>3, <2>1
  <2>. QED  BY <2>2
<1>7. k < l => list[k + 1] \in Proc /\ list[k + 1] # p /\ k + 1 \in 1..l /\ exp[list[k + 1]] - d \in Nat
  <2>. SUFFICES ASSUME k < l
                PROVE  list[k + 1] \in Proc /\ list[k + 1] # p /\ k + 1 \in 1..l /\ exp[list[k + 1]] - d \in Nat
    OBVIOUS
  <2>1. k + 1 \in 1..l /\ (k + 1) - 1 = k
    BY <1>2
  <2>2. list[k + 1] \in Proc /\ list[k + 1] # p
    BY <1>5, <2>1
  <2>3. exp[list[k + 1]] \in Nat
    BY <1>1, <2>2
  <2>4. g[k + 1] = g[k] + exp[list[k + 1]] /\ g[k] \in Nat /\ n < g[k + 1]
    BY <1>2, <1>3, <1>4, <2>1
  <2>. PICK a, b : a = g[k] /\ b = exp[list[k + 1]]
    OBVIOUS
  <2>5. a \in Nat /\ b \in Nat /\ n \in Nat /\ n < a + b /\ d = n - a /\ d \in Nat
    BY <1>2, <1>6, <2>3, <2>4
  <2>6. b - d \in Nat
    BY ONLY <2>5
  <2>. QED  BY <2>1, <2>2, <2>6
<1>8. /\ exp2 \in [Proc -> Nat] /\ exp2[p] = d
      /\ k < l => exp2[list[k + 1]] = exp[list[k + 1]] - d
      /\ \A q \in Proc : q # p /\ (k < l => q # list[k + 1]) => exp2[q] = exp[q]
  <2>e. PICK e : e = [exp EXCEPT ![p] = d]
    OBVIOUS
  <2>1. e \in [Proc -> Nat] /\ e[p] = d /\ \A q \in Proc : q # p => e[q] = exp[q]
    BY <1>1, <1>2, <1>6, <2>e
  <2>2. CASE k = l
    <3>1. exp2 = e
      BY <1>6, <1>g, <1>l, <2>2, <2>e DEF Added
    <3>2. ~(k < l)
      BY <1>2, <2>2
    <3>. QED  BY <2>1, <3>1, <3>2
  <2>3. CASE k # l
    <3>1. exp2 = T!FollowerShortened(e, p, list[k + 1])
      BY <1>6, <1>g, <1>l, <2>3, <2>e DEF Added
    <3>2. k < l
      BY <1>2, <2>3
    <3>x. PICK x \in Proc : x = list[k + 1] /\ x # p
      BY <1>7, <3>2
    <3>3. exp2 = [e EXCEPT ![x] = e[x] - d] /\ e[x] = exp[x] /\ e[x] - d \in Nat
      BY <1>7, <2>1, <3>1, <3>2, <3>x DEF T!FollowerShortened
    <3>4. exp2 \in [Proc -> Nat] /\ exp2[x] = exp[x] - d /\ \A q \in Proc : q # x => exp2[q] = e[q]
      BY <2>1, <3>3
    <3>. QED  BY <1>2, <2>1, <3>2, <3>4, <3>x
  <2>. QED  BY <2>2, <2>3
<1>9. \A j \in 0..l + 1 : h[j] = IF j <= k THEN g[j] ELSE IF j = k + 1 THEN n ELSE g[j - 1]
  <2>1. exp2[p] = n - T!DueIn(list, exp)[k]
    BY <1>6, <1>8, <1>g
  <2>2. AddCharges(list, exp, p, n, k, exp2)
    BY <1>8, <1>l, <2>1 DEF AddCharges
  <2>3. k \in 0..Len(list)
    BY <1>2, <1>l
  <2>4. AddSums(list, exp, p, n, k, exp2)
    BY <1>1, <1>2, <1>8, <2>2, <2>3, AddDue
  <2>. QED  BY <1>2, <1>g, <1>h, <1>l, <2>4 DEF AddSums
<1>10. /\ list2 \in Seq(Proc) /\ Len(list2) = l + 1
       /\ \A i \in 1..l + 1 :
            list2[i] = IF i <= k THEN list[i] ELSE IF i = k + 1 THEN p ELSE list[i - 1]
  <2>1. k \in 0..Len(list) /\ p \in Proc
    BY <1>2, <1>l
  <2>2. /\ InsertAt(list, k + 1, p) \in Seq(Proc)
        /\ Len(InsertAt(list, k + 1, p)) = Len(list) + 1
        /\ \A i \in 1..Len(list) + 1 :
             InsertAt(list, k + 1, p)[i] =
               IF i <= k THEN list[i] ELSE IF i = k + 1 THEN p ELSE list[i - 1]
    BY <1>1, <2>1, InsertAtFacts
  <2>. QED  BY <1>2, <1>l, <2>2
<1>11. \A i \in 1..l + 1 : \/ i <= k /\ i \in 1..l /\ list2[i] = list[i] /\ h[i] = g[i]
                           \/ i = k + 1 /\ list2[i] = p /\ h[i] = n
                           \/ i > k + 1 /\ i - 1 \in 1..l /\ list2[i] = list[i - 1] /\ h[i] = g[i - 1]
  <2>. TAKE i \in 1..l + 1
  <2>1. i \in 0..l + 1 /\ i \in Nat
    BY <1>2
  <2>2. CASE i <= k
    <3>1. i \in 1..l
      BY <1>2, <2>1, <2>2
    <3>. QED  BY <1>9, <1>10, <2>1, <2>2, <3>1
  <2>3. CASE i = k + 1
    <3>1. ~(i <= k)
      BY <1>2, <2>3
    <3>. QED  BY <1>9, <1>10, <2>1, <2>3, <3>1
  <2>4. CASE i > k + 1
    <3>1. ~(i <= k) /\ i # k + 1 /\ i - 1 \in 1..l
      BY <1>2, <2>1, <2>4
    <3>. QED  BY <1>9, <1>10, <2>1, <2>4, <3>1
  <2>. QED  BY <1>2, <2>1, <2>2, <2>3, <2>4
<1>12. DOMAIN list2 = 1..l + 1
  BY <1>10
<1>13. ToSet(list2) = ToSet(list) \cup {p}
  <2>1. \A x \in ToSet(list2) : x \in ToSet(list) \cup {p}
    <3>. TAKE x \in ToSet(list2)
    <3>1. PICK i \in 1..l + 1 : x = list2[i]
      BY <1>12 DEF ToSet
    <3>2. x = p \/ \E j \in 1..l : x = list[j]
      BY <1>11, <3>1
    <3>. QED  BY <1>5, <3>2
  <2>2. p \in ToSet(list2)
    <3>1. k + 1 \in 1..l + 1
      BY <1>2
    <3>2. list2[k + 1] = p
      BY <1>2, <1>10, <3>1
    <3>. QED  BY <1>12, <3>1, <3>2 DEF ToSet
  <2>3. \A x \in ToSet(list) : x \in ToSet(list2)
    <3>. TAKE x \in ToSet(list)
    <3>1. PICK j \in 1..l : x = list[j]
      BY <1>5 DEF ToSet
    <3>2. CASE j <= k
      <4>1. j \in 1..l + 1
        BY <1>2
      <4>2. list2[j] = list[j]
        BY <1>10, <3>2, <4>1
      <4>. QED  BY <1>12, <3>1, <4>1, <4>2 DEF ToSet
    <3>3. CASE ~(j <= k)
      <4>1. j + 1 \in 1..l + 1 /\ ~(j + 1 <= k) /\ j + 1 # k + 1 /\ (j + 1) - 1 = j
        BY <1>2, <3>3
      <4>2. list2[j + 1] = list[j]
        BY <1>10, <4>1
      <4>. QED  BY <1>12, <3>1, <4>1, <4>2 DEF ToSet
    <3>. QED  BY <3>2, <3>3
  <2>. QED  BY <2>1, <2>2, <2>3
<1>14. IsInjective(list2)
  <2>. SUFFICES ASSUME NEW i \in 1..l + 1, NEW j \in 1..l + 1, list2[i] = list2[j] PROVE i = j
    BY <1>12 DEF IsInjective
  <2>1. CASE i <= k /\ i \in 1..l /\ list2[i] = list[i]
    <3>1. CASE j > k + 1 /\ j - 1 \in 1..l /\ list2[j] = list[j - 1]
      <4>1. i = j - 1
        BY <1>5, <2>1, <3>1
      <4>. QED  BY <1>2, <2>1, <3>1, <4>1
    <3>2. CASE j <= k /\ j \in 1..l /\ list2[j] = list[j]
      BY <1>5, <2>1, <3>2
    <3>. QED  BY <1>5, <1>11, <2>1, <3>1, <3>2
  <2>2. CASE i = k + 1 /\ list2[i] = p
    BY <1>5, <1>11, <2>2, <1>2
  <2>3. CASE i > k + 1 /\ i - 1 \in 1..l /\ list2[i] = list[i - 1]
    <3>1. CASE j > k + 1 /\ j - 1 \in 1..l /\ list2[j] = list[j - 1]
      <4>1. i - 1 = j - 1
        BY <1>5, <2>3, <3>1
      <4>. QED  BY <1>2, <4>1
    <3>2. CASE j <= k /\ j \in 1..l /\ list2[j] = list[j]
      BY <1>2, <1>5, <2>3, <3>2
    <3>. QED  BY <1>5, <1>11, <2>3, <3>1, <3>2
  <2>. QED  BY <1>11, <2>1, <2>2, <2>3
<1>15. \A i \in 1..l : g[i] \in 1..MaxSleep
  BY <1>g, <1>l DEF Sound
<1>16. Sound(list2, exp2)
  <2>1. \A i \in 1..Len(list2) : T!DueIn(list2, exp2)[i] \in 1..MaxSleep
    BY <1>2, <1>10, <1>11, <1>15, <1>h
  <2>2. \A q \in Proc : q \notin ToSet(list2) => exp2[q] <= MaxSleep
    <3>. SUFFICES ASSUME NEW q \in Proc, q \notin ToSet(list2) PROVE exp2[q] <= MaxSleep
      OBVIOUS
    <3>1. q # p /\ (k < l => q # list[k + 1])
      BY <1>5, <1>7, <1>13
    <3>2. exp2[q] = exp[q] /\ exp[q] \in 0..MaxSleep
      BY <1>8, <3>1 DEF Sound
    <3>. QED  BY <3>2, MaxSleepAssumption
  <2>. QED  BY <1>8, <1>10, <1>14, <2>1, <2>2, SoundIf
<1>17. LeftIn(list, exp)[p] = 0 /\ LeftIn(list2, exp2) = [LeftIn(list, exp) EXCEPT ![p] = n]
  <2>a. PICK a : a = LeftIn(list, exp)
    OBVIOUS
  <2>b. PICK b : b = LeftIn(list2, exp2)
    OBVIOUS
  <2>1. IsLeft(list, exp, a) /\ IsLeft(list2, exp2, b)
    BY <1>1, <1>10, <1>14, <2>a, <2>b, LeftFacts
  <2>2. /\ a = [q \in Proc |-> a[q]] /\ b = [q \in Proc |-> b[q]]
        /\ \A q \in Proc : q \notin ToSet(list) => a[q] = 0
        /\ \A q \in Proc : q \notin ToSet(list2) => b[q] = 0
        /\ \A i \in 1..l : a[list[i]] = g[i]
        /\ \A i \in 1..l + 1 : b[list2[i]] = h[i]
    BY <1>10, <1>g, <1>h, <1>l, <2>1 DEF IsLeft
  <2>3. \A q \in Proc : b[q] = IF q = p THEN n ELSE a[q]
    <3>. TAKE q \in Proc
    <3>1. CASE q \in ToSet(list2)
      <4>1. PICK i \in 1..l + 1 : list2[i] = q
        BY <1>12, <3>1 DEF ToSet
      <4>2. b[q] = h[i]
        BY <2>2, <4>1
      <4>3. CASE i = k + 1 /\ list2[i] = p /\ h[i] = n
        BY <4>1, <4>2, <4>3
      <4>4. CASE \E j \in 1..l : list2[i] = list[j] /\ h[i] = g[j]
        BY <1>5, <2>2, <4>1, <4>2, <4>4
      <4>. QED  BY <1>11, <4>3, <4>4
    <3>2. CASE q \notin ToSet(list2)
      BY <1>13, <2>2, <3>2
    <3>. QED  BY <3>1, <3>2
  <2>4. b = [a EXCEPT ![p] = n]
    BY <2>2, <2>3
  <2>. QED  BY <1>2, <2>2, <2>4, <2>a, <2>b
<1>. QED  BY <1>13, <1>16, <1>17 DEF AddedOK

\* del_timer of the timer k.
Deleted(list, exp, k, list2, exp2) ==
  /\ k \in 1..Len(list)
  /\ list2 = RemoveAt(list, k)
  /\ exp2 = [(IF k = Len(list) THEN exp
              ELSE [exp EXCEPT ![list[k + 1]] = @ + exp[list[k]]]) EXCEPT ![list[k]] = 0]

DeletedOK(list, exp, p, list2, exp2) ==
  /\ Sound(list2, exp2)
  /\ ToSet(list2) = ToSet(list) \ {p}
  /\ LeftIn(list2, exp2) = [LeftIn(list, exp) EXCEPT ![p] = 0]

LEMMA DeletedFacts ==
  ASSUME NEW list, NEW exp, Sound(list, exp), NEW k, NEW list2, NEW exp2,
         Deleted(list, exp, k, list2, exp2)
  PROVE  DeletedOK(list, exp, list[k], list2, exp2)
<1>g. PICK g : g = T!DueIn(list, exp)
  OBVIOUS
<1>h. PICK h : h = T!DueIn(list2, exp2)
  OBVIOUS
<1>l. PICK l : l = Len(list)
  OBVIOUS
<1>1. list \in Seq(Proc) /\ IsInjective(list) /\ exp \in [Proc -> Nat]
  BY SoundNat
<1>2. k \in 1..l /\ k \in Nat /\ l \in Nat /\ l - 1 \in Nat /\ list2 = RemoveAt(list, k)
  BY <1>1, <1>l DEF Deleted
<1>4. /\ g[0] = 0
      /\ \A i \in 0..l : g[i] \in Nat
      /\ \A i \in 1..l : g[i] = g[i - 1] + exp[list[i]]
  <2>1. Sums(list, exp, g) /\ NumbersUpTo(Len(list), g)
    BY <1>1, <1>g, DueFacts
  <2>. QED  BY <1>l, <2>1 DEF Sums, NumbersUpTo
<1>5. /\ DOMAIN list = 1..l /\ \A i \in 1..l : list[i] \in Proc /\ list[i] \in ToSet(list)
      /\ \A i \in 1..l : \A j \in 1..l : list[i] = list[j] => i = j
  <2>1. DOMAIN list = 1..l /\ \A i \in 1..l : list[i] \in Proc
    BY <1>1, <1>l
  <2>2. \A i \in 1..l : list[i] \in ToSet(list)
    BY <2>1 DEF ToSet
  <2>3. \A i \in 1..l : \A j \in 1..l : list[i] = list[j] => i = j
    BY <1>1, <2>1 DEF IsInjective
  <2>. QED  BY <2>1, <2>2, <2>3
<1>p. PICK p \in Proc : p = list[k]
  BY <1>2, <1>5
<1>7. k < l => list[k + 1] \in Proc /\ list[k + 1] # p /\ k + 1 \in 1..l
  <2>1. k < l => k + 1 \in 1..l /\ k + 1 # k
    BY <1>2
  <2>. QED  BY <1>2, <1>5, <1>p, <2>1
<1>8. /\ exp2 \in [Proc -> Nat]
      /\ k < l => exp2[list[k + 1]] = exp[list[k + 1]] + exp[p]
      /\ \A q \in Proc : q # p /\ (k < l => q # list[k + 1]) => exp2[q] = exp[q]
      /\ exp2[p] = 0
  <2>1. CASE k = l
    <3>1. exp2 = [exp EXCEPT ![p] = 0] /\ ~(k < l)
      BY <1>2, <1>l, <1>p, <2>1 DEF Deleted
    <3>. QED  BY <1>1, <3>1
  <2>2. CASE k # l
    <3>1. k < l
      BY <1>2, <2>2
    <3>x. PICK x \in Proc : x = list[k + 1] /\ x # p
      BY <1>7, <3>1
    <3>e. PICK e : e = [exp EXCEPT ![x] = exp[x] + exp[p]]
      OBVIOUS
    <3>2. exp2 = [e EXCEPT ![p] = 0]
      BY <1>l, <1>p, <2>2, <3>e, <3>x DEF Deleted
    <3>3. exp[x] \in Nat /\ exp[p] \in Nat /\ exp[x] + exp[p] \in Nat
      BY <1>1
    <3>4. e \in [Proc -> Nat] /\ e[x] = exp[x] + exp[p] /\ \A q \in Proc : q # x => e[q] = exp[q]
      BY <1>1, <3>3, <3>e
    <3>5. /\ exp2 \in [Proc -> Nat] /\ exp2[p] = 0 /\ exp2[x] = exp[x] + exp[p]
          /\ \A q \in Proc : q # x /\ q # p => exp2[q] = exp[q]
      BY <3>2, <3>4, <3>x
    <3>. QED  BY <3>1, <3>5, <3>x
  <2>. QED  BY <2>1, <2>2
<1>9. \A j \in 0..l - 1 : h[j] = IF j < k THEN g[j] ELSE g[j + 1]
  <2>1. DelCharges(list, exp, k, exp2)
    BY <1>8, <1>l, <1>p DEF DelCharges
  <2>2. k \in 1..Len(list)
    BY <1>2, <1>l
  <2>3. DelSums(list, exp, k, exp2)
    BY <1>1, <1>8, <2>1, <2>2, DelDue
  <2>. QED  BY <1>2, <1>g, <1>h, <1>l, <2>3 DEF DelSums
<1>10. /\ list2 \in Seq(Proc) /\ Len(list2) = l - 1
       /\ \A i \in 1..l - 1 : list2[i] = IF i < k THEN list[i] ELSE list[i + 1]
  <2>1. k \in 1..Len(list)
    BY <1>2, <1>l
  <2>2. /\ RemoveAt(list, k) \in Seq(Proc)
        /\ Len(RemoveAt(list, k)) = Len(list) - 1
        /\ \A j \in 1..Len(list) - 1 :
             RemoveAt(list, k)[j] = IF j < k THEN list[j] ELSE list[j + 1]
    BY <1>1, <2>1, RemoveAtFacts
  <2>. QED  BY <1>2, <1>l, <2>2
<1>11. \A i \in 1..l - 1 : \E j \in 1..l : list2[i] = list[j] /\ h[i] = g[j]
  <2>. TAKE i \in 1..l - 1
  <2>1. i \in 0..l - 1 /\ i \in 1..l /\ i + 1 \in 1..l
    BY <1>2
  <2>2. CASE i < k
    BY <1>9, <1>10, <2>1, <2>2
  <2>3. CASE ~(i < k)
    BY <1>9, <1>10, <2>1, <2>3
  <2>. QED  BY <2>2, <2>3
<1>12. DOMAIN list2 = 1..l - 1
  BY <1>2, <1>10
<1>13. ToSet(list2) = ToSet(list) \ {p} /\ IsInjective(list2)
  <2>1. {i \in 1..Len(list) : list[i] = p} = {k}
    BY <1>2, <1>5, <1>l, <1>p
  <2>2. Min({k}) = k
    BY DEF Min
  <2>3. SelectInSeq(list, LAMBDA v : v = p) = k
    BY <2>1, <2>2 DEF SelectInSeq
  <2>4. \E i \in 1..Len(list) : list[i] = p
    BY <1>2, <1>l, <1>p
  <2>5. list2 = RemoveFirst(list, p)
    BY <1>2, <2>3, <2>4 DEF RemoveFirst
  <2>6. p \in ToSet(list)
    BY <1>2, <1>5, <1>p
  <2>. QED  BY <1>1, <2>5, <2>6, RemoveFirstFacts
<1>15. \A i \in 1..l : g[i] \in 1..MaxSleep
  BY <1>g, <1>l DEF Sound
<1>16. Sound(list2, exp2)
  <2>1. \A i \in 1..Len(list2) : T!DueIn(list2, exp2)[i] \in 1..MaxSleep
    BY <1>10, <1>11, <1>15, <1>h
  <2>2. \A q \in Proc : q \notin ToSet(list2) => exp2[q] <= MaxSleep
    <3>. SUFFICES ASSUME NEW q \in Proc, q \notin ToSet(list2) PROVE exp2[q] <= MaxSleep
      OBVIOUS
    <3>1. CASE q = p
      BY <1>8, <3>1, MaxSleepAssumption
    <3>2. CASE q # p
      <4>1. k < l => q # list[k + 1]
        BY <1>5, <1>7, <1>13, <3>2
      <4>2. exp2[q] = exp[q] /\ exp[q] \in 0..MaxSleep
        BY <1>8, <3>2, <4>1 DEF Sound
      <4>. QED  BY <4>2, MaxSleepAssumption
    <3>. QED  BY <3>1, <3>2
  <2>. QED  BY <1>8, <1>10, <1>13, <2>1, <2>2, SoundIf
<1>17. LeftIn(list2, exp2) = [LeftIn(list, exp) EXCEPT ![p] = 0]
  <2>a. PICK a : a = LeftIn(list, exp)
    OBVIOUS
  <2>b. PICK b : b = LeftIn(list2, exp2)
    OBVIOUS
  <2>1. IsLeft(list, exp, a) /\ IsLeft(list2, exp2, b)
    BY <1>1, <1>10, <1>13, <2>a, <2>b, LeftFacts
  <2>2. /\ a = [q \in Proc |-> a[q]] /\ b = [q \in Proc |-> b[q]]
        /\ \A q \in Proc : q \notin ToSet(list) => a[q] = 0
        /\ \A q \in Proc : q \notin ToSet(list2) => b[q] = 0
        /\ \A i \in 1..l : a[list[i]] = g[i]
        /\ \A i \in 1..l - 1 : b[list2[i]] = h[i]
    BY <1>10, <1>g, <1>h, <1>l, <2>1 DEF IsLeft
  <2>3. \A q \in Proc : b[q] = IF q = p THEN 0 ELSE a[q]
    <3>. TAKE q \in Proc
    <3>1. CASE q \in ToSet(list2)
      <4>1. PICK i \in 1..l - 1 : list2[i] = q
        BY <1>12, <3>1 DEF ToSet
      <4>2. PICK j \in 1..l : list2[i] = list[j] /\ h[i] = g[j]
        BY <1>11
      <4>3. b[q] = a[q] /\ q # p
        BY <1>13, <2>2, <3>1, <4>1, <4>2
      <4>. QED  BY <4>3
    <3>2. CASE q \notin ToSet(list2)
      BY <1>13, <2>2, <3>2
    <3>. QED  BY <3>1, <3>2
  <2>4. b = [a EXCEPT ![p] = 0]
    BY <2>2, <2>3
  <2>. QED  BY <2>4, <2>a, <2>b
<1>. QED  BY <1>13, <1>16, <1>17, <1>p DEF DeletedOK

\* run_timer_list on a list that is not empty, when its first n timers run out.
Ticked(list, exp, n, list2, exp2) ==
  /\ list # <<>> /\ n \in 0..Len(list)
  /\ exp2 = [exp EXCEPT ![list[1]] = @ - 1]
  /\ \A i \in 1..n : exp2[list[i]] = 0
  /\ n < Len(list) => exp2[list[n + 1]] # 0
  /\ list2 = SubSeq(list, n + 1, Len(list))

TickedOK(list, exp, list2, exp2, w) ==
  /\ Sound(list2, exp2)
  /\ w = {p \in Proc : LeftIn(list, exp)[p] = 1}
  /\ w \subseteq ToSet(list)
  /\ ToSet(list2) = ToSet(list) \ w
  /\ LeftIn(list2, exp2) = [p \in Proc |-> IF LeftIn(list, exp)[p] = 0 THEN 0
                                           ELSE LeftIn(list, exp)[p] - 1]

LEMMA TickedFacts ==
  ASSUME NEW list, NEW exp, Sound(list, exp), NEW n, NEW list2, NEW exp2,
         Ticked(list, exp, n, list2, exp2)
  PROVE  TickedOK(list, exp, list2, exp2, ToSet(SubSeq(list, 1, n)))
<1>g. PICK g : g = T!DueIn(list, exp)
  OBVIOUS
<1>h. PICK h : h = T!DueIn(list2, exp2)
  OBVIOUS
<1>l. PICK l : l = Len(list)
  OBVIOUS
<1>w. PICK w : w = ToSet(SubSeq(list, 1, n))
  OBVIOUS
<1>1. list \in Seq(Proc) /\ IsInjective(list) /\ exp \in [Proc -> Nat]
  BY SoundNat
<1>2. /\ n \in 0..l /\ l \in Nat /\ n \in Nat /\ n <= l /\ l - n \in Nat /\ 1 \in 1..l
      /\ list2 = SubSeq(list, n + 1, l) /\ list # <<>>
      /\ exp2 = [exp EXCEPT ![list[1]] = @ - 1]
      /\ \A i \in 1..n : exp2[list[i]] = 0
      /\ n < l => exp2[list[n + 1]] # 0
  BY <1>1, <1>l DEF Ticked
<1>4. /\ g[0] = 0
      /\ \A i \in 0..l : g[i] \in Nat
      /\ \A i \in 1..l : g[i] = g[i - 1] + exp[list[i]]
  <2>1. Sums(list, exp, g) /\ NumbersUpTo(Len(list), g)
    BY <1>1, <1>g, DueFacts
  <2>. QED  BY <1>l, <2>1 DEF Sums, NumbersUpTo
<1>5. /\ DOMAIN list = 1..l /\ \A i \in 1..l : list[i] \in Proc /\ list[i] \in ToSet(list)
      /\ \A i \in 1..l : \A j \in 1..l : list[i] = list[j] => i = j
  <2>1. DOMAIN list = 1..l /\ \A i \in 1..l : list[i] \in Proc
    BY <1>1, <1>l
  <2>2. \A i \in 1..l : list[i] \in ToSet(list)
    BY <2>1 DEF ToSet
  <2>3. \A i \in 1..l : \A j \in 1..l : list[i] = list[j] => i = j
    BY <1>1, <2>1 DEF IsInjective
  <2>. QED  BY <2>1, <2>2, <2>3
<1>15. \A i \in 1..l : g[i] \in 1..MaxSleep /\ g[i] \in Nat \ {0}
  <2>1. \A i \in 1..l : g[i] \in 1..MaxSleep
    BY <1>g, <1>l DEF Sound
  <2>. QED  BY <2>1, MaxSleepAssumption
<1>p. PICK p \in Proc : p = list[1]
  BY <1>2, <1>5
<1>7. exp[p] \in Nat /\ exp[p] > 0 /\ exp[p] - 1 \in Nat
  <2>0. 1 \in 1..l
    BY <1>2
  <2>1. g[1] = 0 + exp[p] /\ g[1] \in Nat \ {0} /\ exp[p] \in Nat
    <3>1. g[1] = g[1 - 1] + exp[list[1]]
      BY <1>4, <2>0
    <3>2. g[1 - 1] = 0
      BY <1>4
    <3>3. exp[p] \in Nat
      BY <1>1
    <3>. QED  BY <1>15, <1>p, <2>0, <3>1, <3>2, <3>3
  <2>2. exp[p] # 0
    BY <2>1
  <2>3. \A x \in Nat : x # 0 => x > 0 /\ x - 1 \in Nat
    OBVIOUS
  <2>. QED  BY <2>1, <2>2, <2>3
<1>8. /\ exp2 \in [Proc -> Nat] /\ exp2[p] = exp[p] - 1
      /\ \A q \in Proc : q # p => exp2[q] = exp[q]
  <2>1. exp2 = [exp EXCEPT ![p] = exp[p] - 1]
    BY <1>2, <1>p
  <2>. QED  BY <1>1, <1>7, <2>1
<1>9. /\ \A i \in 1..n : g[i] = 1
      /\ n < l => g[n + 1] = exp2[list[n + 1]] + 1
      /\ \A j \in 1..l - n : h[j] = g[j + n] - 1
  <2>1. n \in 0..Len(list) /\ exp[list[1]] > 0
    BY <1>2, <1>7, <1>l, <1>p
  <2>2. TickSums(list, exp, n, exp2)
    BY <1>1, <1>2, <1>8, <2>1, TickDue
  <2>. QED  BY <1>2, <1>g, <1>h, <1>l, <2>2 DEF TickSums
<1>10. \A i \in n + 1..l : g[i] \in Nat /\ g[i] >= 2
  <2>. TAKE i \in n + 1..l
  <2>1. n < l /\ n + 1 \in 1..l /\ n + 1 \in 0..l /\ i \in 0..l /\ n + 1 <= i
    BY <1>2
  <2>2. g[n + 1] <= g[i]
    BY <1>1, <1>g, <1>l, <2>1, DueGrows
  <2>3. list[n + 1] \in Proc
    BY <1>5, <2>1
  <2>4. exp2[list[n + 1]] \in Nat /\ exp2[list[n + 1]] # 0 /\ g[n + 1] = exp2[list[n + 1]] + 1
    BY <1>2, <1>8, <1>9, <2>1, <2>3
  <2>. PICK a, b, c : a = g[n + 1] /\ b = g[i] /\ c = exp2[list[n + 1]]
    OBVIOUS
  <2>5. b \in Nat /\ c \in Nat /\ c # 0 /\ a = c + 1 /\ a <= b
    BY <1>4, <2>1, <2>2, <2>4
  <2>6. b \in Nat /\ b >= 2
    BY ONLY <2>5
  <2>. QED  BY <2>6
<1>11. /\ list2 \in Seq(Proc) /\ Len(list2) = l - n
       /\ \A i \in 1..l - n : list2[i] = list[i + n]
  <2>0. list2 = SubSeq(list, n + 1, l) /\ n \in 0..l
    BY <1>2
  <2>x. PICK x : x = SubSeq(list, n + 1, l)
    OBVIOUS
  <2>3. x \in Seq(Proc) /\ Len(x) = l - n /\ \A i \in 1..l - n : x[i] = list[n + i]
    BY <1>1, <1>l, <2>0, <2>x
  <2>1. list2 \in Seq(Proc) /\ Len(list2) = l - n /\ \A i \in 1..l - n : list2[i] = list[n + i]
    BY <2>0, <2>3, <2>x
  <2>2. \A i \in 1..l - n : n + i = i + n
    BY <1>2
  <2>. QED  BY <2>1, <2>2
<1>12. DOMAIN list2 = 1..l - n /\ \A i \in 1..l - n : i + n \in n + 1..l /\ i + n \in 1..l
  BY <1>2, <1>11
<1>13. IsInjective(list2)
  <2>. SUFFICES ASSUME NEW i \in 1..l - n, NEW j \in 1..l - n, list2[i] = list2[j] PROVE i = j
    BY <1>12 DEF IsInjective
  <2>1. i + n = j + n
    BY <1>5, <1>11, <1>12
  <2>. QED  BY <1>2, <2>1
<1>14. \A x : x \in w <=> \E i \in 1..n : x = list[i]
  <2>1. Len(SubSeq(list, 1, n)) = n /\ \A i \in 1..n : SubSeq(list, 1, n)[i] = list[i]
    BY <1>1, <1>2, <1>l
  <2>2. DOMAIN SubSeq(list, 1, n) = 1..n
    BY <1>1, <1>2, <1>l
  <2>. QED  BY <1>w, <2>1, <2>2 DEF ToSet
<1>16. \A x : x \in ToSet(list2) <=> \E i \in n + 1..l : x = list[i]
  <2>1. \A x : x \in ToSet(list2) <=> \E i \in 1..l - n : x = list[i + n]
    BY <1>11, <1>12 DEF ToSet
  <2>2. \A i \in n + 1..l : i - n \in 1..l - n /\ (i - n) + n = i
    BY <1>2
  <2>3. ASSUME NEW x, NEW i \in n + 1..l, x = list[i] PROVE x \in ToSet(list2)
    BY <2>1, <2>2, <2>3
  <2>4. ASSUME NEW x, x \in ToSet(list2) PROVE \E i \in n + 1..l : x = list[i]
    BY <1>12, <2>1, <2>4
  <2>. QED  BY <2>3, <2>4
<1>17. \A i \in 1..l : i \in 1..n \/ i \in n + 1..l
  BY <1>2
<1>18. \A i \in 1..n : i \in 1..l /\ i \notin n + 1..l
  BY <1>2
<1>19. \A i \in n + 1..l : i \in 1..l
  BY <1>2
<1>20. ToSet(list2) = ToSet(list) \ w /\ w \subseteq ToSet(list)
  <2>1. \A x : x \in ToSet(list) <=> \E i \in 1..l : x = list[i]
    BY <1>5 DEF ToSet
  <2>2. ASSUME NEW x \in ToSet(list2) PROVE x \in ToSet(list) /\ x \notin w
    <3>1. PICK i \in n + 1..l : x = list[i]
      BY <1>16
    <3>2. i \in 1..l
      BY <1>19
    <3>3. \A j \in 1..n : x # list[j]
      BY <1>5, <1>18, <3>1, <3>2
    <3>. QED  BY <1>14, <2>1, <3>1, <3>2, <3>3
  <2>3. ASSUME NEW x \in ToSet(list), x \notin w PROVE x \in ToSet(list2)
    BY <1>14, <1>16, <1>17, <2>1, <2>3
  <2>4. ASSUME NEW x \in w PROVE x \in ToSet(list)
    BY <1>14, <1>18, <2>1
  <2>. QED  BY <2>2, <2>3, <2>4
<1>21. Sound(list2, exp2)
  <2>1. \A i \in 1..Len(list2) : T!DueIn(list2, exp2)[i] \in 1..MaxSleep
    <3>1. SUFFICES ASSUME NEW i \in 1..l - n PROVE h[i] \in 1..MaxSleep
      BY <1>11, <1>h
    <3>. PICK a : a = g[i + n]
      OBVIOUS
    <3>2. h[i] = a - 1 /\ a \in Nat /\ a >= 2 /\ a \in 1..MaxSleep /\ MaxSleep \in Nat
      BY <1>9, <1>10, <1>12, <1>15, MaxSleepAssumption
    <3>3. a - 1 \in 1..MaxSleep
      BY ONLY <3>2
    <3>. QED  BY <3>2, <3>3
  <2>2. \A q \in Proc : q \notin ToSet(list2) => exp2[q] <= MaxSleep
    <3>. SUFFICES ASSUME NEW q \in Proc PROVE exp2[q] <= MaxSleep
      OBVIOUS
    <3>1. exp[q] \in 0..MaxSleep
      BY DEF Sound
    <3>2. exp2[q] = exp[q] \/ exp2[q] = exp[q] - 1
      BY <1>8
    <3>. QED  BY <3>1, <3>2, MaxSleepAssumption
  <2>. QED  BY <1>8, <1>11, <1>13, <2>1, <2>2, SoundIf
<1>a. PICK a : a = LeftIn(list, exp)
  OBVIOUS
<1>b. PICK b : b = LeftIn(list2, exp2)
  OBVIOUS
<1>22. /\ a = [q \in Proc |-> a[q]] /\ b = [q \in Proc |-> b[q]]
       /\ \A q \in Proc : q \notin ToSet(list) => a[q] = 0
       /\ \A q \in Proc : q \notin ToSet(list2) => b[q] = 0
       /\ \A i \in 1..l : a[list[i]] = g[i]
       /\ \A i \in 1..l - n : b[list2[i]] = h[i]
  <2>1. IsLeft(list, exp, a) /\ IsLeft(list2, exp2, b)
    BY <1>1, <1>11, <1>13, <1>a, <1>b, LeftFacts
  <2>. QED  BY <1>11, <1>g, <1>h, <1>l, <2>1 DEF IsLeft
<1>23. \A q \in w : q \in Proc /\ a[q] = 1
  <2>. TAKE q \in w
  <2>1. PICK i \in 1..n : q = list[i]
    BY <1>14
  <2>. QED  BY <1>5, <1>9, <1>18, <1>22, <2>1
<1>24. \A q \in ToSet(list2) : a[q] \in Nat /\ a[q] >= 2 /\ b[q] = a[q] - 1
  <2>. TAKE q \in ToSet(list2)
  <2>1. PICK j \in 1..l - n : q = list2[j]
    BY <1>12 DEF ToSet
  <2>2. q = list[j + n] /\ j + n \in n + 1..l /\ j + n \in 1..l
    BY <1>11, <1>12, <2>1
  <2>3. a[q] = g[j + n] /\ b[q] = h[j] /\ h[j] = g[j + n] - 1
    BY <1>9, <1>22, <2>1, <2>2
  <2>. QED  BY <1>10, <2>2, <2>3
<1>25. w = {q \in Proc : a[q] = 1}
  <2>1. ASSUME NEW q \in Proc, a[q] = 1 PROVE q \in w
    <3>1. q \in ToSet(list)
      BY <1>22, <2>1
    <3>2. q \notin ToSet(list2)
      BY <1>24, <2>1
    <3>. QED  BY <1>20, <3>1, <3>2
  <2>. QED  BY <1>23, <2>1
<1>26. b = [q \in Proc |-> IF a[q] = 0 THEN 0 ELSE a[q] - 1]
  <2>1. \A q \in Proc : b[q] = IF a[q] = 0 THEN 0 ELSE a[q] - 1
    <3>. TAKE q \in Proc
    <3>1. CASE q \in ToSet(list2)
      <4>1. a[q] # 0
        BY <1>24, <3>1
      <4>. QED  BY <1>24, <3>1, <4>1
    <3>2. CASE q \in w
      <4>1. a[q] = 1 /\ b[q] = 0
        BY <1>20, <1>22, <1>23, <3>2
      <4>. QED  BY <4>1
    <3>3. CASE q \notin ToSet(list)
      <4>1. a[q] = 0 /\ b[q] = 0
        BY <1>20, <1>22, <3>3
      <4>. QED  BY <4>1
    <3>. QED  BY <1>20, <3>1, <3>2, <3>3
  <2>. QED  BY <1>22, <2>1
<1>. QED  BY <1>20, <1>21, <1>25, <1>26, <1>a, <1>b, <1>w DEF TickedOK

-----------------------------------------------------------------------------
(* The steps of the timer list. *)

\* The list is sound and links a timer for each thread that has one on its stack.
TimersOK ==
  /\ Sound(timer_list, expires)
  /\ woken \subseteq Proc
  /\ T!Linked = timers

LEMMA SameOperators ==
  /\ \A s : T!ToSet(s) = ToSet(s)
  /\ \A S : T!Min(S) = Min(S)
  /\ \A s, i, e : T!InsertAt(s, i, e) = InsertAt(s, i, e)
  /\ \A s, i : T!RemoveAt(s, i) = RemoveAt(s, i)
<1>1. \A s : T!ToSet(s) = ToSet(s)
  BY DEF T!ToSet, ToSet
<1>2. \A S : T!Min(S) = Min(S)
  BY DEF T!Min, Min
<1>3. \A s, i, e : T!InsertAt(s, i, e) = InsertAt(s, i, e)
  BY DEF T!InsertAt, InsertAt
<1>4. \A s, i : T!RemoveAt(s, i) = RemoveAt(s, i)
  BY DEF T!RemoveAt, RemoveAt
<1>. QED  BY <1>1, <1>2, <1>3, <1>4

LEMMA LinkedIs == T!Linked = ToSet(timer_list) /\ T!Linked' = ToSet(timer_list')
<1>1. T!Linked = ToSet(timer_list)
  BY DEF T!Linked, T!ToSet, ToSet
<1>2. T!Linked' = ToSet(timer_list')
  BY DEF T!Linked, T!ToSet, ToSet
<1>. QED  BY <1>1, <1>2

\* add_timer stops at the first timer that runs out later.
LEMMA AddTimerAdds ==
  ASSUME Sound(timer_list, expires), NEW p \in Proc, NEW n \in 1..MaxSleep, T!AddTimer(p, n)
  PROVE  \E k : Added(timer_list, expires, p, n, k, timer_list', expires')
<1>w. PICK list, exp : list = timer_list /\ exp = expires
  OBVIOUS
<1>g. PICK g : g = T!DueIn(list, exp)
  OBVIOUS
<1>l. PICK l : l = Len(list)
  OBVIOUS
<1>1. list \in Seq(Proc) /\ IsInjective(list) /\ exp \in [Proc -> Nat]
  BY <1>w, SoundNat
<1>2. g = T!Due /\ p \notin ToSet(list)
  BY <1>g, <1>w, LinkedIs DEF T!Due, T!AddTimer
<1>4. /\ l \in Nat /\ DOMAIN list = 1..l
      /\ g[0] = 0
      /\ \A i \in 0..l : g[i] \in Nat
  <2>1. Sums(list, exp, g) /\ NumbersUpTo(Len(list), g)
    BY <1>1, <1>g, DueFacts
  <2>. QED  BY <1>1, <1>l, <2>1 DEF Sums, NumbersUpTo
<1>d. PICK d : d = [i \in 1..l |-> g[i]]
  OBVIOUS
<1>5. d \in Seq(Nat) /\ Len(d) = l /\ \A i \in 1..l : d[i] = g[i]
  <2>1. \A i \in 1..l : g[i] \in Nat
    BY <1>4
  <2>. QED  BY <1>4, <1>d, <2>1
<1>J. PICK J : J = {i \in 1..l : n < d[i]}
  OBVIOUS
<1>a. PICK at : at = IF J # {} THEN Min(J) ELSE 0
  OBVIOUS
<1>6. at = T!SelectInSeq([i \in DOMAIN timer_list |-> T!Due[i]], LAMBDA t : n < t)
  <2>1. [i \in DOMAIN timer_list |-> T!Due[i]] = d
    BY <1>2, <1>4, <1>d, <1>w
  <2>2. J = {i \in 1..Len(d) : n < d[i]}
    BY <1>5, <1>J
  <2>. QED  BY <1>a, <2>1, <2>2, SameOperators DEF T!SelectInSeq
<1>7. /\ timer_list' = T!InsertAt(list, IF at = 0 THEN l + 1 ELSE at, p)
      /\ expires' = IF at = 0 THEN [exp EXCEPT ![p] = n - g[(l + 1) - 1]]
                    ELSE T!FollowerShortened([exp EXCEPT ![p] = n - g[at - 1]], p, list[at])
  BY <1>2, <1>6, <1>l, <1>w DEF T!AddTimer
<1>8. CASE J = {}
  <2>1. at = 0 /\ (l + 1) - 1 = l /\ l \in 0..l
    BY <1>4, <1>8, <1>a
  <2>2. timer_list' = InsertAt(list, l + 1, p) /\ expires' = [exp EXCEPT ![p] = n - g[l]]
    BY <1>7, <2>1, SameOperators
  <2>3. g[l] <= n
    <3>1. CASE l = 0
      BY <1>4, <3>1, MaxSleepAssumption
    <3>2. CASE l # 0
      <4>1. l \in 1..l /\ l \in 0..l
        BY <1>4, <3>2
      <4>2. ~(n < g[l]) /\ g[l] \in Nat /\ n \in Nat
        BY <1>4, <1>5, <1>8, <1>J, <4>1, MaxSleepAssumption
      <4>. QED  BY <4>2
    <3>. QED  BY <3>1, <3>2
  <2>4. ~(l < l)
    BY <1>4
  <2>5. Added(list, exp, p, n, l, timer_list', expires')
    BY <1>2, <1>g, <1>l, <2>1, <2>2, <2>3, <2>4 DEF Added
  <2>. QED  BY <2>5, <1>w
<1>9. CASE J # {}
  <2>1. J \in SUBSET Nat
    BY <1>4, <1>J
  <2>2. at \in J /\ \A c \in J : at <= c
    BY <1>9, <1>a, <2>1, MinFacts
  <2>3. at \in 1..l /\ n < g[at]
    BY <1>5, <1>J, <2>2
  <2>k. PICK k : k = at - 1
    OBVIOUS
  <2>4. k \in 0..l /\ k + 1 = at /\ k # l /\ at # 0 /\ k \in Nat
    BY <1>4, <2>3, <2>k
  <2>5. /\ timer_list' = InsertAt(list, k + 1, p)
        /\ expires' = T!FollowerShortened([exp EXCEPT ![p] = n - g[k]], p, list[k + 1])
    BY <1>7, <2>4, <2>k, SameOperators
  <2>6. g[k] <= n
    <3>1. CASE k = 0
      BY <1>4, <3>1, MaxSleepAssumption
    <3>2. CASE k # 0
      <4>1. k \in 1..l /\ ~(at <= k)
        BY <1>4, <2>3, <2>4, <3>2
      <4>2. k \notin J
        BY <2>2, <4>1
      <4>3. ~(n < g[k]) /\ g[k] \in Nat /\ n \in Nat
        BY <1>4, <1>5, <1>J, <2>4, <4>1, <4>2, MaxSleepAssumption
      <4>. QED  BY <4>3
    <3>. QED  BY <3>1, <3>2
  <2>7. Added(list, exp, p, n, k, timer_list', expires')
    BY <1>2, <1>g, <1>l, <2>3, <2>4, <2>5, <2>6 DEF Added
  <2>. QED  BY <2>7, <1>w
<1>. QED  BY <1>8, <1>9

\* del_timer finds the timer where it stands.
LEMMA DelTimerDeletes ==
  ASSUME Sound(timer_list, expires), NEW p \in Proc, T!DelTimer(p)
  PROVE  \E k : Deleted(timer_list, expires, k, timer_list', expires') /\ timer_list[k] = p
<1>w. PICK list, exp : list = timer_list /\ exp = expires
  OBVIOUS
<1>1. list \in Seq(Proc) /\ IsInjective(list) /\ Len(list) \in Nat /\ DOMAIN list = 1..Len(list)
  BY <1>w, SoundNat
<1>2. p \in ToSet(list)
  BY <1>w, LinkedIs DEF T!DelTimer
<1>3. PICK k \in 1..Len(list) : list[k] = p
  BY <1>1, <1>2 DEF ToSet
<1>4. T!Place(p) = k
  <2>1. {i \in 1..Len(list) : list[i] = p} = {k}
    BY <1>1, <1>3 DEF IsInjective
  <2>2. Min({k}) = k
    BY DEF Min
  <2>. QED  BY <1>w, <2>1, <2>2, SameOperators DEF T!Place, T!SelectInSeq
<1>5. /\ timer_list' = RemoveAt(list, k)
      /\ expires' = [T!FollowerLengthened(k) EXCEPT ![list[k]] = 0]
  BY <1>3, <1>4, <1>w, SameOperators DEF T!DelTimer
<1>6. T!FollowerLengthened(k) =
        IF k = Len(list) THEN exp ELSE [exp EXCEPT ![list[k + 1]] = @ + exp[list[k]]]
  BY <1>w DEF T!FollowerLengthened
<1>7. Deleted(list, exp, k, timer_list', expires')
  BY <1>3, <1>5, <1>6 DEF Deleted
<1>. QED  BY <1>3, <1>7, <1>w

\* run_timer_list stops at the first timer that still runs.
LEMMA RunTimerListTicks ==
  ASSUME Sound(timer_list, expires), T!RunTimerList, timer_list # <<>>
  PROVE  \E n : /\ Ticked(timer_list, expires, n, timer_list', expires')
                /\ woken' = ToSet(SubSeq(timer_list, 1, n))
<1>w. PICK list, exp : list = timer_list /\ exp = expires
  OBVIOUS
<1>l. PICK l : l = Len(list)
  OBVIOUS
<1>e. PICK exp2 : exp2 = [exp EXCEPT ![list[1]] = @ - 1]
  OBVIOUS
<1>1. list \in Seq(Proc) /\ list # <<>> /\ l \in Nat \ {0} /\ Head(list) = list[1]
  BY <1>l, <1>w, SoundNat
<1>J. PICK J : J = {i \in 1..l : exp2[list[i]] # 0}
  OBVIOUS
<1>n. PICK n : n = IF J # {} THEN Min(J) - 1 ELSE l
  OBVIOUS
<1>2. /\ n \in 0..l
      /\ \A i \in 1..n : exp2[list[i]] = 0
      /\ n < l => exp2[list[n + 1]] # 0
      /\ J # {} => Min(J) # 0
  <2>1. CASE J = {}
    <3>1. n = l /\ ~(n < l) /\ n \in 0..l
      BY <1>1, <1>n, <2>1
    <3>2. \A i \in 1..l : exp2[list[i]] = 0
      BY <1>J, <2>1
    <3>. QED  BY <2>1, <3>1, <3>2
  <2>2. CASE J # {}
    <3>0. J \in SUBSET Nat
      BY <1>1, <1>J
    <3>1. Min(J) \in J /\ \A c \in J : Min(J) <= c
      BY <2>2, <3>0, MinFacts
    <3>m. PICK m : m = Min(J)
      OBVIOUS
    <3>2. m \in 1..l /\ exp2[list[m]] # 0 /\ n = m - 1 /\ \A c \in J : m <= c
      BY <1>J, <1>n, <2>2, <3>1, <3>m
    <3>3. n \in 0..l /\ n + 1 = m /\ m # 0 /\ \A i \in 1..n : i \in 1..l /\ ~(m <= i)
      BY <1>1, <3>2
    <3>4. \A i \in 1..n : exp2[list[i]] = 0
      BY <1>J, <3>2, <3>3
    <3>. QED  BY <3>2, <3>3, <3>4, <3>m
  <2>. QED  BY <2>1, <2>2
<1>3. T!RunOut(exp2) = n
  <2>1. T!SelectInSeq(timer_list, LAMBDA p : exp2[p] # 0) = IF J # {} THEN Min(J) ELSE 0
    BY <1>J, <1>l, <1>w, SameOperators DEF T!SelectInSeq
  <2>. QED  BY <1>2, <1>l, <1>n, <1>w, <2>1 DEF T!RunOut
<1>4. /\ woken' = ToSet(SubSeq(list, 1, n))
      /\ timer_list' = SubSeq(list, n + 1, Len(list))
      /\ expires' = exp2
  BY <1>1, <1>3, <1>e, <1>w, SameOperators DEF T!RunTimerList
<1>5. Ticked(list, exp, n, timer_list', expires')
  BY <1>1, <1>2, <1>4, <1>e, <1>l DEF Ticked
<1>. QED  BY <1>4, <1>5, <1>w

-----------------------------------------------------------------------------
(* The threads over the timer list. *)

LEMMA TimersInit == TimedInit => TimersOK /\ T!Promised!Init
<1>. SUFFICES ASSUME TimedInit PROVE TimersOK /\ T!Promised!Init
  OBVIOUS
<1>1. /\ timer_list = <<>> /\ expires = [p \in Proc |-> 0] /\ woken = {} /\ timers = {}
  BY DEF TimedInit, Init, T!Init
<1>2. T!Linked = {}
  BY <1>1, LinkedIs, EmptyFacts
<1>3. Sound(timer_list, expires)
  <2>1. timer_list \in Seq(Proc) /\ IsInjective(timer_list) /\ Len(timer_list) = 0
    BY <1>1, EmptyFacts
  <2>2. expires \in [Proc -> 0..MaxSleep]
    BY <1>1, MaxSleepAssumption
  <2>. QED  BY <2>1, <2>2 DEF Sound
<1>4. T!Left = [p \in Proc |-> 0]
  BY <1>2 DEF T!Left
<1>. QED  BY <1>1, <1>2, <1>3, <1>4 DEF TimersOK, T!Promised!Init

LEMMA SleepForTimers ==
  ASSUME TimersOK, NEW p \in Proc, NEW n \in 1..MaxSleep, SleepFor(p, n)
  PROVE  TimersOK' /\ T!Promised!Next
<1>1. PICK k : Added(timer_list, expires, p, n, k, timer_list', expires')
  BY AddTimerAdds DEF TimersOK, SleepFor
<1>2. AddedOK(timer_list, expires, p, n, timer_list', expires')
  BY <1>1, AddedFacts DEF TimersOK
<1>3. timers' = timers \cup {p} /\ woken' = woken
  BY DEF SleepFor, Sleep, T!AddTimer
<1>4. T!Promised!Start(p, n)
  BY <1>2, <1>3, LeftIs DEF AddedOK, T!Promised!Start
<1>5. TimersOK'
  BY <1>2, <1>3, LinkedIs DEF AddedOK, TimersOK
<1>. QED  BY <1>4, <1>5 DEF T!Promised!Next

LEMMA SleepOverTimers ==
  ASSUME TimersOK, NEW p \in Proc, SleepOver(p)
  PROVE  TimersOK' /\ [T!Promised!Next]_<<T!Left, woken>>
<1>1. timers' = timers \ {p}
  BY DEF SleepOver, SleepReturn, TimerDeleted
<1>2. CASE p \in T!Linked
  <2>1. T!DelTimer(p)
    BY <1>2 DEF SleepOver
  <2>2. PICK k : Deleted(timer_list, expires, k, timer_list', expires') /\ timer_list[k] = p
    BY <2>1, DelTimerDeletes DEF TimersOK
  <2>3. DeletedOK(timer_list, expires, p, timer_list', expires')
    BY <2>2, DeletedFacts DEF TimersOK
  <2>4. woken' = woken
    BY <2>1 DEF T!DelTimer
  <2>5. T!Promised!Cancel(p)
    BY <2>3, <2>4, LeftIs DEF DeletedOK, T!Promised!Cancel
  <2>6. TimersOK'
    BY <1>1, <2>3, <2>4, LinkedIs DEF DeletedOK, TimersOK
  <2>. QED  BY <2>5, <2>6 DEF T!Promised!Next
<1>3. CASE p \notin T!Linked
  <2>1. UNCHANGED timerVars
    BY <1>3 DEF SleepOver
  <2>2. timer_list' = timer_list /\ expires' = expires /\ woken' = woken
    BY <2>1 DEF timerVars
  <2>3. timers' = timers
    BY <1>1, <1>3 DEF TimersOK
  <2>4. T!Left' = T!Left
    BY <2>2, LeftIs
  <2>5. TimersOK'
    BY <2>2, <2>3, LinkedIs DEF TimersOK
  <2>. QED  BY <2>2, <2>4, <2>5
<1>. QED  BY <1>2, <1>3

LEMMA TimerTickTimers ==
  ASSUME TimersOK, TimerTick
  PROVE  TimersOK' /\ T!Promised!Next /\ woken' \subseteq timers
<1>1. T!RunTimerList /\ timers' = timers \ woken'
  BY DEF TimerTick, TimerIRQ
<1>2. TickedOK(timer_list, expires, timer_list', expires', woken')
  <2>1. CASE timer_list = <<>>
    <3>1. timer_list' = timer_list /\ expires' = expires /\ woken' = {}
      BY <1>1, <2>1 DEF T!RunTimerList
    <3>2. ToSet(timer_list) = {}
      BY <2>1, EmptyFacts
    <3>a. PICK a : a = LeftIn(timer_list, expires)
      OBVIOUS
    <3>3. a = [p \in Proc |-> 0]
      BY <3>2, <3>a DEF LeftIn
    <3>4. a = [p \in Proc |-> IF a[p] = 0 THEN 0 ELSE a[p] - 1]
      BY <3>3
    <3>5. {p \in Proc : a[p] = 1} = {}
      BY <3>3
    <3>. QED  BY <3>1, <3>2, <3>4, <3>5, <3>a DEF TickedOK, TimersOK
  <2>2. CASE timer_list # <<>>
    <3>1. PICK n : /\ Ticked(timer_list, expires, n, timer_list', expires')
                   /\ woken' = ToSet(SubSeq(timer_list, 1, n))
      BY <1>1, <2>2, RunTimerListTicks DEF TimersOK
    <3>2. TickedOK(timer_list, expires, timer_list', expires', ToSet(SubSeq(timer_list, 1, n)))
      BY <3>1, TickedFacts DEF TimersOK
    <3>. QED  BY <3>1, <3>2
  <2>. QED  BY <2>1, <2>2
<1>3. T!Promised!Tick
  BY <1>2, LeftIs DEF TickedOK, T!Promised!Tick
<1>4. woken' \subseteq timers
  BY <1>2, LinkedIs DEF TickedOK, TimersOK
<1>5. TimersOK'
  <2>1. woken' \subseteq Proc
    BY <1>2 DEF TickedOK
  <2>2. T!Linked' = timers'
    BY <1>1, <1>2, LinkedIs DEF TickedOK, TimersOK
  <2>. QED  BY <1>2, <2>1, <2>2 DEF TickedOK, TimersOK
<1>. QED  BY <1>3, <1>4, <1>5 DEF T!Promised!Next

LEMMA UnchangedTimers ==
  ASSUME TimersOK, UNCHANGED timerVars, timers' = timers
  PROVE  TimersOK' /\ UNCHANGED <<T!Left, woken>>
<1>1. timer_list' = timer_list /\ expires' = expires /\ woken' = woken
  BY DEF timerVars
<1>2. T!Left' = T!Left
  BY <1>1, LeftIs
<1>3. TimersOK'
  BY <1>1, LinkedIs DEF TimersOK
<1>. QED  BY <1>1, <1>2, <1>3

\* Every step keeps the list sound, is a step of the promised timers or none they see,
\* and is a step of the threads.
LEMMA TimedStep ==
  ASSUME TimersOK, [TimedNext]_timedVars
  PROVE  TimersOK' /\ [T!Promised!Next]_<<T!Left, woken>> /\ [Next]_vars
<1>1. ASSUME NEW p \in Proc, SleepOver(p)
      PROVE  TimersOK' /\ [T!Promised!Next]_<<T!Left, woken>> /\ [Next]_vars
  <2>1. Next
    BY <1>1 DEF SleepOver, Next, Step
  <2>. QED  BY <1>1, <2>1, SleepOverTimers
<1>2. ASSUME NEW p \in Proc, NEW n \in 1..MaxSleep, SleepFor(p, n)
      PROVE  TimersOK' /\ [T!Promised!Next]_<<T!Left, woken>> /\ [Next]_vars
  <2>1. Next
    BY <1>2 DEF SleepFor, Next, Step
  <2>. QED  BY <1>2, <2>1, SleepForTimers
<1>3. CASE TimerTick
  <2>1. woken' \subseteq timers /\ TimerIRQ(woken')
    BY <1>3, TimerTickTimers DEF TimerTick
  <2>2. Next
    BY <2>1 DEF Next, Tick
  <2>. QED  BY <1>3, <2>2, TimerTickTimers
<1>4. ASSUME NEW p \in Proc, WakefulStep(p), UNCHANGED timerVars
      PROVE  TimersOK' /\ [T!Promised!Next]_<<T!Left, woken>> /\ [Next]_vars
  <2>1. timers' = timers
    BY <1>4 DEF WakefulStep, Syscall, DownFast, DownBlock, UpFree, UpHandOff, DownReturn, Kill,
                Yield, TrapReturn, Exit, SwitchTo, threadVars
  <2>2. Next
    BY <1>4 DEF Next, Step
  <2>. QED  BY <1>4, <2>1, <2>2, UnchangedTimers
<1>5. CASE UNCHANGED timedVars
  <2>1. UNCHANGED vars /\ UNCHANGED timerVars /\ timers' = timers
    BY <1>5 DEF timedVars, vars, threadVars
  <2>. QED  BY <2>1, UnchangedTimers
<1>. QED  BY <1>1, <1>2, <1>3, <1>4, <1>5 DEF TimedNext

LEMMA TimersSound == TimedSpec => []TimersOK
<1>1. TimedInit => TimersOK
  BY TimersInit
<1>2. TimersOK /\ [TimedNext]_timedVars => TimersOK'
  BY TimedStep
<1>. QED  BY <1>1, <1>2, PTL DEF TimedSpec

(* sched.c under do_sleep: with the timer list that counts ticks the
   threads are still the threads of KernelThreads, whose timers run out whenever they
   like: so all that is proved of those holds of these. *)
THEOREM TimedThreadsAreThreads == TimedSpec => Spec
<1>1. TimedInit => Init
  BY DEF TimedInit
<1>2. TimersOK /\ [TimedNext]_timedVars => [Next]_vars
  BY TimedStep
<1>. QED  BY <1>1, <1>2, TimersSound, PTL DEF TimedSpec, Spec

(* Every sleeper is woken by exactly the tick it asked for, for any number of threads
   and ticks: whoever sleeps in front of it, joins at the same tick or is killed in its
   sleep, the differences in the list of sched.c still add up.  The assertion of
   run_timer_list never fails and a timer is linked just while do_sleep has it on its
   stack. *)
THEOREM TimersImplemented == TimedSpec => ImplementsTimers
<1>1. TimedInit => T!Promised!Init
  BY TimersInit
<1>2. TimersOK /\ [TimedNext]_timedVars => [T!Promised!Next]_<<T!Left, woken>>
  BY TimedStep
<1>3. TimersOK => TimerListInv
  <2>. SUFFICES ASSUME TimersOK PROVE TimerListInv
    OBVIOUS
  <2>1. T!TypeOK
    BY DEF TimersOK, Sound, T!TypeOK
  <2>2. T!HeadRunning
    <3>. SUFFICES ASSUME timer_list # <<>> PROVE expires[Head(timer_list)] # 0
      BY DEF T!HeadRunning
    <3>w. PICK list, exp : list = timer_list /\ exp = expires
      OBVIOUS
    <3>1. list \in Seq(Proc) /\ exp \in [Proc -> Nat] /\ Sound(list, exp)
      BY <3>w, SoundNat DEF TimersOK
    <3>2. 1 \in 1..Len(list) /\ Head(list) = list[1] /\ list[1] \in Proc
      BY <3>1, <3>w
    <3>g. PICK g : g = T!DueIn(list, exp)
      OBVIOUS
    <3>3. Sums(list, exp, g)
      BY <3>1, <3>g, DueFacts
    <3>4. g[0] = 0 /\ g[1] = g[1 - 1] + exp[list[1]] /\ 1 - 1 = 0
      BY <3>2, <3>3 DEF Sums
    <3>5. g[1] \in 1..MaxSleep
      BY <3>1, <3>2, <3>g DEF Sound
    <3>6. exp[list[1]] \in Nat
      BY <3>1, <3>2
    <3>. QED  BY <3>2, <3>4, <3>5, <3>6, <3>w, MaxSleepAssumption
  <2>. QED  BY <2>1, <2>2 DEF TimerListInv, TimersOK
<1>4. TimedSpec => T!ImplementsTimers
  BY <1>1, <1>2, TimersSound, PTL DEF TimedSpec, T!ImplementsTimers, T!Promised!Spec
<1>5. TimedSpec => []TimerListInv
  BY <1>3, TimersSound, PTL
<1>. QED  BY <1>4, <1>5 DEF ImplementsTimers
=============================================================================
