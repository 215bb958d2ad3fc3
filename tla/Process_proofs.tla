--------------------------- MODULE Process_proofs ---------------------------
(* Proofs about kern/process/proc.c, for every set of slots: that the process table is
   sound between any two steps, that no exit goes unnoticed, that only a parent frees a
   process and that init_main ends with an empty table; and that get_pid keeps PidInv
   and ends its walk, for every MAX_PID and every number of processes below it. *)
EXTENDS Process, GetPid, QueueLemmas

-----------------------------------------------------------------------------
(* The process table. *)

\* What the point a process is at says of its state and of who has the CPU.
PointOK(p) ==
  /\ pc[p] = "unused" <=> p \notin live
  /\ pc[p] = "idle" <=> p = idle
  /\ pc[p] \in {"exit_zombie", "exit_sched", "dead"} <=> state[p] = "ZOMBIE"
  /\ pc[p] = "wait_sched" => state[p] = "SLEEPING"
  /\ state[p] = "SLEEPING" => pc[p] \in {"wait_sched", "wait_back"}
  /\ p = current => pc[p] \notin {"unused", "dead"}
  /\ p = current /\ pc[p] = "wait_back" => state[p] = "RUNNABLE"
  /\ p # current => pc[p] \in {"unused", "user", "wait_scan", "wait_back", "dead",
                              "idle", "init_fork"}

\* init runs init_main and nothing else does; it never exits.
RootsOK ==
  /\ {idle, init} \subseteq live /\ parent[idle] = idle
  /\ \A p \in Proc : pc[p] \in {"init_fork", "init_sched", "init_done", "panic"} => p = init
  /\ pc[init] \in {"init_fork", "init_sched", "init_done", "panic", "wait_scan",
                   "wait_sched", "wait_back"}

\* do_wait is the only place to sleep at.
Reasons == \A p \in Proc : wait_state[p] \in {"NONE", "CHILD"}

\* One who sleeps in do_wait has a child to wait for, and the only exited one can be
\* the process that is about to tell it so in do_exit.
SleeperOK(p) ==
  state[p] = "SLEEPING" =>
    /\ Awaited(p) # {}
    /\ \A c \in Awaited(p) : state[c] = "ZOMBIE" => pc[c] = "exit_zombie"

ProcIInv ==
  /\ TableInv
  /\ RootsOK
  /\ Reasons
  /\ \A p \in Proc : PointOK(p) /\ SleeperOK(p)

LEMMA InitHolds == Init => ProcIInv
<1>. SUFFICES ASSUME Init PROVE ProcIInv
  OBVIOUS
<1>. USE ProcAssumption, ProcessAssumption DEF Init
<1>. PICK s : s = <<init>>
  OBVIOUS
<1>1. s \in Seq(Proc) /\ ToSet(s) = {init} /\ IsInjective(s)
  BY DEF ToSet, IsInjective
<1>2. /\ kids \in [Proc -> Seq(Proc)]
      /\ \A p \in Proc : Children(p) = IF p = idle THEN {init} ELSE {}
      /\ \A p \in Proc : IsInjective(kids[p])
  <2>1. /\ kids = [p \in Proc |-> IF p = idle THEN s ELSE <<>>]
        /\ <<>> \in Seq(Proc)
    OBVIOUS
  <2>. HIDE DEF Init
  <2>2. kids \in [Proc -> Seq(Proc)]
    BY <1>1, <2>1
  <2>3. \A p \in Proc : kids[p] = IF p = idle THEN s ELSE <<>>
    BY <2>1
  <2>. QED  BY <1>1, <2>2, <2>3, EmptyFacts DEF Children
<1>3. TypeOK
  BY <1>2 DEF TypeOK, SchedTypeOK, ProcState, WaitState, PC
<1>4. RunQueueExact
  BY DEF RunQueueExact
<1>5. TreeWhole
  BY <1>2 DEF TreeWhole
<1>6. NoDeadParent
  BY DEF NoDeadParent
<1>7. RootsOK /\ Reasons
  BY DEF RootsOK, Reasons
<1>8. \A p \in Proc : PointOK(p) /\ SleeperOK(p)
  BY DEF PointOK, SleeperOK
<1>. QED  BY <1>3, <1>4, <1>5, <1>6, <1>7, <1>8 DEF ProcIInv, TableInv

(* The tree and the table stay sound when the running process moves on in its
   code and leaves states, table and tree alone. *)
LEMMA PointStep ==
  ASSUME ProcIInv, NEW p \in Proc, p = current, NEW point \in PC,
         Goto(p, point) \/ UNCHANGED pc,
         UNCHANGED <<state, wait_state, current, rq, live, parent, kids>>,
         need_resched' \in [Proc -> BOOLEAN], exiting' \subseteq Proc,
         waitpid' \in [Proc -> Proc \cup {AnyChild}],
         \A q \in Proc \ {p} : waitpid'[q] = waitpid[q],
         state[p] = "RUNNABLE",
         point \notin {"unused", "exit_zombie", "exit_sched", "dead", "wait_sched"},
         point = "idle" <=> p = idle,
         point \in {"init_fork", "init_sched", "init_done", "panic"} => p = init,
         p = init => point \in {"init_fork", "init_sched", "init_done", "panic",
                                "wait_scan", "wait_sched", "wait_back"}
  PROVE  ProcIInv'
<1>. USE DEF ProcIInv, TableInv, Goto
<1>1. TypeOK'
  <2>. USE DEF TypeOK
  <2>1. SchedTypeOK'
    BY DEF SchedTypeOK
  <2>2. pc' \in [Proc -> PC]
    <3>1. pc \in [Proc -> PC]
      OBVIOUS
    <3>. QED  BY <3>1
  <2>3. /\ \A x \in Proc : (wait_state'[x] = "CHILD") = (state'[x] = "SLEEPING")
        /\ \A x \in Proc : (x \in live') = (state'[x] # "UNINIT")
    BY Zenon
  <2>4. live' \subseteq Proc /\ parent' \in [Proc -> Proc] /\ kids' \in [Proc -> Seq(Proc)]
    OBVIOUS
  <2>. QED  BY <2>1, <2>2, <2>3, <2>4, Zenon
<1>2. RunQueueExact'
  BY DEF RunQueueExact
<1>3. TreeWhole'
  BY DEF TreeWhole, Children
<1>4. \A q \in Proc : pc'[q] = pc[q] \/ (q = p /\ pc'[q] = point)
  BY DEF TypeOK
<1>5. NoDeadParent'
  <2>. SUFFICES ASSUME NEW q \in live \ {idle}, state[parent[q]] = "ZOMBIE"
                PROVE  pc'[parent[q]] = "exit_zombie"
    BY DEF NoDeadParent
  <2>1. parent[q] \in Proc /\ parent[q] # p
    BY DEF TypeOK
  <2>. QED  BY <1>4, <2>1 DEF NoDeadParent
<1>6. RootsOK' /\ Reasons'
  BY <1>4, ProcessAssumption DEF RootsOK, Reasons
<1>7. ASSUME NEW q \in Proc PROVE PointOK(q)'
  BY <1>4 DEF PointOK
<1>8. ASSUME NEW q \in Proc PROVE SleeperOK(q)'
  <2>. SUFFICES ASSUME state[q] = "SLEEPING"
                PROVE  /\ Awaited(q)' # {}
                       /\ \A c \in Awaited(q)' : state[c] = "ZOMBIE" => pc'[c] = "exit_zombie"
    BY DEF SleeperOK
  <2>1. Awaited(q)' = Awaited(q)
    BY DEF Awaited
  <2>2. Awaited(q) \subseteq Proc
    BY DEF Awaited, TypeOK
  <2>. QED  BY <1>4, <2>1, <2>2 DEF SleeperOK
<1>. QED  BY <1>1, <1>2, <1>3, <1>5, <1>6, <1>7, <1>8

(* do_exit and do_kill wake only sleepers that have left the CPU. *)
LEMMA WakeFacts ==
  ASSUME ProcIInv, NEW S \in SUBSET Proc, \A q \in S : wait_state[q] = "CHILD",
         state[current] # "SLEEPING", WakeupAll(S), UNCHANGED current
  PROVE  /\ state' \in [Proc -> ProcState] /\ wait_state' \in [Proc -> WaitState]
         /\ rq' \subseteq Proc
         /\ \A q \in Proc : /\ state'[q] = IF q \in S THEN "RUNNABLE" ELSE state[q]
                            /\ wait_state'[q] = IF q \in S THEN "NONE" ELSE wait_state[q]
         /\ \A q \in S : /\ state[q] = "SLEEPING" /\ pc[q] = "wait_back"
                         /\ q # current /\ q # idle
         /\ RunQueueExact'
         /\ Reasons'
<1>. USE DEF ProcIInv, TableInv
<1>1. \A q \in S : state[q] = "SLEEPING" /\ q # current
  BY DEF TypeOK
<1>2. \A q \in S : pc[q] = "wait_back" /\ q # idle
  BY <1>1 DEF PointOK
<1>3. /\ state' \in [Proc -> ProcState] /\ wait_state' \in [Proc -> WaitState]
      /\ rq' = rq \cup S
      /\ \A q \in Proc : /\ state'[q] = IF q \in S THEN "RUNNABLE" ELSE state[q]
                         /\ wait_state'[q] = IF q \in S THEN "NONE" ELSE wait_state[q]
  BY <1>1, <1>2 DEF WakeupAll, TypeOK, SchedTypeOK, ProcState, WaitState
<1>4. RunQueueExact' /\ rq' \subseteq Proc
  BY <1>1, <1>2, <1>3 DEF RunQueueExact, TypeOK, SchedTypeOK
<1>5. Reasons'
  BY <1>3 DEF Reasons
<1>. QED  BY <1>1, <1>2, <1>3, <1>4, <1>5

(* The types, after the sleepers S have been woken. *)
LEMMA WokenTypeOK ==
  ASSUME TypeOK, NEW S \in SUBSET Proc,
         \A q \in S : state[q] = "SLEEPING",
         \A q \in Proc : /\ state'[q] = IF q \in S THEN "RUNNABLE" ELSE state[q]
                        /\ wait_state'[q] = IF q \in S THEN "NONE" ELSE wait_state[q],
         UNCHANGED live
  PROVE  /\ \A q \in Proc : (wait_state'[q] = "CHILD") = (state'[q] = "SLEEPING")
         /\ \A q \in Proc : (q \in live') = (state'[q] # "UNINIT")
<1>1. ASSUME NEW q \in Proc
      PROVE  /\ wait_state[q] = "CHILD" <=> state[q] = "SLEEPING"
             /\ q \in live <=> state[q] # "UNINIT"
  BY DEF TypeOK
<1>2. ASSUME NEW q \in Proc
      PROVE  /\ wait_state'[q] = "CHILD" <=> state'[q] = "SLEEPING"
             /\ q \in live' <=> state'[q] # "UNINIT"
  BY <1>1
<1>. QED  BY <1>2

LEMMA KillKeeps ==
  ASSUME ProcIInv, NEW p \in Proc, NEW q \in Proc, Kill(p, q)
  PROVE  ProcIInv'
<1>. DEFINE S == {x \in {q} : wait_state[x] \in Interruptible}
<1>. USE DEF ProcIInv, TableInv
<1>1. /\ p = current /\ pc[p] = "user" /\ state[p] = "RUNNABLE" /\ p # idle /\ p # init
      /\ WakeupAll(S) /\ UNCHANGED <<current, need_resched, live, parent, kids, waitpid>>
      /\ pc' = [pc EXCEPT ![p] = "trap"]
      /\ exiting' = exiting \cup {q}
  <2>1. p = current /\ pc[p] = "user" /\ p # idle /\ p # init
    BY DEF Kill, At, PointOK, RootsOK
  <2>2. state[p] = "RUNNABLE"
    BY <2>1 DEF PointOK, TypeOK, SchedTypeOK, ProcState
  <2>. QED  BY <2>1, <2>2 DEF Kill, Goto
<1>2. S \in SUBSET Proc /\ \A x \in S : wait_state[x] = "CHILD"
  BY DEF Interruptible, Reasons
<1>. HIDE DEF S
<1>3. /\ state' \in [Proc -> ProcState] /\ wait_state' \in [Proc -> WaitState]
      /\ rq' \subseteq Proc
      /\ \A x \in Proc : /\ state'[x] = IF x \in S THEN "RUNNABLE" ELSE state[x]
                         /\ wait_state'[x] = IF x \in S THEN "NONE" ELSE wait_state[x]
      /\ \A x \in S : /\ state[x] = "SLEEPING" /\ pc[x] = "wait_back"
                      /\ x # current /\ x # idle
      /\ RunQueueExact' /\ Reasons'
  BY <1>1, <1>2, WakeFacts
<1>4. pc' \in [Proc -> PC] /\ \A x \in Proc : pc'[x] = IF x = p THEN "trap" ELSE pc[x]
  BY <1>1 DEF TypeOK, PC
<1>5. TypeOK'
  <2>1. SchedTypeOK'
    BY <1>1, <1>3 DEF TypeOK, SchedTypeOK
  <2>2. /\ \A x \in Proc : (wait_state'[x] = "CHILD") = (state'[x] = "SLEEPING")
        /\ \A x \in Proc : (x \in live') = (state'[x] # "UNINIT")
    BY <1>1, <1>2, <1>3, WokenTypeOK
  <2>3. /\ live' \subseteq Proc /\ parent' \in [Proc -> Proc] /\ kids' \in [Proc -> Seq(Proc)]
        /\ exiting' \subseteq Proc /\ waitpid' \in [Proc -> Proc \cup {AnyChild}]
    BY <1>1 DEF TypeOK
  <2>. QED  BY <1>4, <2>1, <2>2, <2>3, Zenon DEF TypeOK
<1>6. TreeWhole'
  BY <1>1 DEF TreeWhole, Children
<1>7. NoDeadParent'
  <2>. SUFFICES ASSUME NEW x \in live \ {idle}, state'[parent[x]] = "ZOMBIE"
                PROVE  pc'[parent[x]] = "exit_zombie"
    BY <1>1 DEF NoDeadParent
  <2>1. parent[x] \in Proc
    BY DEF TypeOK
  <2>. QED  BY <1>1, <1>3, <1>4, <2>1 DEF NoDeadParent
<1>8. RootsOK'
  BY <1>1, <1>4, ProcessAssumption DEF RootsOK
<1>9. ASSUME NEW x \in Proc PROVE PointOK(x)'
  BY <1>1, <1>3, <1>4 DEF PointOK
<1>10. ASSUME NEW x \in Proc PROVE SleeperOK(x)'
  <2>. SUFFICES ASSUME state'[x] = "SLEEPING"
                PROVE  /\ Awaited(x)' # {}
                       /\ \A c \in Awaited(x)' : state'[c] = "ZOMBIE" => pc'[c] = "exit_zombie"
    BY DEF SleeperOK
  <2>1. Awaited(x)' = Awaited(x) /\ state[x] = "SLEEPING"
    BY <1>1, <1>3 DEF Awaited
  <2>2. Awaited(x) \subseteq Proc
    BY DEF Awaited, TypeOK
  <2>. QED  BY <1>1, <1>3, <1>4, <2>1, <2>2 DEF SleeperOK
<1>. QED  BY <1>3, <1>5, <1>6, <1>7, <1>8, <1>9, <1>10

(* A new process stands in front of its brothers in the list of its father. *)
LEMMA ForkKeeps ==
  ASSUME ProcIInv, NEW p \in Proc, NEW c \in Proc, Fork(p, c)
  PROVE  ProcIInv'
<1>. USE DEF ProcIInv, TableInv
<1>. DEFINE point == IF p = init THEN "wait_scan" ELSE "trap"
<1>1. /\ p = current /\ pc[p] \in {"user", "init_fork"} /\ p # idle
      /\ (pc[p] = "init_fork" <=> p = init)
      /\ c \notin live /\ live' = live \cup {c}
      /\ parent' = [parent EXCEPT ![c] = p]
      /\ kids' = [kids EXCEPT ![p] = Cons(c, @)]
      /\ pc' = [pc EXCEPT ![c] = "user", ![p] = point]
      /\ WakeupAll({c})
      /\ UNCHANGED <<current, need_resched, exiting, waitpid>>
  BY DEF Fork, At, PointOK, RootsOK
<1>. HIDE DEF point
<1>2. point \in {"wait_scan", "trap"} /\ (point = "wait_scan" <=> p = init)
  BY DEF point
<1>3. /\ p \in live /\ state[p] = "RUNNABLE" /\ c # p /\ c # idle /\ c # init
      /\ state[c] = "UNINIT" /\ pc[c] = "unused"
  BY <1>1, ProcessAssumption DEF PointOK, RootsOK, TypeOK, SchedTypeOK, ProcState
<1>4. /\ state' \in [Proc -> ProcState] /\ wait_state' \in [Proc -> WaitState]
      /\ \A q \in Proc : /\ state'[q] = IF q = c THEN "RUNNABLE" ELSE state[q]
                         /\ wait_state'[q] = IF q = c THEN "NONE" ELSE wait_state[q]
      /\ rq' = rq \cup {c}
  BY <1>1, <1>3 DEF WakeupAll, TypeOK, SchedTypeOK, ProcState, WaitState
<1>5. pc' \in [Proc -> PC]
      /\ \A q \in Proc : pc'[q] = IF q = p THEN point ELSE IF q = c THEN "user" ELSE pc[q]
  BY <1>1, <1>2, <1>3 DEF TypeOK, PC
<1>6. /\ parent' \in [Proc -> Proc]
      /\ \A q \in Proc : parent'[q] = IF q = c THEN p ELSE parent[q]
  BY <1>1 DEF TypeOK
<1>7. /\ kids[p] \in Seq(Proc)
      /\ Cons(c, kids[p]) \in Seq(Proc)
      /\ ToSet(Cons(c, kids[p])) = ToSet(kids[p]) \cup {c}
      /\ IsInjective(kids[p]) /\ c \notin ToSet(kids[p]) => IsInjective(Cons(c, kids[p]))
  <2>1. kids[p] \in Seq(Proc)
    BY DEF TypeOK
  <2>. QED  BY <2>1, ConsFacts, ZenonT(60)
<1>8. kids' \in [Proc -> Seq(Proc)]
      /\ \A q \in Proc : kids'[q] = IF q = p THEN Cons(c, kids[p]) ELSE kids[q]
  BY <1>1, <1>7 DEF TypeOK
<1>9. \A q \in Proc : Children(q)' = IF q = p THEN Children(p) \cup {c} ELSE Children(q)
  BY <1>7, <1>8 DEF Children
<1>10. \A q \in Proc : c \notin Children(q)
  BY <1>1 DEF TreeWhole
<1>11. TypeOK'
  <2>1. ASSUME NEW q \in Proc
        PROVE  /\ wait_state[q] = "CHILD" <=> state[q] = "SLEEPING"
               /\ q \in live <=> state[q] # "UNINIT"
    BY DEF TypeOK
  <2>2. ASSUME NEW q \in Proc
        PROVE  /\ wait_state'[q] = "CHILD" <=> state'[q] = "SLEEPING"
               /\ q \in live' <=> state'[q] # "UNINIT"
    BY <1>1, <1>4, <2>1
  <2>3. SchedTypeOK'
    BY <1>1, <1>4 DEF TypeOK, SchedTypeOK
  <2>4. /\ \A q \in Proc : (wait_state'[q] = "CHILD") = (state'[q] = "SLEEPING")
        /\ \A q \in Proc : (q \in live') = (state'[q] # "UNINIT")
    BY <2>2
  <2>5. /\ live' \subseteq Proc /\ exiting' \subseteq Proc
        /\ waitpid' \in [Proc -> Proc \cup {AnyChild}]
    BY <1>1 DEF TypeOK
  <2>. QED  BY <1>5, <1>6, <1>8, <2>3, <2>4, <2>5, Zenon DEF TypeOK
<1>12. RunQueueExact'
  BY <1>1, <1>3, <1>4 DEF RunQueueExact, TypeOK, SchedTypeOK
<1>13. TreeWhole'
  <2>1. ASSUME NEW q \in live' \ {idle}
        PROVE  parent'[q] \in live' /\ q \in Children(parent[q])'
    <3>1. CASE q = c
      BY <1>1, <1>3, <1>6, <1>9, <3>1
    <3>2. CASE q # c
      <4>1. q \in live \ {idle} /\ parent'[q] = parent[q] /\ parent[q] \in Proc
        BY <1>1, <1>6, <3>2 DEF TypeOK
      <4>. QED  BY <1>1, <1>9, <4>1 DEF TreeWhole
    <3>. QED  BY <3>1, <3>2
  <2>2. ASSUME NEW q \in Proc PROVE IsInjective(kids'[q])
    BY <1>7, <1>8, <1>10 DEF TreeWhole, Children
  <2>3. ASSUME NEW q \in Proc, NEW d \in Children(q)'
        PROVE  d \in live' /\ parent'[d] = q
    <3>1. CASE d = c
      BY <1>1, <1>3, <1>6, <1>9, <1>10, <3>1
    <3>2. CASE d # c
      <4>1. d \in Children(q)
        BY <1>9, <3>2
      <4>2. d \in live /\ parent[d] = q /\ d \in Proc
        BY <4>1 DEF TreeWhole, TypeOK
      <4>. QED  BY <1>1, <1>6, <3>2, <4>2
    <3>. QED  BY <3>1, <3>2
  <2>4. ASSUME NEW q \in Proc, q \notin live' PROVE kids'[q] = <<>>
    BY <1>1, <1>3, <1>8, <2>4 DEF TreeWhole
  <2>. QED  BY <2>1, <2>2, <2>3, <2>4 DEF TreeWhole
<1>14. NoDeadParent'
  <2>. SUFFICES ASSUME NEW q \in live' \ {idle}, state'[parent'[q]] = "ZOMBIE"
                PROVE  pc'[parent'[q]] = "exit_zombie"
    BY DEF NoDeadParent
  <2>1. q # c /\ q \in live \ {idle} /\ parent'[q] = parent[q] /\ parent[q] \in Proc
    BY <1>1, <1>3, <1>4, <1>6 DEF TypeOK
  <2>. QED  BY <1>3, <1>4, <1>5, <2>1 DEF NoDeadParent
<1>15. RootsOK'
  BY <1>1, <1>2, <1>3, <1>5, <1>6, ProcessAssumption, ProcAssumption DEF RootsOK
<1>16. Reasons'
  BY <1>4 DEF Reasons
<1>17. ASSUME NEW q \in Proc PROVE PointOK(q)'
  BY <1>1, <1>2, <1>3, <1>4, <1>5 DEF PointOK
<1>18. ASSUME NEW q \in Proc PROVE SleeperOK(q)'
  <2>. SUFFICES ASSUME state'[q] = "SLEEPING"
                PROVE  /\ Awaited(q)' # {}
                       /\ \A d \in Awaited(q)' : state'[d] = "ZOMBIE" => pc'[d] = "exit_zombie"
    BY DEF SleeperOK
  <2>1. state[q] = "SLEEPING" /\ q # p /\ q # c
    BY <1>3, <1>4
  <2>2. Awaited(q) \subseteq live /\ live \subseteq Proc
    BY DEF Awaited, TypeOK
  <2>3. Awaited(q)' = Awaited(q)
    BY <1>1, <1>6, <2>1, <2>2 DEF Awaited
  <2>. QED  BY <1>1, <1>3, <1>4, <1>5, <2>1, <2>2, <2>3 DEF SleeperOK
<1>. QED  BY <1>11, <1>12, <1>13, <1>14, <1>15, <1>16, <1>17, <1>18

(* A process that is reaped has given its children away when it exited, so taking it
   out of its father's list leaves nobody without a father. *)
LEMMA ReapFacts ==
  ASSUME ProcIInv, NEW p \in Proc, NEW z \in Proc, WaitReap(p, z)
  PROVE  /\ p = current /\ pc[p] = "wait_scan" /\ state[p] = "RUNNABLE" /\ p \in live
         /\ z \in live /\ parent[z] = p /\ state[z] = "ZOMBIE" /\ pc[z] = "dead"
         /\ z # p /\ z # idle /\ z # init /\ p # idle
         /\ z \in Children(p) /\ kids[z] = <<>>
         /\ \A q \in live \ {idle} : parent[q] # z
<1>. USE DEF ProcIInv, TableInv
<1>1. /\ p = current /\ pc[p] = "wait_scan"
      /\ z \in live /\ parent[z] = p /\ state[z] = "ZOMBIE"
  BY DEF WaitReap, At, Awaited
<1>2. state[p] = "RUNNABLE" /\ p \in live /\ p # idle
  BY <1>1 DEF PointOK, TypeOK, SchedTypeOK, ProcState
<1>3. z # p /\ z # idle /\ z # init
  BY <1>1, <1>2, ProcessAssumption DEF PointOK, RootsOK
<1>4. pc[z] = "dead"
  BY <1>1, <1>3 DEF PointOK
<1>5. \A q \in live \ {idle} : parent[q] # z
  BY <1>1, <1>4 DEF NoDeadParent
<1>6. z \in Children(p)
  BY <1>1, <1>3 DEF TreeWhole
<1>7. ASSUME NEW c \in Children(z) PROVE FALSE
  <2>1. c \in live /\ parent[c] = z
    BY DEF TreeWhole
  <2>2. c = idle
    BY <1>5, <2>1
  <2>. QED  BY <1>3, <2>1, <2>2 DEF RootsOK
<1>8. kids[z] = <<>>
  <2>1. kids[z] \in Seq(Proc) /\ Len(kids[z]) \in Nat
    BY DEF TypeOK
  <2>2. CASE Len(kids[z]) = 0
    BY <2>1, <2>2
  <2>3. CASE Len(kids[z]) # 0
    <3>1. 1 \in DOMAIN kids[z]
      BY <2>1, <2>3
    <3>2. kids[z][1] \in Children(z)
      BY <3>1 DEF Children, ToSet
    <3>. QED  BY <1>7, <3>2
  <2>. QED  BY <2>2, <2>3
<1>. QED  BY <1>1, <1>2, <1>3, <1>4, <1>5, <1>6, <1>8

LEMMA ReapKeeps ==
  ASSUME ProcIInv, NEW p \in Proc, NEW z \in Proc, WaitReap(p, z)
  PROVE  ProcIInv'
<1>. USE DEF ProcIInv, TableInv
<1>. DEFINE point == IF p = init THEN "init_sched" ELSE "trap"
<1>1. /\ live' = live \ {z}
      /\ kids' = [kids EXCEPT ![p] = RemoveFirst(@, z)]
      /\ state' = [state EXCEPT ![z] = "UNINIT"]
      /\ parent' = [parent EXCEPT ![z] = idle]
      /\ exiting' = exiting \ {z}
      /\ waitpid' = [waitpid EXCEPT ![p] = AnyChild]
      /\ pc' = [pc EXCEPT ![z] = "unused", ![p] = point]
      /\ UNCHANGED <<wait_state, current, rq, need_resched>>
  BY DEF WaitReap
<1>. HIDE DEF point
<1>2. point \in {"init_sched", "trap"} /\ (point = "init_sched" <=> p = init)
  BY DEF point
<1>3. /\ p = current /\ pc[p] = "wait_scan" /\ state[p] = "RUNNABLE" /\ p \in live
      /\ z \in live /\ parent[z] = p /\ state[z] = "ZOMBIE" /\ pc[z] = "dead"
      /\ z # p /\ z # idle /\ z # init /\ p # idle
      /\ z \in Children(p) /\ kids[z] = <<>>
      /\ \A q \in live \ {idle} : parent[q] # z
  BY ReapFacts
<1>4. /\ state' \in [Proc -> ProcState]
      /\ \A q \in Proc : state'[q] = IF q = z THEN "UNINIT" ELSE state[q]
  BY <1>1 DEF TypeOK, SchedTypeOK, ProcState
<1>5. /\ pc' \in [Proc -> PC]
      /\ \A q \in Proc : pc'[q] = IF q = p THEN point ELSE IF q = z THEN "unused" ELSE pc[q]
  BY <1>1, <1>2, <1>3 DEF TypeOK, PC
<1>6. /\ parent' \in [Proc -> Proc]
      /\ \A q \in Proc : parent'[q] = IF q = z THEN idle ELSE parent[q]
  BY <1>1, ProcAssumption DEF TypeOK
<1>7. /\ kids[p] \in Seq(Proc)
      /\ RemoveFirst(kids[p], z) \in Seq(Proc)
      /\ ToSet(RemoveFirst(kids[p], z)) = ToSet(kids[p]) \ {z}
      /\ IsInjective(RemoveFirst(kids[p], z))
  <2>1. kids[p] \in Seq(Proc) /\ IsInjective(kids[p]) /\ z \in ToSet(kids[p])
    BY <1>3 DEF TypeOK, TreeWhole, Children
  <2>. QED  BY <2>1, RemoveFirstFacts
<1>8. /\ kids' \in [Proc -> Seq(Proc)]
      /\ \A q \in Proc : kids'[q] = IF q = p THEN RemoveFirst(kids[p], z) ELSE kids[q]
  BY <1>1, <1>7 DEF TypeOK
<1>9. \A q \in Proc : Children(q)' = IF q = p THEN Children(p) \ {z} ELSE Children(q)
  BY <1>7, <1>8 DEF Children
<1>10. \A q \in Proc \ {p} : z \notin Children(q)
  BY <1>3 DEF TreeWhole
<1>11. TypeOK'
  <2>1. ASSUME NEW q \in Proc
        PROVE  /\ wait_state[q] = "CHILD" <=> state[q] = "SLEEPING"
               /\ q \in live <=> state[q] # "UNINIT"
    BY DEF TypeOK
  <2>2. ASSUME NEW q \in Proc
        PROVE  /\ wait_state'[q] = "CHILD" <=> state'[q] = "SLEEPING"
               /\ q \in live' <=> state'[q] # "UNINIT"
    BY <1>1, <1>3, <1>4, <2>1
  <2>3. SchedTypeOK'
    BY <1>1, <1>4 DEF TypeOK, SchedTypeOK
  <2>4. /\ \A q \in Proc : (wait_state'[q] = "CHILD") = (state'[q] = "SLEEPING")
        /\ \A q \in Proc : (q \in live') = (state'[q] # "UNINIT")
    BY <2>2
  <2>5. /\ live' \subseteq Proc /\ exiting' \subseteq Proc
        /\ waitpid' \in [Proc -> Proc \cup {AnyChild}]
    BY <1>1 DEF TypeOK
  <2>. QED  BY <1>5, <1>6, <1>8, <2>3, <2>4, <2>5, Zenon DEF TypeOK
<1>12. RunQueueExact'
  BY <1>1, <1>3, <1>4 DEF RunQueueExact, TypeOK, SchedTypeOK
<1>13. TreeWhole'
  <2>1. ASSUME NEW q \in live' \ {idle}
        PROVE  parent'[q] \in live' /\ q \in Children(parent[q])'
    <3>1. /\ q \in live \ {idle} /\ q # z /\ parent'[q] = parent[q] /\ parent[q] \in Proc
          /\ parent[q] # z
      BY <1>1, <1>3, <1>6 DEF TypeOK
    <3>. QED  BY <1>1, <1>9, <3>1 DEF TreeWhole
  <2>2. ASSUME NEW q \in Proc PROVE IsInjective(kids'[q])
    BY <1>7, <1>8 DEF TreeWhole
  <2>3. ASSUME NEW q \in Proc, NEW d \in Children(q)'
        PROVE  d \in live' /\ parent'[d] = q
    <3>1. d \in Children(q) /\ d # z
      BY <1>9, <1>10
    <3>2. d \in live /\ parent[d] = q /\ d \in Proc
      BY <3>1 DEF TreeWhole, TypeOK
    <3>. QED  BY <1>1, <1>6, <3>1, <3>2
  <2>4. ASSUME NEW q \in Proc, q \notin live' PROVE kids'[q] = <<>>
    BY <1>1, <1>3, <1>8, <2>4 DEF TreeWhole
  <2>. QED  BY <2>1, <2>2, <2>3, <2>4 DEF TreeWhole
<1>14. NoDeadParent'
  <2>. SUFFICES ASSUME NEW q \in live' \ {idle}, state'[parent'[q]] = "ZOMBIE"
                PROVE  pc'[parent'[q]] = "exit_zombie"
    BY DEF NoDeadParent
  <2>1. /\ q \in live \ {idle} /\ parent'[q] = parent[q] /\ parent[q] \in Proc
        /\ parent[q] # z
    BY <1>1, <1>3, <1>6 DEF TypeOK
  <2>. QED  BY <1>3, <1>4, <1>5, <2>1 DEF NoDeadParent
<1>15. RootsOK'
  BY <1>1, <1>2, <1>3, <1>5, <1>6, ProcessAssumption, ProcAssumption DEF RootsOK
<1>16. Reasons'
  BY <1>1 DEF Reasons
<1>17. ASSUME NEW q \in Proc PROVE PointOK(q)'
  BY <1>1, <1>2, <1>3, <1>4, <1>5 DEF PointOK
<1>18. ASSUME NEW q \in Proc PROVE SleeperOK(q)'
  <2>. SUFFICES ASSUME state'[q] = "SLEEPING"
                PROVE  /\ Awaited(q)' # {}
                       /\ \A d \in Awaited(q)' : state'[d] = "ZOMBIE" => pc'[d] = "exit_zombie"
    BY DEF SleeperOK
  <2>1. state[q] = "SLEEPING" /\ q # p /\ q # z
    BY <1>3, <1>4
  <2>2. Awaited(q) \subseteq live /\ live \subseteq Proc /\ z \notin Awaited(q)
    BY <1>3, <2>1 DEF Awaited, TypeOK
  <2>3. waitpid'[q] = waitpid[q]
    BY <1>1, <2>1 DEF TypeOK
  <2>4. Awaited(q)' = Awaited(q)
    BY <1>1, <1>6, <2>2, <2>3 DEF Awaited
  <2>. QED  BY <1>3, <1>4, <1>5, <2>1, <2>2, <2>4 DEF SleeperOK
<1>. QED  BY <1>11, <1>12, <1>13, <1>14, <1>15, <1>16, <1>17, <1>18

(* The running process writes into itself that it sleeps, or that it has exited. *)
LEMMA OwnStateStep ==
  ASSUME ProcIInv, NEW p \in Proc, p = current, state[p] = "RUNNABLE", p # idle,
         NEW new \in {"SLEEPING", "ZOMBIE"},
         NEW why \in {"NONE", "CHILD"}, why = "CHILD" <=> new = "SLEEPING",
         NEW point \in {"wait_sched", "exit_zombie"},
         point = "wait_sched" <=> new = "SLEEPING",
         p = init => new = "SLEEPING",
         state' = [state EXCEPT ![p] = new],
         wait_state' = [wait_state EXCEPT ![p] = why],
         pc' = [pc EXCEPT ![p] = point],
         new = "SLEEPING" => MustWait(p),
         UNCHANGED <<current, rq, need_resched, live, parent, kids, exiting, waitpid>>
  PROVE  ProcIInv'
<1>. USE DEF ProcIInv, TableInv
<1>1. /\ state' \in [Proc -> ProcState] /\ wait_state' \in [Proc -> WaitState]
      /\ pc' \in [Proc -> PC]
      /\ \A q \in Proc : /\ state'[q] = IF q = p THEN new ELSE state[q]
                         /\ wait_state'[q] = IF q = p THEN why ELSE wait_state[q]
                         /\ pc'[q] = IF q = p THEN point ELSE pc[q]
  BY DEF TypeOK, SchedTypeOK, ProcState, WaitState, PC
<1>2. TypeOK'
  <2>1. ASSUME NEW q \in Proc
        PROVE  /\ wait_state[q] = "CHILD" <=> state[q] = "SLEEPING"
               /\ q \in live <=> state[q] # "UNINIT"
    BY DEF TypeOK
  <2>2. ASSUME NEW q \in Proc
        PROVE  /\ wait_state'[q] = "CHILD" <=> state'[q] = "SLEEPING"
               /\ q \in live' <=> state'[q] # "UNINIT"
    BY <1>1, <2>1
  <2>3. SchedTypeOK'
    BY <1>1 DEF TypeOK, SchedTypeOK
  <2>4. /\ \A q \in Proc : (wait_state'[q] = "CHILD") = (state'[q] = "SLEEPING")
        /\ \A q \in Proc : (q \in live') = (state'[q] # "UNINIT")
    BY <2>2
  <2>5. /\ live' \subseteq Proc /\ parent' \in [Proc -> Proc] /\ kids' \in [Proc -> Seq(Proc)]
        /\ exiting' \subseteq Proc /\ waitpid' \in [Proc -> Proc \cup {AnyChild}]
    BY DEF TypeOK
  <2>. QED  BY <1>1, <2>3, <2>4, <2>5, Zenon DEF TypeOK
<1>3. RunQueueExact'
  BY <1>1 DEF RunQueueExact
<1>4. TreeWhole'
  BY DEF TreeWhole, Children
<1>5. NoDeadParent'
  <2>. SUFFICES ASSUME NEW q \in live \ {idle}, state'[parent[q]] = "ZOMBIE"
                PROVE  pc'[parent[q]] = "exit_zombie"
    BY DEF NoDeadParent
  <2>1. parent[q] \in Proc
    BY DEF TypeOK
  <2>. QED  BY <1>1, <2>1 DEF NoDeadParent
<1>6. RootsOK' /\ Reasons'
  BY <1>1, ProcessAssumption DEF RootsOK, Reasons
<1>7. ASSUME NEW q \in Proc PROVE PointOK(q)'
  BY <1>1 DEF PointOK, TypeOK
<1>8. ASSUME NEW q \in Proc PROVE SleeperOK(q)'
  <2>. SUFFICES ASSUME state'[q] = "SLEEPING"
                PROVE  /\ Awaited(q)' # {}
                       /\ \A c \in Awaited(q)' : state'[c] = "ZOMBIE" => pc'[c] = "exit_zombie"
    BY DEF SleeperOK
  <2>1. Awaited(q)' = Awaited(q) /\ Awaited(q) \subseteq Proc
    BY DEF Awaited, TypeOK
  <2>2. CASE q = p
    BY <1>1, <2>1, <2>2 DEF MustWait
  <2>3. CASE q # p
    BY <1>1, <2>1, <2>3 DEF SleeperOK
  <2>. QED  BY <2>2, <2>3
<1>. QED  BY <1>2, <1>3, <1>4, <1>5, <1>6, <1>7, <1>8

LEMMA WaitSleepKeeps ==
  ASSUME ProcIInv, NEW p \in Proc, WaitSleep(p)
  PROVE  ProcIInv'
<1>1. p = current /\ pc[p] = "wait_scan"
  BY DEF WaitSleep, At
<1>2. state[p] = "RUNNABLE" /\ p # idle
  BY <1>1 DEF ProcIInv, TableInv, PointOK, TypeOK, SchedTypeOK, ProcState
<1>3. /\ MustWait(p)
      /\ state' = [state EXCEPT ![p] = "SLEEPING"]
      /\ wait_state' = [wait_state EXCEPT ![p] = "CHILD"]
      /\ pc' = [pc EXCEPT ![p] = "wait_sched"]
      /\ UNCHANGED <<current, rq, need_resched, live, parent, kids, exiting, waitpid>>
  BY DEF WaitSleep, SetSleeping, Goto
<1>. QED  BY <1>1, <1>2, <1>3, OwnStateStep

LEMMA ExitKeeps ==
  ASSUME ProcIInv, NEW p \in Proc, Exit(p)
  PROVE  ProcIInv'
<1>1. p = current /\ pc[p] \in {"user", "trap", "wait_back"}
  BY DEF Exit, At
<1>2. state[p] = "RUNNABLE" /\ p # idle
  BY <1>1 DEF ProcIInv, TableInv, PointOK, TypeOK, SchedTypeOK, ProcState
<1>3. UNCHANGED <<wait_state, current, rq, need_resched, live, parent, kids, exiting, waitpid>>
  BY DEF Exit
<1>4. CASE p = init
  <2>1. pc' = [pc EXCEPT ![p] = "panic"] /\ UNCHANGED state
    BY <1>4 DEF Exit, Goto
  <2>2. "panic" \in PC /\ Goto(p, "panic")
    BY <2>1 DEF PC, Goto
  <2>3. /\ need_resched' \in [Proc -> BOOLEAN] /\ exiting' \subseteq Proc
        /\ waitpid' \in [Proc -> Proc \cup {AnyChild}]
    BY <1>3 DEF ProcIInv, TableInv, TypeOK, SchedTypeOK
  <2>. QED  BY <1>1, <1>2, <1>3, <1>4, <2>1, <2>2, <2>3, PointStep
<1>5. CASE p # init
  <2>1. state' = [state EXCEPT ![p] = "ZOMBIE"] /\ pc' = [pc EXCEPT ![p] = "exit_zombie"]
    BY <1>5 DEF Exit, Goto
  <2>2. wait_state[p] = "NONE"
    BY <1>2 DEF ProcIInv, TableInv, Reasons, TypeOK
  <2>3. wait_state' = [wait_state EXCEPT ![p] = "NONE"]
    BY <1>3, <2>2 DEF ProcIInv, TableInv, TypeOK, SchedTypeOK
  <2>. QED  BY <1>1, <1>2, <1>3, <1>5, <2>1, <2>3, OwnStateStep
<1>. QED  BY <1>4, <1>5

(* The children of a process that exits pass to init, whatever init's own are. *)
LEMMA InheritFacts ==
  ASSUME ProcIInv, NEW p \in Proc, p # init, Inherit(p)
  PROVE  /\ kids' \in [Proc -> Seq(Proc)] /\ parent' \in [Proc -> Proc]
         /\ kids'[p] = <<>>
         /\ \A q \in Proc \ {p, init} : kids'[q] = kids[q]
         /\ \A q \in Proc : Children(q)' = IF q = p THEN {}
                                          ELSE IF q = init THEN Children(init) \cup Children(p)
                                          ELSE Children(q)
         /\ \A q \in Proc : IsInjective(kids'[q])
         /\ \A q \in Proc : parent'[q] = IF q \in Children(p) THEN init ELSE parent[q]
         /\ \A q \in Children(p) : q \in live /\ q \in Proc /\ parent[q] = p
<1>. USE DEF ProcIInv, TableInv
<1>0. init \in Proc
  BY ProcessAssumption
<1>1. /\ kids' = [kids EXCEPT ![p] = <<>>, ![init] = Reverse(kids[p]) \o @]
      /\ parent' = [c \in Proc |-> IF c \in Children(p) THEN init ELSE parent[c]]
  BY DEF Inherit
<1>2. \A q \in Children(p) : q \in live /\ q \in Proc /\ parent[q] = p
  BY DEF TreeWhole, TypeOK
<1>3. PICK x : x = kids[p]
  OBVIOUS
<1>4. PICK y : y = kids[init]
  OBVIOUS
<1>5. x \in Seq(Proc) /\ y \in Seq(Proc) /\ IsInjective(x) /\ IsInjective(y)
  BY <1>0, <1>3, <1>4 DEF TypeOK, TreeWhole
<1>6. ToSet(x) = Children(p) /\ ToSet(y) = Children(init)
  BY <1>3, <1>4 DEF Children
<1>7. Children(p) \cap Children(init) = {}
  BY <1>0, <1>2 DEF TreeWhole
<1>8. PICK r : r = Reverse(x)
  OBVIOUS
<1>9. r \in Seq(Proc) /\ ToSet(r) = ToSet(x) /\ IsInjective(r)
  BY <1>5, <1>8, ReverseFacts
<1>10. PICK z : z = r \o y
  OBVIOUS
<1>11. z \in Seq(Proc) /\ ToSet(z) = Children(p) \cup Children(init) /\ IsInjective(z)
  BY <1>5, <1>6, <1>7, <1>9, <1>10, JoinFacts
<1>12. kids' = [kids EXCEPT ![p] = <<>>, ![init] = z]
  BY <1>0, <1>1, <1>3, <1>4, <1>8, <1>10 DEF TypeOK
<1>13. PICK e : e = <<>>
  OBVIOUS
<1>14. e \in Seq(Proc) /\ ToSet(e) = {} /\ IsInjective(e)
  BY <1>13, EmptyFacts
<1>15. /\ kids' \in [Proc -> Seq(Proc)]
       /\ \A q \in Proc : kids'[q] = IF q = init THEN z ELSE IF q = p THEN e ELSE kids[q]
  BY <1>0, <1>11, <1>12, <1>13, <1>14 DEF TypeOK
<1>16. \A q \in Proc : Children(q)' = IF q = p THEN {}
                                    ELSE IF q = init THEN Children(init) \cup Children(p)
                                    ELSE Children(q)
  BY <1>11, <1>14, <1>15 DEF Children
<1>17. \A q \in Proc : IsInjective(kids'[q])
  BY <1>11, <1>14, <1>15 DEF TreeWhole
<1>18. /\ parent' \in [Proc -> Proc]
       /\ \A q \in Proc : parent'[q] = IF q \in Children(p) THEN init ELSE parent[q]
  BY <1>0, <1>1 DEF TypeOK
<1>. QED  BY <1>2, <1>13, <1>15, <1>16, <1>17, <1>18

LEMMA ExitNotifyKeeps ==
  ASSUME ProcIInv, NEW p \in Proc, ExitNotify(p)
  PROVE  ProcIInv'
<1>. USE DEF ProcIInv, TableInv
<1>0. init \in Proc /\ idle \in Proc /\ init # idle
  BY ProcessAssumption, ProcAssumption
<1>1. /\ p = current /\ pc[p] = "exit_zombie" /\ state[p] = "ZOMBIE" /\ p # idle /\ p # init
      /\ WakeupAll(Notified(p)) /\ Inherit(p) /\ pc' = [pc EXCEPT ![p] = "exit_sched"]
      /\ UNCHANGED <<current, need_resched, live, exiting, waitpid>>
  BY <1>0 DEF ExitNotify, At, Goto, PointOK, RootsOK
<1>2. PICK S : S = Notified(p)
  OBVIOUS
<1>3. S \in SUBSET Proc /\ \A q \in S : wait_state[q] = "CHILD"
  BY <1>0, <1>2 DEF Notified, TypeOK
<1>4. /\ state' \in [Proc -> ProcState] /\ wait_state' \in [Proc -> WaitState]
      /\ rq' \subseteq Proc
      /\ \A q \in Proc : /\ state'[q] = IF q \in S THEN "RUNNABLE" ELSE state[q]
                         /\ wait_state'[q] = IF q \in S THEN "NONE" ELSE wait_state[q]
      /\ \A q \in S : /\ state[q] = "SLEEPING" /\ pc[q] = "wait_back"
                      /\ q # current /\ q # idle
      /\ RunQueueExact' /\ Reasons'
  BY <1>1, <1>2, <1>3, WakeFacts
<1>5. /\ pc' \in [Proc -> PC]
      /\ \A q \in Proc : pc'[q] = IF q = p THEN "exit_sched" ELSE pc[q]
  BY <1>1 DEF TypeOK, PC
<1>6. /\ kids' \in [Proc -> Seq(Proc)] /\ parent' \in [Proc -> Proc]
      /\ kids'[p] = <<>>
      /\ \A q \in Proc \ {p, init} : kids'[q] = kids[q]
      /\ \A q \in Proc : Children(q)' = IF q = p THEN {}
                                       ELSE IF q = init THEN Children(init) \cup Children(p)
                                       ELSE Children(q)
      /\ \A q \in Proc : IsInjective(kids'[q])
      /\ \A q \in Proc : parent'[q] = IF q \in Children(p) THEN init ELSE parent[q]
      /\ \A q \in Children(p) : q \in live /\ q \in Proc /\ parent[q] = p
  BY <1>1, InheritFacts
<1>7. TypeOK'
  <2>1. SchedTypeOK'
    BY <1>1, <1>4 DEF TypeOK, SchedTypeOK
  <2>2. /\ \A x \in Proc : (wait_state'[x] = "CHILD") = (state'[x] = "SLEEPING")
        /\ \A x \in Proc : (x \in live') = (state'[x] # "UNINIT")
    BY <1>1, <1>3, <1>4, WokenTypeOK
  <2>3. /\ live' \subseteq Proc /\ exiting' \subseteq Proc
        /\ waitpid' \in [Proc -> Proc \cup {AnyChild}]
    BY <1>1 DEF TypeOK
  <2>. QED  BY <1>5, <1>6, <2>1, <2>2, <2>3, Zenon DEF TypeOK
<1>8. TreeWhole'
  <2>1. ASSUME NEW q \in live \ {idle}
        PROVE  parent'[q] \in live /\ q \in Children(parent[q])'
    <3>1. q \in Proc /\ parent[q] \in live /\ parent[q] \in Proc /\ q \in Children(parent[q])
      BY DEF TreeWhole, TypeOK
    <3>2. CASE q \in Children(p)
      <4>1. parent'[q] = init /\ init \in live
        BY <1>6, <3>1, <3>2 DEF RootsOK
      <4>. QED  BY <1>0, <1>1, <1>6, <3>2, <4>1
    <3>3. CASE q \notin Children(p)
      <4>1. parent'[q] = parent[q] /\ parent[q] # p
        BY <1>6, <3>1, <3>3
      <4>. QED  BY <1>6, <3>1, <4>1
    <3>. QED  BY <3>2, <3>3
  <2>2. ASSUME NEW q \in Proc, NEW d \in Children(q)'
        PROVE  d \in live /\ parent'[d] = q
    <3>1. CASE d \in Children(p)
      <4>1. q # p
        BY <1>6
      <4>2. q = init
        <5>. SUFFICES ASSUME q # init PROVE FALSE
          OBVIOUS
        <5>1. d \in Children(q)
          BY <1>6, <4>1
        <5>. QED  BY <1>6, <3>1, <4>1, <5>1 DEF TreeWhole
      <4>. QED  BY <1>6, <3>1, <4>2
    <3>2. CASE d \notin Children(p)
      <4>1. q # p /\ d \in Children(q)
        BY <1>6, <3>2
      <4>2. d \in live /\ d \in Proc /\ parent[d] = q
        BY <4>1 DEF TreeWhole, TypeOK
      <4>. QED  BY <1>6, <3>2, <4>2
    <3>. QED  BY <3>1, <3>2
  <2>3. ASSUME NEW q \in Proc, q \notin live PROVE kids'[q] = <<>>
    <3>1. q # init /\ kids[q] = <<>>
      BY <1>0, <2>3 DEF TreeWhole, RootsOK
    <3>. QED  BY <1>6, <3>1
  <2>. QED  BY <1>1, <1>6, <2>1, <2>2, <2>3 DEF TreeWhole
<1>9. NoDeadParent'
  <2>. SUFFICES ASSUME NEW q \in live \ {idle}, state'[parent'[q]] = "ZOMBIE"
                PROVE  pc'[parent'[q]] = "exit_zombie"
    BY <1>1 DEF NoDeadParent
  <2>1. q \in Proc /\ parent[q] \in Proc /\ q \in Children(parent[q])
    BY DEF TreeWhole, TypeOK
  <2>2. state[init] # "ZOMBIE" /\ state'[init] # "ZOMBIE"
    BY <1>0, <1>4 DEF RootsOK, PointOK
  <2>3. q \notin Children(p) /\ parent'[q] = parent[q] /\ parent[q] # p
    BY <1>6, <2>1, <2>2
  <2>. QED  BY <1>4, <1>5, <2>1, <2>3 DEF NoDeadParent
<1>10. RootsOK'
  <2>1. parent'[idle] = idle
    BY <1>0, <1>1, <1>6 DEF RootsOK
  <2>. QED  BY <1>0, <1>1, <1>5, <2>1 DEF RootsOK
<1>11. ASSUME NEW q \in Proc PROVE PointOK(q)'
  BY <1>1, <1>4, <1>5 DEF PointOK
<1>12. ASSUME NEW q \in Proc PROVE SleeperOK(q)'
  <2>. SUFFICES ASSUME state'[q] = "SLEEPING"
                PROVE  /\ Awaited(q)' # {}
                       /\ \A c \in Awaited(q)' : state'[c] = "ZOMBIE" => pc'[c] = "exit_zombie"
    BY DEF SleeperOK
  <2>1. state[q] = "SLEEPING" /\ q \notin S /\ q # p
    BY <1>1, <1>4
  <2>2. wait_state[q] = "CHILD"
    BY <2>1 DEF TypeOK
  <2>3. parent[p] # q
    BY <1>2, <2>1, <2>2 DEF Notified
  <2>4. q = init => \A c \in Children(p) : state[c] # "ZOMBIE"
    BY <1>2, <2>1, <2>2 DEF Notified
  <2>5. ASSUME NEW c \in Awaited(q) PROVE c \in Awaited(q)'
    <3>1. c \in Proc /\ c \in live /\ parent[c] = q /\ waitpid[q] \in {c, AnyChild}
      BY DEF Awaited, TypeOK
    <3>2. parent'[c] = q
      BY <1>6, <2>1, <3>1
    <3>. QED  BY <1>1, <3>1, <3>2 DEF Awaited
  <2>6. ASSUME NEW c \in Awaited(q)', state'[c] = "ZOMBIE" PROVE FALSE
    <3>1. /\ c \in Proc /\ c \in live /\ parent'[c] = q /\ waitpid[q] \in {c, AnyChild}
          /\ state[c] = "ZOMBIE"
      BY <1>1, <1>4, <2>6 DEF Awaited, TypeOK
    <3>2. CASE c \in Children(p)
      BY <1>6, <2>4, <3>1, <3>2
    <3>3. CASE c \notin Children(p)
      <4>1. c \in Awaited(q)
        BY <1>6, <3>1, <3>3 DEF Awaited
      <4>2. pc[c] = "exit_zombie"
        BY <2>1, <3>1, <4>1 DEF SleeperOK
      <4>3. c = p
        BY <1>1, <3>1, <4>2 DEF PointOK
      <4>. QED  BY <1>6, <2>3, <3>1, <3>3, <4>3
    <3>. QED  BY <3>2, <3>3
  <2>7. Awaited(q) # {}
    BY <2>1 DEF SleeperOK
  <2>. QED  BY <2>5, <2>6, <2>7
<1>. QED  BY <1>4, <1>7, <1>8, <1>9, <1>10, <1>11, <1>12

(* What schedule() leaves behind, and whom it may give the CPU to. *)
LEMMA SwitchFacts ==
  ASSUME ProcIInv, NEW p \in Proc, NEW next \in Proc, SwitchTo(p, next)
  PROVE  /\ current = p /\ current' = next /\ state[next] = "RUNNABLE"
         /\ pc[p] \in {"trap_sched", "wait_sched", "exit_sched", "init_sched", "idle"}
         /\ pc' \in [Proc -> PC]
         /\ \A q \in Proc : pc'[q] = IF q # p THEN pc[q]
                                    ELSE CASE pc[p] = "trap_sched" -> "user"
                                           [] pc[p] = "wait_sched" -> "wait_back"
                                           [] pc[p] = "exit_sched" -> "dead"
                                           [] pc[p] = "init_sched" -> "wait_scan"
                                           [] OTHER -> "idle"
         /\ rq' \subseteq Proc /\ RunQueueExact'
         /\ need_resched' \in [Proc -> BOOLEAN]
         /\ UNCHANGED <<state, wait_state, live, parent, kids, exiting, waitpid>>
<1>. USE DEF ProcIInv, TableInv
<1>1. /\ current = p /\ ScheduleTo(next)
      /\ pc[p] \in {"trap_sched", "wait_sched", "exit_sched", "init_sched", "idle"}
      /\ pc' = [pc EXCEPT ![p] = AfterSchedule[pc[p]]]
      /\ UNCHANGED <<live, parent, kids, exiting, waitpid>>
  BY DEF SwitchTo, Goto
<1>2. idle \in Proc /\ state[idle] = "RUNNABLE"
  <2>1. idle \in Proc
    BY ProcAssumption
  <2>. QED  BY <2>1 DEF PointOK, RootsOK, TypeOK, SchedTypeOK, ProcState
<1>3. next = idle \/ next \in Enqueued
  BY <1>1 DEF ScheduleTo
<1>4. state[next] = "RUNNABLE"
  BY <1>2, <1>3 DEF Enqueued, RunQueueExact
<1>5. AfterSchedule[pc[p]] = CASE pc[p] = "trap_sched" -> "user"
                               [] pc[p] = "wait_sched" -> "wait_back"
                               [] pc[p] = "exit_sched" -> "dead"
                               [] pc[p] = "init_sched" -> "wait_scan"
                               [] OTHER -> "idle"
  BY <1>1 DEF AfterSchedule
<1>6. pc' \in [Proc -> PC]
      /\ \A q \in Proc : pc'[q] = IF q # p THEN pc[q]
                                 ELSE CASE pc[p] = "trap_sched" -> "user"
                                        [] pc[p] = "wait_sched" -> "wait_back"
                                        [] pc[p] = "exit_sched" -> "dead"
                                        [] pc[p] = "init_sched" -> "wait_scan"
                                        [] OTHER -> "idle"
  BY <1>1, <1>5 DEF TypeOK, PC
<1>7. /\ rq' = Enqueued \ {next} /\ current' = next
      /\ need_resched' = [need_resched EXCEPT ![current] = FALSE]
      /\ UNCHANGED <<state, wait_state>>
  BY <1>1 DEF ScheduleTo
<1>8. rq' \subseteq Proc /\ need_resched' \in [Proc -> BOOLEAN]
  BY <1>7 DEF Enqueued, TypeOK, SchedTypeOK
<1>9. RunQueueExact'
  <2>1. Enqueued = {q \in Proc \ {idle} : state[q] = "RUNNABLE"}
    BY DEF RunQueueExact, Enqueued, TypeOK, SchedTypeOK
  <2>. QED  BY <1>7, <2>1 DEF RunQueueExact
<1>. QED  BY <1>1, <1>4, <1>6, <1>7, <1>8, <1>9

LEMMA SwitchKeeps ==
  ASSUME ProcIInv, NEW p \in Proc, NEW next \in Proc, SwitchTo(p, next)
  PROVE  ProcIInv'
<1>. USE DEF ProcIInv, TableInv
<1>1. /\ current = p /\ current' = next /\ state[next] = "RUNNABLE"
      /\ pc[p] \in {"trap_sched", "wait_sched", "exit_sched", "init_sched", "idle"}
      /\ pc' \in [Proc -> PC]
      /\ \A q \in Proc : pc'[q] = IF q # p THEN pc[q]
                                 ELSE CASE pc[p] = "trap_sched" -> "user"
                                        [] pc[p] = "wait_sched" -> "wait_back"
                                        [] pc[p] = "exit_sched" -> "dead"
                                        [] pc[p] = "init_sched" -> "wait_scan"
                                        [] OTHER -> "idle"
      /\ rq' \subseteq Proc /\ RunQueueExact'
      /\ need_resched' \in [Proc -> BOOLEAN]
      /\ UNCHANGED <<state, wait_state, live, parent, kids, exiting, waitpid>>
  BY SwitchFacts
<1>2. TypeOK'
  <2>1. SchedTypeOK'
    BY <1>1 DEF TypeOK, SchedTypeOK
  <2>2. /\ \A x \in Proc : (wait_state'[x] = "CHILD") = (state'[x] = "SLEEPING")
        /\ \A x \in Proc : (x \in live') = (state'[x] # "UNINIT")
    BY <1>1 DEF TypeOK
  <2>3. /\ live' \subseteq Proc /\ parent' \in [Proc -> Proc] /\ kids' \in [Proc -> Seq(Proc)]
        /\ exiting' \subseteq Proc /\ waitpid' \in [Proc -> Proc \cup {AnyChild}]
    BY <1>1 DEF TypeOK
  <2>. QED  BY <1>1, <2>1, <2>2, <2>3, Zenon DEF TypeOK
<1>3. TreeWhole'
  BY <1>1 DEF TreeWhole, Children
<1>4. \A q \in Proc : pc[q] # "exit_zombie"
  BY <1>1 DEF PointOK
<1>5. NoDeadParent'
  <2>. SUFFICES ASSUME NEW q \in live \ {idle}, state[parent[q]] = "ZOMBIE" PROVE FALSE
    BY <1>1 DEF NoDeadParent
  <2>1. parent[q] \in Proc
    BY DEF TypeOK
  <2>. QED  BY <1>4, <2>1 DEF NoDeadParent
<1>6. RootsOK' /\ Reasons'
  <2>1. init \in Proc /\ init # idle
    BY ProcessAssumption
  <2>2. \A q \in Proc : pc[q] = "idle" => q = idle
    BY DEF PointOK
  <2>3. pc'[init] \in {"init_fork", "init_sched", "init_done", "panic", "wait_scan",
                       "wait_sched", "wait_back"}
    BY <1>1, <2>1, <2>2 DEF RootsOK
  <2>4. \A q \in Proc : pc'[q] \in {"init_fork", "init_sched", "init_done", "panic"} => q = init
    BY <1>1 DEF RootsOK
  <2>. QED  BY <1>1, <2>3, <2>4 DEF RootsOK, Reasons
<1>7. ASSUME NEW q \in Proc PROVE PointOK(q)'
  <2>1. CASE q = p
    BY <1>1, <2>1 DEF PointOK
  <2>2. CASE q # p
    <3>1. pc'[q] = pc[q]
      BY <1>1, <2>2
    <3>2. state[q] = "RUNNABLE" => q \in live
      BY DEF TypeOK
    <3>. QED  BY <1>1, <2>2, <3>1, <3>2 DEF PointOK
  <2>. QED  BY <2>1, <2>2
<1>8. ASSUME NEW q \in Proc PROVE SleeperOK(q)'
  <2>. SUFFICES ASSUME state[q] = "SLEEPING"
                PROVE  Awaited(q)' # {} /\ \A c \in Awaited(q)' : state'[c] # "ZOMBIE"
    BY <1>1 DEF SleeperOK
  <2>1. Awaited(q)' = Awaited(q) /\ Awaited(q) \subseteq Proc
    BY <1>1 DEF Awaited, TypeOK
  <2>. QED  BY <1>1, <1>4, <2>1 DEF SleeperOK
<1>. QED  BY <1>1, <1>2, <1>3, <1>5, <1>6, <1>7, <1>8

(* The other steps only move the running process on in its code. *)
LEMMA MoveKeeps ==
  ASSUME ProcIInv, NEW p \in Proc,
         \/ \E pid \in Proc \cup {AnyChild} : Wait(p, pid)
         \/ WaitNobody(p) \/ WaitAgain(p) \/ TrapReturn(p)
  PROVE  ProcIInv'
<1>. USE DEF At
<1>1. /\ p = current /\ pc[p] \in {"user", "wait_scan", "wait_back", "trap"}
      /\ UNCHANGED <<schedVars, live, parent, kids, exiting>>
      /\ waitpid' \in [Proc -> Proc \cup {AnyChild}]
      /\ \A q \in Proc \ {p} : waitpid'[q] = waitpid[q]
  BY DEF Wait, WaitNobody, WaitAgain, TrapReturn, ProcIInv, TableInv, TypeOK
<1>2. state[p] = "RUNNABLE" /\ p # idle
  BY <1>1 DEF ProcIInv, TableInv, PointOK, TypeOK, SchedTypeOK, ProcState
<1>3. p = init => pc[p] \in {"wait_scan", "wait_back"}
  BY <1>1 DEF ProcIInv, RootsOK
<1>4. \E point \in {"wait_scan", "init_done", "trap", "trap_sched", "user"} :
        /\ Goto(p, point)
        /\ point = "init_done" => p = init
        /\ p = init => point \in {"wait_scan", "init_done"}
  <2>1. CASE \E pid \in Proc \cup {AnyChild} : Wait(p, pid)
    BY <2>1 DEF Wait
  <2>2. CASE WaitNobody(p)
    <3>1. CASE p = init
      BY <2>2, <3>1 DEF WaitNobody
    <3>2. CASE p # init
      BY <2>2, <3>2 DEF WaitNobody
    <3>. QED  BY <3>1, <3>2
  <2>3. CASE WaitAgain(p)
    BY <2>3 DEF WaitAgain
  <2>4. CASE TrapReturn(p)
    <3>1. p # init /\ Goto(p, IF need_resched[p] THEN "trap_sched" ELSE "user")
      BY <1>3, <2>4 DEF TrapReturn
    <3>. QED  BY <3>1
  <2>. QED  BY <2>1, <2>2, <2>3, <2>4
<1>5. PICK point \in {"wait_scan", "init_done", "trap", "trap_sched", "user"} :
        /\ Goto(p, point)
        /\ point = "init_done" => p = init
        /\ p = init => point \in {"wait_scan", "init_done"}
  BY <1>4
<1>6. point \in PC
  BY DEF PC
<1>7. need_resched' \in [Proc -> BOOLEAN] /\ exiting' \subseteq Proc
  BY <1>1 DEF schedVars, ProcIInv, TableInv, TypeOK, SchedTypeOK
<1>8. UNCHANGED <<state, wait_state, current, rq, live, parent, kids>>
  BY <1>1 DEF schedVars
<1>. QED  BY <1>1, <1>2, <1>5, <1>6, <1>7, <1>8, PointStep

LEMMA TickKeeps == ASSUME ProcIInv, TimerIRQ PROVE ProcIInv'
<1>1. /\ current \in Proc /\ pc[current] \in PC
      /\ exiting' \subseteq Proc /\ waitpid' \in [Proc -> Proc \cup {AnyChild}]
      /\ UNCHANGED <<state, wait_state, current, rq, live, parent, kids, waitpid>>
  BY DEF TimerIRQ, ProcIInv, TableInv, TypeOK, SchedTypeOK
<1>2. need_resched' \in [Proc -> BOOLEAN]
  BY DEF TimerIRQ, ProcTick, ProcIInv, TableInv, TypeOK, SchedTypeOK
<1>3. CASE pc[current] = "user"
  <2>1. Goto(current, "trap")
    BY <1>3 DEF TimerIRQ
  <2>2. state[current] = "RUNNABLE" /\ current # idle /\ current # init
    BY <1>1, <1>3 DEF ProcIInv, TableInv, PointOK, RootsOK, TypeOK, SchedTypeOK, ProcState
  <2>3. "trap" \in PC
    BY DEF PC
  <2>. QED  BY <1>1, <1>2, <2>1, <2>2, <2>3, PointStep
<1>4. CASE pc[current] # "user"
  <2>. USE DEF ProcIInv, TableInv
  <2>1. UNCHANGED pc
    BY <1>4 DEF TimerIRQ
  <2>2. TypeOK'
    <3>1. SchedTypeOK'
      BY <1>1, <1>2 DEF TypeOK, SchedTypeOK
    <3>2. UNCHANGED <<state, wait_state, pc, live, parent, kids, exiting, waitpid>>
      BY <1>1, <2>1 DEF TimerIRQ
    <3>. QED  BY <3>1, <3>2 DEF TypeOK
  <2>3. RunQueueExact' /\ TreeWhole' /\ NoDeadParent' /\ RootsOK' /\ Reasons'
    BY <1>1, <2>1 DEF RunQueueExact, TreeWhole, Children, NoDeadParent, RootsOK, Reasons
  <2>4. ASSUME NEW q \in Proc PROVE PointOK(q)' /\ SleeperOK(q)'
    BY <1>1, <2>1 DEF PointOK, SleeperOK, Awaited
  <2>. QED  BY <2>2, <2>3, <2>4
<1>. QED  BY <1>3, <1>4

LEMMA NextKeeps == ASSUME ProcIInv, [Next]_vars PROVE ProcIInv'
<1>1. ASSUME NEW p \in Proc, SystemCall(p) PROVE ProcIInv'
  BY <1>1, ForkKeeps, KillKeeps, MoveKeeps, ExitKeeps DEF SystemCall
<1>2. ASSUME NEW p \in Proc, KernelStep(p) PROVE ProcIInv'
  BY <1>2, ForkKeeps, ReapKeeps, SwitchKeeps, WaitSleepKeeps, MoveKeeps, ExitKeeps,
     ExitNotifyKeeps DEF KernelStep
<1>3. CASE TimerIRQ
  BY <1>3, TickKeeps
<1>4. CASE UNCHANGED vars
  BY <1>4 DEF vars, schedVars, procVars, ProcIInv, TableInv, TypeOK, SchedTypeOK, RunQueueExact,
              TreeWhole, Children, NoDeadParent, RootsOK, Reasons, PointOK, SleeperOK, Awaited
<1>. QED  BY <1>1, <1>2, <1>3, <1>4 DEF Next

THEOREM ProcessInvariance == Spec => []ProcIInv
  BY InitHolds, NextKeeps, PTL DEF Spec

(* The process table of proc.c is sound between any two steps: its tree is whole
   through do_fork, do_exit and do_wait, no process hangs on a dead parent, and the run
   queue holds just the processes that can run. *)
THEOREM TableIsSound == Spec => []TableInv
<1>1. ProcIInv => TableInv
  BY DEF ProcIInv
<1>. QED  BY <1>1, ProcessInvariance, PTL

(* do_exit tells whoever sleeps in do_wait: nobody sleeps there beside an exited child
   that he waits for, and nobody sleeps there without a child to wait for. *)
THEOREM NoExitIsLost == Spec => []NoLostExit
<1>1. ProcIInv => NoLostExit
  <2>. SUFFICES ASSUME ProcIInv, pc[current] # "exit_zombie", NEW p \in live,
                       state[p] = "SLEEPING"
                PROVE  wait_state[p] = "CHILD" /\ MustWait(p)
    BY DEF NoLostExit
  <2>. USE DEF ProcIInv, TableInv
  <2>1. p \in Proc /\ wait_state[p] = "CHILD"
    BY DEF TypeOK
  <2>2. Awaited(p) # {} /\ Awaited(p) \subseteq Proc
    BY <2>1 DEF SleeperOK, Awaited, TypeOK
  <2>3. ASSUME NEW c \in Awaited(p), state[c] = "ZOMBIE" PROVE FALSE
    BY <2>1, <2>2, <2>3 DEF SleeperOK, PointOK
  <2>. QED  BY <2>1, <2>2, <2>3 DEF MustWait
<1>. QED  BY <1>1, ProcessInvariance, PTL

(* Only the parent frees a process, in do_wait, and only one that has left its kernel
   stack for good. *)
THEOREM OnlyTheParentReaps == Spec => OnlyParentReaps
<1>1. ASSUME ProcIInv, NEW p \in Proc, NEW z \in Proc, WaitReap(p, z)
      PROVE  \A q \in live \ live' : state[q] = "ZOMBIE" /\ pc[q] = "dead" /\ current = parent[q]
  <2>1. live' = live \ {z}
    BY <1>1 DEF WaitReap
  <2>. QED  BY <1>1, <2>1, ReapFacts
<1>2. ASSUME NEW p \in Proc, SystemCall(p) PROVE live \subseteq live'
  BY <1>2 DEF SystemCall, Fork, Kill, Wait, Exit
<1>3. ASSUME NEW p \in Proc, KernelStep(p), \A z \in Proc : ~WaitReap(p, z)
      PROVE  live \subseteq live'
  BY <1>3 DEF KernelStep, Fork, SwitchTo, WaitSleep, WaitNobody, WaitAgain, Exit, ExitNotify,
              TrapReturn
<1>4. ASSUME TimerIRQ \/ UNCHANGED vars PROVE live \subseteq live'
  BY <1>4 DEF TimerIRQ, vars, procVars
<1>5. ASSUME ProcIInv, [Next]_vars
      PROVE  \A q \in live \ live' : state[q] = "ZOMBIE" /\ pc[q] = "dead" /\ current = parent[q]
  <2>1. CASE \E p \in Proc : SystemCall(p)
    BY <1>2, <2>1
  <2>2. CASE \E p \in Proc : KernelStep(p)
    <3>1. PICK p \in Proc : KernelStep(p)
      BY <2>2
    <3>2. CASE \E z \in Proc : WaitReap(p, z)
      BY <1>1, <1>5, <3>2
    <3>3. CASE \A z \in Proc : ~WaitReap(p, z)
      BY <1>3, <3>1, <3>3
    <3>. QED  BY <3>2, <3>3
  <2>3. CASE TimerIRQ \/ UNCHANGED vars
    BY <1>4, <2>3
  <2>. QED  BY <1>5, <2>1, <2>2, <2>3 DEF Next
<1>. DEFINE A == \A p \in live \ live' :
                   /\ state[p] = "ZOMBIE" /\ pc[p] = "dead"
                   /\ current = parent[p]
<1>6. ProcIInv /\ [Next]_vars => [A]_vars
  BY <1>5
<1>. QED  BY <1>6, ProcessInvariance, PTL DEF Spec, OnlyParentReaps

-----------------------------------------------------------------------------
(* The process tree has its root in idle, and init_main leaves it empty. *)

\* Everybody descends from idle: a set of processes with idle in it that has every
\* child of its members has every process.  (So there is no cycle of parents.)
Rooted ==
  \A S \in SUBSET Proc :
    idle \in S /\ (\A p \in live : parent[p] \in S => p \in S) => live \subseteq S

\* idle has created init and nobody else, and init waits for whoever exits; once
\* do_wait has told it that it has no child, it gets none.
InitMainOK ==
  /\ kids[idle] = <<init>>
  /\ waitpid[init] = AnyChild
  /\ pc[init] = "init_done" => \A p \in live : parent[p] # init

TreeIInv == ProcIInv /\ Rooted /\ InitMainOK

LEMMA TreeIInvInit == Init => TreeIInv
<1>. SUFFICES ASSUME Init PROVE TreeIInv
  OBVIOUS
<1>. USE ProcAssumption, ProcessAssumption
<1>1. ProcIInv
  BY InitHolds
<1>2. Rooted
  BY DEF Init, Rooted
<1>3. InitMainOK
  BY DEF Init, InitMainOK
<1>. QED  BY <1>1, <1>2, <1>3 DEF TreeIInv

LEMMA RootedFork ==
  ASSUME TreeIInv, NEW p \in Proc, NEW c \in Proc, Fork(p, c)
  PROVE  Rooted'
<1>1. /\ p \in live /\ c \notin live /\ live' = live \cup {c} /\ live \subseteq Proc
      /\ \A q \in Proc : parent'[q] = IF q = c THEN p ELSE parent[q]
  BY DEF Fork, At, TreeIInv, ProcIInv, TableInv, TypeOK, PointOK
<1>. SUFFICES ASSUME NEW S \in SUBSET Proc, idle \in S,
                     \A q \in live' : parent'[q] \in S => q \in S
              PROVE  live' \subseteq S
  BY DEF Rooted
<1>2. \A q \in live : parent[q] \in S => q \in S
  BY <1>1
<1>3. live \subseteq S
  BY <1>2 DEF TreeIInv, Rooted
<1>. QED  BY <1>1, <1>3

(* A process that is reaped is a leaf: without it the others are still rooted. *)
LEMMA RootedReap ==
  ASSUME TreeIInv, NEW p \in Proc, NEW z \in Proc, WaitReap(p, z)
  PROVE  Rooted'
<1>1. /\ live' = live \ {z} /\ live \subseteq Proc
      /\ \A q \in Proc : parent'[q] = IF q = z THEN idle ELSE parent[q]
  BY ProcAssumption DEF WaitReap, TreeIInv, ProcIInv, TableInv, TypeOK
<1>2. z # idle /\ \A q \in live \ {idle} : parent[q] # z
  BY ReapFacts DEF TreeIInv
<1>. SUFFICES ASSUME NEW S \in SUBSET Proc, idle \in S,
                     \A q \in live' : parent'[q] \in S => q \in S
              PROVE  live' \subseteq S
  BY DEF Rooted
<1>3. \A q \in live : parent[q] \in S \cup {z} => q \in S \cup {z}
  BY <1>1, <1>2
<1>4. live \subseteq S \cup {z}
  BY <1>3 DEF TreeIInv, Rooted
<1>. QED  BY <1>1, <1>4

(* The children a process gives away in do_exit are rooted through init. *)
LEMMA RootedNotify ==
  ASSUME TreeIInv, NEW p \in Proc, ExitNotify(p)
  PROVE  Rooted'
<1>0. init \in Proc /\ idle \in Proc /\ init # idle
  BY ProcAssumption, ProcessAssumption
<1>1. live' = live /\ live \subseteq Proc /\ Inherit(p) /\ p = current /\ pc[p] = "exit_zombie"
  BY DEF ExitNotify, At, TreeIInv, ProcIInv, TableInv, TypeOK
<1>2. p # init
  BY <1>1 DEF TreeIInv, ProcIInv, RootsOK
<1>3. /\ \A q \in Proc : parent'[q] = IF q \in Children(p) THEN init ELSE parent[q]
      /\ \A q \in Children(p) : q \in live /\ q \in Proc /\ parent[q] = p
  BY <1>1, <1>2, InheritFacts DEF TreeIInv
<1>4. init \in live /\ parent[init] = idle
  <2>1. init \in live
    BY DEF TreeIInv, ProcIInv, RootsOK
  <2>2. init \in Children(parent[init]) /\ init \in Children(idle)
    <3>1. Children(idle) = {init}
      BY DEF TreeIInv, InitMainOK, Children, ToSet
    <3>. QED  BY <2>1, <3>1, <1>0 DEF TreeIInv, ProcIInv, TableInv, TreeWhole
  <2>. QED  BY <1>0, <2>1, <2>2 DEF TreeIInv, ProcIInv, TableInv, TreeWhole
<1>5. p # idle
  BY <1>1 DEF TreeIInv, ProcIInv, PointOK
<1>. SUFFICES ASSUME NEW S \in SUBSET Proc, idle \in S,
                     \A q \in live' : parent'[q] \in S => q \in S
              PROVE  live' \subseteq S
  BY DEF Rooted
<1>6. parent'[init] = idle
  BY <1>0, <1>3, <1>4, <1>5
<1>7. init \in S
  BY <1>1, <1>4, <1>6
<1>8. \A q \in live : parent[q] \in S => q \in S
  BY <1>1, <1>3, <1>7
<1>. QED  BY <1>1, <1>8 DEF TreeIInv, Rooted

(* Nothing moves once init_main has returned. *)
LEMMA InitMainDone ==
  ASSUME TreeIInv, pc[init] = "init_done", [Next]_vars
  PROVE  UNCHANGED vars
<1>0. init \in Proc /\ init # idle
  BY ProcessAssumption
<1>1. current = init
  BY <1>0 DEF TreeIInv, ProcIInv, PointOK
<1>2. ASSUME NEW p \in Proc, SystemCall(p) \/ KernelStep(p) PROVE FALSE
  BY <1>1, <1>2 DEF SystemCall, KernelStep, At, Fork, Kill, Wait, Exit, WaitReap, SwitchTo,
                    WaitSleep, WaitNobody, WaitAgain, ExitNotify, TrapReturn
<1>3. ~TimerIRQ
  BY DEF TimerIRQ, Halted
<1>. QED  BY <1>2, <1>3 DEF Next

LEMMA TreeIInvNext == ASSUME TreeIInv, [Next]_vars PROVE TreeIInv'
<1>. USE DEF TreeIInv
<1>0. init \in Proc /\ idle \in Proc /\ init # idle
  BY ProcAssumption, ProcessAssumption
<1>1. ProcIInv'
  BY NextKeeps
<1>2. CASE pc[init] = "init_done"
  <2>1. UNCHANGED <<live, parent, kids, waitpid, pc>>
    BY <1>2, InitMainDone DEF vars, procVars
  <2>. QED  BY <1>1, <2>1 DEF Rooted, InitMainOK
<1>3. CASE pc[init] # "init_done"
  <2>1. ASSUME NEW p \in Proc, NEW c \in Proc, Fork(p, c) PROVE TreeIInv'
    <3>1. p # idle
      BY <2>1 DEF Fork, At, ProcIInv, PointOK
    <3>2. UNCHANGED waitpid /\ kids'[idle] = kids[idle]
      BY <1>0, <2>1, <3>1 DEF Fork, ProcIInv, TableInv, TypeOK
    <3>3. pc'[init] # "init_done"
      BY <1>0, <1>3, <2>1 DEF Fork, ProcIInv, TableInv, TypeOK
    <3>. QED  BY <1>1, <2>1, <3>2, <3>3, RootedFork DEF InitMainOK
  <2>2. ASSUME NEW p \in Proc, NEW z \in Proc, WaitReap(p, z) PROVE TreeIInv'
    <3>1. p # idle
      BY <2>2, ReapFacts
    <3>2. waitpid'[init] = AnyChild /\ kids'[idle] = kids[idle]
      BY <1>0, <2>2, <3>1 DEF WaitReap, ProcIInv, TableInv, TypeOK, InitMainOK
    <3>3. pc'[init] # "init_done"
      BY <1>0, <1>3, <2>2 DEF WaitReap, ProcIInv, TableInv, TypeOK
    <3>. QED  BY <1>1, <2>2, <3>2, <3>3, RootedReap DEF InitMainOK
  <2>3. ASSUME NEW p \in Proc, ExitNotify(p) PROVE TreeIInv'
    <3>1. p # init /\ p # idle
      BY <2>3 DEF ExitNotify, At, ProcIInv, RootsOK, PointOK
    <3>2. UNCHANGED waitpid /\ kids'[idle] = kids[idle] /\ pc'[init] = pc[init]
      BY <1>0, <2>3, <3>1, InheritFacts DEF ExitNotify, Goto, ProcIInv, TableInv, TypeOK
    <3>. QED  BY <1>1, <1>3, <2>3, <3>2, RootedNotify DEF InitMainOK
  <2>4. CASE WaitNobody(init)
    <3>1. UNCHANGED <<live, parent, kids>> /\ waitpid'[init] = AnyChild
      BY <1>0, <2>4 DEF WaitNobody, ProcIInv, TableInv, TypeOK
    <3>2. \A p \in live : parent[p] # init
      BY <2>4 DEF WaitNobody, Awaited, InitMainOK
    <3>. QED  BY <1>1, <3>1, <3>2 DEF Rooted, InitMainOK
  <2>5. ASSUME UNCHANGED <<live, parent, kids>>, waitpid'[init] = AnyChild,
               pc'[init] # "init_done"
        PROVE  TreeIInv'
    BY <1>1, <2>5 DEF Rooted, InitMainOK
  <2>6. ASSUME NEW p \in Proc, NEW pid \in Proc \cup {AnyChild}, Wait(p, pid) PROVE TreeIInv'
    <3>1. p # init
      BY <2>6 DEF Wait, At, ProcIInv, RootsOK
    <3>. QED  BY <1>0, <1>3, <2>5, <2>6, <3>1
              DEF Wait, Goto, ProcIInv, TableInv, TypeOK, InitMainOK
  <2>7. ASSUME NEW p \in Proc, p # init, WaitNobody(p) PROVE TreeIInv'
    BY <1>0, <1>3, <2>5, <2>7 DEF WaitNobody, Goto, ProcIInv, TableInv, TypeOK, InitMainOK
  <2>8. ASSUME NEW p \in Proc, NEW next \in Proc, SwitchTo(p, next) PROVE TreeIInv'
    <3>1. UNCHANGED <<live, parent, kids, waitpid>> /\ pc'[init] # "init_done"
      BY <1>0, <1>3, <2>8, SwitchFacts
    <3>. QED  BY <2>5, <3>1 DEF InitMainOK
  <2>9. ASSUME NEW p \in Proc, WaitSleep(p) \/ WaitAgain(p) \/ Exit(p) \/ TrapReturn(p)
        PROVE  TreeIInv'
    <3>1. UNCHANGED <<live, parent, kids, waitpid>>
      BY <2>9 DEF WaitSleep, WaitAgain, Exit, TrapReturn
    <3>2. pc'[init] # "init_done"
      BY <1>0, <1>3, <2>9 DEF WaitSleep, WaitAgain, Exit, TrapReturn, Goto, ProcIInv, TableInv,
                              TypeOK
    <3>. QED  BY <2>5, <3>1, <3>2 DEF InitMainOK
  <2>10. ASSUME NEW p \in Proc, NEW q \in Proc, Kill(p, q) PROVE TreeIInv'
    BY <1>0, <1>3, <2>5, <2>10 DEF Kill, Goto, ProcIInv, TableInv, TypeOK, InitMainOK
  <2>11. CASE TimerIRQ
    BY <1>0, <1>3, <2>5, <2>11 DEF TimerIRQ, Goto, ProcIInv, TableInv, TypeOK, InitMainOK
  <2>12. CASE UNCHANGED vars
    BY <1>3, <2>5, <2>12 DEF vars, procVars, InitMainOK
  <2>13. ASSUME NEW p \in Proc, SystemCall(p) PROVE TreeIInv'
    BY <2>1, <2>6, <2>9, <2>10, <2>13 DEF SystemCall
  <2>14. ASSUME NEW p \in Proc, KernelStep(p) PROVE TreeIInv'
    BY <2>1, <2>2, <2>3, <2>4, <2>7, <2>8, <2>9, <2>14 DEF KernelStep
  <2>. QED  BY <2>11, <2>12, <2>13, <2>14 DEF Next
<1>. QED  BY <1>2, <1>3

THEOREM TreeInvariance == Spec => []TreeIInv
  BY TreeIInvInit, TreeIInvNext, PTL DEF Spec

(* The assertions at the end of init_main hold: when do_wait tells init that it has no
   child left, only idle and init are left of all processes.  As everybody descends
   from idle, whose only child is init, a process left over would descend from init. *)
THEOREM InitMainEndsAlone == Spec => []InitMainAssertions
<1>1. TreeIInv => InitMainAssertions
  <2>. SUFFICES ASSUME TreeIInv, pc[init] = "init_done"
                PROVE  kids[init] = <<>> /\ kids[idle] = <<init>> /\ NrProcess = 2
    BY DEF InitMainAssertions
  <2>. USE DEF TreeIInv
  <2>0. init \in Proc /\ idle \in Proc /\ init # idle
    BY ProcAssumption, ProcessAssumption
  <2>1. \A p \in live : parent[p] # init
    BY DEF InitMainOK
  <2>2. kids[init] = <<>>
    <3>1. kids[init] \in Seq(Proc) /\ Len(kids[init]) \in Nat
      BY <2>0 DEF ProcIInv, TableInv, TypeOK
    <3>2. CASE Len(kids[init]) = 0
      BY <3>1, <3>2
    <3>3. CASE Len(kids[init]) # 0
      <4>1. 1 \in DOMAIN kids[init]
        BY <3>1, <3>3
      <4>2. kids[init][1] \in Children(init)
        BY <4>1 DEF Children, ToSet
      <4>. QED  BY <2>0, <2>1, <4>2 DEF ProcIInv, TableInv, TreeWhole
    <3>. QED  BY <3>2, <3>3
  <2>3. Children(idle) = {init}
    BY DEF InitMainOK, Children, ToSet
  <2>4. ASSUME NEW p \in live, parent[p] \in {idle, init} PROVE p \in {idle, init}
    <3>1. parent[p] = idle
      BY <2>1, <2>4
    <3>2. p = idle \/ p \in Children(idle)
      BY <3>1 DEF ProcIInv, TableInv, TreeWhole
    <3>. QED  BY <2>3, <3>2
  <2>5. live \subseteq {idle, init}
    BY <2>0, <2>4 DEF Rooted
  <2>6. live = {idle} \cup {init}
    BY <2>5 DEF ProcIInv, RootsOK
  <2>7. IsFiniteSet({idle}) /\ Cardinality({idle}) = 1
    BY FS_Singleton
  <2>8. Cardinality({idle} \cup {init}) = 2
    BY <2>0, <2>7, FS_AddElement
  <2>9. kids[idle] = <<init>>
    BY DEF InitMainOK
  <2>. QED  BY <2>2, <2>6, <2>8, <2>9 DEF NrProcess
<1>. QED  BY <1>1, TreeInvariance, PTL

-----------------------------------------------------------------------------
(* get_pid. *)
-----------------------------------------------------------------------------
(* The list of processes. *)

\* No more pids in a list than it is long.
LEMMA ListCardinality ==
  ASSUME NEW S, NEW s \in Seq(S), NEW T \in SUBSET ToSet(s)
  PROVE  IsFiniteSet(T) /\ Cardinality(T) <= Len(s) /\ Cardinality(T) \in Nat
<1>1. Len(s) \in Nat /\ s \in [1..Len(s) -> ToSet(s)] /\ DOMAIN s = 1..Len(s)
  BY DEF ToSet
<1>2. s \in Surjection(1..Len(s), ToSet(s))
  BY <1>1 DEF ToSet, Surjection
<1>3. IsFiniteSet(1..Len(s)) /\ Cardinality(1..Len(s)) = Len(s)
  BY <1>1, FS_Interval
<1>4. IsFiniteSet(ToSet(s)) /\ Cardinality(ToSet(s)) <= Len(s)
  BY <1>2, <1>3, FS_Surjection
<1>5. IsFiniteSet(T) /\ Cardinality(T) <= Cardinality(ToSet(s))
  BY <1>4, FS_Subset
<1>6. Cardinality(T) \in Nat /\ Cardinality(ToSet(s)) \in Nat
  BY <1>4, <1>5, FS_CardinalityType
<1>. QED  BY <1>1, <1>4, <1>5, <1>6

-----------------------------------------------------------------------------
(* The pids are right. *)

\* In a call the candidate is a pid, below the bound; and the list has room.
Candidate ==
  le # 0 => last_pid \in Pid /\ last_pid < next_safe /\ Len(proc_list) < MaxListed

PidIInv == PidInv /\ Candidate

LEMMA PidInitInv == PidInit => PidIInv
<1>. SUFFICES ASSUME PidInit PROVE PidIInv
  OBVIOUS
<1>1. proc_list \in Seq(Pid) /\ Len(proc_list) = 0 /\ DOMAIN proc_list = {}
  BY DEF PidInit
<1>. QED  BY <1>1, PidAssumption
     DEF PidInit, PidIInv, PidInv, PidTypeOK, NoneBetween, FreshPid, PidsDistinct,
         IsInjective, Candidate

\* What PidIInv says index by index, as the steps below use it.
LEMMA Unfolded ==
  ASSUME PidIInv
  PROVE  /\ Len(proc_list) \in Nat /\ DOMAIN proc_list = 1..Len(proc_list)
         /\ \A i \in 1..Len(proc_list) : proc_list[i] \in 1..MAX_PID - 1
         /\ MAX_PID \in Nat /\ MaxListed \in Nat /\ MAX_PID > 1
         /\ last_pid \in 1..MAX_PID /\ next_safe \in 1..MAX_PID
         /\ le \in 0..Len(proc_list) + 1 /\ restarts \in Nat
BY PidAssumption DEF PidIInv, PidInv, PidTypeOK, Pid

LEMMA GetPidInv == PidIInv /\ GetPid => PidIInv'
<1>. SUFFICES ASSUME PidIInv, GetPid PROVE PidIInv'
  OBVIOUS
<1>1. proc_list' = proc_list /\ le = 0 /\ restarts' = 0 /\ Len(proc_list) < MaxListed
  BY DEF GetPid
<1>2. CASE last_pid + 1 < MAX_PID /\ StillSafe(last_pid + 1)
  <2>1. /\ last_pid' = last_pid + 1 /\ le' = Len(proc_list) + 1 /\ next_safe' = next_safe
        /\ last_pid + 1 < next_safe
    BY <1>2, Unfolded DEF GetPid, StillSafe
  <2>2. \A i \in 1..Len(proc_list) : ~(last_pid + 1 <= proc_list[i] /\ proc_list[i] < next_safe)
    BY <1>1, Unfolded DEF PidIInv, PidInv, NoneBetween
  <2>3. PidTypeOK' /\ Candidate'
    BY <1>1, <1>2, <2>1, Unfolded DEF PidIInv, PidInv, PidTypeOK, Candidate, Pid
  <2>4. NoneBetween'
    BY <1>1, <2>1, <2>2, Unfolded DEF NoneBetween
  <2>5. FreshPid'
    BY <1>1, <1>2, <2>1, <2>2, Unfolded DEF FreshPid, ToSet, Pid
  <2>. QED  BY <1>1, <2>3, <2>4, <2>5 DEF PidIInv, PidInv, PidsDistinct
<1>3. CASE ~(last_pid + 1 < MAX_PID /\ StillSafe(last_pid + 1))
  <2>1. /\ last_pid' \in 1..MAX_PID - 1 /\ le' = 1 /\ next_safe' = MAX_PID
    BY <1>3, Unfolded DEF GetPid
  <2>2. PidTypeOK' /\ Candidate'
    BY <1>1, <2>1, Unfolded DEF PidIInv, PidInv, PidTypeOK, Candidate, Pid
  <2>3. NoneBetween'
    BY <1>1, <2>1, Unfolded DEF NoneBetween
  <2>4. FreshPid'
    BY <1>1, <2>1, Unfolded DEF FreshPid, ToSet, Pid
  <2>. QED  BY <1>1, <2>2, <2>3, <2>4 DEF PidIInv, PidInv, PidsDistinct
<1>. QED  BY <1>2, <1>3

LEMMA TakenInv == PidIInv /\ Taken => PidIInv'
<1>. SUFFICES ASSUME PidIInv, Taken PROVE PidIInv'
  OBVIOUS
<1>1. /\ proc_list' = proc_list /\ le \in 1..Len(proc_list) /\ proc_list[le] = last_pid
      /\ last_pid \in 1..MAX_PID - 1 /\ last_pid < next_safe /\ Len(proc_list) < MaxListed
  BY Unfolded DEF Taken, Walking, PidIInv, Candidate, Pid
<1>2. CASE StillSafe(last_pid + 1)
  <2>1. /\ last_pid' = last_pid + 1 /\ le' = le + 1 /\ next_safe' = next_safe
        /\ restarts' = restarts /\ last_pid + 1 < next_safe
    BY <1>2, Unfolded DEF Taken, StillSafe
  <2>2. \A i \in 1..Len(proc_list) :
          i < le + 1 => ~(last_pid + 1 <= proc_list[i] /\ proc_list[i] < next_safe)
    <3>. TAKE i \in 1..Len(proc_list)
    <3>1. i < le => ~(last_pid <= proc_list[i] /\ proc_list[i] < next_safe)
      BY Unfolded DEF PidIInv, PidInv, NoneBetween
    <3>. QED  BY <1>1, <3>1, Unfolded
  <2>3. PidTypeOK' /\ Candidate'
    BY <1>1, <2>1, Unfolded DEF PidIInv, PidInv, PidTypeOK, Candidate, Pid
  <2>4. NoneBetween'
    BY <1>1, <2>1, <2>2, Unfolded DEF NoneBetween
  <2>5. FreshPid'
    BY <1>1, <2>1, <2>2, Unfolded DEF FreshPid, ToSet, Pid
  <2>. QED  BY <1>1, <2>3, <2>4, <2>5 DEF PidIInv, PidInv, PidsDistinct
<1>3. CASE ~StillSafe(last_pid + 1)
  <2>1. /\ last_pid' \in 1..MAX_PID - 1 /\ le' = 1 /\ next_safe' = MAX_PID
        /\ restarts' = restarts + 1
    BY <1>1, <1>3, Unfolded DEF Taken, AgainFrom
  <2>2. PidTypeOK' /\ Candidate'
    BY <1>1, <2>1, Unfolded DEF PidIInv, PidInv, PidTypeOK, Candidate, Pid
  <2>3. NoneBetween'
    BY <1>1, <2>1, Unfolded DEF NoneBetween
  <2>4. FreshPid'
    BY <1>1, <2>1, Unfolded DEF FreshPid
  <2>. QED  BY <1>1, <2>2, <2>3, <2>4 DEF PidIInv, PidInv, PidsDistinct
<1>. QED  BY <1>2, <1>3

LEMMA OtherInv == PidIInv /\ Other => PidIInv'
<1>. SUFFICES ASSUME PidIInv, Other PROVE PidIInv'
  OBVIOUS
<1>1. /\ proc_list' = proc_list /\ le \in 1..Len(proc_list) /\ proc_list[le] # last_pid
      /\ last_pid' = last_pid /\ le' = le + 1 /\ restarts' = restarts
      /\ last_pid \in 1..MAX_PID - 1 /\ last_pid < next_safe /\ Len(proc_list) < MaxListed
  BY Unfolded DEF Other, Walking, PidIInv, Candidate, Pid
<1>2. /\ next_safe' \in 1..MAX_PID /\ next_safe' <= next_safe /\ last_pid < next_safe'
      /\ proc_list[le] > last_pid => next_safe' <= proc_list[le]
  BY <1>1, Unfolded DEF Other
<1>3. \A i \in 1..Len(proc_list) :
        i < le + 1 => ~(last_pid <= proc_list[i] /\ proc_list[i] < next_safe')
  <2>. TAKE i \in 1..Len(proc_list)
  <2>1. i < le => ~(last_pid <= proc_list[i] /\ proc_list[i] < next_safe)
    BY Unfolded DEF PidIInv, PidInv, NoneBetween
  <2>. QED  BY <1>1, <1>2, <2>1, Unfolded
<1>4. PidTypeOK' /\ Candidate'
  BY <1>1, <1>2, Unfolded DEF PidIInv, PidInv, PidTypeOK, Candidate, Pid
<1>5. NoneBetween'
  BY <1>1, <1>3, Unfolded DEF NoneBetween
<1>6. FreshPid'
  BY <1>1, <1>2, <1>3, Unfolded DEF FreshPid, ToSet, Pid
<1>. QED  BY <1>1, <1>4, <1>5, <1>6 DEF PidIInv, PidInv, PidsDistinct

LEMMA LinkedInv == PidIInv /\ Linked => PidIInv'
<1>. SUFFICES ASSUME PidIInv, Linked PROVE PidIInv'
  OBVIOUS
<1>. DEFINE n == Len(proc_list)
<1>1. /\ le = n + 1 /\ proc_list' = <<last_pid>> \o proc_list /\ le' = 0 /\ restarts' = 0
      /\ last_pid' = last_pid /\ next_safe' = next_safe
  BY DEF Linked
<1>2. last_pid \in Pid /\ \A i \in 1..n : proc_list[i] # last_pid
  BY <1>1, Unfolded DEF PidIInv, PidInv, FreshPid, ToSet
<1>3. /\ proc_list' \in Seq(Pid) /\ Len(proc_list') = n + 1
      /\ proc_list'[1] = last_pid
      /\ \A i \in 2..n + 1 : proc_list'[i] = proc_list[i - 1]
  BY <1>1, <1>2, PrependFacts DEF PidIInv, PidInv, PidTypeOK
<1>4. DOMAIN proc_list' = 1..n + 1
  BY <1>3
<1>5. PidTypeOK' /\ Candidate'
  BY <1>1, <1>3, Unfolded DEF PidIInv, PidInv, PidTypeOK, Candidate
<1>6. NoneBetween'
  <2>1. \A i \in 1..n : ~(last_pid <= proc_list[i] /\ proc_list[i] < next_safe)
    BY <1>1, Unfolded DEF PidIInv, PidInv, NoneBetween
  <2>2. \A i \in 1..n + 1 : ~(last_pid < proc_list'[i] /\ proc_list'[i] < next_safe)
    <3>. TAKE i \in 1..n + 1
    <3>1. CASE i = 1
      BY <1>3, <3>1, Unfolded
    <3>2. CASE i # 1
      <4>1. i - 1 \in 1..n /\ proc_list'[i] = proc_list[i - 1]
        BY <1>3, <3>2, Unfolded
      <4>2. ~(last_pid <= proc_list[i - 1] /\ proc_list[i - 1] < next_safe)
        BY <2>1, <4>1
      <4>. QED  BY <4>1, <4>2, Unfolded
    <3>. QED  BY <3>1, <3>2
  <2>. QED  BY <1>1, <1>4, <2>2 DEF NoneBetween
<1>7. FreshPid'
  BY <1>1, <1>3, Unfolded DEF FreshPid
<1>8. PidsDistinct'
  <2>1. \A i, j \in 1..n : proc_list[i] = proc_list[j] => i = j
    BY Unfolded DEF PidIInv, PidInv, PidsDistinct, IsInjective
  <2>. SUFFICES ASSUME NEW i \in 1..n + 1, NEW j \in 1..n + 1, proc_list'[i] = proc_list'[j]
                PROVE  i = j
    BY <1>4 DEF PidsDistinct, IsInjective
  <2>2. CASE i = 1 \/ j = 1
    BY <1>2, <1>3, <2>2, Unfolded
  <2>3. CASE i # 1 /\ j # 1
    <3>1. /\ i - 1 \in 1..n /\ j - 1 \in 1..n
          /\ proc_list'[i] = proc_list[i - 1] /\ proc_list'[j] = proc_list[j - 1]
      BY <1>3, <2>3, Unfolded
    <3>2. i - 1 = j - 1
      BY <2>1, <3>1
    <3>. QED  BY <3>2, Unfolded
  <2>. QED  BY <2>2, <2>3
<1>. QED  BY <1>5, <1>6, <1>7, <1>8 DEF PidIInv, PidInv

LEMMA UnlinkedInv == ASSUME NEW i \in DOMAIN proc_list PROVE PidIInv /\ Unlinked(i) => PidIInv'
<1>. SUFFICES ASSUME PidIInv, Unlinked(i) PROVE PidIInv'
  OBVIOUS
<1>. DEFINE n == Len(proc_list)
            from(j) == IF j < i THEN j ELSE j + 1
<1>1. /\ le = 0 /\ i \in 1..n /\ proc_list' = RemoveAt(proc_list, i)
      /\ last_pid' = last_pid /\ next_safe' = next_safe /\ le' = le /\ restarts' = restarts
  BY Unfolded DEF Unlinked
<1>2. /\ proc_list' \in Seq(Pid) /\ Len(proc_list') = n - 1
      /\ \A j \in 1..n - 1 : proc_list'[j] = IF j < i THEN proc_list[j] ELSE proc_list[j + 1]
  BY <1>1, RemoveAtFacts DEF PidIInv, PidInv, PidTypeOK
<1>3. DOMAIN proc_list' = 1..n - 1
  BY <1>2
<1>4. \A j \in 1..n - 1 : from(j) \in 1..n /\ proc_list'[j] = proc_list[from(j)]
  BY SMTT(40), <1>1, <1>2, Unfolded
<1>5. PidTypeOK' /\ Candidate'
  BY <1>1, <1>2, Unfolded DEF PidIInv, PidInv, PidTypeOK, Candidate
<1>6. NoneBetween'
  <2>1. \A j \in 1..n : ~(last_pid < proc_list[j] /\ proc_list[j] < next_safe)
    BY <1>1, Unfolded DEF PidIInv, PidInv, NoneBetween
  <2>. HIDE DEF from
  <2>2. \A j \in 1..n - 1 : ~(last_pid < proc_list'[j] /\ proc_list'[j] < next_safe)
    BY <1>4, <2>1
  <2>3. \A j \in 1..n - 1 : ~(j < 0)
    OBVIOUS
  <2>. QED  BY <1>1, <1>3, <2>2, <2>3 DEF NoneBetween
<1>7. FreshPid'
  BY <1>1, <1>2, Unfolded DEF FreshPid
<1>8. PidsDistinct'
  <2>1. \A j, k \in 1..n : proc_list[j] = proc_list[k] => j = k
    BY Unfolded DEF PidIInv, PidInv, PidsDistinct, IsInjective
  <2>. SUFFICES ASSUME NEW j \in 1..n - 1, NEW k \in 1..n - 1, proc_list'[j] = proc_list'[k]
                PROVE  j = k
    BY <1>3 DEF PidsDistinct, IsInjective
  <2>2. from(j) = from(k)
    BY <1>4, <2>1
  <2>. QED  BY SMTT(40), <1>1, <2>2, Unfolded
<1>. QED  BY <1>5, <1>6, <1>7, <1>8 DEF PidIInv, PidInv

LEMMA PidStep == PidIInv /\ [PidNext]_pidVars => PidIInv'
<1>. SUFFICES ASSUME PidIInv, [PidNext]_pidVars PROVE PidIInv'
  OBVIOUS
<1>1. CASE UNCHANGED pidVars
  BY <1>1 DEF pidVars, PidIInv, PidInv, PidTypeOK, NoneBetween, FreshPid, PidsDistinct, Candidate
<1>. QED
  BY <1>1, GetPidInv, TakenInv, OtherInv, LinkedInv, UnlinkedInv DEF PidNext

\* No two processes ever have one pid, get_pid returns a pid nobody has, and what it
\* keeps between calls is right: for every MAX_PID and every length of the list.
THEOREM PidsAreFresh == PidSpec => []PidInv
<1>1. PidIInv => PidInv
  BY DEF PidIInv
<1>. QED  BY PidInitInv, PidStep, <1>1, PTL DEF PidSpec

-----------------------------------------------------------------------------
(* The walk ends. *)

\* The pids from a up to the candidate, going round at the end of the pids, and how
\* many they are.
Tried(a) ==
  {p \in Pid : IF a <= last_pid THEN a <= p /\ p < last_pid ELSE a <= p \/ p < last_pid}

TriedCount(a) == IF a <= last_pid THEN last_pid - a ELSE MAX_PID - a + last_pid - 1

\* A walk began at some pid a, each pid it has tried since is taken, and it began again
\* no more often than it tried one.
WalkInv ==
  /\ le = 0 => restarts = 0
  /\ le # 0 => \E a \in Pid : Tried(a) \subseteq ToSet(proc_list) /\ restarts <= TriedCount(a)

LEMMA TriedCardinality ==
  ASSUME NEW first \in Pid, last_pid \in Pid
  PROVE  IsFiniteSet(Tried(first)) /\ Cardinality(Tried(first)) = TriedCount(first)
<1>1. MAX_PID \in Nat /\ MAX_PID > 1 /\ first \in 1..MAX_PID - 1 /\ last_pid \in 1..MAX_PID - 1
  BY PidAssumption DEF Pid
<1>2. CASE first <= last_pid
  <2>1. Tried(first) = first..last_pid - 1
    BY <1>1, <1>2 DEF Tried, Pid
  <2>2. IsFiniteSet(first..last_pid - 1) /\ Cardinality(first..last_pid - 1) = last_pid - first
    <3>. DEFINE to == last_pid - 1
    <3>1. first \in Int /\ to \in Int /\ (IF first > to THEN 0 ELSE to - first + 1) = last_pid - first
      BY <1>1, <1>2
    <3>. HIDE DEF to
    <3>2. /\ IsFiniteSet(first..to)
          /\ Cardinality(first..to) = IF first > to THEN 0 ELSE to - first + 1
      BY <3>1, FS_Interval
    <3>. QED  BY <3>1, <3>2 DEF to
  <2>. QED  BY <1>2, <2>1, <2>2 DEF TriedCount
<1>3. CASE last_pid < first
  <2>1. Tried(first) = 1..MAX_PID - 1 \ last_pid..first - 1
    BY <1>1, <1>3 DEF Tried, Pid
  <2>2. IsFiniteSet(1..MAX_PID - 1) /\ Cardinality(1..MAX_PID - 1) = MAX_PID - 1
    BY <1>1, FS_Interval
  <2>3. IsFiniteSet(last_pid..first - 1) /\ Cardinality(last_pid..first - 1) = first - last_pid
    BY <1>1, <1>3, FS_Interval
  <2>4. 1..MAX_PID - 1 \cap last_pid..first - 1 = last_pid..first - 1
    BY <1>1
  <2>5. /\ IsFiniteSet(Tried(first))
        /\ Cardinality(Tried(first)) = MAX_PID - 1 - (first - last_pid)
    <3>. DEFINE pids == 1..MAX_PID - 1
                untried == last_pid..first - 1
    <3>1. Tried(first) = pids \ untried /\ pids \cap untried = untried
      BY <2>1, <2>4
    <3>2. IsFiniteSet(pids) /\ Cardinality(pids) = MAX_PID - 1
      BY <2>2
    <3>3. Cardinality(untried) = first - last_pid
      BY <2>3
    <3>. HIDE DEF pids, untried
    <3>4. /\ IsFiniteSet(pids \ untried)
          /\ Cardinality(pids \ untried) = Cardinality(pids) - Cardinality(pids \cap untried)
      BY <3>2, FS_Difference
    <3>. QED  BY <3>1, <3>2, <3>3, <3>4
  <2>. QED  BY <1>1, <1>3, <2>5 DEF TriedCount
<1>. QED  BY <1>1, <1>2, <1>3

\* The list has fewer processes than there are pids.
LEMMA PidLeft ==
  ASSUME PidIInv, Len(proc_list) < MaxListed
  PROVE  ~(Pid \subseteq ToSet(proc_list))
<1>1. SUFFICES ASSUME Pid \subseteq ToSet(proc_list) PROVE FALSE
  OBVIOUS
<1>2. proc_list \in Seq(Pid) /\ Pid \in SUBSET ToSet(proc_list)
  BY <1>1 DEF PidIInv, PidInv, PidTypeOK
<1>3. Cardinality(Pid) <= Len(proc_list)
  BY <1>2, ListCardinality
<1>4. Cardinality(Pid) = MAX_PID - 1
  BY PidAssumption, FS_Interval DEF Pid
<1>. QED  BY <1>3, <1>4, PidAssumption, Unfolded

LEMMA WalkBegins == PidIInv /\ GetPid => WalkInv'
<1>. SUFFICES ASSUME PidIInv, GetPid PROVE WalkInv'
  OBVIOUS
<1>1. restarts' = 0 /\ le' # 0 /\ PidIInv'
  BY GetPidInv, Unfolded DEF GetPid
<1>2. last_pid' \in Pid
  BY <1>1 DEF PidIInv, Candidate
<1>3. Tried(last_pid)' = {} /\ TriedCount(last_pid)' = 0
  <2>. PICK c \in Pid : c = last_pid'
    BY <1>2
  <2>0. c \in Int
    BY PidAssumption DEF Pid
  <2>1. \A x, y \in Int : x = y => x <= y /\ x - y = 0
    OBVIOUS
  <2>2. \A p \in Pid : ~(c <= p /\ p < c)
    BY PidAssumption DEF Pid
  <2>3. c <= c /\ c - c = 0
    BY <2>0, <2>1
  <2>. QED  BY <2>2, <2>3 DEF Tried, TriedCount
<1>. QED  BY <1>1, <1>2, <1>3 DEF WalkInv, Tried, TriedCount

\* The candidate that is taken joins those that were tried.
LEMMA WalkTaken == PidIInv /\ WalkInv /\ Taken => WalkInv'
<1>. SUFFICES ASSUME PidIInv, WalkInv, Taken PROVE WalkInv'
  OBVIOUS
<1>1. /\ MAX_PID \in Nat /\ MAX_PID > 1 /\ next_safe \in 1..MAX_PID /\ restarts \in Nat
      /\ proc_list' = proc_list /\ le # 0 /\ le' # 0 /\ last_pid \in ToSet(proc_list)
      /\ last_pid \in 1..MAX_PID - 1 /\ Len(proc_list) < MaxListed
  BY Unfolded DEF Taken, Walking, PidIInv, Candidate, Pid, ToSet
<1>2. PICK a \in Pid : Tried(a) \subseteq ToSet(proc_list) /\ restarts <= TriedCount(a)
  BY <1>1 DEF WalkInv
<1>3. a \in 1..MAX_PID - 1
  BY DEF Pid
<1>4. /\ last_pid' = IF last_pid + 1 >= MAX_PID THEN 1 ELSE last_pid + 1
      /\ restarts' \in {restarts, restarts + 1}
  BY <1>1 DEF Taken, StillSafe, AgainFrom
<1>5. Tried(a) \cup {last_pid} \subseteq ToSet(proc_list)
  BY <1>1, <1>2
<1>6. Tried(a) \cup {last_pid} # Pid
  BY <1>1, <1>5, PidLeft
<1>7. CASE a <= last_pid /\ last_pid + 1 < MAX_PID
  <2>1. Tried(a)' = Tried(a) \cup {last_pid} /\ TriedCount(a)' = TriedCount(a) + 1
    BY <1>1, <1>3, <1>4, <1>7 DEF Tried, TriedCount, Pid
  <2>. QED  BY <1>1, <1>2, <1>3, <1>4, <1>5, <2>1 DEF WalkInv, Tried, TriedCount
<1>8. CASE a <= last_pid /\ last_pid + 1 >= MAX_PID
  <2>1. a # 1
    BY <1>1, <1>6, <1>8 DEF Tried, Pid
  <2>2. Tried(a)' = Tried(a) \cup {last_pid} /\ TriedCount(a)' = TriedCount(a) + 1
    BY <1>1, <1>3, <1>4, <1>8, <2>1 DEF Tried, TriedCount, Pid
  <2>. QED  BY <1>1, <1>2, <1>3, <1>4, <1>5, <2>2 DEF WalkInv, Tried, TriedCount
<1>9. CASE last_pid < a
  <2>1. last_pid + 1 # a
    BY <1>1, <1>3, <1>6, <1>9 DEF Tried, Pid
  <2>2. Tried(a)' = Tried(a) \cup {last_pid} /\ TriedCount(a)' = TriedCount(a) + 1
    BY <1>1, <1>3, <1>4, <1>9, <2>1 DEF Tried, TriedCount, Pid
  <2>. QED  BY <1>1, <1>2, <1>3, <1>4, <1>5, <2>2 DEF WalkInv, Tried, TriedCount
<1>. QED  BY <1>1, <1>3, <1>7, <1>8, <1>9

LEMMA WalkStep == PidIInv /\ WalkInv /\ [PidNext]_pidVars => WalkInv'
<1>. SUFFICES ASSUME PidIInv, WalkInv, [PidNext]_pidVars PROVE WalkInv'
  OBVIOUS
<1>1. CASE UNCHANGED pidVars
  BY <1>1 DEF pidVars, WalkInv, Tried, TriedCount
<1>2. CASE Other
  <2>1. UNCHANGED <<proc_list, last_pid, restarts>> /\ le # 0 /\ le' # 0
    BY <1>2, Unfolded DEF Other, Walking
  <2>. QED  BY <2>1 DEF WalkInv, Tried, TriedCount
<1>3. CASE Linked
  BY <1>3 DEF Linked, WalkInv
<1>4. CASE \E i \in DOMAIN proc_list : Unlinked(i)
  BY <1>4 DEF Unlinked, WalkInv
<1>. QED  BY <1>1, <1>2, <1>3, <1>4, WalkBegins, WalkTaken DEF PidNext

\* get_pid begins its walk again at most once for each process in the list, so it
\* comes back, for every MAX_PID and however crowded the list is.
THEOREM WalksEnd == PidSpec => []WalkEnds
<1>1. PidInit => WalkInv
  BY DEF PidInit, WalkInv
<1>2. PidIInv /\ WalkInv => WalkEnds
  <2>. SUFFICES ASSUME PidIInv, WalkInv PROVE WalkEnds
    OBVIOUS
  <2>1. CASE le = 0
    BY <2>1, Unfolded DEF WalkInv, WalkEnds
  <2>2. CASE le # 0
    <3>1. PICK a \in Pid : Tried(a) \subseteq ToSet(proc_list) /\ restarts <= TriedCount(a)
      BY <2>2 DEF WalkInv
    <3>2. last_pid \in Pid /\ proc_list \in Seq(Pid) /\ Tried(a) \in SUBSET ToSet(proc_list)
      BY <2>2, <3>1 DEF PidIInv, Candidate, PidInv, PidTypeOK
    <3>3. Cardinality(Tried(a)) = TriedCount(a)
      BY <3>2, TriedCardinality
    <3>4. Cardinality(Tried(a)) <= Len(proc_list) /\ Cardinality(Tried(a)) \in Nat
      BY <3>2, ListCardinality
    <3>. QED  BY <3>1, <3>3, <3>4, Unfolded DEF WalkEnds
  <2>. QED  BY <2>1, <2>2
<1>. QED  BY PidInitInv, PidStep, WalkStep, <1>1, <1>2, PTL DEF PidSpec
=============================================================================
