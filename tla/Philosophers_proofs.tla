------------------------- MODULE Philosophers_proofs -------------------------
(* Proofs that one thread at a time has the monitor, that its counters are right
   whenever they are read and that no signaller is left behind; that the philosophers
   use the monitor as it is meant, that their forks are those of DiningTable and that
   nobody is hungry without a reason; and that the semaphore solution of check_sync
   implements the same table and accounts for every permit, for every number of
   philosophers and of meals. *)
EXTENDS SemaPhilosophers, QueueLemmas

-----------------------------------------------------------------------------
(* The monitor, whoever calls its routines.  Nothing here cites anything of the
   philosophers: with MonitorAssumption alone it holds of every finite set of threads
   and every set of condition variables. *)


Queued(s) == ToSet(queue[s])

\* The semaphore a thread waits at, or was let through by, is the one of its call.
StandsAt(p, s) ==
  \/ s = mutex /\ pc[p] = "entering"
  \/ s = next /\ pc[p] = "signaling"
  \/ s \in CV /\ pc[p] = "waiting" /\ cv[p] = s

Types ==
  /\ value \in [Sem -> 0..1]
  /\ queue \in [Sem -> Seq(Proc)]
  /\ granted \in [Sem -> SUBSET Proc]
  /\ count \in [CV -> Nat] /\ next_count \in Nat
  /\ cv \in [Proc -> CV]
  /\ pc \in [Proc -> PC]
  /\ running \in Proc \cup {nobody}

QueuesInjective == \A s \in Sem : IsInjective(queue[s])

Standing ==
  /\ \A s \in Sem : granted[s] \cap Queued(s) = {}
  /\ \A s \in Sem, p \in Proc : p \in Queued(s) \cup granted[s] => StandsAt(p, s)
  /\ \A p \in Proc, s \in CV \cup {next} : StandsAt(p, s) => p \in Queued(s) \cup granted[s]

\* The thread on the CPU is awake.
RunningAwake == \A s \in Sem : running \notin Queued(s)

OwnerUnique ==
  IF value[mutex] = 0 THEN \E o \in Proc : Owners = {o} ELSE Owners = {}

\* A thread that just gave up the monitor inside a call still has the CPU, so that
\* nobody else has entered it; after a signal it is not free.
HandingOver ==
  \A q \in Proc : pc[q] \in {"wait", "signal"} =>
    /\ running = q
    /\ \A p \in Proc : pc[p] # "in"
    /\ pc[q] = "signal" => value[mutex] = 0

Signallers == {p \in Proc : pc[p] = "signaling"}
WaitersOf(c) == {p \in Proc : pc[p] \in {"wait", "waiting"} /\ cv[p] = c}

Counted ==
  /\ next_count = Cardinality(Signallers)
  /\ \A c \in CV : count[c] = Cardinality(WaitersOf(c))

SignallersKept == Queued(next) # {} => value[mutex] = 0

\* The inductive invariant.
IndInv ==
  /\ Types /\ QueuesInjective /\ Standing /\ RunningAwake /\ OwnerUnique
  /\ HandingOver /\ Counted /\ NoStoredSignal /\ SignallersKept

-----------------------------------------------------------------------------
(* Semaphores. *)

LEMMA SemFacts ==
  /\ mutex \in Sem /\ next \in Sem /\ CV \subseteq Sem
  /\ mutex # next /\ mutex \notin CV /\ next \notin CV /\ nobody \notin Proc
BY MonitorAssumption DEF Sem

LEMMA QueuedInProc == ASSUME Types PROVE \A s \in Sem : Queued(s) \subseteq Proc
BY SetOfQueue DEF Types, Queued

\* up(s) where nobody waits, or for the first in the queue.
LEMMA UpFacts ==
  ASSUME Types, QueuesInjective, NEW s \in Sem, S!Up(s)
  PROVE  /\ queue' \in [Sem -> Seq(Proc)] /\ granted' \in [Sem -> SUBSET Proc]
         /\ QueuesInjective'
         /\ \/ /\ Queued(s) = {}
               /\ value' = [value EXCEPT ![s] = @ + 1]
               /\ granted' = granted
               /\ \A t \in Sem : Queued(t)' = Queued(t)
            \/ \E h \in Proc :
                 /\ h \in Queued(s)
                 /\ value' = value
                 /\ \A t \in Sem : /\ Queued(t)' = IF t = s THEN Queued(t) \ {h} ELSE Queued(t)
                                   /\ granted'[t] = IF t = s THEN granted[t] \cup {h}
                                                    ELSE granted[t]
<1>. DEFINE h == Head(queue[s])
<1>1. queue[s] \in Seq(Proc) /\ IsInjective(queue[s])
  BY DEF Types, QueuesInjective
<1>2. CASE queue[s] = <<>>
  <2>1. value' = [value EXCEPT ![s] = @ + 1] /\ queue' = queue /\ granted' = granted
    BY <1>2 DEF S!Up
  <2>2. Queued(s) = {}
    BY <1>1, <1>2, SetOfQueue DEF Queued
  <2>. QED  BY <2>1, <2>2 DEF Types, QueuesInjective, Queued
<1>3. CASE queue[s] # <<>>
  <2>1. /\ value' = value
        /\ queue' = [queue EXCEPT ![s] = Tail(@)]
        /\ granted' = [granted EXCEPT ![s] = @ \cup {h}]
    BY <1>3 DEF S!Up
  <2>2. /\ h \in ToSet(queue[s]) /\ h \in Proc /\ Tail(queue[s]) \in Seq(Proc)
        /\ ToSet(Tail(queue[s])) = ToSet(queue[s]) \ {h} /\ IsInjective(Tail(queue[s]))
    BY <1>1, <1>3, TailFacts
  <2>. HIDE DEF h
  <2>3. /\ queue' \in [Sem -> Seq(Proc)] /\ granted' \in [Sem -> SUBSET Proc]
        /\ \A t \in Sem : queue'[t] = IF t = s THEN Tail(queue[t]) ELSE queue[t]
        /\ \A t \in Sem : granted'[t] = IF t = s THEN granted[t] \cup {h} ELSE granted[t]
    BY <2>1, <2>2 DEF Types
  <2>4. QueuesInjective'
    BY <2>2, <2>3 DEF QueuesInjective
  <2>5. \A t \in Sem : Queued(t)' = IF t = s THEN Queued(t) \ {h} ELSE Queued(t)
    BY <2>2, <2>3 DEF Queued
  <2>6. h \in Queued(s)
    BY <2>2 DEF Queued
  <2>. QED  BY <2>1, <2>2, <2>3, <2>4, <2>5, <2>6
<1>. QED  BY <1>2, <1>3

\* down(s) of p that has to wait.
LEMMA WaitFacts ==
  ASSUME Types, QueuesInjective, NEW s \in Sem, NEW p \in Proc, S!Wait(p, s)
  PROVE  /\ queue' \in [Sem -> Seq(Proc)] /\ QueuesInjective'
         /\ value' = value /\ granted' = granted
         /\ \A t \in Sem : /\ Queued(t)' = IF t = s THEN Queued(t) \cup {p} ELSE Queued(t)
                           /\ p \notin Queued(t) \cup granted[t]
<1>1. queue[s] \in Seq(Proc) /\ IsInjective(queue[s])
  BY DEF Types, QueuesInjective
<1>2. /\ \A t \in Sem : p \notin Queued(t) \cup granted[t]
      /\ queue' = [queue EXCEPT ![s] = Append(@, p)]
      /\ value' = value /\ granted' = granted
  BY DEF S!Wait, S!Blocked, Queued, ToSet, S!ToSet
<1>3. /\ Append(queue[s], p) \in Seq(Proc)
      /\ ToSet(Append(queue[s], p)) = ToSet(queue[s]) \cup {p}
      /\ IsInjective(Append(queue[s], p))
  BY <1>1, <1>2, AppendFacts DEF Queued
<1>4. /\ queue' \in [Sem -> Seq(Proc)]
      /\ \A t \in Sem : queue'[t] = IF t = s THEN Append(queue[t], p) ELSE queue[t]
  BY <1>2, <1>3 DEF Types
<1>5. QueuesInjective'
  BY <1>3, <1>4 DEF QueuesInjective
<1>6. \A t \in Sem : Queued(t)' = IF t = s THEN Queued(t) \cup {p} ELSE Queued(t)
  BY <1>3, <1>4 DEF Queued
<1>. QED  BY <1>2, <1>4, <1>5, <1>6

-----------------------------------------------------------------------------
(* Who has the monitor. *)

Awake(p) == \A s \in Sem : p \notin Queued(s)

HasMonitor(p) ==
  pc[p] = "in" \/ (pc[p] \in {"entering", "waiting", "signaling"} /\ Awake(p))

LEMMA OwnersAre == Owners = {p \in Proc : HasMonitor(p)}
BY DEF Owners, Asleep, HasMonitor, Awake, Queued

LEMMA OwnersAreNext == Owners' = {p \in Proc : HasMonitor(p)'}
BY DEF Owners, Asleep, HasMonitor, Awake, Queued

\* While a thread is in the body of a routine nobody else has the monitor or gives it
\* up, and everybody else in a call sleeps: the counters are the queues.
LEMMA AtRest ==
  ASSUME IndInv, NEW p \in Proc, pc[p] = "in"
  PROVE  /\ value[mutex] = 0 /\ Owners = {p}
         /\ \A q \in Proc : q # p => ~HasMonitor(q)
         /\ \A q \in Proc : pc[q] \notin {"wait", "signal"}
         /\ Signallers = Queued(next)
         /\ \A c \in CV : WaitersOf(c) = Queued(c)
<1>1. p \in Owners
  BY OwnersAre DEF HasMonitor
<1>2. value[mutex] = 0 /\ Owners = {p}
  BY <1>1 DEF IndInv, OwnerUnique
<1>3. \A q \in Proc : q # p => ~HasMonitor(q)
  BY <1>2, OwnersAre
<1>4. \A q \in Proc : pc[q] \notin {"wait", "signal"}
  BY DEF IndInv, HandingOver
<1>5. ASSUME NEW q \in Proc, pc[q] \in {"waiting", "signaling"}
      PROVE  \E s \in Sem : q \in Queued(s) /\ StandsAt(q, s)
  <2>1. ~Awake(q)
    BY <1>3, <1>5 DEF HasMonitor
  <2>. QED  BY <2>1 DEF Awake, IndInv, Standing
<1>6. Signallers = Queued(next)
  <2>1. Signallers \subseteq Queued(next)
    BY <1>5, SemFacts DEF Signallers, StandsAt
  <2>2. Queued(next) \subseteq Signallers
    BY SemFacts, QueuedInProc DEF IndInv, Standing, StandsAt, Signallers
  <2>. QED  BY <2>1, <2>2
<1>7. ASSUME NEW c \in CV PROVE WaitersOf(c) = Queued(c)
  <2>1. WaitersOf(c) \subseteq Queued(c)
    BY <1>4, <1>5, SemFacts DEF WaitersOf, StandsAt
  <2>2. Queued(c) \subseteq WaitersOf(c)
    BY SemFacts, QueuedInProc DEF IndInv, Standing, StandsAt, WaitersOf
  <2>. QED  BY <2>1, <2>2
<1>. QED  BY <1>2, <1>3, <1>4, <1>6, <1>7

LEMMA CountedSets ==
  /\ IsFiniteSet(Signallers) /\ \A c \in CV : IsFiniteSet(WaitersOf(c))
  /\ IsFiniteSet(Proc)
BY MonitorAssumption, FS_Subset DEF Signallers, WaitersOf

-----------------------------------------------------------------------------
(* The three things that happen to the semaphores. *)

\* What the semaphores and the owner do, apart from the counters.
SemInv ==
  /\ value \in [Sem -> 0..1]
  /\ queue \in [Sem -> Seq(Proc)]
  /\ granted \in [Sem -> SUBSET Proc]
  /\ QueuesInjective /\ Standing /\ RunningAwake /\ OwnerUnique
  /\ HandingOver /\ NoStoredSignal /\ SignallersKept

\* A thread goes to sleep in down(s).
LEMMA Sleeps ==
  ASSUME IndInv, NEW p \in Proc, NEW s \in Sem, S!Wait(p, s),
         running = p, running' = nobody, cv' = cv,
         NEW x \in {"entering", "waiting", "signaling"}, pc' = [pc EXCEPT ![p] = x],
         ~HasMonitor(p), StandsAt(p, s)', s \in {mutex, next} => value[mutex] = 0
  PROVE  SemInv'
<1>1. /\ queue' \in [Sem -> Seq(Proc)] /\ QueuesInjective'
      /\ value' = value /\ granted' = granted
      /\ \A t \in Sem : /\ Queued(t)' = IF t = s THEN Queued(t) \cup {p} ELSE Queued(t)
                        /\ p \notin Queued(t) \cup granted[t]
  BY WaitFacts DEF IndInv
<1>2. \A q \in Proc : pc'[q] = IF q = p THEN x ELSE pc[q]
  BY DEF IndInv, Types
<1>3. \A q \in Proc, t \in Sem : q # p => (StandsAt(q, t)' <=> StandsAt(q, t))
  BY <1>2 DEF StandsAt
<1>4. \A t \in Sem : t # s => ~StandsAt(p, t)'
  BY SemFacts DEF StandsAt
<1>5. Standing'
  <2>1. \A t \in Sem : granted'[t] \cap Queued(t)' = {}
    BY <1>1 DEF IndInv, Standing
  <2>2. ASSUME NEW t \in Sem, NEW q \in Proc, q \in Queued(t)' \cup granted'[t]
        PROVE  StandsAt(q, t)'
    BY <1>1, <1>3, <2>2 DEF IndInv, Standing
  <2>3. ASSUME NEW q \in Proc, NEW t \in CV \cup {next}, StandsAt(q, t)'
        PROVE  q \in Queued(t)' \cup granted'[t]
    <3>1. t \in Sem
      BY SemFacts
    <3>. QED  BY <1>1, <1>3, <1>4, <2>3, <3>1 DEF IndInv, Standing
  <2>. QED  BY <2>1, <2>2, <2>3 DEF Standing
<1>6. RunningAwake'
  <2>1. \A t \in Sem : Queued(t) \subseteq Proc
    BY QueuedInProc DEF IndInv
  <2>2. \A t \in Sem : nobody \notin Queued(t)'
    BY <1>1, <2>1, SemFacts
  <2>. QED  BY <2>2 DEF RunningAwake
<1>7. OwnerUnique'
  <2>1. \A q \in Proc : q # p => (HasMonitor(q)' <=> HasMonitor(q))
    BY <1>1, <1>2 DEF HasMonitor, Awake
  <2>2. ~HasMonitor(p)'
    BY <1>1, <1>2 DEF HasMonitor, Awake
  <2>3. Owners' = Owners
    BY <2>1, <2>2, OwnersAre, OwnersAreNext
  <2>. QED  BY <1>1, <2>3 DEF IndInv, OwnerUnique
<1>8. HandingOver'
  BY <1>2 DEF IndInv, HandingOver
<1>9. NoStoredSignal' /\ SignallersKept' /\ value' \in [Sem -> 0..1]
      /\ granted' \in [Sem -> SUBSET Proc]
  BY <1>1, SemFacts DEF IndInv, Types, NoStoredSignal, SignallersKept
<1>. QED  BY <1>1, <1>5, <1>6, <1>7, <1>8, <1>9 DEF SemInv

\* A thread that was let through returns from down(s) into the monitor.
LEMMA Returns ==
  ASSUME IndInv, NEW p \in Proc, NEW s \in Sem, StandsAt(p, s), DownReturn(p, s),
         running = p, running' = running, cv' = cv, pc' = [pc EXCEPT ![p] = "in"]
  PROVE  SemInv'
<1>1. /\ value' = value /\ queue' = queue
      /\ \A t \in Sem : /\ Queued(t)' = Queued(t)
                        /\ granted'[t] = IF t = s THEN granted[t] \ {p} ELSE granted[t]
      /\ granted' \in [Sem -> SUBSET Proc]
  <2>1. CASE p \in granted[s]
    BY ZenonT(60), <2>1 DEF DownReturn, S!Return, IndInv, Types, Queued
  <2>2. CASE p \notin granted[s]
    BY <2>2 DEF DownReturn, semVars, IndInv, Types, Queued
  <2>. QED  BY <2>1, <2>2
<1>2. \A q \in Proc : pc'[q] = IF q = p THEN "in" ELSE pc[q]
  BY DEF IndInv, Types
<1>3. \A q \in Proc, t \in Sem : q # p => (StandsAt(q, t)' <=> StandsAt(q, t))
  BY <1>2 DEF StandsAt
<1>4. \A t \in Sem : ~StandsAt(p, t)' /\ (t # s => ~StandsAt(p, t))
  BY <1>2, SemFacts DEF StandsAt
<1>5. \A t \in Sem : p \notin Queued(t)
  BY DEF IndInv, RunningAwake
<1>6. Standing'
  <2>1. \A t \in Sem : granted'[t] \cap Queued(t)' = {}
    BY <1>1 DEF IndInv, Standing
  <2>2. ASSUME NEW t \in Sem, NEW q \in Proc, q \in Queued(t)' \cup granted'[t]
        PROVE  StandsAt(q, t)'
    BY <1>1, <1>3, <1>4, <1>5, <2>2 DEF IndInv, Standing
  <2>3. ASSUME NEW q \in Proc, NEW t \in CV \cup {next}, StandsAt(q, t)'
        PROVE  q \in Queued(t)' \cup granted'[t]
    <3>1. t \in Sem /\ q # p
      BY <1>4, <2>3, SemFacts
    <3>2. q \in Queued(t) \cup granted[t]
      BY <1>3, <2>3, <3>1 DEF IndInv, Standing
    <3>. QED  BY <1>1, <3>1, <3>2
  <2>. QED  BY <2>1, <2>2, <2>3 DEF Standing
<1>7. OwnerUnique'
  <2>1. \A q \in Proc : q # p => (HasMonitor(q)' <=> HasMonitor(q))
    BY <1>1, <1>2 DEF HasMonitor, Awake
  <2>2. HasMonitor(p) /\ HasMonitor(p)'
    BY <1>2, <1>5 DEF HasMonitor, Awake, StandsAt
  <2>3. Owners' = Owners
    BY <2>1, <2>2, OwnersAre, OwnersAreNext
  <2>. QED  BY <1>1, <2>3 DEF IndInv, OwnerUnique
<1>8. HandingOver'
  BY <1>2 DEF IndInv, HandingOver, StandsAt
<1>9. RunningAwake' /\ NoStoredSignal' /\ SignallersKept' /\ value' \in [Sem -> 0..1]
      /\ QueuesInjective' /\ queue' \in [Sem -> Seq(Proc)]
  BY <1>1, SemFacts
     DEF IndInv, Types, NoStoredSignal, SignallersKept, RunningAwake, QueuesInjective
<1>. QED  BY <1>1, <1>6, <1>7, <1>8, <1>9 DEF SemInv

\* A thread in the monitor gives it up, with up(s), to one that waits, or to nobody.
LEMMA Passes ==
  ASSUME IndInv, NEW p \in Proc, NEW s \in Sem, S!Up(s), At(p, "in"), running' = running,
         NEW x \in {"out", "wait", "signal"}, pc' = [pc EXCEPT ![p] = x],
         \A q \in Proc : q # p => cv'[q] = cv[q],
         s = mutex \/ Queued(s) # {}, s = mutex => Queued(next) = {},
         x = "signal" => s # mutex
  PROVE  SemInv'
<1>1. /\ value[mutex] = 0 /\ pc[p] = "in" /\ running = p
      /\ \A q \in Proc : q # p => ~HasMonitor(q)
      /\ \A q \in Proc : pc[q] \notin {"wait", "signal"}
  BY AtRest DEF At
<1>2. \A q \in Proc : pc'[q] = IF q = p THEN x ELSE pc[q]
  BY DEF IndInv, Types
<1>3. \A q \in Proc, t \in Sem : q # p => (StandsAt(q, t)' <=> StandsAt(q, t))
  BY <1>2 DEF StandsAt
<1>4. \A t \in Sem : ~StandsAt(p, t)' /\ ~StandsAt(p, t)
  BY <1>1, <1>2 DEF StandsAt
<1>5. \A t \in Sem : p \notin Queued(t) /\ p \notin granted[t]
  BY <1>4 DEF IndInv, Standing
<1>6. queue' \in [Sem -> Seq(Proc)] /\ granted' \in [Sem -> SUBSET Proc] /\ QueuesInjective'
  BY UpFacts DEF IndInv
<1>7. \A q \in Proc : q # p => pc[q] # "in"
  BY <1>1 DEF HasMonitor
<1>8. CASE Queued(s) = {}
  <2>1. /\ s = mutex /\ value' = [value EXCEPT ![s] = @ + 1] /\ granted' = granted
        /\ \A t \in Sem : Queued(t)' = Queued(t)
    BY <1>8, UpFacts DEF IndInv
  <2>2. value' \in [Sem -> 0..1] /\ value'[mutex] = 1 /\ NoStoredSignal'
    BY <1>1, <2>1, SemFacts DEF IndInv, Types, NoStoredSignal
  <2>3. Standing'
    <3>1. \A t \in Sem : granted'[t] \cap Queued(t)' = {}
      BY <2>1 DEF IndInv, Standing
    <3>2. ASSUME NEW t \in Sem, NEW q \in Proc, q \in Queued(t)' \cup granted'[t]
          PROVE  StandsAt(q, t)'
      BY <1>3, <1>5, <2>1, <3>2 DEF IndInv, Standing
    <3>3. ASSUME NEW q \in Proc, NEW t \in CV \cup {next}, StandsAt(q, t)'
          PROVE  q \in Queued(t)' \cup granted'[t]
      BY <1>3, <1>4, <2>1, <3>3, SemFacts DEF IndInv, Standing
    <3>. QED  BY <3>1, <3>2, <3>3 DEF Standing
  <2>4. OwnerUnique'
    <3>1. \A q \in Proc : ~HasMonitor(q)'
      BY <1>1, <1>2, <2>1 DEF HasMonitor, Awake
    <3>. QED  BY <2>2, <3>1, OwnersAreNext DEF OwnerUnique
  <2>5. HandingOver'
    BY <1>1, <1>2, <1>7, <2>1 DEF HandingOver
  <2>6. RunningAwake' /\ SignallersKept'
    BY <2>1, SemFacts DEF IndInv, RunningAwake, SignallersKept
  <2>. QED  BY <1>6, <2>2, <2>3, <2>4, <2>5, <2>6 DEF SemInv
<1>9. CASE Queued(s) # {}
  <2>1. PICK h \in Proc :
          /\ h \in Queued(s) /\ value' = value
          /\ \A t \in Sem : /\ Queued(t)' = IF t = s THEN Queued(t) \ {h} ELSE Queued(t)
                            /\ granted'[t] = IF t = s THEN granted[t] \cup {h} ELSE granted[t]
    BY <1>9, UpFacts DEF IndInv
  <2>2. h # p /\ StandsAt(h, s)
    BY <1>5, <2>1 DEF IndInv, Standing
  <2>3. Standing'
    <3>1. \A t \in Sem : granted'[t] \cap Queued(t)' = {}
      BY <2>1 DEF IndInv, Standing
    <3>2. ASSUME NEW t \in Sem, NEW q \in Proc, q \in Queued(t)' \cup granted'[t]
          PROVE  StandsAt(q, t)'
      <4>1. q \in Queued(t) \cup granted[t]
        BY <2>1, <3>2
      <4>. QED  BY <1>3, <1>5, <4>1 DEF IndInv, Standing
    <3>3. ASSUME NEW q \in Proc, NEW t \in CV \cup {next}, StandsAt(q, t)'
          PROVE  q \in Queued(t)' \cup granted'[t]
      <4>1. t \in Sem /\ q # p
        BY <1>4, <3>3, SemFacts
      <4>2. q \in Queued(t) \cup granted[t]
        BY <1>3, <3>3, <4>1 DEF IndInv, Standing
      <4>. QED  BY <2>1, <4>1, <4>2
    <3>. QED  BY <3>1, <3>2, <3>3 DEF Standing
  <2>4. OwnerUnique'
    <3>1. ASSUME NEW q \in Proc, q # h PROVE ~HasMonitor(q)'
      <4>1. CASE q = p
        BY <1>2, <4>1 DEF HasMonitor
      <4>2. CASE q # p
        <5>1. pc'[q] = pc[q] /\ pc[q] # "in" /\ ~HasMonitor(q)
          BY <1>1, <1>2, <1>7, <4>2
        <5>2. ASSUME ~Awake(q) PROVE ~Awake(q)'
          <6>1. PICK t \in Sem : q \in Queued(t)
            BY <5>2 DEF Awake
          <6>2. q \in Queued(t)'
            BY <2>1, <3>1, <6>1
          <6>. QED  BY <6>2 DEF Awake
        <5>. QED  BY <5>1, <5>2 DEF HasMonitor
      <4>. QED  BY <4>1, <4>2
    <3>2. \A t \in Sem : h \in Queued(t) => t = s
      BY <2>2, SemFacts DEF IndInv, Standing, StandsAt
    <3>3. HasMonitor(h)'
      <4>1. \A t \in Sem : h \notin Queued(t)'
        BY <2>1, <3>2
      <4>2. pc'[h] \in {"entering", "waiting", "signaling"}
        BY <1>2, <2>2 DEF StandsAt
      <4>. QED  BY <4>1, <4>2 DEF HasMonitor, Awake
    <3>4. Owners' = {h}
      BY <3>1, <3>3, OwnersAreNext
    <3>. QED  BY <1>1, <2>1, <3>4 DEF OwnerUnique
  <2>5. HandingOver'
    BY <1>1, <1>2, <1>7, <2>1 DEF HandingOver
  <2>6. RunningAwake' /\ SignallersKept' /\ NoStoredSignal' /\ value' \in [Sem -> 0..1]
    BY <1>1, <2>1, SemFacts DEF IndInv, RunningAwake, SignallersKept, NoStoredSignal, Types
  <2>. QED  BY <1>6, <2>3, <2>4, <2>5, <2>6 DEF SemInv
<1>. QED  BY <1>8, <1>9

-----------------------------------------------------------------------------
(* The actions.  Each changes the semaphores in one of the ways above and keeps the
   counters in step with where the threads stand. *)

LEMMA IndInvInit == ASSUME Init PROVE IndInv
<1>1. /\ value = [s \in Sem |-> IF s = mutex THEN 1 ELSE 0]
      /\ queue = [s \in Sem |-> <<>>] /\ granted = [s \in Sem |-> {}]
      /\ count = [c \in CV |-> 0] /\ next_count = 0
      /\ cv = [p \in Proc |-> CHOOSE c \in CV : TRUE]
      /\ pc = [p \in Proc |-> "out"] /\ running = nobody
  BY DEF Init, S!Init
<1>2. (CHOOSE c \in CV : TRUE) \in CV
  BY MonitorAssumption
<1>3. Types
  BY <1>1, <1>2 DEF Types, PC
<1>4. \A s \in Sem : Queued(s) = {} /\ granted[s] = {} /\ IsInjective(queue[s])
  BY <1>1 DEF Queued, ToSet, IsInjective
<1>5. \A p \in Proc : ~HasMonitor(p) /\ \A s \in Sem : ~StandsAt(p, s)
  BY <1>1 DEF HasMonitor, StandsAt
<1>6. QueuesInjective /\ RunningAwake
  BY <1>4 DEF QueuesInjective, RunningAwake
<1>7. Standing
  <2>1. \A s \in CV \cup {next} : s \in Sem
    BY SemFacts
  <2>. QED  BY <1>4, <1>5, <2>1 DEF Standing
<1>8. OwnerUnique
  BY <1>1, <1>5, OwnersAre, SemFacts DEF OwnerUnique
<1>9. HandingOver /\ NoStoredSignal /\ SignallersKept
  BY <1>1, <1>4, SemFacts DEF HandingOver, NoStoredSignal, SignallersKept
<1>10. Counted
  <2>1. Signallers = {} /\ \A c \in CV : WaitersOf(c) = {}
    BY <1>1 DEF Signallers, WaitersOf
  <2>. QED  BY <1>1, <2>1, FS_EmptySet DEF Counted
<1>. QED  BY <1>3, <1>6, <1>7, <1>8, <1>9, <1>10 DEF IndInv

\* Threads that move between points at which they are not counted change no counter.
LEMMA CountedKept ==
  ASSUME IndInv, NEW p \in Proc, NEW x \in PC, pc' = [pc EXCEPT ![p] = x],
         UNCHANGED monitorVars,
         x = "signaling" <=> pc[p] = "signaling",
         x \in {"wait", "waiting"} <=> pc[p] \in {"wait", "waiting"}
  PROVE  /\ Counted' /\ pc' \in [Proc -> PC] /\ cv' \in [Proc -> CV]
         /\ count' \in [CV -> Nat] /\ next_count' \in Nat
<1>1. \A q \in Proc : pc'[q] = IF q = p THEN x ELSE pc[q]
  BY DEF IndInv, Types
<1>2. count' = count /\ next_count' = next_count /\ cv' = cv
  BY DEF monitorVars
<1>3. Signallers' = Signallers
  BY <1>1 DEF Signallers
<1>4. \A c \in CV : WaitersOf(c)' = WaitersOf(c)
  BY <1>1, <1>2 DEF WaitersOf
<1>5. Counted'
  BY <1>2, <1>3, <1>4 DEF IndInv, Counted
<1>. QED  BY <1>2, <1>5 DEF IndInv, Types

\* Dispatch and Pause: the CPU goes to a thread that is awake, or to nobody.
LEMMA RunningMoves ==
  ASSUME IndInv, NEW p \in Proc, Dispatch(p) \/ Pause(p)
  PROVE  IndInv'
<1>1. UNCHANGED <<semVars, monitorVars, pc>> /\ running' \in Proc \cup {nobody}
  BY DEF Dispatch, Pause
<1>2. value' = value /\ queue' = queue /\ granted' = granted /\ count' = count
      /\ next_count' = next_count /\ cv' = cv /\ pc' = pc
  BY <1>1 DEF semVars, monitorVars
<1>3. Types' /\ QueuesInjective' /\ NoStoredSignal' /\ SignallersKept'
  BY <1>1, <1>2
     DEF IndInv, Types, QueuesInjective, NoStoredSignal, SignallersKept, Queued
<1>4. Standing'
  BY <1>2 DEF IndInv, Standing, StandsAt, Queued
<1>5. OwnerUnique'
  BY <1>2 DEF IndInv, OwnerUnique, Owners, Asleep
<1>6. Counted'
  BY <1>2 DEF IndInv, Counted, Signallers, WaitersOf
<1>7. RunningAwake'
  <2>1. CASE Dispatch(p)
    BY <1>2, <2>1 DEF Dispatch, Asleep, RunningAwake, Queued
  <2>2. CASE Pause(p)
    <3>1. \A s \in Sem : Queued(s) \subseteq Proc
      BY QueuedInProc DEF IndInv
    <3>. QED  BY <1>2, <2>2, <3>1, SemFacts DEF Pause, RunningAwake, Queued
  <2>. QED  BY <2>1, <2>2
<1>8. HandingOver'
  <2>1. \A q \in Proc : pc[q] \notin {"wait", "signal"}
    BY SemFacts DEF IndInv, HandingOver, Dispatch, Pause, MayPause
  <2>. QED  BY <1>2, <2>1 DEF HandingOver
<1>. QED  BY <1>3, <1>4, <1>5, <1>6, <1>7, <1>8 DEF IndInv

\* Enter: the monitor is free and p takes it.
LEMMA Takes ==
  ASSUME IndInv, NEW p \in Proc, At(p, "out"), S!Take(p, mutex), running' = running,
         cv' = cv, pc' = [pc EXCEPT ![p] = "entering"]
  PROVE  SemInv'
<1>1. /\ value[mutex] = 1 /\ value' = [value EXCEPT ![mutex] = 0]
      /\ queue' = queue /\ granted' = granted
      /\ \A t \in Sem : p \notin Queued(t) \cup granted[t]
  <2>1. value[mutex] \in 0..1
    BY SemFacts DEF IndInv, Types
  <2>2. value[mutex] = 1
    BY <2>1 DEF S!Take
  <2>3. value' = [value EXCEPT ![mutex] = value[mutex] - 1]
        /\ queue' = queue /\ granted' = granted
    BY DEF S!Take
  <2>4. value' = [value EXCEPT ![mutex] = 0]
    BY <2>2, <2>3
  <2>5. \A t \in Sem : p \notin Queued(t) \cup granted[t]
    BY DEF S!Take, S!Blocked, S!ToSet, Queued, ToSet
  <2>. QED  BY <2>2, <2>3, <2>4, <2>5
<1>2. \A q \in Proc : pc'[q] = IF q = p THEN "entering" ELSE pc[q]
  BY DEF IndInv, Types
<1>3. \A t \in Sem : Queued(t)' = Queued(t)
  BY <1>1 DEF Queued
<1>4. \A q \in Proc, t \in Sem : q # p => (StandsAt(q, t)' <=> StandsAt(q, t))
  BY <1>2 DEF StandsAt
<1>5. Standing'
  <2>1. \A t \in Sem : granted'[t] \cap Queued(t)' = {}
    BY <1>1, <1>3 DEF IndInv, Standing
  <2>2. \A t \in Sem, q \in Proc : q \in Queued(t)' \cup granted'[t] => StandsAt(q, t)'
    BY <1>1, <1>3, <1>4 DEF IndInv, Standing
  <2>3. ASSUME NEW q \in Proc, NEW t \in CV \cup {next}, StandsAt(q, t)'
        PROVE  q \in Queued(t)' \cup granted'[t]
    <3>1. t \in Sem /\ q # p
      BY <1>2, <2>3, SemFacts DEF StandsAt
    <3>. QED  BY <1>1, <1>3, <1>4, <2>3, <3>1 DEF IndInv, Standing
  <2>. QED  BY <2>1, <2>2, <2>3 DEF Standing
<1>6. value' \in [Sem -> 0..1] /\ value'[mutex] = 0
      /\ \A t \in CV \cup {next} : value'[t] = 0
  BY <1>1, SemFacts DEF IndInv, Types, NoStoredSignal
<1>7. OwnerUnique'
  <2>1. \A q \in Proc : ~HasMonitor(q)
    BY <1>1, OwnersAre DEF IndInv, OwnerUnique
  <2>2. \A q \in Proc : q # p => ~HasMonitor(q)'
    BY <1>2, <1>3, <2>1 DEF HasMonitor, Awake
  <2>3. HasMonitor(p)'
    BY <1>1, <1>2, <1>3 DEF HasMonitor, Awake
  <2>4. Owners' = {p}
    BY <2>2, <2>3, OwnersAreNext
  <2>. QED  BY <1>6, <2>4 DEF OwnerUnique
<1>8. HandingOver'
  BY <1>2 DEF IndInv, HandingOver, At
<1>9. QueuesInjective' /\ RunningAwake' /\ NoStoredSignal' /\ SignallersKept'
  BY <1>1, <1>3, <1>6
     DEF IndInv, QueuesInjective, RunningAwake, NoStoredSignal, SignallersKept
<1>. QED  BY <1>1, <1>5, <1>6, <1>7, <1>8, <1>9 DEF SemInv, IndInv, Types

LEMMA EnterKeeps == ASSUME IndInv, NEW p \in Proc, Enter(p) PROVE IndInv'
<1>1. /\ At(p, "out") /\ pc' = [pc EXCEPT ![p] = "entering"] /\ UNCHANGED monitorVars
      /\ Down(p, mutex)
  BY DEF Enter, Goto
<1>2. /\ Counted' /\ pc' \in [Proc -> PC] /\ cv' \in [Proc -> CV]
      /\ count' \in [CV -> Nat] /\ next_count' \in Nat
  BY <1>1, CountedKept DEF At, PC
<1>3. cv' = cv /\ pc[p] = "out" /\ running = p
  BY <1>1 DEF monitorVars, At
<1>4. CASE value[mutex] > 0
  <2>1. S!Take(p, mutex) /\ running' = running
    BY <1>1, <1>4 DEF Down
  <2>2. SemInv'
    BY <1>1, <1>3, <2>1, Takes
  <2>. QED  BY <1>2, <2>1, <2>2 DEF SemInv, IndInv, Types
<1>5. CASE ~(value[mutex] > 0)
  <2>1. S!Wait(p, mutex) /\ running' = nobody
    BY <1>1, <1>5 DEF Down
  <2>2. value[mutex] = 0 /\ ~HasMonitor(p)
    BY <1>3, <2>1 DEF S!Wait, HasMonitor
  <2>3. StandsAt(p, mutex)'
    BY <1>1 DEF StandsAt, IndInv, Types
  <2>4. SemInv'
    BY <1>1, <1>3, <2>1, <2>2, <2>3, SemFacts, Sleeps
  <2>. QED  BY <1>2, <2>1, <2>4 DEF SemInv, IndInv, Types
<1>. QED  BY <1>4, <1>5

LEMMA EnteredKeeps == ASSUME IndInv, NEW p \in Proc, Entered(p) PROVE IndInv'
<1>1. /\ At(p, "entering") /\ pc' = [pc EXCEPT ![p] = "in"] /\ UNCHANGED monitorVars
      /\ DownReturn(p, mutex) /\ running' = running
  BY DEF Entered, Goto
<1>2. /\ Counted' /\ pc' \in [Proc -> PC] /\ cv' \in [Proc -> CV]
      /\ count' \in [CV -> Nat] /\ next_count' \in Nat
  BY <1>1, CountedKept DEF At, PC
<1>3. cv' = cv /\ running = p /\ StandsAt(p, mutex)
  BY <1>1 DEF monitorVars, At, StandsAt
<1>4. SemInv'
  BY <1>1, <1>3, SemFacts, Returns
<1>. QED  BY <1>1, <1>2, <1>4 DEF SemInv, IndInv, Types

\* A signaller or a waiter that comes back is no longer counted.
LEMMA SignaledKeeps == ASSUME IndInv, NEW p \in Proc, Signaled(p) PROVE IndInv'
<1>1. /\ running = p /\ pc[p] = "signaling" /\ pc' = [pc EXCEPT ![p] = "in"]
      /\ DownReturn(p, next) /\ running' = running
      /\ next_count' = next_count - 1 /\ count' = count /\ cv' = cv
  BY DEF Signaled, Goto, At
<1>2. StandsAt(p, next)
  BY <1>1 DEF StandsAt
<1>3. SemInv'
  BY <1>1, <1>2, SemFacts, Returns
<1>4. \A q \in Proc : pc'[q] = IF q = p THEN "in" ELSE pc[q]
  BY <1>1 DEF IndInv, Types
<1>5. Signallers' = Signallers \ {p} /\ p \in Signallers
  BY <1>1, <1>4 DEF Signallers
<1>6. \A c \in CV : WaitersOf(c)' = WaitersOf(c)
  BY <1>1, <1>4 DEF WaitersOf
<1>7. Cardinality(Signallers \ {p}) = Cardinality(Signallers) - 1
      /\ Cardinality(Signallers \ {p}) \in Nat
  BY <1>5, CountedSets, FS_RemoveElement, FS_CardinalityType
<1>8. Counted' /\ next_count' \in Nat
  BY <1>1, <1>5, <1>6, <1>7 DEF IndInv, Counted
<1>9. pc' \in [Proc -> PC]
  BY <1>1 DEF IndInv, Types, PC
<1>. QED  BY <1>1, <1>3, <1>8, <1>9 DEF SemInv, IndInv, Types

LEMMA WaitedKeeps == ASSUME IndInv, NEW p \in Proc, Waited(p) PROVE IndInv'
<1>. PICK c0 \in CV : c0 = cv[p]
  BY DEF IndInv, Types
<1>1. /\ running = p /\ pc[p] = "waiting" /\ pc' = [pc EXCEPT ![p] = "in"]
      /\ DownReturn(p, c0) /\ running' = running
      /\ count' = [count EXCEPT ![c0] = @ - 1] /\ next_count' = next_count /\ cv' = cv
  BY DEF Waited, Goto, At
<1>2. StandsAt(p, c0) /\ c0 \in CV /\ c0 \in Sem
  BY <1>1, SemFacts DEF StandsAt, IndInv, Types
<1>3. SemInv'
  BY <1>1, <1>2, Returns
<1>4. \A q \in Proc : pc'[q] = IF q = p THEN "in" ELSE pc[q]
  BY <1>1 DEF IndInv, Types
<1>5. Signallers' = Signallers
  BY <1>1, <1>4 DEF Signallers
<1>6. \A c \in CV : WaitersOf(c)' = IF c = c0 THEN WaitersOf(c) \ {p} ELSE WaitersOf(c)
  BY <1>1, <1>4 DEF WaitersOf
<1>7. p \in WaitersOf(c0)
  BY <1>1 DEF WaitersOf
<1>8. Cardinality(WaitersOf(c0) \ {p}) = Cardinality(WaitersOf(c0)) - 1
      /\ Cardinality(WaitersOf(c0) \ {p}) \in Nat
  <2>1. IsFiniteSet(WaitersOf(c0)) /\ IsFiniteSet(WaitersOf(c0) \ {p})
    BY <1>2, CountedSets, FS_RemoveElement
  <2>. QED  BY <1>7, <2>1, FS_RemoveElement, FS_CardinalityType
<1>9. Counted' /\ count' \in [CV -> Nat]
  <2>1. \A c \in CV : count'[c] = IF c = c0 THEN count[c] - 1 ELSE count[c]
    BY <1>1 DEF IndInv, Types
  <2>2. \A c \in CV : count[c] = Cardinality(WaitersOf(c)) /\ count[c] \in Nat
    BY DEF IndInv, Counted, Types
  <2>3. \A c \in CV : count'[c] = Cardinality(WaitersOf(c)') /\ count'[c] \in Nat
    BY <1>2, <1>6, <1>8, <2>1, <2>2
  <2>4. next_count' = Cardinality(Signallers')
    BY <1>1, <1>5 DEF IndInv, Counted
  <2>5. count' = [c \in CV |-> count'[c]]
    BY <1>1 DEF IndInv, Types
  <2>. QED  BY <2>3, <2>4, <2>5 DEF Counted
<1>10. pc' \in [Proc -> PC]
  BY <1>1 DEF IndInv, Types, PC
<1>. QED  BY <1>1, <1>3, <1>9, <1>10 DEF SemInv, IndInv, Types

\* PassOn reads next_count, which then says whether a signaller sleeps.
LEMMA PassOnTo ==
  ASSUME IndInv, NEW p \in Proc, pc[p] = "in", PassOn
  PROVE  \E s \in Sem : /\ S!Up(s)
                        /\ s = mutex \/ Queued(s) # {}
                        /\ s = mutex => Queued(next) = {}
<1>1. Signallers = Queued(next) /\ next_count = Cardinality(Signallers)
  BY AtRest DEF IndInv, Counted
<1>2. next_count \in Nat /\ IsFiniteSet(Signallers)
  BY CountedSets DEF IndInv, Types
<1>3. next_count = 0 <=> Signallers = {}
  BY <1>1, <1>2, FS_EmptySet
<1>4. CASE next_count > 0
  <2>1. S!Up(next)
    BY <1>4 DEF PassOn
  <2>. QED  BY <1>1, <1>3, <1>4, <2>1, SemFacts
<1>5. CASE ~(next_count > 0)
  <2>1. S!Up(mutex)
    BY <1>5 DEF PassOn
  <2>. QED  BY <1>1, <1>2, <1>3, <1>5, <2>1, SemFacts
<1>. QED  BY <1>4, <1>5

LEMMA LeaveKeeps == ASSUME IndInv, NEW p \in Proc, Leave(p) PROVE IndInv'
<1>1. /\ At(p, "in") /\ pc' = [pc EXCEPT ![p] = "out"] /\ UNCHANGED monitorVars
      /\ PassOn /\ running' = running
  BY DEF Leave, Goto
<1>2. /\ Counted' /\ pc' \in [Proc -> PC] /\ cv' \in [Proc -> CV]
      /\ count' \in [CV -> Nat] /\ next_count' \in Nat
  BY <1>1, CountedKept DEF At, PC
<1>3. cv' = cv /\ pc[p] = "in"
  BY <1>1 DEF monitorVars, At
<1>4. PICK s \in Sem : S!Up(s) /\ (s = mutex \/ Queued(s) # {})
                       /\ (s = mutex => Queued(next) = {})
  BY <1>1, <1>3, PassOnTo
<1>5. SemInv'
  BY <1>1, <1>3, <1>4, Passes
<1>. QED  BY <1>1, <1>2, <1>5 DEF SemInv, IndInv, Types

LEMMA WaitKeeps == ASSUME IndInv, NEW p \in Proc, NEW c0 \in CV, Wait(p, c0) PROVE IndInv'
<1>1. /\ At(p, "in") /\ pc[p] = "in" /\ pc' = [pc EXCEPT ![p] = "wait"]
      /\ cv' = [cv EXCEPT ![p] = c0] /\ count' = [count EXCEPT ![c0] = @ + 1]
      /\ PassOn /\ running' = running /\ next_count' = next_count
  BY DEF Wait, Goto, At
<1>2. PICK s \in Sem : S!Up(s) /\ (s = mutex \/ Queued(s) # {})
                       /\ (s = mutex => Queued(next) = {})
  BY <1>1, PassOnTo
<1>3. \A q \in Proc : /\ pc'[q] = IF q = p THEN "wait" ELSE pc[q]
                      /\ cv'[q] = IF q = p THEN c0 ELSE cv[q]
  BY <1>1 DEF IndInv, Types
<1>4. SemInv'
  BY <1>1, <1>2, <1>3, Passes
<1>5. Signallers' = Signallers
  BY <1>1, <1>3 DEF Signallers
<1>6. \A c \in CV : WaitersOf(c)' = IF c = c0 THEN WaitersOf(c) \cup {p} ELSE WaitersOf(c)
  BY <1>1, <1>3 DEF WaitersOf
<1>7. p \notin WaitersOf(c0)
  BY <1>1 DEF WaitersOf
<1>8. Cardinality(WaitersOf(c0) \cup {p}) = Cardinality(WaitersOf(c0)) + 1
      /\ Cardinality(WaitersOf(c0)) \in Nat
  BY <1>7, CountedSets, FS_AddElement, FS_CardinalityType
<1>9. Counted' /\ count' \in [CV -> Nat]
  <2>1. \A c \in CV : count'[c] = IF c = c0 THEN count[c] + 1 ELSE count[c]
    BY <1>1 DEF IndInv, Types
  <2>2. \A c \in CV : count[c] = Cardinality(WaitersOf(c)) /\ count[c] \in Nat
    BY DEF IndInv, Counted, Types
  <2>3. \A c \in CV : count'[c] = Cardinality(WaitersOf(c)') /\ count'[c] \in Nat
    BY <1>6, <1>8, <2>1, <2>2
  <2>4. next_count' = Cardinality(Signallers')
    BY <1>1, <1>5 DEF IndInv, Counted
  <2>5. count' = [c \in CV |-> count'[c]]
    BY <1>1 DEF IndInv, Types
  <2>. QED  BY <2>3, <2>4, <2>5 DEF Counted
<1>10. pc' \in [Proc -> PC] /\ cv' \in [Proc -> CV]
  BY <1>1 DEF IndInv, Types, PC
<1>. QED  BY <1>1, <1>4, <1>9, <1>10 DEF SemInv, IndInv, Types

LEMMA WaitDownKeeps == ASSUME IndInv, NEW p \in Proc, WaitDown(p) PROVE IndInv'
<1>. PICK c0 \in CV : c0 = cv[p]
  BY DEF IndInv, Types
<1>1. /\ running = p /\ pc[p] = "wait" /\ pc' = [pc EXCEPT ![p] = "waiting"]
      /\ UNCHANGED monitorVars /\ Down(p, c0)
  BY DEF WaitDown, Goto, At
<1>2. /\ Counted' /\ pc' \in [Proc -> PC] /\ cv' \in [Proc -> CV]
      /\ count' \in [CV -> Nat] /\ next_count' \in Nat
  BY <1>1, CountedKept DEF PC
<1>3. cv' = cv /\ c0 \in Sem /\ ~HasMonitor(p)
  BY <1>1, SemFacts DEF monitorVars, IndInv, Types, HasMonitor
<1>4. value[c0] = 0
  BY <1>3 DEF IndInv, NoStoredSignal
<1>5. S!Wait(p, c0) /\ running' = nobody
  BY <1>1, <1>4 DEF Down
<1>6. StandsAt(p, c0)'
  BY <1>1, <1>3 DEF StandsAt, IndInv, Types
<1>7. c0 # mutex /\ c0 # next
  BY <1>3, SemFacts
<1>8. SemInv'
  BY <1>1, <1>3, <1>5, <1>6, <1>7, Sleeps
<1>. QED  BY <1>2, <1>5, <1>8 DEF SemInv, IndInv, Types

LEMMA SignalKeeps == ASSUME IndInv, NEW p \in Proc, NEW c \in CV, Signal(p, c) PROVE IndInv'
<1>1. /\ At(p, "in") /\ pc[p] = "in" /\ pc' = [pc EXCEPT ![p] = "signal"]
      /\ UNCHANGED monitorVars /\ S!Up(c) /\ running' = running /\ count[c] > 0
  BY DEF Signal, Goto, At, AnyoneWaits
<1>2. /\ Counted' /\ pc' \in [Proc -> PC] /\ cv' \in [Proc -> CV]
      /\ count' \in [CV -> Nat] /\ next_count' \in Nat
  BY <1>1, CountedKept DEF PC
<1>3. cv' = cv
  BY <1>1 DEF monitorVars
<1>4. c \in Sem /\ c # mutex
  BY SemFacts
<1>5. Queued(c) # {}
  <2>1. WaitersOf(c) = Queued(c) /\ count[c] = Cardinality(WaitersOf(c))
    BY <1>1, AtRest DEF IndInv, Counted
  <2>. QED  BY <1>1, <2>1, FS_EmptySet
<1>6. SemInv'
  BY <1>1, <1>3, <1>4, <1>5, Passes
<1>. QED  BY <1>1, <1>2, <1>6 DEF SemInv, IndInv, Types

LEMMA SignalDownKeeps == ASSUME IndInv, NEW p \in Proc, SignalDown(p) PROVE IndInv'
<1>1. /\ running = p /\ pc[p] = "signal" /\ pc' = [pc EXCEPT ![p] = "signaling"]
      /\ next_count' = next_count + 1 /\ count' = count /\ cv' = cv /\ Down(p, next)
  BY DEF SignalDown, Goto, At
<1>2. value[mutex] = 0 /\ value[next] = 0 /\ ~HasMonitor(p)
  BY <1>1 DEF IndInv, HandingOver, NoStoredSignal, HasMonitor
<1>3. S!Wait(p, next) /\ running' = nobody
  BY <1>1, <1>2 DEF Down
<1>4. \A q \in Proc : pc'[q] = IF q = p THEN "signaling" ELSE pc[q]
  BY <1>1 DEF IndInv, Types
<1>5. StandsAt(p, next)'
  BY <1>4 DEF StandsAt
<1>6. SemInv'
  BY <1>1, <1>2, <1>3, <1>5, SemFacts, Sleeps
<1>7. Signallers' = Signallers \cup {p} /\ p \notin Signallers
  BY <1>1, <1>4 DEF Signallers
<1>8. \A c \in CV : WaitersOf(c)' = WaitersOf(c)
  BY <1>1, <1>4 DEF WaitersOf
<1>9. Cardinality(Signallers \cup {p}) = Cardinality(Signallers) + 1
      /\ Cardinality(Signallers) \in Nat
  BY <1>7, CountedSets, FS_AddElement, FS_CardinalityType
<1>10. Counted' /\ next_count' \in Nat
  BY <1>1, <1>7, <1>8, <1>9 DEF IndInv, Counted
<1>11. pc' \in [Proc -> PC]
  BY <1>1 DEF IndInv, Types, PC
<1>. QED  BY <1>1, <1>3, <1>6, <1>10, <1>11 DEF SemInv, IndInv, Types

LEMMA IndInvStutter == ASSUME IndInv, UNCHANGED vars PROVE IndInv'
<1>1. value' = value /\ queue' = queue /\ granted' = granted /\ count' = count
      /\ next_count' = next_count /\ cv' = cv /\ pc' = pc /\ running' = running
  BY DEF vars, semVars, monitorVars
<1>2. Types' /\ QueuesInjective' /\ RunningAwake' /\ NoStoredSignal' /\ SignallersKept'
  BY <1>1 DEF IndInv, Types, QueuesInjective, RunningAwake, NoStoredSignal, SignallersKept,
              Queued
<1>3. Standing'
  BY <1>1 DEF IndInv, Standing, StandsAt, Queued
<1>4. OwnerUnique'
  BY <1>1 DEF IndInv, OwnerUnique, Owners, Asleep
<1>5. HandingOver' /\ Counted'
  BY <1>1 DEF IndInv, HandingOver, Counted, Signallers, WaitersOf
<1>. QED  BY <1>2, <1>3, <1>4, <1>5 DEF IndInv

LEMMA IndInvNext == ASSUME IndInv, [Next]_vars PROVE IndInv'
<1>1. ASSUME NEW p \in Proc, Dispatch(p) \/ Pause(p) PROVE IndInv'
  BY <1>1, RunningMoves
<1>2. ASSUME NEW p \in Proc, Enter(p) PROVE IndInv'
  BY <1>2, EnterKeeps
<1>3. ASSUME NEW p \in Proc, Leave(p) PROVE IndInv'
  BY <1>3, LeaveKeeps
<1>4. ASSUME NEW p \in Proc, Inside(p) PROVE IndInv'
  BY <1>4, EnteredKeeps, WaitDownKeeps, WaitedKeeps, SignalDownKeeps, SignaledKeeps
     DEF Inside
<1>5. ASSUME NEW p \in Proc, NEW c \in CV, Wait(p, c) PROVE IndInv'
  BY <1>5, WaitKeeps
<1>6. ASSUME NEW p \in Proc, NEW c \in CV, Signal(p, c) PROVE IndInv'
  BY <1>6, SignalKeeps
<1>7. CASE UNCHANGED vars
  BY <1>7, IndInvStutter
<1>. QED  BY <1>1, <1>2, <1>3, <1>4, <1>5, <1>6, <1>7 DEF Next

-----------------------------------------------------------------------------
(* What the invariant gives. *)

LEMMA OwnerIsOne == ASSUME IndInv PROVE OneOwner
<1>1. value[mutex] \in 0..1
  BY SemFacts DEF IndInv, Types
<1>2. CASE value[mutex] = 0
  <2>1. PICK o \in Proc : Owners = {o}
    BY <1>2 DEF IndInv, OwnerUnique
  <2>2. Cardinality({o}) = 1
    BY FS_Singleton
  <2>. QED  BY <1>2, <2>1, <2>2 DEF OneOwner
<1>3. CASE value[mutex] = 1
  <2>1. Owners = {} /\ Cardinality({}) = 0
    BY <1>3, FS_EmptySet DEF IndInv, OwnerUnique
  <2>. QED  BY <1>3, <2>1 DEF OneOwner
<1>. QED  BY <1>1, <1>2, <1>3

LEMMA BookkeepingHolds == ASSUME IndInv PROVE MonitorInv
<1>1. TypeOK
  <2>1. IsFiniteSet(Proc) /\ Cardinality(Proc) \in Nat
    BY MonitorAssumption, FS_CardinalityType
  <2>2. ASSUME NEW B \in SUBSET Proc PROVE Cardinality(B) \in 0..Cardinality(Proc)
    <3>1. Cardinality(B) <= Cardinality(Proc) /\ IsFiniteSet(B)
      BY <2>1, FS_Subset
    <3>2. Cardinality(B) \in Nat
      BY <3>1, FS_CardinalityType
    <3>. QED  BY <2>1, <3>1, <3>2
  <2>3. next_count \in 0..Cardinality(Proc)
    <3>1. Signallers \in SUBSET Proc /\ next_count = Cardinality(Signallers)
      BY DEF Signallers, IndInv, Counted
    <3>. QED  BY <2>2, <3>1
  <2>4. \A c \in CV : count[c] \in 0..Cardinality(Proc)
    <3>1. \A c \in CV : WaitersOf(c) \in SUBSET Proc /\ count[c] = Cardinality(WaitersOf(c))
      BY DEF WaitersOf, IndInv, Counted
    <3>. QED  BY <2>2, <3>1
  <2>5. count \in [CV -> 0..Cardinality(Proc)]
    BY <2>4 DEF IndInv, Types
  <2>. QED  BY <2>3, <2>5 DEF IndInv, Types, TypeOK
<1>2. CountsExact
  <2>. SUFFICES ASSUME NEW p \in Proc, pc[p] = "in"
                PROVE  /\ next_count = Len(queue[next])
                       /\ \A c \in CV : count[c] = Len(queue[c])
    BY DEF CountsExact
  <2>1. Signallers = Queued(next) /\ \A c \in CV : WaitersOf(c) = Queued(c)
    BY AtRest
  <2>2. \A s \in Sem : Cardinality(Queued(s)) = Len(queue[s])
    BY LengthIsCardinality DEF IndInv, Types, QueuesInjective, Queued
  <2>. QED  BY <2>1, <2>2, SemFacts DEF IndInv, Counted
<1>3. NoStrandedSignaller
  <2>1. queue[next] # <<>> => Queued(next) # {}
    BY SemFacts, SetOfQueue DEF IndInv, Types, Queued
  <2>2. value[mutex] = 0 => Owners # {}
    BY DEF IndInv, OwnerUnique
  <2>. QED  BY <2>1, <2>2 DEF NoStrandedSignaller, IndInv, SignallersKept
<1>. QED  BY <1>1, <1>2, <1>3 DEF MonitorInv, IndInv

\* Whatever threads call the monitor's routines, in whatever order, the right to be in
\* it belongs to exactly one of them or is free: cond_signal hands it to the waiter
\* and cond_wait and the end of a routine hand it on, never twice and never to nobody.
THEOREM MonitorHasOneOwner == Spec => []OneOwner
<1>1. Init => IndInv
  BY IndInvInit
<1>2. IndInv /\ [Next]_vars => IndInv'
  BY IndInvNext
<1>3. IndInv => OneOwner
  BY OwnerIsOne
<1>. QED  BY <1>1, <1>2, <1>3, PTL DEF Spec

\* The counters kept by hand say how many threads sleep whenever a routine reads them,
\* no signal is stored, and a signaller never waits for a monitor that is free.
THEOREM MonitorBookkeeping == Spec => []MonitorInv
<1>1. Init => IndInv
  BY IndInvInit
<1>2. IndInv /\ [Next]_vars => IndInv'
  BY IndInvNext
<1>3. IndInv => MonitorInv
  BY BookkeepingHolds
<1>. QED  BY <1>1, <1>2, <1>3, PTL DEF Spec

-----------------------------------------------------------------------------
(* Neighbours. *)

LEMMA Neighbours ==
  ASSUME NEW i \in Proc
  PROVE  /\ Left(i) \in Proc /\ Right(i) \in Proc
         /\ Left(i) = IF i = 0 THEN N - 1 ELSE i - 1
         /\ Right(i) = IF i = N - 1 THEN 0 ELSE i + 1
<1>1. N \in Nat \ {0, 1} /\ Proc = 0..N - 1 /\ i \in 0..N - 1 /\ i \in Int
  BY PhilosophersAssumption
<1>2. CASE i = 0
  <2>1. (i + N - 1) % N = N - 1
    BY <1>1, <1>2
  <2>. QED  BY <2>1, <1>1, <1>2 DEF Left, Right
<1>3. CASE i = N - 1
  <2>1. (i + 1) % N = 0
    BY <1>1, <1>3
  <2>2. (i + N - 1) % N = i - 1
    BY <1>1, <1>3
  <2>. QED  BY <2>1, <2>2, <1>1, <1>3 DEF Left, Right
<1>4. CASE i # 0 /\ i # N - 1
  <2>1. (i + 1) % N = i + 1
    BY <1>1, <1>4
  <2>2. (i + N - 1) % N = i - 1
    BY <1>1, <1>4
  <2>. QED  BY <2>1, <2>2, <1>1, <1>4 DEF Left, Right
<1>. QED  BY <1>2, <1>3, <1>4

LEMMA NeighboursInvert ==
  ASSUME NEW i \in Proc, NEW k \in Proc
  PROVE  (i = Left(k) <=> k = Right(i)) /\ Left(i) # i /\ Right(i) # i
<1>1. N \in Nat \ {0, 1} /\ i \in 0..N - 1 /\ k \in 0..N - 1
  BY PhilosophersAssumption
<1>. QED  BY <1>1, Neighbours

-----------------------------------------------------------------------------
(* Where a philosopher can be, and what his neighbours may conclude from it. *)

Meals == {"think", "hungry", "take", "take_test", "take_wait", "take_leave",
          "eat", "full", "put", "put_left", "put_right", "put_leave"}

PhilTypes ==
  /\ state_condvar \in [Proc -> {"THINKING", "HUNGRY", "EATING"}]
  /\ at \in [Proc -> Meals]
  /\ iter \in [Proc -> 0..TIMES]

\* Before and after a meal.
Thinks(i) ==
  /\ at[i] \in {"think", "hungry"} => state_condvar[i] = "THINKING" /\ pc[i] = "out"
  /\ at[i] = "take" => state_condvar[i] = "THINKING" /\ pc[i] \in {"entering", "in"}
  /\ at[i] = "put_left" => state_condvar[i] = "THINKING" /\ pc[i] = "in"
  /\ at[i] \in {"put_right", "put_leave"} =>
       state_condvar[i] = "THINKING" /\ pc[i] \in {"in", "signal", "signaling"}

\* While he takes the forks: a philosopher who waits at his condition is hungry until
\* the neighbour who wakes him has given him the forks.
TakesForks(i) ==
  /\ at[i] = "take_test" => state_condvar[i] = "HUNGRY" /\ pc[i] = "in"
  /\ at[i] = "take_wait" => state_condvar[i] # "THINKING" /\ pc[i] = "in"
  /\ at[i] = "take_leave" =>
       /\ pc[i] \in {"in", "wait", "waiting"}
       /\ pc[i] # "in" => cv[i] = i
       /\ state_condvar[i] = IF pc[i] = "wait" \/ i \in Queued(i)
                             THEN "HUNGRY" ELSE "EATING"

Eats(i) ==
  /\ at[i] \in {"eat", "full"} => state_condvar[i] = "EATING" /\ pc[i] = "out"
  /\ at[i] = "put" => state_condvar[i] = "EATING" /\ pc[i] \in {"entering", "in"}

Stage(i) == Thinks(i) /\ TakesForks(i) /\ Eats(i) /\ (at[i] # "think" => iter[i] < TIMES)

Excused(k) ==
  \/ state_condvar[Left(k)] = "EATING" \/ state_condvar[Right(k)] = "EATING"
  \/ at[Right(k)] = "put_left" \/ at[Left(k)] \in {"put_left", "put_right"}

\* Who has tested and is still hungry has a reason.
Reasons == \A k \in Proc :
  at[k] \in {"take_wait", "take_leave"} /\ state_condvar[k] = "HUNGRY" => Excused(k)

PhilIInv == IndInv /\ PhilTypes /\ (\A i \in Proc : Stage(i)) /\ Reasons

LEMMA PhilIInvInit == ASSUME PhilInit PROVE PhilIInv
<1>1. IndInv
  BY IndInvInit DEF PhilInit
<1>2. \A i \in Proc : state_condvar[i] = "THINKING" /\ at[i] = "think" /\ iter[i] = 0
                      /\ pc[i] = "out"
  BY DEF PhilInit, Init
<1>3. PhilTypes
  BY PhilosophersAssumption DEF PhilInit, PhilTypes, Meals
<1>4. \A i \in Proc : Stage(i)
  BY <1>2 DEF Stage, Thinks, TakesForks, Eats
<1>5. Reasons
  BY <1>2 DEF Reasons
<1>. QED  BY <1>1, <1>3, <1>4, <1>5 DEF PhilIInv

-----------------------------------------------------------------------------
(* The philosophers take only steps of the monitor. *)

LEMMA TestIsMonitorStep ==
  ASSUME NEW i \in Proc, NEW j \in Proc, Test(i, j)
  PROVE  [Next]_vars
<1>1. j \in CV
  BY PhilosophersAssumption
<1>. QED  BY <1>1 DEF Test, SignalLost, Next

LEMMA PhilStepIsMonitorStep == ASSUME [PhilNext]_allVars PROVE [Next]_vars
<1>1. ASSUME NEW i \in Proc, PhilStep(i) PROVE [Next]_vars
  <2>1. CASE Rest(i) \/ Quit(i)
    BY <2>1 DEF Rest, Quit, Next
  <2>2. CASE Begin(i) \/ End(i)
    BY <2>2 DEF Begin, End, Next
  <2>3. CASE Hungry(i) \/ PutDown(i)
    BY <2>3 DEF Hungry, PutDown
  <2>4. CASE TestSelf(i) \/ TestLeft(i) \/ TestRight(i)
    BY <2>4, TestIsMonitorStep, Neighbours DEF TestSelf, TestLeft, TestRight
  <2>5. CASE WaitForks(i)
    <3>1. i \in CV
      BY PhilosophersAssumption
    <3>. QED  BY <2>5, <3>1 DEF WaitForks, Next
  <2>6. CASE Inside(i)
    BY <2>6 DEF Next
  <2>. QED  BY <1>1, <2>1, <2>2, <2>3, <2>4, <2>5, <2>6 DEF PhilStep
<1>2. ASSUME NEW i \in Proc, Schedule(i) PROVE [Next]_vars
  BY <1>2 DEF Schedule, Next
<1>3. CASE Done \/ UNCHANGED allVars
  BY <1>3 DEF Done, allVars
<1>. QED  BY <1>1, <1>2, <1>3 DEF PhilNext

-----------------------------------------------------------------------------
(* Steps that leave most philosophers where they are. *)

LEMMA StageFrame ==
  ASSUME NEW k \in Proc, Stage(k), at'[k] = at[k], pc'[k] = pc[k], cv'[k] = cv[k],
         state_condvar'[k] = state_condvar[k], iter'[k] = iter[k],
         k \in Queued(k)' <=> k \in Queued(k)
  PROVE  Stage(k)'
BY DEF Stage, Thinks, TakesForks, Eats

\* Only his own philosopher waits in a condition variable.
LEMMA OnlyOwn == ASSUME PhilIInv PROVE \A c \in Proc : c \in Sem /\ Queued(c) \subseteq {c}
<1>. SUFFICES ASSUME NEW c \in Proc PROVE c \in Sem /\ Queued(c) \subseteq {c}
  OBVIOUS
<1>1. c \in CV /\ c \in Sem
  BY PhilosophersAssumption, SemFacts
<1>2. ASSUME NEW q \in Queued(c) PROVE q = c
  <2>1. q \in Proc
    BY <1>1, QueuedInProc DEF PhilIInv, IndInv
  <2>2. pc[q] = "waiting" /\ cv[q] = c
    BY <1>1, <2>1, SemFacts DEF PhilIInv, IndInv, Standing, StandsAt
  <2>3. at[q] = "take_leave"
    BY <2>1, <2>2 DEF PhilIInv, PhilTypes, Meals, Stage, Thinks, TakesForks, Eats
  <2>. QED  BY <2>1, <2>2, <2>3 DEF PhilIInv, Stage, TakesForks
<1>. QED  BY <1>1, <1>2

LEMMA PassOnElsewhere ==
  ASSUME Types, PassOn
  PROVE  \A c \in CV : Queued(c)' = Queued(c)
<1>. PICK s \in {mutex, next} : S!Up(s)
  BY DEF PassOn
<1>1. queue' = queue \/ queue' = [queue EXCEPT ![s] = Tail(@)]
  BY DEF S!Up
<1>2. \A c \in CV : queue'[c] = queue[c]
  BY <1>1, SemFacts DEF Types
<1>. QED  BY <1>2 DEF Queued

LEMMA DownElsewhere ==
  ASSUME Types, NEW p \in Proc, NEW s \in Sem, Down(p, s)
  PROVE  \A c \in CV : c # s => Queued(c)' = Queued(c)
<1>1. queue' = queue \/ queue' = [queue EXCEPT ![s] = Append(@, p)]
  BY DEF Down, S!Take, S!Wait
<1>2. \A c \in CV : c # s => queue'[c] = queue[c]
  BY <1>1, SemFacts DEF Types
<1>. QED  BY <1>2 DEF Queued

LEMMA ReturnElsewhere ==
  ASSUME NEW p \in Proc, NEW s \in Sem, DownReturn(p, s)
  PROVE  \A c \in CV : Queued(c)' = Queued(c)
BY DEF DownReturn, S!Return, semVars, Queued

\* A reason stands while nobody puts down forks or moves on from there.
LEMMA ReasonFrame ==
  ASSUME PhilIInv, NEW i \in Proc, NEW point,
         at' = [at EXCEPT ![i] = point] \/ at' = at,
         UNCHANGED state_condvar,
         at[i] \notin {"put_left", "put_right"},
         point \in {"take_wait", "take_leave"} => at[i] \in {"take_wait", "take_leave"}
  PROVE  Reasons'
<1>. SUFFICES ASSUME NEW k \in Proc, at'[k] \in {"take_wait", "take_leave"},
                     state_condvar'[k] = "HUNGRY"
              PROVE  Excused(k)'
  BY DEF Reasons
<1>1. Left(k) \in Proc /\ Right(k) \in Proc
  BY Neighbours
<1>2. \A j \in Proc : at'[j] = at[j] \/ (j = i /\ at'[j] = point)
  BY DEF PhilIInv, PhilTypes
<1>3. at[k] \in {"take_wait", "take_leave"} /\ state_condvar[k] = "HUNGRY"
  BY <1>2
<1>4. Excused(k)
  BY <1>3 DEF PhilIInv, Reasons
<1>5. \A j \in Proc : at[j] \in {"put_left", "put_right"} => at'[j] = at[j]
  BY <1>2
<1>6. Left(k)' = Left(k) /\ Right(k)' = Right(k)
  BY DEF Left, Right
<1>. QED  BY <1>1, <1>4, <1>5, <1>6 DEF Excused

-----------------------------------------------------------------------------
(* The actions.  Each moves one philosopher; a test may also feed a neighbour. *)

Kept == PhilTypes' /\ (\A k \in Proc : Stage(k)') /\ Reasons'

LEMMA RestKeeps == ASSUME PhilIInv, NEW i \in Proc, Rest(i) \/ Quit(i) PROVE Kept
<1>1. /\ queue' = queue /\ cv' = cv /\ pc' = pc /\ state_condvar' = state_condvar
      /\ iter' = iter
  BY DEF Rest, Quit, Pause, semVars, monitorVars, philVars
<1>2. \A k \in Proc : Queued(k)' = Queued(k)
  BY <1>1 DEF Queued
<1>3. CASE Quit(i)
  <2>1. at' = at
    BY <1>3 DEF Quit, philVars
  <2>2. \A k \in Proc : Stage(k)'
    BY <1>1, <1>2, <2>1, StageFrame DEF PhilIInv
  <2>3. Left(i)' = Left(i) /\ Right(i)' = Right(i)
    BY DEF Left, Right
  <2>. QED  BY <1>1, <2>1, <2>2 DEF Kept, PhilIInv, PhilTypes, Reasons, Excused, Left, Right
<1>4. CASE Rest(i)
  <2>1. PICK point \in {"hungry", "full"} :
          /\ at' = [at EXCEPT ![i] = point]
          /\ \/ at[i] = "think" /\ point = "hungry" /\ iter[i] < TIMES
             \/ at[i] = "eat" /\ point = "full"
    BY <1>4 DEF Rest, Stand, MealsLeft
  <2>2. \A k \in Proc : at'[k] = IF k = i THEN point ELSE at[k]
    BY <2>1 DEF PhilIInv, PhilTypes
  <2>3. ASSUME NEW k \in Proc PROVE Stage(k)'
    <3>1. CASE k # i
      BY <1>1, <1>2, <2>2, <3>1, StageFrame DEF PhilIInv
    <3>2. CASE k = i
      <4>1. Stage(i)
        BY DEF PhilIInv
      <4>. QED  BY <1>1, <2>1, <2>2, <3>2, <4>1 DEF Stage, Thinks, TakesForks, Eats
    <3>. QED  BY <3>1, <3>2
  <2>4. Reasons'
    BY <1>1, <2>1, ReasonFrame
  <2>5. PhilTypes'
    BY <1>1, <2>1 DEF PhilIInv, PhilTypes, Meals
  <2>. QED  BY <2>3, <2>4, <2>5 DEF Kept
<1>. QED  BY <1>3, <1>4

LEMMA BeginKeeps == ASSUME PhilIInv, NEW i \in Proc, Begin(i) PROVE Kept
<1>1. /\ pc[i] = "out" /\ Down(i, mutex) /\ cv' = cv /\ pc' = [pc EXCEPT ![i] = "entering"]
      /\ state_condvar' = state_condvar /\ iter' = iter
  BY DEF Begin, Enter, At, Goto, monitorVars
<1>2. \A k \in Proc : Queued(k)' = Queued(k)
  <2>1. \A c \in CV : c # mutex => Queued(c)' = Queued(c)
    BY <1>1, DownElsewhere, SemFacts DEF PhilIInv, IndInv
  <2>. QED  BY <2>1, SemFacts, PhilosophersAssumption
<1>3. PICK point \in {"take", "put"} :
        /\ at' = [at EXCEPT ![i] = point]
        /\ \/ at[i] = "hungry" /\ point = "take"
           \/ at[i] = "full" /\ point = "put"
  BY DEF Begin, Stand
<1>4. \A k \in Proc : /\ at'[k] = IF k = i THEN point ELSE at[k]
                      /\ pc'[k] = IF k = i THEN "entering" ELSE pc[k]
  BY <1>1, <1>3 DEF PhilIInv, PhilTypes, IndInv, Types
<1>5. ASSUME NEW k \in Proc PROVE Stage(k)'
  <2>1. CASE k # i
    BY <1>1, <1>2, <1>4, <2>1, StageFrame DEF PhilIInv
  <2>2. CASE k = i
    <3>1. Stage(i)
      BY DEF PhilIInv
    <3>. QED  BY <1>1, <1>3, <1>4, <2>2, <3>1 DEF Stage, Thinks, TakesForks, Eats
  <2>. QED  BY <2>1, <2>2
<1>6. Reasons'
  BY <1>1, <1>3, ReasonFrame
<1>7. PhilTypes'
  BY <1>1, <1>3 DEF PhilIInv, PhilTypes, Meals
<1>. QED  BY <1>5, <1>6, <1>7 DEF Kept

LEMMA EndKeeps == ASSUME PhilIInv, NEW i \in Proc, End(i) PROVE Kept
<1>1. /\ pc[i] = "in" /\ PassOn /\ cv' = cv /\ pc' = [pc EXCEPT ![i] = "out"]
      /\ state_condvar' = state_condvar
  BY DEF End, Leave, At, Goto, monitorVars
<1>2. \A k \in Proc : Queued(k)' = Queued(k)
  BY <1>1, PassOnElsewhere, PhilosophersAssumption DEF PhilIInv, IndInv
<1>3. PICK point \in {"eat", "think"} :
        /\ at' = [at EXCEPT ![i] = point]
        /\ \/ at[i] = "take_leave" /\ point = "eat" /\ iter' = iter
           \/ at[i] = "put_leave" /\ point = "think" /\ iter' = [iter EXCEPT ![i] = @ + 1]
  BY DEF End, Stand
<1>4. \A k \in Proc : /\ at'[k] = IF k = i THEN point ELSE at[k]
                      /\ pc'[k] = IF k = i THEN "out" ELSE pc[k]
                      /\ k # i => iter'[k] = iter[k]
  BY <1>1, <1>3 DEF PhilIInv, PhilTypes, IndInv, Types
<1>5. Stage(i)
  BY DEF PhilIInv
<1>6. i \notin Queued(i)
  BY <1>1, PhilosophersAssumption, SemFacts DEF PhilIInv, IndInv, Standing, StandsAt
<1>7. ASSUME NEW k \in Proc PROVE Stage(k)'
  <2>1. CASE k # i
    BY <1>1, <1>2, <1>4, <2>1, StageFrame DEF PhilIInv
  <2>2. CASE k = i
    BY <1>1, <1>3, <1>4, <1>5, <1>6, <2>2 DEF Stage, Thinks, TakesForks, Eats
  <2>. QED  BY <2>1, <2>2
<1>8. Reasons'
  <2>1. CASE at[i] = "take_leave"
    BY <1>1, <1>3, <2>1, ReasonFrame
  <2>2. CASE at[i] = "put_leave"
    BY <1>1, <1>3, <2>2, ReasonFrame
  <2>. QED  BY <1>3, <2>1, <2>2
<1>9. PhilTypes'
  <2>1. iter[i] \in 0..TIMES /\ TIMES \in Nat /\ (at[i] # "think" => iter[i] < TIMES)
    BY <1>5, PhilosophersAssumption DEF PhilIInv, PhilTypes, Stage
  <2>2. at[i] # "think" => iter[i] + 1 \in 0..TIMES
    BY <2>1
  <2>. QED  BY <1>1, <1>3, <2>2 DEF PhilIInv, PhilTypes, Meals
<1>. QED  BY <1>7, <1>8, <1>9 DEF Kept

LEMMA HungryKeeps == ASSUME PhilIInv, NEW i \in Proc, Hungry(i) PROVE Kept
<1>1. /\ pc[i] = "in" /\ at[i] = "take" /\ UNCHANGED vars /\ iter' = iter
      /\ at' = [at EXCEPT ![i] = "take_test"]
      /\ state_condvar' = [state_condvar EXCEPT ![i] = "HUNGRY"]
  BY DEF Hungry, In, At, Stand
<1>2. queue' = queue /\ cv' = cv /\ pc' = pc
  BY <1>1 DEF vars, semVars, monitorVars
<1>3. \A k \in Proc : Queued(k)' = Queued(k)
  BY <1>2 DEF Queued
<1>4. \A k \in Proc : /\ at'[k] = IF k = i THEN "take_test" ELSE at[k]
                      /\ state_condvar'[k] = IF k = i THEN "HUNGRY" ELSE state_condvar[k]
  BY <1>1 DEF PhilIInv, PhilTypes
<1>5. Stage(i)
  BY DEF PhilIInv
<1>6. ASSUME NEW k \in Proc PROVE Stage(k)'
  <2>1. CASE k # i
    BY <1>1, <1>2, <1>3, <1>4, <2>1, StageFrame DEF PhilIInv
  <2>2. CASE k = i
    BY <1>1, <1>2, <1>4, <1>5, <2>2 DEF Stage, Thinks, TakesForks, Eats
  <2>. QED  BY <2>1, <2>2
<1>7. Reasons'
  <2>. SUFFICES ASSUME NEW k \in Proc, at'[k] \in {"take_wait", "take_leave"},
                       state_condvar'[k] = "HUNGRY"
                PROVE  Excused(k)'
    BY DEF Reasons
  <2>1. k # i /\ Excused(k)
    BY <1>4 DEF PhilIInv, Reasons
  <2>2. state_condvar[i] = "THINKING"
    BY <1>1, <1>5 DEF Stage, Thinks
  <2>3. Left(k) \in Proc /\ Right(k) \in Proc /\ Left(k)' = Left(k) /\ Right(k)' = Right(k)
    BY Neighbours DEF Left, Right
  <2>. QED  BY <1>1, <1>4, <2>1, <2>2, <2>3 DEF Excused
<1>8. PhilTypes'
  BY <1>1 DEF PhilIInv, PhilTypes, Meals
<1>. QED  BY <1>6, <1>7, <1>8 DEF Kept

LEMMA PutDownKeeps == ASSUME PhilIInv, NEW i \in Proc, PutDown(i) PROVE Kept
<1>1. /\ pc[i] = "in" /\ at[i] = "put" /\ UNCHANGED vars /\ iter' = iter
      /\ at' = [at EXCEPT ![i] = "put_left"]
      /\ state_condvar' = [state_condvar EXCEPT ![i] = "THINKING"]
  BY DEF PutDown, In, At, Stand
<1>2. queue' = queue /\ cv' = cv /\ pc' = pc
  BY <1>1 DEF vars, semVars, monitorVars
<1>3. \A k \in Proc : Queued(k)' = Queued(k)
  BY <1>2 DEF Queued
<1>4. \A k \in Proc : /\ at'[k] = IF k = i THEN "put_left" ELSE at[k]
                      /\ state_condvar'[k] = IF k = i THEN "THINKING" ELSE state_condvar[k]
  BY <1>1 DEF PhilIInv, PhilTypes
<1>5. Stage(i)
  BY DEF PhilIInv
<1>6. ASSUME NEW k \in Proc PROVE Stage(k)'
  <2>1. CASE k # i
    BY <1>1, <1>2, <1>3, <1>4, <2>1, StageFrame DEF PhilIInv
  <2>2. CASE k = i
    BY <1>1, <1>2, <1>4, <1>5, <2>2 DEF Stage, Thinks, TakesForks, Eats
  <2>. QED  BY <2>1, <2>2
<1>7. Reasons'
  <2>. SUFFICES ASSUME NEW k \in Proc, at'[k] \in {"take_wait", "take_leave"},
                       state_condvar'[k] = "HUNGRY"
                PROVE  Excused(k)'
    BY DEF Reasons
  <2>1. k # i /\ Excused(k)
    BY <1>4 DEF PhilIInv, Reasons
  <2>2. Left(k) \in Proc /\ Right(k) \in Proc /\ Left(k)' = Left(k) /\ Right(k)' = Right(k)
    BY Neighbours DEF Left, Right
  <2>3. CASE i \in {Left(k), Right(k)}
    BY <1>4, <2>2, <2>3 DEF Excused
  <2>4. CASE i \notin {Left(k), Right(k)}
    BY <1>4, <2>1, <2>2, <2>4 DEF Excused
  <2>. QED  BY <2>3, <2>4
<1>8. PhilTypes'
  BY <1>1 DEF PhilIInv, PhilTypes, Meals
<1>. QED  BY <1>6, <1>7, <1>8 DEF Kept

LEMMA WaitForksKeeps == ASSUME PhilIInv, NEW i \in Proc, WaitForks(i) PROVE Kept
<1>1. /\ pc[i] = "in" /\ at[i] = "take_wait" /\ at' = [at EXCEPT ![i] = "take_leave"]
      /\ state_condvar' = state_condvar /\ iter' = iter
  BY DEF WaitForks, In, At, Stand
<1>2. Stage(i)
  BY DEF PhilIInv
<1>3. i \notin Queued(i)
  BY <1>1, PhilosophersAssumption, SemFacts DEF PhilIInv, IndInv, Standing, StandsAt
<1>4. \A k \in Proc : at'[k] = IF k = i THEN "take_leave" ELSE at[k]
  BY <1>1 DEF PhilIInv, PhilTypes
<1>5. ASSUME NEW k \in Proc PROVE Stage(k)'
  <2>1. CASE state_condvar[i] # "EATING"
    <3>1. /\ PassOn /\ cv' = [cv EXCEPT ![i] = i] /\ pc' = [pc EXCEPT ![i] = "wait"]
      BY <1>1, <2>1 DEF WaitForks, Wait, Goto
    <3>2. \A j \in Proc : Queued(j)' = Queued(j)
      BY <3>1, PassOnElsewhere, PhilosophersAssumption DEF PhilIInv, IndInv
    <3>3. \A j \in Proc : /\ pc'[j] = IF j = i THEN "wait" ELSE pc[j]
                          /\ cv'[j] = IF j = i THEN i ELSE cv[j]
      BY <3>1 DEF PhilIInv, IndInv, Types
    <3>4. state_condvar[i] = "HUNGRY"
      BY <1>1, <1>2, <2>1 DEF Stage, TakesForks, PhilIInv, PhilTypes
    <3>5. CASE k # i
      BY <1>1, <1>4, <3>2, <3>3, <3>5, StageFrame DEF PhilIInv
    <3>6. CASE k = i
      BY <1>1, <1>2, <1>4, <3>3, <3>4, <3>6 DEF Stage, Thinks, TakesForks, Eats
    <3>. QED  BY <3>5, <3>6
  <2>2. CASE state_condvar[i] = "EATING"
    <3>1. UNCHANGED vars
      BY <2>2 DEF WaitForks
    <3>2. queue' = queue /\ cv' = cv /\ pc' = pc
      BY <3>1 DEF vars, semVars, monitorVars
    <3>3. \A j \in Proc : Queued(j)' = Queued(j)
      BY <3>2 DEF Queued
    <3>4. CASE k # i
      BY <1>1, <1>4, <3>2, <3>3, <3>4, StageFrame DEF PhilIInv
    <3>5. CASE k = i
      BY <1>1, <1>2, <1>3, <1>4, <2>2, <3>2, <3>3, <3>5 DEF Stage, Thinks, TakesForks, Eats
    <3>. QED  BY <3>4, <3>5
  <2>. QED  BY <2>1, <2>2
<1>6. Reasons'
  BY <1>1, ReasonFrame
<1>7. PhilTypes'
  BY <1>1 DEF PhilIInv, PhilTypes, Meals
<1>. QED  BY <1>5, <1>6, <1>7 DEF Kept

LEMMA InsideKeeps ==
  ASSUME PhilIInv, NEW i \in Proc, Inside(i), UNCHANGED philVars PROVE Kept
<1>1. at' = at /\ state_condvar' = state_condvar /\ iter' = iter
  BY DEF philVars
<1>2. Stage(i) /\ at[i] \in Meals /\ Types
  BY DEF PhilIInv, PhilTypes, IndInv
<1>3. \A k \in Proc : k \in CV /\ k \in Sem
  BY PhilosophersAssumption, SemFacts
<1>4. cv' = cv
  BY DEF Inside, Entered, WaitDown, Waited, SignalDown, Signaled, monitorVars
<1>5. ASSUME Entered(i) \/ Signaled(i) \/ Waited(i) PROVE \A k \in Proc : Stage(k)'
  <2>1. PICK s \in Sem : DownReturn(i, s)
    BY <1>2, <1>5, SemFacts DEF Entered, Signaled, Waited, Types
  <2>2. \A k \in Proc : Queued(k)' = Queued(k)
    BY <1>3, <2>1, ReturnElsewhere
  <2>3. \A k \in Proc : pc'[k] = IF k = i THEN "in" ELSE pc[k]
    BY <1>2, <1>5 DEF Entered, Signaled, Waited, Goto, Types
  <2>4. pc[i] \in {"entering", "signaling", "waiting"}
    BY <1>5 DEF Entered, Signaled, Waited, At
  <2>5. Stage(i)'
    BY <1>1, <1>2, <2>2, <2>3, <2>4 DEF Stage, Thinks, TakesForks, Eats, Meals
  <2>. QED  BY <1>1, <1>4, <2>2, <2>3, <2>5, StageFrame DEF PhilIInv
<1>6. ASSUME WaitDown(i) PROVE \A k \in Proc : Stage(k)'
  <2>1. pc[i] = "wait" /\ pc' = [pc EXCEPT ![i] = "waiting"] /\ Down(i, cv[i])
    BY <1>6 DEF WaitDown, At, Goto
  <2>2. at[i] = "take_leave"
    BY <1>2, <2>1 DEF Stage, Thinks, TakesForks, Eats, Meals
  <2>3. cv[i] = i /\ state_condvar[i] = "HUNGRY"
    BY <1>2, <2>1, <2>2 DEF Stage, TakesForks
  <2>4. value[i] = 0 /\ Down(i, i)
    BY <1>3, <2>1, <2>3 DEF PhilIInv, IndInv, NoStoredSignal
  <2>5. S!Wait(i, i)
    BY <2>4 DEF Down
  <2>6. \A k \in Proc : Queued(k)' = IF k = i THEN Queued(k) \cup {i} ELSE Queued(k)
    BY <1>3, <2>5, WaitFacts DEF PhilIInv, IndInv
  <2>7. \A k \in Proc : pc'[k] = IF k = i THEN "waiting" ELSE pc[k]
    BY <1>2, <2>1 DEF Types
  <2>8. Stage(i)'
    BY <1>1, <1>2, <1>4, <2>2, <2>3, <2>6, <2>7 DEF Stage, Thinks, TakesForks, Eats
  <2>. QED  BY <1>1, <1>4, <2>6, <2>7, <2>8, StageFrame DEF PhilIInv
<1>7. ASSUME SignalDown(i) PROVE \A k \in Proc : Stage(k)'
  <2>1. pc[i] = "signal" /\ pc' = [pc EXCEPT ![i] = "signaling"] /\ Down(i, next)
    BY <1>7 DEF SignalDown, At, Goto
  <2>2. \A k \in Proc : Queued(k)' = Queued(k)
    BY <1>2, <1>3, <2>1, DownElsewhere, SemFacts
  <2>3. \A k \in Proc : pc'[k] = IF k = i THEN "signaling" ELSE pc[k]
    BY <1>2, <2>1 DEF Types
  <2>4. Stage(i)'
    BY <1>1, <1>2, <2>1, <2>2, <2>3 DEF Stage, Thinks, TakesForks, Eats, Meals
  <2>. QED  BY <1>1, <1>4, <2>2, <2>3, <2>4, StageFrame DEF PhilIInv
<1>8. \A k \in Proc : Stage(k)'
  <2>1. CASE Entered(i) \/ Signaled(i) \/ Waited(i)
    BY <2>1, <1>5
  <2>. QED  BY <2>1, <1>6, <1>7 DEF Inside
<1>9. PhilTypes' /\ Reasons'
  BY <1>1 DEF PhilIInv, PhilTypes, Reasons, Excused, Left, Right
<1>. QED  BY <1>8, <1>9 DEF Kept

\* phi_test_condvar(j) by i: when the forks are free j eats, and if he waits for them
\* he is woken; nobody else notices.
LEMMA TestFacts ==
  ASSUME PhilIInv, NEW i \in Proc, NEW j \in Proc, At(i, "in"), Test(i, j)
  PROVE  /\ cv' = cv
         /\ \A k \in Proc : k # i => pc'[k] = pc[k]
         /\ pc'[i] \in {"in", "signal"} /\ (i = j => pc'[i] = "in")
         /\ \A k \in Proc : k # j => Queued(k)' = Queued(k)
         /\ ForksFree(j) => j \notin Queued(j)'
         /\ ~ForksFree(j) => Queued(j)' = Queued(j)
<1>1. pc[i] = "in" /\ j \in CV /\ j \in Sem /\ \A k \in Proc : k \in Sem
  BY PhilosophersAssumption, SemFacts DEF At
<1>2. Queued(j) \subseteq {j}
  BY OnlyOwn
<1>3. WaitersOf(j) = Queued(j) /\ count[j] = Cardinality(WaitersOf(j))
      /\ IsFiniteSet(WaitersOf(j))
  BY <1>1, AtRest, CountedSets DEF PhilIInv, IndInv, Counted
<1>4. count[j] \in Nat /\ (count[j] = 0 <=> Queued(j) = {})
  BY <1>1, <1>3, FS_EmptySet DEF PhilIInv, IndInv, Types
<1>5. CASE ~ForksFree(j) \/ (ForksFree(j) /\ SignalLost(i, j))
  <2>1. queue' = queue /\ cv' = cv /\ pc' = pc
    BY <1>5 DEF Test, SignalLost, vars, semVars, monitorVars
  <2>2. ForksFree(j) => Queued(j) = {}
    BY <1>4, <1>5 DEF SignalLost, AnyoneWaits
  <2>. QED  BY <1>1, <2>1, <2>2 DEF Queued
<1>6. CASE ForksFree(j) /\ Signal(i, j)
  <2>1. /\ cv' = cv /\ pc' = [pc EXCEPT ![i] = "signal"] /\ S!Up(j) /\ count[j] > 0
    BY <1>6 DEF Signal, Goto, monitorVars, AnyoneWaits
  <2>2. j \in Queued(j)
    BY <1>2, <1>4, <2>1
  <2>3. j # i
    BY <1>1, <2>2, SemFacts DEF PhilIInv, IndInv, Standing, StandsAt
  <2>4. /\ \A k \in Proc : k # j => Queued(k)' = Queued(k)
        /\ j \notin Queued(j)'
    <3>1. PICK h \in Proc :
            /\ h \in Queued(j)
            /\ \A t \in Sem : Queued(t)' = IF t = j THEN Queued(t) \ {h} ELSE Queued(t)
      BY <1>1, <2>1, <2>2, UpFacts DEF PhilIInv, IndInv
    <3>2. h = j
      BY <1>2, <3>1
    <3>. QED  BY <1>1, <3>1, <3>2
  <2>5. \A k \in Proc : pc'[k] = IF k = i THEN "signal" ELSE pc[k]
    BY <2>1 DEF PhilIInv, IndInv, Types
  <2>. QED  BY <1>6, <2>1, <2>3, <2>4, <2>5
<1>. QED  BY <1>5, <1>6 DEF Test

\* A test by i, which then moves to the next point of its routine.
LEMMA TestKeeps ==
  ASSUME PhilIInv, NEW i \in Proc, NEW j \in Proc, At(i, "in"), Test(i, j), iter' = iter,
         NEW point, at' = [at EXCEPT ![i] = point],
         \/ at[i] = "take_test" /\ point = "take_wait" /\ j = i
         \/ at[i] = "put_left" /\ point = "put_right" /\ j = Left(i)
         \/ at[i] = "put_right" /\ point = "put_leave" /\ j = Right(i)
  PROVE  Kept
<1>1. /\ cv' = cv
      /\ \A k \in Proc : k # i => pc'[k] = pc[k]
      /\ pc'[i] \in {"in", "signal"} /\ (i = j => pc'[i] = "in")
      /\ \A k \in Proc : k # j => Queued(k)' = Queued(k)
      /\ ForksFree(j) => j \notin Queued(j)'
      /\ ~ForksFree(j) => Queued(j)' = Queued(j)
  BY TestFacts
<1>2. pc[i] = "in" /\ \A k \in Proc : k # i => pc[k] \notin {"in", "wait", "signal"}
  BY AtRest DEF At, PhilIInv, HasMonitor
<1>3. \A k \in Proc : at'[k] = IF k = i THEN point ELSE at[k]
  BY DEF PhilIInv, PhilTypes
<1>4. \A k \in Proc : state_condvar'[k] = IF k = j /\ ForksFree(j) THEN "EATING"
                                          ELSE state_condvar[k]
  BY DEF Test, PhilIInv, PhilTypes
<1>5. Left(i) # i /\ Right(i) # i
  BY NeighboursInvert
<1>6. Stage(i)'
  <2>1. Stage(i)
    BY DEF PhilIInv
  <2>2. CASE j = i
    BY <1>1, <1>2, <1>3, <1>4, <1>5, <2>1, <2>2
       DEF Stage, Thinks, TakesForks, Eats, ForksFree
  <2>3. CASE j # i
    BY <1>1, <1>2, <1>3, <1>4, <2>1, <2>3 DEF Stage, Thinks, TakesForks, Eats
  <2>. QED  BY <2>2, <2>3
<1>7. ASSUME j # i PROVE Stage(j)'
  <2>1. Stage(j) /\ at[j] \in Meals
    BY DEF PhilIInv, PhilTypes
  <2>2. CASE ~ForksFree(j)
    BY <1>1, <1>3, <1>4, <1>7, <2>1, <2>2, StageFrame
  <2>3. CASE ForksFree(j)
    <3>1. at[j] = "take_leave" /\ pc[j] = "waiting"
      BY <1>2, <1>7, <2>1, <2>3 DEF ForksFree, Stage, Thinks, TakesForks, Eats, Meals
    <3>. QED  BY <1>1, <1>3, <1>4, <1>7, <2>1, <2>3, <3>1
              DEF Stage, Thinks, TakesForks, Eats
  <2>. QED  BY <2>2, <2>3
<1>8. \A k \in Proc : Stage(k)'
  <2>1. ASSUME NEW k \in Proc, k # i, k # j PROVE Stage(k)'
    BY <1>1, <1>3, <1>4, <2>1, StageFrame DEF PhilIInv
  <2>. QED  BY <1>6, <1>7, <2>1
<1>9. Reasons'
  <2>. SUFFICES ASSUME NEW k \in Proc, at'[k] \in {"take_wait", "take_leave"},
                       state_condvar'[k] = "HUNGRY"
                PROVE  Excused(k)'
    BY DEF Reasons
  <2>1. /\ Left(k) \in Proc /\ Right(k) \in Proc /\ Left(k)' = Left(k) /\ Right(k)' = Right(k)
    BY Neighbours DEF Left, Right
  <2>2. state_condvar[k] = "HUNGRY" /\ ~(k = j /\ ForksFree(j))
    BY <1>4
  <2>3. \A m \in Proc : state_condvar[m] = "EATING" => state_condvar'[m] = "EATING"
    BY <1>4
  <2>4. CASE k = j
    <3>1. state_condvar[Left(k)] = "EATING" \/ state_condvar[Right(k)] = "EATING"
      BY <2>2, <2>4 DEF ForksFree
    <3>. QED  BY <2>1, <2>3, <3>1 DEF Excused
  <2>5. CASE k # j
    <3>1. k # i
      BY <1>3, <2>5
    <3>2. Excused(k)
      BY <1>3, <2>2, <3>1 DEF PhilIInv, Reasons
    <3>3. /\ i = Right(k) => at[i] # "put_left"
          /\ i = Left(k) => at[i] # "put_right"
      BY <2>5, NeighboursInvert
    <3>. QED  BY <1>3, <2>1, <2>3, <3>2, <3>3 DEF Excused
  <2>. QED  BY <2>4, <2>5
<1>10. PhilTypes'
  BY <1>4 DEF Test, PhilIInv, PhilTypes, Meals
<1>. QED  BY <1>8, <1>9, <1>10 DEF Kept

LEMMA PhilIInvNext == ASSUME PhilIInv, [PhilNext]_allVars PROVE PhilIInv'
<1>1. IndInv'
  BY PhilStepIsMonitorStep, IndInvNext DEF PhilIInv
<1>2. ASSUME NEW i \in Proc, PhilStep(i) PROVE Kept
  <2>1. CASE Rest(i) \/ Quit(i)
    BY <2>1, RestKeeps
  <2>2. CASE Begin(i)
    BY <2>2, BeginKeeps
  <2>3. CASE End(i)
    BY <2>3, EndKeeps
  <2>4. CASE Hungry(i)
    BY <2>4, HungryKeeps
  <2>5. CASE WaitForks(i)
    BY <2>5, WaitForksKeeps
  <2>6. CASE PutDown(i)
    BY <2>6, PutDownKeeps
  <2>7. CASE TestSelf(i)
    BY <2>7, TestKeeps DEF TestSelf, In, Stand
  <2>8. CASE TestLeft(i)
    BY <2>8, TestKeeps, Neighbours DEF TestLeft, In, Stand
  <2>9. CASE TestRight(i)
    BY <2>9, TestKeeps, Neighbours DEF TestRight, In, Stand
  <2>10. CASE Inside(i) /\ UNCHANGED philVars
    BY <2>10, InsideKeeps
  <2>. QED  BY <1>2, <2>1, <2>2, <2>3, <2>4, <2>5, <2>6, <2>7, <2>8, <2>9, <2>10 DEF PhilStep
<1>3. ASSUME UNCHANGED <<queue, cv, pc, philVars>> PROVE Kept
  <2>1. /\ queue' = queue /\ cv' = cv /\ pc' = pc
        /\ state_condvar' = state_condvar /\ at' = at /\ iter' = iter
    BY <1>3 DEF philVars
  <2>2. \A k \in Proc : Stage(k)'
    BY <2>1, StageFrame DEF PhilIInv, Queued
  <2>. QED  BY <2>1, <2>2 DEF Kept, PhilIInv, PhilTypes, Reasons, Excused, Left, Right
<1>4. ASSUME NEW i \in Proc, Schedule(i) PROVE Kept
  BY <1>3, <1>4 DEF Schedule, Dispatch, semVars, monitorVars
<1>5. CASE Done \/ UNCHANGED allVars
  <2>1. UNCHANGED <<queue, cv, pc, philVars>>
    BY <1>5 DEF Done, allVars, vars, semVars, monitorVars
  <2>2. Kept
    BY <1>3, <2>1
  <2>. QED  BY <1>1, <2>2 DEF Kept, PhilIInv
<1>6. CASE PhilNext
  <2>1. CASE Done
    BY <1>5, <2>1
  <2>2. CASE \E i \in Proc : PhilStep(i) \/ Schedule(i)
    BY <1>1, <1>2, <1>4, <2>2 DEF Kept, PhilIInv
  <2>. QED  BY <1>6, <2>1, <2>2 DEF PhilNext
<1>. QED  BY <1>5, <1>6

-----------------------------------------------------------------------------
(* The theorems. *)

LEMMA PhilIInvGives == ASSUME PhilIInv PROVE PhilInv
<1>1. PhilTypeOK
  BY BookkeepingHolds DEF PhilIInv, PhilTypes, Meals, PhilTypeOK, MonitorInv
<1>2. EatsWithForks
  BY DEF PhilIInv, Stage, Eats, EatsWithForks
<1>3. HungryForAReason
  <2>. SUFFICES ASSUME NEW i \in Proc, pc[i] = "waiting", Asleep(i)
                PROVE  Excused(i)
    BY DEF HungryForAReason, Excused
  <2>1. at[i] = "take_leave"
    BY DEF PhilIInv, PhilTypes, Meals, Stage, Thinks, TakesForks, Eats
  <2>2. i \in Queued(i)
    <3>1. PICK s \in Sem : i \in Queued(s)
      BY DEF Asleep, Queued
    <3>2. s = cv[i] /\ cv[i] = i
      BY <2>1, <3>1 DEF PhilIInv, IndInv, Standing, StandsAt, Stage, TakesForks
    <3>. QED  BY <3>1, <3>2
  <2>3. state_condvar[i] = "HUNGRY"
    BY <2>1, <2>2 DEF PhilIInv, Stage, TakesForks
  <2>. QED  BY <2>1, <2>3 DEF PhilIInv, Reasons
<1>. QED  BY <1>1, <1>2, <1>3 DEF PhilInv

\* check_sync calls the monitor the way monitor.h asks for: the dinner is a behaviour
\* of the monitor, so that what is proved of the monitor holds during it.
THEOREM DinnerUsesMonitor == PhilSpec => Spec
<1>1. PhilInit => Init
  BY DEF PhilInit
<1>2. [PhilNext]_allVars => [Next]_vars
  BY PhilStepIsMonitorStep
<1>. QED  BY <1>1, <1>2, PTL DEF PhilSpec, Spec

\* During the dinner the monitor has one owner, and its counters are right.
THEOREM DinnerKeepsMonitor == PhilSpec => [](OneOwner /\ MonitorInv)
BY DinnerUsesMonitor, MonitorHasOneOwner, MonitorBookkeeping, PTL

LEMMA PhilIInvAlways == PhilSpec => []PhilIInv
<1>1. PhilInit => PhilIInv
  BY PhilIInvInit
<1>2. PhilIInv /\ [PhilNext]_allVars => PhilIInv'
  BY PhilIInvNext
<1>. QED  BY <1>1, <1>2, PTL DEF PhilSpec

\* For any number of philosophers and meals: who eats has both forks although he does
\* not test again after cond_wait, and who sleeps hungry has a neighbour who eats or is
\* about to test for him.
THEOREM NobodyHungryForNothing == PhilSpec => []PhilInv
<1>1. PhilIInv => PhilInv
  BY PhilIInvGives
<1>. QED  BY <1>1, PhilIInvAlways, PTL

\* A step of the threads is a step of the table, or none.
LEMMA TableStep == ASSUME PhilIInv, [PhilNext]_allVars PROVE [D!Next]_state_condvar
<1>1. Proc = D!Phil
  BY PhilosophersAssumption DEF D!Phil
<1>2. ASSUME NEW i \in Proc, NEW j \in Proc, Test(i, j) PROVE [D!Next]_state_condvar
  BY <1>1, <1>2 DEF Test, ForksFree, D!Next, D!Eat, D!Left, D!Right, Left, Right
<1>3. ASSUME NEW i \in Proc, PhilStep(i) PROVE [D!Next]_state_condvar
  <2>1. Stage(i)
    BY DEF PhilIInv
  <2>2. CASE Hungry(i)
    BY <1>1, <2>1, <2>2 DEF Hungry, In, Stage, Thinks, D!Next, D!GetHungry
  <2>3. CASE PutDown(i)
    BY <1>1, <2>1, <2>3 DEF PutDown, In, Stage, Eats, D!Next, D!PutForks
  <2>4. CASE TestSelf(i) \/ TestLeft(i) \/ TestRight(i)
    BY <1>2, <2>4, Neighbours DEF TestSelf, TestLeft, TestRight
  <2>5. CASE Rest(i) \/ Quit(i) \/ Begin(i) \/ End(i) \/ WaitForks(i)
             \/ (Inside(i) /\ UNCHANGED philVars)
    BY <2>5 DEF Rest, Quit, Begin, End, WaitForks, philVars
  <2>. QED  BY <1>3, <2>2, <2>3, <2>4, <2>5 DEF PhilStep
<1>4. CASE (\E i \in Proc : Schedule(i)) \/ Done \/ UNCHANGED allVars
  BY <1>4 DEF Schedule, Done, allVars, philVars
<1>. QED  BY <1>3, <1>4 DEF PhilNext

\* The threads, semaphores and counters of check_sync implement the table of
\* DiningTable: forks are taken both at once, by hungry philosophers only.
THEOREM DinnerImplementsTable == PhilSpec => ImplementsTable
<1>1. PhilInit => D!Init
  BY PhilosophersAssumption DEF PhilInit, D!Init, D!Phil
<1>2. PhilIInv /\ [PhilNext]_allVars => [D!Next]_state_condvar
  BY TableStep
<1>. QED  BY <1>1, <1>2, PhilIInvAlways, PTL DEF PhilSpec, ImplementsTable, D!Spec

-----------------------------------------------------------------------------
(* The semaphore solution. *)

TableQueued(s) == ToSet(sema_queue[s])

\* Whoever is between down(&mutex) and up(&mutex).
Critical == {"take", "take_test", "take_up", "put", "put_left", "put_right", "put_up"}

SemaQueues == \A s \in TableSem : IsInjective(sema_queue[s])

\* Who stands in down(&mutex) waits there or was let through.
MutexStanding ==
  /\ sema_granted[tableMutex] \cap TableQueued(tableMutex) = {}
  /\ sema_granted[tableMutex] \cup TableQueued(tableMutex)
       = {i \in Proc : sema_at[i] \in {"take_down", "put_down"}}

\* Those who were let through, and those inside.
TableOwners == sema_granted[tableMutex] \cup {i \in Proc : sema_at[i] \in Critical}

OwnsTable ==
  \/ sema_value[tableMutex] = 0 /\ \E o \in Proc : TableOwners = {o}
  \/ sema_value[tableMutex] = 1 /\ TableOwners = {}

\* s[i] and its queue follow from where i is and what he does.
Fork(i) ==
  /\ sema_value[i] = IF sema_at[i] \in {"take_up", "take_fork"} /\ state_sema[i] = "EATING"
                     THEN 1 ELSE 0
  /\ sema_granted[i] = IF sema_at[i] = "take_wait" /\ state_sema[i] = "EATING"
                       THEN {i} ELSE {}
  /\ TableQueued(i) = IF sema_at[i] = "take_wait" /\ state_sema[i] = "HUNGRY"
                      THEN {i} ELSE {}

SemaStage(i) ==
  /\ sema_at[i] \in {"think", "hungry", "take_down", "take",
                     "put_left", "put_right", "put_up"} => state_sema[i] = "THINKING"
  /\ sema_at[i] = "take_test" => state_sema[i] = "HUNGRY"
  /\ sema_at[i] \in {"take_up", "take_fork", "take_wait"} => state_sema[i] # "THINKING"
  /\ sema_at[i] \in {"eat", "full", "put_down", "put"} => state_sema[i] = "EATING"
  /\ sema_at[i] # "think" => sema_iter[i] < TIMES

SemaExcused(k) ==
  \/ state_sema[Left(k)] = "EATING" \/ state_sema[Right(k)] = "EATING"
  \/ sema_at[Right(k)] = "put_left" \/ sema_at[Left(k)] \in {"put_left", "put_right"}

SemaReasons == \A k \in Proc :
  sema_at[k] \in {"take_up", "take_fork", "take_wait"} /\ state_sema[k] = "HUNGRY"
    => SemaExcused(k)

SemaIInv ==
  /\ SemaTypeOK /\ SemaQueues /\ MutexStanding /\ OwnsTable /\ SemaReasons
  /\ \A i \in Proc : Fork(i) /\ SemaStage(i)

LEMMA TableFacts ==
  /\ tableMutex \in TableSem /\ tableMutex \notin Proc /\ Proc \subseteq TableSem
  /\ \A i \in Proc : i \in TableSem /\ i # tableMutex
BY SemaPhilosophersAssumption DEF TableSem

LEMMA SemaIInvInit == ASSUME SemaInit PROVE SemaIInv
<1>1. /\ sema_value = [s \in TableSem |-> IF s = tableMutex THEN 1 ELSE 0]
      /\ sema_queue = [s \in TableSem |-> <<>>] /\ sema_granted = [s \in TableSem |-> {}]
      /\ state_sema = [i \in Proc |-> "THINKING"] /\ sema_at = [i \in Proc |-> "think"]
      /\ sema_iter = [i \in Proc |-> 0]
  BY DEF SemaInit, T!Init
<1>2. \A s \in TableSem : TableQueued(s) = {} /\ IsInjective(sema_queue[s])
  BY <1>1 DEF TableQueued, ToSet, IsInjective
<1>3. SemaTypeOK
  BY <1>1, PhilosophersAssumption DEF SemaTypeOK, Points
<1>4. SemaQueues /\ MutexStanding
  BY <1>1, <1>2, TableFacts DEF SemaQueues, MutexStanding
<1>5. OwnsTable
  BY <1>1, TableFacts DEF OwnsTable, TableOwners, Critical
<1>6. \A i \in Proc : Fork(i) /\ SemaStage(i)
  BY <1>1, <1>2, TableFacts DEF Fork, SemaStage
<1>7. SemaReasons
  BY <1>1 DEF SemaReasons
<1>. QED  BY <1>3, <1>4, <1>5, <1>6, <1>7 DEF SemaIInv

-----------------------------------------------------------------------------
(* The semaphores of the table. *)

LEMMA TableUp ==
  ASSUME SemaTypeOK, SemaQueues, NEW s \in TableSem, T!Up(s)
  PROVE  /\ sema_value' \in [TableSem -> Nat] /\ sema_queue' \in [TableSem -> Seq(Proc)]
         /\ sema_granted' \in [TableSem -> SUBSET Proc] /\ SemaQueues'
         /\ \A t \in TableSem : t # s =>
              /\ sema_value'[t] = sema_value[t] /\ sema_granted'[t] = sema_granted[t]
              /\ TableQueued(t)' = TableQueued(t)
         /\ \/ /\ TableQueued(s) = {} /\ TableQueued(s)' = {}
               /\ sema_value'[s] = sema_value[s] + 1 /\ sema_granted'[s] = sema_granted[s]
            \/ \E h \in TableQueued(s) :
                 /\ TableQueued(s)' = TableQueued(s) \ {h}
                 /\ sema_value'[s] = sema_value[s]
                 /\ sema_granted'[s] = sema_granted[s] \cup {h}
<1>. DEFINE h == Head(sema_queue[s])
<1>1. sema_queue[s] \in Seq(Proc) /\ IsInjective(sema_queue[s])
  BY DEF SemaTypeOK, SemaQueues
<1>2. CASE sema_queue[s] = <<>>
  <2>1. /\ sema_value' = [sema_value EXCEPT ![s] = @ + 1]
        /\ sema_queue' = sema_queue /\ sema_granted' = sema_granted
    BY <1>2 DEF T!Up
  <2>2. TableQueued(s) = {} /\ \A t \in TableSem : TableQueued(t)' = TableQueued(t)
    BY <1>1, <1>2, <2>1, SetOfQueue DEF TableQueued
  <2>3. /\ sema_value' \in [TableSem -> Nat] /\ sema_value'[s] = sema_value[s] + 1
        /\ \A t \in TableSem : t # s => sema_value'[t] = sema_value[t]
    BY <2>1 DEF SemaTypeOK
  <2>4. SemaQueues'
    BY <2>1 DEF SemaQueues
  <2>. QED  BY <2>1, <2>2, <2>3, <2>4 DEF SemaTypeOK
<1>3. CASE sema_queue[s] # <<>>
  <2>1. /\ sema_value' = sema_value
        /\ sema_queue' = [sema_queue EXCEPT ![s] = Tail(@)]
        /\ sema_granted' = [sema_granted EXCEPT ![s] = @ \cup {h}]
    BY <1>3 DEF T!Up
  <2>2. /\ h \in ToSet(sema_queue[s]) /\ h \in Proc /\ Tail(sema_queue[s]) \in Seq(Proc)
        /\ ToSet(Tail(sema_queue[s])) = ToSet(sema_queue[s]) \ {h}
        /\ IsInjective(Tail(sema_queue[s]))
    BY <1>1, <1>3, TailFacts
  <2>. HIDE DEF h
  <2>3. /\ sema_queue' \in [TableSem -> Seq(Proc)]
        /\ sema_granted' \in [TableSem -> SUBSET Proc]
        /\ \A t \in TableSem :
             /\ sema_queue'[t] = IF t = s THEN Tail(sema_queue[t]) ELSE sema_queue[t]
             /\ sema_granted'[t] = IF t = s THEN sema_granted[t] \cup {h}
                                            ELSE sema_granted[t]
    BY <2>1, <2>2 DEF SemaTypeOK
  <2>4. SemaQueues'
    BY <2>2, <2>3 DEF SemaQueues
  <2>5. /\ TableQueued(s)' = TableQueued(s) \ {h} /\ h \in TableQueued(s)
        /\ \A t \in TableSem : t # s => TableQueued(t)' = TableQueued(t)
    BY <2>2, <2>3 DEF TableQueued
  <2>. QED  BY <2>1, <2>3, <2>4, <2>5 DEF SemaTypeOK
<1>. QED  BY <1>2, <1>3

LEMMA TableTake ==
  ASSUME SemaTypeOK, SemaQueues, NEW i \in Proc, NEW s \in TableSem, T!Take(i, s)
  PROVE  /\ sema_value[s] > 0 /\ sema_value'[s] = sema_value[s] - 1
         /\ sema_value' \in [TableSem -> Nat]
         /\ \A t \in TableSem : t # s => sema_value'[t] = sema_value[t]
         /\ sema_queue' = sema_queue /\ sema_granted' = sema_granted /\ SemaQueues'
         /\ \A t \in TableSem : TableQueued(t)' = TableQueued(t)
<1>1. /\ sema_value[s] > 0 /\ sema_value' = [sema_value EXCEPT ![s] = @ - 1]
      /\ sema_queue' = sema_queue /\ sema_granted' = sema_granted
  BY DEF T!Take
<1>2. \A t \in TableSem : sema_value[t] \in Nat
  BY DEF SemaTypeOK
<1>3. /\ sema_value' \in [TableSem -> Nat] /\ sema_value'[s] = sema_value[s] - 1
      /\ \A t \in TableSem : t # s => sema_value'[t] = sema_value[t]
  BY <1>1, <1>2 DEF SemaTypeOK
<1>. QED  BY <1>1, <1>3 DEF SemaQueues, TableQueued

LEMMA TableWait ==
  ASSUME SemaTypeOK, SemaQueues, NEW i \in Proc, NEW s \in TableSem, T!Wait(i, s)
  PROVE  /\ sema_value[s] = 0 /\ sema_value' = sema_value /\ sema_granted' = sema_granted
         /\ sema_queue' \in [TableSem -> Seq(Proc)] /\ SemaQueues'
         /\ \A t \in TableSem :
              TableQueued(t)' = IF t = s THEN TableQueued(t) \cup {i} ELSE TableQueued(t)
         /\ i \notin TableQueued(s) \cup sema_granted[s]
<1>1. sema_queue[s] \in Seq(Proc) /\ IsInjective(sema_queue[s])
  BY DEF SemaTypeOK, SemaQueues
<1>2. /\ i \notin TableQueued(s) \cup sema_granted[s]
      /\ sema_queue' = [sema_queue EXCEPT ![s] = Append(@, i)]
      /\ sema_value[s] = 0 /\ sema_value' = sema_value /\ sema_granted' = sema_granted
  BY DEF T!Wait, T!Blocked, TableQueued, ToSet, T!ToSet
<1>3. /\ Append(sema_queue[s], i) \in Seq(Proc)
      /\ ToSet(Append(sema_queue[s], i)) = ToSet(sema_queue[s]) \cup {i}
      /\ IsInjective(Append(sema_queue[s], i))
  BY <1>1, <1>2, AppendFacts DEF TableQueued
<1>4. /\ sema_queue' \in [TableSem -> Seq(Proc)]
      /\ \A t \in TableSem :
           sema_queue'[t] = IF t = s THEN Append(sema_queue[t], i) ELSE sema_queue[t]
  BY <1>2, <1>3 DEF SemaTypeOK
<1>5. SemaQueues'
  BY <1>3, <1>4 DEF SemaQueues
<1>6. \A t \in TableSem :
        TableQueued(t)' = IF t = s THEN TableQueued(t) \cup {i} ELSE TableQueued(t)
  BY <1>3, <1>4 DEF TableQueued
<1>. QED  BY <1>2, <1>4, <1>5, <1>6

LEMMA TableReturn ==
  ASSUME SemaTypeOK, SemaQueues, NEW i \in Proc, NEW s \in TableSem, T!Return(i, s)
  PROVE  /\ i \in sema_granted[s] /\ sema_value' = sema_value /\ SemaQueues'
         /\ sema_queue' = sema_queue /\ sema_granted' \in [TableSem -> SUBSET Proc]
         /\ \A t \in TableSem :
              /\ TableQueued(t)' = TableQueued(t)
              /\ sema_granted'[t] = IF t = s THEN sema_granted[t] \ {i} ELSE sema_granted[t]
BY DEF T!Return, SemaTypeOK, SemaQueues, TableQueued

-----------------------------------------------------------------------------
(* Frames. *)

LEMMA SemaReasonFrame ==
  ASSUME SemaIInv, NEW i \in Proc, NEW from, NEW to, SemaMove(i, from, to),
         state_sema' = state_sema, from \notin {"put_left", "put_right"},
         to \in {"take_up", "take_fork", "take_wait"}
           => from \in {"take_up", "take_fork", "take_wait"}
  PROVE  SemaReasons'
<1>. SUFFICES ASSUME NEW k \in Proc, state_sema'[k] = "HUNGRY",
                     sema_at'[k] \in {"take_up", "take_fork", "take_wait"}
              PROVE  SemaExcused(k)'
  BY DEF SemaReasons
<1>1. \A j \in Proc : sema_at'[j] = IF j = i THEN to ELSE sema_at[j]
  BY DEF SemaMove, SemaIInv, SemaTypeOK
<1>2. SemaExcused(k)
  BY <1>1 DEF SemaIInv, SemaReasons, SemaMove
<1>3. /\ Left(k) \in Proc /\ Right(k) \in Proc /\ Left(k)' = Left(k) /\ Right(k)' = Right(k)
  BY Neighbours DEF Left, Right
<1>4. \A j \in Proc : sema_at[j] \in {"put_left", "put_right"} => sema_at'[j] = sema_at[j]
  BY <1>1 DEF SemaMove
<1>. QED  BY <1>2, <1>3, <1>4 DEF SemaExcused

LEMMA ForkFrame ==
  ASSUME NEW k \in Proc, Fork(k), SemaStage(k), sema_at'[k] = sema_at[k],
         state_sema'[k] = state_sema[k], sema_iter'[k] = sema_iter[k],
         sema_value'[k] = sema_value[k], sema_granted'[k] = sema_granted[k],
         TableQueued(k)' = TableQueued(k)
  PROVE  Fork(k)' /\ SemaStage(k)'
BY DEF Fork, SemaStage

-----------------------------------------------------------------------------
(* The actions. *)

LEMMA MoveFacts ==
  ASSUME SemaTypeOK, NEW i \in Proc, NEW from, NEW to \in Points, SemaMove(i, from, to)
  PROVE  /\ sema_at[i] = from /\ sema_at' \in [Proc -> Points]
         /\ \A k \in Proc : sema_at'[k] = IF k = i THEN to ELSE sema_at[k]
BY DEF SemaMove, SemaTypeOK

\* Steps that leave the semaphores and what the philosophers do.
LEMMA RestKeepsTable ==
  ASSUME SemaIInv, NEW i \in Proc, SemaThink(i) \/ SemaEat(i)
  PROVE  SemaIInv'
<1>1. PICK from \in Points, to \in Points :
        /\ SemaMove(i, from, to)
        /\ \/ from = "think" /\ to = "hungry" /\ sema_iter[i] < TIMES
           \/ from = "eat" /\ to = "full"
  BY DEF SemaThink, SemaEat, Points
<1>2. /\ sema_value' = sema_value /\ sema_queue' = sema_queue /\ sema_granted' = sema_granted
      /\ state_sema' = state_sema /\ sema_iter' = sema_iter
  BY DEF SemaThink, SemaEat, tableVars
<1>3. /\ sema_at[i] = from /\ sema_at' \in [Proc -> Points]
      /\ \A k \in Proc : sema_at'[k] = IF k = i THEN to ELSE sema_at[k]
  BY <1>1, MoveFacts DEF SemaIInv
<1>4. SemaTypeOK' /\ SemaQueues'
  BY <1>2, <1>3 DEF SemaIInv, SemaTypeOK, SemaQueues
<1>5. MutexStanding'
  BY <1>1, <1>2, <1>3 DEF SemaIInv, MutexStanding, TableQueued
<1>6. OwnsTable'
  <2>1. TableOwners' = TableOwners
    BY <1>1, <1>2, <1>3 DEF TableOwners, Critical
  <2>. QED  BY <1>2, <2>1 DEF SemaIInv, OwnsTable
<1>7. SemaReasons'
  BY <1>1, <1>2, SemaReasonFrame
<1>8. ASSUME NEW k \in Proc PROVE Fork(k)' /\ SemaStage(k)'
  <2>1. CASE k # i
    BY <1>2, <1>3, <2>1, ForkFrame DEF SemaIInv, TableQueued
  <2>2. CASE k = i
    <3>1. Fork(i) /\ SemaStage(i)
      BY DEF SemaIInv
    <3>. QED  BY <1>1, <1>2, <1>3, <2>2, <3>1 DEF Fork, SemaStage, TableQueued
  <2>. QED  BY <2>1, <2>2
<1>. QED  BY <1>4, <1>5, <1>6, <1>7, <1>8 DEF SemaIInv

\* down(&mutex)
LEMMA MutexDownKeeps ==
  ASSUME SemaIInv, NEW i \in Proc, SemaTakeDown(i) \/ SemaPutDown(i)
  PROVE  SemaIInv'
<1>. PICK from \in Points, wait \in Points, to \in Points :
       /\ SemaDown(i, tableMutex, from, wait, to)
       /\ \/ from = "hungry" /\ wait = "take_down" /\ to = "take"
          \/ from = "full" /\ wait = "put_down" /\ to = "put"
  BY DEF SemaTakeDown, SemaPutDown, Points
<1>1. state_sema' = state_sema /\ sema_iter' = sema_iter
  BY DEF SemaDown
<1>2. Fork(i) /\ SemaStage(i) /\ SemaTypeOK /\ SemaQueues /\ tableMutex \in TableSem
  BY TableFacts DEF SemaIInv
<1>3. ASSUME NEW a0 \in Points, NEW b0 \in Points, SemaMove(i, a0, b0),
             a0 \in {from, wait}, b0 \in {wait, to},
             \A k \in Proc : /\ sema_value'[k] = sema_value[k]
                             /\ sema_granted'[k] = sema_granted[k]
                             /\ TableQueued(k)' = TableQueued(k)
      PROVE  SemaReasons' /\ \A k \in Proc : Fork(k)' /\ SemaStage(k)'
  <2>1. /\ sema_at[i] = a0
        /\ \A k \in Proc : sema_at'[k] = IF k = i THEN b0 ELSE sema_at[k]
    BY <1>2, <1>3, MoveFacts
  <2>2. SemaReasons'
    BY <1>1, <1>3, SemaReasonFrame
  <2>3. ASSUME NEW k \in Proc PROVE Fork(k)' /\ SemaStage(k)'
    <3>1. CASE k # i
      BY <1>1, <1>3, <2>1, <3>1, ForkFrame DEF SemaIInv
    <3>2. CASE k = i
      BY <1>1, <1>2, <1>3, <2>1, <3>2 DEF Fork, SemaStage
    <3>. QED  BY <3>1, <3>2
  <2>. QED  BY <2>2, <2>3
<1>4. CASE SemaMove(i, from, to) /\ T!Take(i, tableMutex)
  <2>1. /\ sema_value[tableMutex] > 0
        /\ sema_value'[tableMutex] = sema_value[tableMutex] - 1
        /\ sema_value' \in [TableSem -> Nat]
        /\ \A t \in TableSem : t # tableMutex => sema_value'[t] = sema_value[t]
        /\ sema_queue' = sema_queue /\ sema_granted' = sema_granted /\ SemaQueues'
        /\ \A t \in TableSem : TableQueued(t)' = TableQueued(t)
    BY <1>2, <1>4, TableTake
  <2>2. /\ sema_at[i] = from /\ sema_at' \in [Proc -> Points]
        /\ \A k \in Proc : sema_at'[k] = IF k = i THEN to ELSE sema_at[k]
    BY <1>2, <1>4, MoveFacts
  <2>3. OwnsTable'
    <3>1. sema_value[tableMutex] = 1 /\ TableOwners = {}
      BY <2>1 DEF SemaIInv, OwnsTable
    <3>2. TableOwners' = {i}
      BY <2>1, <2>2, <3>1 DEF TableOwners, Critical
    <3>. QED  BY <2>1, <3>1, <3>2 DEF OwnsTable
  <2>4. MutexStanding'
    BY <1>2, <2>1, <2>2 DEF SemaIInv, MutexStanding
  <2>5. SemaReasons' /\ \A k \in Proc : Fork(k)' /\ SemaStage(k)'
    BY <1>3, <1>4, <2>1, TableFacts
  <2>. QED  BY <1>1, <1>2, <2>1, <2>2, <2>3, <2>4, <2>5 DEF SemaIInv, SemaTypeOK
<1>5. CASE SemaMove(i, from, wait) /\ T!Wait(i, tableMutex)
  <2>1. /\ sema_value' = sema_value /\ sema_granted' = sema_granted
        /\ sema_queue' \in [TableSem -> Seq(Proc)] /\ SemaQueues'
        /\ \A t \in TableSem : TableQueued(t)' =
             IF t = tableMutex THEN TableQueued(t) \cup {i} ELSE TableQueued(t)
        /\ i \notin sema_granted[tableMutex]
    BY <1>2, <1>5, TableWait
  <2>2. /\ sema_at[i] = from /\ sema_at' \in [Proc -> Points]
        /\ \A k \in Proc : sema_at'[k] = IF k = i THEN wait ELSE sema_at[k]
    BY <1>2, <1>5, MoveFacts
  <2>3. OwnsTable'
    <3>1. TableOwners' = TableOwners
      BY <2>1, <2>2 DEF TableOwners, Critical
    <3>. QED  BY <2>1, <3>1 DEF SemaIInv, OwnsTable
  <2>4. MutexStanding'
    BY <1>2, <2>1, <2>2 DEF SemaIInv, MutexStanding
  <2>5. SemaReasons' /\ \A k \in Proc : Fork(k)' /\ SemaStage(k)'
    BY <1>3, <1>5, <2>1, TableFacts
  <2>. QED  BY <1>1, <1>2, <2>1, <2>2, <2>3, <2>4, <2>5 DEF SemaIInv, SemaTypeOK
<1>6. CASE SemaMove(i, wait, to) /\ T!Return(i, tableMutex)
  <2>1. /\ i \in sema_granted[tableMutex] /\ sema_value' = sema_value /\ SemaQueues'
        /\ sema_queue' = sema_queue /\ sema_granted' \in [TableSem -> SUBSET Proc]
        /\ \A t \in TableSem :
             /\ TableQueued(t)' = TableQueued(t)
             /\ sema_granted'[t] = IF t = tableMutex THEN sema_granted[t] \ {i}
                                                     ELSE sema_granted[t]
    BY <1>2, <1>6, TableReturn
  <2>2. /\ sema_at[i] = wait /\ sema_at' \in [Proc -> Points]
        /\ \A k \in Proc : sema_at'[k] = IF k = i THEN to ELSE sema_at[k]
    BY <1>2, <1>6, MoveFacts
  <2>3. OwnsTable'
    <3>1. TableOwners' = TableOwners
      BY <1>2, <2>1, <2>2 DEF TableOwners, Critical
    <3>. QED  BY <2>1, <3>1 DEF SemaIInv, OwnsTable
  <2>4. MutexStanding'
    BY <1>2, <2>1, <2>2 DEF SemaIInv, MutexStanding
  <2>5. SemaReasons' /\ \A k \in Proc : Fork(k)' /\ SemaStage(k)'
    BY <1>3, <1>6, <2>1, TableFacts
  <2>. QED  BY <1>1, <1>2, <2>1, <2>2, <2>3, <2>4, <2>5 DEF SemaIInv, SemaTypeOK
<1>. QED  BY <1>4, <1>5, <1>6 DEF SemaDown

\* down(&s[i]): nobody else's permits or queue are touched.
LEMMA ForkDownKeeps ==
  ASSUME SemaIInv, NEW i \in Proc, SemaForkDown(i)
  PROVE  SemaIInv'
<1>1. state_sema' = state_sema /\ sema_iter' = sema_iter
  BY DEF SemaForkDown, SemaDown
<1>2. /\ Fork(i) /\ SemaStage(i) /\ SemaTypeOK /\ SemaQueues
      /\ i \in TableSem /\ i # tableMutex /\ tableMutex \in TableSem
      /\ state_sema[i] \in {"THINKING", "HUNGRY", "EATING"}
  BY TableFacts DEF SemaIInv, SemaTypeOK
<1>3. PICK a0 \in Points, b0 \in Points :
        /\ SemaMove(i, a0, b0)
        /\ \/ a0 = "take_fork" /\ b0 = "eat" /\ T!Take(i, i)
           \/ a0 = "take_fork" /\ b0 = "take_wait" /\ T!Wait(i, i)
           \/ a0 = "take_wait" /\ b0 = "eat" /\ T!Return(i, i)
  BY DEF SemaForkDown, SemaDown, Points
<1>4. /\ sema_at[i] = a0 /\ sema_at' \in [Proc -> Points]
      /\ \A k \in Proc : sema_at'[k] = IF k = i THEN b0 ELSE sema_at[k]
  BY <1>2, <1>3, MoveFacts
<1>5. /\ sema_value' \in [TableSem -> Nat] /\ sema_queue' \in [TableSem -> Seq(Proc)]
      /\ sema_granted' \in [TableSem -> SUBSET Proc] /\ SemaQueues'
      /\ \A t \in TableSem : t # i => /\ sema_value'[t] = sema_value[t]
                                      /\ sema_granted'[t] = sema_granted[t]
                                      /\ TableQueued(t)' = TableQueued(t)
  <2>1. CASE T!Take(i, i)
    BY <1>2, <2>1, TableTake DEF SemaTypeOK
  <2>2. CASE T!Wait(i, i)
    BY <1>2, <2>2, TableWait DEF SemaTypeOK
  <2>3. CASE T!Return(i, i)
    BY <1>2, <2>3, TableReturn DEF SemaTypeOK
  <2>. QED  BY <1>3, <2>1, <2>2, <2>3
<1>6. SemaTypeOK'
  BY <1>1, <1>4, <1>5 DEF SemaIInv, SemaTypeOK
<1>7. MutexStanding'
  BY <1>2, <1>3, <1>4, <1>5 DEF SemaIInv, MutexStanding
<1>8. OwnsTable'
  <2>1. TableOwners' = TableOwners
    BY <1>2, <1>3, <1>4, <1>5 DEF TableOwners, Critical
  <2>. QED  BY <1>2, <1>5, <2>1 DEF SemaIInv, OwnsTable
<1>9. SemaReasons'
  BY <1>1, <1>3, SemaReasonFrame
<1>10. Fork(i)' /\ SemaStage(i)'
  <2>1. CASE T!Take(i, i)
    <3>1. /\ sema_value[i] > 0 /\ sema_value'[i] = sema_value[i] - 1
          /\ sema_granted' = sema_granted /\ TableQueued(i)' = TableQueued(i)
      BY <1>2, <2>1, TableTake
    <3>2. a0 = "take_fork" /\ state_sema[i] = "EATING" /\ sema_value[i] = 1
      BY <1>2, <1>3, <1>4, <3>1 DEF Fork
    <3>3. b0 \in {"eat", "take_wait"}
      BY <1>3, <3>2
    <3>4. sema_value'[i] = 0 /\ b0 = "eat"
      <4>1. ~T!Wait(i, i)
        BY <3>2 DEF T!Wait
      <4>. QED  BY <1>3, <3>1, <3>2, <4>1
    <3>. QED  BY <1>1, <1>2, <1>4, <3>1, <3>2, <3>4 DEF Fork, SemaStage
  <2>2. CASE T!Wait(i, i)
    <3>1. /\ sema_value[i] = 0 /\ sema_value' = sema_value /\ sema_granted' = sema_granted
          /\ TableQueued(i)' = TableQueued(i) \cup {i}
          /\ i \notin TableQueued(i) \cup sema_granted[i]
      BY <1>2, <2>2, TableWait
    <3>2. a0 = "take_fork" /\ b0 = "take_wait"
      <4>1. ~T!Take(i, i) /\ ~T!Return(i, i)
        BY <3>1 DEF T!Take, T!Return
      <4>. QED  BY <1>3, <4>1
    <3>3. state_sema[i] = "HUNGRY"
      BY <1>2, <1>4, <3>1, <3>2 DEF Fork, SemaStage
    <3>. QED  BY <1>1, <1>2, <1>4, <3>1, <3>2, <3>3 DEF Fork, SemaStage
  <2>3. CASE T!Return(i, i)
    <3>1. /\ i \in sema_granted[i] /\ sema_value' = sema_value
          /\ TableQueued(i)' = TableQueued(i) /\ sema_granted'[i] = sema_granted[i] \ {i}
      BY <1>2, <2>3, TableReturn
    <3>2. a0 = "take_wait" /\ b0 = "eat" /\ state_sema[i] = "EATING"
      BY <1>2, <1>3, <1>4, <3>1 DEF Fork
    <3>. QED  BY <1>1, <1>2, <1>4, <3>1, <3>2 DEF Fork, SemaStage
  <2>. QED  BY <1>3, <2>1, <2>2, <2>3
<1>11. \A k \in Proc : Fork(k)' /\ SemaStage(k)'
  BY <1>1, <1>4, <1>5, <1>10, ForkFrame, TableFacts DEF SemaIInv
<1>. QED  BY <1>5, <1>6, <1>7, <1>8, <1>9, <1>11 DEF SemaIInv

\* up(&mutex): the table goes to a philosopher who waits for it, or is free.
LEMMA MutexUpKeeps ==
  ASSUME SemaIInv, NEW i \in Proc, SemaTakeUp(i) \/ SemaPutUp(i)
  PROVE  SemaIInv'
<1>1. PICK from \in Points, to \in Points :
        /\ SemaMove(i, from, to)
        /\ \/ from = "take_up" /\ to = "take_fork" /\ sema_iter' = sema_iter
           \/ /\ from = "put_up" /\ to = "think"
              /\ sema_iter' = [sema_iter EXCEPT ![i] = @ + 1]
  BY DEF SemaTakeUp, SemaPutUp, Points
<1>2. T!Up(tableMutex) /\ state_sema' = state_sema
  BY DEF SemaTakeUp, SemaPutUp
<1>3. /\ Fork(i) /\ SemaStage(i) /\ SemaTypeOK /\ SemaQueues /\ tableMutex \in TableSem
      /\ MutexStanding /\ OwnsTable
  BY TableFacts DEF SemaIInv
<1>4. /\ sema_at[i] = from /\ sema_at' \in [Proc -> Points]
      /\ \A k \in Proc : sema_at'[k] = IF k = i THEN to ELSE sema_at[k]
  BY <1>1, <1>3, MoveFacts
<1>5. /\ sema_value' \in [TableSem -> Nat] /\ sema_queue' \in [TableSem -> Seq(Proc)]
      /\ sema_granted' \in [TableSem -> SUBSET Proc] /\ SemaQueues'
      /\ \A t \in TableSem : t # tableMutex => /\ sema_value'[t] = sema_value[t]
                                               /\ sema_granted'[t] = sema_granted[t]
                                               /\ TableQueued(t)' = TableQueued(t)
      /\ \/ /\ TableQueued(tableMutex) = {} /\ TableQueued(tableMutex)' = {}
            /\ sema_value'[tableMutex] = sema_value[tableMutex] + 1
            /\ sema_granted'[tableMutex] = sema_granted[tableMutex]
         \/ \E h \in TableQueued(tableMutex) :
              /\ TableQueued(tableMutex)' = TableQueued(tableMutex) \ {h}
              /\ sema_value'[tableMutex] = sema_value[tableMutex]
              /\ sema_granted'[tableMutex] = sema_granted[tableMutex] \cup {h}
  BY <1>2, <1>3, TableUp
<1>6. /\ sema_value[tableMutex] = 0 /\ TableOwners = {i}
      /\ sema_granted[tableMutex] = {} /\ \A k \in Proc : k # i => sema_at[k] \notin Critical
  <2>1. i \in TableOwners
    BY <1>1, <1>4 DEF TableOwners, Critical
  <2>2. sema_value[tableMutex] = 0 /\ TableOwners = {i}
    BY <1>3, <2>1 DEF OwnsTable
  <2>3. i \notin sema_granted[tableMutex]
    BY <1>1, <1>3, <1>4 DEF MutexStanding
  <2>. QED  BY <2>2, <2>3 DEF TableOwners
<1>7. \A k \in Proc : sema_at'[k] \notin Critical
  BY <1>1, <1>4, <1>6 DEF Critical
<1>8. SemaTypeOK'
  <2>1. sema_iter' \in [Proc -> 0..TIMES]
    <3>1. TIMES \in Nat /\ sema_iter \in [Proc -> 0..TIMES] /\ sema_iter[i] < TIMES
      BY <1>1, <1>3, <1>4, PhilosophersAssumption DEF SemaTypeOK, SemaStage
    <3>2. sema_iter[i] + 1 \in 0..TIMES
      BY <3>1
    <3>. QED  BY <1>1, <3>1, <3>2
  <2>. QED  BY <1>2, <1>3, <1>4, <1>5, <2>1 DEF SemaTypeOK
<1>9. MutexStanding' /\ OwnsTable'
  <2>1. CASE /\ TableQueued(tableMutex) = {} /\ TableQueued(tableMutex)' = {}
             /\ sema_value'[tableMutex] = sema_value[tableMutex] + 1
             /\ sema_granted'[tableMutex] = sema_granted[tableMutex]
    <3>1. TableOwners' = {} /\ sema_value'[tableMutex] = 1
      BY <1>6, <1>7, <2>1 DEF TableOwners
    <3>2. MutexStanding'
      BY <1>1, <1>3, <1>4, <2>1 DEF MutexStanding
    <3>. QED  BY <3>1, <3>2 DEF OwnsTable
  <2>2. ASSUME NEW h \in TableQueued(tableMutex),
               TableQueued(tableMutex)' = TableQueued(tableMutex) \ {h},
               sema_value'[tableMutex] = sema_value[tableMutex],
               sema_granted'[tableMutex] = sema_granted[tableMutex] \cup {h}
        PROVE  MutexStanding' /\ OwnsTable'
    <3>1. h \in Proc
      BY <1>3 DEF MutexStanding
    <3>2. TableOwners' = {h}
      BY <1>6, <1>7, <2>2 DEF TableOwners
    <3>3. MutexStanding'
      BY <1>1, <1>3, <1>4, <2>2 DEF MutexStanding
    <3>. QED  BY <1>6, <2>2, <3>1, <3>2, <3>3 DEF OwnsTable
  <2>. QED  BY <1>5, <2>1, <2>2
<1>10. SemaReasons'
  BY <1>1, <1>2, SemaReasonFrame
<1>11. ASSUME NEW k \in Proc PROVE Fork(k)' /\ SemaStage(k)'
  <2>1. /\ sema_value'[k] = sema_value[k] /\ sema_granted'[k] = sema_granted[k]
        /\ TableQueued(k)' = TableQueued(k)
    BY <1>5, TableFacts
  <2>2. CASE k # i
    <3>1. sema_iter'[k] = sema_iter[k]
      BY <1>1, <1>3, <2>2 DEF SemaTypeOK
    <3>. QED  BY <1>2, <1>4, <2>1, <2>2, <3>1, ForkFrame DEF SemaIInv
  <2>3. CASE k = i
    BY <1>1, <1>2, <1>3, <1>4, <2>1, <2>3 DEF Fork, SemaStage
  <2>. QED  BY <2>2, <2>3
<1>. QED  BY <1>5, <1>8, <1>9, <1>10, <1>11 DEF SemaIInv

\* A philosopher inside changes what he does: nobody else is inside.
LEMMA InsideAlone ==
  ASSUME SemaIInv, NEW i \in Proc, sema_at[i] \in Critical
  PROVE  \A k \in Proc : k # i => sema_at[k] \notin Critical
<1>1. i \in TableOwners
  BY DEF TableOwners
<1>. QED  BY <1>1 DEF SemaIInv, OwnsTable, TableOwners

LEMMA StateKeepsTable ==
  ASSUME SemaIInv, NEW i \in Proc, SemaHungry(i) \/ SemaPutForks(i)
  PROVE  SemaIInv'
<1>1. PICK from \in Points, to \in Points, what \in {"HUNGRY", "THINKING"} :
        /\ SemaMove(i, from, to)
        /\ state_sema' = [state_sema EXCEPT ![i] = what]
        /\ \/ from = "take" /\ to = "take_test" /\ what = "HUNGRY"
           \/ from = "put" /\ to = "put_left" /\ what = "THINKING"
  BY DEF SemaHungry, SemaPutForks, Points
<1>2. /\ sema_value' = sema_value /\ sema_queue' = sema_queue /\ sema_granted' = sema_granted
      /\ sema_iter' = sema_iter
  BY DEF SemaHungry, SemaPutForks, tableVars
<1>3. Fork(i) /\ SemaStage(i) /\ SemaTypeOK
  BY DEF SemaIInv
<1>4. /\ sema_at[i] = from /\ sema_at' \in [Proc -> Points]
      /\ \A k \in Proc : sema_at'[k] = IF k = i THEN to ELSE sema_at[k]
  BY <1>1, <1>3, MoveFacts
<1>5. \A k \in Proc : state_sema'[k] = IF k = i THEN what ELSE state_sema[k]
  BY <1>1, <1>3 DEF SemaTypeOK
<1>6. SemaTypeOK' /\ SemaQueues'
  BY <1>1, <1>2, <1>4 DEF SemaIInv, SemaTypeOK, SemaQueues
<1>7. MutexStanding'
  BY <1>1, <1>2, <1>4 DEF SemaIInv, MutexStanding, TableQueued
<1>8. OwnsTable'
  <2>1. TableOwners' = TableOwners
    BY <1>1, <1>2, <1>4 DEF TableOwners, Critical
  <2>. QED  BY <1>2, <2>1 DEF SemaIInv, OwnsTable
<1>9. ASSUME NEW k \in Proc PROVE Fork(k)' /\ SemaStage(k)'
  <2>1. CASE k # i
    BY <1>2, <1>4, <1>5, <2>1, ForkFrame DEF SemaIInv, TableQueued
  <2>2. CASE k = i
    BY <1>1, <1>2, <1>3, <1>4, <1>5, <2>2 DEF Fork, SemaStage, TableQueued
  <2>. QED  BY <2>1, <2>2
<1>10. SemaReasons'
  <2>. SUFFICES ASSUME NEW k \in Proc, state_sema'[k] = "HUNGRY",
                       sema_at'[k] \in {"take_up", "take_fork", "take_wait"}
                PROVE  SemaExcused(k)'
    BY DEF SemaReasons
  <2>1. k # i /\ SemaExcused(k)
    BY <1>1, <1>4, <1>5 DEF SemaIInv, SemaReasons
  <2>2. /\ Left(k) \in Proc /\ Right(k) \in Proc /\ Left(k)' = Left(k) /\ Right(k)' = Right(k)
    BY Neighbours DEF Left, Right
  <2>3. CASE from = "take"
    <3>1. state_sema[i] = "THINKING"
      BY <1>3, <1>4, <2>3 DEF SemaStage
    <3>. QED  BY <1>4, <1>5, <2>1, <2>2, <2>3, <3>1 DEF SemaExcused
  <2>4. CASE from = "put" /\ i \in {Left(k), Right(k)}
    BY <1>1, <1>4, <2>2, <2>4 DEF SemaExcused
  <2>5. CASE from = "put" /\ i \notin {Left(k), Right(k)}
    BY <1>4, <1>5, <2>1, <2>2, <2>5 DEF SemaExcused
  <2>. QED  BY <1>1, <2>3, <2>4, <2>5
<1>. QED  BY <1>6, <1>7, <1>8, <1>9, <1>10 DEF SemaIInv

\* The condition of phi_test_sema.
SemaForksFree(j) ==
  /\ state_sema[j] = "HUNGRY"
  /\ state_sema[Left(j)] # "EATING" /\ state_sema[Right(j)] # "EATING"

LEMMA SemaTestKeeps ==
  ASSUME SemaIInv, NEW i \in Proc, NEW j \in Proc, SemaTest(i, j), sema_iter' = sema_iter,
         NEW from \in Points, NEW to \in Points, SemaMove(i, from, to),
         \/ from = "take_test" /\ to = "take_up" /\ j = i
         \/ from = "put_left" /\ to = "put_right" /\ j = Left(i)
         \/ from = "put_right" /\ to = "put_up" /\ j = Right(i)
  PROVE  SemaIInv'
<1>1. /\ Fork(i) /\ SemaStage(i) /\ Fork(j) /\ SemaStage(j) /\ SemaTypeOK /\ SemaQueues
      /\ MutexStanding /\ OwnsTable /\ tableMutex \in TableSem
      /\ j \in TableSem /\ j # tableMutex
  BY TableFacts DEF SemaIInv
<1>2. /\ sema_at[i] = from /\ sema_at' \in [Proc -> Points]
      /\ \A k \in Proc : sema_at'[k] = IF k = i THEN to ELSE sema_at[k]
  BY <1>1, MoveFacts
<1>3. \A k \in Proc : k # i => sema_at[k] \notin Critical
  BY <1>2, InsideAlone DEF Critical
<1>4. \A k \in Proc : state_sema'[k] = IF k = j /\ SemaForksFree(j) THEN "EATING"
                                       ELSE state_sema[k]
  BY <1>1 DEF SemaTest, SemaTypeOK, SemaForksFree
<1>5. /\ sema_value' \in [TableSem -> Nat] /\ sema_queue' \in [TableSem -> Seq(Proc)]
      /\ sema_granted' \in [TableSem -> SUBSET Proc] /\ SemaQueues'
      /\ \A t \in TableSem : t # j => /\ sema_value'[t] = sema_value[t]
                                      /\ sema_granted'[t] = sema_granted[t]
                                      /\ TableQueued(t)' = TableQueued(t)
  <2>1. CASE SemaForksFree(j)
    BY <1>1, <2>1, TableUp DEF SemaTest, SemaForksFree
  <2>2. CASE ~SemaForksFree(j)
    BY <1>1, <2>2 DEF SemaTest, SemaForksFree, tableVars, SemaTypeOK, SemaQueues, TableQueued
  <2>. QED  BY <2>1, <2>2
<1>6. SemaTypeOK'
  <2>1. state_sema' \in [Proc -> {"THINKING", "HUNGRY", "EATING"}]
    BY <1>1 DEF SemaTest, SemaTypeOK
  <2>. QED  BY <1>1, <1>2, <1>5, <2>1 DEF SemaTypeOK
<1>7. MutexStanding'
  BY <1>1, <1>2, <1>5 DEF MutexStanding
<1>8. OwnsTable'
  <2>1. TableOwners' = TableOwners
    BY <1>1, <1>2, <1>5 DEF TableOwners, Critical
  <2>. QED  BY <1>1, <1>5, <2>1 DEF OwnsTable
<1>9. \A k \in Proc : k # i /\ k # j => Fork(k)' /\ SemaStage(k)'
  BY <1>2, <1>4, <1>5, ForkFrame, TableFacts DEF SemaIInv
<1>10. i # j => Fork(i)' /\ SemaStage(i)'
  BY <1>1, <1>2, <1>4, <1>5, TableFacts DEF Fork, SemaStage
<1>11. Fork(j)' /\ SemaStage(j)'
  <2>1. CASE ~SemaForksFree(j)
    <3>1. UNCHANGED tableVars
      BY <2>1 DEF SemaTest, SemaForksFree
    <3>. QED  BY <1>1, <1>2, <1>4, <2>1, <3>1, NeighboursInvert
              DEF Fork, SemaStage, tableVars, TableQueued
  <2>2. CASE SemaForksFree(j)
    <3>1. /\ \/ /\ TableQueued(j) = {} /\ TableQueued(j)' = {}
                /\ sema_value'[j] = sema_value[j] + 1 /\ sema_granted'[j] = sema_granted[j]
             \/ \E h \in TableQueued(j) :
                  /\ TableQueued(j)' = TableQueued(j) \ {h}
                  /\ sema_value'[j] = sema_value[j]
                  /\ sema_granted'[j] = sema_granted[j] \cup {h}
      BY <1>1, <2>2, TableUp DEF SemaTest, SemaForksFree
    <3>2. state_sema[j] = "HUNGRY"
      BY <2>2 DEF SemaForksFree
    <3>3. CASE sema_at[j] = "take_wait"
      <4>1. i # j
        BY <1>2, <3>3
      <4>2. TableQueued(j) = {j} /\ sema_granted[j] = {} /\ sema_value[j] = 0
        BY <1>1, <3>2, <3>3 DEF Fork
      <4>3. TableQueued(j)' = {} /\ sema_granted'[j] = {j} /\ sema_value'[j] = 0
        BY <3>1, <4>2
      <4>. QED  BY <1>1, <1>2, <1>4, <2>2, <3>3, <4>1, <4>3 DEF Fork, SemaStage
    <3>4. CASE sema_at[j] # "take_wait"
      <4>1. TableQueued(j) = {} /\ sema_granted[j] = {} /\ sema_value[j] = 0
        BY <1>1, <3>2, <3>4 DEF Fork
      <4>2. TableQueued(j)' = {} /\ sema_granted'[j] = {} /\ sema_value'[j] = 1
        BY <3>1, <4>1
      <4>3. sema_at'[j] \in {"take_up", "take_fork"}
        <5>1. CASE i = j
          BY <1>2, <5>1, NeighboursInvert
        <5>2. CASE i # j
          <6>1. sema_at[j] \in Points /\ sema_at[j] \notin Critical
            BY <1>1, <1>3, <5>2 DEF SemaTypeOK
          <6>. QED  BY <1>1, <1>2, <3>2, <3>4, <5>2, <6>1
                    DEF SemaStage, Critical, Points
        <5>. QED  BY <5>1, <5>2
      <4>. QED  BY <1>1, <1>2, <1>4, <2>2, <3>2, <4>2, <4>3 DEF Fork, SemaStage
    <3>. QED  BY <3>3, <3>4
  <2>. QED  BY <2>1, <2>2
<1>12. SemaReasons'
  <2>. SUFFICES ASSUME NEW k \in Proc, state_sema'[k] = "HUNGRY",
                       sema_at'[k] \in {"take_up", "take_fork", "take_wait"}
                PROVE  SemaExcused(k)'
    BY DEF SemaReasons
  <2>1. /\ Left(k) \in Proc /\ Right(k) \in Proc /\ Left(k)' = Left(k) /\ Right(k)' = Right(k)
    BY Neighbours DEF Left, Right
  <2>2. state_sema[k] = "HUNGRY" /\ ~(k = j /\ SemaForksFree(j))
    BY <1>4
  <2>3. \A m \in Proc : state_sema[m] = "EATING" => state_sema'[m] = "EATING"
    BY <1>4
  <2>4. CASE k = j
    <3>1. state_sema[Left(k)] = "EATING" \/ state_sema[Right(k)] = "EATING"
      BY <2>2, <2>4 DEF SemaForksFree
    <3>. QED  BY <2>1, <2>3, <3>1 DEF SemaExcused
  <2>5. CASE k # j
    <3>1. k # i
      BY <1>2, <2>5
    <3>2. SemaExcused(k)
      BY <1>2, <2>2, <3>1 DEF SemaIInv, SemaReasons
    <3>3. /\ i = Right(k) => sema_at[i] # "put_left"
          /\ i = Left(k) => sema_at[i] # "put_right"
      BY <1>2, <2>5, NeighboursInvert
    <3>. QED  BY <1>2, <2>1, <2>3, <3>2, <3>3 DEF SemaExcused
  <2>. QED  BY <2>4, <2>5
<1>. QED  BY <1>5, <1>6, <1>7, <1>8, <1>9, <1>10, <1>11, <1>12 DEF SemaIInv

LEMMA SemaIInvNext == ASSUME SemaIInv, [SemaNext]_semaVars PROVE SemaIInv'
<1>1. ASSUME NEW i \in Proc, SemaStep(i) PROVE SemaIInv'
  <2>1. CASE SemaThink(i) \/ SemaEat(i)
    BY <2>1, RestKeepsTable
  <2>2. CASE SemaTakeDown(i) \/ SemaPutDown(i)
    BY <2>2, MutexDownKeeps
  <2>3. CASE SemaForkDown(i)
    BY <2>3, ForkDownKeeps
  <2>4. CASE SemaTakeUp(i) \/ SemaPutUp(i)
    BY <2>4, MutexUpKeeps
  <2>5. CASE SemaHungry(i) \/ SemaPutForks(i)
    BY <2>5, StateKeepsTable
  <2>6. CASE SemaTestSelf(i) \/ SemaTestLeft(i) \/ SemaTestRight(i)
    <3>1. PICK j \in Proc, from \in Points, to \in Points :
            /\ SemaTest(i, j) /\ sema_iter' = sema_iter /\ SemaMove(i, from, to)
            /\ \/ from = "take_test" /\ to = "take_up" /\ j = i
               \/ from = "put_left" /\ to = "put_right" /\ j = Left(i)
               \/ from = "put_right" /\ to = "put_up" /\ j = Right(i)
      BY <2>6, Neighbours DEF SemaTestSelf, SemaTestLeft, SemaTestRight, Points
    <3>. QED  BY <3>1, SemaTestKeeps
  <2>. QED  BY <1>1, <2>1, <2>2, <2>3, <2>4, <2>5, <2>6 DEF SemaStep
<1>2. CASE UNCHANGED semaVars
  BY ZenonT(60), <1>2 DEF semaVars, tableVars, SemaIInv, SemaTypeOK, SemaQueues, MutexStanding,
              OwnsTable, TableOwners, TableQueued, SemaReasons, SemaExcused, Fork, SemaStage
<1>. QED  BY <1>1, <1>2 DEF SemaNext

-----------------------------------------------------------------------------
(* What the strengthening says of the properties. *)

LEMMA SemaIInvMeans == ASSUME SemaIInv PROVE SemaInv
<1>1. PermitsExact
  <2>. SUFFICES ASSUME NEW i \in Proc
                PROVE  /\ Permits(i) = IF sema_at[i] \in {"take_up", "take_fork", "take_wait"}
                                           /\ state_sema[i] = "EATING" THEN 1 ELSE 0
                       /\ ToSet(sema_queue[i]) \subseteq {i}
    BY DEF PermitsExact
  <2>1. Fork(i) /\ TableQueued(i) = ToSet(sema_queue[i])
    BY DEF SemaIInv, TableQueued
  <2>2. Cardinality({}) = 0 /\ Cardinality({i}) = 1
    BY FS_EmptySet, FS_Singleton
  <2>. QED  BY <2>1, <2>2 DEF Fork, Permits
<1>2. CriticalSection
  <2>. DEFINE inside == {i \in Proc : sema_at[i] \in Critical}
              let_in == sema_granted[tableMutex]
  <2>1. let_in \cap inside = {} /\ let_in \cup inside = TableOwners
    BY DEF SemaIInv, MutexStanding, TableOwners, Critical
  <2>2. Cardinality({}) = 0 /\ \A o \in Proc : Cardinality({o}) = 1
    BY FS_EmptySet, FS_Singleton
  <2>3. sema_value[tableMutex] + Cardinality(let_in) + Cardinality(inside) = 1
    <3>1. CASE sema_value[tableMutex] = 1 /\ TableOwners = {}
      <4>1. let_in = {} /\ inside = {}
        BY <2>1, <3>1
      <4>. QED  BY <2>2, <3>1, <4>1
    <3>2. CASE sema_value[tableMutex] = 0 /\ \E o \in Proc : TableOwners = {o}
      <4>1. PICK o \in Proc : TableOwners = {o}
        BY <3>2
      <4>2. (let_in = {o} /\ inside = {}) \/ (let_in = {} /\ inside = {o})
        BY <2>1, <4>1
      <4>. HIDE DEF inside, let_in
      <4>. QED  BY <2>2, <3>2, <4>2
    <3>. QED  BY <3>1, <3>2 DEF SemaIInv, OwnsTable
  <2>. QED  BY <2>3 DEF CriticalSection, Critical
<1>3. ForksInHand
  BY DEF SemaIInv, SemaStage, SemaReasons, SemaExcused, ForksInHand
<1>. QED  BY <1>1, <1>2, <1>3 DEF SemaIInv, SemaInv

LEMMA SemaTableStep ==
  ASSUME SemaIInv, [SemaNext]_semaVars PROVE [SD!Next]_state_sema
<1>1. Proc = SD!Phil
  BY PhilosophersAssumption DEF SD!Phil
<1>2. ASSUME NEW i \in Proc, NEW j \in Proc, SemaTest(i, j) PROVE [SD!Next]_state_sema
  BY <1>1, <1>2 DEF SemaTest, SD!Next, SD!Eat, SD!Left, SD!Right, Left, Right
<1>3. ASSUME NEW i \in Proc, SemaStep(i) PROVE [SD!Next]_state_sema
  <2>1. SemaStage(i)
    BY DEF SemaIInv
  <2>2. CASE SemaHungry(i)
    BY <1>1, <2>1, <2>2 DEF SemaHungry, SemaMove, SemaStage, SD!Next, SD!GetHungry
  <2>3. CASE SemaPutForks(i)
    BY <1>1, <2>1, <2>3 DEF SemaPutForks, SemaMove, SemaStage, SD!Next, SD!PutForks
  <2>4. CASE SemaTestSelf(i) \/ SemaTestLeft(i) \/ SemaTestRight(i)
    BY <1>2, <2>4, Neighbours DEF SemaTestSelf, SemaTestLeft, SemaTestRight
  <2>5. CASE SemaThink(i) \/ SemaEat(i) \/ SemaTakeDown(i) \/ SemaTakeUp(i)
             \/ SemaForkDown(i) \/ SemaPutDown(i) \/ SemaPutUp(i)
    BY <2>5 DEF SemaThink, SemaEat, SemaTakeDown, SemaTakeUp, SemaForkDown, SemaPutDown,
                SemaPutUp, SemaDown
  <2>. QED  BY <1>3, <2>2, <2>3, <2>4, <2>5 DEF SemaStep
<1>4. CASE UNCHANGED semaVars
  BY <1>4 DEF semaVars
<1>. QED  BY <1>3, <1>4 DEF SemaNext

\* The semaphore half of check_sync implements the table of DiningTable, one philosopher
\* at a time holds its mutex, and every up(&s[i]) is met by exactly one down(&s[i]).
THEOREM SemaphoresImplementTable == SemaSpec => SemaImplementsTable
<1>1. SemaInit => SemaIInv /\ SD!Init
  BY SemaIInvInit, PhilosophersAssumption DEF SemaInit, SD!Init, SD!Phil
<1>2. SemaIInv /\ [SemaNext]_semaVars => SemaIInv'
  BY SemaIInvNext
<1>3. SemaIInv /\ [SemaNext]_semaVars => [SD!Next]_state_sema
  BY SemaTableStep
<1>4. SemaIInv => SemaInv
  BY SemaIInvMeans
<1>. QED  BY <1>1, <1>2, <1>3, <1>4, PTL DEF SemaSpec, SemaImplementsTable, SD!Spec
=============================================================================
