---------------------------- MODULE Stdin_proofs ----------------------------
(* Proofs that the keyboard device loses, repeats and reorders nothing that it does not
   overwrite, and that nobody sleeps on input, for every set of threads, size of the
   ring and length of reads. *)
EXTENDS Stdin, QueueLemmas, SequenceTheorems

\* What the point a thread is at says of its state and of its wait node.  WT_KBD is
\* the only reason to sleep for, and a node that a key press unlinked says so.
PointOK(p) ==
  /\ pc[p] = "idle" <=> p = idle
  /\ pc[p] \in {"exit_sched", "dead"} <=> state[p] = "ZOMBIE"
  /\ state[p] # "UNINIT"
  /\ wait_state[p] = "KBD" <=> state[p] = "SLEEPING"
  /\ wait_state[p] \in {"NONE", "KBD"}
  /\ wakeup_flags[p] = "KBD" => p \notin Waiters
  /\ p = current => pc[p] # "dead"
  /\ p = current /\ state[p] = "SLEEPING" => pc[p] = "read_sched"
  /\ p # current => pc[p] \in {"user", "read_wait", "dead", "idle"}

\* The i-th character of those that were read and those still in the ring.
Char(i) == IF i <= p_rpos THEN got[i] ELSE stdin_buffer[Slot(i - 1)]

\* No key press is there twice, and as long as none was overwritten they are in order.
DataOK ==
  /\ typed \in 0..MaxTyped /\ p_wpos \in 0..typed
  /\ got \in Seq(Nat) /\ Len(got) = p_rpos
  /\ \A i \in 1..p_wpos : Char(i) \in 1..typed
  /\ \A i, j \in 1..p_wpos : i # j => Char(i) # Char(j)
  /\ p_wpos = typed => \A i \in 1..p_wpos : Char(i) = i

StdinIInv == StdinInv /\ DataOK /\ \A p \in Proc : PointOK(p)

-----------------------------------------------------------------------------
(* The ring. *)

\* Neighbours within the ring's size have slots of their own; a lap later a slot is
\* used again.
LEMMA SlotFacts ==
  ASSUME NEW a \in Nat, NEW b \in Nat
  PROVE  /\ Slot(a) \in 0..STDIN_BUFSIZE - 1
         /\ a < b /\ b < a + STDIN_BUFSIZE => Slot(a) # Slot(b)
         /\ b = a + STDIN_BUFSIZE => Slot(b) = Slot(a)
<1>. DEFINE B == STDIN_BUFSIZE  m == a \div B  n == b \div B
<1>0. B \in Nat \ {0}
  BY StdinAssumption
<1>. HIDE DEF B
<1>1. m \in Int /\ n \in Int /\ (a % B) \in 0..B - 1 /\ (b % B) \in 0..B - 1
  BY <1>0
<1>2. a = B * m + (a % B) /\ b = B * n + (b % B)
  BY <1>0
<1>. HIDE DEF m, n
<1>3. ASSUME a < b, b < a + B, (a % B) = (b % B) PROVE FALSE
  <2>1. B * n - B * m > 0 /\ B * n - B * m < B
    <3>. DEFINE x == B * m  y == B * n
    <3>1. x \in Int /\ y \in Int /\ a = x + (a % B) /\ b = y + (a % B)
      BY <1>0, <1>1, <1>2, <1>3
    <3>. HIDE DEF x, y
    <3>2. y - x > 0 /\ y - x < B
      BY <1>0, <1>1, <1>3, <3>1
    <3>. QED  BY <3>2 DEF x, y
  <2>2. B * (n - m) > 0 /\ B * (n - m) < B
    BY <1>0, <1>1, <2>1
  <2>3. n - m <= 0 \/ n - m >= 1
    BY <1>1
  <2>. QED  BY <1>0, <1>1, <2>2, <2>3
<1>4. ASSUME b = a + B PROVE (a % B) = (b % B)
  <2>1. b = B * (m + 1) + (a % B)
    BY <1>0, <1>1, <1>2, <1>4
  <2>2. B * (m + 1) + (a % B) = B * n + (b % B)
    BY <1>2, <2>1
  <2>3. PICK d \in Int : d = m + 1 - n
    BY <1>1
  <2>4. B * d = (b % B) - (a % B)
    BY <1>0, <1>1, <2>2, <2>3
  <2>5. B * d < B /\ B * d > -B
    BY <1>0, <1>1, <2>4
  <2>6. d = 0
    <3>1. ~(d >= 1)
      BY <1>0, <2>3, <2>5
    <3>2. ~(d <= -1)
      BY <1>0, <2>3, <2>5
    <3>. QED  BY <2>3, <3>1, <3>2
  <2>. QED  BY <1>0, <1>1, <2>4, <2>6
<1>. QED  BY <1>1, <1>3, <1>4 DEF Slot, B

\* What a reader takes: the oldest k characters of the ring.
LEMMA TakenFacts ==
  ASSUME TypeOK, DataOK, NEW k \in 0..p_wpos - p_rpos
  PROVE  /\ SubSeq(Unread, 1, k) \in Seq(Nat)
         /\ Len(SubSeq(Unread, 1, k)) = k
         /\ \A i \in 1..k : SubSeq(Unread, 1, k)[i] = stdin_buffer[Slot(p_rpos + i - 1)]
<1>1. p_rpos \in Nat /\ p_wpos \in Nat /\ p_rpos <= p_wpos /\ k \in Nat /\ k <= p_wpos - p_rpos
  BY StdinAssumption DEF TypeOK, DataOK
<1>2. ASSUME NEW i \in 1..p_wpos - p_rpos
      PROVE  /\ Unread[i] = stdin_buffer[Slot(p_rpos + i - 1)]
             /\ Unread[i] \in Nat
  <2>1. p_rpos + i - 1 \in Nat
    BY <1>1
  <2>2. Slot(p_rpos + i - 1) \in 0..STDIN_BUFSIZE - 1
    BY <2>1, SlotFacts
  <2>3. Unread[i] = stdin_buffer[Slot(p_rpos + i - 1)]
    BY DEF Unread
  <2>4. stdin_buffer[Slot(p_rpos + i - 1)] \in 0..MaxTyped
    BY <2>2 DEF TypeOK
  <2>. QED  BY <2>3, <2>4, StdinAssumption
<1>3. \A i \in 1..k : Unread[i] \in Nat
  BY <1>1, <1>2
<1>4. PICK u : u = Unread
  OBVIOUS
<1>5. \A i \in 1..k : u[i] \in Nat
  BY <1>3, <1>4
<1>6. /\ SubSeq(u, 1, k) \in Seq(Nat)
      /\ Len(SubSeq(u, 1, k)) = IF 1 <= k THEN k - 1 + 1 ELSE 0
      /\ \A i \in 1..k - 1 + 1 : SubSeq(u, 1, k)[i] = u[1 + i - 1]
  BY <1>1, <1>5, SubSeqProperties
<1>7. Len(SubSeq(u, 1, k)) = k
  BY <1>1, <1>6
<1>8. ASSUME NEW i \in 1..k PROVE SubSeq(u, 1, k)[i] = stdin_buffer[Slot(p_rpos + i - 1)]
  <2>1. i \in 1..k - 1 + 1 /\ 1 + i - 1 = i /\ i \in 1..p_wpos - p_rpos
    BY <1>1
  <2>2. SubSeq(u, 1, k)[i] = u[i]
    BY <1>6, <2>1
  <2>. QED  BY <1>2, <1>4, <2>1, <2>2
<1>. QED  BY <1>4, <1>6, <1>7, <1>8

\* Reading moves the border between what was read and what was not, and no character.
LEMMA TakeKeepsData ==
  ASSUME TypeOK, DataOK, NEW k \in 0..p_wpos - p_rpos,
         got' = got \o SubSeq(Unread, 1, k), p_rpos' = p_rpos + k,
         UNCHANGED <<stdin_buffer, p_wpos, typed>>
  PROVE  DataOK'
<1>1. p_rpos \in Nat /\ p_wpos \in Nat /\ p_rpos <= p_wpos /\ k \in Nat /\ k <= p_wpos - p_rpos
  BY StdinAssumption DEF TypeOK, DataOK
<1>2. PICK s : s = SubSeq(Unread, 1, k)
  OBVIOUS
<1>3. PICK g : g = got
  OBVIOUS
<1>4. /\ s \in Seq(Nat) /\ Len(s) = k
      /\ \A i \in 1..k : s[i] = stdin_buffer[Slot(p_rpos + i - 1)]
  BY <1>2, TakenFacts
<1>5. g \in Seq(Nat) /\ Len(g) = p_rpos
  BY <1>3 DEF DataOK
<1>6. /\ g \o s \in Seq(Nat) /\ Len(g \o s) = p_rpos + k
      /\ \A j \in 1..p_rpos : (g \o s)[j] = g[j]
      /\ \A j \in 1..k : (g \o s)[p_rpos + j] = s[j]
  <2>1. /\ g \o s \in Seq(Nat)
        /\ Len(g \o s) = Len(g) + Len(s)
        /\ \A j \in 1..Len(g) : (g \o s)[j] = g[j]
        /\ \A j \in 1..Len(s) : (g \o s)[Len(g) + j] = s[j]
    <3>1. PICK N : N = Nat
      OBVIOUS
    <3>2. g \in Seq(N) /\ s \in Seq(N)
      BY <1>4, <1>5, <3>1
    <3>3. /\ g \o s \in Seq(N)
          /\ Len(g \o s) = Len(g) + Len(s)
          /\ \A j \in 1..Len(g) : (g \o s)[j] = g[j]
          /\ \A j \in 1..Len(s) : (g \o s)[Len(g) + j] = s[j]
      BY <3>2
    <3>. QED  BY <3>1, <3>3
  <2>. QED  BY <1>4, <1>5, <2>1
<1>7. got' = g \o s
  BY <1>2, <1>3
<1>8. ASSUME NEW i \in 1..p_wpos PROVE Char(i)' = Char(i)
  <2>1. CASE i <= p_rpos
    <3>1. i <= p_rpos + k /\ i \in 1..p_rpos
      BY <1>1, <2>1
    <3>. QED  BY <1>3, <1>6, <1>7, <2>1, <3>1 DEF Char
  <2>2. CASE i > p_rpos /\ i <= p_rpos + k
    <3>1. PICK j \in 1..k : i = p_rpos + j
      <4>1. i - p_rpos \in 1..k /\ i = p_rpos + (i - p_rpos)
        BY <1>1, <2>2
      <4>. QED  BY <4>1
    <3>2. got'[i] = stdin_buffer[Slot(p_rpos + j - 1)]
      BY <1>4, <1>6, <1>7, <3>1
    <3>3. ~(i <= p_rpos)
      BY <1>1, <2>2
    <3>4. Char(i) = stdin_buffer[Slot(i - 1)]
      BY <3>3 DEF Char
    <3>5. Char(i)' = got'[i]
      BY <2>2 DEF Char
    <3>6. p_rpos + j - 1 = i - 1
      BY <1>1, <3>1
    <3>. QED  BY <3>2, <3>4, <3>5, <3>6
  <2>3. CASE i > p_rpos + k
    <3>1. ~(i <= p_rpos) /\ ~(i <= p_rpos + k)
      BY <1>1, <2>3
    <3>. QED  BY <3>1 DEF Char, Slot
  <2>. QED  BY <1>1, <2>1, <2>2, <2>3
<1>9. got' \in Seq(Nat) /\ Len(got') = p_rpos'
  BY <1>6, <1>7
<1>. QED  BY <1>8, <1>9 DEF DataOK

\* A key press adds its number at the end or puts it in the place of the oldest
\* unread character.
LEMMA KeyPressKeepsData == ASSUME TypeOK, DataOK, KeyPress PROVE DataOK'
<1>. PICK w, B : w = p_wpos /\ B = STDIN_BUFSIZE
  OBVIOUS
<1>1. /\ p_rpos \in Nat /\ w \in Nat /\ p_rpos <= w /\ w - p_rpos <= B
      /\ typed \in Nat /\ typed < MaxTyped /\ w <= typed
      /\ B \in Nat \ {0} /\ MaxTyped \in Nat
  BY StdinAssumption DEF TypeOK, DataOK, KeyPress
<1>2. /\ typed' = typed + 1 /\ p_rpos' = p_rpos /\ got' = got
      /\ stdin_buffer' = [stdin_buffer EXCEPT ![Slot(w)] = typed']
      /\ p_wpos' = IF w - p_rpos < B THEN w + 1 ELSE w
  BY DEF KeyPress, Advanced
<1>3. Slot(w) \in 0..B - 1 /\ stdin_buffer \in [0..B - 1 -> 0..MaxTyped]
  BY <1>1, SlotFacts DEF TypeOK
<1>4. stdin_buffer'[Slot(w)] = typed + 1
      /\ \A x \in 0..B - 1 : x # Slot(w) => stdin_buffer'[x] = stdin_buffer[x]
  BY <1>2, <1>3
<1>5. ASSUME NEW i \in 1..w, i <= p_rpos PROVE Char(i)' = Char(i)
  BY <1>2, <1>5 DEF Char
<1>6. ASSUME NEW i \in 1..w, i > p_rpos, i - 1 > w - B PROVE Char(i)' = Char(i)
  <2>1. i - 1 \in Nat /\ i - 1 < w /\ w < i - 1 + B /\ ~(i <= p_rpos)
    BY <1>1, <1>6
  <2>2. Slot(i - 1) # Slot(w) /\ Slot(i - 1) \in 0..B - 1
    BY <1>1, <2>1, SlotFacts
  <2>. QED  BY <1>2, <1>4, <2>1, <2>2 DEF Char, Slot
<1>7. CASE w - p_rpos < B
  <2>1. p_wpos' = w + 1
    BY <1>2, <1>7
  <2>2. ASSUME NEW i \in 1..w PROVE Char(i)' = Char(i)
    <3>1. i <= p_rpos \/ (i > p_rpos /\ i - 1 > w - B)
      BY <1>1, <1>7
    <3>. QED  BY <1>5, <1>6, <3>1
  <2>3. PICK n : n = w + 1 /\ Char(n)' = typed + 1
    <3>1. PICK x : x = w + 1
      OBVIOUS
    <3>2. ~(x <= p_rpos) /\ x - 1 = w
      BY <1>1, <3>1
    <3>3. Char(x)' = stdin_buffer'[Slot(x - 1)]
      BY <1>2, <3>2 DEF Char, Slot
    <3>. QED  BY <1>4, <3>1, <3>2, <3>3
  <2>4. ASSUME NEW i \in 1..w + 1 PROVE i \in 1..w \/ i = n
    BY <1>1, <2>3
  <2>5. \A i \in 1..w + 1 : Char(i)' \in 1..typed + 1
    <3>1. \A i \in 1..w : Char(i) \in 1..typed + 1
      BY <1>1 DEF DataOK
    <3>2. typed + 1 \in 1..typed + 1
      BY <1>1
    <3>. QED  BY <2>2, <2>3, <2>4, <3>1, <3>2
  <2>6. ASSUME NEW i \in 1..w + 1, NEW j \in 1..w + 1, i # j PROVE Char(i)' # Char(j)'
    <3>1. \A x \in 1..w : Char(x) # typed + 1
      BY <1>1 DEF DataOK
    <3>2. \A x, y \in 1..w : x # y => Char(x) # Char(y)
      BY DEF DataOK
    <3>3. \A x \in 1..w : Char(x)' # Char(n)'
      BY <2>2, <2>3, <3>1
    <3>. QED  BY <2>2, <2>4, <2>6, <3>2, <3>3
  <2>7. ASSUME w + 1 = typed + 1, NEW i \in 1..w + 1 PROVE Char(i)' = i
    BY <1>1, <2>2, <2>3, <2>4, <2>7 DEF DataOK
  <2>8. typed' \in 0..MaxTyped /\ p_wpos' \in 0..typed'
    BY <1>1, <1>2, <2>1
  <2>. QED  BY <1>2, <2>1, <2>5, <2>6, <2>7, <2>8 DEF DataOK
<1>8. CASE w - p_rpos >= B
  <2>1. p_wpos' = w /\ w = p_rpos + B
    BY <1>1, <1>2, <1>8
  <2>2. PICK n \in 1..w : n = p_rpos + 1 /\ Char(n)' = typed + 1
    <3>1. PICK x : x = p_rpos + 1
      OBVIOUS
    <3>2. ~(x <= p_rpos) /\ x - 1 = p_rpos /\ x \in 1..w
      BY <1>1, <2>1, <3>1
    <3>3. Char(x)' = stdin_buffer'[Slot(x - 1)]
      BY <1>2, <3>2 DEF Char, Slot
    <3>4. Slot(p_rpos) = Slot(w)
      BY <1>1, <2>1, SlotFacts
    <3>5. Char(x)' = typed + 1
      BY <1>4, <3>2, <3>3, <3>4
    <3>. QED  BY <3>1, <3>2, <3>5
  <2>3. ASSUME NEW i \in 1..w, i # n PROVE Char(i)' = Char(i)
    <3>1. i <= p_rpos \/ (i > p_rpos /\ i - 1 > w - B)
      BY <1>1, <2>1, <2>2, <2>3
    <3>. QED  BY <1>5, <1>6, <3>1
  <2>4. \A i \in 1..w : Char(i)' \in 1..typed + 1
    <3>1. \A i \in 1..w : Char(i) \in 1..typed + 1
      BY <1>1 DEF DataOK
    <3>2. typed + 1 \in 1..typed + 1
      BY <1>1
    <3>. QED  BY <2>2, <2>3, <3>1, <3>2
  <2>5. ASSUME NEW i \in 1..w, NEW j \in 1..w, i # j PROVE Char(i)' # Char(j)'
    <3>1. \A x \in 1..w : Char(x) # typed + 1
      BY <1>1 DEF DataOK
    <3>2. \A x, y \in 1..w : x # y => Char(x) # Char(y)
      BY DEF DataOK
    <3>3. \A x \in 1..w : x # n => Char(x)' # Char(n)'
      BY <2>2, <2>3, <3>1
    <3>. QED  BY <2>3, <2>5, <3>2, <3>3
  <2>6. w # typed + 1 /\ typed' \in 0..MaxTyped /\ p_wpos' \in 0..typed'
    BY <1>1, <1>2, <2>1
  <2>. QED  BY <1>2, <2>1, <2>4, <2>5, <2>6 DEF DataOK
<1>. QED  BY <1>1, <1>7, <1>8

-----------------------------------------------------------------------------
(* The wait queue. *)

\* wait_current_del leaves the others linked.
LEMMA NodeDeletedFacts ==
  ASSUME StdinInv, NEW p \in Proc
  PROVE  /\ NodeDeleted(p) \in Seq(Proc) /\ IsInjective(NodeDeleted(p))
         /\ ToSet(NodeDeleted(p)) = Waiters \ {p}
<1>1. wait_queue \in Seq(Proc) /\ IsInjective(wait_queue)
  BY DEF StdinInv, TypeOK, NodesLive
<1>2. CASE p \in Waiters
  <2>1. p \in ToSet(wait_queue)
    BY <1>2 DEF Waiters
  <2>2. /\ RemoveFirst(wait_queue, p) \in Seq(Proc)
        /\ ToSet(RemoveFirst(wait_queue, p)) = ToSet(wait_queue) \ {p}
        /\ IsInjective(RemoveFirst(wait_queue, p))
    BY <1>1, <2>1, RemoveFirstFacts
  <2>. QED  BY <1>2, <2>2 DEF NodeDeleted, Waiters
<1>3. CASE p \notin Waiters
  BY <1>1, <1>3 DEF NodeDeleted, Waiters
<1>. QED  BY <1>2, <1>3

\* wakeup_queue wakes everybody and leaves nobody linked.
LEMMA WokenFacts ==
  ASSUME StdinInv
  PROVE  /\ Woken = Waiters
         /\ SubSeq(wait_queue, WakeupCount + 1, Len(wait_queue)) = <<>>
<1>1. wait_queue \in Seq(Proc)
  BY DEF StdinInv, TypeOK
<1>2. PICK q : q = wait_queue
  OBVIOUS
<1>3. q \in Seq(Proc) /\ Len(q) \in Nat /\ \A i \in 1..Len(q) : q[i] \in Proc
  BY <1>1, <1>2
<1>4. /\ SubSeq(q, 1, Len(q)) \in Seq(Proc)
      /\ Len(SubSeq(q, 1, Len(q))) = Len(q)
      /\ \A i \in 1..Len(q) : SubSeq(q, 1, Len(q))[i] = q[i]
  BY <1>3
<1>5. ToSet(SubSeq(q, 1, Len(q))) = ToSet(q)
  <2>1. PICK r : r = SubSeq(q, 1, Len(q))
    OBVIOUS
  <2>2. DOMAIN r = 1..Len(q) /\ DOMAIN q = 1..Len(q) /\ \A i \in 1..Len(q) : r[i] = q[i]
    BY <1>3, <1>4, <2>1
  <2>3. ToSet(r) = ToSet(q)
    BY <2>2 DEF ToSet
  <2>. QED  BY <2>1, <2>3
<1>6. SubSeq(q, Len(q) + 1, Len(q)) = <<>>
  <2>1. Len(q) + 1 \in Int /\ Len(q) \in Int /\ Len(q) < Len(q) + 1
    BY <1>3
  <2>. QED  BY <2>1, SubSeqEmpty
<1>. QED  BY <1>2, <1>5, <1>6 DEF Woken, WakeupCount, Waiters

\* Who sleeps is in the queue, off the CPU or about to leave it.
LEMMA SleeperFacts ==
  ASSUME StdinIInv, NEW p \in Proc
  PROVE  /\ state[p] = "SLEEPING" => p \in Waiters
         /\ p \in Waiters => /\ pc[p] \in {"read_sched", "read_wait"} /\ p # idle
                             /\ state[p] \in {"SLEEPING", "RUNNABLE"}
  BY ProcAssumption
     DEF StdinIInv, StdinInv, TypeOK, SchedTypeOK, ProcState, NodesLive, NobodySleepsOnInput,
         PointOK

\* The running thread has the CPU: it can run, or is on its way to schedule().
LEMMA RunningFacts ==
  ASSUME StdinIInv, NEW p \in Proc, p = current
  PROVE  /\ pc[p] \notin {"read_sched", "exit_sched"} => state[p] = "RUNNABLE"
         /\ pc[p] # "read_sched" => p \notin Waiters \/ pc[p] = "read_wait"
         /\ pc[p] # "idle" => p # idle
<1>1. state[p] \in {"SLEEPING", "RUNNABLE", "ZOMBIE"}
  BY DEF StdinIInv, StdinInv, TypeOK, SchedTypeOK, ProcState, PointOK
<1>. QED  BY <1>1, SleeperFacts DEF StdinIInv, PointOK

\* What wakeup_proc does to threads that sleep or can run.
LEMMA WakeFacts ==
  ASSUME StdinIInv, NEW S \in SUBSET Proc, WakeupAll(S), UNCHANGED current,
         \A q \in S : state[q] \in {"SLEEPING", "RUNNABLE"}
  PROVE  /\ state' \in [Proc -> ProcState] /\ wait_state' \in [Proc -> WaitState]
         /\ rq' \subseteq Proc /\ RunQueueExact'
         /\ \A q \in Proc : /\ state'[q] = IF q \in S THEN "RUNNABLE" ELSE state[q]
                            /\ wait_state'[q] = IF q \in S THEN "NONE" ELSE wait_state[q]
<1>. USE DEF StdinIInv, StdinInv
<1>1. \A q \in S : state[q] = "RUNNABLE" => wait_state[q] = "NONE"
  BY DEF PointOK
<1>2. \A q \in S : state[q] # "RUNNABLE" => q # idle
  BY SleeperFacts
<1>3. /\ state' = [q \in Proc |-> IF q \in {x \in S : state[x] # "RUNNABLE"}
                                 THEN "RUNNABLE" ELSE state[q]]
      /\ wait_state' = [q \in Proc |-> IF q \in {x \in S : state[x] # "RUNNABLE"}
                                      THEN "NONE" ELSE wait_state[q]]
      /\ rq' = rq \cup ({x \in S : state[x] # "RUNNABLE"} \ {current, idle})
  BY DEF WakeupAll
<1>4. \A q \in Proc : /\ state'[q] = IF q \in S THEN "RUNNABLE" ELSE state[q]
                      /\ wait_state'[q] = IF q \in S THEN "NONE" ELSE wait_state[q]
  BY <1>1, <1>3
<1>5. state' \in [Proc -> ProcState] /\ wait_state' \in [Proc -> WaitState] /\ rq' \subseteq Proc
  BY <1>3 DEF TypeOK, SchedTypeOK, ProcState, WaitState
<1>6. RunQueueExact'
  BY <1>3, <1>4 DEF RunQueueExact, TypeOK, SchedTypeOK
<1>. QED  BY <1>4, <1>5, <1>6

-----------------------------------------------------------------------------
(* The steps. *)

LEMMA InitHolds == Init => StdinIInv
<1>. SUFFICES ASSUME Init PROVE StdinIInv
  OBVIOUS
<1>. USE ProcAssumption, StdinAssumption
<1>1. /\ wait_queue = <<>> /\ wait_queue \in Seq(Proc)
      /\ got = <<>> /\ got \in Seq(Nat) /\ Len(got) = 0
  BY DEF Init
<1>2. Waiters = {} /\ IsInjective(wait_queue)
  BY <1>1, EmptyFacts DEF Waiters
<1>3. TypeOK
  BY <1>1 DEF Init, TypeOK, SchedTypeOK, ProcState, WaitState
<1>4. RunQueueExact /\ NodesLive /\ NobodySleepsOnInput
  BY <1>2 DEF Init, RunQueueExact, NodesLive, NobodySleepsOnInput
<1>5. DataOK
  BY <1>1 DEF Init, DataOK
<1>6. \A p \in Proc : PointOK(p)
  BY <1>2 DEF Init, PointOK
<1>. QED  BY <1>3, <1>4, <1>5, <1>6 DEF StdinIInv, StdinInv

\* The running thread moves on in its code.
LEMMA MoveKeeps ==
  ASSUME StdinIInv, NEW p \in Proc, p = current, pc[p] \in {"user", "trap", "read", "read_wait"},
         NEW point \in {"user", "trap", "trap_sched", "read"}, Goto(p, point),
         NEW q \in Seq(Proc), IsInjective(q), ToSet(q) = Waiters \ {p}, wait_queue' = q,
         p_rpos' \in p_rpos..p_wpos, Waiters # {} => p_rpos' = p_rpos,
         len' \in [Proc -> 0..MaxLen], need_resched' \in [Proc -> BOOLEAN],
         DataOK',
         UNCHANGED <<state, wait_state, current, rq, exiting, stdin_buffer, p_wpos,
                     wakeup_flags, typed>>
  PROVE  StdinIInv'
<1>. USE DEF StdinIInv, StdinInv
<1>1. state[p] = "RUNNABLE" /\ p # idle
  BY RunningFacts DEF PointOK
<1>2. /\ pc' \in [Proc -> {"user", "trap", "trap_sched", "read", "read_sched", "read_wait",
                          "exit_sched", "dead", "idle"}]
      /\ \A x \in Proc : pc'[x] = IF x = p THEN point ELSE pc[x]
  BY DEF Goto, TypeOK
<1>3. p_rpos \in Nat /\ p_wpos \in Nat /\ p_rpos <= p_rpos' /\ p_rpos' <= p_wpos /\ p_rpos' \in Nat
  BY DEF TypeOK, DataOK
<1>4. Waiters' = Waiters \ {p}
  BY DEF Waiters
<1>5. TypeOK'
  <2>1. SchedTypeOK'
    BY DEF TypeOK, SchedTypeOK
  <2>2. p_rpos' \in 0..p_wpos' /\ p_wpos' - p_rpos' <= STDIN_BUFSIZE
    <3>1. p_wpos - p_rpos <= STDIN_BUFSIZE /\ p_wpos' = p_wpos
      BY DEF TypeOK
    <3>2. PICK B \in Nat : B = STDIN_BUFSIZE
      BY StdinAssumption
    <3>3. PICK r, x, w : r = p_rpos /\ x = p_rpos' /\ w = p_wpos
      OBVIOUS
    <3>4. r \in Nat /\ x \in Nat /\ w \in Nat /\ r <= x /\ x <= w /\ w - r <= B
      BY <1>3, <3>1, <3>2, <3>3
    <3>5. x \in 0..w /\ w - x <= B
      BY <3>2, <3>4
    <3>. QED  BY <3>1, <3>2, <3>3, <3>5
  <2>. QED  BY <1>2, <2>1, <2>2 DEF TypeOK
<1>6. RunQueueExact'
  BY DEF RunQueueExact
<1>7. NodesLive'
  <2>1. Waiters \subseteq Proc
    BY SetOfQueue DEF TypeOK, Waiters
  <2>2. \A x \in Waiters' : x \in Waiters /\ pc'[x] = pc[x]
    BY <1>2, <1>4, <2>1
  <2>. QED  BY <2>2 DEF NodesLive
<1>8. NobodySleepsOnInput'
  BY <1>1, <1>4 DEF NobodySleepsOnInput
<1>9. ASSUME NEW x \in Proc PROVE PointOK(x)'
  BY <1>1, <1>2, <1>4 DEF PointOK
<1>. QED  BY <1>5, <1>6, <1>7, <1>8, <1>9

\* A read that needs more than there is leaves the ring empty and sleeps at the
\* tail of the queue, whoever else is in it.
LEMMA SleepKeeps ==
  ASSUME StdinIInv, NEW p \in Proc, p = current, pc[p] \in {"read", "read_wait"},
         NEW q \in Seq(Proc), IsInjective(q), ToSet(q) = Waiters \ {p},
         Goto(p, "read_sched"), SetSleeping(p, "KBD"), wait_queue' = Append(q, p),
         wakeup_flags' = [wakeup_flags EXCEPT ![p] = "INTERRUPTED"],
         p_rpos' = p_wpos, len' \in [Proc -> 0..MaxLen], DataOK',
         UNCHANGED <<current, rq, need_resched, exiting, stdin_buffer, p_wpos, typed>>
  PROVE  StdinIInv'
<1>. USE DEF StdinIInv, StdinInv
<1>1. state[p] = "RUNNABLE" /\ p # idle
  BY RunningFacts DEF PointOK
<1>2. /\ pc' \in [Proc -> {"user", "trap", "trap_sched", "read", "read_sched", "read_wait",
                          "exit_sched", "dead", "idle"}]
      /\ \A x \in Proc : pc'[x] = IF x = p THEN "read_sched" ELSE pc[x]
  BY DEF Goto, TypeOK
<1>3. /\ state' \in [Proc -> ProcState] /\ wait_state' \in [Proc -> WaitState]
      /\ \A x \in Proc : /\ state'[x] = IF x = p THEN "SLEEPING" ELSE state[x]
                         /\ wait_state'[x] = IF x = p THEN "KBD" ELSE wait_state[x]
  BY DEF SetSleeping, TypeOK, SchedTypeOK, ProcState, WaitState
<1>4. /\ wakeup_flags' \in [Proc -> {"INTERRUPTED", "KBD"}]
      /\ \A x \in Proc : wakeup_flags'[x] = IF x = p THEN "INTERRUPTED" ELSE wakeup_flags[x]
  BY DEF TypeOK
<1>5. /\ wait_queue' \in Seq(Proc) /\ IsInjective(wait_queue')
      /\ Waiters' = Waiters \cup {p} /\ Waiters \subseteq Proc
  <2>1. /\ Append(q, p) \in Seq(Proc)
        /\ ToSet(Append(q, p)) = ToSet(q) \cup {p}
        /\ IsInjective(Append(q, p))
    BY AppendFacts
  <2>2. Waiters \subseteq Proc
    BY SetOfQueue DEF TypeOK, Waiters
  <2>. QED  BY <2>1, <2>2 DEF Waiters
<1>6. TypeOK'
  <2>1. SchedTypeOK'
    BY <1>3 DEF TypeOK, SchedTypeOK
  <2>2. p_rpos' \in 0..p_wpos' /\ p_wpos' - p_rpos' <= STDIN_BUFSIZE
    <3>1. p_wpos \in Nat /\ p_wpos' = p_wpos
      BY DEF DataOK
    <3>. QED  BY <3>1, StdinAssumption
  <2>. QED  BY <1>2, <1>4, <1>5, <2>1, <2>2 DEF TypeOK
<1>7. RunQueueExact'
  BY <1>3 DEF RunQueueExact
<1>8. NodesLive'
  <2>1. \A x \in Waiters' : x = p \/ (x \in Waiters /\ x # p /\ x \in Proc)
    BY <1>5
  <2>. QED  BY <1>2, <1>5, <2>1 DEF NodesLive
<1>9. NobodySleepsOnInput'
  BY <1>3, <1>5 DEF NobodySleepsOnInput
<1>10. ASSUME NEW x \in Proc PROVE PointOK(x)'
  <2>1. CASE x = p
    BY <1>1, <1>2, <1>3, <1>4, <1>5, <2>1 DEF PointOK
  <2>2. CASE x # p
    <3>1. PointOK(x) /\ (x \in Waiters' <=> x \in Waiters)
      BY <1>5, <2>2
    <3>. QED  BY <1>2, <1>3, <1>4, <2>2, <3>1 DEF PointOK
  <2>. QED  BY <2>1, <2>2
<1>. QED  BY <1>6, <1>7, <1>8, <1>9, <1>10

LEMMA TakeKeeps ==
  ASSUME StdinIInv, NEW p \in Proc, p = current, pc[p] \in {"read", "read_wait"},
         NEW q \in Seq(Proc), IsInjective(q), ToSet(q) = Waiters \ {p}, Take(p, q),
         UNCHANGED <<current, rq, need_resched, exiting, stdin_buffer, p_wpos, typed>>
  PROVE  StdinIInv'
<1>. DEFINE have == p_wpos - p_rpos
            k == IF len[p] <= have THEN len[p] ELSE have
<1>1. /\ got' = got \o SubSeq(Unread, 1, k)
      /\ p_rpos' = p_rpos + k
      /\ len' = [len EXCEPT ![p] = @ - k]
      /\ IF k = len[p]
           THEN /\ Goto(p, "trap")
                /\ wait_queue' = q
                /\ UNCHANGED <<state, wait_state, wakeup_flags>>
           ELSE /\ SetSleeping(p, "KBD")
                /\ wait_queue' = Append(q, p)
                /\ wakeup_flags' = [wakeup_flags EXCEPT ![p] = "INTERRUPTED"]
                /\ Goto(p, "read_sched")
  BY DEF Take
<1>2. /\ p_rpos \in Nat /\ p_wpos \in Nat /\ have \in Nat /\ len[p] \in 0..MaxLen
      /\ MaxLen \in Nat
  BY StdinAssumption DEF StdinIInv, StdinInv, TypeOK, DataOK
<1>3. k \in 0..have /\ k <= len[p]
  BY <1>2
<1>4. DataOK'
  BY <1>1, <1>3, TakeKeepsData DEF StdinIInv, StdinInv
<1>5. len' \in [Proc -> 0..MaxLen]
  <2>1. len[p] - k \in 0..MaxLen
    BY <1>2, <1>3
  <2>. QED  BY <1>1, <2>1 DEF StdinIInv, StdinInv, TypeOK
<1>6. CASE k = len[p]
  <2>1. p_rpos' \in p_rpos..p_wpos
    BY <1>1, <1>2, <1>3
  <2>2. Waiters # {} => p_rpos' = p_rpos
    <3>1. Waiters # {} => have = 0
      <4>1. Waiters \subseteq Proc
        BY SetOfQueue DEF StdinIInv, StdinInv, TypeOK, Waiters
      <4>. QED  BY <1>2, <4>1 DEF StdinIInv, StdinInv, NobodySleepsOnInput
    <3>. QED  BY <1>1, <1>2, <1>3, <3>1
  <2>3. need_resched' \in [Proc -> BOOLEAN]
    BY DEF StdinIInv, StdinInv, TypeOK, SchedTypeOK
  <2>. QED  BY <1>1, <1>4, <1>5, <1>6, <2>1, <2>2, <2>3, MoveKeeps
<1>7. CASE k # len[p]
  <2>1. p_rpos' = p_wpos
    BY <1>1, <1>2, <1>7
  <2>. HIDE DEF k
  <2>. QED  BY <1>1, <1>4, <1>5, <1>7, <2>1, SleepKeeps
<1>. QED  BY <1>6, <1>7

LEMMA ReadKeeps ==
  ASSUME StdinIInv, NEW p \in Proc, ReadStart(p) \/ ReadResume(p)
  PROVE  StdinIInv'
<1>1. p = current /\ pc[p] \in {"read", "read_wait"}
  BY DEF ReadStart, ReadResume, At
<1>2. PICK d : d = NodeDeleted(p)
  OBVIOUS
<1>3. d \in Seq(Proc) /\ IsInjective(d) /\ ToSet(d) = Waiters \ {p}
  BY <1>2, NodeDeletedFacts DEF StdinIInv
<1>4. CASE ReadStart(p)
  <2>1. p \notin Waiters
    BY <1>4 DEF ReadStart, At, StdinIInv, StdinInv, NodesLive
  <2>2. PICK q : q = wait_queue
    OBVIOUS
  <2>3. q \in Seq(Proc) /\ IsInjective(q) /\ ToSet(q) = Waiters \ {p}
    BY <2>1, <2>2 DEF StdinIInv, StdinInv, TypeOK, NodesLive, Waiters
  <2>4. Take(p, q) /\ UNCHANGED <<current, rq, need_resched, exiting, stdin_buffer, p_wpos, typed>>
    BY <1>4, <2>2 DEF ReadStart
  <2>. QED  BY <1>1, <2>3, <2>4, TakeKeeps
<1>5. CASE ReadResume(p) /\ wakeup_flags[p] = "KBD"
  <2>1. Take(p, d) /\ UNCHANGED <<current, rq, need_resched, exiting, stdin_buffer, p_wpos, typed>>
    BY <1>2, <1>5 DEF ReadResume
  <2>. QED  BY <1>1, <1>3, <2>1, TakeKeeps
<1>6. CASE ReadResume(p) /\ wakeup_flags[p] # "KBD"
  <2>1. /\ wait_queue' = d /\ len' = [len EXCEPT ![p] = 0] /\ Goto(p, "trap")
        /\ UNCHANGED <<state, wait_state, wakeup_flags, p_rpos, got, current, rq, need_resched,
                       exiting, stdin_buffer, p_wpos, typed>>
    BY <1>2, <1>6 DEF ReadResume
  <2>2. p_rpos' \in p_rpos..p_wpos /\ len' \in [Proc -> 0..MaxLen]
        /\ need_resched' \in [Proc -> BOOLEAN]
    BY <2>1, StdinAssumption DEF StdinIInv, StdinInv, TypeOK, SchedTypeOK, DataOK
  <2>3. DataOK'
    BY <2>1 DEF StdinIInv, DataOK, Char, Slot
  <2>. QED  BY <1>1, <1>3, <2>1, <2>2, <2>3, MoveKeeps
<1>. QED  BY <1>4, <1>5, <1>6

LEMMA WaitersInProc == ASSUME StdinIInv PROVE Waiters \subseteq Proc
  BY SetOfQueue DEF StdinIInv, StdinInv, TypeOK, Waiters

\* System calls and the tail of trap() that only move the running thread on.
LEMMA CallKeeps ==
  ASSUME StdinIInv, NEW p \in Proc, TrapReturn(p) \/ \E n \in 1..MaxLen : Read(p, n)
  PROVE  StdinIInv'
<1>1. /\ p = current /\ pc[p] \in {"user", "trap"}
      /\ \E point \in {"user", "trap_sched", "read"} : Goto(p, point)
      /\ UNCHANGED <<state, wait_state, current, rq, need_resched, exiting, stdin_buffer, p_rpos,
                     p_wpos, wait_queue, wakeup_flags, got, typed>>
      /\ len' \in [Proc -> 0..MaxLen]
  <2>1. CASE TrapReturn(p)
    <3>1. len' = len
      BY <2>1 DEF TrapReturn, devVars
    <3>. QED  BY <2>1, <3>1
              DEF TrapReturn, At, schedVars, devVars, StdinIInv, StdinInv, TypeOK
  <2>2. ASSUME NEW n \in 1..MaxLen, Read(p, n)
        PROVE  /\ p = current /\ pc[p] = "user" /\ Goto(p, "read")
               /\ UNCHANGED <<state, wait_state, current, rq, need_resched, exiting, stdin_buffer,
                              p_rpos, p_wpos, wait_queue, wakeup_flags, got, typed>>
               /\ len' \in [Proc -> 0..MaxLen]
    <3>1. n \in 0..MaxLen
      BY StdinAssumption
    <3>. QED  BY <2>2, <3>1 DEF Read, At, schedVars, StdinIInv, StdinInv, TypeOK
  <2>. QED  BY <2>1, <2>2
<1>2. PICK point \in {"user", "trap_sched", "read"} : Goto(p, point)
  BY <1>1
<1>3. PICK q : q = wait_queue
  OBVIOUS
<1>4. q \in Seq(Proc) /\ IsInjective(q) /\ ToSet(q) = Waiters \ {p}
  BY <1>1, <1>3 DEF StdinIInv, StdinInv, TypeOK, NodesLive, Waiters
<1>5. p_rpos' \in p_rpos..p_wpos /\ need_resched' \in [Proc -> BOOLEAN]
  BY <1>1 DEF StdinIInv, StdinInv, TypeOK, SchedTypeOK, DataOK
<1>6. DataOK'
  BY <1>1 DEF StdinIInv, DataOK, Char, Slot
<1>. QED  BY <1>1, <1>2, <1>3, <1>4, <1>5, <1>6, MoveKeeps

LEMMA KeyPressKeeps == ASSUME StdinIInv, KeyPress PROVE StdinIInv'
<1>. USE DEF StdinIInv, StdinInv
<1>1. /\ WakeupAll(Waiters) /\ wait_queue' = <<>>
      /\ wakeup_flags' = [p \in Proc |-> IF p \in Waiters THEN "KBD" ELSE wakeup_flags[p]]
      /\ UNCHANGED <<current, need_resched, exiting, p_rpos, len, got>>
      /\ IF pc[current] = "user" THEN Goto(current, "trap") ELSE UNCHANGED pc
  BY WokenFacts DEF KeyPress
<1>2. Waiters \in SUBSET Proc /\ \A q \in Waiters : state[q] \in {"SLEEPING", "RUNNABLE"}
  BY WaitersInProc, SleeperFacts
<1>3. /\ state' \in [Proc -> ProcState] /\ wait_state' \in [Proc -> WaitState]
      /\ rq' \subseteq Proc /\ RunQueueExact'
      /\ \A q \in Proc : /\ state'[q] = IF q \in Waiters THEN "RUNNABLE" ELSE state[q]
                         /\ wait_state'[q] = IF q \in Waiters THEN "NONE" ELSE wait_state[q]
  BY <1>1, <1>2, WakeFacts
<1>4. /\ pc' \in [Proc -> {"user", "trap", "trap_sched", "read", "read_sched", "read_wait",
                          "exit_sched", "dead", "idle"}]
      /\ \A q \in Proc : pc'[q] = pc[q]
                         \/ (q = current /\ pc[q] = "user" /\ pc'[q] = "trap")
  BY <1>1 DEF Goto, TypeOK
<1>5. Waiters' = {} /\ IsInjective(wait_queue') /\ wait_queue' \in Seq(Proc)
  BY <1>1, EmptyFacts DEF Waiters
<1>6. DataOK'
  BY KeyPressKeepsData
<1>7. TypeOK'
  <2>1. SchedTypeOK'
    BY <1>1, <1>3 DEF TypeOK, SchedTypeOK
  <2>2. /\ p_rpos \in Nat /\ p_wpos \in Nat /\ typed \in Nat /\ MaxTyped \in Nat
        /\ STDIN_BUFSIZE \in Nat \ {0} /\ typed < MaxTyped /\ typed' = typed + 1
        /\ p_rpos <= p_wpos /\ p_wpos - p_rpos <= STDIN_BUFSIZE /\ p_rpos' = p_rpos
        /\ p_wpos' = IF p_wpos - p_rpos < STDIN_BUFSIZE THEN p_wpos + 1 ELSE p_wpos
    BY StdinAssumption DEF KeyPress, Advanced, TypeOK, DataOK
  <2>3. p_rpos' \in 0..p_wpos' /\ p_wpos' - p_rpos' <= STDIN_BUFSIZE
    <3>1. PICK r, w, v, B : r = p_rpos /\ w = p_wpos /\ v = p_wpos' /\ B = STDIN_BUFSIZE
      OBVIOUS
    <3>2. r \in 0..v /\ v - r <= B
      BY <2>2, <3>1
    <3>. QED  BY <2>2, <3>1, <3>2
  <2>4. stdin_buffer' \in [0..STDIN_BUFSIZE - 1 -> 0..MaxTyped]
    <3>1. stdin_buffer' = [stdin_buffer EXCEPT ![Slot(p_wpos)] = typed'] /\ typed' \in 0..MaxTyped
      BY <2>2 DEF KeyPress
    <3>. QED  BY <3>1 DEF TypeOK
  <2>5. wakeup_flags' \in [Proc -> {"INTERRUPTED", "KBD"}]
    BY <1>1 DEF TypeOK
  <2>. QED  BY <1>1, <1>4, <1>5, <2>1, <2>3, <2>4, <2>5 DEF TypeOK
<1>8. NodesLive'
  BY <1>5 DEF NodesLive
<1>9. NobodySleepsOnInput'
  BY <1>3, <1>5 DEF NobodySleepsOnInput
<1>10. ASSUME NEW x \in Proc PROVE PointOK(x)'
  <2>1. x \in Waiters => pc[x] \in {"read_sched", "read_wait"} /\ state[x] \in {"SLEEPING", "RUNNABLE"}
    BY SleeperFacts
  <2>2. state[x] = "SLEEPING" => x \in Waiters
    BY SleeperFacts
  <2>3. pc'[x] = pc[x] \/ (x = current /\ pc[x] = "user" /\ pc'[x] = "trap" /\ x \notin Waiters)
    BY <1>4, <2>1
  <2>4. state'[x] = IF x \in Waiters THEN "RUNNABLE" ELSE state[x]
    BY <1>3
  <2>5. wait_state'[x] = IF x \in Waiters THEN "NONE" ELSE wait_state[x]
    BY <1>3
  <2>. QED  BY <1>1, <1>5, <2>1, <2>2, <2>3, <2>4, <2>5 DEF PointOK
<1>. QED  BY <1>3, <1>6, <1>7, <1>8, <1>9, <1>10

LEMMA KillKeeps ==
  ASSUME StdinIInv, NEW p \in Proc, NEW q \in Proc, Kill(p, q)
  PROVE  StdinIInv'
<1>. DEFINE S == {x \in {q} : wait_state[x] \in Interruptible}
<1>. USE DEF StdinIInv, StdinInv
<1>1. /\ p = current /\ pc[p] = "user" /\ Goto(p, "trap")
      /\ WakeupAll(S) /\ exiting' = exiting \cup {q}
      /\ UNCHANGED <<current, need_resched, stdin_buffer, p_rpos, p_wpos, wait_queue, wakeup_flags,
                     len, got, typed>>
  BY DEF Kill, At, devVars
<1>2. S \in SUBSET Proc /\ \A x \in S : state[x] \in {"SLEEPING", "RUNNABLE"}
  BY DEF Interruptible, PointOK
<1>. HIDE DEF S
<1>3. /\ state' \in [Proc -> ProcState] /\ wait_state' \in [Proc -> WaitState]
      /\ rq' \subseteq Proc /\ RunQueueExact'
      /\ \A x \in Proc : /\ state'[x] = IF x \in S THEN "RUNNABLE" ELSE state[x]
                         /\ wait_state'[x] = IF x \in S THEN "NONE" ELSE wait_state[x]
  BY <1>1, <1>2, WakeFacts
<1>4. /\ pc' \in [Proc -> {"user", "trap", "trap_sched", "read", "read_sched", "read_wait",
                          "exit_sched", "dead", "idle"}]
      /\ \A x \in Proc : pc'[x] = IF x = p THEN "trap" ELSE pc[x]
  BY <1>1 DEF Goto, TypeOK
<1>5. Waiters' = Waiters /\ Waiters \subseteq Proc /\ p \notin Waiters
  BY <1>1, WaitersInProc, SleeperFacts DEF Waiters
<1>6. DataOK'
  BY <1>1 DEF DataOK, Char, Slot
<1>7. TypeOK'
  BY <1>1, <1>3, <1>4 DEF TypeOK, SchedTypeOK
<1>8. NodesLive'
  BY <1>1, <1>4, <1>5 DEF NodesLive
<1>9. NobodySleepsOnInput'
  BY <1>1, <1>3, <1>5 DEF NobodySleepsOnInput
<1>10. ASSUME NEW x \in Proc PROVE PointOK(x)'
  <2>1. x \in S => state[x] \in {"SLEEPING", "RUNNABLE"}
    BY <1>2
  <2>2. state'[x] = IF x \in S THEN "RUNNABLE" ELSE state[x]
    BY <1>3
  <2>3. wait_state'[x] = IF x \in S THEN "NONE" ELSE wait_state[x]
    BY <1>3
  <2>4. p # idle
    BY <1>1 DEF PointOK
  <2>. QED  BY <1>1, <1>4, <1>5, <2>1, <2>2, <2>3, <2>4 DEF PointOK
<1>. QED  BY <1>3, <1>6, <1>7, <1>8, <1>9, <1>10

LEMMA ExitKeeps ==
  ASSUME StdinIInv, NEW p \in Proc, Exit(p)
  PROVE  StdinIInv'
<1>. USE DEF StdinIInv, StdinInv
<1>1. /\ p = current /\ pc[p] \in {"user", "trap"} /\ Goto(p, "exit_sched")
      /\ state' = [state EXCEPT ![p] = "ZOMBIE"]
      /\ UNCHANGED <<wait_state, current, rq, need_resched, exiting, stdin_buffer, p_rpos, p_wpos,
                     wait_queue, wakeup_flags, len, got, typed>>
  BY DEF Exit, At, devVars
<1>2. state[p] = "RUNNABLE" /\ p # idle /\ wait_state[p] # "KBD"
  BY <1>1, RunningFacts DEF PointOK
<1>3. /\ state' \in [Proc -> ProcState]
      /\ \A x \in Proc : state'[x] = IF x = p THEN "ZOMBIE" ELSE state[x]
  BY <1>1 DEF TypeOK, SchedTypeOK, ProcState
<1>4. /\ pc' \in [Proc -> {"user", "trap", "trap_sched", "read", "read_sched", "read_wait",
                          "exit_sched", "dead", "idle"}]
      /\ \A x \in Proc : pc'[x] = IF x = p THEN "exit_sched" ELSE pc[x]
  BY <1>1 DEF Goto, TypeOK
<1>5. Waiters' = Waiters /\ Waiters \subseteq Proc /\ p \notin Waiters
  BY <1>1, WaitersInProc, SleeperFacts DEF Waiters
<1>6. DataOK'
  BY <1>1 DEF DataOK, Char, Slot
<1>7. TypeOK'
  BY <1>1, <1>3, <1>4 DEF TypeOK, SchedTypeOK
<1>8. RunQueueExact'
  BY <1>1, <1>3 DEF RunQueueExact
<1>9. NodesLive'
  BY <1>1, <1>4, <1>5 DEF NodesLive
<1>10. NobodySleepsOnInput'
  BY <1>1, <1>3, <1>5 DEF NobodySleepsOnInput
<1>11. ASSUME NEW x \in Proc PROVE PointOK(x)'
  BY <1>1, <1>2, <1>3, <1>4, <1>5 DEF PointOK
<1>. QED  BY <1>6, <1>7, <1>8, <1>9, <1>10, <1>11

LEMMA SwitchKeeps ==
  ASSUME StdinIInv, NEW p \in Proc, NEW next \in Proc, SwitchTo(p, next)
  PROVE  StdinIInv'
<1>. USE DEF StdinIInv, StdinInv
<1>1. /\ current = p /\ ScheduleTo(next)
      /\ pc[p] \in {"trap_sched", "read_sched", "exit_sched", "idle"}
      /\ pc' = [pc EXCEPT ![p] = AfterSchedule[pc[p]]]
      /\ UNCHANGED <<exiting, stdin_buffer, p_rpos, p_wpos, wait_queue, wakeup_flags, len, got,
                     typed>>
  BY DEF SwitchTo, Goto, devVars
<1>2. /\ rq' = Enqueued \ {next} /\ current' = next
      /\ need_resched' = [need_resched EXCEPT ![current] = FALSE]
      /\ UNCHANGED <<state, wait_state>>
      /\ next = idle \/ next \in Enqueued
  BY <1>1 DEF ScheduleTo
<1>3. Enqueued = {x \in Proc \ {idle} : state[x] = "RUNNABLE"}
  BY DEF RunQueueExact, Enqueued, TypeOK, SchedTypeOK
<1>4. AfterSchedule[pc[p]] = CASE pc[p] = "trap_sched" -> "user"
                               [] pc[p] = "read_sched" -> "read_wait"
                               [] pc[p] = "exit_sched" -> "dead"
                               [] OTHER -> "idle"
  BY <1>1 DEF AfterSchedule
<1>5. /\ pc' \in [Proc -> {"user", "trap", "trap_sched", "read", "read_sched", "read_wait",
                          "exit_sched", "dead", "idle"}]
      /\ \A x \in Proc : pc'[x] = IF x # p THEN pc[x]
                                 ELSE CASE pc[p] = "trap_sched" -> "user"
                                        [] pc[p] = "read_sched" -> "read_wait"
                                        [] pc[p] = "exit_sched" -> "dead"
                                        [] OTHER -> "idle"
  BY <1>1, <1>4 DEF TypeOK
<1>6. Waiters' = Waiters /\ Waiters \subseteq Proc
  BY <1>1, WaitersInProc DEF Waiters
<1>7. DataOK'
  BY <1>1 DEF DataOK, Char, Slot
<1>8. TypeOK'
  <2>1. SchedTypeOK'
    BY <1>2, <1>3 DEF TypeOK, SchedTypeOK
  <2>. QED  BY <1>1, <1>5, <2>1 DEF TypeOK
<1>9. RunQueueExact'
  BY <1>2, <1>3 DEF RunQueueExact
<1>10. NodesLive'
  BY <1>1, <1>5, <1>6 DEF NodesLive
<1>11. NobodySleepsOnInput'
  BY <1>1, <1>2, <1>6 DEF NobodySleepsOnInput
<1>12. next = idle \/ state[next] = "RUNNABLE"
  BY <1>2, <1>3
<1>13. ASSUME NEW x \in Proc PROVE PointOK(x)'
  <2>1. PointOK(x)
    OBVIOUS
  <2>2. state[idle] # "SLEEPING" /\ state[idle] # "ZOMBIE" /\ pc[idle] = "idle"
    BY ProcAssumption, SleeperFacts DEF PointOK
  <2>3. CASE x = p
    BY <1>1, <1>2, <1>5, <1>6, <1>12, <2>1, <2>2, <2>3 DEF PointOK
  <2>4. CASE x # p
    <3>1. pc'[x] = pc[x] /\ pc[x] \in {"user", "read_wait", "dead", "idle"}
      BY <1>1, <1>5, <2>1, <2>4 DEF PointOK
    <3>. QED  BY <1>1, <1>2, <1>6, <1>12, <2>1, <2>2, <3>1 DEF PointOK
  <2>. QED  BY <2>3, <2>4
<1>. QED  BY <1>7, <1>8, <1>9, <1>10, <1>11, <1>13

LEMMA TickKeeps == ASSUME StdinIInv, TimerIRQ PROVE StdinIInv'
<1>1. /\ current \in Proc
      /\ UNCHANGED <<state, wait_state, current, rq, exiting, stdin_buffer, p_rpos, p_wpos,
                     wait_queue, wakeup_flags, len, got, typed>>
  BY DEF TimerIRQ, devVars, StdinIInv, StdinInv, TypeOK, SchedTypeOK
<1>2. need_resched' \in [Proc -> BOOLEAN]
  BY DEF TimerIRQ, ProcTick, StdinIInv, StdinInv, TypeOK, SchedTypeOK
<1>3. DataOK'
  BY <1>1 DEF StdinIInv, DataOK, Char, Slot
<1>4. CASE pc[current] = "user"
  <2>1. Goto(current, "trap")
    BY <1>4 DEF TimerIRQ
  <2>2. PICK q : q = wait_queue
    OBVIOUS
  <2>3. q \in Seq(Proc) /\ IsInjective(q) /\ ToSet(q) = Waiters \ {current}
    BY <1>4, <2>2 DEF StdinIInv, StdinInv, TypeOK, NodesLive, Waiters
  <2>4. p_rpos' \in p_rpos..p_wpos /\ len' \in [Proc -> 0..MaxLen]
    BY <1>1 DEF StdinIInv, StdinInv, TypeOK, DataOK
  <2>. QED  BY <1>1, <1>2, <1>3, <1>4, <2>1, <2>2, <2>3, <2>4, MoveKeeps
<1>5. CASE pc[current] # "user"
  <2>1. UNCHANGED pc
    BY <1>5 DEF TimerIRQ
  <2>2. TypeOK' /\ RunQueueExact' /\ NodesLive' /\ NobodySleepsOnInput'
    BY <1>1, <1>2, <2>1
       DEF StdinIInv, StdinInv, TypeOK, SchedTypeOK, RunQueueExact, NodesLive, Waiters,
           NobodySleepsOnInput
  <2>3. \A x \in Proc : PointOK(x)'
    BY <1>1, <2>1 DEF StdinIInv, PointOK, Waiters
  <2>. QED  BY <1>3, <2>2, <2>3 DEF StdinIInv, StdinInv
<1>. QED  BY <1>4, <1>5

LEMMA NextKeeps == ASSUME StdinIInv, [Next]_vars PROVE StdinIInv'
<1>1. ASSUME NEW p \in Proc, KernelStep(p) PROVE StdinIInv'
  BY <1>1, ReadKeeps, CallKeeps, ExitKeeps, SwitchKeeps DEF KernelStep
<1>2. ASSUME NEW p \in Proc, SystemCall(p) PROVE StdinIInv'
  BY <1>2, CallKeeps, KillKeeps, ExitKeeps DEF SystemCall
<1>3. CASE UNCHANGED vars
  <2>1. DataOK'
    BY <1>3 DEF vars, devVars, StdinIInv, DataOK, Char, Slot
  <2>2. TypeOK' /\ RunQueueExact' /\ NodesLive' /\ NobodySleepsOnInput'
    BY <1>3 DEF vars, schedVars, devVars, StdinIInv, StdinInv, TypeOK, SchedTypeOK, RunQueueExact,
                NodesLive, Waiters, NobodySleepsOnInput
  <2>3. \A x \in Proc : PointOK(x)'
    BY <1>3 DEF vars, schedVars, devVars, StdinIInv, PointOK, Waiters
  <2>. QED  BY <2>1, <2>2, <2>3 DEF StdinIInv, StdinInv
<1>. QED  BY <1>1, <1>2, <1>3, KeyPressKeeps, TickKeeps DEF Next

THEOREM StdinInvariance == Spec => []StdinIInv
  BY InitHolds, NextKeeps, PTL DEF Spec

(* The keyboard device agrees with the scheduler: nobody sleeps in the queue while there
   is something to read, no wait node outlives the call whose stack it is on, and the run
   queue holds just the threads that can run. *)
THEOREM DeviceIsSound == Spec => []StdinInv
<1>1. StdinIInv => StdinInv
  BY DEF StdinIInv
<1>. QED  BY <1>1, StdinInvariance, PTL

\* The characters read and those in the ring, one behind the other.
LEMMA InputIs ==
  ASSUME TypeOK, DataOK
  PROVE  /\ DOMAIN (got \o Unread) = 1..p_wpos
         /\ got \o Unread = [i \in 1..p_wpos |-> Char(i)]
<1>1. PICK g, u, N, n : g = got /\ u = Unread /\ N = Nat /\ n = p_wpos - p_rpos
  OBVIOUS
<1>2. /\ p_rpos \in Nat /\ p_wpos \in Nat /\ n \in Nat /\ p_wpos = p_rpos + n
      /\ g \in Seq(N) /\ Len(g) = p_rpos
  BY <1>1 DEF TypeOK, DataOK
<1>3. u = [i \in 1..n |-> stdin_buffer[Slot(p_rpos + i - 1)]]
  BY <1>1 DEF Unread
<1>4. ASSUME NEW i \in 1..n PROVE u[i] \in N
  <2>1. p_rpos + i - 1 \in Nat
    BY <1>2
  <2>2. Slot(p_rpos + i - 1) \in 0..STDIN_BUFSIZE - 1
    BY <2>1, SlotFacts
  <2>3. u[i] \in 0..MaxTyped
    BY <1>3, <2>2 DEF TypeOK
  <2>. QED  BY <1>1, <2>3, StdinAssumption
<1>5. u \in Seq(N) /\ Len(u) = n
  BY <1>2, <1>3, <1>4
<1>6. PICK s : s = g \o u
  OBVIOUS
<1>7. /\ s \in Seq(N) /\ Len(s) = p_rpos + n
      /\ \A i \in 1..p_rpos : s[i] = g[i]
      /\ \A i \in 1..n : s[p_rpos + i] = u[i]
  <2>1. /\ s \in Seq(N) /\ Len(s) = Len(g) + Len(u)
        /\ \A i \in 1..Len(g) : s[i] = g[i]
        /\ \A i \in 1..Len(u) : s[Len(g) + i] = u[i]
    <3>1. g \in Seq(N) /\ u \in Seq(N)
      BY <1>2, <1>5
    <3>. QED  BY <1>6, <3>1
  <2>. QED  BY <1>2, <1>5, <2>1
<1>8. DOMAIN s = 1..p_wpos /\ s = [i \in 1..p_wpos |-> s[i]]
  BY <1>2, <1>7
<1>9. ASSUME NEW i \in 1..p_wpos PROVE s[i] = Char(i)
  <2>1. CASE i <= p_rpos
    <3>1. i \in 1..p_rpos
      BY <1>2, <2>1
    <3>. QED  BY <1>1, <1>7, <2>1, <3>1 DEF Char
  <2>2. CASE ~(i <= p_rpos)
    <3>1. PICK j \in 1..n : i = p_rpos + j
      <4>1. i - p_rpos \in 1..n /\ i = p_rpos + (i - p_rpos)
        BY <1>2, <2>2
      <4>. QED  BY <4>1
    <3>2. p_rpos + j - 1 = i - 1
      BY <1>2, <3>1
    <3>3. s[i] = stdin_buffer[Slot(p_rpos + j - 1)]
      BY <1>3, <1>7, <3>1
    <3>. QED  BY <2>2, <3>2, <3>3 DEF Char
  <2>. QED  BY <2>1, <2>2
<1>. QED  BY <1>1, <1>6, <1>8, <1>9

(* Whatever the ring overwrites, no character is read twice or read and still unread; and
   if it never was full, the readers get what was typed, in order. *)
THEOREM InputIsExact == Spec => []InputExact
<1>1. StdinIInv => InputExact
  <2>. SUFFICES ASSUME StdinIInv PROVE InputExact
    OBVIOUS
  <2>1. DOMAIN (got \o Unread) = 1..p_wpos /\ got \o Unread = [i \in 1..p_wpos |-> Char(i)]
    BY InputIs DEF StdinIInv, StdinInv
  <2>2. PICK s : s = got \o Unread
    OBVIOUS
  <2>3. DOMAIN s = 1..p_wpos /\ \A i \in 1..p_wpos : s[i] = Char(i)
    BY <2>1, <2>2
  <2>4. IsInjective(s)
    BY <2>3 DEF IsInjective, StdinIInv, DataOK
  <2>5. ASSUME p_wpos = typed PROVE s = [i \in 1..typed |-> i]
    BY <2>1, <2>2, <2>5 DEF StdinIInv, DataOK
  <2>. QED  BY <2>2, <2>4, <2>5 DEF InputExact
<1>. QED  BY <1>1, StdinInvariance, PTL
=============================================================================
