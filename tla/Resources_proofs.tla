-------------------------- MODULE Resources_proofs --------------------------
(***************************************************************************)
(* Proofs about the two parts of the kernel that share out a resource and  *)
(* call no other part: the stride scheduling class and the memory          *)
(* allocators.  The two are models of their own; no theorem relates them.  *)
(*                                                                         *)
(* StrideSched, for any number of threads, any word size and any           *)
(* priorities: the strides of a fixed set of runnable threads stay within  *)
(* BIG_STRIDE of each other, so the comparison of wrapped words is exact   *)
(* and the least thread is picked.                                         *)
(*                                                                         *)
(* FirstFit and KernelHeap, for any memory, any page size and any sizes    *)
(* that are asked for: the heap and its page allocator neither lose nor    *)
(* overlap a unit or a page, and under the heap the page allocator keeps   *)
(* the promise of PageAllocator.                                           *)
(***************************************************************************)
EXTENDS StrideSched, KernelHeap, QueueLemmas

-----------------------------------------------------------------------------
(* The stride scheduling class. *)

\* The word a stride is stored in is its true value modulo the word size.
Congruent(p) ==
  \E k \in Nat : total[p] = lab6_stride[p] + k * (2 * BIG_STRIDE + 2)

\* The strengthening that makes SpreadBounded inductive.
ClosedInv ==
  /\ TypeOK
  /\ Threads = Proc
  /\ SpreadBounded
  /\ \A p \in Proc : Congruent(p)

-----------------------------------------------------------------------------
\* A turn costs at most BIG_STRIDE.
LEMMA DivBound ==
  ASSUME NEW b \in Nat, NEW n \in Nat \ {0}
  PROVE  b \div n \in 0..b
<1> DEFINE d == b \div n
<1>1. d \in Int /\ n * d <= b /\ b < n * d + n  BY SMT
<1>2. d >= 0
  <2> SUFFICES ASSUME d <= -1 PROVE FALSE  BY <1>1
  <2>1. n * d <= -n  BY <1>1
  <2> QED  BY <1>1, <2>1
<1>3. d <= b
  <2> SUFFICES ASSUME d >= b + 1 PROVE FALSE  BY <1>1
  <2>1. n * d >= d  BY <1>1
  <2> QED  BY <1>1, <2>1
<1> QED  BY <1>1, <1>2, <1>3

LEMMA PassBound ==
  ASSUME TypeOK, NEW p \in Proc
  PROVE  Pass(p) \in 0..BIG_STRIDE
<1>1. lab6_priority[p] \in Nat  BY StrideAssumption DEF TypeOK
<1>2. CASE lab6_priority[p] = 0  BY <1>2, StrideAssumption DEF Pass
<1>3. CASE lab6_priority[p] # 0
  <2>1. BIG_STRIDE \div lab6_priority[p] \in 0..BIG_STRIDE
    BY <1>1, <1>3, DivBound, StrideAssumption
  <2> QED  BY <2>1, <1>3 DEF Pass
<1> QED  BY <1>2, <1>3

\* Adding a pass keeps a word a word and congruent to the sum.
LEMMA PlusWord ==
  ASSUME NEW a \in Word, NEW b \in 0..BIG_STRIDE
  PROVE  /\ Plus(a, b) \in Word
         /\ Plus(a, b) = a + b \/ Plus(a, b) + (2 * BIG_STRIDE + 2) = a + b
BY StrideAssumption DEF Word, Plus

\* Two words at most b apart in truth: the sign of their difference orders them.
LEMMA SignOrders ==
  ASSUME NEW b \in Nat \ {0}, NEW m \in Nat, m = 2 * b + 2,
         NEW s \in 0..m - 1, NEW t \in 0..m - 1, NEW k \in Nat, NEW l \in Nat,
         (s + k * m) - (t + l * m) <= b,
         (t + l * m) - (s + k * m) <= b
  PROVE  ((IF s - t < 0 THEN s - t + m ELSE s - t) > b) <=> (s + k * m < t + l * m)
<1> DEFINE d == k - l
<1>1. d \in Int /\ k * m - l * m = d * m  OBVIOUS
<1>2. k * m \in Int /\ l * m \in Int /\ d * m \in Int  OBVIOUS
<1>3. d * m < 2 * m /\ d * m > -(2 * m)  BY <1>1, <1>2
<1>4. d \in {-1, 0, 1}
  <2>1. ASSUME d >= 2 PROVE FALSE
    <3>1. d * m >= 2 * m  BY <2>1, <1>1
    <3> QED  BY <3>1, <1>2, <1>3
  <2>2. ASSUME d <= -2 PROVE FALSE
    <3>1. d * m <= -(2 * m)  BY <2>2, <1>1
    <3> QED  BY <3>1, <1>2, <1>3
  <2> QED  BY <2>1, <2>2, <1>1
<1>5. d * m \in {-m, 0, m}  BY <1>4
<1> DEFINE x == k * m
<1> DEFINE y == l * m
<1>6. x \in Int /\ y \in Int /\ x - y \in {-m, 0, m}  BY <1>1, <1>2, <1>5
<1>7. (s + x) - (t + y) <= b /\ (t + y) - (s + x) <= b  OBVIOUS
<1> HIDE DEF x, y
<1>8. ((IF s - t < 0 THEN s - t + m ELSE s - t) > b) <=> (s + x < t + y)
  <2>1. CASE x - y = -m  BY <2>1, <1>6, <1>7
  <2>2. CASE x - y = 0  BY <2>2, <1>6, <1>7
  <2>3. CASE x - y = m  BY <2>3, <1>6, <1>7
  <2> QED  BY <2>1, <2>2, <2>3, <1>6
<1> QED  BY <1>8 DEF x, y

-----------------------------------------------------------------------------
\* Where strides are close, the comparator is the order of the true strides.
LEMMA LessExact ==
  ASSUME TypeOK, NEW p \in Proc, NEW q \in Proc, Congruent(p), Congruent(q),
         total[p] - total[q] <= BIG_STRIDE, total[q] - total[p] <= BIG_STRIDE
  PROVE  Less(p, q) <=> total[p] < total[q]
<1> DEFINE m == 2 * BIG_STRIDE + 2
<1>1. PICK k \in Nat : total[p] = lab6_stride[p] + k * m  BY DEF Congruent
<1>2. PICK l \in Nat : total[q] = lab6_stride[q] + l * m  BY DEF Congruent
<1>3. m \in Nat /\ lab6_stride[p] \in 0..m - 1 /\ lab6_stride[q] \in 0..m - 1
  BY StrideAssumption DEF TypeOK, Word
<1>4. Less(p, q) <=>
        (IF lab6_stride[p] - lab6_stride[q] < 0 THEN lab6_stride[p] - lab6_stride[q] + m
         ELSE lab6_stride[p] - lab6_stride[q]) > BIG_STRIDE
  <2>1. lab6_stride[p] \in Int /\ lab6_stride[q] \in Int /\ BIG_STRIDE \in Int
    BY <1>3, StrideAssumption
  <2> QED  BY <2>1 DEF Less
<1>5. BIG_STRIDE \in Nat \ {0}  BY StrideAssumption
<1> HIDE DEF m
<1>6. m = 2 * BIG_STRIDE + 2  BY DEF m
<1>7. /\ (lab6_stride[p] + k * m) - (lab6_stride[q] + l * m) <= BIG_STRIDE
      /\ (lab6_stride[q] + l * m) - (lab6_stride[p] + k * m) <= BIG_STRIDE
  BY <1>1, <1>2
<1>8. ((IF lab6_stride[p] - lab6_stride[q] < 0 THEN lab6_stride[p] - lab6_stride[q] + m
        ELSE lab6_stride[p] - lab6_stride[q]) > BIG_STRIDE)
      <=> (lab6_stride[p] + k * m < lab6_stride[q] + l * m)
  BY ZenonT(60), <1>3, <1>5, <1>6, <1>7, SignOrders
<1> QED  BY <1>1, <1>2, <1>4, <1>8

\* Any set of ready threads has its least ones at the root.
LEMMA RootsLeast ==
  ASSUME ClosedInv, NEW S, S \subseteq Proc
  PROVE  Roots(S) = {p \in S : \A q \in S : total[p] <= total[q]}
<1>1. \A p, q \in Proc : Less(p, q) <=> total[p] < total[q]
  <2> TAKE p \in Proc, q \in Proc
  <2> QED  BY LessExact DEF ClosedInv, SpreadBounded
<1>2. \A p \in Proc : total[p] \in Int  BY DEF ClosedInv, TypeOK
<1>3. \A p, q \in Proc : LessEq(p, q) <=> total[p] <= total[q]
  BY <1>1, <1>2 DEF LessEq
<1>4. Ordered(S)  BY <1>2, <1>3 DEF Ordered
<1> QED  BY <1>3, <1>4 DEF Roots

\* What PickFrom does to the strides when everybody is ready.
LEMMA PickKeepsClose ==
  ASSUME ClosedInv, PickFrom(Proc), UNCHANGED <<asleep, lab6_priority>>,
         time_slice' \in [Proc -> 0..MAX_TIME_SLICE]
  PROVE  ClosedInv'
<1> DEFINE m == 2 * BIG_STRIDE + 2
<1>1. CASE Proc = {} /\ current' = idle /\ pool' = {} /\ UNCHANGED <<lab6_stride, total>>
  BY <1>1 DEF ClosedInv, TypeOK, SpreadBounded, Threads, PickFrom, Congruent
<1>2. ASSUME NEW next \in Roots(Proc),
             current' = next, pool' = Proc \ {next},
             lab6_stride' = [lab6_stride EXCEPT ![next] = Plus(@, Pass(next))],
             total' = [total EXCEPT ![next] = @ + Pass(next)],
             need_resched' = FALSE
      PROVE ClosedInv'
  <2>1. next \in Proc /\ \A q \in Proc : total[next] <= total[q]
    BY <1>2, RootsLeast
  <2>2. Pass(next) \in 0..BIG_STRIDE  BY <2>1, PassBound DEF ClosedInv
  <2>3. lab6_stride[next] \in Word /\ total[next] \in Nat
    BY <2>1 DEF ClosedInv, TypeOK
  <2>4. /\ Plus(lab6_stride[next], Pass(next)) \in Word
        /\ \/ Plus(lab6_stride[next], Pass(next)) = lab6_stride[next] + Pass(next)
           \/ Plus(lab6_stride[next], Pass(next)) + m = lab6_stride[next] + Pass(next)
    BY <2>2, <2>3, PlusWord
  <2>5. TypeOK'
    <3>1. total' \in [Proc -> Nat]
      <4>1. total[next] + Pass(next) \in Nat  BY <2>2, <2>3, StrideAssumption
      <4> QED  BY <1>2, <4>1 DEF ClosedInv, TypeOK
    <3>2. lab6_stride' \in [Proc -> Word]  BY <1>2, <2>4 DEF ClosedInv, TypeOK
    <3>3. asleep' \subseteq Proc \ Threads'
      BY <1>2, <2>1, StrideAssumption DEF ClosedInv, TypeOK, Threads
    <3> QED  BY <1>2, <2>1, <3>1, <3>2, <3>3 DEF ClosedInv, TypeOK
  <2>6. Threads' = Proc
    BY <1>2, <2>1, StrideAssumption DEF Threads
  <2>7. ASSUME NEW p \in Proc, NEW q \in Proc PROVE total'[p] - total'[q] <= BIG_STRIDE
    <3>1. total[p] \in Nat /\ total[q] \in Nat /\ Pass(next) \in Nat /\ BIG_STRIDE \in Nat
      BY <2>2, StrideAssumption DEF ClosedInv, TypeOK
    <3>2. total[p] - total[q] <= BIG_STRIDE  BY DEF ClosedInv, SpreadBounded
    <3>3. total'[p] = IF p = next THEN total[p] + Pass(next) ELSE total[p]
      BY <1>2 DEF ClosedInv, TypeOK
    <3>4. total'[q] = IF q = next THEN total[q] + Pass(next) ELSE total[q]
      BY <1>2 DEF ClosedInv, TypeOK
    <3>5. CASE p = next
      <4>1. total[p] <= total[q]  BY <2>1, <3>5
      <4> QED  BY <2>2, <3>1, <3>3, <3>4, <4>1
    <3>6. CASE p # next  BY <2>2, <3>1, <3>2, <3>3, <3>4, <3>6
    <3> QED  BY <3>5, <3>6
  <2>8. ASSUME NEW p \in Proc PROVE Congruent(p)'
    <3>1. PICK k \in Nat : total[p] = lab6_stride[p] + k * m
      BY DEF ClosedInv, Congruent
    <3>2. CASE p # next
      BY <1>2, <3>1, <3>2 DEF ClosedInv, TypeOK, Congruent
    <3>3. CASE p = next
      <4>1. total'[p] = total[p] + Pass(next)  BY <1>2, <3>3 DEF ClosedInv, TypeOK
      <4>2. lab6_stride'[p] = Plus(lab6_stride[p], Pass(next))
        BY <1>2, <3>3 DEF ClosedInv, TypeOK
      <4>3. lab6_stride'[p] \in Nat /\ lab6_stride[p] \in Nat /\ m \in Nat /\ Pass(next) \in Nat
        BY <2>2, <2>3, <2>4, <3>3, <4>2, StrideAssumption DEF Word
      <4>4. (k + 1) * m = k * m + m /\ k * m \in Nat  BY <4>3
      <4>5. total'[p] = lab6_stride'[p] + k * m \/ total'[p] = lab6_stride'[p] + (k + 1) * m
        <5> DEFINE z == k * m
        <5>1. z \in Nat /\ (k + 1) * m = z + m /\ total[p] = lab6_stride[p] + z
          BY <4>4, <3>1
        <5> HIDE DEF z
        <5>2. \/ lab6_stride'[p] = lab6_stride[p] + Pass(next)
              \/ lab6_stride'[p] + m = lab6_stride[p] + Pass(next)
          BY <2>4, <3>3, <4>2
        <5> HIDE DEF m
        <5>3. total'[p] = lab6_stride'[p] + z \/ total'[p] = lab6_stride'[p] + (z + m)
          BY <4>1, <4>3, <5>1, <5>2
        <5> QED  BY <5>1, <5>3 DEF z
      <4> QED  BY <4>5 DEF Congruent
    <3> QED  BY <3>2, <3>3
  <2> QED  BY <2>5, <2>6, <2>7, <2>8 DEF ClosedInv, SpreadBounded
<1> QED  BY <1>1, <1>2 DEF PickFrom

LEMMA RefilledType ==
  ASSUME TypeOK, NEW p \in Proc
  PROVE  Refilled(p) \in [Proc -> 0..MAX_TIME_SLICE]
BY StrideAssumption DEF Refilled, TypeOK

LEMMA TickType ==
  ASSUME TypeOK, Tick
  PROVE  TypeOK'
<1>1. CASE current = idle  BY <1>1 DEF Tick, TypeOK, Threads
<1>2. CASE current # idle
  <2> DEFINE left == IF time_slice[current] > 0 THEN time_slice[current] - 1 ELSE 0
  <2>1. current \in Proc /\ time_slice[current] \in 0..MAX_TIME_SLICE
    BY <1>2 DEF TypeOK
  <2>2. left \in 0..MAX_TIME_SLICE  BY <2>1, StrideAssumption
  <2>3. time_slice' = [time_slice EXCEPT ![current] = left]
        /\ need_resched' = (need_resched \/ left = 0)
    BY <1>2 DEF Tick
  <2> HIDE DEF left
  <2>4. time_slice' \in [Proc -> 0..MAX_TIME_SLICE]  BY <2>2, <2>3 DEF TypeOK
  <2>5. need_resched' \in BOOLEAN  BY <2>3 DEF TypeOK
  <2> QED  BY <2>4, <2>5 DEF Tick, TypeOK, Threads
<1> QED  BY <1>1, <1>2

LEMMA PriorityType ==
  ASSUME TypeOK, NEW n \in Priority, SetPriority(n)
  PROVE  TypeOK'
BY StrideAssumption DEF TypeOK, SetPriority, Threads

\* The inductive step.
LEMMA ClosedStep ==
  ASSUME ClosedInv, [Turn]_vars
  PROVE  ClosedInv'
<1>1. CASE Tick
  BY <1>1, TickType DEF ClosedInv, Tick, Threads, SpreadBounded, Congruent
<1>2. CASE Yield
  BY <1>2 DEF ClosedInv, Yield, TypeOK, Threads, SpreadBounded, Congruent
<1>3. CASE Preempt
  <2>1. CASE current = idle
    <3>1. pool = Proc  BY <2>1 DEF ClosedInv, Threads
    <3> QED  BY <1>3, <2>1, <3>1, PickKeepsClose DEF Preempt, ClosedInv, TypeOK
  <2>2. CASE current # idle
    <3>1. current \in Proc /\ pool \cup {current} = Proc
      BY <2>2 DEF ClosedInv, Threads, TypeOK
    <3>2. time_slice' \in [Proc -> 0..MAX_TIME_SLICE]
      BY <1>3, <2>2, <3>1, RefilledType DEF Preempt, ClosedInv
    <3> QED  BY <1>3, <2>2, <3>1, <3>2, PickKeepsClose DEF Preempt
  <2> QED  BY <2>1, <2>2
<1>4. ASSUME NEW n \in Priority, SetPriority(n) PROVE ClosedInv'
  BY <1>4, PriorityType DEF ClosedInv, SetPriority, Threads, SpreadBounded, Congruent
<1>5. CASE UNCHANGED vars
  BY <1>5 DEF ClosedInv, vars, TypeOK, Threads, SpreadBounded, Congruent
<1> QED  BY <1>1, <1>2, <1>3, <1>4, <1>5 DEF Turn

LEMMA ClosedStart == ClosedInit => ClosedInv
<1> SUFFICES ASSUME ClosedInit PROVE ClosedInv  OBVIOUS
<1>1. TypeOK
  <2>1. total \in [Proc -> Nat] /\ lab6_stride \in [Proc -> Word]
    BY StrideAssumption DEF ClosedInit, Word
  <2> QED  BY <2>1, StrideAssumption DEF ClosedInit, TypeOK, Threads
<1>2. Threads = Proc  BY StrideAssumption DEF ClosedInit, Threads
<1>3. SpreadBounded
  <2>1. \A p \in Proc : total[p] \in 0..BIG_STRIDE  BY DEF ClosedInit
  <2> QED  BY <1>2, <2>1, StrideAssumption DEF SpreadBounded
<1>4. ASSUME NEW p \in Proc PROVE Congruent(p)
  <2>1. total[p] \in Nat /\ total[p] = lab6_stride[p]
    BY StrideAssumption DEF ClosedInit
  <2>2. total[p] = lab6_stride[p] + 0 * (2 * BIG_STRIDE + 2)
    BY <2>1, StrideAssumption
  <2> QED  BY <2>2 DEF Congruent
<1> QED  BY <1>1, <1>2, <1>3, <1>4 DEF ClosedInv

\* For a fixed set of threads: strides stay close, words stay congruent to them.
THEOREM ClosedInvariance == ClosedSpec => []ClosedInv
BY ClosedStart, ClosedStep, PTL DEF ClosedSpec

-----------------------------------------------------------------------------
\* The claim behind the choice of BIG_STRIDE: among threads that keep running, no
\* stride of default_sched_stride.c is ever more than BIG_STRIDE ahead of another.
THEOREM StridesStayClose == ClosedSpec => []SpreadBounded
<1>1. ClosedInv => SpreadBounded  BY DEF ClosedInv
<1> QED  BY <1>1, ClosedInvariance, PTL

\* So proc_stride_comp_f, on words that wrap around, orders the true strides.
THEOREM ComparisonIsExact == ClosedSpec => []ComparatorExact
<1>1. ClosedInv => ComparatorExact
  BY LessExact DEF ClosedInv, SpreadBounded, ComparatorExact
<1> QED  BY <1>1, ClosedInvariance, PTL

\* And stride_pick_next gives the CPU to a thread with the least true stride.
THEOREM LeastIsPicked == ClosedSpec => PicksLeast
<1> DEFINE Least == \A p \in Threads' : (total'[p] # total[p] /\ p = current') =>
                      \A q \in pool' : total[p] <= total[q]
<1>1. ClosedInv /\ [Turn]_vars => [Least]_vars
  <2> SUFFICES ASSUME ClosedInv, Turn, NEW p \in Threads', total'[p] # total[p],
                      p = current', NEW q \in pool'
               PROVE  total[p] <= total[q]
    BY DEF vars
  <2>1. Preempt  BY DEF Turn, Tick, Yield, SetPriority
  <2>2. PickFrom(Proc)
    <3>1. CASE current = idle  BY <2>1, <3>1 DEF Preempt, ClosedInv, Threads
    <3>2. CASE current # idle
      <4>1. pool \cup {current} = Proc  BY <3>2 DEF ClosedInv, Threads
      <4> QED  BY <2>1, <3>2, <4>1 DEF Preempt
    <3> QED  BY <3>1, <3>2
  <2>3. PICK next \in Roots(Proc) : current' = next /\ pool' = Proc \ {next}
    BY <2>2 DEF PickFrom
  <2> QED  BY <2>3, RootsLeast
<1> QED  BY <1>1, ClosedInvariance, PTL DEF ClosedSpec, PicksLeast

-----------------------------------------------------------------------------
\* With forks, sleeps and exits: what sits in the pool has some of its slice left.
OpenInv ==
  /\ TypeOK
  /\ SliceLeft
  /\ \A p \in pool : time_slice[p] > 0

LEMMA RefilledLeft ==
  ASSUME TypeOK, NEW p \in Proc
  PROVE  /\ Refilled(p) \in [Proc -> 0..MAX_TIME_SLICE]
         /\ Refilled(p)[p] > 0
         /\ \A q \in Proc \ {p} : Refilled(p)[q] = time_slice[q]
<1>1. time_slice[p] \in 0..MAX_TIME_SLICE /\ MAX_TIME_SLICE \in Nat \ {0}
  BY StrideAssumption DEF TypeOK
<1> QED  BY <1>1, RefilledType DEF Refilled, TypeOK

\* PickFrom takes a thread with slice left, or idle, from the pool it is given.
LEMMA PickKeepsSlices ==
  ASSUME TypeOK, NEW ready, ready \subseteq Proc, PickFrom(ready),
         lab6_priority' = lab6_priority,
         time_slice' \in [Proc -> 0..MAX_TIME_SLICE],
         \A p \in ready : time_slice'[p] > 0,
         asleep' \subseteq Proc \ ready
  PROVE  OpenInv'
<1>1. CASE ready = {} /\ current' = idle /\ pool' = {} /\ UNCHANGED <<lab6_stride, total>>
  BY <1>1, StrideAssumption DEF TypeOK, OpenInv, SliceLeft, Threads, PickFrom
<1>2. ASSUME NEW next \in Roots(ready),
             current' = next, pool' = ready \ {next},
             lab6_stride' = [lab6_stride EXCEPT ![next] = Plus(@, Pass(next))],
             total' = [total EXCEPT ![next] = @ + Pass(next)]
      PROVE OpenInv'
  <2>1. next \in ready /\ next \in Proc  BY DEF Roots
  <2>2. Pass(next) \in 0..BIG_STRIDE  BY <2>1, PassBound
  <2>3. lab6_stride[next] \in Word /\ total[next] \in Nat  BY <2>1 DEF TypeOK
  <2>4. total[next] + Pass(next) \in Nat  BY <2>2, <2>3, StrideAssumption
  <2>5. Plus(lab6_stride[next], Pass(next)) \in Word  BY <2>2, <2>3, PlusWord
  <2>6. total' \in [Proc -> Nat]  BY <1>2, <2>4 DEF TypeOK
  <2>7. lab6_stride' \in [Proc -> Word]  BY <1>2, <2>5 DEF TypeOK
  <2>8. asleep' \subseteq Proc \ Threads'
    BY <1>2, <2>1 DEF Threads
  <2>9. need_resched' \in BOOLEAN  BY DEF PickFrom
  <2> QED  BY <1>2, <2>1, <2>6, <2>7, <2>8, <2>9 DEF TypeOK, OpenInv, SliceLeft
<1> QED  BY <1>1, <1>2 DEF PickFrom

LEMMA OpenStep ==
  ASSUME OpenInv, [Next]_vars
  PROVE  OpenInv'
<1> USE DEF OpenInv
<1>1. CASE Tick
  <2>1. TypeOK'  BY <1>1, TickType
  <2>2. current \notin pool /\ pool \subseteq Proc /\ time_slice \in [Proc -> 0..MAX_TIME_SLICE]
    BY DEF TypeOK
  <2>3. \A p \in pool : time_slice'[p] = time_slice[p]  BY <1>1, <2>2 DEF Tick
  <2>4. SliceLeft'
    <3>1. CASE current = idle  BY <1>1, <3>1 DEF Tick, SliceLeft
    <3>2. CASE current # idle
      <4>1. current \in Proc /\ time_slice[current] \in 0..MAX_TIME_SLICE
        BY <3>2 DEF TypeOK
      <4>2. time_slice'[current] \in Nat
            /\ (need_resched' <=> (need_resched \/ time_slice'[current] = 0))
        <5> DEFINE left == IF time_slice[current] > 0 THEN time_slice[current] - 1 ELSE 0
        <5>1. left \in Nat  BY <4>1, StrideAssumption
        <5>2. time_slice' = [time_slice EXCEPT ![current] = left]
              /\ need_resched' = (need_resched \/ left = 0)
          BY <1>1, <3>2 DEF Tick
        <5> HIDE DEF left
        <5>3. time_slice'[current] = left  BY <2>2, <4>1, <5>2
        <5> QED  BY <5>1, <5>2, <5>3
      <4> QED  BY <1>1, <4>2 DEF Tick, SliceLeft
    <3> QED  BY <3>1, <3>2
  <2> QED  BY <1>1, <2>1, <2>3, <2>4 DEF Tick
<1>2. CASE Yield  BY <1>2 DEF Yield, TypeOK, Threads, SliceLeft
<1>3. CASE Preempt
  <2>1. CASE current = idle
    <3>1. PickFrom(pool) /\ UNCHANGED <<time_slice, asleep, lab6_priority>>
      BY <1>3, <2>1 DEF Preempt
    <3> QED  BY <3>1, PickKeepsSlices DEF TypeOK, Threads
  <2>2. CASE current # idle
    <3>1. current \in Proc /\ PickFrom(pool \cup {current})
          /\ time_slice' = Refilled(current) /\ UNCHANGED <<asleep, lab6_priority>>
      BY <1>3, <2>2 DEF Preempt, TypeOK
    <3>2. time_slice' \in [Proc -> 0..MAX_TIME_SLICE]
          /\ \A p \in pool \cup {current} : time_slice'[p] > 0
      BY <3>1, RefilledLeft DEF TypeOK
    <3>3. pool \cup {current} \subseteq Proc /\ asleep' \subseteq Proc \ (pool \cup {current})
      BY <2>2, <3>1 DEF TypeOK, Threads
    <3> QED  BY <3>1, <3>2, <3>3, PickKeepsSlices
  <2> QED  BY <2>1, <2>2
<1>4. ASSUME NEW n \in Priority, SetPriority(n) PROVE OpenInv'
  BY <1>4, PriorityType DEF SetPriority, SliceLeft
<1>5. CASE Block
  <2>1. current \in Proc \ pool /\ pool \subseteq Proc  BY <1>5 DEF Block, TypeOK
  <2>2. asleep' \subseteq Proc \ pool  BY <1>5, <2>1 DEF Block, TypeOK, Threads
  <2> QED  BY <1>5, <2>1, <2>2, PickKeepsSlices DEF Block, TypeOK
<1>6. CASE Exit
  <2>1. asleep' \subseteq Proc \ pool /\ pool \subseteq Proc
    BY <1>6 DEF Exit, TypeOK, Threads
  <2> QED  BY <1>6, <2>1, PickKeepsSlices DEF Exit, TypeOK
<1>7. ASSUME NEW p \in Proc, Wake(p) PROVE OpenInv'
  <2>1. p # current /\ p \notin pool /\ current \in Proc \cup {idle}
    BY <1>7, StrideAssumption DEF Wake, TypeOK, Threads
  <2>2. time_slice' \in [Proc -> 0..MAX_TIME_SLICE] /\ time_slice'[p] > 0
        /\ \A q \in Proc \ {p} : time_slice'[q] = time_slice[q]
    BY <1>7, RefilledLeft DEF Wake
  <2>3. TypeOK'  BY <1>7, <2>1, <2>2 DEF Wake, TypeOK, Threads
  <2>4. SliceLeft'  BY <1>7, <2>1, <2>2 DEF Wake, SliceLeft
  <2>5. \A q \in pool' : time_slice'[q] > 0
    BY <1>7, <2>1, <2>2 DEF Wake, TypeOK
  <2> QED  BY <2>3, <2>4, <2>5
<1>8. ASSUME NEW p \in Proc, Fork(p) PROVE OpenInv'
  <2>1. p # current /\ p \notin pool /\ p \notin asleep /\ current \in Proc
    BY <1>8 DEF Fork, TypeOK, Threads
  <2>2. 0 \in Word /\ 0 \in Priority /\ MAX_TIME_SLICE \in Nat \ {0}
    BY StrideAssumption DEF Word
  <2>3. TypeOK'
    <3>1. lab6_stride' \in [Proc -> Word] /\ total' \in [Proc -> Nat]
      BY <1>8, <2>2 DEF Fork, TypeOK
    <3>2. lab6_priority' \in [Proc -> Priority]
          /\ time_slice' \in [Proc -> 0..MAX_TIME_SLICE]
      BY <1>8, <2>2 DEF Fork, TypeOK
    <3>3. pool' \subseteq Proc \ {current'} /\ asleep' \subseteq Proc \ Threads'
      BY <1>8, <2>1 DEF Fork, TypeOK, Threads
    <3> QED  BY <1>8, <3>1, <3>2, <3>3 DEF Fork, TypeOK
  <2>4. SliceLeft'  BY <1>8, <2>1 DEF Fork, SliceLeft, TypeOK
  <2>5. \A q \in pool' : time_slice'[q] > 0
    BY <1>8, <2>1, <2>2 DEF Fork, TypeOK
  <2> QED  BY <2>3, <2>4, <2>5
<1>9. CASE UNCHANGED vars  BY <1>9 DEF vars, TypeOK, Threads, SliceLeft
<1> QED  BY <1>1, <1>2, <1>3, <1>4, <1>5, <1>6, <1>7, <1>8, <1>9 DEF Next, Turn

\* The scheduling fields keep their types and the pool never holds the running or
\* a sleeping thread, for any number of threads that come and go.
THEOREM TypeCorrect == Spec => []TypeOK
<1>1. Init => OpenInv
  BY StrideAssumption DEF Init, OpenInv, TypeOK, Threads, SliceLeft, Word
<1>2. OpenInv => TypeOK  BY DEF OpenInv
<1> QED  BY <1>1, <1>2, OpenStep, PTL DEF Spec

\* No thread runs on without being asked to stop once its slice is used up.
THEOREM SlicesAreBounded == Spec => []SliceLeft
<1>1. Init => OpenInv
  BY StrideAssumption DEF Init, OpenInv, TypeOK, Threads, SliceLeft, Word
<1>2. OpenInv => SliceLeft  BY DEF OpenInv
<1> QED  BY <1>1, <1>2, OpenStep, PTL DEF Spec

-----------------------------------------------------------------------------
(* The first-fit allocator: its list of free blocks. *)

\* The regions one by one: they lie apart, and their pages are all there are.
LEMMA PagesAreNumbers ==
  /\ Pages \subseteq Nat /\ IsFiniteSet(Pages)
  /\ \A i \in 1..Len(Regions) :
       /\ Regions[i][1] \in Nat /\ Regions[i][2] \in Nat \ {0} /\ Regions[i] \in ToSet(Regions)
       /\ Regions[i] = <<Regions[i][1], Regions[i][2]>>
       /\ Regions[i][1]..Regions[i][1] + Regions[i][2] - 1 \subseteq Pages
       /\ Regions[i][1] \in Pages
  /\ \A i, j \in 1..Len(Regions) : i < j => Regions[i][1] + Regions[i][2] < Regions[j][1]
  /\ \A p \in Pages : \E i \in 1..Len(Regions) :
       p \in Regions[i][1]..Regions[i][1] + Regions[i][2] - 1
<1>n. PICK n : n = Len(Regions)
  OBVIOUS
<1>1. /\ n \in Nat /\ DOMAIN Regions = 1..n
      /\ \A i \in 1..n : Regions[i] \in Nat \X (Nat \ {0})
      /\ \A i \in 1..n - 1 : Regions[i][1] + Regions[i][2] < Regions[i + 1][1]
  <2>1. Regions \in Seq(Nat \X (Nat \ {0}))
    BY RegionsAssumption
  <2>2. n \in Nat /\ DOMAIN Regions = 1..n
    BY <1>n, <2>1
  <2>3. \A i \in 1..n : Regions[i] \in Nat \X (Nat \ {0})
    BY <1>n, <2>1
  <2>4. \A i \in 1..n - 1 : Regions[i][1] + Regions[i][2] < Regions[i + 1][1]
    BY <1>n, RegionsAssumption
  <2>. QED  BY <2>2, <2>3, <2>4
<1>2. \A i \in 1..n : Regions[i] \in Nat \X (Nat \ {0}) /\ Regions[i] \in ToSet(Regions)
  BY <1>1 DEF ToSet
<1>3. \A i \in 1..n : /\ Regions[i][1] \in Nat /\ Regions[i][2] \in Nat \ {0}
                      /\ Regions[i] = <<Regions[i][1], Regions[i][2]>>
  BY <1>2
<1>4. \A r \in ToSet(Regions) : \E i \in 1..n : r = Regions[i]
  BY <1>1 DEF ToSet
<1>5. \A i \in 1..n : Regions[i][1]..Regions[i][1] + Regions[i][2] - 1 \subseteq Pages
  BY <1>2 DEF Pages
<1>6. \A i \in 1..n : Regions[i][1] \in Pages
  BY <1>3, <1>5
<1>7. \A p \in Pages : \E i \in 1..n : p \in Regions[i][1]..Regions[i][1] + Regions[i][2] - 1
  <2>1. SUFFICES ASSUME NEW p \in Pages
                 PROVE  \E i \in 1..n : p \in Regions[i][1]..Regions[i][1] + Regions[i][2] - 1
    OBVIOUS
  <2>2. PICK r \in ToSet(Regions) : p \in r[1]..r[1] + r[2] - 1
    BY DEF Pages
  <2>3. PICK i \in 1..n : r = Regions[i]
    BY <1>4
  <2>. QED  BY <2>2, <2>3
<1>8. Pages \subseteq Nat
  <2>1. SUFFICES ASSUME NEW p \in Pages  PROVE p \in Nat
    OBVIOUS
  <2>2. PICK i \in 1..n : p \in Regions[i][1]..Regions[i][1] + Regions[i][2] - 1
    BY <1>7
  <2>. QED  BY <1>3, <2>2
<1>9. ASSUME NEW i \in 1..n
      PROVE  \A j \in i + 1..n : Regions[i][1] + Regions[i][2] < Regions[j][1]
  <2>. DEFINE Bad == {j \in i + 1..n : ~(Regions[i][1] + Regions[i][2] < Regions[j][1])}
  <2>1. SUFFICES ASSUME Bad # {}  PROVE FALSE
    OBVIOUS
  <2>2. Bad \in SUBSET Nat
    BY <1>1
  <2>k. PICK k : k = Min(Bad)
    OBVIOUS
  <2>3. k \in Bad /\ \A c \in Bad : k <= c
    <3>. HIDE DEF Bad
    <3>. QED  BY <2>1, <2>2, <2>k, MinFacts
  <2>4. k \in i + 1..n /\ ~(Regions[i][1] + Regions[i][2] < Regions[k][1])
    BY <2>3
  <2>5. /\ k - 1 \in 1..n - 1 /\ k - 1 \in 1..n /\ k \in 1..n
        /\ (k - 1) + 1 = k
    <3>1. n \in Nat /\ i \in 1..n /\ k \in i + 1..n
      BY <1>1, <2>4
    <3>. QED  BY ONLY <3>1
  <2>6. Regions[k - 1][1] + Regions[k - 1][2] < Regions[k][1]
    <3>1. Regions[k - 1][1] + Regions[k - 1][2] < Regions[(k - 1) + 1][1]
      BY <1>1, <2>5
    <3>. QED  BY <2>5, <3>1
  <2>7. CASE k - 1 = i
    BY <2>4, <2>6, <2>7
  <2>8. CASE k - 1 # i
    <3>1. k - 1 \in i + 1..n
      BY <2>4, <2>5, <2>8
    <3>2. ~(k <= k - 1)
      BY <2>5
    <3>3. k - 1 \notin Bad
      BY <2>3, <3>2
    <3>4. Regions[i][1] + Regions[i][2] < Regions[k - 1][1]
      BY <3>1, <3>3
    <3>. QED  BY <1>3, <2>4, <2>5, <2>6, <3>4
  <2>. QED  BY <2>7, <2>8
<1>10. \A i, j \in 1..n : i < j => Regions[i][1] + Regions[i][2] < Regions[j][1]
  <2>1. SUFFICES ASSUME NEW i \in 1..n, NEW j \in 1..n, i < j
                 PROVE  Regions[i][1] + Regions[i][2] < Regions[j][1]
    OBVIOUS
  <2>2. j \in i + 1..n
    BY <1>1, <2>1
  <2>. QED  BY <1>9, <2>2
<1>11. IsFiniteSet(Pages)
  <2>1. CASE n = 0
    <3>1. Pages = {}
      BY <1>7, <2>1
    <3>. QED  BY <3>1, FS_EmptySet
  <2>2. CASE n # 0
    <3>1. n \in 1..n
      BY <1>1, <2>2
    <3>. DEFINE top == Regions[n][1] + Regions[n][2]
    <3>2. top \in Nat
      BY <1>3, <3>1
    <3>3. ASSUME NEW p \in Pages  PROVE p <= top
      <4>1. PICK i \in 1..n : p \in Regions[i][1]..Regions[i][1] + Regions[i][2] - 1
        BY <1>7
      <4>2. i = n \/ i < n
        BY <1>1
      <4>3. i < n => Regions[i][1] + Regions[i][2] < Regions[n][1]
        BY <1>10, <3>1
      <4>. QED  BY <1>3, <3>1, <4>1, <4>2, <4>3
    <3>. HIDE DEF top
    <3>. QED  BY <1>8, <3>2, <3>3, FS_BoundedSetOfNaturals
  <2>. QED  BY <2>1, <2>2
<1>. QED  BY <1>2, <1>3, <1>5, <1>6, <1>7, <1>8, <1>10, <1>11, <1>n

\* The pages of a block, given what page->property is.
Extent(size, p) == p..p + size[p] - 1

\* A list of blocks in address order with a page between any two of them.
Gapped(list, size) ==
  /\ \A i \in 1..Len(list) : size[list[i]] > 0
  /\ \A i, j \in 1..Len(list) : i < j => list[i] + size[list[i]] < list[j]

\* The free list is in order, lies in memory, and is counted and flagged exactly.
PagesInv ==
  /\ PagesTypeOK
  /\ Gapped(free_list, property)
  /\ \A i \in 1..Len(free_list) : BlockOf(free_list[i]) \subseteq Pages
  /\ CountExact /\ FlagsExact

\* A list of pages, place by place.
LEMMA PageListFacts ==
  ASSUME NEW list \in Seq(Pages)
  PROVE  /\ Len(list) \in Nat /\ DOMAIN list = 1..Len(list)
         /\ \A i \in 1..Len(list) : list[i] \in Pages /\ list[i] \in Nat /\ list[i] \in ToSet(list)
         /\ \A p \in ToSet(list) : p \in Pages /\ p \in Nat /\ \E i \in 1..Len(list) : p = list[i]
<1>1. Len(list) \in Nat /\ DOMAIN list = 1..Len(list) /\ \A i \in 1..Len(list) : list[i] \in Pages
  OBVIOUS
<1>2. Pages \subseteq Nat
  BY PagesAreNumbers
<1>. QED  BY <1>1, <1>2 DEF ToSet

\* What the free list says about the pages.
LEMMA FreePagesFacts ==
  ASSUME PagesInv
  PROVE  /\ FreePages \subseteq Pages /\ IsFiniteSet(FreePages)
         /\ \A q : q \in FreePages <=> \E i \in 1..Len(free_list) : q \in BlockOf(free_list[i])
         /\ nr_free = Cardinality(FreePages)
<1>1. free_list \in Seq(Pages)
  BY DEF PagesInv, PagesTypeOK
<1>2. \A q : q \in FreePages <=> \E i \in 1..Len(free_list) : q \in BlockOf(free_list[i])
  BY <1>1, PageListFacts DEF FreePages
<1>3. FreePages \subseteq Pages
  BY <1>2 DEF PagesInv
<1>4. IsFiniteSet(FreePages)
  BY <1>3, PagesAreNumbers, FS_Subset
<1>. QED  BY <1>2, <1>3, <1>4 DEF PagesInv, CountExact

\* PagesInv is what the runs check, with all pairs of blocks in order.
LEMMA ListIsSound == PagesInv => FreeListInv
<1>. SUFFICES ASSUME PagesInv PROVE ListMerged
  BY DEF PagesInv, FreeListInv
<1>1. free_list \in Seq(Pages)
  BY DEF PagesInv, PagesTypeOK
<1>. SUFFICES ASSUME NEW i \in 1..Len(free_list)
              PROVE  /\ property[free_list[i]] > 0
                     /\ BlockOf(free_list[i]) \subseteq Pages
                     /\ i > 1 => free_list[i - 1] + property[free_list[i - 1]] < free_list[i]
  BY <1>1, PageListFacts DEF ListMerged
<1>2. property[free_list[i]] > 0 /\ BlockOf(free_list[i]) \subseteq Pages
  BY DEF PagesInv, Gapped
<1>3. ASSUME i > 1 PROVE free_list[i - 1] + property[free_list[i - 1]] < free_list[i]
  <2>1. i - 1 \in 1..Len(free_list) /\ i - 1 < i
    BY <1>1, <1>3
  <2>. QED  BY <2>1 DEF PagesInv, Gapped
<1>. QED  BY <1>2, <1>3

\* After page_init everything is free.
LEMMA PagesStart == InitPages => PagesInv /\ FreePages = Pages
<1>. SUFFICES ASSUME InitPages PROVE PagesInv /\ FreePages = Pages
  OBVIOUS
<1>. DEFINE n == Len(Regions)
<1>1. n \in Nat /\ DOMAIN Regions = 1..n
  BY RegionsAssumption
<1>2. /\ free_list \in Seq(Pages) /\ Len(free_list) = n
      /\ \A i \in 1..n : free_list[i] = Regions[i][1]
  <2>1. free_list = [i \in 1..n |-> Regions[i][1]]
    BY <1>1 DEF InitPages
  <2>2. \A i \in 1..n : Regions[i][1] \in Pages
    BY PagesAreNumbers
  <2>. HIDE DEF n
  <2>3. free_list \in [1..n -> Pages]
    BY <2>1, <2>2
  <2>. QED  BY <1>1, <2>1, <2>3
<1>3. \A i, j \in 1..n : Regions[i][1] = Regions[j][1] => i = j
  <2>1. SUFFICES ASSUME NEW i \in 1..n, NEW j \in 1..n, i < j, Regions[i][1] = Regions[j][1]
                 PROVE  FALSE
    BY <1>1
  <2>. QED  BY <2>1, PagesAreNumbers
<1>4. ASSUME NEW i \in 1..n  PROVE property[Regions[i][1]] = Regions[i][2]
  <2>. DEFINE p == Regions[i][1]  R == {r \in ToSet(Regions) : r[1] = p}
  <2>1. p \in Pages /\ Regions[i] \in R
    BY PagesAreNumbers
  <2>2. \A r \in R : r = Regions[i]
    <3>1. SUFFICES ASSUME NEW r \in ToSet(Regions), r[1] = p  PROVE r = Regions[i]
      OBVIOUS
    <3>2. PICK j \in 1..n : r = Regions[j]
      BY <1>1 DEF ToSet
    <3>. QED  BY <1>3, <3>1, <3>2
  <2>3. (CHOOSE r \in ToSet(Regions) : r[1] = p) = Regions[i]
    BY <2>1, <2>2
  <2>4. property[p] = IF \E r \in ToSet(Regions) : r[1] = p
                        THEN (CHOOSE r \in ToSet(Regions) : r[1] = p)[2] ELSE 0
    BY <2>1 DEF InitPages
  <2>5. \E r \in ToSet(Regions) : r[1] = p
    BY <2>1
  <2>6. property[p] = (CHOOSE r \in ToSet(Regions) : r[1] = p)[2]
    BY <2>4, <2>5
  <2>. QED  BY <2>3, <2>6
<1>5. property \in [Pages -> Nat]
  <2>1. SUFFICES ASSUME NEW p \in Pages
                 PROVE  (IF \E r \in ToSet(Regions) : r[1] = p
                          THEN (CHOOSE r \in ToSet(Regions) : r[1] = p)[2] ELSE 0) \in Nat
    BY DEF InitPages
  <2>2. CASE \E r \in ToSet(Regions) : r[1] = p
    <3>1. (CHOOSE r \in ToSet(Regions) : r[1] = p) \in ToSet(Regions)
      BY <2>2
    <3>2. PICK j \in 1..n : (CHOOSE r \in ToSet(Regions) : r[1] = p) = Regions[j]
      BY <1>1, <3>1 DEF ToSet
    <3>3. Regions[j][2] \in Nat
      BY PagesAreNumbers
    <3>. QED  BY <2>2, <3>2, <3>3
  <2>. QED  BY <2>2
<1>6. \A i \in 1..n : BlockOf(free_list[i]) = Regions[i][1]..Regions[i][1] + Regions[i][2] - 1
  BY <1>2, <1>4 DEF BlockOf
<1>7. Gapped(free_list, property)
  <2>1. \A i \in 1..n : property[free_list[i]] = Regions[i][2] /\ free_list[i] = Regions[i][1]
    BY <1>2, <1>4
  <2>2. \A i \in 1..n : Regions[i][2] > 0
    BY PagesAreNumbers
  <2>3. \A i, j \in 1..n : i < j => Regions[i][1] + Regions[i][2] < Regions[j][1]
    BY PagesAreNumbers
  <2>. QED  BY <1>2, <2>1, <2>2, <2>3 DEF Gapped
<1>8. FreePages = Pages
  <2>1. \A q : q \in FreePages <=> \E i \in 1..n : q \in BlockOf(free_list[i])
    BY <1>2, PageListFacts DEF FreePages
  <2>2. \A q : q \in Pages <=> \E i \in 1..n : q \in BlockOf(free_list[i])
    BY <1>6, PagesAreNumbers
  <2>. QED  BY <2>1, <2>2
<1>9. CountExact /\ FlagsExact
  BY <1>8 DEF InitPages, CountExact, FlagsExact
<1>10. PagesTypeOK
  <2>1. nr_free \in Nat
    BY PagesAreNumbers, FS_CardinalityType DEF InitPages
  <2>2. PG_property \subseteq Pages
    BY <1>2, PageListFacts DEF InitPages
  <2>. QED  BY <1>2, <1>5, <2>1, <2>2 DEF PagesTypeOK, InitPages
<1>11. \A i \in 1..n : BlockOf(free_list[i]) \subseteq Pages
  BY <1>6, PagesAreNumbers
<1>. QED  BY <1>2, <1>7, <1>8, <1>9, <1>10, <1>11 DEF PagesInv

-----------------------------------------------------------------------------
(* default_alloc_pages. *)

\* The first block that is long enough.
LEMMA FittingFacts ==
  ASSUME PagesInv, NEW n \in Nat, Fitting(n) # {}
  PROVE  /\ Min(Fitting(n)) \in 1..Len(free_list)
         /\ property[free_list[Min(Fitting(n))]] >= n
         /\ \A j \in 1..Len(free_list) :
              property[free_list[j]] >= n => Min(Fitting(n)) <= j
<1>1. free_list \in Seq(Pages)
  BY DEF PagesInv, PagesTypeOK
<1>2. DOMAIN free_list = 1..Len(free_list) /\ Len(free_list) \in Nat
  BY <1>1, PageListFacts
<1>. DEFINE S == Fitting(n)
<1>3. /\ S \in SUBSET Nat
      /\ \A i : i \in S <=> i \in 1..Len(free_list) /\ property[free_list[i]] >= n
  BY <1>2 DEF Fitting
<1>. HIDE DEF S
<1>4. S # {}
  BY DEF S
<1>5. Min(S) \in S /\ \A j \in S : Min(S) <= j
  BY <1>3, <1>4, MinFacts
<1>6. /\ Min(S) \in 1..Len(free_list) /\ property[free_list[Min(S)]] >= n
      /\ \A j \in 1..Len(free_list) : property[free_list[j]] >= n => Min(S) <= j
  BY <1>3, <1>5
<1>. QED  BY <1>6 DEF S

\* The number of pages between two others.
LEMMA RunFacts ==
  ASSUME NEW base \in Nat, NEW n \in Nat
  PROVE  /\ IsFiniteSet(base..base + n - 1)
         /\ Cardinality(base..base + n - 1) = n
<1>1. base \in Int /\ base + n - 1 \in Int
  OBVIOUS
<1>2. /\ IsFiniteSet(base..base + n - 1)
      /\ Cardinality(base..base + n - 1) = IF base > base + n - 1 THEN 0 ELSE base + n - 1 - base + 1
  BY <1>1, FS_Interval
<1>. QED  BY <1>2

\* A run of free pages lies in one block.
LEMMA RunInBlock ==
  ASSUME PagesInv, NEW i \in 1..Len(free_list), NEW p \in BlockOf(free_list[i]),
         NEW n \in Nat, p..p + n - 1 \subseteq FreePages
  PROVE  p + n <= free_list[i] + property[free_list[i]]
<1>. DEFINE q == free_list[i] + property[free_list[i]]
<1>1. /\ \A j \in 1..Len(free_list) : free_list[j] \in Nat /\ free_list[j] \in Pages
      /\ property \in [Pages -> Nat] /\ Len(free_list) \in Nat
  BY PageListFacts DEF PagesInv, PagesTypeOK
<1>2. /\ free_list[i] \in Nat /\ property[free_list[i]] \in Nat /\ q \in Nat
      /\ p \in Nat /\ free_list[i] <= p /\ p < q
  BY <1>1 DEF BlockOf
<1>3. q \notin FreePages
  <2>1. SUFFICES ASSUME NEW j \in 1..Len(free_list), q \in BlockOf(free_list[j])  PROVE FALSE
    BY FreePagesFacts
  <2>2. /\ free_list[j] \in Nat /\ property[free_list[j]] \in Nat
        /\ free_list[j] <= q /\ q < free_list[j] + property[free_list[j]]
    BY <1>1, <1>2, <2>1 DEF BlockOf
  <2>3. CASE i < j
    BY <1>1, <1>2, <2>2, <2>3 DEF PagesInv, Gapped
  <2>4. CASE j < i
    <3>1. free_list[j] + property[free_list[j]] < free_list[i]
      BY <2>4 DEF PagesInv, Gapped
    <3>. QED  BY <1>1, <1>2, <2>2, <3>1
  <2>5. CASE i = j
    BY <1>2, <2>2, <2>5
  <2>. QED  BY <1>1, <2>3, <2>4, <2>5
<1>4. CASE q <= p + n - 1
  <2>1. q \in p..p + n - 1
    BY <1>2, <1>4
  <2>. QED  BY <1>3, <2>1
<1>5. CASE ~(q <= p + n - 1)
  BY <1>2, <1>5
<1>. QED  BY <1>4, <1>5

\* Blocks of different places are apart.
LEMMA BlocksApart ==
  ASSUME PagesInv, NEW i \in 1..Len(free_list), NEW j \in 1..Len(free_list), i # j
  PROVE  /\ BlockOf(free_list[i]) \cap BlockOf(free_list[j]) = {}
         /\ free_list[i] # free_list[j]
<1>1. /\ free_list[i] \in Nat /\ property[free_list[i]] \in Nat
      /\ free_list[j] \in Nat /\ property[free_list[j]] \in Nat
      /\ Len(free_list) \in Nat
  BY PageListFacts DEF PagesInv, PagesTypeOK
<1>2. /\ i < j => free_list[i] + property[free_list[i]] < free_list[j]
      /\ j < i => free_list[j] + property[free_list[j]] < free_list[i]
      /\ property[free_list[i]] > 0 /\ property[free_list[j]] > 0
  BY DEF PagesInv, Gapped
<1>3. i < j \/ j < i
  BY <1>1
<1>4. CASE i < j
  BY <1>1, <1>2, <1>4 DEF BlockOf
<1>5. CASE j < i
  BY <1>1, <1>2, <1>5 DEF BlockOf
<1>. QED  BY <1>3, <1>4, <1>5

\* What an allocation that finds a block does.
Taken(n, i) ==
  LET page == free_list[i] IN
  /\ result' = page
  /\ free_list' = Split(page, i, n)
  /\ IF property[page] > n
       THEN /\ property' = [property EXCEPT ![page + n] = property[page] - n]
            /\ PG_property' = (PG_property \cup {page + n}) \ {page}
       ELSE /\ PG_property' = PG_property \ {page}
            /\ UNCHANGED property
  /\ nr_free' = nr_free - n

\* The block loses its first n pages; without any left it leaves the list.
LEMMA TakenFacts ==
  ASSUME PagesInv, NEW n \in Nat \ {0}, NEW i \in 1..Len(free_list),
         property[free_list[i]] >= n, Taken(n, i)
  PROVE  /\ PagesInv'
         /\ result' = free_list[i] /\ result' \in Pages
         /\ result'..result' + n - 1 \subseteq FreePages
         /\ FreePages' = FreePages \ result'..result' + n - 1
<1>. DEFINE p == free_list[i]  old == Len(free_list)  R == p..p + n - 1
<1>1. /\ free_list \in Seq(Pages) /\ old \in Nat
      /\ \A j \in 1..old : /\ free_list[j] \in Nat /\ free_list[j] \in Pages
                           /\ property[free_list[j]] \in Nat
      /\ property \in [Pages -> Nat]
  BY PageListFacts DEF PagesInv, PagesTypeOK
<1>2. /\ p \in Nat /\ p \in Pages /\ property[p] \in Nat /\ property[p] >= n
      /\ R \subseteq BlockOf(p)
  BY <1>1 DEF BlockOf
<1>3. R \subseteq FreePages
  BY <1>2, FreePagesFacts
<1>4. /\ \A j \in 1..old : property[free_list[j]] > 0
      /\ \A j, k \in 1..old : j < k => free_list[j] + property[free_list[j]] < free_list[k]
      /\ \A j \in 1..old : BlockOf(free_list[j]) \subseteq Pages
  BY DEF PagesInv, Gapped
<1>5. /\ result' = p
      /\ nr_free' = nr_free - n
  BY DEF Taken
<1>6. IsFiniteSet(R) /\ Cardinality(R) = n
  BY <1>2, RunFacts
<1>7. ASSUME FreePages' = FreePages \ R
      PROVE  CountExact' /\ nr_free' \in Nat
  <2>1. /\ IsFiniteSet(FreePages) /\ nr_free = Cardinality(FreePages)
    BY FreePagesFacts
  <2>2. R \cap FreePages = R
    BY <1>3
  <2>3. /\ IsFiniteSet(FreePages \ R)
        /\ Cardinality(FreePages \ R) = Cardinality(FreePages) - Cardinality(FreePages \cap R)
    BY <2>1, FS_Difference
  <2>4. FreePages \cap R = R
    BY <1>3
  <2>5. Cardinality(FreePages \ R) = nr_free - n
    BY <1>6, <2>1, <2>3, <2>4
  <2>6. Cardinality(FreePages') = nr_free'
    BY <1>5, <1>7, <2>5
  <2>7. Cardinality(FreePages') \in Nat
    BY <1>7, <2>3, FS_CardinalityType
  <2>. QED  BY <2>6, <2>7 DEF CountExact
<1>. HIDE DEF p, R
<1>8. CASE property[p] > n
  <2>. DEFINE q == p + n
  <2>1. /\ free_list' = [free_list EXCEPT ![i] = q]
        /\ property' = [property EXCEPT ![q] = property[p] - n]
        /\ PG_property' = (PG_property \cup {q}) \ {p}
    BY <1>8 DEF Taken, Split, ReplaceAt, p
  <2>2. q \in BlockOf(p) /\ q \in Pages /\ q \in Nat /\ q > p
    <3>1. q \in BlockOf(p)
      BY <1>2, <1>8 DEF BlockOf
    <3>. QED  BY <1>2, <1>4, <3>1 DEF p
  <2>3. \A j \in 1..old : free_list[j] # q
    <3>1. SUFFICES ASSUME NEW j \in 1..old, free_list[j] = q  PROVE FALSE
      OBVIOUS
    <3>2. j # i
      BY <2>2, <3>1 DEF p
    <3>3. q \in BlockOf(free_list[j])
      BY <1>1, <1>4, <3>1 DEF BlockOf
    <3>. QED  BY <2>2, <3>2, <3>3, BlocksApart DEF p
  <2>. HIDE DEF q
  <2>4. /\ free_list' \in Seq(Pages) /\ Len(free_list') = old
        /\ free_list'[i] = q /\ \A j \in 1..old : j # i => free_list'[j] = free_list[j]
    BY <1>1, <2>1, <2>2
  <2>5. /\ property' \in [Pages -> Nat]
        /\ property'[q] = property[p] - n
        /\ \A r \in Pages : r # q => property'[r] = property[r]
    BY <1>1, <1>2, <1>8, <2>1, <2>2
  <2>6. Extent(property', free_list'[i]) = BlockOf(p) \ R
    <3>1. property'[q] = property[p] - n /\ q = p + n
      BY <2>5 DEF q
    <3>2. Extent(property', q) = p + n..p + property[p] - 1
      <4>1. p + n + (property[p] - n) - 1 = p + property[p] - 1
        BY <1>2
      <4>. QED  BY <3>1, <4>1 DEF Extent
    <3>3. BlockOf(p) \ R = p + n..p + property[p] - 1
      BY <1>2, <1>8 DEF BlockOf, R
    <3>. QED  BY <2>4, <3>2, <3>3
  <2>8. \A j \in 1..old : j # i => /\ property'[free_list'[j]] = property[free_list[j]]
                                   /\ free_list'[j] = free_list[j]
    BY <1>1, <2>3, <2>4, <2>5
  <2>9. Gapped(free_list', property')
    <3>1. \A j \in 1..old : property'[free_list'[j]] > 0
      <4>1. property'[free_list'[i]] > 0
        BY <1>2, <1>8, <2>4, <2>5
      <4>. QED  BY <1>4, <2>8, <4>1
    <3>2. ASSUME NEW j \in 1..old, NEW k \in 1..old, j < k
          PROVE  free_list'[j] + property'[free_list'[j]] < free_list'[k]
      <4>1. free_list[j] + property[free_list[j]] < free_list[k]
        BY <1>4, <3>2
      <4>2. CASE j = i
        <5>1. free_list'[j] + property'[free_list'[j]] = p + property[p]
          BY <1>2, <2>4, <2>5, <4>2 DEF q
        <5>2. free_list'[k] = free_list[k]
          BY <2>4, <3>2, <4>2
        <5>. QED  BY <4>1, <4>2, <5>1, <5>2 DEF p
      <4>3. CASE k = i
        <5>1. free_list'[k] > free_list[k]
          BY <2>2, <2>4, <4>3 DEF p
        <5>. QED  BY <1>1, <2>2, <2>4, <2>8, <3>2, <4>1, <4>3, <5>1
      <4>4. CASE j # i /\ k # i
        BY <2>8, <4>1, <4>4
      <4>. QED  BY <4>2, <4>3, <4>4
    <3>. QED  BY <2>4, <3>1, <3>2 DEF Gapped
  <2>10. \A j \in 1..old : j # i => Extent(property', free_list'[j]) = BlockOf(free_list[j])
    BY <2>8 DEF BlockOf, Extent
  <2>11. FreePages' = FreePages \ R
    <3>1. \A r : r \in FreePages' <=> \E j \in 1..old : r \in Extent(property', free_list'[j])
      <4>1. \A r : r \in FreePages' <=> \E x \in ToSet(free_list') : r \in Extent(property', x)
        BY DEF FreePages, BlockOf, Extent
      <4>2. \A x : x \in ToSet(free_list') <=> \E j \in 1..old : x = free_list'[j]
        BY <2>4, PageListFacts
      <4>. QED  BY <4>1, <4>2
    <3>2. \A j \in 1..old : j # i => BlockOf(free_list[j]) \cap R = {}
      BY <1>2, BlocksApart DEF p
    <3>3. \A r : r \in FreePages <=> \E j \in 1..old : r \in BlockOf(free_list[j])
      BY FreePagesFacts
    <3>4. ASSUME NEW r  PROVE r \in FreePages' <=> r \in FreePages \ R
      <4>1. CASE r \in BlockOf(p)
        <5>1. r \in FreePages
          BY <3>3, <4>1 DEF p
        <5>2. r \notin R => r \in FreePages'
          BY <2>6, <3>1, <4>1
        <5>3. r \in R => r \notin FreePages'
          <6>1. SUFFICES ASSUME r \in R, NEW j \in 1..old, r \in Extent(property', free_list'[j])
                         PROVE  FALSE
            BY <3>1
          <6>2. CASE j = i
            BY <2>6, <6>1, <6>2
          <6>3. CASE j # i
            BY <2>10, <3>2, <6>1, <6>3
          <6>. QED  BY <6>2, <6>3
        <5>. QED  BY <5>1, <5>2, <5>3
      <4>2. CASE r \notin BlockOf(p)
        <5>1. r \notin R
          BY <1>2, <4>2
        <5>2. r \in FreePages => r \in FreePages'
          BY <2>10, <3>1, <3>3, <4>2 DEF p
        <5>3. r \in FreePages' => r \in FreePages
          <6>1. SUFFICES ASSUME NEW j \in 1..old, r \in Extent(property', free_list'[j])
                         PROVE  r \in FreePages
            BY <3>1
          <6>2. j # i
            BY <2>6, <4>2, <6>1
          <6>. QED  BY <2>10, <3>3, <6>1, <6>2
        <5>. QED  BY <5>1, <5>2, <5>3
      <4>. QED  BY <4>1, <4>2
    <3>. QED  BY <3>4
  <2>12. FlagsExact'
    <3>1. PG_property = ToSet(free_list) /\ \A x : x \in ToSet(free_list) <=> \E j \in 1..old : x = free_list[j]
      BY <1>1, PageListFacts DEF PagesInv, FlagsExact
    <3>2. \A x : x \in ToSet(free_list') <=> \E j \in 1..old : x = free_list'[j]
      BY <2>4, PageListFacts
    <3>3. \A j \in 1..old : j # i => free_list[j] # p
      BY BlocksApart DEF p
    <3>4. ASSUME NEW x  PROVE x \in PG_property' <=> x \in ToSet(free_list')
      <4>1. x \in PG_property' <=> (x = q \/ \E j \in 1..old : x = free_list[j]) /\ x # p
        BY <2>1, <3>1
      <4>2. x \in ToSet(free_list') <=> x = q \/ \E j \in 1..old : j # i /\ x = free_list[j]
        BY <2>4, <3>2
      <4>3. q # p
        BY <2>2, <1>2
      <4>. QED  BY <3>3, <4>1, <4>2, <4>3 DEF p
    <3>. QED  BY <3>4 DEF FlagsExact
  <2>13. \A j \in 1..old : Extent(property', free_list'[j]) \subseteq Pages
    BY <1>2, <1>4, <2>6, <2>10 DEF p
  <2>14. PG_property' \subseteq Pages
    BY <2>4, <2>12, PageListFacts DEF FlagsExact
  <2>15. PagesTypeOK'
    BY <1>2, <1>5, <1>7, <2>4, <2>5, <2>11, <2>14 DEF PagesTypeOK
  <2>16. PagesInv'
    <3>1. \A j \in 1..Len(free_list') : Extent(property', free_list'[j]) \subseteq Pages
      BY <2>4, <2>13
    <3>2. (\A j \in 1..Len(free_list) : BlockOf(free_list[j]) \subseteq Pages)'
      BY <3>1 DEF BlockOf, Extent
    <3>. QED  BY <1>7, <2>9, <2>11, <2>12, <2>15, <3>2 DEF PagesInv
  <2>. QED  BY <1>2, <1>3, <1>5, <2>16, <2>11 DEF p, R
<1>9. CASE ~(property[p] > n)
  <2>0. property[p] = n /\ BlockOf(p) = R
    <3>1. property[p] = n
      BY <1>2, <1>9
    <3>. QED  BY <3>1 DEF BlockOf, R
  <2>1. /\ free_list' = RemoveAt(free_list, i)
        /\ property' = property
        /\ PG_property' = PG_property \ {p}
    BY <1>9 DEF Taken, Split, p
  <2>2. /\ free_list' \in Seq(Pages) /\ Len(free_list') = old - 1
        /\ \A j \in 1..old - 1 : free_list'[j] = IF j < i THEN free_list[j] ELSE free_list[j + 1]
    BY <1>1, <2>1, RemoveAtFacts
  <2>at. PICK at : at = [j \in 1..old - 1 |-> IF j < i THEN j ELSE j + 1]
    OBVIOUS
  <2>a. \A j \in 1..old - 1 : at[j] = IF j < i THEN j ELSE j + 1
    BY <2>at
  <2>3. /\ \A j \in 1..old - 1 : at[j] \in 1..old /\ at[j] # i /\ free_list'[j] = free_list[at[j]]
        /\ \A j, k \in 1..old - 1 : j < k => at[j] < at[k]
        /\ \A k \in 1..old : k # i => \E j \in 1..old - 1 : at[j] = k
    <3>1. ASSUME NEW k \in 1..old, k # i  PROVE \E j \in 1..old - 1 : at[j] = k
      <4>1. CASE k < i
        <5>1. k \in 1..old - 1 /\ at[k] = k
          BY <1>1, <2>a, <4>1
        <5>. QED  BY <5>1
      <4>2. CASE ~(k < i)
        <5>1. k - 1 \in 1..old - 1 /\ ~(k - 1 < i) /\ k - 1 + 1 = k
          BY <1>1, <3>1, <4>2
        <5>2. at[k - 1] = k
          BY <2>a, <5>1
        <5>. QED  BY <5>1, <5>2
      <4>. QED  BY <4>1, <4>2
    <3>2. \A j \in 1..old - 1 : at[j] \in 1..old /\ at[j] # i /\ free_list'[j] = free_list[at[j]]
      <4>. TAKE j \in 1..old - 1
      <4>1. /\ at[j] = IF j < i THEN j ELSE j + 1
            /\ free_list'[j] = IF j < i THEN free_list[j] ELSE free_list[j + 1]
        BY <2>2, <2>a
      <4>2. j \in Nat /\ i \in Nat /\ j >= 1 /\ j <= old - 1 /\ old \in Nat
        BY <1>1
      <4>3. CASE j < i
        BY <4>1, <4>2, <4>3
      <4>4. CASE ~(j < i)
        BY <4>1, <4>2, <4>4
      <4>. QED  BY <4>3, <4>4
    <3>3. \A j, k \in 1..old - 1 : j < k => at[j] < at[k]
      <4>. SUFFICES ASSUME NEW j \in 1..old - 1, NEW k \in 1..old - 1, j < k  PROVE at[j] < at[k]
        OBVIOUS
      <4>1. j \in Nat /\ k \in Nat /\ i \in Nat
        BY <1>1
      <4>2. /\ at[j] = IF j < i THEN j ELSE j + 1
            /\ at[k] = IF k < i THEN k ELSE k + 1
        BY <2>a
      <4>3. CASE k < i
        <5>1. j < i
          BY <4>1, <4>3
        <5>. QED  BY <4>2, <4>3, <5>1
      <4>4. CASE ~(k < i)
        <5>1. at[k] = k + 1
          BY <4>2, <4>4
        <5>2. at[j] = j \/ at[j] = j + 1
          BY <4>2
        <5>. QED  BY <4>1, <5>1, <5>2
      <4>. QED  BY <4>3, <4>4
    <3>. QED  BY <3>1, <3>2, <3>3
  <2>4. \A x : x \in ToSet(free_list') <=> \E j \in 1..old : j # i /\ x = free_list[j]
    <3>1. \A x : x \in ToSet(free_list') <=> \E j \in 1..old - 1 : x = free_list'[j]
      BY <2>2, PageListFacts
    <3>2. ASSUME NEW x, x \in ToSet(free_list')  PROVE \E j \in 1..old : j # i /\ x = free_list[j]
      <4>1. PICK k \in 1..old - 1 : x = free_list'[k]
        BY <3>1, <3>2
      <4>c. PICK c : c = at[k]
        OBVIOUS
      <4>2. c \in 1..old /\ c # i /\ x = free_list[c]
        BY <2>3, <4>1, <4>c
      <4>. QED  BY <4>2
    <3>3. ASSUME NEW k \in 1..old, k # i  PROVE free_list[k] \in ToSet(free_list')
      <4>1. PICK j \in 1..old - 1 : at[j] = k
        BY <2>3, <3>3
      <4>2. free_list[k] = free_list'[j]
        BY <2>3, <4>1
      <4>. QED  BY <3>1, <4>2
    <3>. QED  BY <3>2, <3>3
  <2>5. \A x : Extent(property', x) = BlockOf(x)
    BY <2>1 DEF BlockOf, Extent
  <2>6. Gapped(free_list', property')
    <3>1. \A j \in 1..old - 1 : property'[free_list'[j]] > 0
      BY <1>4, <2>1, <2>3
    <3>2. ASSUME NEW j \in 1..old - 1, NEW k \in 1..old - 1, j < k
          PROVE  free_list'[j] + property'[free_list'[j]] < free_list'[k]
      <4>1. at[j] < at[k] /\ at[j] \in 1..old /\ at[k] \in 1..old
        BY <2>3, <3>2
      <4>2. free_list[at[j]] + property[free_list[at[j]]] < free_list[at[k]]
        BY <1>4, <4>1
      <4>. QED  BY <2>1, <2>3, <4>2
    <3>. QED  BY <2>2, <3>1, <3>2 DEF Gapped
  <2>7. \A j \in 1..old - 1 : Extent(property', free_list'[j]) \subseteq Pages
    <3>. TAKE j \in 1..old - 1
    <3>1. at[j] \in 1..old /\ free_list'[j] = free_list[at[j]]
      BY <2>3
    <3>2. BlockOf(free_list[at[j]]) \subseteq Pages
      BY <1>4, <3>1
    <3>. QED  BY <2>5, <3>1, <3>2
  <2>8. FreePages' = FreePages \ R
    <3>1. \A r : r \in FreePages' <=> \E j \in 1..old : j # i /\ r \in BlockOf(free_list[j])
      <4>1. \A r : r \in FreePages' <=> \E x \in ToSet(free_list') : r \in Extent(property', x)
        BY DEF FreePages, BlockOf, Extent
      <4>. QED  BY <2>4, <2>5, <4>1
    <3>2. \A j \in 1..old : j # i => BlockOf(free_list[j]) \cap R = {}
      BY <2>0, BlocksApart DEF p
    <3>3. \A r : r \in FreePages <=> \E j \in 1..old : r \in BlockOf(free_list[j])
      BY FreePagesFacts
    <3>4. \A r : r \in FreePages' <=> r \in FreePages /\ r \notin R
      BY <2>0, <3>1, <3>2, <3>3 DEF p
    <3>. QED  BY <3>4
  <2>9. FlagsExact'
    <3>1. PG_property = ToSet(free_list) /\ \A x : x \in ToSet(free_list) <=> \E j \in 1..old : x = free_list[j]
      BY <1>1, PageListFacts DEF PagesInv, FlagsExact
    <3>2. \A j \in 1..old : j # i => free_list[j] # p
      BY BlocksApart DEF p
    <3>3. \A x : x \in PG_property' <=> x \in ToSet(free_list')
      BY <2>1, <2>4, <3>1, <3>2 DEF p
    <3>. QED  BY <3>3 DEF FlagsExact
  <2>10. PG_property' \subseteq Pages
    BY <2>2, <2>9, PageListFacts DEF FlagsExact
  <2>11. PagesTypeOK'
    BY <1>2, <1>5, <1>7, <1>1, <2>1, <2>2, <2>8, <2>10 DEF PagesTypeOK
  <2>12. PagesInv'
    <3>1. \A j \in 1..Len(free_list') : Extent(property', free_list'[j]) \subseteq Pages
      BY <2>2, <2>7
    <3>2. (\A j \in 1..Len(free_list) : BlockOf(free_list[j]) \subseteq Pages)'
      BY <3>1 DEF BlockOf, Extent
    <3>. QED  BY <1>7, <2>6, <2>8, <2>9, <2>11, <3>2 DEF PagesInv
  <2>. QED  BY <1>2, <1>3, <1>5, <2>12, <2>8 DEF p, R
<1>. QED  BY <1>8, <1>9

\* An allocation takes the lowest run of free pages that is long enough, and none only
\* if there is none.
LEMMA AllocFacts ==
  ASSUME PagesInv, NEW n \in Nat \ {0}, AllocPages(n)
  PROVE  /\ PagesInv'
         /\ Promised!Alloc(n)
         /\ \/ /\ result' = NoPage
               /\ UNCHANGED <<free_list, property, PG_property, nr_free>>
               /\ FreePages' = FreePages
            \/ /\ result' \in Pages
               /\ result'..result' + n - 1 \subseteq FreePages
               /\ FreePages' = FreePages \ result'..result' + n - 1
<1>. DEFINE F == Promised!Fits(n)  len == Len(free_list)
<1>1. /\ free_list \in Seq(Pages) /\ len \in Nat
      /\ \A j \in 1..len : /\ free_list[j] \in Nat /\ free_list[j] \in Pages
                           /\ property[free_list[j]] \in Nat /\ property[free_list[j]] > 0
      /\ DOMAIN free_list = 1..len
  BY PageListFacts DEF PagesInv, PagesTypeOK, Gapped
<1>2. \A p : p \in F <=> /\ p \in FreePages /\ p - 1 \notin FreePages
                         /\ p..p + n - 1 \subseteq FreePages
  BY DEF Promised!Fits, Promised!Run
<1>3. FreePages \subseteq Pages /\ Pages \subseteq Nat /\ IsFiniteSet(FreePages)
  BY FreePagesFacts, PagesAreNumbers
<1>4. ASSUME NEW i \in 1..len, property[free_list[i]] >= n  PROVE free_list[i] \in F
  <2>1. \A q \in free_list[i]..free_list[i] + n - 1 : q \in BlockOf(free_list[i])
    BY <1>1, <1>4 DEF BlockOf
  <2>2. free_list[i]..free_list[i] + n - 1 \subseteq FreePages
    BY <2>1, FreePagesFacts
  <2>3. free_list[i] \in FreePages
    <3>1. free_list[i] \in BlockOf(free_list[i])
      BY <1>1 DEF BlockOf
    <3>. QED  BY <3>1, FreePagesFacts
  <2>4. free_list[i] - 1 \notin FreePages
    <3>1. SUFFICES ASSUME NEW j \in 1..len, free_list[i] - 1 \in BlockOf(free_list[j])  PROVE FALSE
      BY FreePagesFacts
    <3>2. free_list[j] <= free_list[i] - 1 /\ free_list[i] - 1 < free_list[j] + property[free_list[j]]
      BY <1>1, <3>1 DEF BlockOf
    <3>3. CASE i < j
      <4>1. free_list[i] + property[free_list[i]] < free_list[j]
        BY <3>3 DEF PagesInv, Gapped
      <4>. QED  BY <1>1, <3>2, <4>1
    <3>4. CASE j < i
      <4>1. free_list[j] + property[free_list[j]] < free_list[i]
        BY <3>4 DEF PagesInv, Gapped
      <4>. QED  BY <1>1, <3>2, <4>1
    <3>5. CASE i = j
      BY <1>1, <3>2, <3>5
    <3>. QED  BY <1>1, <3>3, <3>4, <3>5
  <2>. QED  BY <1>2, <2>2, <2>3, <2>4
<1>5. ASSUME NEW p \in F
      PROVE  \E i \in 1..len : p = free_list[i] /\ property[free_list[i]] >= n
  <2>1. PICK i \in 1..len : p \in BlockOf(free_list[i])
    BY <1>2, FreePagesFacts
  <2>2. p \in Nat /\ free_list[i] <= p
    BY <1>1, <2>1 DEF BlockOf
  <2>3. p = free_list[i]
    <3>1. SUFFICES ASSUME free_list[i] < p  PROVE FALSE
      BY <1>1, <2>2
    <3>2. p - 1 \in BlockOf(free_list[i])
      BY <1>1, <2>1, <2>2, <3>1 DEF BlockOf
    <3>. QED  BY <1>2, <3>2, FreePagesFacts
  <2>4. p + n <= free_list[i] + property[free_list[i]]
    BY <1>2, <2>1, RunInBlock
  <2>. QED  BY <1>1, <2>3, <2>4
<1>. HIDE DEF F
<1>6. CASE n > nr_free \/ Fitting(n) = {}
  <2>1. result' = NoPage /\ UNCHANGED <<free_list, property, PG_property, nr_free>>
    BY <1>6 DEF AllocPages
  <2>2. F = {}
    <3>1. SUFFICES ASSUME NEW p \in F  PROVE FALSE
      OBVIOUS
    <3>2. PICK i \in 1..len : p = free_list[i] /\ property[free_list[i]] >= n
      BY <1>5
    <3>3. Fitting(n) # {}
      BY <1>1, <3>2 DEF Fitting
    <3>4. n <= nr_free
      <4>1. p \in Nat /\ p..p + n - 1 \subseteq FreePages
        BY <1>2, <1>3
      <4>2. Cardinality(p..p + n - 1) = n
        BY <4>1, RunFacts
      <4>3. Cardinality(p..p + n - 1) <= Cardinality(FreePages)
        BY <1>3, <4>1, FS_Subset
      <4>. QED  BY <4>2, <4>3, FreePagesFacts
    <3>5. nr_free \in Nat
      BY DEF PagesInv, PagesTypeOK
    <3>. QED  BY <1>6, <3>3, <3>4, <3>5
  <2>3. FreePages' = FreePages
    BY <2>1 DEF FreePages, BlockOf
  <2>4. Promised!Alloc(n)
    BY <2>1, <2>2, <2>3 DEF Promised!Alloc, F
  <2>5. PagesInv'
    BY <2>1 DEF PagesInv, PagesTypeOK, Gapped, BlockOf, CountExact, FreePages, FlagsExact
  <2>. QED  BY <2>1, <2>3, <2>4, <2>5
<1>7. CASE ~(n > nr_free \/ Fitting(n) = {})
  <2>i. PICK i : i = Min(Fitting(n))
    OBVIOUS
  <2>1. i \in 1..len /\ property[free_list[i]] >= n
        /\ \A j \in 1..len : property[free_list[j]] >= n => i <= j
    BY <1>7, <2>i, FittingFacts
  <2>2. Taken(n, i)
    BY <1>7, <2>i DEF AllocPages, Taken
  <2>3. /\ PagesInv'
        /\ result' = free_list[i] /\ result' \in Pages
        /\ result'..result' + n - 1 \subseteq FreePages
        /\ FreePages' = FreePages \ result'..result' + n - 1
    BY <2>1, <2>2, TakenFacts
  <2>4. free_list[i] \in F
    BY <1>4, <2>1
  <2>5. \A p \in F : free_list[i] <= p
    <3>1. SUFFICES ASSUME NEW p \in F  PROVE free_list[i] <= p
      OBVIOUS
    <3>2. PICK j \in 1..len : p = free_list[j] /\ property[free_list[j]] >= n
      BY <1>5
    <3>3. i = j \/ i < j
      BY <1>1, <2>1, <3>2
    <3>4. i < j => free_list[i] + property[free_list[i]] < free_list[j]
      BY <2>1 DEF PagesInv, Gapped
    <3>. QED  BY <1>1, <2>1, <3>2, <3>3, <3>4
  <2>6. Min(F) = free_list[i]
    <3>1. F \in SUBSET Nat /\ F # {}
      BY <1>2, <1>3, <2>4
    <3>2. Min(F) \in F /\ Min(F) <= free_list[i]
      BY <2>4, <3>1, MinFacts
    <3>3. free_list[i] <= Min(F)
      BY <2>5, <3>2
    <3>4. Min(F) \in Nat /\ free_list[i] \in Nat
      BY <1>1, <2>1, <3>1, <3>2
    <3>. HIDE DEF len
    <3>. QED  BY <3>2, <3>3, <3>4
  <2>7. Promised!Alloc(n)
    <3>1. F # {} /\ result' = Min(F) /\ FreePages' = FreePages \ Promised!Run(Min(F), n)
      BY <2>3, <2>4, <2>6 DEF Promised!Run
    <3>2. /\ Promised!Fits(n) # {} /\ result' = Min(Promised!Fits(n))
          /\ FreePages' = FreePages \ Promised!Run(Min(Promised!Fits(n)), n)
      BY <3>1 DEF F
    <3>3. Promised!Min(Promised!Fits(n)) = Min(Promised!Fits(n))
      BY DEF Promised!Min, Min
    <3>. QED  BY <3>2, <3>3 DEF Promised!Alloc
  <2>. QED  BY <2>3, <2>7
<1>. QED  BY <1>6, <1>7

-----------------------------------------------------------------------------
(* default_free_pages: one turn of its loop, and the loop. *)

\* The record that the loop works on.
Acc == [base : Pages, list : Seq(Pages), property : [Pages -> Nat], flags : SUBSET Pages]

\* One turn, written out.
LEMMA MergeFacts ==
  ASSUME NEW acc \in Acc, NEW p \in Pages
  PROVE  /\ Merge(acc, p) \in Acc
         /\ LET r == Merge(acc, p) IN
            IF p + acc.property[p] = acc.base
              THEN /\ r.base = p /\ r.list = acc.list /\ r.flags = acc.flags \ {acc.base}
                   /\ r.property[p] = acc.property[p] + acc.property[acc.base]
                   /\ \A q \in Pages : q # p => r.property[q] = acc.property[q]
            ELSE IF acc.base + acc.property[acc.base] = p
              THEN /\ r.base = acc.base /\ r.list = acc.list /\ r.flags = acc.flags \ {p}
                   /\ r.property[acc.base] = acc.property[acc.base] + acc.property[p]
                   /\ \A q \in Pages : q # acc.base => r.property[q] = acc.property[q]
            ELSE /\ r.base = acc.base /\ r.list = Append(acc.list, p) /\ r.flags = acc.flags
                 /\ r.property = acc.property
<1>1. /\ acc.base \in Pages /\ acc.list \in Seq(Pages) /\ acc.property \in [Pages -> Nat]
      /\ acc.flags \subseteq Pages
      /\ acc = [base |-> acc.base, list |-> acc.list, property |-> acc.property, flags |-> acc.flags]
  BY DEF Acc
<1>. DEFINE r == Merge(acc, p)
<1>2. CASE p + acc.property[p] = acc.base
  <2>1. r = [base |-> p, list |-> acc.list,
             property |-> [acc.property EXCEPT ![p] = acc.property[p] + acc.property[acc.base]],
             flags |-> acc.flags \ {acc.base}]
    BY <1>1, <1>2 DEF Merge
  <2>. HIDE DEF r
  <2>2. /\ r.base = p /\ r.list = acc.list /\ r.flags = acc.flags \ {acc.base}
        /\ r.property = [acc.property EXCEPT ![p] = acc.property[p] + acc.property[acc.base]]
    BY <2>1
  <2>3. acc.property[p] + acc.property[acc.base] \in Nat
    BY <1>1
  <2>4. /\ r.property \in [Pages -> Nat]
        /\ r.property[p] = acc.property[p] + acc.property[acc.base]
        /\ \A q \in Pages : q # p => r.property[q] = acc.property[q]
    BY <1>1, <2>2, <2>3
  <2>5. r \in Acc
    BY <1>1, <2>1, <2>2, <2>4 DEF Acc
  <2>. QED  BY <1>2, <2>2, <2>4, <2>5 DEF r
<1>3. CASE ~(p + acc.property[p] = acc.base) /\ acc.base + acc.property[acc.base] = p
  <2>1. r = [base |-> acc.base, list |-> acc.list,
             property |-> [acc.property EXCEPT ![acc.base] = acc.property[acc.base] + acc.property[p]],
             flags |-> acc.flags \ {p}]
    BY <1>1, <1>3 DEF Merge
  <2>. HIDE DEF r
  <2>2. /\ r.base = acc.base /\ r.list = acc.list /\ r.flags = acc.flags \ {p}
        /\ r.property = [acc.property EXCEPT ![acc.base] = acc.property[acc.base] + acc.property[p]]
    BY <2>1
  <2>3. acc.property[p] + acc.property[acc.base] \in Nat
    BY <1>1
  <2>4. /\ r.property \in [Pages -> Nat]
        /\ r.property[acc.base] = acc.property[acc.base] + acc.property[p]
        /\ \A q \in Pages : q # acc.base => r.property[q] = acc.property[q]
    BY <1>1, <2>2, <2>3
  <2>5. r \in Acc
    BY <1>1, <2>1, <2>2, <2>4 DEF Acc
  <2>. QED  BY <1>3, <2>2, <2>4, <2>5 DEF r
<1>4. CASE ~(p + acc.property[p] = acc.base) /\ ~(acc.base + acc.property[acc.base] = p)
  <2>1. r = [base |-> acc.base, list |-> Append(acc.list, p), property |-> acc.property,
             flags |-> acc.flags]
    BY <1>1, <1>4 DEF Merge
  <2>. HIDE DEF r
  <2>2. /\ r.base = acc.base /\ r.list = Append(acc.list, p) /\ r.flags = acc.flags
        /\ r.property = acc.property
    BY <2>1
  <2>3. Append(acc.list, p) \in Seq(Pages)
    BY <1>1
  <2>5. r \in Acc
    BY <1>1, <2>1, <2>2, <2>3 DEF Acc
  <2>. QED  BY <1>4, <2>2, <2>5 DEF r
<1>. QED  BY <1>2, <1>3, <1>4

\* The loop does one turn for each block of the list.
LEMMA MergingFacts ==
  ASSUME NEW start \in Acc, NEW list \in Seq(Pages)
  PROVE  /\ Merging(start, list)[0] = start
         /\ \A i \in 0..Len(list) : Merging(start, list)[i] \in Acc
         /\ \A i \in 1..Len(list) : Merging(start, list)[i] = Merge(Merging(start, list)[i - 1], list[i])
<1>n. PICK n : n = Len(list)
  OBVIOUS
<1>1. n \in Nat /\ \A i \in 1..n : list[i] \in Pages
  BY <1>n
<1>. DEFINE step == [i \in 1..n |-> [a \in Acc |-> Merge(a, list[i])]]
<1>2. step \in [1..n -> [Acc -> Acc]]
  BY <1>1, MergeFacts
<1>3. \A a \in Acc : \A i \in 1..n : step[i][a] = Merge(a, list[i])
  OBVIOUS
<1>. HIDE DEF step
<1>4. PICK f \in [0..n -> Acc] : f[0] = start /\ \A i \in 1..n : f[i] = step[i][f[i - 1]]
  <2>x. PICK x : x = start
    OBVIOUS
  <2>A. PICK A : A = Acc
    OBVIOUS
  <2>s. PICK st : st = step
    OBVIOUS
  <2>1. n \in Nat /\ x \in A /\ st \in [1..n -> [A -> A]]
    BY <1>1, <1>2, <2>x, <2>A, <2>s
  <2>2. \E f : RunOf(A, x, n, st, f)
    BY <2>1, RunsExist
  <2>. QED  BY <2>2, <2>x, <2>A, <2>s DEF RunOf
<1>5. \A i \in 1..n : f[i - 1] \in Acc /\ f[i] = Merge(f[i - 1], list[i])
  <2>. TAKE i \in 1..n
  <2>1. i - 1 \in 0..n
    BY <1>1
  <2>2. f[i - 1] \in Acc
    BY <2>1
  <2>. QED  BY <1>3, <1>4, <2>2
<1>. DEFINE Step(g, i) == IF i = 0 THEN start ELSE Merge(g[i - 1], list[i])
            Right(g) == g = [i \in 0..n |-> Step(g, i)]
<1>6. Right(f)
  <2>1. \A i \in 0..n : f[i] = Step(f, i)
    <3>. TAKE i \in 0..n
    <3>1. i = 0 \/ i \in 1..n
      BY <1>1
    <3>2. i \in 1..n => i # 0
      BY <1>1
    <3>. QED  BY <1>4, <1>5, <3>1, <3>2
  <2>. QED  BY <2>1
<1>g. PICK g : g = Merging(start, list)
  OBVIOUS
<1>7. g = CHOOSE h : Right(h)
  BY <1>g, <1>n DEF Merging
<1>8. Right(g)
  <2>. HIDE DEF Right
  <2>. QED  BY <1>6, <1>7
<1>9. g[0] = start
  BY <1>1, <1>8
<1>10. \A i \in 1..n : g[i] = Merge(g[i - 1], list[i])
  <2>. TAKE i \in 1..n
  <2>1. i \in 0..n /\ i # 0
    BY <1>1
  <2>2. g[i] = Step(g, i)
    BY <1>8, <2>1
  <2>. QED  BY <2>1, <2>2
<1>11. \A i \in 0..n : g[i] \in Acc
  <2>. DEFINE Bad == {i \in 0..n : g[i] \notin Acc}
  <2>1. SUFFICES ASSUME Bad # {}  PROVE FALSE
    OBVIOUS
  <2>2. Bad \in SUBSET Nat
    OBVIOUS
  <2>k. PICK k : k = Min(Bad)
    OBVIOUS
  <2>3. k \in Bad /\ \A c \in Bad : k <= c
    <3>. HIDE DEF Bad
    <3>. QED  BY <2>1, <2>2, <2>k, MinFacts
  <2>4. k \in 0..n /\ g[k] \notin Acc /\ k # 0
    BY <1>9, <2>3
  <2>5. k \in 1..n /\ k - 1 \in 0..n /\ ~(k <= k - 1)
    BY <1>1, <2>4
  <2>6. g[k - 1] \in Acc
    BY <2>3, <2>5
  <2>7. g[k] = Merge(g[k - 1], list[k]) /\ list[k] \in Pages
    BY <1>1, <1>10, <2>5
  <2>. QED  BY <2>4, <2>6, <2>7, MergeFacts
<1>. QED  BY <1>9, <1>10, <1>11, <1>g, <1>n

\* The pages of a list of blocks, from its i-th on.
Covered(list, size, i) == {q \in Nat : \E j \in i..Len(list) : q \in Extent(size, list[j])}

\* What is so after i turns of the merge loop.  F are the free pages from the first on
\* to the released ones.
TurnOK(acc, i, F) ==
  LET L == free_list  end == acc.base + acc.property[acc.base] IN
  /\ acc \in Acc /\ acc.property[acc.base] > 0
  /\ \A j \in i + 1..Len(L) : /\ acc.property[L[j]] = property[L[j]]
                              /\ L[j] + property[L[j]] <= acc.base \/ end <= L[j]
  /\ Gapped(acc.list, acc.property)
  /\ \A k \in 1..Len(acc.list) :
       /\ acc.list[k] + acc.property[acc.list[k]] < acc.base \/ end < acc.list[k]
       /\ \A j \in i + 1..Len(L) : acc.list[k] + acc.property[acc.list[k]] < L[j]
  /\ acc.flags = ToSet(acc.list) \cup {acc.base} \cup {L[j] : j \in i + 1..Len(L)}
  /\ F = Extent(acc.property, acc.base) \cup Covered(acc.list, acc.property, 1)
           \cup Covered(L, property, i + 1)

\* A list covers its i-th block and what the blocks behind it cover.
LEMMA CoveredFacts ==
  ASSUME NEW list \in Seq(Pages), NEW size \in [Pages -> Nat], NEW i \in 1..Len(list) + 1
  PROVE  /\ \A q : q \in Covered(list, size, i) <=> \E j \in i..Len(list) : q \in Extent(size, list[j])
         /\ i <= Len(list) => Covered(list, size, i)
                                = Extent(size, list[i]) \cup Covered(list, size, i + 1)
         /\ Covered(list, size, Len(list) + 1) = {}
<1>1. /\ Len(list) \in Nat
      /\ \A j \in 1..Len(list) : list[j] \in Nat /\ list[j] \in Pages /\ size[list[j]] \in Nat
  BY PageListFacts
<1>2. ASSUME NEW k \in 1..Len(list) + 1
      PROVE  \A q : q \in Covered(list, size, k) <=> \E j \in k..Len(list) : q \in Extent(size, list[j])
  <2>1. \A j \in k..Len(list) : \A q \in Extent(size, list[j]) : q \in Nat
    BY <1>1 DEF Extent
  <2>. QED  BY <2>1 DEF Covered
<1>3. ASSUME i <= Len(list)
      PROVE  Covered(list, size, i) = Extent(size, list[i]) \cup Covered(list, size, i + 1)
  <2>1. i \in i..Len(list) /\ i + 1 \in 1..Len(list) + 1
    BY <1>1, <1>3
  <2>2. \A j : j \in i..Len(list) <=> j = i \/ j \in i + 1..Len(list)
    BY <1>1, <1>3
  <2>3. \A q : q \in Covered(list, size, i) <=>
               q \in Extent(size, list[i]) \/ q \in Covered(list, size, i + 1)
    <3>1. \A q : q \in Covered(list, size, i + 1) <=> \E j \in i + 1..Len(list) : q \in Extent(size, list[j])
      BY <1>2, <2>1
    <3>2. \A q : q \in Covered(list, size, i) <=> \E j \in i..Len(list) : q \in Extent(size, list[j])
      BY <1>2
    <3>. QED  BY <2>2, <3>1, <3>2
  <2>. QED  BY <2>3
<1>4. Covered(list, size, Len(list) + 1) = {}
  <2>1. Len(list) + 1 \in 1..Len(list) + 1
    BY <1>1
  <2>2. Len(list) + 1..Len(list) = {}
    BY <1>1
  <2>3. \A q : q \notin Covered(list, size, Len(list) + 1)
    BY <1>2, <2>1, <2>2
  <2>. QED  BY <2>3
<1>. QED  BY <1>2, <1>3, <1>4

\* Sizes that agree on a list make no difference to what it covers and whether it is
\* in order.
LEMMA SameSizes ==
  ASSUME NEW list \in Seq(Pages), NEW a \in [Pages -> Nat], NEW b \in [Pages -> Nat],
         \A k \in 1..Len(list) : a[list[k]] = b[list[k]]
  PROVE  /\ Gapped(list, a) <=> Gapped(list, b)
         /\ Covered(list, a, 1) = Covered(list, b, 1)
<1>1. \A k \in 1..Len(list) : Extent(a, list[k]) = Extent(b, list[k])
  BY DEF Extent
<1>. QED  BY <1>1 DEF Gapped, Covered

\* Blocks after the i-th.
LEMMA LaterBlocks ==
  ASSUME PagesInv, NEW i \in 0..Len(free_list) - 1
  PROVE  LET p == free_list[i + 1] IN
         /\ i + 1 \in 1..Len(free_list) /\ p \in Pages /\ p \in Nat
         /\ property[p] \in Nat /\ property[p] > 0
         /\ \A j \in i + 2..Len(free_list) :
              /\ j \in i + 1..Len(free_list) /\ free_list[j] \in Nat /\ free_list[j] \in Pages
              /\ property[free_list[j]] \in Nat /\ property[free_list[j]] > 0
              /\ p + property[p] < free_list[j]
              /\ free_list[j] # p
<1>1. /\ free_list \in Seq(Pages) /\ Len(free_list) \in Nat /\ property \in [Pages -> Nat]
      /\ \A j \in 1..Len(free_list) : free_list[j] \in Nat /\ free_list[j] \in Pages
      /\ \A j \in 1..Len(free_list) : property[free_list[j]] \in Nat
  BY PageListFacts DEF PagesInv, PagesTypeOK
<1>2. /\ \A j \in 1..Len(free_list) : property[free_list[j]] > 0
      /\ \A j, k \in 1..Len(free_list) : j < k => free_list[j] + property[free_list[j]] < free_list[k]
  BY DEF PagesInv, Gapped
<1>3. i + 1 \in 1..Len(free_list)
  BY <1>1
<1>4. \A j \in i + 2..Len(free_list) : j \in 1..Len(free_list) /\ j \in i + 1..Len(free_list) /\ i + 1 < j
  BY <1>1
<1>5. \A j \in i + 2..Len(free_list) :
        /\ free_list[i + 1] + property[free_list[i + 1]] < free_list[j]
        /\ property[free_list[j]] > 0
  BY <1>2, <1>3, <1>4
<1>6. \A j \in i + 2..Len(free_list) : free_list[j] # free_list[i + 1]
  BY <1>1, <1>2, <1>3, <1>4, <1>5
<1>. QED  BY <1>1, <1>2, <1>3, <1>4, <1>5, <1>6

\* A turn that meets the block in front of the released pages, the one behind them, or
\* another one.
LEMMA TurnStep ==
  ASSUME PagesInv, NEW i \in 0..Len(free_list) - 1, NEW acc, NEW F, TurnOK(acc, i, F)
  PROVE  TurnOK(Merge(acc, free_list[i + 1]), i + 1, F)
<1>r. PICK r : r = Merge(acc, free_list[i + 1])
  OBVIOUS
<1>p. PICK p : p = free_list[i + 1]
  OBVIOUS
<1>b. PICK b : b = acc.base
  OBVIOUS
<1>s. PICK s : s = acc.property[b]
  OBVIOUS
<1>z. PICK z : z = property[p]
  OBVIOUS
<1>n. PICK n : n = Len(free_list)
  OBVIOUS
<1>m. PICK m : m = Len(acc.list)
  OBVIOUS
<1>1. /\ acc \in Acc /\ acc.base \in Pages /\ acc.list \in Seq(Pages)
      /\ acc.property \in [Pages -> Nat]
      /\ free_list \in Seq(Pages) /\ property \in [Pages -> Nat] /\ n \in Nat /\ i \in Nat
      /\ i \in 0..n - 1
  BY <1>n, PageListFacts DEF TurnOK, Acc, PagesInv, PagesTypeOK
<1>2. /\ i + 1 \in i + 1..n /\ p \in Pages /\ p \in Nat /\ z \in Nat /\ z > 0
      /\ b \in Pages /\ b \in Nat /\ s \in Nat /\ s > 0
  <2>1. p \in Pages /\ p \in Nat /\ z \in Nat /\ z > 0
    BY <1>p, <1>z, LaterBlocks
  <2>2. b \in Pages /\ s \in Nat /\ s > 0
    BY <1>1, <1>b, <1>s DEF TurnOK
  <2>3. b \in Nat
    BY <2>2, PagesAreNumbers
  <2>4. i + 1 \in i + 1..n
    BY <1>1
  <2>. QED  BY <2>1, <2>2, <2>3, <2>4
<1>3. acc.property[p] = z /\ (p + z <= b \/ b + s <= p)
  BY <1>2, <1>p, <1>b, <1>s, <1>z, <1>n DEF TurnOK
<1>4. p # b
  BY <1>2, <1>3
<1>5. ASSUME NEW j \in i + 2..n
      PROVE  /\ free_list[j] \in Nat /\ free_list[j] \in Pages
             /\ property[free_list[j]] \in Nat /\ property[free_list[j]] > 0
             /\ acc.property[free_list[j]] = property[free_list[j]]
             /\ free_list[j] + property[free_list[j]] <= b \/ b + s <= free_list[j]
             /\ p + z < free_list[j]
             /\ free_list[j] # p /\ free_list[j] # b
  <2>1. /\ j \in i + 1..n /\ free_list[j] \in Nat /\ free_list[j] \in Pages
        /\ property[free_list[j]] \in Nat /\ property[free_list[j]] > 0
        /\ p + z < free_list[j] /\ free_list[j] # p
    BY <1>p, <1>z, <1>n, LaterBlocks
  <2>2. /\ acc.property[free_list[j]] = property[free_list[j]]
        /\ free_list[j] + property[free_list[j]] <= b \/ b + s <= free_list[j]
    BY <1>b, <1>s, <1>n, <2>1 DEF TurnOK
  <2>3. free_list[j] # b
    BY <1>2, <2>1, <2>2
  <2>. QED  BY <2>1, <2>2, <2>3
<1>6. /\ m \in Nat
      /\ \A k \in 1..m : /\ acc.list[k] \in Nat /\ acc.list[k] \in Pages
                         /\ acc.property[acc.list[k]] \in Nat
  BY <1>1, <1>m, PageListFacts
<1>7. /\ \A k \in 1..m : acc.property[acc.list[k]] > 0
      /\ \A k, l \in 1..m : k < l => acc.list[k] + acc.property[acc.list[k]] < acc.list[l]
      /\ Gapped(acc.list, acc.property)
  BY <1>m DEF TurnOK, Gapped
<1>8. ASSUME NEW k \in 1..m
      PROVE  /\ acc.list[k] + acc.property[acc.list[k]] < b \/ b + s < acc.list[k]
             /\ acc.list[k] + acc.property[acc.list[k]] < p
             /\ \A j \in i + 2..n : acc.list[k] + acc.property[acc.list[k]] < free_list[j]
             /\ acc.list[k] # b /\ acc.list[k] # p
             /\ \A j \in i + 2..n : acc.list[k] # free_list[j]
  <2>1. /\ acc.list[k] + acc.property[acc.list[k]] < b \/ b + s < acc.list[k]
        /\ \A j \in i + 1..n : acc.list[k] + acc.property[acc.list[k]] < free_list[j]
    BY <1>b, <1>s, <1>n, <1>m DEF TurnOK
  <2>2. \A j \in i + 2..n : j \in i + 1..n
    BY <1>1
  <2>3. acc.list[k] + acc.property[acc.list[k]] < p
    BY <1>2, <1>p, <2>1
  <2>4. acc.list[k] # b /\ acc.list[k] # p
    <3>x. PICK x : x = acc.list[k]
      OBVIOUS
    <3>y. PICK y : y = acc.property[x]
      OBVIOUS
    <3>1. x \in Nat /\ y \in Nat /\ y > 0
      BY <1>6, <1>7, <3>x, <3>y
    <3>2. (x + y < b \/ b + s < x) /\ x + y < p
      BY <2>1, <2>3, <3>x, <3>y
    <3>3. x # b /\ x # p
      BY <1>2, <3>1, <3>2
    <3>. QED  BY <3>x, <3>3
  <2>5. \A j \in i + 2..n : acc.list[k] # free_list[j]
    BY <1>5, <1>6, <1>7, <2>1, <2>2
  <2>. QED  BY <2>1, <2>2, <2>3, <2>4, <2>5
<1>9. /\ {free_list[j] : j \in i + 1..n} = {p} \cup {free_list[j] : j \in i + 2..n}
      /\ acc.flags = ToSet(acc.list) \cup {b} \cup {p} \cup {free_list[j] : j \in i + 2..n}
  <2>1. \A j : j \in i + 1..n <=> j = i + 1 \/ j \in i + 2..n
    BY <1>1
  <2>2. {free_list[j] : j \in i + 1..n} = {p} \cup {free_list[j] : j \in i + 2..n}
    BY <1>p, <2>1
  <2>3. acc.flags = ToSet(acc.list) \cup {b} \cup {free_list[j] : j \in i + 1..n}
    BY <1>b, <1>n DEF TurnOK
  <2>. QED  BY <2>2, <2>3
<1>10. /\ b \notin ToSet(acc.list) /\ p \notin ToSet(acc.list)
       /\ b \notin {free_list[j] : j \in i + 2..n} /\ p \notin {free_list[j] : j \in i + 2..n}
  <2>1. \A x \in ToSet(acc.list) : \E k \in 1..m : x = acc.list[k]
    BY <1>1, <1>m, PageListFacts
  <2>. QED  BY <1>5, <1>8, <2>1
<1>11. F = Extent(acc.property, b) \cup Covered(acc.list, acc.property, 1)
             \cup (Extent(property, p) \cup Covered(free_list, property, i + 2))
  <2>1. Covered(free_list, property, i + 1)
          = Extent(property, free_list[i + 1]) \cup Covered(free_list, property, (i + 1) + 1)
    <3>1. i + 1 \in 1..Len(free_list) + 1 /\ i + 1 <= Len(free_list)
      BY <1>1, <1>n
    <3>. QED  BY <1>1, <3>1, CoveredFacts
  <2>2. (i + 1) + 1 = i + 2
    BY <1>1
  <2>3. F = Extent(acc.property, b) \cup Covered(acc.list, acc.property, 1)
              \cup Covered(free_list, property, i + 1)
    BY <1>b DEF TurnOK
  <2>. QED  BY <1>p, <2>1, <2>2, <2>3
<1>12. /\ Extent(acc.property, b) = b..b + s - 1
       /\ Extent(property, p) = p..p + z - 1
  BY <1>s, <1>z DEF Extent
<1>13. SUFFICES
         /\ r \in Acc /\ r.property[r.base] > 0
         /\ \A j \in i + 2..n :
              /\ r.property[free_list[j]] = property[free_list[j]]
              /\ \/ free_list[j] + property[free_list[j]] <= r.base
                 \/ r.base + r.property[r.base] <= free_list[j]
         /\ Gapped(r.list, r.property)
         /\ \A k \in 1..Len(r.list) :
              /\ \/ r.list[k] + r.property[r.list[k]] < r.base
                 \/ r.base + r.property[r.base] < r.list[k]
              /\ \A j \in i + 2..n : r.list[k] + r.property[r.list[k]] < free_list[j]
         /\ r.flags = ToSet(r.list) \cup {r.base} \cup {free_list[j] : j \in i + 2..n}
         /\ F = Extent(r.property, r.base) \cup Covered(r.list, r.property, 1)
                  \cup Covered(free_list, property, i + 2)
  <2>1. (i + 1) + 1 = i + 2
    BY <1>1
  <2>. QED  BY <1>r, <1>n, <2>1 DEF TurnOK
<1>f. /\ r \in Acc
      /\ IF p + z = b
           THEN /\ r.base = p /\ r.list = acc.list /\ r.flags = acc.flags \ {b}
                /\ r.property[p] = z + s
                /\ \A q \in Pages : q # p => r.property[q] = acc.property[q]
         ELSE IF b + s = p
           THEN /\ r.base = b /\ r.list = acc.list /\ r.flags = acc.flags \ {p}
                /\ r.property[b] = s + z
                /\ \A q \in Pages : q # b => r.property[q] = acc.property[q]
         ELSE /\ r.base = b /\ r.list = Append(acc.list, p) /\ r.flags = acc.flags
              /\ r.property = acc.property
  <2>1. /\ Merge(acc, p) \in Acc
        /\ LET x == Merge(acc, p) IN
            IF p + acc.property[p] = acc.base
              THEN /\ x.base = p /\ x.list = acc.list /\ x.flags = acc.flags \ {acc.base}
                   /\ x.property[p] = acc.property[p] + acc.property[acc.base]
                   /\ \A q \in Pages : q # p => x.property[q] = acc.property[q]
            ELSE IF acc.base + acc.property[acc.base] = p
              THEN /\ x.base = acc.base /\ x.list = acc.list /\ x.flags = acc.flags \ {p}
                   /\ x.property[acc.base] = acc.property[acc.base] + acc.property[p]
                   /\ \A q \in Pages : q # acc.base => x.property[q] = acc.property[q]
            ELSE /\ x.base = acc.base /\ x.list = Append(acc.list, p) /\ x.flags = acc.flags
                 /\ x.property = acc.property
    BY <1>1, <1>2, MergeFacts
  <2>2. r = Merge(acc, p) /\ acc.base = b /\ acc.property[b] = s /\ acc.property[p] = z
    BY <1>r, <1>p, <1>b, <1>s, <1>3
  <2>. QED  BY <2>1, <2>2
<1>14. CASE p + z = b
  <2>1. /\ r \in Acc /\ r.base = p /\ r.list = acc.list /\ r.flags = acc.flags \ {b}
        /\ r.property[p] = z + s
        /\ \A q \in Pages : q # p => r.property[q] = acc.property[q]
    BY <1>f, <1>14
  <2>2. r.property \in [Pages -> Nat]
    BY <2>1 DEF Acc
  <2>3. \A k \in 1..m : r.property[acc.list[k]] = acc.property[acc.list[k]]
    BY <1>6, <1>8, <2>1
  <2>4. /\ Gapped(acc.list, r.property)
        /\ Covered(acc.list, r.property, 1) = Covered(acc.list, acc.property, 1)
    BY <1>1, <1>7, <1>m, <2>2, <2>3, SameSizes
  <2>5. \A j \in i + 2..n :
              /\ r.property[free_list[j]] = property[free_list[j]]
              /\ p + (z + s) <= free_list[j]
    <3>. TAKE j \in i + 2..n
    <3>1. /\ free_list[j] \in Nat /\ free_list[j] \in Pages
          /\ property[free_list[j]] \in Nat /\ property[free_list[j]] > 0
          /\ acc.property[free_list[j]] = property[free_list[j]]
          /\ free_list[j] + property[free_list[j]] <= b \/ b + s <= free_list[j]
          /\ p + z < free_list[j] /\ free_list[j] # p
      BY <1>5
    <3>e. PICK e : e = free_list[j]
      OBVIOUS
    <3>d. PICK d : d = property[e]
      OBVIOUS
    <3>4. e \in Nat /\ d \in Nat /\ d > 0 /\ (e + d <= b \/ b + s <= e) /\ p + z < e
      BY <3>1, <3>d, <3>e
    <3>5. p + (z + s) <= e
      BY <1>2, <1>14, <3>4
    <3>3. p + (z + s) <= free_list[j]
      BY <3>5, <3>e
    <3>. QED  BY <2>1, <3>1, <3>3
  <2>6. \A k \in 1..m : /\ acc.list[k] + r.property[acc.list[k]] < p
                        /\ \A j \in i + 2..n : acc.list[k] + r.property[acc.list[k]] < free_list[j]
    BY <1>8, <2>3
  <2>7. r.flags = ToSet(acc.list) \cup {p} \cup {free_list[j] : j \in i + 2..n}
    BY <1>4, <1>9, <1>10, <2>1
  <2>8. Extent(r.property, p) = Extent(acc.property, b) \cup Extent(property, p)
    <3>1. Extent(r.property, p) = p..p + (z + s) - 1
      BY <2>1 DEF Extent
    <3>2. p..p + (z + s) - 1 = (b..b + s - 1) \cup (p..p + z - 1)
      BY <1>2, <1>14
    <3>. QED  BY <1>12, <3>1, <3>2
  <2>9. r.property[r.base] > 0
    BY <1>2, <2>1
  <2>10. F = Extent(r.property, r.base) \cup Covered(r.list, r.property, 1)
               \cup Covered(free_list, property, i + 2)
    BY <1>11, <2>1, <2>4, <2>8
  <2>. QED  BY <1>m, <2>1, <2>4, <2>5, <2>6, <2>7, <2>9, <2>10
<1>15. CASE p + z # b /\ b + s = p
  <2>1. /\ r \in Acc /\ r.base = b /\ r.list = acc.list /\ r.flags = acc.flags \ {p}
        /\ r.property[b] = s + z
        /\ \A q \in Pages : q # b => r.property[q] = acc.property[q]
    BY <1>f, <1>15
  <2>2. r.property \in [Pages -> Nat]
    BY <2>1 DEF Acc
  <2>3. \A k \in 1..m : r.property[acc.list[k]] = acc.property[acc.list[k]]
    BY <1>6, <1>8, <2>1
  <2>4. /\ Gapped(acc.list, r.property)
        /\ Covered(acc.list, r.property, 1) = Covered(acc.list, acc.property, 1)
    BY <1>1, <1>7, <1>m, <2>2, <2>3, SameSizes
  <2>5. \A j \in i + 2..n :
              /\ r.property[free_list[j]] = property[free_list[j]]
              /\ b + (s + z) <= free_list[j]
    <3>. TAKE j \in i + 2..n
    <3>. QED  BY <1>2, <1>5, <1>15, <2>1
  <2>6. \A k \in 1..m : /\ acc.list[k] + r.property[acc.list[k]] < b
                        /\ \A j \in i + 2..n : acc.list[k] + r.property[acc.list[k]] < free_list[j]
    <3>. TAKE k \in 1..m
    <3>1. acc.list[k] + acc.property[acc.list[k]] < b
      BY <1>2, <1>6, <1>7, <1>8, <1>15
    <3>. QED  BY <1>8, <2>3, <3>1
  <2>7. r.flags = ToSet(acc.list) \cup {b} \cup {free_list[j] : j \in i + 2..n}
    BY <1>4, <1>9, <1>10, <2>1
  <2>8. Extent(r.property, b) = Extent(acc.property, b) \cup Extent(property, p)
    <3>1. Extent(r.property, b) = b..b + (s + z) - 1
      BY <2>1 DEF Extent
    <3>2. b..b + (s + z) - 1 = (b..b + s - 1) \cup (p..p + z - 1)
      BY <1>2, <1>15
    <3>. QED  BY <1>12, <3>1, <3>2
  <2>9. r.property[r.base] > 0
    BY <1>2, <2>1
  <2>10. F = Extent(r.property, r.base) \cup Covered(r.list, r.property, 1)
               \cup Covered(free_list, property, i + 2)
    BY <1>11, <2>1, <2>4, <2>8
  <2>. QED  BY <1>m, <2>1, <2>4, <2>5, <2>6, <2>7, <2>9, <2>10
<1>16. CASE p + z # b /\ b + s # p
  <2>1. /\ r \in Acc /\ r.base = b /\ r.list = Append(acc.list, p) /\ r.flags = acc.flags
        /\ r.property = acc.property
    BY <1>f, <1>16
  <2>2. /\ Len(r.list) = m + 1 /\ r.list[m + 1] = p
        /\ \A k \in 1..m : r.list[k] = acc.list[k]
        /\ r.list \in Seq(Pages)
        /\ ToSet(r.list) = ToSet(acc.list) \cup {p}
    <3>1. acc.list \in Seq(Pages) /\ p \in Pages
      BY <1>1, <1>2
    <3>2. r.list \in Seq(Pages) /\ ToSet(r.list) = ToSet(acc.list) \cup {p}
      BY <2>1, <3>1, AppendFacts
    <3>. PICK x : x = acc.list
      OBVIOUS
    <3>3. /\ Len(Append(x, p)) = Len(x) + 1 /\ Append(x, p)[Len(x) + 1] = p
          /\ \A k \in 1..Len(x) : Append(x, p)[k] = x[k]
      BY <3>1
    <3>. QED  BY <1>m, <2>1, <3>2, <3>3
  <2>3. \A k \in 1..m + 1 : k = m + 1 \/ k \in 1..m
    BY <1>6
  <2>4. p + z < b \/ b + s < p
    BY <1>2, <1>3, <1>16
  <2>5. Gapped(r.list, r.property)
    <3>1. \A k \in 1..m + 1 : r.property[r.list[k]] > 0
      BY <1>2, <1>3, <1>7, <2>1, <2>2, <2>3
    <3>2. ASSUME NEW k \in 1..m + 1, NEW l \in 1..m + 1, k < l
          PROVE  r.list[k] + r.property[r.list[k]] < r.list[l]
      <4>1. k \in 1..m
        BY <1>6, <3>2
      <4>2. CASE l = m + 1
        BY <1>8, <2>1, <2>2, <4>1, <4>2
      <4>3. CASE l \in 1..m
        BY <1>7, <2>1, <2>2, <3>2, <4>1, <4>3
      <4>. QED  BY <2>3, <4>2, <4>3
    <3>. QED  BY <2>2, <3>1, <3>2 DEF Gapped
  <2>6. ASSUME NEW k \in 1..m + 1
        PROVE  /\ r.list[k] + r.property[r.list[k]] < b \/ b + s < r.list[k]
               /\ \A j \in i + 2..n : r.list[k] + r.property[r.list[k]] < free_list[j]
    <3>1. CASE k = m + 1
      BY <1>3, <1>5, <2>1, <2>2, <2>4, <3>1
    <3>2. CASE k \in 1..m
      BY <1>8, <2>1, <2>2, <3>2
    <3>. QED  BY <2>3, <3>1, <3>2
  <2>7. Covered(r.list, r.property, 1) = Covered(acc.list, acc.property, 1) \cup Extent(property, p)
    <3>1. 1 \in 1..Len(r.list) + 1 /\ 1 \in 1..Len(acc.list) + 1
      BY <1>6, <1>m, <2>2
    <3>2. \A q : q \in Covered(r.list, acc.property, 1)
                   <=> \E k \in 1..m + 1 : q \in Extent(acc.property, r.list[k])
      <4>l. PICK list : list = r.list
        OBVIOUS
      <4>s. PICK size : size = acc.property
        OBVIOUS
      <4>1. list \in Seq(Pages) /\ 1 \in 1..Len(list) + 1 /\ size \in [Pages -> Nat]
        BY <1>1, <2>2, <3>1, <4>s, <4>l
      <4>2. \A q : q \in Covered(list, size, 1) <=> \E k \in 1..Len(list) : q \in Extent(size, list[k])
        BY <4>1, CoveredFacts
      <4>. QED  BY <2>2, <4>2, <4>s, <4>l
    <3>3. \A q : q \in Covered(acc.list, acc.property, 1)
                   <=> \E k \in 1..m : q \in Extent(acc.property, acc.list[k])
      BY <1>1, <1>m, <3>1, CoveredFacts
    <3>4. Extent(acc.property, p) = Extent(property, p)
      BY <1>3, <1>z DEF Extent
    <3>5. m + 1 \in 1..m + 1 /\ \A k \in 1..m : k \in 1..m + 1
      BY <1>6
    <3>6. ASSUME NEW q  PROVE q \in Covered(r.list, acc.property, 1) <=>
                 q \in Covered(acc.list, acc.property, 1) \/ q \in Extent(property, p)
      <4>1. ASSUME NEW k \in 1..m + 1, q \in Extent(acc.property, r.list[k])
            PROVE  q \in Covered(acc.list, acc.property, 1) \/ q \in Extent(property, p)
        BY <2>2, <2>3, <3>3, <3>4, <4>1
      <4>2. ASSUME q \in Covered(acc.list, acc.property, 1) \/ q \in Extent(property, p)
            PROVE  \E k \in 1..m + 1 : q \in Extent(acc.property, r.list[k])
        BY <2>2, <3>3, <3>4, <3>5, <4>2
      <4>. QED  BY <3>2, <4>1, <4>2
    <3>. QED  BY <2>1, <3>6
  <2>8. r.flags = ToSet(r.list) \cup {b} \cup {free_list[j] : j \in i + 2..n}
    BY <1>9, <2>1, <2>2
  <2>9. F = Extent(r.property, r.base) \cup Covered(r.list, r.property, 1)
               \cup Covered(free_list, property, i + 2)
    BY <1>11, <2>1, <2>7
  <2>10. /\ r.property[r.base] > 0
         /\ r.base + r.property[r.base] = b + s
    BY <1>2, <1>s, <2>1
  <2>11. \A j \in i + 2..n :
              /\ r.property[free_list[j]] = property[free_list[j]]
              /\ \/ free_list[j] + property[free_list[j]] <= b
                 \/ b + s <= free_list[j]
    BY <1>5, <2>1
  <2>. QED  BY <2>1, <2>2, <2>5, <2>6, <2>8, <2>9, <2>10, <2>11
<1>. QED  BY <1>14, <1>15, <1>16

\* Where the merge loop starts, for the n pages from base on.
Releasing(base, n) ==
  [base |-> base, list |-> <<>>,
   property |-> [p \in Pages |-> IF p = base THEN n
                                 ELSE IF p \in base..base + n - 1 THEN 0 ELSE property[p]],
   flags |-> (PG_property \ (base..base + n - 1)) \cup {base}]

\* Before the loop the released pages are a block of their own, outside the list.
LEMMA TurnsStart ==
  ASSUME PagesInv, NEW base \in Nat, NEW n \in Nat \ {0},
         base..base + n - 1 \subseteq Pages \ FreePages
  PROVE  TurnOK(Releasing(base, n), 0, base..base + n - 1 \cup FreePages)
<1>R. PICK R : R = base..base + n - 1
  OBVIOUS
<1>a. PICK acc : acc = Releasing(base, n)
  OBVIOUS
<1>l. PICK len : len = Len(free_list)
  OBVIOUS
<1>1. /\ free_list \in Seq(Pages) /\ len \in Nat /\ property \in [Pages -> Nat]
      /\ \A j \in 1..len : /\ free_list[j] \in Nat /\ free_list[j] \in Pages
                           /\ property[free_list[j]] \in Nat
      /\ \A x : x \in ToSet(free_list) <=> \E j \in 1..len : x = free_list[j]
      /\ PG_property = ToSet(free_list) /\ PG_property \subseteq Pages
  BY <1>l, PageListFacts DEF PagesInv, PagesTypeOK, FlagsExact
<1>2. /\ base \in R /\ R \subseteq Pages \ FreePages /\ base \in Pages
      /\ \A x \in Nat : base <= x /\ x < base + n => x \in R
  BY <1>R
<1>3. /\ acc.base = base /\ acc.list = <<>>
      /\ acc.property = [p \in Pages |-> IF p = base THEN n ELSE IF p \in R THEN 0 ELSE property[p]]
      /\ acc.flags = (PG_property \ R) \cup {base}
  BY <1>R, <1>a DEF Releasing
<1>4. /\ acc.property \in [Pages -> Nat] /\ acc.property[base] = n
      /\ \A p \in Pages \ R : acc.property[p] = property[p]
  BY <1>1, <1>2, <1>3
<1>5. acc \in Acc
  <2>1. acc.list \in Seq(Pages)
    BY <1>3
  <2>2. acc.flags \subseteq Pages
    BY <1>1, <1>2, <1>3
  <2>3. acc = [base |-> acc.base, list |-> acc.list, property |-> acc.property, flags |-> acc.flags]
    BY <1>a DEF Releasing
  <2>. QED  BY <1>2, <1>3, <1>4, <2>1, <2>2, <2>3 DEF Acc
<1>6. ASSUME NEW j \in 1..len
      PROVE  /\ free_list[j] \notin R /\ acc.property[free_list[j]] = property[free_list[j]]
             /\ free_list[j] + property[free_list[j]] <= base \/ base + n <= free_list[j]
  <2>1. property[free_list[j]] > 0 /\ BlockOf(free_list[j]) \subseteq FreePages
    BY <1>l, FreePagesFacts DEF PagesInv, Gapped
  <2>2. \A x \in Nat : free_list[j] <= x /\ x < free_list[j] + property[free_list[j]] => x \in FreePages
    BY <1>1, <2>1 DEF BlockOf
  <2>3. free_list[j] \in FreePages
    <3>1. free_list[j] < free_list[j] + property[free_list[j]] /\ free_list[j] <= free_list[j]
      BY <1>1, <2>1
    <3>. QED  BY <1>1, <2>2, <3>1
  <2>4. SUFFICES ASSUME base < free_list[j] + property[free_list[j]], free_list[j] < base + n
                 PROVE  FALSE
    BY <1>1, <1>2, <1>4, <2>3
  <2>5. CASE free_list[j] <= base
    BY <1>2, <2>2, <2>4, <2>5
  <2>6. CASE base <= free_list[j]
    BY <1>1, <1>2, <2>3, <2>4, <2>6
  <2>. QED  BY <1>1, <2>5, <2>6
<1>7. acc.flags = ToSet(acc.list) \cup {acc.base} \cup {free_list[j] : j \in 1..len}
  <2>1. ToSet(acc.list) = {}
    BY <1>3, EmptyFacts
  <2>2. PG_property = {free_list[j] : j \in 1..len}
    BY <1>1
  <2>3. PG_property \ R = PG_property
    BY <1>6, <2>2
  <2>. QED  BY <1>3, <2>1, <2>2, <2>3
<1>8. Len(acc.list) = 0
  BY <1>3
<1>9. Gapped(acc.list, acc.property)
  BY <1>8 DEF Gapped
<1>10. R \cup FreePages = Extent(acc.property, acc.base) \cup Covered(acc.list, acc.property, 1)
                            \cup Covered(free_list, property, 1)
  <2>1. Extent(acc.property, acc.base) = R
    BY <1>R, <1>3, <1>4 DEF Extent
  <2>2. Covered(acc.list, acc.property, 1) = {}
    BY <1>8 DEF Covered
  <2>3. Covered(free_list, property, 1) = FreePages
    <3>1. 1 \in 1..Len(free_list) + 1
      BY <1>1, <1>l
    <3>2. \A q : q \in Covered(free_list, property, 1) <=> \E j \in 1..Len(free_list) : q \in Extent(property, free_list[j])
      BY <1>1, <3>1, CoveredFacts
    <3>3. \A q : q \in FreePages <=> \E j \in 1..Len(free_list) : q \in Extent(property, free_list[j])
      BY FreePagesFacts DEF BlockOf, Extent
    <3>. QED  BY <3>2, <3>3
  <2>. QED  BY <2>1, <2>2, <2>3
<1>11. acc.property[acc.base] = n /\ n > 0 /\ 0 + 1 = 1
  BY <1>3, <1>4
<1>12. TurnOK(acc, 0, R \cup FreePages)
  BY <1>3, <1>5, <1>6, <1>7, <1>8, <1>9, <1>10, <1>11, <1>l DEF TurnOK
<1>. QED  BY <1>12, <1>R, <1>a

\* The loop keeps TurnOK: the first turn that broke it would contradict TurnStep.
LEMMA TurnsEnd ==
  ASSUME PagesInv, NEW start, NEW F, TurnOK(start, 0, F)
  PROVE  TurnOK(Merging(start, free_list)[Len(free_list)], Len(free_list), F)
<1>l. PICK n : n = Len(free_list)
  OBVIOUS
<1>g. PICK g : g = Merging(start, free_list)
  OBVIOUS
<1>1. free_list \in Seq(Pages) /\ n \in Nat /\ start \in Acc
  BY <1>l, PageListFacts DEF PagesInv, PagesTypeOK, TurnOK
<1>2. g[0] = start /\ \A i \in 1..n : g[i] = Merge(g[i - 1], free_list[i])
  BY <1>1, <1>l, <1>g, MergingFacts
<1>. DEFINE Bad == {i \in 0..n : ~TurnOK(g[i], i, F)}
<1>3. SUFFICES ASSUME Bad # {}  PROVE FALSE
  <2>1. n \in 0..n
    BY <1>1
  <2>. QED  BY <1>l, <1>g, <2>1
<1>4. Bad \in SUBSET Nat
  OBVIOUS
<1>k. PICK k : k = Min(Bad)
  OBVIOUS
<1>5. k \in Bad /\ \A c \in Bad : k <= c
  <2>. HIDE DEF Bad
  <2>. QED  BY <1>3, <1>4, <1>k, MinFacts
<1>6. k \in 0..n /\ ~TurnOK(g[k], k, F) /\ k # 0
  BY <1>2, <1>5
<1>i. PICK i : i = k - 1
  OBVIOUS
<1>7. i \in 0..n - 1 /\ i \in 0..n /\ k \in 1..n /\ ~(k <= i) /\ k = i + 1
  BY <1>1, <1>6, <1>i
<1>8. TurnOK(g[i], i, F)
  <2>1. i \notin Bad
    BY <1>5, <1>7
  <2>. QED  BY <1>7, <2>1
<1>9. TurnOK(Merge(g[i], free_list[i + 1]), i + 1, F)
  BY <1>7, <1>8, <1>l, TurnStep
<1>10. g[k] = Merge(g[i], free_list[i + 1])
  <2>1. g[k] = Merge(g[k - 1], free_list[k])
    BY <1>2, <1>7
  <2>. QED  BY <1>7, <1>i, <2>1
<1>. QED  BY <1>6, <1>7, <1>9, <1>10

\* The merged block goes in front of the first that begins behind it.
LEMMA PlaceFacts ==
  ASSUME NEW acc \in Acc, Gapped(acc.list, acc.property),
         NEW end \in Nat, end = acc.base + acc.property[acc.base],
         \A k \in 1..Len(acc.list) :
           acc.list[k] + acc.property[acc.list[k]] < acc.base \/ end < acc.list[k]
  PROVE  \E c \in 0..Len(acc.list) :
           /\ Place(acc) = c + 1
           /\ \A k \in 1..c : acc.list[k] + acc.property[acc.list[k]] < acc.base
           /\ \A k \in c + 1..Len(acc.list) : end < acc.list[k]
<1>l. PICK L : L = acc.list
  OBVIOUS
<1>s. PICK size : size = acc.property
  OBVIOUS
<1>n. PICK n : n = Len(L)
  OBVIOUS
<1>1. /\ L \in Seq(Pages) /\ n \in Nat /\ size \in [Pages -> Nat] /\ DOMAIN L = 1..n
      /\ \A k \in 1..n : L[k] \in Nat /\ L[k] \in Pages /\ size[L[k]] \in Nat
  <2>1. L \in Seq(Pages) /\ size \in [Pages -> Nat]
    BY <1>l, <1>s DEF Acc
  <2>. QED  BY <1>n, <2>1, PageListFacts
<1>. DEFINE S == {k \in 1..n : end < L[k]} \cup {n + 1}
<1>2. Place(acc) = Min(S)
  BY <1>1, <1>l, <1>s, <1>n DEF Place
<1>3. S \in SUBSET Nat /\ S # {}
  BY <1>1
<1>p. PICK p : p = Min(S)
  OBVIOUS
<1>4. p \in S /\ \A k \in S : p <= k
  <2>. HIDE DEF S
  <2>. QED  BY <1>3, <1>p, MinFacts
<1>5. p \in 1..n + 1
  BY <1>1, <1>4
<1>6. ASSUME NEW k \in 1..p - 1  PROVE L[k] + size[L[k]] < acc.base
  <2>1. k \in 1..n /\ ~(p <= k)
    BY <1>1, <1>5
  <2>2. ~(end < L[k])
    BY <1>4, <2>1
  <2>. QED  BY <1>l, <1>s, <1>n, <2>1, <2>2
<1>7. ASSUME NEW k \in p..n  PROVE end < L[k]
  <2>1. k \in 1..n /\ p \in 1..n
    BY <1>1, <1>5
  <2>2. end < L[p]
    BY <1>1, <1>4, <2>1
  <2>3. CASE k = p
    BY <2>2, <2>3
  <2>4. CASE p < k
    <3>1. L[p] + size[L[p]] < L[k]
      BY <1>l, <1>s, <1>n, <2>1, <2>4 DEF Gapped
    <3>. QED  BY <1>1, <2>1, <2>2, <3>1
  <2>. QED  BY <1>1, <1>5, <2>3, <2>4
<1>c. PICK c : c = p - 1
  OBVIOUS
<1>8. c \in 0..n /\ p = c + 1 /\ c + 1..n = p..n /\ 1..c = 1..p - 1
  BY <1>1, <1>5, <1>c
<1>. QED  BY <1>2, <1>6, <1>7, <1>8, <1>p, <1>l, <1>s, <1>n

\* A release makes the pages free, merges what touches and keeps the order.
LEMMA FreeFacts ==
  ASSUME PagesInv, NEW base \in Nat, NEW n \in Nat \ {0}, FreePagesAt(base, n)
  PROVE  /\ PagesInv'
         /\ base \in Pages /\ base..base + n - 1 \subseteq Pages \ FreePages
         /\ FreePages' = FreePages \cup base..base + n - 1
         /\ result' = result
<1>R. PICK R : R = base..base + n - 1
  OBVIOUS
<1>e. PICK acc : acc = Merging(Releasing(base, n), free_list)[Len(free_list)]
  OBVIOUS
<1>l. PICK len : len = Len(free_list)
  OBVIOUS
<1>1. /\ R \subseteq Pages \ FreePages
      /\ free_list' = InsertAt(acc.list, Place(acc), acc.base)
      /\ property' = acc.property
      /\ PG_property' = acc.flags
      /\ nr_free' = nr_free + n
      /\ result' = result
  BY <1>R, <1>e DEF FreePagesAt, Releasing
<1>2. base \in R
  BY <1>R
<1>3. TurnOK(acc, len, R \cup FreePages)
  <2>1. TurnOK(Releasing(base, n), 0, R \cup FreePages)
    BY <1>1, <1>R, TurnsStart
  <2>. QED  BY <1>e, <1>l, <2>1, TurnsEnd
<1>b. PICK b : b = acc.base
  OBVIOUS
<1>s. PICK size : size = acc.property
  OBVIOUS
<1>L. PICK L : L = acc.list
  OBVIOUS
<1>m. PICK m : m = Len(L)
  OBVIOUS
<1>4. /\ len \in Nat /\ len + 1 \in 1..Len(free_list) + 1
      /\ free_list \in Seq(Pages) /\ property \in [Pages -> Nat]
      /\ result \in Pages \cup {NoPage} /\ nr_free \in Nat
  BY <1>l, PageListFacts DEF PagesInv, PagesTypeOK
<1>5. /\ acc \in Acc /\ b \in Pages /\ b \in Nat /\ size \in [Pages -> Nat] /\ size[b] \in Nat
      /\ L \in Seq(Pages) /\ m \in Nat
      /\ \A k \in 1..m : L[k] \in Nat /\ L[k] \in Pages /\ size[L[k]] \in Nat
      /\ \A x : x \in ToSet(L) <=> \E k \in 1..m : x = L[k]
  <2>1. acc \in Acc /\ b \in Pages /\ size \in [Pages -> Nat] /\ L \in Seq(Pages)
    BY <1>3, <1>b, <1>s, <1>L DEF TurnOK, Acc
  <2>2. b \in Nat /\ size[b] \in Nat
    BY <2>1, PagesAreNumbers
  <2>. QED  BY <1>m, <2>1, <2>2, PageListFacts
<1>6. /\ size[b] > 0
      /\ \A k \in 1..m : size[L[k]] > 0
      /\ \A k, l \in 1..m : k < l => L[k] + size[L[k]] < L[l]
      /\ Gapped(L, size)
      /\ \A k \in 1..m : L[k] + size[L[k]] < b \/ b + size[b] < L[k]
  BY <1>3, <1>b, <1>s, <1>L, <1>m DEF TurnOK, Gapped
<1>7. /\ acc.flags = ToSet(L) \cup {b}
      /\ R \cup FreePages = Extent(size, b) \cup Covered(L, size, 1)
  <2>1. len + 1..Len(free_list) = {}
    BY <1>4, <1>l
  <2>2. {free_list[j] : j \in len + 1..Len(free_list)} = {}
    BY <2>1
  <2>3. Covered(free_list, property, len + 1) = {}
    BY <2>1 DEF Covered
  <2>4. acc.flags = ToSet(L) \cup {b} \cup {free_list[j] : j \in len + 1..Len(free_list)}
    BY <1>3, <1>b, <1>L DEF TurnOK
  <2>5. R \cup FreePages = Extent(size, b) \cup Covered(L, size, 1) \cup Covered(free_list, property, len + 1)
    BY <1>3, <1>b, <1>s, <1>L DEF TurnOK
  <2>. QED  BY <2>2, <2>3, <2>4, <2>5
<1>8. PICK c \in 0..m : /\ Place(acc) = c + 1
                        /\ \A k \in 1..c : L[k] + size[L[k]] < b
                        /\ \A k \in c + 1..m : b + size[b] < L[k]
  <2>1. b + size[b] \in Nat /\ b + size[b] = acc.base + acc.property[acc.base]
    BY <1>5, <1>b, <1>s
  <2>2. /\ Gapped(acc.list, acc.property)
        /\ \A k \in 1..Len(acc.list) :
             acc.list[k] + acc.property[acc.list[k]] < acc.base \/ b + size[b] < acc.list[k]
    BY <1>6, <1>b, <1>s, <1>L, <1>m
  <2>3. \E c \in 0..Len(acc.list) :
           /\ Place(acc) = c + 1
           /\ \A k \in 1..c : acc.list[k] + acc.property[acc.list[k]] < acc.base
           /\ \A k \in c + 1..Len(acc.list) : b + size[b] < acc.list[k]
    BY <1>5, <2>1, <2>2, PlaceFacts
  <2>. QED  BY <2>3, <1>b, <1>s, <1>L, <1>m
<1>f. PICK new : new = free_list'
  OBVIOUS
<1>9. /\ new \in Seq(Pages) /\ Len(new) = m + 1
      /\ \A i \in 1..m + 1 : new[i] = IF i <= c THEN L[i] ELSE IF i = c + 1 THEN b ELSE L[i - 1]
  <2>1. new = InsertAt(L, c + 1, b)
    BY <1>1, <1>8, <1>f, <1>b, <1>L
  <2>2. c \in 0..Len(L)
    BY <1>m
  <2>3. /\ InsertAt(L, c + 1, b) \in Seq(Pages)
        /\ Len(InsertAt(L, c + 1, b)) = Len(L) + 1
        /\ \A i \in 1..Len(L) + 1 :
             InsertAt(L, c + 1, b)[i] = IF i <= c THEN L[i] ELSE IF i = c + 1 THEN b ELSE L[i - 1]
    BY <1>5, <2>2, InsertAtFacts
  <2>. QED  BY <1>m, <2>1, <2>3
<1>10. \A i \in 1..m + 1 : \/ i \in 1..c /\ i \in 1..m /\ new[i] = L[i]
                           \/ i = c + 1 /\ new[i] = b
                           \/ i - 1 \in c + 1..m /\ i - 1 \in 1..m /\ i > c + 1 /\ new[i] = L[i - 1]
  <2>. TAKE i \in 1..m + 1
  <2>1. CASE i <= c
    BY <1>5, <1>9, <2>1
  <2>2. CASE i = c + 1
    BY <1>5, <1>9, <2>2
  <2>3. CASE i > c + 1
    BY <1>5, <1>9, <2>3
  <2>. QED  BY <1>5, <2>1, <2>2, <2>3
<1>11. /\ \A x : x \in ToSet(new) <=> \E i \in 1..m + 1 : x = new[i]
       /\ \A x : x \in ToSet(new) <=> x = b \/ x \in ToSet(L)
  <2>1. \A x : x \in ToSet(new) <=> \E i \in 1..m + 1 : x = new[i]
    BY <1>9, PageListFacts
  <2>2. ASSUME NEW i \in 1..m + 1  PROVE new[i] = b \/ new[i] \in ToSet(L)
    BY <1>5, <1>10
  <2>3. c + 1 \in 1..m + 1 /\ new[c + 1] = b
    BY <1>5, <1>9
  <2>4. ASSUME NEW k \in 1..m  PROVE L[k] \in ToSet(new)
    <3>1. CASE k <= c
      <4>1. k \in 1..m + 1 /\ new[k] = L[k]
        BY <1>5, <1>9, <3>1
      <4>. QED  BY <2>1, <4>1
    <3>2. CASE k > c
      <4>1. k + 1 \in 1..m + 1 /\ ~(k + 1 <= c) /\ k + 1 # c + 1 /\ (k + 1) - 1 = k
        BY <1>5, <3>2
      <4>2. new[k + 1] = L[k]
        BY <1>9, <4>1
      <4>. QED  BY <2>1, <4>1, <4>2
    <3>. QED  BY <1>5, <3>1, <3>2
  <2>. QED  BY <1>5, <2>1, <2>2, <2>3, <2>4
<1>12. Gapped(new, size)
  <2>1. \A i \in 1..m + 1 : size[new[i]] > 0
    BY <1>6, <1>10
  <2>2. ASSUME NEW i \in 1..m + 1, NEW j \in 1..m + 1, i < j
        PROVE  new[i] + size[new[i]] < new[j]
    <3>1. CASE i \in 1..c /\ i \in 1..m /\ new[i] = L[i]
      <4>1. CASE j \in 1..c /\ j \in 1..m /\ new[j] = L[j]
        BY <1>6, <2>2, <3>1, <4>1
      <4>2. CASE j = c + 1 /\ new[j] = b
        BY <1>8, <3>1, <4>2
      <4>3. CASE j - 1 \in c + 1..m /\ j - 1 \in 1..m /\ j > c + 1 /\ new[j] = L[j - 1]
        <5>1. i < j - 1
          BY <1>5, <3>1, <4>3
        <5>. QED  BY <1>6, <3>1, <4>3, <5>1
      <4>. QED  BY <1>10, <4>1, <4>2, <4>3
    <3>2. CASE i = c + 1 /\ new[i] = b
      <4>1. j - 1 \in c + 1..m /\ new[j] = L[j - 1]
        <5>1. ~(j \in 1..c) /\ j # c + 1
          BY <1>5, <2>2, <3>2
        <5>. QED  BY <1>10, <5>1
      <4>. QED  BY <1>8, <3>2, <4>1
    <3>3. CASE i - 1 \in c + 1..m /\ i - 1 \in 1..m /\ i > c + 1 /\ new[i] = L[i - 1]
      <4>1. j - 1 \in 1..m /\ new[j] = L[j - 1]
        <5>1. ~(j \in 1..c) /\ j # c + 1
          BY <1>5, <2>2, <3>3
        <5>. QED  BY <1>10, <5>1
      <4>2. i - 1 < j - 1
        BY <2>2
      <4>. QED  BY <1>6, <3>3, <4>1, <4>2
    <3>. QED  BY <1>10, <3>1, <3>2, <3>3
  <2>. QED  BY <1>9, <2>1, <2>2 DEF Gapped
<1>13. FreePages' = FreePages \cup R
  <2>1. \A q : q \in FreePages' <=> \E x \in ToSet(new) : q \in Extent(size, x)
    BY <1>1, <1>f, <1>s DEF FreePages, BlockOf, Extent
  <2>2. \A q : q \in Covered(L, size, 1) <=> \E k \in 1..m : q \in Extent(size, L[k])
    <3>1. 1 \in 1..Len(L) + 1
      BY <1>5, <1>m
    <3>2. \A q : q \in Covered(L, size, 1) <=> \E k \in 1..Len(L) : q \in Extent(size, L[k])
      BY <1>5, <3>1, CoveredFacts
    <3>. QED  BY <3>2, <1>m
  <2>3. \A q : q \in FreePages' <=> q \in Extent(size, b) \/ q \in Covered(L, size, 1)
    BY <1>5, <1>11, <2>1, <2>2
  <2>. QED  BY <1>7, <2>3
<1>14. /\ IsFiniteSet(FreePages) /\ nr_free = Cardinality(FreePages) /\ FreePages \subseteq Pages
  BY FreePagesFacts
<1>15. CountExact' /\ nr_free' \in Nat
  <2>1. IsFiniteSet(R) /\ Cardinality(R) = n
    BY <1>R, RunFacts
  <2>2. FreePages \cap R = {}
    BY <1>1
  <2>3. Cardinality(FreePages \cup R) = Cardinality(FreePages) + Cardinality(R)
    <3>1. Cardinality(FreePages \cup R) =
            Cardinality(FreePages) + Cardinality(R) - Cardinality(FreePages \cap R)
      BY <1>14, <2>1, FS_Union
    <3>2. Cardinality(FreePages \cap R) = 0
      BY <2>2, FS_EmptySet
    <3>. QED  BY <1>4, <1>14, <2>1, <3>1, <3>2
  <2>4. nr_free' = Cardinality(FreePages')
    BY <1>1, <1>13, <1>14, <2>1, <2>3
  <2>. QED  BY <1>1, <1>4, <2>4 DEF CountExact
<1>16. FlagsExact'
  <2>1. PG_property' = ToSet(free_list')
    BY <1>1, <1>7, <1>11, <1>f
  <2>. QED  BY <2>1 DEF FlagsExact
<1>17. FreePages' \subseteq Pages
  BY <1>1, <1>13, <1>14
<1>18. \A i \in 1..Len(free_list') : Extent(property', free_list'[i]) \subseteq Pages
  <2>1. \A i \in 1..m + 1 : Extent(size, new[i]) \subseteq FreePages'
    <3>1. \A q : q \in FreePages' <=> \E x \in ToSet(new) : q \in Extent(size, x)
      BY <1>1, <1>f, <1>s DEF FreePages, BlockOf, Extent
    <3>. QED  BY <1>11, <3>1
  <2>. QED  BY <1>1, <1>9, <1>17, <1>f, <1>s, <2>1
<1>19. PagesTypeOK'
  <2>1. PG_property' \subseteq Pages
    BY <1>1, <1>3 DEF TurnOK, Acc
  <2>. QED  BY <1>1, <1>4, <1>5, <1>9, <1>15, <1>f, <1>s, <2>1 DEF PagesTypeOK
<1>20. PagesInv'
  <2>1. (\A i \in 1..Len(free_list) : BlockOf(free_list[i]) \subseteq Pages)'
    BY <1>18 DEF BlockOf, Extent
  <2>2. Gapped(free_list, property)'
    BY <1>1, <1>12, <1>f, <1>s
  <2>. QED  BY <1>15, <1>16, <1>19, <2>1, <2>2 DEF PagesInv
<1>. QED  BY <1>1, <1>2, <1>13, <1>20, <1>R

-----------------------------------------------------------------------------
(* The kernel heap: its blocks tile the units of its pages. *)

\* The units of a page, and of a set of pages.
UnitsOf(p) == p * UNITS..p * UNITS + UNITS - 1
UnitsIn(P) == UNION {UnitsOf(p) : p \in P}

\* The constants and arena, as numbers.
LEMMA HeapConstants ==
  /\ UNITS \in Nat /\ UNITS > 3 /\ Sizes \subseteq Nat /\ \A size \in Sizes : size > 0
  /\ \A a \in Int : a # NULL
  /\ arena \in Int /\ arena + 1 < 0 /\ BIGBLOCK = 2
  BY HeapAssumption DEF arena, BIGBLOCK

\* Pages are apart as runs of units too, and arena lies in none.
LEMMA UnitsFacts ==
  /\ \A p \in Pages : p * UNITS \in Nat /\ p * UNITS \in UnitsOf(p) /\ UnitsOf(p) \subseteq Nat
  /\ \A p, q \in Pages : p # q => UnitsOf(p) \cap UnitsOf(q) = {}
  /\ \A x \in Addr : x \in Int /\ (x = arena \/ x \in Nat)
  /\ \A x \in Addr : x # arena => \E p \in Pages : x \in UnitsOf(p)
  /\ arena \in Addr /\ arena \notin Nat
  /\ \A p \in Pages : UnitsOf(p) \subseteq Addr
<1>1. UNITS \in Nat /\ UNITS > 3 /\ Pages \subseteq Nat
  BY HeapConstants, PagesAreNumbers
<1>2. ASSUME NEW p \in Pages
      PROVE  p * UNITS \in Nat /\ p * UNITS \in UnitsOf(p) /\ UnitsOf(p) \subseteq Nat
  <2>1. p \in Nat
    BY <1>1
  <2>2. p * UNITS \in Nat
    BY <1>1, <2>1
  <2>k. PICK k : k = p * UNITS
    OBVIOUS
  <2>3. k \in k..k + UNITS - 1 /\ k..k + UNITS - 1 \subseteq Nat
    BY <1>1, <2>2, <2>k
  <2>. QED  BY <2>2, <2>3, <2>k DEF UnitsOf
<1>3. ASSUME NEW p \in Nat, NEW q \in Nat, p < q
      PROVE  p * UNITS + UNITS <= q * UNITS
  <2>1. PICK d \in Nat : q = p + 1 + d
    <3>1. q - p - 1 \in Nat /\ q = p + 1 + (q - p - 1)
      BY <1>3
    <3>. QED  BY <3>1
  <2>2. q * UNITS = p * UNITS + UNITS + d * UNITS
    BY <1>1, <2>1
  <2>3. d * UNITS >= 0 /\ p * UNITS \in Nat /\ d * UNITS \in Nat
    BY <1>1
  <2>. QED  BY <1>1, <2>2, <2>3
<1>4. ASSUME NEW p \in Pages, NEW q \in Pages, p # q
      PROVE  UnitsOf(p) \cap UnitsOf(q) = {}
  <2>1. p \in Nat /\ q \in Nat /\ p * UNITS \in Nat /\ q * UNITS \in Nat
    BY <1>1, <1>2
  <2>2. p * UNITS + UNITS <= q * UNITS \/ q * UNITS + UNITS <= p * UNITS
    <3>1. p < q \/ q < p
      BY <1>4, <2>1
    <3>. QED  BY <1>3, <2>1, <3>1
  <2>k. PICK k, l : k = p * UNITS /\ l = q * UNITS
    OBVIOUS
  <2>3. (k..k + UNITS - 1) \cap (l..l + UNITS - 1) = {}
    BY <1>1, <2>1, <2>2, <2>k
  <2>. QED  BY <2>3, <2>k DEF UnitsOf
<1>5. \A x : x \in Addr <=> x = arena \/ \E p \in Pages : x \in UnitsOf(p)
  BY DEF Addr, UnitsOf
<1>6. arena \in Int /\ arena \notin Nat
  BY HeapConstants
<1>7. \A x \in Addr : x \in Int /\ (x = arena \/ x \in Nat)
  <2>1. \A x \in Addr : x = arena \/ x \in Nat
    BY <1>2, <1>5
  <2>. QED  BY <1>6, <2>1
<1>8. \A x \in Addr : x # arena => \E p \in Pages : x \in UnitsOf(p)
  BY <1>5
<1>9. arena \in Addr
  BY <1>5
<1>10. \A p \in Pages : UnitsOf(p) \subseteq Addr
  BY <1>5
<1>. QED  BY <1>2, <1>4, <1>6, <1>7, <1>8, <1>9, <1>10

\* The blocks that start at the members of S, of u[s] units, fill U and do not overlap.
Tiles(S, u, U) ==
  /\ \A s \in S : s \in Nat /\ u[s] \in Nat /\ u[s] > 0
  /\ \A s, t \in S : s < t => s + u[s] <= t
  /\ \A x \in U : \E s \in S : s <= x /\ x < s + u[s]
  /\ \A s \in S : s..s + u[s] - 1 \subseteq U

\* Sizes that agree on the blocks make no difference.
LEMMA TilesSame ==
  ASSUME NEW S, NEW U, NEW u, NEW v, Tiles(S, u, U), \A s \in S : v[s] = u[s]
  PROVE  Tiles(S, v, U)
  BY DEF Tiles

\* Units from outside become one block more.
LEMMA TileAdded ==
  ASSUME NEW S, NEW U \in SUBSET Nat, NEW u, NEW v, Tiles(S, u, U), NEW b \in Nat, NEW n \in Nat \ {0},
         b..b + n - 1 \cap U = {}, \A s \in S : v[s] = u[s], v[b] = n
  PROVE  Tiles(S \cup {b}, v, U \cup b..b + n - 1) /\ b \notin S
<1>1. /\ \A s \in S : s \in Nat /\ v[s] \in Nat /\ v[s] > 0
      /\ \A s, t \in S : s < t => s + v[s] <= t
      /\ \A x \in U : \E s \in S : s <= x /\ x < s + v[s]
      /\ \A s \in S : s..s + v[s] - 1 \subseteq U
  BY DEF Tiles
<1>2. ASSUME NEW s \in S  PROVE s \notin b..b + n - 1 /\ b \notin s..s + v[s] - 1 /\ s # b
  <2>1. s \in s..s + v[s] - 1 /\ b \in b..b + n - 1
    BY <1>1
  <2>. QED  BY <1>1, <2>1
<1>3. ASSUME NEW s \in S  PROVE (s < b => s + v[s] <= b) /\ (b < s => b + n <= s)
  <2>1. s \in Nat /\ v[s] \in Nat /\ s \notin b..b + n - 1 /\ b \notin s..s + v[s] - 1
    BY <1>1, <1>2
  <2>. QED  BY <2>1
<1>4. \A s \in S \cup {b} : s \in Nat /\ v[s] \in Nat /\ v[s] > 0
  BY <1>1
<1>5. \A s, t \in S \cup {b} : s < t => s + v[s] <= t
  <2>1. ~(b < b)
    OBVIOUS
  <2>. QED  BY <1>1, <1>3, <2>1
<1>6. \A x \in U \cup b..b + n - 1 : \E s \in S \cup {b} : s <= x /\ x < s + v[s]
  <2>1. \A x \in b..b + n - 1 : b <= x /\ x < b + v[b]
    OBVIOUS
  <2>. QED  BY <1>1, <2>1
<1>7. \A s \in S \cup {b} : s..s + v[s] - 1 \subseteq U \cup b..b + n - 1
  BY <1>1
<1>8. b \notin S
  BY <1>2
<1>. QED  BY <1>4, <1>5, <1>6, <1>7, <1>8 DEF Tiles

\* Two blocks that touch become one.
LEMMA TilesJoined ==
  ASSUME NEW S, NEW U \in SUBSET Nat, NEW u, NEW v, Tiles(S, u, U), NEW s \in S, NEW t \in S,
         s + u[s] = t, \A r \in S \ {s, t} : v[r] = u[r], v[s] = u[s] + u[t]
  PROVE  Tiles(S \ {t}, v, U)
<1>1. /\ \A r \in S : r \in Nat /\ u[r] \in Nat /\ u[r] > 0
      /\ \A r, q \in S : r < q => r + u[r] <= q
      /\ \A x \in U : \E r \in S : r <= x /\ x < r + u[r]
      /\ \A r \in S : r..r + u[r] - 1 \subseteq U
  BY DEF Tiles
<1>2. s \in Nat /\ t \in Nat /\ u[s] \in Nat /\ u[t] \in Nat /\ u[s] > 0 /\ u[t] > 0 /\ s < t
  BY <1>1
<1>3. \A r \in S \ {t} : r \in Nat /\ v[r] \in Nat /\ v[r] > 0
  <2>1. v[s] \in Nat /\ v[s] > 0
    BY <1>2
  <2>. QED  BY <1>1, <2>1
<1>4. \A r, q \in S \ {t} : r < q => r + v[r] <= q
  <2>. SUFFICES ASSUME NEW r \in S, NEW q \in S, r # t, q # t, r < q  PROVE r + v[r] <= q
    OBVIOUS
  <2>1. CASE r = s
    <3>1. s + u[s] <= q /\ q \in Nat
      BY <1>1, <2>1
    <3>2. t < q
      BY <1>2, <3>1
    <3>3. t + u[t] <= q
      BY <1>1, <3>2
    <3>. QED  BY <1>2, <2>1, <3>1, <3>3
  <2>2. CASE r # s
    <3>1. v[r] = u[r]
      BY <2>2
    <3>. QED  BY <1>1, <3>1
  <2>. QED  BY <2>1, <2>2
<1>5. \A x \in U : \E r \in S \ {t} : r <= x /\ x < r + v[r]
  <2>. TAKE x \in U
  <2>1. PICK r \in S : r <= x /\ x < r + u[r]
    BY <1>1
  <2>2. CASE r = s \/ r = t
    <3>1. s <= x /\ x < s + v[s] /\ s # t
      BY <1>2, <2>1, <2>2
    <3>. QED  BY <3>1
  <2>3. CASE r # s /\ r # t
    BY <2>1, <2>3
  <2>. QED  BY <2>2, <2>3
<1>6. \A r \in S \ {t} : r..r + v[r] - 1 \subseteq U
  <2>1. s..s + v[s] - 1 \subseteq U
    <3>1. s..s + u[s] - 1 \subseteq U /\ t..t + u[t] - 1 \subseteq U
      BY <1>1
    <3>2. \A x \in s..s + v[s] - 1 : x \in s..s + u[s] - 1 \/ x \in t..t + u[t] - 1
      BY <1>2
    <3>. QED  BY <3>1, <3>2
  <2>. QED  BY <1>1, <2>1
<1>. QED  BY <1>3, <1>4, <1>5, <1>6 DEF Tiles

\* A block becomes two.
LEMMA TileSplit ==
  ASSUME NEW S, NEW U \in SUBSET Nat, NEW u, NEW v, Tiles(S, u, U), NEW s \in S, NEW n \in Nat \ {0},
         n < u[s], \A r \in S \ {s} : v[r] = u[r], v[s] = n, v[s + n] = u[s] - n
  PROVE  Tiles(S \cup {s + n}, v, U) /\ s + n \notin S
<1>1. /\ \A r \in S : r \in Nat /\ u[r] \in Nat /\ u[r] > 0
      /\ \A r, q \in S : r < q => r + u[r] <= q
      /\ \A x \in U : \E r \in S : r <= x /\ x < r + u[r]
      /\ \A r \in S : r..r + u[r] - 1 \subseteq U
  BY DEF Tiles
<1>t. PICK t : t = s + n
  OBVIOUS
<1>2. s \in Nat /\ t \in Nat /\ u[s] \in Nat /\ v[s] = n /\ v[t] = u[s] - n /\ n < u[s] /\ n > 0 /\ s < t
  BY <1>1, <1>t
<1>3. t \notin S
  <2>. SUFFICES ASSUME t \in S  PROVE FALSE
    OBVIOUS
  <2>1. s + u[s] <= t
    BY <1>1, <1>2
  <2>. QED  BY <1>2, <1>t, <2>1
<1>4. \A r \in S \cup {t} : r \in Nat /\ v[r] \in Nat /\ v[r] > 0
  <2>1. v[t] \in Nat /\ v[t] > 0
    BY <1>2
  <2>. QED  BY <1>1, <1>2, <2>1
<1>5. \A r \in S : r # s => (r < t => r + v[r] <= t /\ r + v[r] <= s) /\ (t < r => t + v[t] <= r /\ s + n <= r)
  <2>. SUFFICES ASSUME NEW r \in S, r # s
                PROVE  (r < t => r + v[r] <= t /\ r + v[r] <= s) /\ (t < r => t + v[t] <= r /\ s + n <= r)
    OBVIOUS
  <2>1. r \in Nat /\ u[r] \in Nat /\ v[r] = u[r]
    BY <1>1
  <2>2. (s < r => s + u[s] <= r) /\ (r < s => r + u[r] <= s)
    BY <1>1
  <2>3. r # s
    OBVIOUS
  <2>. QED  BY <1>2, <1>t, <2>1, <2>2, <2>3
<1>6. \A r, q \in S \cup {t} : r < q => r + v[r] <= q
  <2>. SUFFICES ASSUME NEW r \in S \cup {t}, NEW q \in S \cup {t}, r < q  PROVE r + v[r] <= q
    OBVIOUS
  <2>1. CASE r = t
    <3>1. q \in S /\ q # s /\ t < q
      BY <1>2, <2>1
    <3>. QED  BY <1>5, <2>1, <3>1
  <2>2. CASE r # t /\ q = t
    <3>1. CASE r = s
      BY <1>2, <1>t, <2>2, <3>1
    <3>2. CASE r # s
      BY <1>5, <2>2, <3>2
    <3>. QED  BY <3>1, <3>2
  <2>3. CASE r # t /\ q # t
    <3>1. r + u[r] <= q /\ r \in Nat /\ q \in Nat
      BY <1>1, <2>3
    <3>2. CASE r = s
      BY <1>2, <3>1, <3>2
    <3>3. CASE r # s
      <4>1. v[r] = u[r]
        BY <2>3, <3>3
      <4>. QED  BY <3>1, <4>1
    <3>. QED  BY <3>2, <3>3
  <2>. QED  BY <2>1, <2>2, <2>3
<1>7. \A x \in U : \E r \in S \cup {t} : r <= x /\ x < r + v[r]
  <2>. TAKE x \in U
  <2>0. x \in Nat
    OBVIOUS
  <2>1. PICK r \in S : r <= x /\ x < r + u[r]
    BY <1>1
  <2>2. CASE r = s
    <3>1. (s <= x /\ x < s + v[s]) \/ (t <= x /\ x < t + v[t])
      BY <1>2, <1>t, <2>0, <2>1, <2>2
    <3>. QED  BY <3>1
  <2>3. CASE r # s
    BY <2>1, <2>3
  <2>. QED  BY <2>2, <2>3
<1>8. \A r \in S \cup {t} : r..r + v[r] - 1 \subseteq U
  <2>1. s..s + u[s] - 1 \subseteq U
    BY <1>1
  <2>2. \A x \in s..s + v[s] - 1 : x \in s..s + u[s] - 1
    BY <1>2
  <2>3. \A x \in t..t + v[t] - 1 : x \in s..s + u[s] - 1
    BY <1>2, <1>t
  <2>. QED  BY <1>1, <2>1, <2>2, <2>3
<1>. QED  BY <1>3, <1>4, <1>6, <1>7, <1>8, <1>t DEF Tiles

\* A block is given up with its units.
LEMMA TileDropped ==
  ASSUME NEW S, NEW U \in SUBSET Nat, NEW u, Tiles(S, u, U), NEW s \in S
  PROVE  Tiles(S \ {s}, u, U \ s..s + u[s] - 1)
<1>1. /\ \A r \in S : r \in Nat /\ u[r] \in Nat /\ u[r] > 0
      /\ \A r, q \in S : r < q => r + u[r] <= q
      /\ \A x \in U : \E r \in S : r <= x /\ x < r + u[r]
      /\ \A r \in S : r..r + u[r] - 1 \subseteq U
  BY DEF Tiles
<1>2. \A x \in U \ s..s + u[s] - 1 : \E r \in S \ {s} : r <= x /\ x < r + u[r]
  <2>. SUFFICES ASSUME NEW x \in U, x \notin s..s + u[s] - 1
                PROVE  \E r \in S \ {s} : r <= x /\ x < r + u[r]
    OBVIOUS
  <2>1. PICK r \in S : r <= x /\ x < r + u[r]
    BY <1>1
  <2>2. r # s
    BY <1>1, <2>1
  <2>. QED  BY <2>1, <2>2
<1>3. ASSUME NEW r \in S, r # s  PROVE r..r + u[r] - 1 \subseteq U \ s..s + u[s] - 1
  <2>1. r \in Nat /\ s \in Nat /\ u[r] \in Nat /\ u[s] \in Nat /\ (r < s => r + u[r] <= s) /\ (s < r => s + u[s] <= r)
    BY <1>1
  <2>2. \A x \in r..r + u[r] - 1 : x \notin s..s + u[s] - 1
    BY <1>3, <2>1
  <2>. QED  BY <1>1, <2>2
<1>. QED  BY <1>1, <1>2, <1>3 DEF Tiles

-----------------------------------------------------------------------------
(* The circular list. *)

\* A list turned, place by place.
LEMMA FromFacts ==
  ASSUME NEW S0, NEW s \in Seq(S0), NEW i \in 1..Len(s) + 1
  PROVE  /\ From(s, i) \in Seq(S0) /\ Len(From(s, i)) = Len(s)
         /\ \A k \in 1..Len(s) :
              From(s, i)[k] = IF k + i - 1 <= Len(s) THEN s[k + i - 1] ELSE s[k + i - 1 - Len(s)]
<1>l. PICK l : l = Len(s)
  OBVIOUS
<1>x. PICK x : x = SubSeq(s, i, l)
  OBVIOUS
<1>y. PICK y : y = SubSeq(s, 1, i - 1)
  OBVIOUS
<1>0. l \in Nat /\ i \in 1..l + 1
  BY <1>l
<1>1. x \in Seq(S0) /\ Len(x) = l - i + 1 /\ \A k \in 1..l - i + 1 : x[k] = s[k + i - 1]
  BY <1>0, <1>l, <1>x
<1>2. y \in Seq(S0) /\ Len(y) = i - 1 /\ \A k \in 1..i - 1 : y[k] = s[k]
  BY <1>0, <1>l, <1>y
<1>3. /\ x \o y \in Seq(S0) /\ Len(x \o y) = Len(x) + Len(y)
      /\ \A j \in 1..Len(x) : (x \o y)[j] = x[j]
      /\ \A j \in 1..Len(y) : (x \o y)[Len(x) + j] = y[j]
  <2>1. x \in Seq(S0) /\ y \in Seq(S0)
    BY <1>1, <1>2
  <2>. QED  BY <2>1, ConcatFacts
<1>4. ASSUME NEW k \in 1..l
      PROVE  (x \o y)[k] = IF k + i - 1 <= l THEN s[k + i - 1] ELSE s[k + i - 1 - l]
  <2>1. CASE k + i - 1 <= l
    <3>1. k \in 1..l - i + 1
      BY <1>0, <2>1
    <3>2. (x \o y)[k] = x[k] /\ x[k] = s[k + i - 1]
      BY <1>1, <1>3, <3>1
    <3>. QED  BY <2>1, <3>2
  <2>2. CASE ~(k + i - 1 <= l)
    <3>1. k + i - 1 - l \in 1..i - 1 /\ k = (l - i + 1) + (k + i - 1 - l)
      BY <1>0, <2>2
    <3>2. (x \o y)[Len(x) + (k + i - 1 - l)] = y[k + i - 1 - l] /\ Len(x) + (k + i - 1 - l) = k
      BY <1>0, <1>1, <1>2, <1>3, <3>1
    <3>3. y[k + i - 1 - l] = s[k + i - 1 - l]
      BY <1>2, <3>1
    <3>. QED  BY <2>2, <3>2, <3>3
  <2>. QED  BY <2>1, <2>2
<1>5. Len(x \o y) = l
  BY <1>0, <1>1, <1>2, <1>3
<1>. QED  BY <1>3, <1>4, <1>5, <1>l, <1>x, <1>y DEF From

\* A circular list of free blocks in address order: from each block to the next one there
\* is a gap, but where the list comes back to arena.
RingOK(s, u) ==
  /\ s \in Seq(Addr) /\ Len(s) > 0
  /\ \E i \in 1..Len(s) : s[i] = arena
  /\ \A i, j \in 1..Len(s) : s[i] = s[j] => i = j
  /\ \A i \in 1..Len(s) : s[After(s, i)] = arena \/ s[i] + u[s[i]] < s[After(s, i)]

\* A ring, place by place.
LEMMA RingFacts ==
  ASSUME NEW s, NEW u, RingOK(s, u)
  PROVE  /\ s \in Seq(Addr) /\ Len(s) \in Nat /\ Len(s) > 0 /\ DOMAIN s = 1..Len(s)
         /\ ToSet(s) \subseteq Addr /\ arena \in ToSet(s)
         /\ \A i \in 1..Len(s) : s[i] \in Addr /\ s[i] \in Int /\ s[i] \in ToSet(s)
         /\ \A a \in ToSet(s) : \E i \in 1..Len(s) : s[i] = a
         /\ \A i \in 1..Len(s) : After(s, i) \in 1..Len(s)
<1>1. s \in Seq(Addr) /\ Len(s) \in Nat /\ Len(s) > 0 /\ DOMAIN s = 1..Len(s) /\ \A i \in 1..Len(s) : s[i] \in Addr
  BY DEF RingOK
<1>2. \A i \in 1..Len(s) : After(s, i) \in 1..Len(s)
  <2>l. PICK l : l = Len(s)
    OBVIOUS
  <2>1. l \in Nat /\ l > 0
    BY <1>1, <2>l
  <2>2. \A i \in 1..l : (IF i = l THEN 1 ELSE i + 1) \in 1..l
    BY <2>1
  <2>. QED  BY <2>2, <2>l DEF After
<1>3. \A a : a \in ToSet(s) <=> \E i \in 1..Len(s) : s[i] = a
  BY <1>1 DEF ToSet
<1>4. ToSet(s) \subseteq Addr /\ arena \in ToSet(s)
  BY <1>1, <1>3 DEF RingOK
<1>. QED  BY <1>1, <1>2, <1>3, <1>4, UnitsFacts

\* A ring remains one from whichever block it is read.
LEMMA RingTurned ==
  ASSUME NEW s, NEW u, RingOK(s, u), NEW i \in 1..Len(s) + 1
  PROVE  RingOK(From(s, i), u) /\ ToSet(From(s, i)) = ToSet(s) /\ Len(From(s, i)) = Len(s)
<1>t. PICK t : t = From(s, i)
  OBVIOUS
<1>l. PICK l : l = Len(s)
  OBVIOUS
<1>1. /\ s \in Seq(Addr) /\ l \in Nat /\ l > 0 /\ DOMAIN s = 1..l
      /\ \A k \in 1..l : s[k] \in Addr
      /\ i \in 1..l + 1
  BY <1>l, RingFacts
<1>2. /\ t \in Seq(Addr) /\ Len(t) = l
      /\ \A k \in 1..l : t[k] = IF k + i - 1 <= l THEN s[k + i - 1] ELSE s[k + i - 1 - l]
  BY <1>1, <1>t, <1>l, FromFacts
<1>. DEFINE P(k) == IF k + i - 1 <= l THEN k + i - 1 ELSE k + i - 1 - l
<1>3. \A k \in 1..l : P(k) \in 1..l /\ t[k] = s[P(k)]
  BY <1>1, <1>2
<1>4. \A k, m \in 1..l : P(k) = P(m) => k = m
  BY <1>1
<1>5. \A m \in 1..l : \E k \in 1..l : P(k) = m
  <2>. TAKE m \in 1..l
  <2>1. CASE m >= i
    <3>1. m - i + 1 \in 1..l /\ P(m - i + 1) = m
      BY <1>1, <2>1
    <3>. QED  BY <3>1
  <2>2. CASE m < i
    <3>1. m - i + 1 + l \in 1..l /\ P(m - i + 1 + l) = m
      BY <1>1, <2>2
    <3>. QED  BY <3>1
  <2>. QED  BY <1>1, <2>1, <2>2
<1>6. \A k \in 1..l : After(t, k) \in 1..l /\ P(After(t, k)) = After(s, P(k))
  <2>. DEFINE Next1(k) == IF k = l THEN 1 ELSE k + 1
  <2>1. \A k \in 1..l : Next1(k) \in 1..l
    BY <1>1
  <2>2. \A k \in 1..l : P(Next1(k)) = Next1(P(k))
    BY <1>1
  <2>3. \A k : After(t, k) = Next1(k) /\ After(s, k) = Next1(k)
    BY <1>2, <1>l DEF After
  <2>. HIDE DEF Next1, P
  <2>. QED  BY <2>1, <2>2, <2>3
<1>. HIDE DEF P
<1>7. \E k \in 1..l : t[k] = arena
  <2>1. PICK m \in 1..l : s[m] = arena
    BY <1>l DEF RingOK
  <2>. QED  BY <1>3, <1>5, <2>1
<1>8. \A k, m \in 1..l : t[k] = t[m] => k = m
  <2>1. \A k, m \in 1..l : s[k] = s[m] => k = m
    BY <1>l DEF RingOK
  <2>. QED  BY <1>3, <1>4, <2>1
<1>9. \A k \in 1..l : t[After(t, k)] = arena \/ t[k] + u[t[k]] < t[After(t, k)]
  <2>. TAKE k \in 1..l
  <2>1. s[After(s, P(k))] = arena \/ s[P(k)] + u[s[P(k)]] < s[After(s, P(k))]
    BY <1>3, <1>l DEF RingOK
  <2>2. t[k] = s[P(k)] /\ t[After(t, k)] = s[After(s, P(k))]
    BY <1>3, <1>6
  <2>. QED  BY <2>1, <2>2
<1>10. RingOK(t, u)
  BY <1>1, <1>2, <1>7, <1>8, <1>9 DEF RingOK
<1>11. ToSet(t) = ToSet(s)
  <2>1. DOMAIN t = 1..l
    BY <1>2
  <2>2. \A a : a \in ToSet(t) <=> \E k \in 1..l : t[k] = a
    BY <2>1 DEF ToSet
  <2>3. \A a : a \in ToSet(s) <=> \E k \in 1..l : s[k] = a
    BY <1>1 DEF ToSet
  <2>4. \A a : a \in ToSet(t) => a \in ToSet(s)
    BY <1>3, <2>2, <2>3
  <2>5. \A a : a \in ToSet(s) => a \in ToSet(t)
    <3>. SUFFICES ASSUME NEW a \in ToSet(s)  PROVE a \in ToSet(t)
      OBVIOUS
    <3>1. PICK m \in 1..l : s[m] = a
      BY <2>3
    <3>2. PICK k \in 1..l : P(k) = m
      BY <1>5
    <3>3. t[k] = a
      BY <1>3, <3>1, <3>2
    <3>. QED  BY <2>2, <3>3
  <2>. QED  BY <2>4, <2>5
<1>. QED  BY <1>2, <1>10, <1>11, <1>t, <1>l

\* Its first two blocks then.
LEMMA TurnedFacts ==
  ASSUME NEW s, NEW u, RingOK(s, u), NEW k \in 1..Len(s)
  PROVE  From(s, k)[1] = s[k] /\ From(s, k)[After(From(s, k), 1)] = s[After(s, k)]
<1>t. PICK t : t = From(s, k)
  OBVIOUS
<1>l. PICK l : l = Len(s)
  OBVIOUS
<1>0. s \in Seq(Addr) /\ l \in Nat /\ l > 0 /\ k \in 1..l /\ k \in 1..Len(s) + 1
  BY <1>l, RingFacts
<1>1. /\ t \in Seq(Addr) /\ Len(t) = l
      /\ \A i \in 1..l : t[i] = IF i + k - 1 <= l THEN s[i + k - 1] ELSE s[i + k - 1 - l]
  BY <1>0, <1>t, <1>l, FromFacts
<1>2. 1 \in 1..l /\ 1 + k - 1 = k /\ k <= l
  BY <1>0
<1>3. t[1] = s[k]
  BY <1>1, <1>2
<1>4. t[IF 1 = l THEN 1 ELSE 1 + 1] = s[IF k = l THEN 1 ELSE k + 1]
  <2>1. CASE l = 1
    BY <1>0, <1>3, <2>1
  <2>2. CASE l # 1
    <3>1. 2 \in 1..l /\ 2 + k - 1 = k + 1 /\ (k = l => 2 + k - 1 - l = 1) /\ (2 + k - 1 <= l <=> k # l)
      BY <1>0, <2>2
    <3>. QED  BY <1>1, <2>2, <3>1
  <2>. QED  BY <2>1, <2>2
<1>5. After(t, 1) = (IF 1 = l THEN 1 ELSE 1 + 1) /\ After(s, k) = (IF k = l THEN 1 ELSE k + 1)
  BY <1>1, <1>l DEF After
<1>. QED  BY <1>3, <1>4, <1>5, <1>t

\* Between which blocks one that is not in the list belongs.
LEMMA PlaceFound ==
  ASSUME NEW s, NEW u, RingOK(s, u), NEW b \in Nat, b \notin ToSet(s),
         \A a \in ToSet(s) : u[a] \in Nat
  PROVE  /\ \E i \in 1..Len(s) : Between(s[i], b, s[After(s, i)])
         /\ \A i \in 1..Len(s) : Between(s[i], b, s[After(s, i)]) =>
              s[i] < b /\ (s[After(s, i)] = arena \/ b < s[After(s, i)])
<1>1. /\ s \in Seq(Addr) /\ Len(s) \in Nat
      /\ \A i \in 1..Len(s) : s[i] \in Addr /\ s[i] \in Int /\ s[i] \in ToSet(s) /\ After(s, i) \in 1..Len(s)
      /\ \A i \in 1..Len(s) : u[s[i]] \in Nat
      /\ arena \in Int /\ arena < b
      /\ \A i \in 1..Len(s) : s[i] >= arena /\ s[i] # b
  <2>1. arena \in Int /\ arena < 0
    BY HeapConstants
  <2>2. \A i \in 1..Len(s) : s[i] \in Addr /\ s[i] \in Int /\ s[i] \in ToSet(s)
    BY RingFacts
  <2>3. \A i \in 1..Len(s) : s[i] = arena \/ s[i] \in Nat
    BY <2>2, UnitsFacts
  <2>4. \A i \in 1..Len(s) : s[i] >= arena /\ s[i] # b
    BY <2>1, <2>2, <2>3
  <2>5. \A i \in 1..Len(s) : u[s[i]] \in Nat /\ After(s, i) \in 1..Len(s)
    BY <2>2, RingFacts
  <2>6. s \in Seq(Addr) /\ Len(s) \in Nat /\ arena < b
    BY <2>1, RingFacts
  <2>. QED  BY <2>1, <2>2, <2>4, <2>5, <2>6
<1>2. \A i \in 1..Len(s) : s[After(s, i)] = arena \/ s[i] < s[After(s, i)]
  <2>. TAKE i \in 1..Len(s)
  <2>1. s[After(s, i)] = arena \/ s[i] + u[s[i]] < s[After(s, i)]
    BY DEF RingOK
  <2>2. s[i] \in Int /\ u[s[i]] \in Nat /\ s[After(s, i)] \in Int
    BY <1>1
  <2>. QED  BY <2>1, <2>2
<1>3. ASSUME NEW i \in 1..Len(s), Between(s[i], b, s[After(s, i)])
      PROVE  s[i] < b /\ (s[After(s, i)] = arena \/ b < s[After(s, i)])
  <2>1. s[i] \in Int /\ s[After(s, i)] \in Int /\ (s[After(s, i)] = arena \/ s[i] < s[After(s, i)])
    BY <1>1, <1>2
  <2>. QED  BY <1>1, <1>3, <2>1 DEF Between
<1>4. \E i \in 1..Len(s) : Between(s[i], b, s[After(s, i)])
  <2>. DEFINE D == {b - s[i] : i \in {k \in 1..Len(s) : s[k] < b}}
  <2>1. D \in SUBSET Nat
    BY <1>1
  <2>2. D # {}
    <3>1. PICK k \in 1..Len(s) : s[k] = arena
      BY DEF RingOK
    <3>. QED  BY <1>1, <3>1
  <2>d. PICK d : d = Min(D)
    OBVIOUS
  <2>3. d \in D /\ \A c \in D : d <= c
    <3>. HIDE DEF D
    <3>. QED  BY <2>1, <2>2, <2>d, MinFacts
  <2>4. PICK i \in 1..Len(s) : s[i] < b /\ d = b - s[i]
    BY <2>3
  <2>5. CASE s[After(s, i)] = arena
    <3>1. Between(s[i], b, s[After(s, i)])
      <4>1. s[i] \in Int /\ s[i] >= arena
        BY <1>1
      <4>. QED  BY <1>1, <2>4, <2>5, <4>1 DEF Between
    <3>. QED  BY <3>1
  <2>6. CASE s[After(s, i)] # arena
    <3>1. s[i] < s[After(s, i)] /\ s[i] \in Int /\ s[After(s, i)] \in Int /\ s[After(s, i)] # b /\ After(s, i) \in 1..Len(s)
      BY <1>1, <1>2, <2>6
    <3>2. ~(s[After(s, i)] < b)
      <4>. SUFFICES ASSUME s[After(s, i)] < b  PROVE FALSE
        OBVIOUS
      <4>1. b - s[After(s, i)] \in D
        BY <3>1
      <4>2. d <= b - s[After(s, i)]
        BY <2>3, <4>1
      <4>. QED  BY <2>4, <3>1, <4>2
    <3>3. Between(s[i], b, s[After(s, i)])
      BY <2>4, <3>1, <3>2 DEF Between
    <3>. QED  BY <3>3
  <2>. QED  BY <2>5, <2>6
<1>. QED  BY <1>3, <1>4

-----------------------------------------------------------------------------
(* The list with one block less or more. *)

\* A ring of the blocks S.
RingOf(s, u, S) == RingOK(s, u) /\ ToSet(s) = S

\* A ring whose first block takes the place of the second one too, or stays as it is.
LEMMA RingShrunk ==
  ASSUME NEW t, NEW u, NEW v, RingOK(t, u), NEW k \in 2..3, k <= Len(t) + 1,
         k = 3 => t[2] # arena,
         \A j \in k..Len(t) : v[t[j]] = u[t[j]],
         NEW nxt, nxt = t[IF k <= Len(t) THEN k ELSE 1],
         nxt = arena \/ t[1] + v[t[1]] < nxt
  PROVE  RingOf(<<t[1]>> \o SubSeq(t, k, Len(t)), v, ToSet(t) \ (IF k = 3 THEN {t[2]} ELSE {}))
<1>l. PICK l : l = Len(t)
  OBVIOUS
<1>1. /\ t \in Seq(Addr) /\ l \in Nat /\ l > 0 /\ DOMAIN t = 1..l /\ k <= l + 1
      /\ \A i \in 1..l : t[i] \in Addr
  BY <1>l, RingFacts
<1>r. PICK r : r = SubSeq(t, k, l)
  OBVIOUS
<1>2. r \in Seq(Addr) /\ Len(r) = l - k + 1 /\ \A j \in 1..l - k + 1 : r[j] = t[j + k - 1]
  BY <1>1, <1>r
<1>w. PICK w : w = <<t[1]>> \o r
  OBVIOUS
<1>m. PICK m : m = l - k + 2
  OBVIOUS
<1>3. w \in Seq(Addr) /\ Len(w) = m /\ w[1] = t[1] /\ \A i \in 2..m : w[i] = t[i + k - 2]
  <2>1. t[1] \in Addr /\ r \in Seq(Addr)
    BY <1>1, <1>2
  <2>2. /\ w \in Seq(Addr) /\ Len(w) = Len(r) + 1 /\ w[1] = t[1]
        /\ \A i \in 2..Len(r) + 1 : w[i] = r[i - 1]
    BY <2>1, <1>w, PrependFacts
  <2>3. Len(r) + 1 = m
    BY <1>1, <1>2, <1>m
  <2>4. ASSUME NEW i \in 2..m  PROVE w[i] = t[i + k - 2]
    <3>1. i - 1 \in 1..l - k + 1 /\ (i - 1) + k - 1 = i + k - 2
      BY <1>1, <1>m
    <3>2. w[i] = r[i - 1] /\ r[i - 1] = t[(i - 1) + k - 1]
      BY <1>2, <2>2, <2>3, <3>1
    <3>. QED  BY <3>1, <3>2
  <2>. QED  BY <2>2, <2>3, <2>4
<1>. DEFINE P(i) == IF i = 1 THEN 1 ELSE i + k - 2
<1>4. m \in Nat /\ m > 0 /\ DOMAIN w = 1..m
  BY <1>1, <1>3, <1>m
<1>5. \A i \in 1..m : P(i) \in 1..l /\ w[i] = t[P(i)] /\ (k = 3 => P(i) # 2) /\ (i # 1 => P(i) \in k..l)
  BY <1>1, <1>3, <1>m
<1>6. \A i, j \in 1..m : P(i) = P(j) => i = j
  BY <1>1, <1>m
<1>7. \A n \in 1..l : (k = 3 /\ n = 2) \/ \E i \in 1..m : P(i) = n
  <2>. TAKE n \in 1..l
  <2>1. CASE n = 1
    BY <1>4, <2>1
  <2>2. CASE n >= k
    <3>1. n - k + 2 \in 1..m /\ P(n - k + 2) = n
      BY <1>1, <1>m, <2>2
    <3>. QED  BY <3>1
  <2>. QED  BY <2>1, <2>2
<1>8. \A i \in 1..m : After(w, i) \in 1..m
  <2>1. \A i \in 1..m : (IF i = m THEN 1 ELSE i + 1) \in 1..m
    BY <1>4
  <2>. QED  BY <1>3, <2>1 DEF After
<1>9. /\ P(After(w, 1)) = IF k <= l THEN k ELSE 1
      /\ \A i \in 1..m : i # 1 => P(After(w, i)) = After(t, P(i))
  <2>1. P(IF 1 = m THEN 1 ELSE 1 + 1) = IF k <= l THEN k ELSE 1
    BY <1>1, <1>m
  <2>2. \A i \in 1..m : i # 1 => P(IF i = m THEN 1 ELSE i + 1) = IF P(i) = l THEN 1 ELSE P(i) + 1
    BY <1>1, <1>m
  <2>. QED  BY <1>3, <1>l, <2>1, <2>2 DEF After
<1>. HIDE DEF P
<1>10. \E i \in 1..m : w[i] = arena
  <2>1. PICK n \in 1..l : t[n] = arena
    BY <1>l DEF RingOK
  <2>. QED  BY <1>5, <1>7, <2>1
<1>11. \A i, j \in 1..m : w[i] = w[j] => i = j
  <2>1. \A i, j \in 1..l : t[i] = t[j] => i = j
    BY <1>l DEF RingOK
  <2>. QED  BY <1>5, <1>6, <2>1
<1>12. \A i \in 1..m : w[After(w, i)] = arena \/ w[i] + v[w[i]] < w[After(w, i)]
  <2>. TAKE i \in 1..m
  <2>1. CASE i = 1
    <3>1. w[After(w, 1)] = t[IF k <= l THEN k ELSE 1]
      BY <1>5, <1>8, <1>9, <2>1
    <3>2. w[1] = t[1]
      BY <1>3
    <3>. QED  BY <1>l, <2>1, <3>1, <3>2
  <2>2. CASE i # 1
    <3>1. w[After(w, i)] = t[After(t, P(i))] /\ w[i] = t[P(i)] /\ v[t[P(i)]] = u[t[P(i)]]
      BY <1>5, <1>8, <1>9, <1>l, <2>2
    <3>2. t[After(t, P(i))] = arena \/ t[P(i)] + u[t[P(i)]] < t[After(t, P(i))]
      BY <1>5, <1>l DEF RingOK
    <3>. QED  BY <3>1, <3>2
  <2>. QED  BY <2>1, <2>2
<1>13. RingOK(w, v)
  BY <1>3, <1>4, <1>10, <1>11, <1>12 DEF RingOK
<1>14. ToSet(w) = ToSet(t) \ (IF k = 3 THEN {t[2]} ELSE {})
  <2>1. \A a : a \in ToSet(w) <=> \E i \in 1..m : w[i] = a
    BY <1>4 DEF ToSet
  <2>2. \A a : a \in ToSet(t) <=> \E i \in 1..l : t[i] = a
    BY <1>1 DEF ToSet
  <2>3. \A i, j \in 1..l : t[i] = t[j] => i = j
    BY <1>l DEF RingOK
  <2>4. ASSUME NEW a \in ToSet(w)  PROVE a \in ToSet(t) /\ (k = 3 => a # t[2])
    <3>1. PICK i \in 1..m : w[i] = a
      BY <2>1
    <3>2. P(i) \in 1..l /\ a = t[P(i)] /\ (k = 3 => P(i) # 2)
      BY <1>5, <3>1
    <3>3. k = 3 => 2 \in 1..l
      BY <1>1
    <3>. QED  BY <2>2, <2>3, <3>2, <3>3
  <2>5. ASSUME NEW a \in ToSet(t), k = 3 => a # t[2]  PROVE a \in ToSet(w)
    <3>1. PICK n \in 1..l : t[n] = a
      BY <2>2
    <3>2. ~(k = 3 /\ n = 2)
      BY <2>5, <3>1
    <3>3. PICK i \in 1..m : P(i) = n
      BY <1>7, <3>2
    <3>. QED  BY <1>5, <2>1, <3>1, <3>3
  <2>. QED  BY <2>4, <2>5
<1>. QED  BY <1>13, <1>14, <1>w, <1>r, <1>l DEF RingOf

\* A ring with a block behind the first one, or in place of the second.
LEMMA RingGrown ==
  ASSUME NEW t, NEW u, NEW v, RingOK(t, u), NEW k \in 2..3, k <= Len(t) + 1,
         NEW b \in Addr, b \notin ToSet(t),
         k = 3 => t[2] # arena,
         v[t[1]] = u[t[1]], \A j \in k..Len(t) : v[t[j]] = u[t[j]],
         t[1] + v[t[1]] < b,
         NEW nxt, nxt = t[IF k <= Len(t) THEN k ELSE 1],
         nxt = arena \/ b + v[b] < nxt
  PROVE  RingOf(<<t[1], b>> \o SubSeq(t, k, Len(t)), v,
                (ToSet(t) \ (IF k = 3 THEN {t[2]} ELSE {})) \cup {b})
<1>l. PICK l : l = Len(t)
  OBVIOUS
<1>1. /\ t \in Seq(Addr) /\ l \in Nat /\ l > 0 /\ DOMAIN t = 1..l /\ k <= l + 1
      /\ \A i \in 1..l : t[i] \in Addr
  BY <1>l, RingFacts
<1>r. PICK r : r = SubSeq(t, k, l)
  OBVIOUS
<1>2. r \in Seq(Addr) /\ Len(r) = l - k + 1 /\ \A j \in 1..l - k + 1 : r[j] = t[j + k - 1]
  BY <1>1, <1>r
<1>w. PICK w : w = <<t[1], b>> \o r
  OBVIOUS
<1>m. PICK m : m = l - k + 3
  OBVIOUS
<1>3. w \in Seq(Addr) /\ Len(w) = m /\ w[1] = t[1] /\ w[2] = b /\ \A i \in 3..m : w[i] = t[i + k - 3]
  <2>x. PICK x : x = <<t[1], b>>
    OBVIOUS
  <2>1. x \in Seq(Addr) /\ r \in Seq(Addr) /\ Len(x) = 2 /\ x[1] = t[1] /\ x[2] = b
    <3>1. t[1] \in Addr
      BY <1>1
    <3>. QED  BY <1>2, <2>x, <3>1
  <2>2. /\ x \o r \in Seq(Addr) /\ Len(x \o r) = Len(x) + Len(r)
        /\ \A j \in 1..Len(x) : (x \o r)[j] = x[j]
        /\ \A j \in 1..Len(r) : (x \o r)[Len(x) + j] = r[j]
    <3>1. x \in Seq(Addr) /\ r \in Seq(Addr)
      BY <2>1
    <3>. QED  BY <3>1, ConcatFacts
  <2>3. w = x \o r /\ Len(w) = m
    BY <1>1, <1>2, <1>m, <1>w, <2>1, <2>2, <2>x
  <2>4. ASSUME NEW i \in 3..m  PROVE w[i] = t[i + k - 3]
    <3>1. i - 2 \in 1..l - k + 1 /\ (i - 2) + k - 1 = i + k - 3 /\ Len(x) + (i - 2) = i
      BY <1>1, <1>m, <2>1
    <3>2. (x \o r)[Len(x) + (i - 2)] = r[i - 2] /\ r[i - 2] = t[(i - 2) + k - 1]
      BY <1>2, <2>2, <3>1
    <3>. QED  BY <2>3, <3>1, <3>2
  <2>5. w[1] = t[1] /\ w[2] = b
    BY <2>1, <2>2, <2>3
  <2>. QED  BY <2>2, <2>3, <2>4, <2>5
<1>. DEFINE P(i) == IF i = 1 THEN 1 ELSE i + k - 3
<1>4. m \in Nat /\ m > 1 /\ DOMAIN w = 1..m
  BY <1>1, <1>3, <1>m
<1>5. \A i \in 1..m : i # 2 =>
        P(i) \in 1..l /\ w[i] = t[P(i)] /\ (k = 3 => P(i) # 2) /\ (i # 1 => P(i) \in k..l)
  BY <1>1, <1>3, <1>m
<1>6. \A i, j \in 1..m : i # 2 /\ j # 2 /\ P(i) = P(j) => i = j
  BY <1>1, <1>m
<1>7. \A n \in 1..l : (k = 3 /\ n = 2) \/ \E i \in 1..m : i # 2 /\ P(i) = n
  <2>. TAKE n \in 1..l
  <2>1. CASE n = 1
    BY <1>4, <2>1
  <2>2. CASE n >= k
    <3>1. n - k + 3 \in 1..m /\ n - k + 3 # 2 /\ P(n - k + 3) = n
      BY <1>1, <1>m, <2>2
    <3>. QED  BY <3>1
  <2>. QED  BY <2>1, <2>2
<1>8. \A i \in 1..m : After(w, i) \in 1..m
  <2>1. \A i \in 1..m : (IF i = m THEN 1 ELSE i + 1) \in 1..m
    BY <1>4
  <2>. QED  BY <1>3, <2>1 DEF After
<1>9. /\ After(w, 1) = 2
      /\ P(After(w, 2)) = (IF k <= l THEN k ELSE 1) /\ After(w, 2) # 2
      /\ \A i \in 1..m : i # 1 /\ i # 2 => P(After(w, i)) = After(t, P(i)) /\ After(w, i) # 2
  <2>1. /\ P(IF 2 = m THEN 1 ELSE 2 + 1) = IF k <= l THEN k ELSE 1
        /\ (IF 2 = m THEN 1 ELSE 2 + 1) # 2 /\ (IF 1 = m THEN 1 ELSE 1 + 1) = 2
    BY <1>1, <1>4, <1>m
  <2>2. \A i \in 1..m : i # 1 /\ i # 2 =>
          /\ P(IF i = m THEN 1 ELSE i + 1) = IF P(i) = l THEN 1 ELSE P(i) + 1
          /\ (IF i = m THEN 1 ELSE i + 1) # 2
    BY <1>1, <1>m
  <2>. QED  BY <1>3, <1>l, <2>1, <2>2 DEF After
<1>. HIDE DEF P
<1>10. \E i \in 1..m : w[i] = arena
  <2>1. PICK n \in 1..l : t[n] = arena
    BY <1>l DEF RingOK
  <2>. QED  BY <1>5, <1>7, <2>1
<1>t. \A a : a \in ToSet(t) <=> \E i \in 1..l : t[i] = a
  BY <1>1 DEF ToSet
<1>11. \A i, j \in 1..m : w[i] = w[j] => i = j
  <2>1. \A i, j \in 1..l : t[i] = t[j] => i = j
    BY <1>l DEF RingOK
  <2>2. \A i \in 1..m : i # 2 => w[i] # b
    BY <1>5, <1>t
  <2>3. w[2] = b
    BY <1>3
  <2>4. \A i, j \in 1..m : i # 2 /\ j # 2 /\ w[i] = w[j] => i = j
    BY <1>5, <1>6, <2>1
  <2>. QED  BY <2>2, <2>3, <2>4
<1>12. \A i \in 1..m : w[After(w, i)] = arena \/ w[i] + v[w[i]] < w[After(w, i)]
  <2>. TAKE i \in 1..m
  <2>0. w[1] = t[1] /\ w[2] = b
    BY <1>3
  <2>1. CASE i = 1
    BY <1>9, <2>0, <2>1
  <2>2. CASE i = 2
    <3>1. w[After(w, 2)] = t[IF k <= l THEN k ELSE 1]
      BY <1>5, <1>8, <1>9, <2>2
    <3>. QED  BY <1>l, <2>0, <2>2, <3>1
  <2>3. CASE i # 1 /\ i # 2
    <3>1. w[After(w, i)] = t[After(t, P(i))] /\ w[i] = t[P(i)] /\ v[t[P(i)]] = u[t[P(i)]]
      BY <1>5, <1>8, <1>9, <1>l, <2>3
    <3>2. t[After(t, P(i))] = arena \/ t[P(i)] + u[t[P(i)]] < t[After(t, P(i))]
      BY <1>5, <1>l, <2>3 DEF RingOK
    <3>. QED  BY <3>1, <3>2
  <2>. QED  BY <2>1, <2>2, <2>3
<1>13. RingOK(w, v)
  BY <1>3, <1>4, <1>10, <1>11, <1>12 DEF RingOK
<1>14. ToSet(w) = (ToSet(t) \ (IF k = 3 THEN {t[2]} ELSE {})) \cup {b}
  <2>1. \A a : a \in ToSet(w) <=> \E i \in 1..m : w[i] = a
    BY <1>4 DEF ToSet
  <2>3. \A i, j \in 1..l : t[i] = t[j] => i = j
    BY <1>l DEF RingOK
  <2>4. ASSUME NEW a \in ToSet(w), a # b  PROVE a \in ToSet(t) /\ (k = 3 => a # t[2])
    <3>1. PICK i \in 1..m : w[i] = a
      BY <2>1
    <3>2. P(i) \in 1..l /\ a = t[P(i)] /\ (k = 3 => P(i) # 2)
      BY <1>3, <1>5, <2>4, <3>1
    <3>3. k = 3 => 2 \in 1..l
      BY <1>1
    <3>. QED  BY <1>t, <2>3, <3>2, <3>3
  <2>5. ASSUME NEW a \in ToSet(t), k = 3 => a # t[2]  PROVE a \in ToSet(w)
    <3>1. PICK n \in 1..l : t[n] = a
      BY <1>t
    <3>2. ~(k = 3 /\ n = 2)
      BY <2>5, <3>1
    <3>3. PICK i \in 1..m : i # 2 /\ P(i) = n
      BY <1>7, <3>2
    <3>. QED  BY <1>5, <2>1, <3>1, <3>3
  <2>6. b \in ToSet(w)
    <3>1. 2 \in 1..m /\ w[2] = b
      BY <1>3, <1>4
    <3>. QED  BY <2>1, <3>1
  <2>. QED  BY <2>4, <2>5, <2>6
<1>. QED  BY <1>13, <1>14, <1>w, <1>r, <1>l DEF RingOf

-----------------------------------------------------------------------------
(* The blocks of the heap. *)

\* The free blocks but arena.
Blocks(h) == ToSet(h.ring) \ {arena}

\* The blocks of the list and those that start at the members of A tile U.
HeapOK(h, A, U) ==
  /\ h.units \in [Addr -> Nat] /\ h.units[arena] = 1
  /\ RingOK(h.ring, h.units)
  /\ U \subseteq Addr \ {arena}
  /\ Blocks(h) \cap A = {}
  /\ Tiles(Blocks(h) \cup A, h.units, U)

\* Every block begins in the units of the heap and has a size.
LEMMA HeapOKFacts ==
  ASSUME NEW h, NEW A, NEW U, HeapOK(h, A, U)
  PROVE  /\ U \in SUBSET Nat
         /\ \A s \in Blocks(h) \cup A : s \in U /\ s \in Nat /\ s \in Addr /\ h.units[s] \in Nat /\ h.units[s] > 0
         /\ \A a \in ToSet(h.ring) : h.units[a] \in Nat
<1>1. U \in SUBSET Nat
  BY UnitsFacts DEF HeapOK
<1>2. ASSUME NEW s \in Blocks(h) \cup A
      PROVE  s \in U /\ s \in Nat /\ s \in Addr /\ h.units[s] \in Nat /\ h.units[s] > 0
  <2>1. s \in Nat /\ h.units[s] \in Nat /\ h.units[s] > 0 /\ s..s + h.units[s] - 1 \subseteq U
    BY DEF HeapOK, Tiles
  <2>2. s \in U
    BY <2>1
  <2>. QED  BY <2>1, <2>2 DEF HeapOK
<1>3. \A a \in ToSet(h.ring) : h.units[a] \in Nat
  <2>1. ToSet(h.ring) \subseteq Addr
    BY RingFacts DEF HeapOK
  <2>. QED  BY <2>1 DEF HeapOK
<1>. QED  BY <1>1, <1>2, <1>3

\* Where slob_free puts b: behind the first block of FoundPlace(h, b).
LEMMA RingPlaceFacts ==
  ASSUME NEW h, NEW A, NEW U, HeapOK(h, A, U), NEW b \in Nat \ U
  PROVE  LET t == FoundPlace(h, b) IN
         /\ RingOK(t, h.units) /\ ToSet(t) = ToSet(h.ring)
         /\ b \notin ToSet(t)
         /\ t[1] < b /\ (t[After(t, 1)] = arena \/ b < t[After(t, 1)])
<1>s. PICK s : s = h.ring
  OBVIOUS
<1>t. PICK t : t = FoundPlace(h, b)
  OBVIOUS
<1>1. /\ RingOK(s, h.units) /\ b \notin ToSet(s) /\ \A a \in ToSet(s) : h.units[a] \in Nat
  <2>1. b \notin ToSet(s)
    <3>1. b # arena
      BY UnitsFacts
    <3>2. \A a \in ToSet(s) : a # arena => a \in U
      BY <1>s, HeapOKFacts DEF Blocks
    <3>. QED  BY <3>1, <3>2
  <2>. QED  BY <1>s, <2>1, HeapOKFacts DEF HeapOK
<1>2. s \in Seq(Addr) /\ Len(s) \in Nat /\ DOMAIN s = 1..Len(s) /\ Len(s) > 0
  BY <1>1, RingFacts
<1>. DEFINE B == {i \in DOMAIN s : Between(s[i], b, s[After(s, i)])}
<1>k. PICK k : k = Min(B)
  OBVIOUS
<1>3. k \in B
  <2>1. B \in SUBSET Nat /\ B # {}
    BY <1>1, <1>2, PlaceFound
  <2>. HIDE DEF B
  <2>. QED  BY <2>1, <1>k, MinFacts
<1>4. k \in 1..Len(s) /\ Between(s[k], b, s[After(s, k)])
  BY <1>2, <1>3
<1>5. t = From(s, k)
  BY <1>k, <1>s, <1>t DEF FoundPlace
<1>6. t[1] = s[k] /\ t[After(t, 1)] = s[After(s, k)]
  BY <1>1, <1>4, <1>5, TurnedFacts
<1>7. RingOK(t, h.units) /\ ToSet(t) = ToSet(s)
  <2>1. k \in 1..Len(s) + 1
    BY <1>2, <1>4
  <2>. QED  BY <1>1, <1>5, <2>1, RingTurned
<1>8. t[1] < b /\ (t[After(t, 1)] = arena \/ b < t[After(t, 1)])
  BY <1>1, <1>4, <1>6, PlaceFound
<1>. QED  BY <1>1, <1>7, <1>8, <1>s, <1>t

-----------------------------------------------------------------------------
(* slob_free. *)

\* What the heap h becomes when its units V are those of the list and of A, and n of them
\* are together in the list.
PutBack(h, g, A, V, n) ==
  /\ HeapOK(g, A, V)
  /\ \A a \in A : g.units[a] = h.units[a]
  /\ \E c \in ToSet(g.ring) : g.units[c] >= n

\* A block of units outside U that is put into the list.
LEMMA FreedFacts ==
  ASSUME NEW h, NEW A, NEW U, HeapOK(h, A, U), NEW b \in Nat, NEW n \in Nat \ {0},
         b..b + n - 1 \subseteq Addr \ U
  PROVE  PutBack(h, Freed(h, b, n), A, U \cup b..b + n - 1, n)
<1>u. PICK u : u = h.units
  OBVIOUS
<1>g. PICK g : g = Freed(h, b, n)
  OBVIOUS
<1>t. PICK t : t = FoundPlace(h, b)
  OBVIOUS
<1>R. PICK R : R = Blocks(h)
  OBVIOUS
<1>V. PICK V : V = U \cup b..b + n - 1
  OBVIOUS
<1>0. /\ u \in [Addr -> Nat] /\ u[arena] = 1 /\ R \cap A = {} /\ Tiles(R \cup A, u, U)
      /\ U \subseteq Addr \ {arena} /\ U \in SUBSET Nat
  BY <1>u, <1>R, HeapOKFacts DEF HeapOK
<1>1. /\ b \in Nat \ U /\ b \in Addr /\ b # arena /\ V \subseteq Addr \ {arena} /\ V \in SUBSET Nat
      /\ b..b + n - 1 \cap U = {}
  <2>1. b \in b..b + n - 1 /\ b..b + n - 1 \subseteq Nat
    OBVIOUS
  <2>. QED  BY <1>0, <1>V, <2>1, UnitsFacts
<1>2. /\ RingOK(t, u) /\ ToSet(t) = ToSet(h.ring) /\ b \notin ToSet(t)
      /\ t[1] < b /\ (t[After(t, 1)] = arena \/ b < t[After(t, 1)])
  BY <1>1, <1>t, <1>u, RingPlaceFacts
<1>l. PICK l : l = Len(t)
  OBVIOUS
<1>cur. PICK cur : cur = t[1]
  OBVIOUS
<1>nx. PICK nx : nx = t[After(t, 1)]
  OBVIOUS
<1>. DEFINE jn == b + n = nx
            jc == cur + u[cur] = b
<1>sz. PICK size : size = IF jn THEN n + u[nx] ELSE n
  OBVIOUS
<1>v. PICK v : v = [a \in Addr |-> IF (jn /\ a = nx) \/ (jc /\ a = b) THEN 0
                                 ELSE IF jc /\ a = cur THEN u[cur] + size
                                 ELSE IF a = b THEN size ELSE u[a]]
  OBVIOUS
<1>k. PICK k : k = IF jn THEN 3 ELSE 2
  OBVIOUS
<1>w. PICK w : w = (IF jc THEN <<cur>> ELSE <<cur, b>>) \o SubSeq(t, k, l)
  OBVIOUS
<1>3. g.ring = w /\ g.units = v
  <2>1. g = [ring |-> (IF cur + u[cur] = b THEN <<cur>> ELSE <<cur, b>>)
                         \o SubSeq(t, IF b + n = nx THEN 3 ELSE 2, l),
             units |-> [a \in Addr |->
                          IF a \in (IF b + n = nx THEN {nx} ELSE {})
                                     \cup (IF cur + u[cur] = b THEN {b} ELSE {}) THEN 0
                          ELSE IF cur + u[cur] = b /\ a = cur
                            THEN u[cur] + (IF b + n = nx THEN n + u[nx] ELSE n)
                          ELSE IF a = b THEN (IF b + n = nx THEN n + u[nx] ELSE n) ELSE u[a]]]
    BY <1>g, <1>t, <1>u, <1>l, <1>cur, <1>nx DEF Freed
  <2>2. g.ring = (IF cur + u[cur] = b THEN <<cur>> ELSE <<cur, b>>)
                         \o SubSeq(t, IF b + n = nx THEN 3 ELSE 2, l)
    BY <2>1
  <2>3. g.units = [a \in Addr |->
                          IF a \in (IF b + n = nx THEN {nx} ELSE {})
                                     \cup (IF cur + u[cur] = b THEN {b} ELSE {}) THEN 0
                          ELSE IF cur + u[cur] = b /\ a = cur
                            THEN u[cur] + (IF b + n = nx THEN n + u[nx] ELSE n)
                          ELSE IF a = b THEN (IF b + n = nx THEN n + u[nx] ELSE n) ELSE u[a]]
    BY <2>1
  <2>4. g.ring = w
    BY <1>k, <1>w, <2>2
  <2>5. g.units = v
    BY <1>sz, <1>v, <2>3
  <2>. QED  BY <2>4, <2>5
<1>4. /\ t \in Seq(Addr) /\ l \in Nat /\ l > 0 /\ cur \in ToSet(t) /\ nx \in ToSet(t)
      /\ cur \in Addr /\ nx \in Addr /\ u[cur] \in Nat /\ u[nx] \in Nat /\ cur \in Int /\ nx \in Int
      /\ cur < b /\ (nx = arena \/ b < nx) /\ cur # b /\ nx # b
      /\ \A a \in ToSet(t) : a = arena \/ a \in R
      /\ arena \notin R /\ \A a \in R : a \in ToSet(t)
  <2>1. /\ t \in Seq(Addr) /\ l \in Nat /\ l > 0 /\ After(t, 1) \in 1..l /\ 1 \in 1..l
        /\ \A i \in 1..l : t[i] \in ToSet(t) /\ t[i] \in Addr /\ t[i] \in Int
    BY <1>2, <1>l, RingFacts
  <2>2. cur \in ToSet(t) /\ nx \in ToSet(t) /\ cur \in Addr /\ nx \in Addr /\ cur \in Int /\ nx \in Int
    BY <1>cur, <1>nx, <2>1
  <2>3. cur < b /\ (nx = arena \/ b < nx) /\ cur # b /\ nx # b
    BY <1>2, <1>cur, <1>nx, <2>2
  <2>4. \A a : a \in R <=> a \in ToSet(t) /\ a # arena
    BY <1>2, <1>R DEF Blocks
  <2>. QED  BY <1>0, <2>1, <2>2, <2>3, <2>4
<1>5. \A a \in R \cup A : a \in U /\ a \in Nat /\ a \in Addr /\ u[a] \in Nat /\ u[a] > 0 /\ a # b
  BY <1>1, <1>R, <1>u, HeapOKFacts
<1>6. (jn => nx # arena) /\ (jc => cur # arena) /\ (jn => nx \in R /\ l > 1 /\ nx = t[2]) /\ (jc => cur \in R)
  <2>1. jn => nx # arena
    BY <1>4, HeapConstants
  <2>2. jc => cur # arena
    <3>1. arena + 1 < 0 /\ arena \in Int
      BY HeapConstants
    <3>. QED  BY <1>0, <1>1, <1>4, <3>1
  <2>3. jn => l > 1 /\ nx = t[2]
    <3>1. l = 1 => nx = cur
      BY <1>cur, <1>nx, <1>l DEF After
    <3>2. jn => cur < nx
      BY <1>4
    <3>3. l # 1 => nx = t[2]
      BY <1>nx, <1>l DEF After
    <3>. QED  BY <1>4, <3>1, <3>2, <3>3
  <2>. QED  BY <1>4, <2>1, <2>2, <2>3
\* The block itself.
<1>v1. PICK v1 : v1 = [a \in Addr |-> IF a = b THEN n ELSE u[a]]
  OBVIOUS
<1>7. Tiles((R \cup A) \cup {b}, v1, V)
  <2>1. (\A s \in R \cup A : v1[s] = u[s]) /\ v1[b] = n
    BY <1>1, <1>5, <1>v1
  <2>2. PICK S : S = R \cup A
    OBVIOUS
  <2>3. Tiles(S, u, U) /\ (\A s \in S : v1[s] = u[s]) /\ U \in SUBSET Nat /\ b..b + n - 1 \cap U = {}
    BY <1>0, <1>1, <2>1, <2>2
  <2>4. Tiles(S \cup {b}, v1, U \cup b..b + n - 1)
    BY <2>1, <2>3, TileAdded
  <2>. QED  BY <1>V, <2>2, <2>4
<1>8. (cur = arena \/ cur + u[cur] <= b) /\ (nx = arena \/ b + n <= nx)
  <2>1. \A s, q \in (R \cup A) \cup {b} : s < q => s + v1[s] <= q
    BY <1>7 DEF Tiles
  <2>2. v1[b] = n /\ (cur # arena => v1[cur] = u[cur])
    BY <1>1, <1>4, <1>v1
  <2>. QED  BY <1>4, <2>1, <2>2
\* Merged with the block behind it.
<1>v2. PICK v2 : v2 = [a \in Addr |-> IF a = b THEN size ELSE u[a]]
  OBVIOUS
<1>S2. PICK S2 : S2 = ((R \cup A) \cup {b}) \ (IF jn THEN {nx} ELSE {})
  OBVIOUS
<1>9. Tiles(S2, v2, V)
  <2>1. CASE jn
    <3>1. v1[b] = n /\ v1[nx] = u[nx] /\ v2[b] = n + u[nx] /\ \A s \in ((R \cup A) \cup {b}) \ {b, nx} : v2[s] = v1[s]
      BY <1>1, <1>4, <1>5, <1>sz, <1>v1, <1>v2, <2>1
    <3>2. PICK S : S = (R \cup A) \cup {b}
      OBVIOUS
    <3>3. Tiles(S, v1, V) /\ V \in SUBSET Nat /\ b \in S /\ nx \in S /\ b + v1[b] = nx
          /\ (\A r \in S \ {b, nx} : v2[r] = v1[r]) /\ v2[b] = v1[b] + v1[nx]
      BY <1>1, <1>6, <1>7, <2>1, <3>1, <3>2
    <3>4. Tiles(S \ {nx}, v2, V)
      BY <3>3, TilesJoined
    <3>. QED  BY <1>S2, <2>1, <3>2, <3>4
  <2>2. CASE ~jn
    <3>1. v2 = v1 /\ S2 = (R \cup A) \cup {b}
      BY <1>sz, <1>v1, <1>v2, <1>S2, <2>2
    <3>. QED  BY <1>7, <3>1
  <2>. QED  BY <2>1, <2>2
\* Merged with the block before it.
<1>S3. PICK S3 : S3 = S2 \ (IF jc THEN {b} ELSE {})
  OBVIOUS
<1>10. Tiles(S3, v, V)
  <2>1. CASE jc
    <3>1. /\ v2[cur] = u[cur] /\ v2[b] = size /\ v[cur] = u[cur] + size
          /\ \A s \in S2 \ {cur, b} : v[s] = v2[s]
      <4>1. v2[cur] = u[cur] /\ v2[b] = size
        BY <1>1, <1>4, <1>v2
      <4>2. ~(jn /\ cur = nx)
        BY <1>4
      <4>3. v[cur] = u[cur] + size
        BY <1>4, <1>v, <2>1, <4>2
      <4>4. \A s \in S2 \ {cur, b} : s \in Addr /\ ~(jn /\ s = nx)
        BY <1>5, <1>S2
      <4>5. \A s \in S2 \ {cur, b} : v[s] = v2[s]
        BY <1>v, <1>v2, <4>4
      <4>. QED  BY <4>1, <4>3, <4>5
    <3>2. cur \in S2 /\ b \in S2
      <4>1. ~(jn /\ cur = nx) /\ ~(jn /\ b = nx)
        BY <1>4
      <4>. QED  BY <1>6, <1>S2, <2>1, <4>1
    <3>3. /\ Tiles(S2, v2, V) /\ V \in SUBSET Nat /\ cur + v2[cur] = b
          /\ (\A r \in S2 \ {cur, b} : v[r] = v2[r]) /\ v[cur] = v2[cur] + v2[b]
      BY <1>1, <1>9, <2>1, <3>1
    <3>4. Tiles(S2 \ {b}, v, V)
      BY <3>2, <3>3, TilesJoined
    <3>. QED  BY <1>S3, <2>1, <3>4
  <2>2. CASE ~jc
    <3>1. S3 = S2
      BY <1>S3, <2>2
    <3>2. \A s \in S2 : s \in Addr /\ ~(jn /\ s = nx)
      BY <1>1, <1>5, <1>S2
    <3>3. \A s \in S2 : v[s] = v2[s]
      BY <1>v, <1>v2, <2>2, <3>2
    <3>. QED  BY <1>9, <3>1, <3>3, TilesSame
  <2>. QED  BY <2>1, <2>2
\* The list.
<1>nn. PICK nxt : nxt = t[IF k <= l THEN k ELSE 1]
  OBVIOUS
<1>11. k \in 2..3 /\ k <= l + 1 /\ (k = 3 => t[2] # arena) /\ (nxt = arena \/ b + size < nxt)
  <2>1. CASE jn
    <3>1. k = 3 /\ l > 1 /\ t[2] = nx /\ nx # arena
      BY <1>6, <1>k, <2>1
    <3>2. 2 \in 1..l
      BY <1>4, <3>1
    <3>3. t[After(t, 2)] = arena \/ t[2] + u[t[2]] < t[After(t, 2)]
      <4>1. 2 \in 1..Len(t)
        BY <1>l, <3>2
      <4>. QED  BY <1>2, <4>1 DEF RingOK
    <3>4. After(t, 2) = IF k <= l THEN k ELSE 1
      <4>1. (IF 2 = l THEN 1 ELSE 2 + 1) = IF k <= l THEN k ELSE 1
        BY <1>4, <3>1
      <4>. QED  BY <1>l, <4>1 DEF After
    <3>5. nxt = arena \/ nx + u[nx] < nxt
      <4>1. nxt = t[After(t, 2)] /\ nx = t[2]
        BY <1>nn, <3>1, <3>4, Zenon
      <4>. QED  BY <3>3, <4>1, Zenon
    <3>6. b + size = nx + u[nx]
      <4>1. size = n + u[nx] /\ nx = b + n
        BY <1>sz, <2>1
      <4>2. b \in Nat /\ n \in Nat /\ u[nx] \in Nat
        BY <1>4
      <4>3. \A x, y, z \in Nat : x + (y + z) = (x + y) + z
        OBVIOUS
      <4>4. b + (n + u[nx]) = (b + n) + u[nx]
        BY <4>2, <4>3
      <4>. QED  BY <4>1, <4>4
    <3>. QED  BY <1>4, <3>1, <3>5, <3>6
  <2>2. CASE ~jn
    <3>1. k = 2 /\ size = n /\ b + n # nx
      BY <1>k, <1>sz, <2>2
    <3>2. After(t, 1) = IF k <= l THEN k ELSE 1
      <4>1. (IF 1 = l THEN 1 ELSE 1 + 1) = IF k <= l THEN k ELSE 1
        BY <1>4, <3>1
      <4>. QED  BY <1>l, <4>1 DEF After
    <3>3. nxt = nx
      BY <1>nn, <1>nx, <3>2
    <3>. QED  BY <1>4, <1>8, <3>1, <3>3
  <2>. QED  BY <2>1, <2>2
<1>12. \A j \in k..l : v[t[j]] = u[t[j]]
  <2>. TAKE j \in k..l
  <2>1. /\ j \in 1..l /\ j # 1 /\ (jn => j # 2) /\ (jn => 2 \in 1..l) /\ 1 \in 1..l
    BY <1>4, <1>6, <1>k
  <2>2. \A x, y \in 1..l : t[x] = t[y] => x = y
    BY <1>2, <1>l DEF RingOK
  <2>3. t[j] # cur /\ (jn => t[j] # nx)
    BY <1>6, <1>cur, <2>1, <2>2
  <2>4. t[j] \in Addr /\ t[j] # b
    BY <1>2, <1>l, <2>1, RingFacts
  <2>. QED  BY <1>v, <2>3, <2>4
<1>13. RingOK(w, v) /\ ToSet(w) = (ToSet(t) \ (IF k = 3 THEN {t[2]} ELSE {})) \cup (IF jc THEN {} ELSE {b})
  <2>1. CASE jc
    <3>1. v[cur] = u[cur] + size
      <4>1. ~(jn /\ cur = nx) /\ cur # b
        BY <1>4
      <4>. QED  BY <1>4, <1>v, <2>1, <4>1
    <3>2. size \in Nat
      BY <1>4, <1>sz
    <3>3. nxt = arena \/ t[1] + v[t[1]] < nxt
      <4>1. cur + (u[cur] + size) = b + size
        <5>1. cur \in Int /\ u[cur] \in Nat /\ cur + u[cur] = b
          BY <1>4, <2>1
        <5>. QED  BY <3>2, <5>1
      <4>. QED  BY <1>11, <1>cur, <3>1, <4>1
    <3>4. w = <<t[1]>> \o SubSeq(t, k, l)
      BY <1>w, <1>cur, <2>1
    <3>5. RingOK(t, u) /\ k \in 2..3 /\ k <= Len(t) + 1 /\ (k = 3 => t[2] # arena)
      BY <1>2, <1>11, <1>l
    <3>7. \A j \in k..Len(t) : v[t[j]] = u[t[j]]
      BY <1>12, <1>l
    <3>8. nxt = t[IF k <= Len(t) THEN k ELSE 1]
      BY <1>l, <1>nn
    <3>6. RingOf(<<t[1]>> \o SubSeq(t, k, Len(t)), v, ToSet(t) \ (IF k = 3 THEN {t[2]} ELSE {}))
      BY <3>3, <3>5, <3>7, <3>8, RingShrunk
    <3>. QED  BY <1>l, <2>1, <3>4, <3>6 DEF RingOf
  <2>2. CASE ~jc
    <3>1. v[cur] = u[cur] /\ v[b] = size
      <4>1. ~(jn /\ cur = nx) /\ cur # b /\ b # nx
        BY <1>4
      <4>. QED  BY <1>1, <1>4, <1>v, <2>2, <4>1
    <3>2. t[1] + v[t[1]] < b
      <4>1. cur + u[cur] < b
        <5>1. cur = arena => cur + u[cur] <= b
          BY <1>0, <1>1, HeapConstants
        <5>. QED  BY <1>1, <1>4, <1>8, <2>2, <5>1
      <4>. QED  BY <1>cur, <3>1, <4>1
    <3>3. w = <<t[1], b>> \o SubSeq(t, k, l)
      BY <1>w, <1>cur, <2>2
    <3>4. /\ RingOK(t, u) /\ k \in 2..3 /\ k <= Len(t) + 1 /\ (k = 3 => t[2] # arena)
          /\ b \in Addr /\ b \notin ToSet(t) /\ v[t[1]] = u[t[1]] /\ t[1] + v[t[1]] < b
      BY <1>1, <1>2, <1>11, <1>cur, <1>l, <3>1, <3>2
    <3>6. \A j \in k..Len(t) : v[t[j]] = u[t[j]]
      BY <1>12, <1>l
    <3>7. nxt = t[IF k <= Len(t) THEN k ELSE 1] /\ (nxt = arena \/ b + v[b] < nxt)
      BY <1>11, <1>l, <1>nn, <3>1
    <3>5. RingOf(<<t[1], b>> \o SubSeq(t, k, Len(t)), v,
                 (ToSet(t) \ (IF k = 3 THEN {t[2]} ELSE {})) \cup {b})
      BY <3>4, <3>6, <3>7, RingGrown
    <3>. QED  BY <1>l, <2>2, <3>3, <3>5 DEF RingOf
  <2>. QED  BY <2>1, <2>2
<1>14. Blocks(g) = (R \ (IF jn THEN {nx} ELSE {})) \cup (IF jc THEN {} ELSE {b})
  <2>1. (IF k = 3 THEN {t[2]} ELSE {}) = IF jn THEN {nx} ELSE {}
    BY <1>6, <1>k
  <2>2. ToSet(g.ring) = (ToSet(t) \ (IF jn THEN {nx} ELSE {})) \cup (IF jc THEN {} ELSE {b})
    BY <1>3, <1>13, <2>1
  <2>3. R = ToSet(t) \ {arena}
    BY <1>2, <1>R DEF Blocks
  <2>. QED  BY <1>1, <2>2, <2>3 DEF Blocks
<1>15. S3 = Blocks(g) \cup A /\ Blocks(g) \cap A = {}
  <2>1. b \notin R /\ b \notin A /\ (jn => nx \notin A)
    BY <1>0, <1>5, <1>6
  <2>2. Blocks(g) \cap A = {}
    BY <1>0, <1>14, <2>1
  <2>J. PICK J : J = IF jn THEN {nx} ELSE {}
    OBVIOUS
  <2>C. PICK C : C = IF jc THEN {b} ELSE {}
    OBVIOUS
  <2>3. (IF jc THEN {} ELSE {b}) = {b} \ C
    BY <2>C
  <2>4. Blocks(g) = (R \ J) \cup ({b} \ C)
    BY <1>14, <2>J, <2>3
  <2>5. S3 = (((R \cup A) \cup {b}) \ J) \ C
    BY <1>S2, <1>S3, <2>J, <2>C
  <2>6. C \subseteq {b} /\ J \cap A = {} /\ b \notin J /\ b \notin R /\ b \notin A
    BY <1>4, <2>1, <2>J, <2>C
  <2>7. S3 = Blocks(g) \cup A
    <3>. HIDE DEF jn, jc
    <3>. QED  BY <2>4, <2>5, <2>6
  <2>. QED  BY <2>2, <2>7
<1>16. v \in [Addr -> Nat] /\ v[arena] = 1
  <2>0. size \in Nat /\ u[cur] \in Nat
    BY <1>4, <1>sz
  <2>1. size \in Nat /\ u[cur] + size \in Nat
    <3>. HIDE DEF jn, jc
    <3>. QED  BY <2>0
  <2>2. v \in [Addr -> Nat]
    BY <1>0, <1>v, <2>1
  <2>3. v[arena] = u[arena]
    BY <1>1, <1>6, <1>v, UnitsFacts
  <2>. QED  BY <1>0, <2>2, <2>3
<1>17. HeapOK(g, A, V)
  BY <1>1, <1>3, <1>10, <1>13, <1>15, <1>16 DEF HeapOK
<1>18. \A a \in A : v[a] = u[a]
  <2>1. \A a \in A : a \in Addr /\ a # b /\ ~(jn /\ a = nx) /\ ~(jc /\ a = cur)
    BY <1>0, <1>5, <1>6
  <2>. QED  BY <1>v, <2>1
<1>19. \E c \in ToSet(w) : v[c] >= n
  <2>0. size >= n /\ size \in Nat
    BY <1>4, <1>sz
  <2>1. CASE jc
    <3>1. ~(jn /\ cur = nx) /\ cur # b /\ cur # arena
      BY <1>4, <1>6, <2>1
    <3>2. v[cur] = u[cur] + size
      BY <1>4, <1>v, <2>1, <3>1
    <3>3. cur \in ToSet(w)
      <4>1. cur \in Blocks(g)
        BY <1>6, <1>14, <2>1, <3>1
      <4>. QED  BY <1>3, <4>1 DEF Blocks
    <3>. QED  BY <1>4, <2>0, <3>2, <3>3
  <2>2. CASE ~jc
    <3>1. v[b] = size
      BY <1>1, <1>4, <1>v, <2>2
    <3>2. b \in ToSet(w)
      BY <1>13, <2>2
    <3>. QED  BY <2>0, <3>1, <3>2
  <2>. QED  BY <2>1, <2>2
<1>. QED  BY <1>3, <1>17, <1>18, <1>19, <1>g, <1>u, <1>V DEF PutBack

-----------------------------------------------------------------------------
(* slob_alloc from the list. *)

\* What the heap h becomes when a block a of n units is taken out of it.
TakenOut(h, g, a, A, U, n) ==
  /\ HeapOK(g, A \cup {a}, U)
  /\ a \in U \ A /\ g.units[a] = n
  /\ \A c \in A : g.units[c] = h.units[c]

\* The block that is cut is no longer in the list.
LEMMA CutFacts ==
  ASSUME NEW h, NEW A, NEW U, HeapOK(h, A, U), NEW n \in Nat, n > 1,
         \E c \in ToSet(h.ring) : h.units[c] >= n
  PROVE  TakenOut(h, Cut(h, n), Cut(h, n).at, A, U, n)
<1>u. PICK u : u = h.units
  OBVIOUS
<1>s. PICK s : s = h.ring
  OBVIOUS
<1>g. PICK g : g = Cut(h, n)
  OBVIOUS
<1>t. PICK t : t = FoundFirst(h, n)
  OBVIOUS
<1>R. PICK R : R = Blocks(h)
  OBVIOUS
<1>l. PICK l : l = Len(s)
  OBVIOUS
<1>0. /\ u \in [Addr -> Nat] /\ u[arena] = 1 /\ R \cap A = {} /\ Tiles(R \cup A, u, U)
      /\ U \subseteq Addr \ {arena} /\ U \in SUBSET Nat /\ RingOK(s, u)
  BY <1>u, <1>s, <1>R, HeapOKFacts DEF HeapOK
<1>1. /\ s \in Seq(Addr) /\ l \in Nat /\ l > 0 /\ DOMAIN s = 1..l
      /\ \A i \in 1..l : s[i] \in Addr /\ u[s[i]] \in Nat /\ After(s, i) \in 1..l
      /\ \A a \in ToSet(s) : \E i \in 1..l : s[i] = a
  BY <1>0, <1>l, RingFacts
<1>. DEFINE F == {i \in DOMAIN s : u[s[After(s, i)]] >= n}
<1>k. PICK k : k = Min(F)
  OBVIOUS
<1>2. k \in F
  <2>1. F \in SUBSET Nat
    BY <1>1
  <2>2. F # {}
    <3>1. PICK c \in ToSet(s) : u[c] >= n
      BY <1>s, <1>u
    <3>2. PICK j \in 1..l : s[j] = c
      BY <1>1
    <3>3. PICK i \in 1..l : After(s, i) = j
      <4>1. CASE j = 1
        <5>1. l \in 1..l
          BY <1>1
        <5>2. After(s, l) = 1
          BY <1>l DEF After
        <5>. QED  BY <4>1, <5>1, <5>2
      <4>2. CASE j # 1
        <5>1. j - 1 \in 1..l /\ j - 1 # l /\ (j - 1) + 1 = j
          BY <1>1, <4>2
        <5>2. After(s, j - 1) = j
          BY <1>l, <5>1 DEF After
        <5>. QED  BY <5>1, <5>2
      <4>. QED  BY <4>1, <4>2
    <3>4. i \in F
      BY <1>1, <3>1, <3>2, <3>3
    <3>. QED  BY <3>4
  <2>. HIDE DEF F
  <2>. QED  BY <1>k, <2>1, <2>2, MinFacts
<1>3. k \in 1..l /\ u[s[After(s, k)]] >= n
  BY <1>1, <1>2
<1>4. t = From(s, k)
  BY <1>k, <1>s, <1>t, <1>u DEF FoundFirst
<1>cur. PICK cur : cur = t[2]
  OBVIOUS
<1>5. RingOK(t, u) /\ ToSet(t) = ToSet(s) /\ Len(t) = l
  <2>1. k \in 1..Len(s) + 1
    BY <1>1, <1>3, <1>l
  <2>. QED  BY <1>0, <1>4, <1>l, <2>1, RingTurned
<1>6. l > 1 /\ cur # arena /\ u[cur] >= n
  <2>1. t[1] = s[k] /\ t[After(t, 1)] = s[After(s, k)]
    BY <1>0, <1>3, <1>4, <1>l, TurnedFacts
  <2>2. u[t[After(t, 1)]] >= n /\ t[After(t, 1)] # arena
    BY <1>0, <1>3, <2>1
  <2>3. l # 1
    <3>. SUFFICES ASSUME l = 1  PROVE FALSE
      OBVIOUS
    <3>1. PICK i \in 1..Len(t) : t[i] = arena
      BY <1>5 DEF RingOK
    <3>2. After(t, 1) = 1 /\ i = 1
      BY <1>5 DEF After
    <3>. QED  BY <2>2, <3>1, <3>2
  <2>4. After(t, 1) = 2
    BY <1>5, <2>3 DEF After
  <2>. QED  BY <1>1, <1>cur, <2>2, <2>3, <2>4
<1>p. PICK p : p = t[1]
  OBVIOUS
<1>nn. PICK nxt : nxt = t[IF 3 <= l THEN 3 ELSE 1]
  OBVIOUS
<1>7. /\ t \in Seq(Addr) /\ p \in Addr /\ cur \in Addr /\ nxt \in Addr /\ p \in Int /\ nxt \in Int
      /\ p \in ToSet(t) /\ cur \in ToSet(t)
      /\ p + u[p] < cur /\ (nxt = arena \/ cur + u[cur] < nxt) /\ u[p] \in Nat
      /\ \A i, j \in 1..l : t[i] = t[j] => i = j
      /\ 1 \in 1..l /\ 2 \in 1..l
  <2>1. 1 \in 1..l /\ 2 \in 1..l /\ (IF 3 <= l THEN 3 ELSE 1) \in 1..l
    BY <1>1, <1>6
  <2>2. /\ t \in Seq(Addr)
        /\ \A i \in 1..l : t[i] \in ToSet(t) /\ t[i] \in Addr /\ t[i] \in Int
    BY <1>5, RingFacts
  <2>3. p \in Addr /\ cur \in Addr /\ nxt \in Addr /\ p \in Int /\ nxt \in Int /\ p \in ToSet(t) /\ cur \in ToSet(t)
    BY <1>cur, <1>p, <1>nn, <2>1, <2>2
  <2>4. After(t, 1) = 2 /\ After(t, 2) = IF 3 <= l THEN 3 ELSE 1
    <3>1. (IF 1 = l THEN 1 ELSE 1 + 1) = 2 /\ (IF 2 = l THEN 1 ELSE 2 + 1) = IF 3 <= l THEN 3 ELSE 1
      BY <1>1, <1>6
    <3>. QED  BY <1>5, <3>1 DEF After
  <2>5. \A i \in 1..l : t[After(t, i)] = arena \/ t[i] + u[t[i]] < t[After(t, i)]
    BY <1>5 DEF RingOK
  <2>6. p + u[p] < cur /\ (nxt = arena \/ cur + u[cur] < nxt)
    BY <1>6, <1>cur, <1>p, <1>nn, <2>1, <2>4, <2>5
  <2>7. \A i, j \in 1..l : t[i] = t[j] => i = j
    BY <1>5 DEF RingOK
  <2>8. u[p] \in Nat
    BY <1>0, <2>3
  <2>. QED  BY <2>1, <2>2, <2>3, <2>6, <2>7, <2>8
<1>8. /\ cur \in R /\ cur \in U /\ cur \in Nat /\ u[cur] \in Nat /\ cur \notin A
      /\ \A a \in R \cup A : a \in U /\ a \in Nat /\ a \in Addr /\ u[a] \in Nat /\ u[a] > 0
  <2>1. \A a \in R \cup A : a \in U /\ a \in Nat /\ a \in Addr /\ u[a] \in Nat /\ u[a] > 0
    BY <1>R, <1>u, HeapOKFacts
  <2>2. cur \in R
    BY <1>5, <1>6, <1>7, <1>R, <1>s DEF Blocks
  <2>. QED  BY <1>0, <2>1, <2>2
<1>b. PICK b : b = cur + n
  OBVIOUS
<1>w. PICK w : w = (IF u[cur] = n THEN <<p>> ELSE <<p, b>>) \o SubSeq(t, 3, l)
  OBVIOUS
<1>v. PICK v : v = [a \in Addr |-> IF a = cur THEN n
                                   ELSE IF ~(u[cur] = n) /\ a = b THEN u[cur] - n ELSE u[a]]
  OBVIOUS
<1>9. g.at = cur /\ g.ring = w /\ g.units = v
  <2>1. g = [at |-> cur,
             ring |-> (IF u[cur] = n THEN <<p>> ELSE <<p, b>>) \o SubSeq(t, 3, l),
             units |-> [a \in Addr |-> IF a = cur THEN n
                                   ELSE IF ~(u[cur] = n) /\ a = b THEN u[cur] - n ELSE u[a]]]
    BY <1>g, <1>t, <1>u, <1>5, <1>cur, <1>p, <1>b DEF Cut
  <2>. QED  BY <2>1, <1>w, <1>v
<1>S. PICK S : S = R \cup A
  OBVIOUS
<1>Q. PICK Q : Q = (R \ {cur}) \cup (IF u[cur] = n THEN {} ELSE {b})
  OBVIOUS
<1>10. \A j \in 3..l : t[j] # cur /\ t[j] # p /\ t[j] \in ToSet(t) /\ t[j] \in Addr
  <2>. TAKE j \in 3..l
  <2>1. j \in 1..l /\ j # 1 /\ j # 2
    BY <1>1
  <2>2. t[j] \in ToSet(t) /\ t[j] \in Addr
    BY <1>5, <2>1, RingFacts
  <2>. QED  BY <1>7, <1>cur, <1>p, <2>1, <2>2
<1>11. /\ Q \cap (A \cup {cur}) = {} /\ ToSet(w) \ {arena} = Q
       /\ RingOK(w, v) /\ Tiles(Q \cup (A \cup {cur}), v, U)
       /\ \A a \in A : v[a] = u[a]
       /\ v \in [Addr -> Nat] /\ v[arena] = 1
  <2>1. CASE u[cur] = n
    <3>1. v = u
      <4>1. v = [a \in Addr |-> u[a]]
        BY <1>v, <2>1
      <4>2. u = [a \in Addr |-> u[a]]
        BY <1>0
      <4>. QED  BY <4>1, <4>2
    <3>2. RingOf(<<t[1]>> \o SubSeq(t, 3, Len(t)), v, ToSet(t) \ (IF 3 = 3 THEN {t[2]} ELSE {}))
      <4>1. nxt = arena \/ t[1] + v[t[1]] < nxt
        BY <1>6, <1>7, <1>8, <1>p, <3>1
      <4>2. RingOK(t, u) /\ 3 \in 2..3 /\ 3 <= Len(t) + 1 /\ (3 = 3 => t[2] # arena)
        BY <1>1, <1>5, <1>6, <1>cur
      <4>3. \A j \in 3..Len(t) : v[t[j]] = u[t[j]]
        BY <3>1
      <4>4. nxt = t[IF 3 <= Len(t) THEN 3 ELSE 1]
        BY <1>5, <1>nn
      <4>. QED  BY <4>1, <4>2, <4>3, <4>4, RingShrunk
    <3>3. RingOK(w, v) /\ ToSet(w) = ToSet(t) \ {cur}
      BY <1>5, <1>cur, <1>p, <1>w, <2>1, <3>2 DEF RingOf
    <3>4. Q = R \ {cur} /\ Q \cup (A \cup {cur}) = S
      BY <1>8, <1>Q, <1>S, <2>1
    <3>5. ToSet(w) \ {arena} = Q
      BY <1>5, <1>R, <1>s, <3>3, <3>4 DEF Blocks
    <3>. QED  BY <1>0, <1>S, <3>1, <3>3, <3>4, <3>5
  <2>2. CASE u[cur] # n
    <3>0. n < u[cur] /\ n \in Nat \ {0} /\ b \in Nat /\ b # cur /\ cur < b /\ b # arena /\ b \in U /\ b \in Addr
      <4>1. n < u[cur] /\ n \in Nat \ {0} /\ b \in Nat /\ b # cur /\ cur < b /\ b \in cur..cur + u[cur] - 1
        BY <1>6, <1>8, <1>b, <2>2
      <4>2. cur..cur + u[cur] - 1 \subseteq U
        BY <1>0, <1>8 DEF Tiles
      <4>. QED  BY <1>0, <4>1, <4>2
    <3>1. v[cur] = n /\ v[b] = u[cur] - n /\ \A a \in Addr : a # cur /\ a # b => v[a] = u[a]
      BY <1>7, <1>v, <2>2, <3>0
    <3>2. Tiles(S \cup {b}, v, U) /\ b \notin S
      <4>1. Tiles(S, u, U) /\ cur \in S /\ U \in SUBSET Nat
        BY <1>0, <1>8, <1>S
      <4>2. v[cur + n] = u[cur] - n
        BY <1>b, <3>1
      <4>3. cur + n \notin S
        <5>1. \A r, q \in S : r < q => r + u[r] <= q
          BY <4>1 DEF Tiles
        <5>. QED  BY <1>8, <1>b, <3>0, <4>1, <5>1
      <4>4. \A r \in S \ {cur} : v[r] = u[r]
        BY <1>8, <1>S, <1>b, <3>1, <4>3
      <4>5. Tiles(S \cup {cur + n}, v, U)
        BY <3>0, <3>1, <4>1, <4>2, <4>4, TileSplit
      <4>. QED  BY <1>b, <4>3, <4>5
    <3>3. b \notin ToSet(t)
      BY <1>5, <1>R, <1>S, <1>s, <3>0, <3>2 DEF Blocks
    <3>4. v[p] = u[p]
      BY <1>7, <3>1, <3>3
    <3>5. RingOf(<<t[1], b>> \o SubSeq(t, 3, Len(t)), v,
                 (ToSet(t) \ (IF 3 = 3 THEN {t[2]} ELSE {})) \cup {b})
      <4>1. nxt = arena \/ b + v[b] < nxt
        <5>1. b + v[b] = cur + u[cur]
          BY <1>8, <1>b, <3>1
        <5>. QED  BY <1>7, <5>1
      <4>2. p + u[p] < b
        BY <1>7, <1>8, <3>0
      <4>3. /\ RingOK(t, u) /\ 3 \in 2..3 /\ 3 <= Len(t) + 1 /\ (3 = 3 => t[2] # arena)
            /\ b \in Addr /\ b \notin ToSet(t) /\ v[t[1]] = u[t[1]] /\ t[1] + v[t[1]] < b
        BY <1>1, <1>5, <1>6, <1>cur, <1>p, <3>0, <3>3, <3>4, <4>2
      <4>4. \A j \in 3..Len(t) : v[t[j]] = u[t[j]]
        BY <1>5, <1>10, <3>1, <3>3
      <4>5. nxt = t[IF 3 <= Len(t) THEN 3 ELSE 1]
        BY <1>5, <1>nn
      <4>. QED  BY <4>1, <4>3, <4>4, <4>5, RingGrown
    <3>6. RingOK(w, v) /\ ToSet(w) = (ToSet(t) \ {cur}) \cup {b}
      BY <1>5, <1>cur, <1>p, <1>w, <2>2, <3>5 DEF RingOf
    <3>7. Q = (R \ {cur}) \cup {b} /\ Q \cup (A \cup {cur}) = S \cup {b}
      BY <1>8, <1>Q, <1>S, <2>2
    <3>8. ToSet(w) \ {arena} = Q
      BY <1>5, <1>R, <1>s, <3>0, <3>6, <3>7 DEF Blocks
    <3>9. Q \cap (A \cup {cur}) = {}
      BY <1>0, <1>S, <3>0, <3>2, <3>7
    <3>10. \A a \in A : v[a] = u[a]
      BY <1>8, <1>S, <3>1, <3>2
    <3>11. v \in [Addr -> Nat] /\ v[arena] = 1
      <4>1. u[cur] - n \in Nat
        BY <1>8, <3>0
      <4>2. v \in [Addr -> Nat]
        BY <1>0, <1>v, <4>1
      <4>. QED  BY <1>0, <1>6, <3>0, <3>1, <4>2, UnitsFacts
    <3>. QED  BY <3>2, <3>6, <3>7, <3>8, <3>9, <3>10, <3>11
  <2>. QED  BY <2>1, <2>2
<1>12. HeapOK(g, A \cup {cur}, U)
  <2>1. Blocks(g) = Q
    BY <1>9, <1>11 DEF Blocks
  <2>. QED  BY <1>0, <1>9, <1>11, <2>1 DEF HeapOK
<1>13. v[cur] = n
  BY <1>7, <1>v
<1>. QED  BY <1>8, <1>9, <1>11, <1>12, <1>13, <1>g, <1>u DEF TakenOut

-----------------------------------------------------------------------------
(* kfree gives a block back. *)

\* A block of A is back in the list.
Returned(h, A, U, b) ==
  /\ HeapOK(Freed(h, b, h.units[b]), A \ {b}, U)
  /\ \A a \in A \ {b} : Freed(h, b, h.units[b]).units[a] = h.units[a]

\* slob_free of an allocated block: its units stay the heap's.
LEMMA GivenBack ==
  ASSUME NEW h, NEW A, NEW U, HeapOK(h, A, U), NEW b \in A
  PROVE  Returned(h, A, U, b)
<1>n. PICK n : n = h.units[b]
  OBVIOUS
<1>R. PICK R : R = Blocks(h)
  OBVIOUS
<1>r. PICK run : run = b..b + n - 1
  OBVIOUS
<1>1. /\ h.units \in [Addr -> Nat] /\ h.units[arena] = 1 /\ RingOK(h.ring, h.units)
      /\ R \cap A = {} /\ Tiles(R \cup A, h.units, U) /\ U \subseteq Addr \ {arena} /\ U \in SUBSET Nat
  BY <1>R, HeapOKFacts DEF HeapOK
<1>2. b \in Nat /\ n \in Nat \ {0} /\ run \subseteq U
  BY <1>1, <1>n, <1>r DEF Tiles
<1>3. HeapOK(h, A \ {b}, U \ run)
  <2>S. PICK S : S = R \cup A
    OBVIOUS
  <2>1. Tiles(S \ {b}, h.units, U \ b..b + h.units[b] - 1)
    BY <1>1, <2>S, TileDropped
  <2>2. S \ {b} = R \cup (A \ {b}) /\ R \cap (A \ {b}) = {}
    BY <1>1, <2>S
  <2>. QED  BY <1>1, <1>n, <1>r, <1>R, <2>1, <2>2 DEF HeapOK
<1>4. b..b + n - 1 \subseteq Addr \ (U \ run)
  BY <1>1, <1>2, <1>r
<1>5. /\ HeapOK(Freed(h, b, n), A \ {b}, (U \ run) \cup b..b + n - 1)
      /\ \A a \in A \ {b} : Freed(h, b, n).units[a] = h.units[a]
  <2>A. PICK B : B = A \ {b}
    OBVIOUS
  <2>U. PICK V : V = U \ run
    OBVIOUS
  <2>1. HeapOK(h, B, V) /\ b..b + n - 1 \subseteq Addr \ V
    BY <1>3, <1>4, <2>A, <2>U
  <2>2. PutBack(h, Freed(h, b, n), B, V \cup b..b + n - 1, n)
    BY <1>2, <2>1, FreedFacts
  <2>. QED  BY <2>2, <2>A, <2>U DEF PutBack
<1>6. (U \ run) \cup b..b + n - 1 = U
  BY <1>2, <1>r
<1>. QED  BY <1>5, <1>6, <1>n DEF Returned

-----------------------------------------------------------------------------
(* kmalloc and kfree. *)

\* The big blocks, by size and by record, and the small ones that are in use.
BigSizes == {size \in Sizes : ~Small(size)}
BigRecord == [pages : Pages, order : {FindOrder(size) : size \in BigSizes}, bb : Nat]
RunOfBig(big) == big.pages..big.pages + 2 ^ big.order - 1

Descriptors == {big.bb : big \in ToSet(bigblocks)} \cup (IF pending = NULL THEN {} ELSE {pending.bb})
Allocated == {b.at - 1 : b \in held \ BigHeld} \cup Descriptors

\* The big blocks lie in pages of their own, and so do the descriptors.
BigsOK ==
  /\ bigblocks \in Seq(BigRecord) /\ IsInjective(bigblocks)
  /\ \A x, y \in ToSet(bigblocks) : x # y => x.bb # y.bb /\ RunOfBig(x) \cap RunOfBig(y) = {}
  /\ \A x \in ToSet(bigblocks) : RunOfBig(x) \subseteq Pages \ (FreePages \cup others)
  /\ others \subseteq Pages \ FreePages

PendingOK ==
  /\ pending = NULL \/ pending \in [bb : Nat, size : BigSizes]
  /\ pending # NULL => \A x \in ToSet(bigblocks) : x.bb # pending.bb
  /\ \A d \in Descriptors : units[d] = BIGBLOCK

\* No two callers hold the same block, and each has what it asked for.
HeldOK ==
  /\ held \subseteq [at : Nat, size : Sizes]
  /\ \A b, c \in held : b.at = c.at => b = c
  /\ \A b \in held : \A x \in ToSet(bigblocks) :
       x.pages * UNITS = b.at => b.size <= 2 ^ x.order * UNITS
  /\ \A b \in held \ BigHeld : units[b.at - 1] = b.size + 1 /\ b.at - 1 \notin Descriptors

HeapInv ==
  /\ PagesInv /\ BigsOK /\ PendingOK /\ HeldOK
  /\ HeapOK(Heap, Allocated, UnitsIn(SlobPages))

\* What a step does to the free pages.
PageStep == [Promised!Next]_<<FreePages, result>>

\* Which pages are the small blocks'.
LEMMA SlobPagesFacts ==
  /\ SlobPages \subseteq Pages
  /\ \A p : p \in BigPages <=> \E x \in ToSet(bigblocks) : p \in RunOfBig(x)
  /\ \A p : p \in SlobPages <=> /\ p \in Pages /\ p \notin FreePages /\ p \notin others
                                /\ \A x \in ToSet(bigblocks) : p \notin RunOfBig(x)
<1>1. \A p : p \in BigPages <=> \E x \in ToSet(bigblocks) : p \in RunOfBig(x)
  BY DEF BigPages, RunOfBig
<1>. QED  BY <1>1 DEF SlobPages

\* Sets of pages that are apart, as units.
LEMMA UnitsInFacts ==
  ASSUME NEW P \in SUBSET Pages, NEW Q \in SUBSET Pages, P \cap Q = {}
  PROVE  /\ UnitsIn(P) \cap UnitsIn(Q) = {}
         /\ UnitsIn(P \cup Q) = UnitsIn(P) \cup UnitsIn(Q)
         /\ UnitsIn(P) \subseteq Addr \ {arena}
         /\ \A p \in Pages : UnitsIn({p}) = UnitsOf(p)
         /\ \A q \in Q : q * UNITS \notin UnitsIn(P)
<1>1. \A p, q \in Pages : p # q => UnitsOf(p) \cap UnitsOf(q) = {}
  BY UnitsFacts
<1>2. \A S, x : x \in UnitsIn(S) <=> \E p \in S : x \in UnitsOf(p)
  BY DEF UnitsIn
<1>3. \A p \in P, q \in Q : UnitsOf(p) \cap UnitsOf(q) = {}
  BY <1>1
<1>4. UnitsIn(P) \cap UnitsIn(Q) = {}
  BY <1>2, <1>3
<1>5. UnitsIn(P \cup Q) = UnitsIn(P) \cup UnitsIn(Q)
  BY <1>2
<1>6. UnitsIn(P) \subseteq Addr \ {arena}
  <2>1. \A p \in P : UnitsOf(p) \subseteq Addr /\ UnitsOf(p) \subseteq Nat
    BY UnitsFacts
  <2>. QED  BY <1>2, <2>1, UnitsFacts
<1>7. \A p \in Pages : UnitsIn({p}) = UnitsOf(p)
  <2>. TAKE p \in Pages
  <2>1. \A x : x \in UnitsIn({p}) <=> x \in UnitsOf(p)
    BY <1>2
  <2>. QED  BY <2>1
<1>8. \A q \in Q : q * UNITS \notin UnitsIn(P)
  <2>1. \A q \in Q : q * UNITS \in UnitsOf(q)
    BY UnitsFacts
  <2>. QED  BY <1>2, <1>4, <2>1
<1>. QED  BY <1>4, <1>5, <1>6, <1>7, <1>8

\* A block before and after its record in the list of big blocks.
LEMMA BigFacts ==
  ASSUME BigsOK, NEW x \in ToSet(bigblocks)
  PROVE  /\ x \in BigRecord /\ x.bb \in Nat /\ x.pages \in Pages /\ x.pages \in Nat
         /\ 2 ^ x.order \in 1..MaxRun
         /\ x.pages \in RunOfBig(x) /\ x.pages \notin SlobPages
         /\ x.pages \notin FreePages
<1>1. x \in BigRecord
  BY SetOfQueue DEF BigsOK
<1>2. PICK size \in Sizes : ~Small(size) /\ x.order = FindOrder(size)
  BY <1>1 DEF BigRecord, BigSizes
<1>3. 2 ^ x.order \in 1..MaxRun
  BY <1>2, SizesAssumption
<1>4. x.bb \in Nat /\ x.pages \in Pages /\ x.pages \in Nat
  BY <1>1, PagesAreNumbers DEF BigRecord
<1>5. x.pages \in RunOfBig(x)
  <2>n. PICK n : n = 2 ^ x.order
    OBVIOUS
  <2>1. n \in Nat /\ n > 0
    BY <1>3, <2>n, RegionsAssumption
  <2>2. x.pages \in x.pages..x.pages + n - 1
    BY <1>4, <2>1
  <2>. QED  BY <2>2, <2>n DEF RunOfBig
<1>6. x.pages \notin SlobPages /\ x.pages \notin FreePages
  BY <1>5, SlobPagesFacts DEF BigsOK
<1>. QED  BY <1>1, <1>3, <1>4, <1>5, <1>6

\* A caller's small block lies in the pages of the small blocks.
LEMMA SmallFacts ==
  ASSUME HeapInv, NEW b \in held \ BigHeld
  PROVE  /\ b.at \in Nat /\ b.size \in Nat /\ b.size > 0 /\ b.at - 1 \in Allocated /\ b.at - 1 \in Nat
         /\ b.at \in UnitsIn(SlobPages)
<1>1. b.at \in Nat /\ b.size \in Sizes /\ units[b.at - 1] = b.size + 1
  BY DEF HeapInv, HeldOK
<1>2. b.size \in Nat /\ b.size > 0
  BY <1>1, HeapConstants
<1>a. PICK a : a = b.at - 1
  OBVIOUS
<1>3. a \in Allocated
  BY <1>a DEF Allocated
<1>4. a \in Nat /\ a..a + units[a] - 1 \subseteq UnitsIn(SlobPages)
  BY <1>3 DEF HeapInv, HeapOK, Tiles, Heap
<1>5. b.at \in a..a + units[a] - 1
  BY <1>1, <1>2, <1>4, <1>a
<1>. QED  BY <1>1, <1>2, <1>3, <1>4, <1>5, <1>a

\* At first the heap has no page.
LEMMA HeapStart == HeapInit => HeapInv
<1>. SUFFICES ASSUME HeapInit  PROVE HeapInv
  OBVIOUS
<1>1. PagesInv /\ FreePages = Pages
  BY PagesStart DEF HeapInit
<1>2. bigblocks = <<>> /\ pending = NULL /\ held = {} /\ others = {} /\ ring = <<arena>>
      /\ units = [a \in Addr |-> IF a = arena THEN 1 ELSE 0]
  BY DEF HeapInit
<1>3. ToSet(bigblocks) = {} /\ IsInjective(bigblocks) /\ bigblocks \in Seq(BigRecord)
  BY <1>2, EmptyFacts
<1>4. Descriptors = {} /\ Allocated = {}
  BY <1>2, <1>3 DEF Descriptors, Allocated
<1>5. SlobPages = {}
  BY <1>1, SlobPagesFacts
<1>6. UnitsIn(SlobPages) = {}
  BY <1>5 DEF UnitsIn
<1>7. BigsOK
  BY <1>2, <1>3 DEF BigsOK
<1>8. PendingOK
  BY <1>2, <1>4 DEF PendingOK
<1>9. HeldOK
  BY <1>2 DEF HeldOK
<1>10. HeapOK(Heap, {}, {})
  <2>1. Heap.ring = <<arena>> /\ Heap.units = units
    BY <1>2 DEF Heap
  <2>2. units \in [Addr -> Nat] /\ units[arena] = 1
    BY <1>2, UnitsFacts
  <2>3. RingOK(<<arena>>, units)
    <3>1. <<arena>> \in Seq(Addr) /\ Len(<<arena>>) = 1 /\ <<arena>>[1] = arena
      BY UnitsFacts
    <3>2. \A i \in 1..1 : After(<<arena>>, i) = 1 /\ i = 1
      BY <3>1 DEF After
    <3>. QED  BY <3>1, <3>2 DEF RingOK
  <2>4. Blocks(Heap) = {}
    <3>1. \A a \in ToSet(<<arena>>) : a = arena
      BY DEF ToSet
    <3>. QED  BY <2>1, <3>1 DEF Blocks
  <2>. QED  BY <2>1, <2>2, <2>3, <2>4 DEF HeapOK, Tiles
<1>. QED  BY <1>1, <1>4, <1>6, <1>7, <1>8, <1>9, <1>10 DEF HeapInv

\* Under the heap, alloc_pages does what PageAllocator allows, ...
LEMMA AllocStep == ASSUME PagesInv, NEW n \in 1..MaxRun, AllocPages(n)  PROVE PageStep
<1>1. n \in Nat \ {0}
  BY RegionsAssumption
<1>2. Promised!Alloc(n)
  BY <1>1, AllocFacts
<1>. QED  BY <1>2 DEF PageStep, Promised!Next

\* ... and so does free_pages.
LEMMA FreeStep ==
  ASSUME PagesInv, NEW base \in Nat, NEW n \in 1..MaxRun, FreePagesAt(base, n)
  PROVE  PageStep
<1>1. n \in Nat \ {0}
  BY RegionsAssumption
<1>2. /\ base \in Pages /\ base..base + n - 1 \subseteq Pages \ FreePages
      /\ FreePages' = FreePages \cup base..base + n - 1 /\ result' = result
  BY <1>1, FreeFacts
<1>3. Promised!Free(base, n)
  BY <1>2 DEF Promised!Free, Promised!Run
<1>. QED  BY <1>2, <1>3 DEF PageStep, Promised!Next

\* What leaves the page allocator alone.
LEMMA SamePages ==
  ASSUME PagesInv, UNCHANGED pageVars
  PROVE  PagesInv' /\ FreePages' = FreePages /\ PageStep
<1>1. UNCHANGED <<free_list, property, PG_property, nr_free, result>>
  BY DEF pageVars
<1>2. FreePages' = FreePages
  BY <1>1 DEF FreePages, BlockOf
<1>3. PagesInv'
  BY <1>1, <1>2 DEF PagesInv, PagesTypeOK, BlockOf, CountExact, FlagsExact, Gapped
<1>. QED  BY <1>1, <1>2, <1>3 DEF PageStep

\* slob_alloc of n units, where the pages of others and of big blocks stay as they are.
SlobAllocated(n) ==
  /\ PagesInv' /\ PageStep /\ FreePages' \subseteq FreePages
  /\ \/ /\ slob' = NULL /\ UNCHANGED <<ring, units>>
        /\ SlobPages' = SlobPages
     \/ /\ slob' # NULL
        /\ TakenOut(Heap, Heap', slob', Allocated, UnitsIn(SlobPages'), n)

\* slob_alloc from a list with a block that is long enough.
LEMMA TakeFromFacts ==
  ASSUME NEW h, NEW A, NEW U, HeapOK(h, A, U), NEW n \in Nat, n > 1,
         \E c \in ToSet(h.ring) : h.units[c] >= n, TakeFrom(h, n)
  PROVE  slob' # NULL /\ TakenOut(h, Heap', slob', A, U, n)
<1>1. TakenOut(h, Cut(h, n), Cut(h, n).at, A, U, n)
  BY CutFacts
<1>2. Heap'.ring = Cut(h, n).ring /\ Heap'.units = Cut(h, n).units /\ slob' = Cut(h, n).at
  BY DEF TakeFrom, Heap
<1>3. slob' \in U
  BY <1>1, <1>2 DEF TakenOut
<1>4. slob' \in Int
  BY <1>3, HeapOKFacts
<1>5. slob' # NULL
  BY <1>4, HeapConstants
<1>6. Blocks(Heap') = Blocks(Cut(h, n))
  BY <1>2 DEF Blocks
<1>7. TakenOut(h, Heap', slob', A, U, n)
  BY <1>1, <1>2, <1>6 DEF TakenOut, HeapOK
<1>. QED  BY <1>5, <1>7

\* slob_alloc, with a new page or without.
LEMMA SlobAllocFacts ==
  ASSUME HeapInv, NEW n \in Nat, n > 1, n <= UNITS, SlobAlloc(n), UNCHANGED <<bigblocks, others>>
  PROVE  SlobAllocated(n)
<1>0. PagesInv /\ BigsOK /\ HeapOK(Heap, Allocated, UnitsIn(SlobPages))
  BY DEF HeapInv
<1>A. PICK A : A = Allocated
  OBVIOUS
<1>h. PICK h : h = Heap
  OBVIOUS
<1>U. PICK U : U = UnitsIn(SlobPages)
  OBVIOUS
<1>1. HeapOK(h, A, U) /\ h.ring = ring /\ h.units = units
  BY <1>0, <1>A, <1>h, <1>U DEF Heap
<1>2. CASE \E b \in ToSet(ring) : units[b] >= n
  <2>1. TakeFrom(h, n) /\ UNCHANGED pageVars
    BY <1>2, <1>h DEF SlobAlloc
  <2>2. PagesInv' /\ FreePages' = FreePages /\ PageStep
    BY <1>0, <2>1, SamePages
  <2>3. SlobPages' = SlobPages
    BY <2>2 DEF SlobPages, BigPages
  <2>4. slob' # NULL /\ TakenOut(h, Heap', slob', A, U, n)
    BY <1>1, <1>2, <2>1, TakeFromFacts
  <2>5. UnitsIn(SlobPages') = U
    BY <1>U, <2>3
  <2>. QED  BY <1>A, <1>h, <2>2, <2>4, <2>5 DEF SlobAllocated
<1>3. CASE ~\E b \in ToSet(ring) : units[b] >= n
  <2>1. /\ AllocPages(1)
        /\ IF result' = NoPage
              THEN slob' = NULL /\ UNCHANGED <<ring, units>>
              ELSE TakeFrom(Freed(h, result' * UNITS, UNITS), n)
    BY <1>3, <1>h DEF SlobAlloc
  <2>2. PagesInv' /\ PageStep
    <3>1. 1 \in Nat \ {0} /\ 1 \in 1..MaxRun
      BY RegionsAssumption
    <3>. QED  BY <1>0, <2>1, <3>1, AllocFacts, AllocStep
  <2>3. \/ result' = NoPage /\ FreePages' = FreePages
        \/ /\ result' \in Pages /\ result'..result' + 1 - 1 \subseteq FreePages
           /\ FreePages' = FreePages \ result'..result' + 1 - 1
    <3>1. 1 \in Nat \ {0}
      OBVIOUS
    <3>. QED  BY <1>0, <2>1, <3>1, AllocFacts
  <2>4. CASE result' = NoPage /\ FreePages' = FreePages
    <3>1. SlobPages' = SlobPages
      BY <2>4 DEF SlobPages, BigPages
    <3>2. slob' = NULL /\ UNCHANGED <<ring, units>>
      BY <2>1, <2>4
    <3>. QED  BY <2>2, <2>4, <3>1, <3>2 DEF SlobAllocated
  <2>5. CASE /\ result' \in Pages /\ result'..result' + 1 - 1 \subseteq FreePages
             /\ FreePages' = FreePages \ result'..result' + 1 - 1
    <3>p. PICK p : p = result'
      OBVIOUS
    <3>1. p \in Pages /\ p \in FreePages /\ FreePages' = FreePages \ {p} /\ result' # NoPage
      <4>1. p \in Pages /\ p \in Nat /\ result' # NoPage
        BY <2>5, <3>p, PagesAreNumbers, RegionsAssumption
      <4>2. p..p + 1 - 1 = {p}
        BY <4>1
      <4>. QED  BY <2>5, <3>p, <4>1, <4>2
    <3>2. SlobPages' = SlobPages \cup {p} /\ p \notin SlobPages
      <4>1. BigPages' = BigPages /\ others' = others
        BY DEF BigPages
      <4>2. p \notin BigPages /\ p \notin others
        BY <1>0, <3>1, SlobPagesFacts DEF BigsOK
      <4>. QED  BY <3>1, <4>1, <4>2 DEF SlobPages
    <3>3. /\ UnitsIn(SlobPages') = U \cup UnitsOf(p) /\ UnitsOf(p) \cap U = {}
          /\ UnitsOf(p) \subseteq Addr
      <4>1. SlobPages \in SUBSET Pages /\ {p} \in SUBSET Pages /\ SlobPages \cap {p} = {}
        BY <3>1, <3>2, SlobPagesFacts
      <4>2. UnitsIn(SlobPages \cup {p}) = UnitsIn(SlobPages) \cup UnitsIn({p})
        BY <4>1, UnitsInFacts
      <4>3. UnitsIn(SlobPages) \cap UnitsIn({p}) = {}
        BY <4>1, UnitsInFacts
      <4>4. UnitsIn({p}) = UnitsOf(p)
        BY <3>1, <4>1, UnitsInFacts
      <4>5. UnitsOf(p) \subseteq Addr
        BY <3>1, UnitsFacts
      <4>. QED  BY <1>U, <3>2, <4>2, <4>3, <4>4, <4>5
    <3>b. PICK b : b = p * UNITS
      OBVIOUS
    <3>g. PICK g : g = Freed(h, b, UNITS)
      OBVIOUS
    <3>4. b \in Nat /\ UNITS \in Nat \ {0} /\ b..b + UNITS - 1 = UnitsOf(p)
      BY <3>1, <3>b, UnitsFacts, HeapConstants DEF UnitsOf
    <3>5. PutBack(h, g, A, U \cup b..b + UNITS - 1, UNITS)
      <4>1. b..b + UNITS - 1 \subseteq Addr \ U
        BY <3>3, <3>4
      <4>. QED  BY <1>1, <3>4, <3>g, <4>1, FreedFacts
    <3>V. PICK V : V = U \cup UnitsOf(p)
      OBVIOUS
    <3>6. HeapOK(g, A, V) /\ (\A a \in A : g.units[a] = h.units[a]) /\ \E c \in ToSet(g.ring) : g.units[c] >= UNITS
      BY <3>4, <3>5, <3>V DEF PutBack
    <3>7. \E c \in ToSet(g.ring) : g.units[c] >= n
      <4>1. PICK c \in ToSet(g.ring) : g.units[c] >= UNITS
        BY <3>6
      <4>2. g.units[c] \in Nat
        BY <3>6, HeapOKFacts
      <4>3. g.units[c] >= n
        BY <4>1, <4>2, HeapConstants
      <4>. QED  BY <4>3
    <3>8. TakeFrom(g, n)
      BY <2>1, <3>1, <3>b, <3>g, <3>p
    <3>9. slob' # NULL /\ TakenOut(g, Heap', slob', A, V, n)
      BY <3>6, <3>7, <3>8, TakeFromFacts
    <3>10. TakenOut(h, Heap', slob', A, V, n)
      BY <3>6, <3>9 DEF TakenOut
    <3>11. FreePages' \subseteq FreePages
      BY <3>1
    <3>. QED  BY <1>A, <1>h, <2>2, <3>3, <3>9, <3>10, <3>11, <3>V DEF SlobAllocated
  <2>. QED  BY <2>3, <2>4, <2>5
<1>. QED  BY <1>2, <1>3

\* The heap after slob_alloc of n units.
LEMMA SlobAllocTyped ==
  ASSUME HeapInv, NEW n \in Nat, SlobAllocated(n), UNCHANGED <<bigblocks, others>>
  PROVE  /\ PagesInv' /\ PageStep /\ BigsOK'
         /\ SlobPages' \subseteq Pages
         /\ \A x \in ToSet(bigblocks) : x.pages \in Pages /\ x.pages \notin SlobPages'
<1>1. PagesInv' /\ PageStep /\ FreePages' \subseteq FreePages
  BY DEF SlobAllocated
<1>2. BigsOK
  BY DEF HeapInv
<1>3. BigsOK'
  BY <1>1, <1>2 DEF BigsOK, RunOfBig
<1>4. SlobPages' \subseteq Pages /\ SlobPages' \cap BigPages = {}
  <2>1. BigPages' = BigPages
    BY DEF BigPages
  <2>. QED  BY <2>1 DEF SlobPages
<1>5. \A x \in ToSet(bigblocks) : x.pages \in Pages /\ x.pages \notin SlobPages'
  <2>. TAKE x \in ToSet(bigblocks)
  <2>1. x.pages \in RunOfBig(x) /\ x.pages \in Pages
    BY <1>2, BigFacts
  <2>2. x.pages \in BigPages
    BY <2>1, SlobPagesFacts
  <2>. QED  BY <1>4, <2>1, <2>2
<1>. QED  BY <1>1, <1>3, <1>4, <1>5

\* A call of slob_alloc that finds nothing leaves the heap as it is.
LEMMA NothingAllocated ==
  ASSUME HeapInv, PagesInv', BigsOK', UNCHANGED <<ring, units, bigblocks, pending, held>>,
         SlobPages' = SlobPages
  PROVE  HeapInv'
<1>1. BigHeld' = BigHeld
  BY DEF BigHeld
<1>2. Descriptors' = Descriptors
  BY DEF Descriptors
<1>3. Allocated' = Allocated
  BY <1>1, <1>2 DEF Allocated
<1>4. Heap' = Heap
  BY DEF Heap
<1>5. PendingOK'
  BY <1>2 DEF HeapInv, PendingOK
<1>6. HeldOK'
  BY <1>1, <1>2 DEF HeapInv, HeldOK
<1>7. HeapOK(Heap, Allocated, UnitsIn(SlobPages))'
  <2>1. HeapOK(Heap, Allocated, UnitsIn(SlobPages))
    BY DEF HeapInv
  <2>2. UnitsIn(SlobPages)' = UnitsIn(SlobPages)
    BY DEF UnitsIn, UnitsOf
  <2>. QED  BY <1>3, <1>4, <2>1, <2>2 DEF HeapOK, Blocks, RingOK, After, Tiles
<1>. QED  BY <1>5, <1>6, <1>7 DEF HeapInv

\* kmalloc of a small block.
LEMMA SmallStep ==
  ASSUME HeapInv, NEW size \in Sizes, KmallocSmall(size)  PROVE HeapInv' /\ PageStep
<1>n. PICK n : n = size + 1
  OBVIOUS
<1>1. n \in Nat /\ n > 1 /\ n <= UNITS /\ size \in Nat
  BY <1>n, HeapConstants DEF KmallocSmall
<1>2. /\ pending = NULL /\ SlobAlloc(n) /\ UNCHANGED <<bigblocks, pending, others>>
      /\ held' = IF slob' = NULL THEN held ELSE held \cup {[at |-> slob' + 1, size |-> size]}
  BY <1>n DEF KmallocSmall
<1>3. SlobAllocated(n)
  BY <1>1, <1>2, SlobAllocFacts
<1>4. /\ PagesInv' /\ PageStep /\ BigsOK' /\ SlobPages' \subseteq Pages
      /\ \A x \in ToSet(bigblocks) : x.pages \in Pages /\ x.pages \notin SlobPages'
  BY <1>1, <1>2, <1>3, SlobAllocTyped
<1>5. CASE slob' = NULL
  <2>1. UNCHANGED <<ring, units>> /\ SlobPages' = SlobPages
    BY <1>3, <1>5 DEF SlobAllocated
  <2>. QED  BY <1>2, <1>4, <1>5, <2>1, NothingAllocated
<1>6. CASE slob' # NULL
  <2>a. PICK a : a = slob'
    OBVIOUS
  <2>A. PICK A : A = Allocated
    OBVIOUS
  <2>U. PICK U : U = UnitsIn(SlobPages')
    OBVIOUS
  <2>g. PICK g : g = Heap'
    OBVIOUS
  <2>r. PICK r : r = [at |-> a + 1, size |-> size]
    OBVIOUS
  <2>1. TakenOut(Heap, g, a, A, U, n)
    BY <1>3, <1>6, <2>a, <2>A, <2>U, <2>g DEF SlobAllocated
  <2>2. /\ HeapOK(g, A \cup {a}, U) /\ a \notin A /\ g.units[a] = n
        /\ \A c \in A : g.units[c] = units[c]
    BY <2>1 DEF TakenOut, Heap
  <2>3. g.units = units' /\ g.ring = ring'
    BY <2>g DEF Heap
  <2>4. a \in Nat /\ a + 1 \in U
    <3>1. a \in Nat /\ a..a + n - 1 \subseteq U
      BY <2>2 DEF HeapOK, Tiles
    <3>2. a + 1 \in a..a + n - 1
      BY <1>1, <3>1
    <3>. QED  BY <3>1, <3>2
  <2>5. r.at = a + 1 /\ r.size = size /\ held' = held \cup {r}
    BY <1>2, <1>6, <2>a, <2>r
  <2>6. \A x \in ToSet(bigblocks) : x.pages * UNITS # r.at
    <3>. TAKE x \in ToSet(bigblocks)
    <3>S. PICK S : S = SlobPages'
      OBVIOUS
    <3>1. x.pages \in Pages /\ x.pages \notin S /\ S \subseteq Pages
      BY <1>4, <3>S
    <3>2. x.pages * UNITS \notin UnitsIn(S)
      <4>1. {x.pages} \in SUBSET Pages /\ S \cap {x.pages} = {} /\ x.pages \in {x.pages}
        BY <3>1
      <4>. QED  BY <3>1, <4>1, UnitsInFacts
    <3>. QED  BY <2>4, <2>5, <2>U, <3>2, <3>S
  <2>7. \A c \in held : c.at # r.at
    <3>. TAKE c \in held
    <3>1. CASE c \in BigHeld
      BY <2>6, <3>1 DEF BigHeld
    <3>2. CASE c \notin BigHeld
      <4>1. c.at \in Nat /\ c.at - 1 \in A
        BY <2>A, <3>2, SmallFacts
      <4>2. c.at - 1 # a
        BY <2>2, <4>1
      <4>. QED  BY <2>4, <2>5, <4>1, <4>2
    <3>. QED  BY <3>1, <3>2
  <2>8. BigHeld' = BigHeld /\ held' \ BigHeld' = (held \ BigHeld) \cup {r}
    <3>1. r \notin BigHeld
      BY <2>6 DEF BigHeld
    <3>2. BigHeld' = BigHeld
      BY <1>2, <2>5, <2>6 DEF BigHeld
    <3>. QED  BY <2>5, <3>1, <3>2
  <2>9. Descriptors' = Descriptors /\ Descriptors \subseteq A
    BY <1>2, <2>A DEF Descriptors, Allocated
  <2>10. Allocated' = A \cup {a}
    <3>1. r.at - 1 = a
      BY <2>4, <2>5
    <3>. QED  BY <2>8, <2>9, <2>A, <3>1 DEF Allocated
  <2>11. PendingOK'
    <3>1. PendingOK
      BY DEF HeapInv
    <3>. QED  BY <1>2, <2>2, <2>3, <2>9, <3>1 DEF PendingOK
  <2>12. HeldOK'
    <3>0. HeldOK
      BY DEF HeapInv
    <3>1. r \in [at : Nat, size : Sizes]
      BY <2>4, <2>r
    <3>2. \A b \in held \ BigHeld : units'[b.at - 1] = b.size + 1 /\ b.at - 1 \notin Descriptors
      <4>1. \A b \in held \ BigHeld : b.at - 1 \in A
        BY <2>A, SmallFacts
      <4>. QED  BY <2>2, <2>3, <3>0, <4>1 DEF HeldOK
    <3>3. units'[r.at - 1] = r.size + 1 /\ r.at - 1 \notin Descriptors
      <4>1. r.at - 1 = a
        BY <2>4, <2>5
      <4>. QED  BY <1>n, <2>2, <2>3, <2>5, <2>9, <4>1
    <3>4. held' \subseteq [at : Nat, size : Sizes]
      BY <2>5, <3>0, <3>1 DEF HeldOK
    <3>5. \A b, c \in held' : b.at = c.at => b = c
      BY <2>5, <2>7, <3>0 DEF HeldOK
    <3>6. \A b \in held' : \A x \in ToSet(bigblocks') :
            x.pages * UNITS = b.at => b.size <= 2 ^ x.order * UNITS
      BY <1>2, <2>5, <2>6, <3>0 DEF HeldOK
    <3>7. \A b \in held' \ BigHeld' : units'[b.at - 1] = b.size + 1 /\ b.at - 1 \notin Descriptors'
      BY <2>8, <2>9, <3>2, <3>3
    <3>. QED  BY <3>4, <3>5, <3>6, <3>7 DEF HeldOK
  <2>13. HeapOK(Heap', Allocated', UnitsIn(SlobPages'))
    BY <2>2, <2>10, <2>g, <2>U
  <2>. QED  BY <1>4, <2>11, <2>12, <2>13 DEF HeapInv, HeapOK, Blocks, RingOK, After, Tiles, UnitsIn, UnitsOf
<1>. QED  BY <1>4, <1>5, <1>6

\* kmalloc of a big block, up to its descriptor.
LEMMA DescriptorStep ==
  ASSUME HeapInv, NEW size \in Sizes, KmallocBig(size)  PROVE HeapInv' /\ PageStep
<1>1. BIGBLOCK \in Nat /\ BIGBLOCK > 1 /\ BIGBLOCK <= UNITS /\ size \in BigSizes
  BY HeapConstants DEF KmallocBig, BigSizes
<1>2. /\ pending = NULL /\ SlobAlloc(BIGBLOCK) /\ UNCHANGED <<bigblocks, held, others>>
      /\ pending' = IF slob' = NULL THEN NULL ELSE [bb |-> slob', size |-> size]
  BY DEF KmallocBig
<1>3. SlobAllocated(BIGBLOCK)
  BY <1>1, <1>2, SlobAllocFacts
<1>4. PagesInv' /\ PageStep /\ BigsOK'
  BY <1>1, <1>2, <1>3, SlobAllocTyped
<1>5. CASE slob' = NULL
  <2>1. UNCHANGED <<ring, units>> /\ SlobPages' = SlobPages /\ pending' = pending
    BY <1>2, <1>3, <1>5 DEF SlobAllocated
  <2>. QED  BY <1>2, <1>4, <1>5, <2>1, NothingAllocated
<1>6. CASE slob' # NULL
  <2>a. PICK a : a = slob'
    OBVIOUS
  <2>A. PICK A : A = Allocated
    OBVIOUS
  <2>U. PICK U : U = UnitsIn(SlobPages')
    OBVIOUS
  <2>g. PICK g : g = Heap'
    OBVIOUS
  <2>1. TakenOut(Heap, g, a, A, U, BIGBLOCK)
    BY <1>3, <1>6, <2>a, <2>A, <2>U, <2>g DEF SlobAllocated
  <2>2. /\ HeapOK(g, A \cup {a}, U) /\ a \notin A /\ g.units[a] = BIGBLOCK
        /\ \A c \in A : g.units[c] = units[c]
    BY <2>1 DEF TakenOut, Heap
  <2>3. g.units = units' /\ g.ring = ring'
    BY <2>g DEF Heap
  <2>4. a \in Nat
    BY <2>2 DEF HeapOK, Tiles
  <2>5. pending' = [bb |-> a, size |-> size] /\ pending' # NULL
    <3>1. pending' = [bb |-> a, size |-> size]
      BY <1>2, <1>6, <2>a
    <3>2. [bb |-> a, size |-> size] \in [bb : Nat, size : Nat]
      BY <2>4, HeapConstants
    <3>. QED  BY <3>1, <3>2, HeapAssumption
  <2>8. BigHeld' = BigHeld
    BY <1>2 DEF BigHeld
  <2>9. Descriptors' = Descriptors \cup {a} /\ Descriptors \subseteq A
    <3>1. pending'.bb = a
      BY <2>5
    <3>. QED  BY <1>2, <2>5, <2>A, <3>1 DEF Descriptors, Allocated
  <2>10. Allocated' = A \cup {a}
    BY <1>2, <2>8, <2>9, <2>A DEF Allocated
  <2>11. PendingOK'
    <3>1. PendingOK
      BY DEF HeapInv
    <3>2. \A x \in ToSet(bigblocks') : x.bb # pending'.bb
      <4>1. \A x \in ToSet(bigblocks) : x.bb \in Descriptors
        BY DEF Descriptors
      <4>. QED  BY <1>2, <2>2, <2>5, <2>9, <4>1
    <3>3. \A d \in Descriptors' : units'[d] = BIGBLOCK
      BY <2>2, <2>3, <2>9, <3>1 DEF PendingOK
    <3>4. pending' \in [bb : Nat, size : BigSizes]
      BY <1>1, <2>4, <2>5
    <3>. QED  BY <3>2, <3>3, <3>4 DEF PendingOK, BigSizes
  <2>12. HeldOK'
    <3>0. HeldOK
      BY DEF HeapInv
    <3>1. \A b \in held \ BigHeld : units'[b.at - 1] = b.size + 1 /\ b.at - 1 \notin Descriptors'
      <4>1. \A b \in held \ BigHeld : b.at - 1 \in A
        BY <2>A, SmallFacts
      <4>. QED  BY <2>2, <2>3, <2>9, <3>0, <4>1 DEF HeldOK
    <3>. QED  BY <1>2, <2>8, <3>0, <3>1 DEF HeldOK
  <2>13. HeapOK(Heap', Allocated', UnitsIn(SlobPages'))
    BY <2>2, <2>10, <2>g, <2>U
  <2>. QED  BY <1>4, <2>11, <2>12, <2>13 DEF HeapInv, HeapOK, Blocks, RingOK, After, Tiles, UnitsIn, UnitsOf
<1>. QED  BY <1>4, <1>5, <1>6

\* Blocks go back into the list where nothing else changes: C are those that stay.
LEMMA SameHeap ==
  ASSUME NEW g, NEW C, NEW U, HeapOK(g, C, U), g = Heap', C = Allocated', U = UnitsIn(SlobPages')
  PROVE  HeapOK(Heap, Allocated, UnitsIn(SlobPages))'
  BY DEF HeapOK, Blocks, RingOK, After, Tiles, UnitsIn, UnitsOf

\* The big block that still has no pages.
LEMMA PendingFacts ==
  ASSUME HeapInv, pending # NULL
  PROVE  /\ pending \in [bb : Nat, size : BigSizes]
         /\ pending.bb \in Nat /\ pending.size \in BigSizes
         /\ 2 ^ FindOrder(pending.size) \in 1..MaxRun
         /\ 2 ^ FindOrder(pending.size) \in Nat \ {0}
         /\ pending.size <= 2 ^ FindOrder(pending.size) * UNITS
         /\ pending.bb \in Allocated /\ pending.bb \in Descriptors /\ units[pending.bb] = BIGBLOCK
         /\ \A x \in ToSet(bigblocks) : x.bb # pending.bb
         /\ Descriptors = {big.bb : big \in ToSet(bigblocks)} \cup {pending.bb}
         /\ \A b \in held \ BigHeld : b.at - 1 # pending.bb
<1>1. pending \in [bb : Nat, size : BigSizes] /\ \A x \in ToSet(bigblocks) : x.bb # pending.bb
  BY DEF HeapInv, PendingOK
<1>2. pending.bb \in Nat /\ pending.size \in Sizes /\ ~Small(pending.size)
  BY <1>1 DEF BigSizes
<1>3. Descriptors = {big.bb : big \in ToSet(bigblocks)} \cup {pending.bb}
  BY DEF Descriptors
<1>4. pending.bb \in Descriptors /\ pending.bb \in Allocated
  BY <1>3 DEF Allocated
<1>5. units[pending.bb] = BIGBLOCK /\ \A b \in held \ BigHeld : b.at - 1 # pending.bb
  BY <1>4 DEF HeapInv, PendingOK, HeldOK
<1>6. /\ 2 ^ FindOrder(pending.size) \in 1..MaxRun
      /\ pending.size <= 2 ^ FindOrder(pending.size) * UNITS
  BY <1>2, SizesAssumption
<1>7. 2 ^ FindOrder(pending.size) \in Nat \ {0}
  <2>n. PICK n : n = 2 ^ FindOrder(pending.size)
    OBVIOUS
  <2>1. n \in 1..MaxRun
    BY <1>6, <2>n
  <2>2. n \in Nat \ {0}
    BY <2>1, RegionsAssumption
  <2>. QED  BY <2>2, <2>n
<1>8. pending.size \in BigSizes
  BY <1>2 DEF BigSizes
<1>. QED  BY <1>1, <1>2, <1>3, <1>4, <1>5, <1>6, <1>7, <1>8

\* Without pages the descriptor goes back.
LEMMA RefusedStep ==
  ASSUME HeapInv, KmallocPages, result' = NoPage  PROVE HeapInv' /\ PageStep
<1>n. PICK n : n = 2 ^ FindOrder(pending.size)
  OBVIOUS
<1>1. /\ pending # NULL /\ AllocPages(n) /\ SlobFree(pending.bb, BIGBLOCK) /\ pending' = NULL
      /\ UNCHANGED <<bigblocks, held, others>>
  BY <1>n DEF KmallocPages
<1>2. n \in 1..MaxRun /\ n \in Nat \ {0} /\ pending.bb \in Allocated /\ units[pending.bb] = BIGBLOCK
  BY <1>1, <1>n, PendingFacts
<1>3. PagesInv' /\ PageStep /\ FreePages' = FreePages
  <2>1. PagesInv
    BY DEF HeapInv
  <2>2. PagesInv' /\ PageStep
    BY <1>1, <1>2, <2>1, AllocFacts, AllocStep
  <2>3. result' \in Pages => result' # NoPage
    BY RegionsAssumption
  <2>4. FreePages' = FreePages
    BY <1>1, <1>2, <2>1, <2>3, AllocFacts
  <2>. QED  BY <2>2, <2>4
<1>4. BigsOK' /\ SlobPages' = SlobPages
  <2>1. BigsOK
    BY DEF HeapInv
  <2>2. BigsOK'
    BY <1>1, <1>3, <2>1 DEF BigsOK, RunOfBig
  <2>. QED  BY <1>1, <1>3, <2>2 DEF SlobPages, BigPages
<1>A. PICK A : A = Allocated
  OBVIOUS
<1>U. PICK U : U = UnitsIn(SlobPages)
  OBVIOUS
<1>h. PICK h : h = Heap
  OBVIOUS
<1>b. PICK b : b = pending.bb
  OBVIOUS
<1>g. PICK g : g = Freed(h, b, h.units[b])
  OBVIOUS
<1>5. HeapOK(g, A \ {b}, U) /\ \A a \in A \ {b} : g.units[a] = units[a]
  <2>1. HeapOK(h, A, U) /\ b \in A
    BY <1>2, <1>A, <1>b, <1>h, <1>U DEF HeapInv
  <2>2. /\ HeapOK(Freed(h, b, h.units[b]), A \ {b}, U)
        /\ \A a \in A \ {b} : Freed(h, b, h.units[b]).units[a] = h.units[a]
    <3>1. Returned(h, A, U, b)
      BY <2>1, GivenBack
    <3>. QED  BY <3>1 DEF Returned
  <2>. QED  BY <1>g, <1>h, <2>2 DEF Heap
<1>6. g.units = units' /\ g.ring = ring' /\ g = Heap'
  <2>1. h.units[b] = BIGBLOCK
    BY <1>2, <1>b, <1>h DEF Heap
  <2>2. ring' = g.ring /\ units' = g.units
    BY <1>1, <1>b, <1>g, <1>h, <2>1 DEF SlobFree
  <2>3. g = [ring |-> g.ring, units |-> g.units]
    BY <1>g DEF Freed
  <2>. QED  BY <2>2, <2>3 DEF Heap
<1>7. BigHeld' = BigHeld
  BY <1>1 DEF BigHeld
<1>8. Descriptors' = Descriptors \ {b}
  <2>1. Descriptors' = {big.bb : big \in ToSet(bigblocks)}
    BY <1>1 DEF Descriptors
  <2>. QED  BY <1>1, <1>b, <2>1, PendingFacts
<1>9. Allocated' = A \ {b}
  <2>1. Allocated = {c.at - 1 : c \in held \ BigHeld} \cup Descriptors
    BY DEF Allocated
  <2>2. Allocated' = {c.at - 1 : c \in held \ BigHeld} \cup Descriptors'
    BY <1>1, <1>7 DEF Allocated
  <2>3. b \notin {c.at - 1 : c \in held \ BigHeld}
    BY <1>1, <1>b, PendingFacts
  <2>. QED  BY <1>8, <1>A, <2>1, <2>2, <2>3
<1>10. PendingOK'
  <2>1. \A d \in Descriptors : units[d] = BIGBLOCK /\ d \in A
    BY <1>A DEF HeapInv, PendingOK, Allocated
  <2>2. \A d \in Descriptors' : units'[d] = BIGBLOCK
    BY <1>5, <1>6, <1>8, <2>1
  <2>. QED  BY <1>1, <2>2 DEF PendingOK
<1>11. HeldOK'
  <2>0. HeldOK
    BY DEF HeapInv
  <2>1. \A c \in held \ BigHeld : units'[c.at - 1] = c.size + 1 /\ c.at - 1 \notin Descriptors'
    <3>1. \A c \in held \ BigHeld : c.at - 1 \in A \ {b}
      BY <1>1, <1>A, <1>b, SmallFacts, PendingFacts
    <3>. QED  BY <1>5, <1>6, <1>8, <2>0, <3>1 DEF HeldOK
  <2>. QED  BY <1>1, <1>7, <2>0, <2>1 DEF HeldOK
<1>12. HeapOK(Heap, Allocated, UnitsIn(SlobPages))'
  <2>1. UnitsIn(SlobPages') = U
    BY <1>4, <1>U
  <2>. QED  BY <1>5, <1>6, <1>9, <2>1, SameHeap
<1>. QED  BY <1>3, <1>4, <1>10, <1>11, <1>12 DEF HeapInv

\* With them the block is the caller's.
LEMMA PagesStep ==
  ASSUME HeapInv, KmallocPages, result' # NoPage  PROVE HeapInv' /\ PageStep
<1>n. PICK n : n = 2 ^ FindOrder(pending.size)
  OBVIOUS
<1>p. PICK p : p = result'
  OBVIOUS
<1>x. PICK x : x = [pages |-> p, order |-> FindOrder(pending.size), bb |-> pending.bb]
  OBVIOUS
<1>r. PICK r : r = [at |-> p * UNITS, size |-> pending.size]
  OBVIOUS
<1>1. /\ pending # NULL /\ AllocPages(n) /\ pending' = NULL
      /\ bigblocks' = <<x>> \o bigblocks /\ held' = held \cup {r}
      /\ UNCHANGED <<ring, units, others>>
  BY <1>n, <1>p, <1>x, <1>r DEF KmallocPages
<1>2. n \in 1..MaxRun /\ n \in Nat \ {0} /\ pending.size \in BigSizes /\ pending.bb \in Nat
      /\ pending.size <= n * UNITS
  BY <1>1, <1>n, PendingFacts
<1>0. PagesInv /\ BigsOK /\ PendingOK /\ HeldOK
  BY DEF HeapInv
<1>3. /\ PagesInv' /\ PageStep /\ p \in Pages /\ p \in Nat /\ p..p + n - 1 \subseteq FreePages
      /\ FreePages' = FreePages \ p..p + n - 1
  <2>1. PagesInv' /\ PageStep
    BY <1>0, <1>1, <1>2, AllocFacts, AllocStep
  <2>2. p \in Pages /\ p..p + n - 1 \subseteq FreePages /\ FreePages' = FreePages \ p..p + n - 1
    BY <1>0, <1>1, <1>2, <1>p, AllocFacts
  <2>. QED  BY <2>1, <2>2, PagesAreNumbers
<1>4. x \in BigRecord /\ x.pages = p /\ x.bb = pending.bb /\ RunOfBig(x) = p..p + n - 1
      /\ x.order = FindOrder(pending.size)
  <2>1. x.order = FindOrder(pending.size) /\ x.pages = p /\ x.bb = pending.bb
    BY <1>x
  <2>2. x \in BigRecord
    <3>1. FindOrder(pending.size) \in {FindOrder(size) : size \in BigSizes}
      BY <1>2
    <3>. QED  BY <1>2, <1>3, <1>x, <3>1 DEF BigRecord
  <2>3. RunOfBig(x) = p..p + n - 1
    BY <1>n, <2>1 DEF RunOfBig
  <2>. QED  BY <2>1, <2>2, <2>3
<1>5. p \in FreePages /\ \A y \in ToSet(bigblocks) : y.pages # p /\ y.pages \in Pages /\ y # x
  <2>1. p \in p..p + n - 1
    BY <1>2, <1>3
  <2>2. \A y \in ToSet(bigblocks) : y.pages \notin FreePages /\ y.pages \in Pages
    BY <1>0, BigFacts
  <2>. QED  BY <1>3, <1>4, <2>1, <2>2
<1>6. /\ bigblocks' \in Seq(BigRecord) /\ ToSet(bigblocks') = ToSet(bigblocks) \cup {x}
      /\ IsInjective(bigblocks')
  <2>1. bigblocks' = Cons(x, bigblocks) /\ x \notin ToSet(bigblocks)
    BY <1>1, <1>5 DEF Cons
  <2>2. bigblocks \in Seq(BigRecord) /\ IsInjective(bigblocks)
    BY <1>0 DEF BigsOK
  <2>. QED  BY <1>4, <2>1, <2>2, ConsFacts
<1>7. BigsOK'
  <2>1. \A y \in ToSet(bigblocks) : y.bb # x.bb /\ RunOfBig(x) \cap RunOfBig(y) = {}
    <3>1. \A y \in ToSet(bigblocks) : RunOfBig(y) \cap FreePages = {}
      BY <1>0 DEF BigsOK
    <3>2. \A y \in ToSet(bigblocks) : y.bb # x.bb
      BY <1>1, <1>4, PendingFacts
    <3>. QED  BY <1>3, <1>4, <3>1, <3>2
  <2>2. RunOfBig(x) \subseteq Pages \ (FreePages' \cup others)
    BY <1>0, <1>3, <1>4, FreePagesFacts DEF BigsOK
  <2>3. \A y, z \in ToSet(bigblocks') : y # z => y.bb # z.bb /\ RunOfBig(y) \cap RunOfBig(z) = {}
    BY <1>0, <1>6, <2>1 DEF BigsOK
  <2>4. \A y \in ToSet(bigblocks') : RunOfBig(y) \subseteq Pages \ (FreePages' \cup others')
    BY <1>0, <1>1, <1>3, <1>6, <2>2 DEF BigsOK
  <2>5. others' \subseteq Pages \ FreePages'
    BY <1>0, <1>1, <1>3 DEF BigsOK
  <2>. QED  BY <1>6, <2>3, <2>4, <2>5 DEF BigsOK, RunOfBig, BigRecord, BigSizes
<1>8. SlobPages' = SlobPages
  <2>1. \A q : q \in BigPages' <=> q \in BigPages \/ q \in p..p + n - 1
    <3>1. \A q : q \in BigPages' <=> \E y \in ToSet(bigblocks') : q \in RunOfBig(y)
      BY DEF BigPages, RunOfBig
    <3>. QED  BY <1>4, <1>6, <3>1, SlobPagesFacts
  <2>. QED  BY <1>1, <1>3, <2>1 DEF SlobPages
<1>9. Descriptors' = Descriptors
  <2>1. Descriptors = {y.bb : y \in ToSet(bigblocks)} \cup {x.bb}
    BY <1>1, <1>4, PendingFacts
  <2>2. Descriptors' = {y.bb : y \in ToSet(bigblocks')}
    BY <1>1 DEF Descriptors
  <2>. QED  BY <1>6, <2>1, <2>2
<1>10. \A c \in held : c.at # p * UNITS
  <2>1. \A q \in Pages : q # p => q * UNITS # p * UNITS
    BY <1>3, UnitsFacts
  <2>. TAKE c \in held
  <2>2. CASE c \in BigHeld
    BY <1>5, <2>1, <2>2 DEF BigHeld
  <2>3. CASE c \notin BigHeld
    <3>1. c.at \in UnitsIn(SlobPages)
      BY <2>3, SmallFacts
    <3>2. p \notin SlobPages /\ SlobPages \subseteq Pages
      BY <1>5, SlobPagesFacts
    <3>S. PICK S : S = SlobPages
      OBVIOUS
    <3>3. {p} \in SUBSET Pages /\ S \in SUBSET Pages /\ S \cap {p} = {} /\ p \in {p}
      BY <1>3, <3>2, <3>S
    <3>4. p * UNITS \notin UnitsIn(S)
      BY <3>3, UnitsInFacts
    <3>. QED  BY <3>1, <3>4, <3>S
  <2>. QED  BY <2>2, <2>3
<1>11. r.at = p * UNITS /\ r.size = pending.size
  BY <1>r
<1>12. BigHeld' = BigHeld \cup {r} /\ held' \ BigHeld' = held \ BigHeld
  <2>1. \A b : b \in BigHeld' <=> b \in BigHeld \/ b = r
    <3>1. \A b : b \in BigHeld' <=> b \in held' /\ \E y \in ToSet(bigblocks') : y.pages * UNITS = b.at
      BY DEF BigHeld
    <3>2. \A b : b \in BigHeld <=> b \in held /\ \E y \in ToSet(bigblocks) : y.pages * UNITS = b.at
      BY DEF BigHeld
    <3>3. x.pages * UNITS = r.at
      BY <1>4, <1>11
    <3>4. \A b \in held : x.pages * UNITS # b.at
      BY <1>4, <1>10
    <3>5. \A b \in held' : b = r \/ b \in held
      BY <1>1
    <3>6. r \in held' /\ held \subseteq held'
      BY <1>1
    <3>. QED  BY <1>6, <3>1, <3>2, <3>3, <3>4, <3>5, <3>6
  <2>2. r \notin held
    BY <1>10, <1>11
  <2>. QED  BY <1>1, <2>1, <2>2
<1>13. PendingOK'
  BY <1>0, <1>1, <1>9 DEF PendingOK
<1>14. HeldOK'
  <2>1. r \in [at : Nat, size : Sizes]
    BY <1>2, <1>3, <1>r, UnitsFacts DEF BigSizes
  <2>2. held' \subseteq [at : Nat, size : Sizes]
    BY <1>0, <1>1, <2>1 DEF HeldOK
  <2>3. \A b, c \in held' : b.at = c.at => b = c
    BY <1>0, <1>1, <1>10, <1>11 DEF HeldOK
  <2>4. \A b \in held' : \A y \in ToSet(bigblocks') :
          y.pages * UNITS = b.at => b.size <= 2 ^ y.order * UNITS
    <3>1. 2 ^ x.order = n
      BY <1>4, <1>n
    <3>2. r.size <= 2 ^ x.order * UNITS
      BY <1>2, <1>11, <3>1
    <3>3. \A y \in ToSet(bigblocks) : y.pages * UNITS # r.at
      <4>1. \A q \in Pages : q # p => q * UNITS # p * UNITS
        BY <1>3, UnitsFacts
      <4>. QED  BY <1>5, <1>11, <4>1
    <3>4. \A b \in held : x.pages * UNITS # b.at
      BY <1>4, <1>10
    <3>. QED  BY <1>0, <1>1, <1>6, <3>2, <3>3, <3>4 DEF HeldOK
  <2>5. \A b \in held' \ BigHeld' : units'[b.at - 1] = b.size + 1 /\ b.at - 1 \notin Descriptors'
    BY <1>0, <1>1, <1>9, <1>12 DEF HeldOK
  <2>. QED  BY <2>2, <2>3, <2>4, <2>5 DEF HeldOK
<1>15. HeapOK(Heap, Allocated, UnitsIn(SlobPages))'
  <2>1. Allocated' = Allocated /\ Heap' = Heap
    BY <1>1, <1>9, <1>12 DEF Allocated, Heap
  <2>2. HeapOK(Heap, Allocated, UnitsIn(SlobPages))
    BY DEF HeapInv
  <2>. QED  BY <1>8, <2>1, <2>2, SameHeap
<1>. QED  BY <1>3, <1>7, <1>13, <1>14, <1>15 DEF HeapInv

\* A list without repetition loses just the member that is removed.
LEMMA RemoveAtSet ==
  ASSUME NEW S0, NEW s \in Seq(S0), IsInjective(s), NEW k \in 1..Len(s)
  PROVE  /\ RemoveAt(s, k) \in Seq(S0)
         /\ ToSet(RemoveAt(s, k)) = ToSet(s) \ {s[k]}
         /\ IsInjective(RemoveAt(s, k))
<1>1. Len(s) \in Nat /\ DOMAIN s = 1..Len(s)
  OBVIOUS
<1>e. PICK e : e = s[k]
  OBVIOUS
<1>2. {i \in 1..Len(s) : s[i] = e} = {k}
  BY <1>1, <1>e DEF IsInjective
<1>3. Min({k}) = k
  BY <1>1 DEF Min
<1>4. SelectInSeq(s, LAMBDA v : v = e) = k
  BY <1>2, <1>3 DEF SelectInSeq
<1>5. RemoveFirst(s, e) = RemoveAt(s, k)
  BY <1>e, <1>4 DEF RemoveFirst
<1>6. e \in ToSet(s)
  BY <1>1, <1>e DEF ToSet
<1>. QED  BY <1>e, <1>5, <1>6, RemoveFirstFacts

\* Which big block kfree finds.
FoundBig(b) == SelectInSeq(bigblocks, LAMBDA big : big.pages * UNITS = b.at)

\* kfree finds a big block exactly if the pointer is that of one.
LEMMA FoundBigFacts ==
  ASSUME BigsOK, NEW b
  PROVE  /\ FoundBig(b) # 0 => /\ FoundBig(b) \in 1..Len(bigblocks)
                               /\ bigblocks[FoundBig(b)].pages * UNITS = b.at
         /\ FoundBig(b) = 0 => \A x \in ToSet(bigblocks) : x.pages * UNITS # b.at
<1>1. bigblocks \in Seq(BigRecord)
  BY DEF BigsOK
<1>2. Len(bigblocks) \in Nat /\ DOMAIN bigblocks = 1..Len(bigblocks)
  BY <1>1
<1>I. PICK I : I = {i \in 1..Len(bigblocks) : bigblocks[i].pages * UNITS = b.at}
  OBVIOUS
<1>3. FoundBig(b) = IF I # {} THEN Min(I) ELSE 0
  BY <1>I DEF FoundBig, SelectInSeq
<1>4. CASE I # {}
  <2>1. I \in SUBSET Nat
    BY <1>2, <1>I
  <2>2. Min(I) \in I
    BY <1>4, <2>1, MinFacts
  <2>3. FoundBig(b) \in I
    BY <1>3, <1>4, <2>2
  <2>4. FoundBig(b) # 0
    BY <1>2, <1>I, <2>3
  <2>. QED  BY <1>I, <2>3, <2>4
<1>5. CASE I = {}
  <2>1. \A x \in ToSet(bigblocks) : \E i \in 1..Len(bigblocks) : x = bigblocks[i]
    BY <1>2 DEF ToSet
  <2>. QED  BY <1>3, <1>5, <1>I, <2>1
<1>. QED  BY <1>4, <1>5

\* kfree of a big block: its pages are free, its descriptor is back in the list.
LEMMA BigFreedStep ==
  ASSUME HeapInv, NEW b \in held, Kfree(b), FoundBig(b) # 0  PROVE HeapInv' /\ PageStep
<1>0. PagesInv /\ BigsOK /\ PendingOK /\ HeldOK
  BY DEF HeapInv
<1>i. PICK i : i = FoundBig(b)
  OBVIOUS
<1>x. PICK x : x = bigblocks[i]
  OBVIOUS
<1>n. PICK n : n = 2 ^ x.order
  OBVIOUS
<1>1. i \in 1..Len(bigblocks) /\ x.pages * UNITS = b.at /\ x \in ToSet(bigblocks)
  <2>1. i \in 1..Len(bigblocks) /\ x.pages * UNITS = b.at
    BY <1>0, <1>i, <1>x, FoundBigFacts
  <2>2. DOMAIN bigblocks = 1..Len(bigblocks)
    BY <1>0 DEF BigsOK
  <2>. QED  BY <1>x, <2>1, <2>2 DEF ToSet
<1>2. /\ pending = NULL /\ FreePagesAt(x.pages, n) /\ SlobFree(x.bb, BIGBLOCK)
      /\ bigblocks' = RemoveAt(bigblocks, i) /\ held' = held \ {b}
      /\ UNCHANGED <<slob, pending, others>>
  BY <1>i, <1>x, <1>n DEF Kfree, FoundBig
<1>3. x.pages \in Nat /\ n \in 1..MaxRun /\ n \in Nat \ {0} /\ RunOfBig(x) = x.pages..x.pages + n - 1
  <2>1. x.pages \in Nat /\ n \in 1..MaxRun
    BY <1>0, <1>1, <1>n, BigFacts
  <2>2. n \in Nat \ {0}
    BY <2>1, RegionsAssumption
  <2>. QED  BY <1>n, <2>1, <2>2 DEF RunOfBig
<1>4. PagesInv' /\ PageStep /\ FreePages' = FreePages \cup RunOfBig(x)
  BY <1>0, <1>2, <1>3, FreeFacts, FreeStep
<1>5. /\ bigblocks' \in Seq(BigRecord) /\ IsInjective(bigblocks')
      /\ ToSet(bigblocks') = ToSet(bigblocks) \ {x}
  BY <1>0, <1>1, <1>2, <1>x, RemoveAtSet DEF BigsOK
<1>6. BigsOK'
  <2>1. \A y, z \in ToSet(bigblocks') : y # z => y.bb # z.bb /\ RunOfBig(y) \cap RunOfBig(z) = {}
    BY <1>0, <1>5 DEF BigsOK
  <2>2. \A y \in ToSet(bigblocks') : RunOfBig(y) \subseteq Pages \ (FreePages' \cup others')
    <3>. TAKE y \in ToSet(bigblocks')
    <3>1. RunOfBig(y) \cap RunOfBig(x) = {} /\ RunOfBig(y) \subseteq Pages \ (FreePages \cup others)
      BY <1>0, <1>1, <1>5 DEF BigsOK
    <3>. QED  BY <1>2, <1>4, <3>1
  <2>3. others' \subseteq Pages \ FreePages'
    BY <1>0, <1>1, <1>2, <1>4 DEF BigsOK
  <2>. QED  BY <1>5, <2>1, <2>2, <2>3 DEF BigsOK, RunOfBig, BigRecord, BigSizes
<1>7. SlobPages' = SlobPages
  <2>1. \A q : q \in BigPages <=> q \in BigPages' \/ q \in RunOfBig(x)
    <3>1. \A q : q \in BigPages' <=> \E y \in ToSet(bigblocks') : q \in RunOfBig(y)
      BY DEF BigPages, RunOfBig
    <3>. QED  BY <1>1, <1>5, <3>1, SlobPagesFacts
  <2>. QED  BY <1>2, <1>4, <2>1 DEF SlobPages
<1>A. PICK A : A = Allocated
  OBVIOUS
<1>U. PICK U : U = UnitsIn(SlobPages)
  OBVIOUS
<1>h. PICK h : h = Heap
  OBVIOUS
<1>d. PICK d : d = x.bb
  OBVIOUS
<1>g. PICK g : g = Freed(h, d, h.units[d])
  OBVIOUS
<1>8. d \in Descriptors /\ d \in A /\ units[d] = BIGBLOCK
  <2>1. d \in Descriptors
    BY <1>1, <1>d DEF Descriptors
  <2>. QED  BY <1>0, <1>A, <2>1 DEF PendingOK, Allocated
<1>9. HeapOK(g, A \ {d}, U) /\ \A a \in A \ {d} : g.units[a] = units[a]
  <2>1. HeapOK(h, A, U) /\ d \in A
    BY <1>8, <1>A, <1>h, <1>U DEF HeapInv
  <2>2. /\ HeapOK(Freed(h, d, h.units[d]), A \ {d}, U)
        /\ \A a \in A \ {d} : Freed(h, d, h.units[d]).units[a] = h.units[a]
    <3>1. Returned(h, A, U, d)
      BY <2>1, GivenBack
    <3>. QED  BY <3>1 DEF Returned
  <2>. QED  BY <1>g, <1>h, <2>2 DEF Heap
<1>10. g.units = units' /\ g.ring = ring' /\ g = Heap'
  <2>1. h.units[d] = BIGBLOCK
    BY <1>8, <1>h DEF Heap
  <2>2. ring' = g.ring /\ units' = g.units
    BY <1>2, <1>d, <1>g, <1>h, <2>1 DEF SlobFree
  <2>3. g = [ring |-> g.ring, units |-> g.units]
    BY <1>g DEF Freed
  <2>. QED  BY <2>2, <2>3 DEF Heap
<1>11. BigHeld' = BigHeld \ {b} /\ held' \ BigHeld' = held \ BigHeld
  <2>1. \A c \in held' : x.pages * UNITS # c.at
    BY <1>0, <1>1, <1>2 DEF HeldOK
  <2>2. \A c : c \in BigHeld' <=> c \in held' /\ \E y \in ToSet(bigblocks') : y.pages * UNITS = c.at
    BY DEF BigHeld
  <2>3. \A c : c \in BigHeld <=> c \in held /\ \E y \in ToSet(bigblocks) : y.pages * UNITS = c.at
    BY DEF BigHeld
  <2>4. \A c : c \in BigHeld' <=> c \in BigHeld \ {b}
    BY <1>2, <1>5, <2>1, <2>2, <2>3
  <2>5. b \in BigHeld
    BY <1>1, <2>3
  <2>. QED  BY <1>2, <2>4, <2>5
<1>12. Descriptors' = Descriptors \ {d}
  <2>1. Descriptors = {y.bb : y \in ToSet(bigblocks)} /\ Descriptors' = {y.bb : y \in ToSet(bigblocks')}
    BY <1>2 DEF Descriptors
  <2>2. \A y \in ToSet(bigblocks) : y # x => y.bb # d
    BY <1>0, <1>1, <1>d DEF BigsOK
  <2>. QED  BY <1>5, <1>d, <2>1, <2>2
<1>13. \A c \in held \ BigHeld : c.at - 1 \in A \ {d}
  BY <1>0, <1>8, <1>A, SmallFacts DEF HeldOK
<1>14. Allocated' = A \ {d}
  <2>1. Allocated = {c.at - 1 : c \in held \ BigHeld} \cup Descriptors
    BY DEF Allocated
  <2>2. Allocated' = {c.at - 1 : c \in held \ BigHeld} \cup Descriptors'
    BY <1>11 DEF Allocated
  <2>3. d \notin {c.at - 1 : c \in held \ BigHeld}
    BY <1>13
  <2>. QED  BY <1>12, <1>A, <2>1, <2>2, <2>3
<1>15. PendingOK'
  <2>1. \A e \in Descriptors : units[e] = BIGBLOCK /\ e \in A
    BY <1>0, <1>A DEF PendingOK, Allocated
  <2>2. \A e \in Descriptors' : units'[e] = BIGBLOCK
    BY <1>9, <1>10, <1>12, <2>1
  <2>. QED  BY <1>2, <2>2 DEF PendingOK
<1>16. HeldOK'
  <2>1. \A c \in held \ BigHeld : units'[c.at - 1] = c.size + 1 /\ c.at - 1 \notin Descriptors'
    BY <1>0, <1>9, <1>10, <1>12, <1>13 DEF HeldOK
  <2>2. held' \subseteq [at : Nat, size : Sizes]
    BY <1>0, <1>2 DEF HeldOK
  <2>3. \A c, e \in held' : c.at = e.at => c = e
    BY <1>0, <1>2 DEF HeldOK
  <2>4. \A c \in held' : \A y \in ToSet(bigblocks') :
          y.pages * UNITS = c.at => c.size <= 2 ^ y.order * UNITS
    BY <1>0, <1>2, <1>5 DEF HeldOK
  <2>. QED  BY <1>11, <2>1, <2>2, <2>3, <2>4 DEF HeldOK
<1>17. HeapOK(Heap, Allocated, UnitsIn(SlobPages))'
  <2>1. UnitsIn(SlobPages') = U
    BY <1>7, <1>U
  <2>. QED  BY <1>9, <1>10, <1>14, <2>1, SameHeap
<1>. QED  BY <1>4, <1>6, <1>15, <1>16, <1>17 DEF HeapInv

\* kfree of a small block.
LEMMA SmallFreedStep ==
  ASSUME HeapInv, NEW b \in held, Kfree(b), FoundBig(b) = 0  PROVE HeapInv' /\ PageStep
<1>0. PagesInv /\ BigsOK /\ PendingOK /\ HeldOK
  BY DEF HeapInv
<1>d. PICK d : d = b.at - 1
  OBVIOUS
<1>1. /\ pending = NULL /\ SlobFree(d, units[d]) /\ UNCHANGED <<pageVars, bigblocks>>
      /\ held' = held \ {b} /\ UNCHANGED <<slob, pending, others>>
  BY <1>d DEF Kfree, FoundBig
<1>2. b \in held \ BigHeld
  BY <1>0, FoundBigFacts DEF BigHeld
<1>3. PagesInv' /\ PageStep /\ FreePages' = FreePages
  BY <1>0, <1>1, SamePages
<1>4. BigsOK' /\ SlobPages' = SlobPages
  <2>1. BigsOK'
    BY <1>0, <1>1, <1>3 DEF BigsOK, RunOfBig
  <2>. QED  BY <1>1, <1>3, <2>1 DEF SlobPages, BigPages
<1>A. PICK A : A = Allocated
  OBVIOUS
<1>U. PICK U : U = UnitsIn(SlobPages)
  OBVIOUS
<1>h. PICK h : h = Heap
  OBVIOUS
<1>g. PICK g : g = Freed(h, d, h.units[d])
  OBVIOUS
<1>5. d \in A
  BY <1>2, <1>A, <1>d, SmallFacts
<1>6. HeapOK(g, A \ {d}, U) /\ \A a \in A \ {d} : g.units[a] = units[a]
  <2>1. HeapOK(h, A, U) /\ d \in A
    BY <1>5, <1>A, <1>h, <1>U DEF HeapInv
  <2>2. /\ HeapOK(Freed(h, d, h.units[d]), A \ {d}, U)
        /\ \A a \in A \ {d} : Freed(h, d, h.units[d]).units[a] = h.units[a]
    <3>1. Returned(h, A, U, d)
      BY <2>1, GivenBack
    <3>. QED  BY <3>1 DEF Returned
  <2>. QED  BY <1>g, <1>h, <2>2 DEF Heap
<1>7. g.units = units' /\ g.ring = ring' /\ g = Heap'
  <2>1. ring' = g.ring /\ units' = g.units
    BY <1>1, <1>g, <1>h DEF SlobFree, Heap
  <2>2. g = [ring |-> g.ring, units |-> g.units]
    BY <1>g DEF Freed
  <2>. QED  BY <2>1, <2>2 DEF Heap
<1>8. BigHeld' = BigHeld /\ held' \ BigHeld' = (held \ BigHeld) \ {b}
  <2>1. \A c : c \in BigHeld' <=> c \in held' /\ \E y \in ToSet(bigblocks) : y.pages * UNITS = c.at
    BY <1>1 DEF BigHeld
  <2>2. \A c : c \in BigHeld <=> c \in held /\ \E y \in ToSet(bigblocks) : y.pages * UNITS = c.at
    BY DEF BigHeld
  <2>. QED  BY <1>1, <1>2, <2>1, <2>2
<1>9. Descriptors' = Descriptors /\ d \notin Descriptors
  BY <1>0, <1>1, <1>2, <1>d DEF Descriptors, HeldOK
<1>10. \A c \in held \ BigHeld : c # b => c.at - 1 \in A \ {d}
  <2>. TAKE c \in held \ BigHeld
  <2>1. c.at \in Nat /\ b.at \in Nat /\ c.at - 1 \in A
    BY <1>2, <1>A, SmallFacts
  <2>2. c # b => c.at # b.at
    BY <1>0, <1>2 DEF HeldOK
  <2>. QED  BY <1>d, <2>1, <2>2
<1>11. Allocated' = A \ {d}
  <2>1. Allocated = {c.at - 1 : c \in held \ BigHeld} \cup Descriptors
    BY DEF Allocated
  <2>2. Allocated' = {c.at - 1 : c \in (held \ BigHeld) \ {b}} \cup Descriptors
    BY <1>8, <1>9 DEF Allocated
  <2>. QED  BY <1>2, <1>9, <1>10, <1>A, <1>d, <2>1, <2>2
<1>12. PendingOK'
  <2>1. \A e \in Descriptors : units[e] = BIGBLOCK /\ e \in A
    BY <1>0, <1>A DEF PendingOK, Allocated
  <2>2. \A e \in Descriptors' : units'[e] = BIGBLOCK
    BY <1>6, <1>7, <1>9, <2>1
  <2>. QED  BY <1>1, <2>2 DEF PendingOK
<1>13. HeldOK'
  <2>1. \A c \in (held \ BigHeld) \ {b} : units'[c.at - 1] = c.size + 1 /\ c.at - 1 \notin Descriptors'
    BY <1>0, <1>6, <1>7, <1>9, <1>10 DEF HeldOK
  <2>2. held' \subseteq [at : Nat, size : Sizes]
    BY <1>0, <1>1 DEF HeldOK
  <2>3. \A c, e \in held' : c.at = e.at => c = e
    BY <1>0, <1>1 DEF HeldOK
  <2>4. \A c \in held' : \A y \in ToSet(bigblocks') :
          y.pages * UNITS = c.at => c.size <= 2 ^ y.order * UNITS
    BY <1>0, <1>1 DEF HeldOK
  <2>. QED  BY <1>8, <2>1, <2>2, <2>3, <2>4 DEF HeldOK
<1>14. HeapOK(Heap, Allocated, UnitsIn(SlobPages))'
  <2>1. UnitsIn(SlobPages') = U
    BY <1>4, <1>U
  <2>. QED  BY <1>6, <1>7, <1>11, <2>1, SameHeap
<1>. QED  BY <1>3, <1>4, <1>12, <1>13, <1>14 DEF HeapInv

\* Pages for others come from the free ones, ...
LEMMA OtherAllocStep ==
  ASSUME HeapInv, NEW n \in 1..MaxRun, OtherAlloc(n)  PROVE HeapInv' /\ PageStep
<1>0. PagesInv /\ BigsOK
  BY DEF HeapInv
<1>1. /\ AllocPages(n) /\ UNCHANGED <<ring, units, bigblocks, pending, held>>
      /\ others' = IF result' = NoPage THEN others ELSE others \cup result'..result' + n - 1
  BY DEF OtherAlloc, heapVars, listVars
<1>2. n \in Nat \ {0}
  BY RegionsAssumption
<1>3. PagesInv' /\ PageStep
  BY <1>0, <1>1, <1>2, AllocFacts, AllocStep
<1>4. \/ FreePages' = FreePages /\ others' = others
      \/ \E run \in SUBSET FreePages :
           FreePages' = FreePages \ run /\ others' = others \cup run
  <2>1. result' \in Pages => result' # NoPage
    BY RegionsAssumption
  <2>2. \/ result' = NoPage /\ FreePages' = FreePages
        \/ /\ result' \in Pages
           /\ result'..result' + n - 1 \subseteq FreePages
           /\ FreePages' = FreePages \ result'..result' + n - 1
    BY <1>0, <1>1, <1>2, AllocFacts
  <2>. QED  BY <1>1, <2>1, <2>2
<1>5. BigsOK'
  <2>1. FreePages' \cup others' = FreePages \cup others /\ others' \subseteq Pages \ FreePages'
    BY <1>0, <1>4, FreePagesFacts DEF BigsOK
  <2>. QED  BY <1>0, <1>1, <2>1 DEF BigsOK, RunOfBig
<1>6. SlobPages' = SlobPages
  <2>1. FreePages' \cup others' = FreePages \cup others
    BY <1>4
  <2>. QED  BY <1>1, <2>1 DEF SlobPages, BigPages
<1>. QED  BY <1>1, <1>3, <1>5, <1>6, NothingAllocated

\* ... and go back to them; the heap is not touched.
LEMMA OtherFreeStep ==
  ASSUME HeapInv, NEW n \in 1..MaxRun, NEW base \in others, OtherFree(base, n)
  PROVE  HeapInv' /\ PageStep
<1>0. PagesInv /\ BigsOK
  BY DEF HeapInv
<1>r. PICK run : run = base..base + n - 1
  OBVIOUS
<1>1. /\ FreePagesAt(base, n) /\ UNCHANGED <<ring, units, bigblocks, pending, held>>
      /\ run \subseteq others /\ others' = others \ run
  BY <1>r DEF OtherFree, heapVars, listVars
<1>2. n \in Nat \ {0} /\ base \in Nat
  BY <1>0, RegionsAssumption, PagesAreNumbers DEF BigsOK
<1>3. PagesInv' /\ PageStep /\ FreePages' = FreePages \cup run
  BY <1>0, <1>1, <1>2, <1>r, FreeFacts, FreeStep
<1>4. FreePages' \cup others' = FreePages \cup others
  BY <1>1, <1>3
<1>5. BigsOK'
  <2>1. others' \subseteq Pages \ FreePages'
    BY <1>0, <1>1, <1>3 DEF BigsOK
  <2>. QED  BY <1>0, <1>1, <1>4, <2>1 DEF BigsOK, RunOfBig
<1>6. SlobPages' = SlobPages
  BY <1>1, <1>4 DEF SlobPages, BigPages
<1>. QED  BY <1>1, <1>3, <1>5, <1>6, NothingAllocated

\* Every step keeps the invariant and does what PageAllocator allows.
LEMMA HeapStep == HeapInv /\ [HeapNext]_allVars => HeapInv' /\ PageStep
<1>. SUFFICES ASSUME HeapInv, [HeapNext]_allVars  PROVE HeapInv' /\ PageStep
  OBVIOUS
<1>1. CASE \E size \in Sizes : KmallocSmall(size)
  BY <1>1, SmallStep
<1>2. CASE \E size \in Sizes : KmallocBig(size)
  BY <1>2, DescriptorStep
<1>3. CASE KmallocPages
  BY <1>3, RefusedStep, PagesStep
<1>4. CASE \E b \in held : Kfree(b)
  BY <1>4, BigFreedStep, SmallFreedStep
<1>5. CASE \E n \in 1..MaxRun : OtherAlloc(n)
  BY <1>5, OtherAllocStep
<1>6. CASE \E n \in 1..MaxRun : \E base \in others : OtherFree(base, n)
  BY <1>6, OtherFreeStep
<1>7. CASE UNCHANGED allVars
  <2>1. UNCHANGED <<ring, units, bigblocks, pending, held>> /\ UNCHANGED pageVars /\ UNCHANGED others
    BY <1>7 DEF allVars, heapVars, listVars
  <2>2. PagesInv' /\ PageStep /\ FreePages' = FreePages
    BY <2>1, SamePages DEF HeapInv
  <2>3. BigsOK' /\ SlobPages' = SlobPages
    BY <2>1, <2>2 DEF HeapInv, BigsOK, RunOfBig, SlobPages, BigPages
  <2>. QED  BY <2>1, <2>2, <2>3, NothingAllocated
<1>. QED  BY <1>1, <1>2, <1>3, <1>4, <1>5, <1>6, <1>7 DEF HeapNext

-----------------------------------------------------------------------------
(* The properties. *)

\* The pieces that the property speaks of are the blocks that tile the units.
LEMMA PiecesFacts ==
  ASSUME HeapInv
  PROVE  \A x : x \in Pieces <=> \E s \in Blocks(Heap) \cup Allocated : x = <<s, units[s]>>
<1>1. \A d \in Descriptors : units[d] = BIGBLOCK
  BY DEF HeapInv, PendingOK
<1>2. Pieces = {<<s, units[s]>> : s \in Blocks(Heap)}
                 \cup {<<b.at - 1, units[b.at - 1]>> : b \in held \ BigHeld}
                 \cup {<<d, BIGBLOCK>> : d \in Descriptors}
  <2>1. \A x : x \in {<<d, BIGBLOCK>> : d \in Descriptors} <=>
                 \/ x \in {<<big.bb, BIGBLOCK>> : big \in ToSet(bigblocks)}
                 \/ x \in (IF pending = NULL THEN {} ELSE {<<pending.bb, BIGBLOCK>>})
    BY DEF Descriptors
  <2>2. Blocks(Heap) = ToSet(ring) \ {arena}
    BY DEF Blocks, Heap
  <2>. QED  BY <2>1, <2>2 DEF Pieces
<1>3. \A s : s \in Allocated <=> (\E b \in held \ BigHeld : s = b.at - 1) \/ s \in Descriptors
  BY DEF Allocated
<1>. QED  BY <1>1, <1>2, <1>3

\* Sets that have nothing in common, counted together.
LEMMA CardinalityOfDisjoint ==
  ASSUME NEW S, NEW T, IsFiniteSet(S), IsFiniteSet(T), S \cap T = {}
  PROVE  IsFiniteSet(S \cup T) /\ Cardinality(S \cup T) = Cardinality(S) + Cardinality(T)
<1>1. Cardinality(S) \in Nat /\ Cardinality(T) \in Nat /\ Cardinality(S \cap T) = 0
  BY FS_CardinalityType, FS_EmptySet
<1>2. /\ IsFiniteSet(S \cup T)
      /\ Cardinality(S \cup T) = Cardinality(S) + Cardinality(T) - Cardinality(S \cap T)
  BY FS_Union
<1>. QED  BY <1>1, <1>2

\* Tiles do not overlap and fill their pages.
LEMMA NothingOverlapsAlways == HeapInv => NothingOverlaps
<1>. SUFFICES ASSUME HeapInv  PROVE NothingOverlaps
  OBVIOUS
<1>S. PICK S : S = Blocks(Heap) \cup Allocated
  OBVIOUS
<1>U. PICK U : U = UnitsIn(SlobPages)
  OBVIOUS
<1>1. Tiles(S, units, U)
  BY <1>S, <1>U DEF HeapInv, HeapOK, Heap
<1>2. \A x : x \in Pieces <=> \E s \in S : x = <<s, units[s]>>
  BY <1>S, PiecesFacts
<1>3. \A s \in S : <<s, units[s]>> \in Pieces /\ Span(<<s, units[s]>>) = s..s + units[s] - 1
  BY <1>2 DEF Span
<1>4. \A s \in S : s \in Nat /\ units[s] \in Nat /\ units[s] > 0
  BY <1>1 DEF Tiles
<1>5. UNION {Span(piece) : piece \in Pieces} =
        UNION {p * UNITS..p * UNITS + UNITS - 1 : p \in SlobPages}
  <2>1. U = UNION {p * UNITS..p * UNITS + UNITS - 1 : p \in SlobPages}
    BY <1>U DEF UnitsIn, UnitsOf
  <2>2. ASSUME NEW y \in U  PROVE \E piece \in Pieces : y \in Span(piece)
    <3>1. PICK s \in S : s <= y /\ y < s + units[s]
      BY <1>1 DEF Tiles
    <3>2. y \in Nat
      <4>1. U \in SUBSET Nat
        BY <1>U, HeapOKFacts DEF HeapInv
      <4>. QED  BY <4>1
    <3>3. y \in s..s + units[s] - 1
      BY <1>4, <3>1, <3>2
    <3>. QED  BY <1>3, <3>3
  <2>3. ASSUME NEW piece \in Pieces  PROVE Span(piece) \subseteq U
    <3>1. PICK s \in S : piece = <<s, units[s]>>
      BY <1>2
    <3>2. s..s + units[s] - 1 \subseteq U
      BY <1>1 DEF Tiles
    <3>. QED  BY <1>3, <3>1, <3>2
  <2>. QED  BY <2>1, <2>2, <2>3
<1>6. ASSUME NEW x \in Pieces, NEW y \in Pieces, x # y  PROVE Span(x) \cap Span(y) = {}
  <2>1. PICK s \in S : x = <<s, units[s]>>
    BY <1>2
  <2>2. PICK t \in S : y = <<t, units[t]>>
    BY <1>2
  <2>3. s # t
    BY <1>6, <2>1, <2>2
  <2>4. s < t => s + units[s] <= t
    BY <1>1 DEF Tiles
  <2>5. t < s => t + units[t] <= s
    BY <1>1 DEF Tiles
  <2>6. s..s + units[s] - 1 \cap t..t + units[t] - 1 = {}
    BY <1>4, <2>3, <2>4, <2>5
  <2>. QED  BY <1>3, <2>1, <2>2, <2>6
<1>7. Cardinality(FreePages) + Cardinality(others) + Cardinality(BigPages)
        + Cardinality(SlobPages) = Cardinality(Pages)
  <2>1. IsFiniteSet(Pages) /\ FreePages \subseteq Pages
    BY PagesAreNumbers, FreePagesFacts DEF HeapInv
  <2>2. others \subseteq Pages \ FreePages /\ BigPages \subseteq Pages \ (FreePages \cup others)
    BY SlobPagesFacts DEF HeapInv, BigsOK
  <2>3. SlobPages = Pages \ (FreePages \cup others \cup BigPages)
    BY DEF SlobPages
  <2>4. /\ IsFiniteSet(FreePages) /\ IsFiniteSet(others) /\ IsFiniteSet(BigPages)
        /\ IsFiniteSet(SlobPages)
    BY <2>1, <2>2, <2>3, FS_Subset
  <2>a. PICK a : a = FreePages
    OBVIOUS
  <2>b. PICK b : b = others
    OBVIOUS
  <2>c. PICK c : c = BigPages
    OBVIOUS
  <2>d. PICK d : d = SlobPages
    OBVIOUS
  <2>5. /\ IsFiniteSet(a) /\ IsFiniteSet(b) /\ IsFiniteSet(c) /\ IsFiniteSet(d)
        /\ a \cap b = {} /\ (a \cup b) \cap c = {} /\ (a \cup b \cup c) \cap d = {}
        /\ a \cup b \cup c \cup d = Pages
    BY <2>1, <2>2, <2>3, <2>4, <2>a, <2>b, <2>c, <2>d
  <2>6. IsFiniteSet(a \cup b) /\ Cardinality(a \cup b) = Cardinality(a) + Cardinality(b)
    BY <2>5, CardinalityOfDisjoint
  <2>7. /\ IsFiniteSet(a \cup b \cup c)
        /\ Cardinality(a \cup b \cup c) = Cardinality(a \cup b) + Cardinality(c)
    BY <2>5, <2>6, CardinalityOfDisjoint
  <2>8. Cardinality(a \cup b \cup c \cup d) = Cardinality(a \cup b \cup c) + Cardinality(d)
    BY <2>5, <2>7, CardinalityOfDisjoint
  <2>. QED  BY <2>5, <2>6, <2>7, <2>8, <2>a, <2>b, <2>c, <2>d
<1>. QED  BY <1>5, <1>6, <1>7 DEF NothingOverlaps

\* Read from arena, a ring is in address order.
LEMMA RingOrderedAlways == HeapInv => RingOrdered
<1>. SUFFICES ASSUME HeapInv  PROVE RingOrdered
  OBVIOUS
<1>1. RingOK(ring, units)
  BY DEF HeapInv, HeapOK, Heap
<1>I. PICK I : I = {i \in 1..Len(ring) : ring[i] = arena}
  OBVIOUS
<1>k. PICK k : k = SelectInSeq(ring, LAMBDA b : b = arena)
  OBVIOUS
<1>2. k \in 1..Len(ring) /\ ring[k] = arena
  <2>0. \E i \in 1..Len(ring) : ring[i] = arena
    BY <1>1 DEF RingOK
  <2>1. I # {} /\ I \in SUBSET Nat
    BY <1>I, <2>0
  <2>2. k = Min(I)
    BY <1>I, <1>k, <2>1 DEF SelectInSeq
  <2>3. k \in I
    BY <2>1, <2>2, MinFacts
  <2>. QED  BY <1>I, <2>3
<1>l. PICK line : line = From(ring, k)
  OBVIOUS
<1>3. RingOK(line, units) /\ line[1] = arena
  <2>1. k \in 1..Len(ring) + 1
    BY <1>1, <1>2, RingFacts
  <2>. QED  BY <1>1, <1>2, <1>l, <2>1, RingTurned, TurnedFacts
<1>4. ASSUME NEW i \in 2..Len(line)  PROVE line[i - 1] + units[line[i - 1]] < line[i]
  <2>0. Len(line) \in Nat
    BY <1>3, RingFacts
  <2>1. i - 1 \in 1..Len(line) /\ i \in 1..Len(line) /\ 1 \in 1..Len(line) /\ i # 1
    BY <2>0
  <2>2. After(line, i - 1) = i
    BY <2>0, <2>1 DEF After
  <2>3. line[i] # arena
    BY <1>3, <2>1 DEF RingOK
  <2>. QED  BY <1>3, <2>1, <2>2, <2>3 DEF RingOK
<1>. QED  BY <1>4, <1>k, <1>l DEF RingOrdered

\* A block has room for its header and for what was asked for.
LEMMA SufficientAlways == HeapInv => Sufficient
<1>. SUFFICES ASSUME HeapInv  PROVE Sufficient
  OBVIOUS
<1>1. \A b \in held \ BigHeld : b.size + 1 <= units[b.at - 1]
  <2>. TAKE b \in held \ BigHeld
  <2>1. b.size \in Nat /\ units[b.at - 1] = b.size + 1
    BY SmallFacts DEF HeapInv, HeldOK
  <2>. QED  BY <2>1
<1>2. \A b \in BigHeld : \E big \in ToSet(bigblocks) :
        big.pages * UNITS = b.at /\ b.size <= 2 ^ big.order * UNITS
  BY DEF HeapInv, HeldOK, BigHeld
<1>. QED  BY <1>1, <1>2 DEF Sufficient

-----------------------------------------------------------------------------
(* The theorems. *)

\* What kmalloc, kfree and the other callers of the page allocator keep.
THEOREM HeapInductive == HeapSpec => []HeapInv
<1>1. HeapInit => HeapInv
  BY HeapStart
<1>2. HeapInv /\ [HeapNext]_allVars => HeapInv'
  BY HeapStep
<1>. QED  BY <1>1, <1>2, PTL DEF HeapSpec

\* Whatever is allocated, freed and refused, through kmalloc and beside it: the page list
\* is merged and exact, nothing overlaps or is lost, every caller has what it asked for,
\* and the free list is one turn through the memory.
THEOREM HeapAlways == HeapSpec => []HeapExact
<1>1. HeapInv => HeapExact
  <2>1. HeapInv => FreeListInv
    BY ListIsSound DEF HeapInv
  <2>. QED  BY <2>1, NothingOverlapsAlways, SufficientAlways, RingOrderedAlways DEF HeapExact
<1>. QED  BY <1>1, HeapInductive, PTL

\* Under the heap default_pmm.c is a first-fit allocator: the lowest run of free pages
\* that is long enough, NULL only if there is none, and no page for two callers.
THEOREM HeapPages == HeapSpec => ImplementsPageAllocator
<1>1. HeapInit => Promised!Init
  BY PagesStart DEF HeapInit, InitPages, Promised!Init
<1>2. HeapInv /\ [HeapNext]_allVars => [Promised!Next]_<<FreePages, result>>
  BY HeapStep DEF PageStep
<1>. QED  BY <1>1, <1>2, HeapInductive, PTL DEF HeapSpec, ImplementsPageAllocator, Promised!Spec
=============================================================================
