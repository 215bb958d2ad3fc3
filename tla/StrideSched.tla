---------------------------- MODULE StrideSched ----------------------------
(***************************************************************************)
(* The stride scheduler of kern/schedule/default_sched_stride.c under      *)
(* schedule() and wakeup_proc(): which runnable thread gets the CPU next.  *)
(*                                                                         *)
(* Strides are unsigned words that wrap around and are compared by the     *)
(* sign of their difference; BIG_STRIDE is the largest positive one.  The  *)
(* run pool is a set here (module StrideHeap has the skew heap).  total is *)
(* a history variable: the stride as it would be without wrapping.         *)
(***************************************************************************)
EXTENDS Integers, FiniteSets

CONSTANTS Proc,            \* the threads but idleproc
          idle,            \* idleproc
          BIG_STRIDE,      \* 2^(w-1) - 1 for strides of w bits (32 in the code)
          Priority,        \* the values of lab6_priority, the initial 0 included
          MAX_TIME_SLICE,  \* rq->max_time_slice
          MaxTotal         \* bound: no thread runs once its total would exceed this

ASSUME StrideAssumption ==
  /\ idle \notin Proc
  /\ BIG_STRIDE \in Nat \ {0}
  /\ {0, 1} \subseteq Priority /\ Priority \subseteq Nat
  /\ MAX_TIME_SLICE \in Nat \ {0}
  /\ MaxTotal \in Nat

VARIABLES current,         \* the thread that owns the CPU
          pool,            \* the threads in rq->lab6_run_pool
          asleep,          \* the threads that block; the others are not in use
          lab6_stride,     \* proc->lab6_stride
          lab6_priority,   \* proc->lab6_priority
          time_slice,      \* proc->time_slice
          need_resched,    \* current->need_resched
          total            \* history: the stride without wrapping

vars == <<current, pool, asleep, lab6_stride, lab6_priority, time_slice,
          need_resched, total>>

Word == 0..2 * BIG_STRIDE + 1

Threads == pool \cup ({current} \ {idle})

TypeOK ==
  /\ current \in Proc \cup {idle}
  /\ pool \subseteq Proc \ {current}
  /\ asleep \subseteq Proc \ Threads
  /\ lab6_stride \in [Proc -> Word]
  /\ lab6_priority \in [Proc -> Priority]
  /\ time_slice \in [Proc -> 0..MAX_TIME_SLICE]
  /\ need_resched \in BOOLEAN
  /\ total \in [Proc -> Nat]

-----------------------------------------------------------------------------
\* Addition of unsigned words.
Plus(a, b) ==
  IF a + b > 2 * BIG_STRIDE + 1 THEN a + b - (2 * BIG_STRIDE + 2) ELSE a + b

\* Mutant: the strides are compared as unsigned numbers.
LessUnsigned(p, q) == lab6_stride[p] < lab6_stride[q]

\* proc_stride_comp_f(p, q) is -1: the difference of the words has its sign bit set.
Less(p, q) ==
  LET c == lab6_stride[p] - lab6_stride[q]
  IN  (IF c < 0 THEN c + 2 * BIG_STRIDE + 2 ELSE c) > BIG_STRIDE

\* Two strides that differ by exactly BIG_STRIDE + 1 are each less than the other.
LessEq(p, q) == Less(p, q) \/ ~Less(q, p)

\* The comparator orders the threads of S.
Ordered(S) ==
  \A p, q, r \in S : LessEq(p, q) /\ LessEq(q, r) => LessEq(p, r)

\* The threads that may be at the root of the heap: it puts none below one it is
\* less than, so where the comparator is an order the root is a least thread.
Roots(S) == IF Ordered(S) THEN {p \in S : \A q \in S : LessEq(p, q)} ELSE S

\* Mutant: the pass of a thread without a priority is one too large.
PassTooLarge(p) ==
  IF lab6_priority[p] = 0 THEN BIG_STRIDE + 1 ELSE BIG_STRIDE \div lab6_priority[p]

\* What a turn costs.
Pass(p) ==
  IF lab6_priority[p] = 0 THEN BIG_STRIDE ELSE BIG_STRIDE \div lab6_priority[p]

\* stride_enqueue refills a used-up slice.
Refilled(p) == [time_slice EXCEPT ![p] = IF @ = 0 THEN MAX_TIME_SLICE ELSE @]

-----------------------------------------------------------------------------
\* schedule() from the point where ready is the pool: pick_next and dequeue.
PickFrom(ready) ==
  /\ need_resched' = FALSE
  /\ \/ /\ ready = {}
        /\ current' = idle
        /\ pool' = {}
        /\ UNCHANGED <<lab6_stride, total>>
     \/ \E next \in Roots(ready) :
          /\ total[next] + Pass(next) <= MaxTotal
          /\ current' = next
          /\ pool' = ready \ {next}
          /\ lab6_stride' = [lab6_stride EXCEPT ![next] = Plus(@, Pass(next))]
          /\ total' = [total EXCEPT ![next] = @ + Pass(next)]

\* The timer interrupt: stride_proc_tick, or idle which always asks.
Tick ==
  /\ IF current = idle
       THEN need_resched' = TRUE /\ UNCHANGED time_slice
       ELSE LET left == IF time_slice[current] > 0 THEN time_slice[current] - 1 ELSE 0
            IN  /\ time_slice' = [time_slice EXCEPT ![current] = left]
                /\ need_resched' = (need_resched \/ left = 0)
  /\ UNCHANGED <<current, pool, asleep, lab6_stride, lab6_priority, total>>

\* do_yield.
Yield ==
  /\ current # idle
  /\ need_resched' = TRUE
  /\ UNCHANGED <<current, pool, asleep, lab6_stride, lab6_priority, time_slice, total>>

\* schedule() called because of need_resched: current is still runnable.
Preempt ==
  /\ need_resched
  /\ IF current = idle
       THEN PickFrom(pool) /\ UNCHANGED time_slice
       ELSE PickFrom(pool \cup {current}) /\ time_slice' = Refilled(current)
  /\ UNCHANGED <<asleep, lab6_priority>>

\* lab6_set_priority: 0 counts as 1.
SetPriority(n) ==
  /\ current # idle
  /\ lab6_priority' = [lab6_priority EXCEPT ![current] = IF n = 0 THEN 1 ELSE n]
  /\ UNCHANGED <<current, pool, asleep, lab6_stride, time_slice, need_resched, total>>

\* current blocks and calls schedule().
Block ==
  /\ current # idle
  /\ PickFrom(pool)
  /\ asleep' = asleep \cup {current}
  /\ UNCHANGED <<lab6_priority, time_slice>>

\* wakeup_proc: back into the pool with the stride it fell asleep with.
Wake(p) ==
  /\ p \in asleep
  /\ pool' = pool \cup {p}
  /\ asleep' = asleep \ {p}
  /\ time_slice' = Refilled(p)
  /\ UNCHANGED <<current, lab6_stride, lab6_priority, need_resched, total>>

\* do_fork: alloc_proc clears the scheduling fields, wakeup_proc enqueues.
Fork(p) ==
  /\ current # idle
  /\ p \notin Threads \cup asleep
  /\ pool' = pool \cup {p}
  /\ lab6_stride' = [lab6_stride EXCEPT ![p] = 0]
  /\ total' = [total EXCEPT ![p] = 0]
  /\ lab6_priority' = [lab6_priority EXCEPT ![p] = 0]
  /\ time_slice' = [time_slice EXCEPT ![p] = MAX_TIME_SLICE]
  /\ UNCHANGED <<current, asleep, need_resched>>

\* do_exit calls schedule() for good.
Exit ==
  /\ current # idle
  /\ PickFrom(pool)
  /\ UNCHANGED <<asleep, lab6_priority, time_slice>>

\* The threads keep running: none blocks, is woken, is created or exits.
Turn == Tick \/ Yield \/ Preempt \/ \E n \in Priority : SetPriority(n)

Next == Turn \/ Block \/ Exit \/ \E p \in Proc : Wake(p) \/ Fork(p)

-----------------------------------------------------------------------------
\* idle runs and the first thread has just been made.
Init ==
  /\ current = idle
  /\ \E p \in Proc : pool = {p}
  /\ asleep = {}
  /\ lab6_stride = [p \in Proc |-> 0]
  /\ lab6_priority = [p \in Proc |-> 0]
  /\ time_slice = [p \in Proc |-> MAX_TIME_SLICE]
  /\ need_resched = TRUE
  /\ total = [p \in Proc |-> 0]

Spec == Init /\ [][Next]_vars

\* Every thread is ready and no stride is more than one turn ahead of another.
ClosedInit ==
  /\ current = idle
  /\ pool = Proc
  /\ asleep = {}
  /\ total \in [Proc -> 0..BIG_STRIDE]
  /\ lab6_stride = total
  /\ lab6_priority \in [Proc -> Priority]
  /\ time_slice = [p \in Proc |-> MAX_TIME_SLICE]
  /\ need_resched = TRUE

\* A fixed set of threads that never block, the setting of the stride analysis.
ClosedSpec == ClosedInit /\ [][Turn]_vars

-----------------------------------------------------------------------------
\* The claim behind BIG_STRIDE: true strides never drift apart by more than it.
SpreadBounded ==
  \A p, q \in Threads : total[p] - total[q] <= BIG_STRIDE

\* The comparator on wrapped words tells which true stride is less.
ComparatorExact ==
  \A p, q \in Threads : Less(p, q) <=> total[p] < total[q]

\* The CPU goes to a ready thread with the least true stride.
PicksLeast ==
  [][\A p \in Threads' : (total'[p] # total[p] /\ p = current') =>
        \A q \in pool' : total[p] <= total[q]]_vars

\* A thread that runs without being asked to stop has some of its slice left, so
\* no thread can keep the CPU for more than MAX_TIME_SLICE ticks.
SliceLeft ==
  current # idle /\ ~need_resched => time_slice[current] > 0
=============================================================================
