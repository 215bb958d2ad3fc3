----------------------------- MODULE StrideHeap -----------------------------
(***************************************************************************)
(* The stride scheduler with its run pool as it is kept: the skew heap of  *)
(* libs/skew_heap.h, linked through proc->lab6_run_pool, its root in       *)
(* rq->lab6_run_pool.  It implements module StrideSched.                   *)
(***************************************************************************)
EXTENDS Integers, FiniteSets

CONSTANTS Proc, idle, BIG_STRIDE, Priority, MAX_TIME_SLICE, MaxTotal,
          NULL   \* no heap entry

VARIABLES current, asleep, lab6_stride, lab6_priority, time_slice, need_resched, total,
          heap   \* the entries' left, right and parent, and the root of the pool

vars == <<current, asleep, lab6_stride, lab6_priority, time_slice, need_resched,
          total, heap>>

RECURSIVE Below(_, _), Merge(_, _, _, _)

\* The threads of the heap rooted at a.
Below(h, a) == IF a = NULL THEN {} ELSE {a} \cup Below(h, h.left[a]) \cup Below(h, h.right[a])

Pool == Below(heap, heap.root)

Sched == INSTANCE StrideSched WITH pool <- Pool

-----------------------------------------------------------------------------
\* proc_stride_comp_f(a, b) = -1, for strides s.
Before(s, a, b) ==
  LET c == s[a] - s[b]
  IN  (IF c < 0 THEN c + 2 * BIG_STRIDE + 2 ELSE c) > BIG_STRIDE

\* Mutant: the old left child is dropped when a becomes the top.
UnderDropping(h, top, sub) ==
  [h EXCEPT !.left[top] = sub, !.right[top] = NULL,
            !.parent = [c \in Proc |-> IF c = sub THEN top ELSE h.parent[c]]]

\* top takes sub as its left child and its old left child as its right one.
Under(h, top, sub) ==
  [h EXCEPT !.left[top] = sub, !.right[top] = h.left[top],
            !.parent = [c \in Proc |-> IF c = sub THEN top ELSE h.parent[c]]]

\* skew_heap_merge(a, b): the heap with its root set to what the call returns.
Merge(s, h, a, b) ==
  IF a = NULL THEN [h EXCEPT !.root = b]
  ELSE IF b = NULL THEN [h EXCEPT !.root = a]
  ELSE LET top == IF Before(s, a, b) THEN a ELSE b
           m == IF top = a THEN Merge(s, h, h.right[a], b) ELSE Merge(s, h, a, h.right[b])
       IN  [Under(m, top, m.root) EXCEPT !.root = top]

\* skew_heap_insert: skew_heap_init, then merge.
Insert(s, h, b) ==
  Merge(s, [h EXCEPT !.left[b] = NULL, !.right[b] = NULL, !.parent[b] = NULL], h.root, b)

\* Mutant: what takes the place of b keeps b as its parent.
RemoveKeepingParent(s, h, b) == Merge(s, h, h.left[b], h.right[b])

\* skew_heap_remove: the subtrees of b, merged, take its place.
RemoveEntry(s, h, b) ==
  LET p == h.parent[b]
      m == Merge(s, h, h.left[b], h.right[b])
      rep == m.root
      n == [m EXCEPT !.parent = [c \in Proc |-> IF c = rep THEN p ELSE m.parent[c]]]
  IN  IF p = NULL THEN n
      ELSE IF n.left[p] = b THEN [n EXCEPT !.left[p] = rep, !.root = h.root]
      ELSE [n EXCEPT !.right[p] = rep, !.root = h.root]

-----------------------------------------------------------------------------
\* stride_pick_next charges the root, then stride_dequeue takes it out.
PickFrom(h) ==
  /\ need_resched' = FALSE
  /\ \/ /\ h.root = NULL
        /\ current' = idle
        /\ heap' = h
        /\ UNCHANGED <<lab6_stride, total>>
     \/ LET next == h.root IN
          /\ next # NULL
          /\ total[next] + Sched!Pass(next) <= MaxTotal
          /\ current' = next
          /\ lab6_stride' = [lab6_stride EXCEPT ![next] = Sched!Plus(@, Sched!Pass(next))]
          /\ total' = [total EXCEPT ![next] = @ + Sched!Pass(next)]
          /\ heap' = RemoveEntry(lab6_stride', h, next)

Preempt ==
  /\ need_resched
  /\ IF current = idle
       THEN PickFrom(heap) /\ UNCHANGED time_slice
       ELSE PickFrom(Insert(lab6_stride, heap, current)) /\ time_slice' = Sched!Refilled(current)
  /\ UNCHANGED <<asleep, lab6_priority>>

Block ==
  /\ current # idle
  /\ PickFrom(heap)
  /\ asleep' = asleep \cup {current}
  /\ UNCHANGED <<lab6_priority, time_slice>>

Exit ==
  /\ current # idle
  /\ PickFrom(heap)
  /\ UNCHANGED <<asleep, lab6_priority, time_slice>>

Wake(p) ==
  /\ p \in asleep
  /\ heap' = Insert(lab6_stride, heap, p)
  /\ asleep' = asleep \ {p}
  /\ time_slice' = Sched!Refilled(p)
  /\ UNCHANGED <<current, lab6_stride, lab6_priority, need_resched, total>>

Fork(p) ==
  /\ current # idle
  /\ p \notin Pool \cup {current} \cup asleep
  /\ lab6_stride' = [lab6_stride EXCEPT ![p] = 0]
  /\ heap' = Insert(lab6_stride', heap, p)
  /\ total' = [total EXCEPT ![p] = 0]
  /\ lab6_priority' = [lab6_priority EXCEPT ![p] = 0]
  /\ time_slice' = [time_slice EXCEPT ![p] = MAX_TIME_SLICE]
  /\ UNCHANGED <<current, asleep, need_resched>>

\* The heap stays as it is.
Elsewhere ==
  /\ UNCHANGED heap
  /\ Sched!Tick \/ Sched!Yield \/ \E n \in Priority : Sched!SetPriority(n)

Next == Elsewhere \/ Preempt \/ Block \/ Exit \/ \E p \in Proc : Wake(p) \/ Fork(p)

Init ==
  /\ \E p \in Proc :
       heap = [left |-> [q \in Proc |-> NULL], right |-> [q \in Proc |-> NULL],
               parent |-> [q \in Proc |-> NULL], root |-> p]
  /\ Sched!Init

Spec == Init /\ [][Next]_vars

-----------------------------------------------------------------------------
\* What skew_heap_remove relies on to unlink the thread that was picked: the parent
\* links are those of the tree, and the root has none.
ParentsExact ==
  /\ heap.root # NULL => heap.parent[heap.root] = NULL
  /\ \A p \in Pool : \A c \in {heap.left[p], heap.right[p]} \ {NULL} :
       heap.parent[c] = p

\* No thread of the pool is less than the one above it, whatever the strides; two
\* strides half the word apart are each less than the other and may stand either way.
HeapOrdered ==
  \A p \in Pool : \A c \in {heap.left[p], heap.right[p]} \ {NULL} :
    Before(lab6_stride, c, p) => Before(lab6_stride, p, c)

\* The pool is a heap whose links agree, through every merge, removal and wakeup.
HeapInv == ParentsExact /\ HeapOrdered

\* The heap is a run pool: schedule() picks a least thread wherever the comparator
\* orders the threads, and loses or duplicates none.
ImplementsStrideSched == Sched!Spec
=============================================================================
