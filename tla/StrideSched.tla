---------------------------- MODULE StrideSched -----------------------------
(***************************************************************************)
(* The stride scheduling class of lab8 (schedule/default_sched_stride.c)   *)
(* under schedule() and wakeup_proc: the run queue is a skew heap          *)
(* (libs/skew_heap.h) ordered by the signed difference of strides, which   *)
(* wrap around.                                                            *)
(*                                                                         *)
(* alloc_proc leaves the fields of the class as kmalloc found them, so     *)
(* that a new process has any stride, priority and time slice.  The        *)
(* user program is any: it yields, blocks and sets its priority.           *)
(***************************************************************************)
EXTENDS Integers, FiniteSets

CONSTANTS Procs, idle,
          NULL,              \* the null pointer
          W,                 \* the width of lab6_stride, 32 in the code
          MAX_TIME_SLICE,
          Priorities,        \* what lab6_priority can be
          MaybeSlices        \* what kmalloc can leave in time_slice

ASSUME StrideAssumption ==
    /\ W \in Nat \ {0, 1}
    /\ MAX_TIME_SLICE \in Nat \ {0}
    /\ Priorities \subseteq Nat /\ MaybeSlices \subseteq Int
    /\ idle \notin Procs /\ NULL \notin Procs

VARIABLES state, current, inSched, needResched,   \* as in Sched
          left, right, parent,    \* the skew_heap_entry of a process
          lab6_run_pool,          \* the root of the heap
          proc_num,               \* rq->proc_num
          lab6_stride, lab6_priority, time_slice

schedVars == <<state, current, inSched, needResched>>
heapVars == <<left, right, parent, lab6_run_pool, proc_num>>
vars == <<schedVars, heapVars, lab6_stride, lab6_priority, time_slice>>

Threads == Procs \cup {idle}
Strides == 0 .. 2^W - 1

\* #define BIG_STRIDE (1 << 30): a quarter of the strides.
BIG_STRIDE == 2^(W - 2)

TypeOK ==
    /\ state \in [Procs -> {"UNINIT", "RUNNABLE", "SLEEPING"}]
    /\ current \in Threads
    /\ inSched \in BOOLEAN
    /\ needResched \in [Threads -> BOOLEAN]
    /\ {left, right, parent} \subseteq [Procs -> Procs \cup {NULL}]
    /\ lab6_run_pool \in Procs \cup {NULL}
    /\ proc_num \in 0 .. Cardinality(Procs)
    /\ lab6_stride \in [Procs -> Strides]
    /\ lab6_priority \in [Procs -> Priorities]
    /\ time_slice \in [Procs -> MaybeSlices \cup 0 .. MAX_TIME_SLICE]

\* What kmalloc left in the fields alloc_proc does not set.
Init ==
    /\ state = [p \in Procs |-> "UNINIT"]
    /\ current = idle
    /\ inSched = FALSE
    /\ needResched = [p \in Threads |-> p = idle]
    /\ left = [p \in Procs |-> NULL]
    /\ right = [p \in Procs |-> NULL]
    /\ parent = [p \in Procs |-> NULL]
    /\ lab6_run_pool = NULL
    /\ proc_num = 0
    /\ lab6_stride \in [Procs -> Strides]
    /\ lab6_priority \in [Procs -> Priorities]
    /\ time_slice \in [Procs -> MaybeSlices]

-----------------------------------------------------------------------------
(* libs/skew_heap.h *)

\* proc_stride_comp_f(a, b) == -1: the difference is negative as an int32_t.
\* Mutant: the strides are compared without regard to their wrapping around.
Less_Unsigned(a, b) == lab6_stride[a] < lab6_stride[b]
Less(a, b) == (lab6_stride[a] - lab6_stride[b]) % 2^W >= 2^(W - 1)

\* Which of two roots becomes the root.
Top(a, b) == IF Less(a, b) THEN a ELSE b

\* skew_heap_merge(a, b) on the links h: the new links and the root.
RECURSIVE Merge(_, _, _)
Merge(h, a, b) ==
    IF a = NULL THEN [h EXCEPT !.root = b]
    ELSE IF b = NULL THEN [h EXCEPT !.root = a]
    ELSE LET top    == Top(a, b)
             merged == IF top = a THEN Merge(h, h.right[a], b) ELSE Merge(h, a, h.right[b])
         IN [left   |-> [merged.left EXCEPT ![top] = merged.root],
             right  |-> [merged.right EXCEPT ![top] = h.left[top]],
             parent |-> [merged.parent EXCEPT ![merged.root] = top],
             root   |-> top]

\* skew_heap_insert(h.root, p)
Insert(h, p) ==
    Merge([h EXCEPT !.left[p] = NULL, !.right[p] = NULL, !.parent[p] = NULL], h.root, p)

\* rep->parent = p, in skew_heap_remove.  Mutant: it is left out.
Attached_Not(h, p) == h
Attached(h, p) == IF h.root = NULL THEN h ELSE [h EXCEPT !.parent[h.root] = p]

\* skew_heap_remove(h.root, p)
Remove(h, p) ==
    LET up  == h.parent[p]
        rep == Attached(Merge(h, h.left[p], h.right[p]), up)
    IN IF up = NULL THEN rep
       ELSE IF h.left[up] = p THEN [rep EXCEPT !.left[up] = rep.root, !.root = h.root]
       ELSE [rep EXCEPT !.right[up] = rep.root, !.root = h.root]

Heap == [left |-> left, right |-> right, parent |-> parent, root |-> lab6_run_pool]

HeapBecomes(h) ==
    /\ left' = h.left
    /\ right' = h.right
    /\ parent' = h.parent
    /\ lab6_run_pool' = h.root

-----------------------------------------------------------------------------
(* default_sched_stride.c *)

\* The time slice stride_enqueue leaves to p.
Renewed(p) ==
    IF time_slice[p] = 0 \/ time_slice[p] > MAX_TIME_SLICE
      THEN MAX_TIME_SLICE ELSE time_slice[p]

\* The time slice stride_proc_tick leaves to p.
Elapsed(p) == IF time_slice[p] > 0 THEN time_slice[p] - 1 ELSE time_slice[p]

\* What stride_pick_next adds to the stride of p.  Mutant: nothing.
Pass_Forgotten(p) == 0
Pass(p) == IF lab6_priority[p] = 0 THEN BIG_STRIDE ELSE BIG_STRIDE \div lab6_priority[p]

\* wakeup_proc(p), for a new process or one that blocks.
Wake(p) ==
    /\ state[p] # "RUNNABLE"
    /\ state' = [state EXCEPT ![p] = "RUNNABLE"]
    /\ IF p # current
         THEN /\ HeapBecomes(Insert(Heap, p))
              /\ proc_num' = proc_num + 1
              /\ time_slice' = [time_slice EXCEPT ![p] = Renewed(p)]
         ELSE UNCHANGED <<heapVars, time_slice>>
    /\ UNCHANGED <<current, inSched, needResched, lab6_stride, lab6_priority>>

\* The heap after schedule() has put current back.  Mutant: whatever its state.
Requeued_Always == IF current # idle THEN Insert(Heap, current) ELSE Heap
Requeued ==
    IF current # idle /\ state[current] = "RUNNABLE" THEN Insert(Heap, current) ELSE Heap

\* schedule(): stride_enqueue of current, stride_pick_next, stride_dequeue.
Schedule ==
    /\ inSched
    /\ inSched' = FALSE
    /\ needResched' = [needResched EXCEPT ![current] = FALSE]
    /\ time_slice' = [p \in Procs |->
           IF p = current /\ state[p] = "RUNNABLE" THEN Renewed(p) ELSE time_slice[p]]
    /\ LET h    == Requeued
           next == h.root
           more == IF h = Heap THEN 0 ELSE 1
       IN \/ /\ next = NULL
             /\ current' = idle
             /\ UNCHANGED <<heapVars, lab6_stride>>
          \/ /\ next # NULL
             /\ current' = next
             /\ lab6_stride' = [lab6_stride EXCEPT ![next] = (@ + Pass(next)) % 2^W]
             /\ HeapBecomes(Remove(h, next))
             /\ proc_num' = proc_num + more - 1
    /\ UNCHANGED <<state, lab6_priority>>

\* stride_proc_tick, or the tick of idleproc.
Tick ==
    /\ time_slice' = [p \in Procs |->
           IF p = current THEN Elapsed(p) ELSE time_slice[p]]
    /\ needResched' = [needResched EXCEPT ![current] =
           @ \/ current = idle \/ time_slice'[current] = 0]
    /\ UNCHANGED <<state, current, inSched, heapVars, lab6_stride, lab6_priority>>

-----------------------------------------------------------------------------
(* The processes *)

\* The end of trap(), and cpu_idle.
Resched ==
    /\ ~inSched
    /\ needResched[current]
    /\ inSched' = TRUE
    /\ UNCHANGED <<state, current, needResched, heapVars>>
    /\ UNCHANGED <<lab6_stride, lab6_priority, time_slice>>

\* do_yield
Yield ==
    /\ ~inSched
    /\ current # idle
    /\ needResched' = [needResched EXCEPT ![current] = TRUE]
    /\ UNCHANGED <<state, current, inSched, heapVars>>
    /\ UNCHANGED <<lab6_stride, lab6_priority, time_slice>>

\* current blocks, and calls schedule().
Block ==
    /\ ~inSched
    /\ current # idle
    /\ state' = [state EXCEPT ![current] = "SLEEPING"]
    /\ inSched' = TRUE
    /\ UNCHANGED <<current, needResched, heapVars>>
    /\ UNCHANGED <<lab6_stride, lab6_priority, time_slice>>

\* lab6_set_priority(n)
SetPriority(n) ==
    /\ ~inSched
    /\ current # idle
    /\ lab6_priority' = [lab6_priority EXCEPT ![current] = IF n = 0 THEN 1 ELSE n]
    /\ UNCHANGED <<schedVars, heapVars, lab6_stride, time_slice>>

Next ==
    \/ Schedule
    \/ Tick
    \/ Resched
    \/ Yield
    \/ Block
    \/ \E p \in Procs : Wake(p)
    \/ \E n \in Priorities : SetPriority(n)

Spec == Init /\ [][Next]_vars

\* schedule() returns and the end of trap() goes on, and clock interrupts keep coming.
\* (As no other step leaves schedule(), the first says no more than WF_vars(Schedule),
\* which takes TLC far longer.)
FairSpec == Spec /\ []<>~inSched /\ WF_vars(Resched) /\ WF_vars(Tick)
-----------------------------------------------------------------------------
(* Properties *)

Queued == {p \in Procs : state[p] = "RUNNABLE" /\ p # current}

\* The processes reached from the root by n links, or fewer.
Reached[n \in Nat] ==
    IF n = 0 THEN {lab6_run_pool} \ {NULL}
    ELSE LET R == Reached[n - 1]
         IN (R \cup {left[p] : p \in R} \cup {right[p] : p \in R}) \ {NULL}

InHeap == Reached[Cardinality(Procs)]

\* skew_heap_insert and skew_heap_remove keep the pointers of the heap right:
\* it holds the queued processes and no other, proc_num counts them, and each
\* one's parent is the process, and the only one, that has it as a child.  And
\* every process is less than its children, or as great, even when the strides
\* lie so far apart that "less" is no order any more (it holds both ways for two
\* strides half the circle apart).  (And every variable has its type.)
HeapExact ==
    /\ TypeOK
    /\ InHeap = Queued
    /\ proc_num = Cardinality(Queued)
    /\ lab6_run_pool # NULL => parent[lab6_run_pool] = NULL
    /\ \A p \in InHeap :
           /\ left[p] # NULL => left[p] # right[p]
           /\ \A c \in {left[p], right[p]} \ {NULL} :
                  parent[c] = p /\ (Less(c, p) => Less(p, c))

\* How far the stride of p is ahead of that of b, around the circle.
Ahead(b, p) == (lab6_stride[p] - lab6_stride[b]) % 2^W

\* b has the smallest stride of the processes in S, all within BIG_STRIDE.
Smallest(b, S) == b \in S /\ \A p \in S : Ahead(b, p) <= BIG_STRIDE

Ready == {p \in Procs : state[p] = "RUNNABLE"}

\* stride_pick_next picks the smallest stride, for all that the strides wrap
\* around, as long as they lie within BIG_STRIDE; and it keeps them there.
PicksSmallest ==
    [][inSched /\ ~inSched' =>
          \A b \in Ready : Smallest(b, Ready) =>
              /\ lab6_stride[current'] = lab6_stride[b]
              /\ \E c \in Ready : Smallest(c, Ready)']_vars

\* schedule() with this class is the schedule() of Sched.
S == INSTANCE Sched WITH
        Procs <- Procs, idle <- idle,
        state <- [p \in Threads |-> IF p = idle THEN "RUNNABLE" ELSE state[p]],
        waitState <- [p \in Threads |->
                         IF p # idle /\ state[p] = "SLEEPING" THEN "TIMER" ELSE "NONE"],
        rq <- [p \in Threads |-> IF p \in InHeap THEN 1 ELSE 0]

SwitchIsSched == [][inSched /\ ~inSched' => S!Schedule]_vars

\* A process in the run queue gets the CPU at last, as long as the strides lie within
\* BIG_STRIDE, and wherever they lie while no process blocks.  More cannot be said:
\* a process that blocked keeps its stride, so that it can be woken more than
\* BIG_STRIDE away from the others.  The order is then a cycle (2, 5 and 0 of 8, say),
\* and two processes that block and are woken in turn, each smaller than the one that
\* is queued, keep it from running for ever.
Near == \E b \in Ready : Smallest(b, Ready)

QueuedRuns ==
    \A p \in Procs : p \in Queued ~> current = p \/ (~Near /\ Ready # Procs)
=============================================================================
