------------------------------ MODULE MCStride ------------------------------
\* StrideSched with strides of few bits, and different guesses at what memory
\* that is not initialised holds.
EXTENDS StrideSched

CONSTANTS p1, p2, p3

MCProcs == {p1, p2, p3}
MCSlices == 0 .. MAX_TIME_SLICE + 1

\* What of a state can matter later.  The links of a process that is not in the
\* heap are dead: skew_heap_insert sets them before they are read.  Of the strides
\* only the differences are used, of a priority what it adds to the stride, and the
\* time slice of a queued process only once stride_enqueue has renewed it.  States that
\* agree on the rest have the same steps, and no property or fairness condition tells
\* them apart.
LiveLinks == [p \in InHeap |-> <<left[p], right[p], parent[p]>>]
Apart == [e \in Procs \X Procs |-> Ahead(e[1], e[2])]
Passes == [p \in Procs |-> Pass(p)]
LiveSlices == [p \in Procs |-> IF p = current THEN time_slice[p] ELSE Renewed(p)]
LiveState ==
    <<schedVars, LiveLinks, lab6_run_pool, proc_num, Apart, Passes, LiveSlices>>
=============================================================================
