------------------------------- MODULE Sched -------------------------------
(***************************************************************************)
(* The scheduler core of lab8 (kern/schedule/sched.c): process states, the *)
(* run queue, wakeup_proc and schedule.  One CPU, and no preemption inside *)
(* the kernel: between two calls of schedule() the running process cannot  *)
(* be switched out, so a client module makes each such stretch of code one *)
(* action and sets inSched where the code calls schedule().                *)
(*                                                                         *)
(* rq[p] counts how often p is linked into the run queue, so that a double *)
(* enqueue is visible.  Which queued process pick_next returns is left to  *)
(* the scheduling class (sched_class): any of them.                        *)
(***************************************************************************)
EXTENDS Naturals, FiniteSets

CONSTANTS Procs,   \* the proc_structs other than idleproc's
          idle     \* idleproc

ASSUME IdleAssumption == idle \notin Procs
ASSUME FiniteAssumption == IsFiniteSet(Procs)

VARIABLES state,        \* proc->state; "UNUSED" when there is no proc_struct
          waitState,    \* proc->wait_state
          rq,           \* how often a process is linked into the run queue
          current,      \* the process that owns the CPU
          inSched,      \* current has called schedule(), not yet switched
          needResched   \* proc->need_resched

schedVars == <<state, waitState, rq, current, inSched, needResched>>

Threads == Procs \cup {idle}

PState == {"UNUSED", "UNINIT", "SLEEPING", "RUNNABLE", "ZOMBIE"}
WState == {"NONE", "CHILD", "TIMER", "KBD", "KSEM"}

\* wait_state & WT_INTERRUPTED
Interruptible(w) == w \in {"CHILD", "TIMER", "KBD"}

SchedTypeOK ==
    /\ state \in [Threads -> PState]
    /\ waitState \in [Threads -> WState]
    /\ rq \in [Threads -> Nat]
    /\ current \in Threads
    /\ inSched \in BOOLEAN
    /\ needResched \in [Threads -> BOOLEAN]

\* The CPU executes p's own code (and not schedule()).
Running(p) == current = p /\ ~inSched

-----------------------------------------------------------------------------
(***************************************************************************)
(* wakeup_proc, for every process of S, on the states st, the wait states  *)
(* ws and the queue q the caller has reached: a process that is RUNNABLE   *)
(* already only gets a warning, and current is not queued (schedule() will *)
(* do that).                                                               *)
(***************************************************************************)
Asleep(st, S) == {p \in S : st[p] # "RUNNABLE"}

Enqueue(q, S) == [p \in Threads |-> IF p \in S \ {idle} THEN q[p] + 1 ELSE q[p]]

WokenState(st, S) == [p \in Threads |-> IF p \in S THEN "RUNNABLE" ELSE st[p]]

\* Mutant: wakeup_proc forgets to clear wait_state.
WokenWait_Stale(ws, st, S) == ws

WokenWait(ws, st, S) ==
    [p \in Threads |-> IF p \in Asleep(st, S) THEN "NONE" ELSE ws[p]]

WokenQueue(q, st, S) == Enqueue(q, Asleep(st, S) \ {current})

-----------------------------------------------------------------------------
\* Mutant: schedule() queues current whatever its state.
Requeued_Always == {current}

\* The process schedule() puts back into the run queue.
Requeued == {p \in {current} : state[p] = "RUNNABLE"}

\* schedule(): queue current if it can still run, then switch to the process
\* pick_next returns, or to idleproc when the queue is empty.
Schedule ==
    /\ inSched
    /\ inSched' = FALSE
    /\ needResched' = [needResched EXCEPT ![current] = FALSE]
    /\ LET q     == Enqueue(rq, Requeued)
           ready == {p \in Threads : q[p] > 0}
       IN \/ \E next \in ready :
                 /\ rq' = [q EXCEPT ![next] = @ - 1]
                 /\ current' = next
          \/ /\ ready = {}
             /\ rq' = q
             /\ current' = idle
    /\ UNCHANGED <<state, waitState>>

\* sched_class_proc_tick(current): idleproc always asks for a switch, another
\* process does when the scheduling class finds its time slice used up.
ProcTick(sliceEnds) ==
    needResched' = [needResched EXCEPT ![current] =
                        @ \/ current = idle \/ sliceEnds]

\* cpu_idle: idleproc calls schedule() whenever need_resched is set.
CpuIdle ==
    /\ Running(idle)
    /\ needResched[idle]
    /\ inSched' = TRUE
    /\ UNCHANGED <<state, waitState, rq, current, needResched>>

-----------------------------------------------------------------------------
\* A process waits in the run queue exactly once when it is RUNNABLE and does
\* not own the CPU, and is not in it otherwise: wakeup_proc and schedule()
\* neither lose a runnable process nor link one twice.
RunQueueExact ==
    \A p \in Threads :
        rq[p] = IF p # idle /\ p # current /\ state[p] = "RUNNABLE" THEN 1 ELSE 0

\* A process is SLEEPING exactly when its wait_state says what it waits for:
\* a sleeper without a reason could be woken by nobody, and a stale reason
\* would wake a process that runs, or a zombie.
SleepHasReason ==
    \A p \in Threads : state[p] = "SLEEPING" <=> waitState[p] # "NONE"

\* The CPU is never given to a process that sleeps, has exited or was freed.
CurrentCanRun == ~inSched => state[current] = "RUNNABLE"
=============================================================================
