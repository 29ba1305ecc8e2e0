----------------------------- MODULE SchedProofs ----------------------------
(***************************************************************************)
(* Lemmas about wakeup_proc and schedule (module Sched), stated over any   *)
(* states st, wait states ws and queue q, because do_fork and do_exit      *)
(* change a state before they call wakeup_proc.  The modules that use      *)
(* Sched cite them in their own invariance proofs.                         *)
(***************************************************************************)
EXTENDS Sched, TLAPS

\* SchedTypeOK, RunQueueExact and SleepHasReason of a state a wakeup starts
\* from.
WakeTyped(st, ws, q) ==
    /\ st \in [Threads -> PState]
    /\ ws \in [Threads -> WState]
    /\ q \in [Threads -> Nat]

QueuedExactly(st, q) ==
    \A p \in Threads :
        q[p] = IF p # idle /\ p # current /\ st[p] = "RUNNABLE" THEN 1 ELSE 0

Reasoned(st, ws) == \A p \in Threads : st[p] = "SLEEPING" <=> ws[p] # "NONE"

-----------------------------------------------------------------------------
\* wakeup_proc keeps states, wait states and queue in their types.
LEMMA WakeTypes ==
    ASSUME NEW st, NEW ws, NEW q, NEW S \in SUBSET Threads,
           WakeTyped(st, ws, q)
    PROVE  WakeTyped(WokenState(st, S), WokenWait(ws, st, S), WokenQueue(q, st, S))
  BY DEF WakeTyped, WokenState, WokenWait, WokenQueue, Enqueue, PState, WState

\* wakeup_proc leaves every runnable process that does not own the CPU exactly
\* once in the run queue, provided idleproc is runnable and so never enqueued.
LEMMA WakeKeepsQueue ==
    ASSUME NEW st, NEW ws, NEW q, NEW S \in SUBSET Threads,
           WakeTyped(st, ws, q), QueuedExactly(st, q)
    PROVE  QueuedExactly(WokenState(st, S), WokenQueue(q, st, S))
  BY DEF WakeTyped, QueuedExactly, WokenState, WokenQueue, Enqueue, Asleep

\* wakeup_proc takes the reason to sleep away with the sleep.
LEMMA WakeKeepsReasons ==
    ASSUME NEW st, NEW ws, NEW q, NEW S \in SUBSET Threads,
           WakeTyped(st, ws, q), Reasoned(st, ws)
    PROVE  Reasoned(WokenState(st, S), WokenWait(ws, st, S))
  BY DEF WakeTyped, Reasoned, WokenState, WokenWait, Asleep

-----------------------------------------------------------------------------
\* schedule() keeps the run queue exact and gives the CPU to a process that
\* can run: what a client needs to know of a switch.
LEMMA ScheduleCorrect ==
    ASSUME SchedTypeOK, RunQueueExact, state[idle] = "RUNNABLE", Schedule
    PROVE  SchedTypeOK' /\ RunQueueExact' /\ CurrentCanRun'
  <1> DEFINE q == Enqueue(rq, Requeued)
             ready == {p \in Threads : q[p] > 0}
  <1>1. q \in [Threads -> Nat]
    BY DEF SchedTypeOK, Enqueue, Requeued
  <1>2. \A p \in Threads :
           q[p] = IF p # idle /\ state[p] = "RUNNABLE" THEN 1 ELSE 0
    BY DEF SchedTypeOK, RunQueueExact, Enqueue, Requeued
  <1>3. \A p \in ready : state[p] = "RUNNABLE" /\ p # idle
    BY <1>2
  <1>4. state' = state /\ waitState' = waitState /\ inSched' = FALSE
    BY DEF Schedule
  <1>5. needResched' \in [Threads -> BOOLEAN]
    BY DEF Schedule, SchedTypeOK
  <1>6. CASE \E next \in ready : rq' = [q EXCEPT ![next] = @ - 1] /\ current' = next
    <2> PICK next \in ready : rq' = [q EXCEPT ![next] = @ - 1] /\ current' = next
      BY <1>6
    <2>1. rq' \in [Threads -> Nat] /\ current' \in Threads
      BY <1>1, <1>2, <1>3
    <2>2. RunQueueExact'
      BY <1>1, <1>2, <1>3, <1>4 DEF RunQueueExact
    <2>3. CurrentCanRun'
      BY <1>3, <1>4 DEF CurrentCanRun
    <2> QED
      BY <1>4, <1>5, <2>1, <2>2, <2>3 DEF SchedTypeOK
  <1>7. CASE ready = {} /\ rq' = q /\ current' = idle
    <2>1. RunQueueExact'
      BY <1>1, <1>2, <1>4, <1>7 DEF RunQueueExact
    <2>2. CurrentCanRun'
      BY <1>4, <1>7 DEF CurrentCanRun
    <2> QED
      BY <1>1, <1>4, <1>5, <1>7, <2>1, <2>2 DEF SchedTypeOK, Threads
  <1> QED
    BY <1>6, <1>7 DEF Schedule
-----------------------------------------------------------------------------
(***************************************************************************)
(* The inductive invariant of the scheduler core, for clients whose        *)
(* processes all exist from the start, and the four ways in which their    *)
(* steps touch it.                                                         *)
(***************************************************************************)
SchedExact ==
    /\ SchedTypeOK
    /\ RunQueueExact
    /\ SleepHasReason
    /\ CurrentCanRun
    /\ state[idle] = "RUNNABLE"

\* A switch changes no state and gives the CPU to a process that can run.
LEMMA SwitchKeeps ==
    ASSUME SchedExact, Schedule
    PROVE  SchedExact'
  <1>1. SchedTypeOK' /\ RunQueueExact' /\ CurrentCanRun'
    BY ScheduleCorrect DEF SchedExact
  <1>2. state' = state /\ waitState' = waitState
    BY DEF Schedule
  <1> QED
    BY <1>1, <1>2 DEF SchedExact, SleepHasReason

\* A wakeup of any processes.
LEMMA WakeKeeps ==
    ASSUME NEW S \in SUBSET Threads, SchedExact,
           state' = WokenState(state, S),
           waitState' = WokenWait(waitState, state, S),
           rq' = WokenQueue(rq, state, S),
           needResched' \in [Threads -> BOOLEAN],
           UNCHANGED <<current, inSched>>
    PROVE  SchedExact'
  <1>1. SchedTypeOK'
    BY WakeTypes DEF SchedExact, SchedTypeOK, WakeTyped
  <1>2. RunQueueExact'
    <2>1. WakeTyped(state, waitState, rq) /\ QueuedExactly(state, rq)
      BY DEF SchedExact, SchedTypeOK, RunQueueExact, WakeTyped, QueuedExactly
    <2>2. QueuedExactly(WokenState(state, S), WokenQueue(rq, state, S))
      BY <2>1, WakeKeepsQueue
    <2> QED
      BY <2>2 DEF QueuedExactly, RunQueueExact
  <1>3. SleepHasReason'
    <2>1. WakeTyped(state, waitState, rq) /\ Reasoned(state, waitState)
      BY DEF SchedExact, SchedTypeOK, SleepHasReason, WakeTyped, Reasoned
    <2>2. Reasoned(WokenState(state, S), WokenWait(waitState, state, S))
      BY <2>1, WakeKeepsReasons
    <2> QED
      BY <2>2 DEF Reasoned, SleepHasReason
  <1>4. CurrentCanRun' /\ state'[idle] = "RUNNABLE"
    BY DEF SchedExact, CurrentCanRun, SchedTypeOK, WokenState, Threads
  <1> QED
    BY <1>1, <1>2, <1>3, <1>4 DEF SchedExact

\* The running process goes to sleep for a reason, or exits, and calls
\* schedule().
LEMMA StopKeeps ==
    ASSUME NEW p \in Procs, NEW w \in WState, SchedExact, Running(p),
           \/ /\ w # "NONE"
              /\ state' = [state EXCEPT ![p] = "SLEEPING"]
              /\ waitState' = [waitState EXCEPT ![p] = w]
           \/ /\ state' = [state EXCEPT ![p] = "ZOMBIE"]
              /\ waitState' = waitState,
           inSched' = TRUE,
           UNCHANGED <<rq, current, needResched>>
    PROVE  SchedExact'
  <1>1. p \in Threads /\ p # idle /\ current = p /\ state[p] = "RUNNABLE"
    BY IdleAssumption DEF SchedExact, CurrentCanRun, Running, Threads
  <1>2. SchedTypeOK'
    BY <1>1 DEF SchedExact, SchedTypeOK, PState
  <1>3. RunQueueExact'
    BY <1>1 DEF SchedExact, SchedTypeOK, RunQueueExact
  <1>4. SleepHasReason'
    BY <1>1 DEF SchedExact, SchedTypeOK, SleepHasReason
  <1>5. CurrentCanRun' /\ state'[idle] = "RUNNABLE"
    BY <1>1 DEF SchedExact, SchedTypeOK, CurrentCanRun, Threads
  <1> QED
    BY <1>2, <1>3, <1>4, <1>5 DEF SchedExact

\* A call of schedule() that has yet to switch, and a change of need_resched.
LEMMA CallKeeps ==
    ASSUME SchedExact, inSched' \in BOOLEAN, inSched => inSched',
           needResched' \in [Threads -> BOOLEAN],
           UNCHANGED <<state, waitState, rq, current>>
    PROVE  SchedExact'
  BY DEF SchedExact, SchedTypeOK, RunQueueExact, SleepHasReason, CurrentCanRun

\* A step that leaves the scheduler alone.
LEMMA RestKeeps ==
    ASSUME SchedExact, UNCHANGED schedVars
    PROVE  SchedExact'
  BY DEF SchedExact, SchedTypeOK, RunQueueExact, SleepHasReason, CurrentCanRun, schedVars

\* sched_class_proc_tick only sets need_resched.
LEMMA ProcTickTypes ==
    ASSUME NEW sliceEnds \in BOOLEAN, SchedTypeOK, ProcTick(sliceEnds)
    PROVE  needResched' \in [Threads -> BOOLEAN]
  <1>1. (needResched[current] \/ current = idle \/ sliceEnds) \in BOOLEAN
    BY DEF SchedTypeOK
  <1> QED
    BY <1>1, Zenon DEF SchedTypeOK, ProcTick
=============================================================================
