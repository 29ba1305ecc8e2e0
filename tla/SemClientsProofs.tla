-------------------------- MODULE SemClientsProofs --------------------------
(***************************************************************************)
(* The semaphores of lab8 keep what they promise (SemAbs), whoever uses    *)
(* them: the wait queues hold exactly the sleepers, nobody waits for a     *)
(* free semaphore, and units are granted in the order of the calls.  For   *)
(* any threads, any semaphores and any initial values.                     *)
(***************************************************************************)
EXTENDS SemClients, SemProofs, FiniteSetTheorems

\* What is inductive: the scheduler's part, the wait queues, and that a thread
\* sleeps for nothing but a semaphore.
Inv ==
    /\ TypeOK
    /\ SchedExact
    /\ Waits(waiting)
    /\ \A p \in Procs : waitState[p] \in {"NONE", "KSEM"}

\* Whoever owns the CPU waits for nothing any more.
LEMMA RunningIsAwake ==
    ASSUME Inv, NEW p \in Procs, Running(p)
    PROVE  waitState[p] # "KSEM"
  BY DEF Inv, SchedExact, CurrentCanRun, SleepHasReason, Running, Threads

-----------------------------------------------------------------------------
(* Inv is inductive *)

\* The threads start awake, with all semaphores at their initial values.
LEMMA InitInv == Init => Inv
  <1> SUFFICES ASSUME Init PROVE Inv
    OBVIOUS
  <1>1. SchedTypeOK
    BY DEF Init, SchedTypeOK, Threads, PState, WState
  <1>2. SchedExact
    BY <1>1 DEF Init, SchedExact, RunQueueExact, SleepHasReason, CurrentCanRun, Threads
  <1>3. TypeOK
    BY <1>1, ValueAssumption DEF Init, TypeOK, SemInit, SemTypeOK
  <1>4. Waits(waiting)
    BY DEF Init, SemInit, Waits, WaitsExact, Contains, IsInjective, Threads
  <1> QED
    BY <1>2, <1>3, <1>4 DEF Init, Inv, Threads

\* down() by any thread keeps Inv.
LEMMA DownInv ==
    ASSUME Inv, NEW p \in Procs, NEW s \in Sems, ClientDown(p, s)
    PROVE  Inv'
  <1>1. SchedExact'
    BY DownSched DEF ClientDown, Outside, Inv
  <1>2. CASE DownNow(s) /\ UNCHANGED waiting
    <2>1. SemTypeOK' /\ Waits(waiting)'
      BY <1>2, DownNowKeeps DEF Inv, TypeOK, Waits, WaitsNext
    <2> QED
      BY <1>1, <1>2, <2>1 DEF DownNow, Inv, TypeOK, SchedExact, schedVars
  <1>3. CASE DownSleeps(p, s) /\ waiting' = [waiting EXCEPT ![p] = {s}]
    <2>1. SemTypeOK' /\ Waits(waiting)'
      BY <1>3, DownSleepsKeeps
      DEF ClientDown, Outside, Inv, TypeOK, Waits, WaitsNext
    <2>2. waiting' \in [Procs -> SUBSET Sems]
      BY <1>3 DEF Inv, TypeOK
    <2>3. \A r \in Procs : waitState'[r] \in {"NONE", "KSEM"}
      BY <1>3 DEF DownSleeps, Inv, TypeOK, SchedTypeOK, Threads
    <2> QED
      BY <1>1, <2>1, <2>2, <2>3 DEF Inv, TypeOK, SchedExact
  <1> QED
    BY <1>2, <1>3 DEF ClientDown

\* So does the return from schedule() in down().
LEMMA DownedInv ==
    ASSUME Inv, NEW p \in Procs, NEW s \in Sems, ClientDowned(p, s)
    PROVE  Inv' /\ queue' = queue
  <1>1. waitState[p] # "KSEM"
    BY RunningIsAwake DEF ClientDowned
  <1>2. SemTypeOK' /\ queue' = queue /\ Waits(waiting)'
    BY <1>1, DownedKeeps DEF ClientDowned, Inv, TypeOK, Waits, WaitsNext
  <1>3. UNCHANGED schedVars /\ waiting' \in [Procs -> SUBSET Sems]
    BY DEF ClientDowned, Downed, Inv, TypeOK
  <1>4. SchedExact'
    BY <1>3, RestKeeps DEF Inv
  <1> QED
    BY <1>2, <1>3, <1>4 DEF Inv, TypeOK, SchedExact, schedVars

\* So does try_down, which never waits.
LEMMA TryDownInv ==
    ASSUME Inv, NEW p \in Procs, NEW s \in Sems, TryDown(p, s)
    PROVE  Inv'
  <1>1. UNCHANGED <<schedVars, waiting>>
    BY DEF TryDown, DownNow
  <1>2. SchedExact'
    BY <1>1, RestKeeps DEF Inv
  <1>3. SemTypeOK' /\ Waits(waiting)'
    <2>1. CASE DownNow(s)
      BY <1>1, <2>1, DownNowKeeps DEF Inv, TypeOK, Waits, WaitsNext
    <2>2. CASE UNCHANGED <<schedVars, semVars>>
      BY <1>1, <2>2 DEF Inv, TypeOK, SemTypeOK, Waits, semVars, schedVars
    <2> QED
      BY <2>1, <2>2 DEF TryDown
  <1> QED
    BY <1>1, <1>2, <1>3 DEF Inv, TypeOK, SchedExact, schedVars

\* So does up(), which wakes the first in the queue.
LEMMA UpInv ==
    ASSUME Inv, NEW p \in Procs, NEW s \in Sems, ClientUp(p, s)
    PROVE  Inv'
  <1>1. SemTypeOK' /\ Waits(waiting)'
    BY UpKeeps DEF ClientUp, Inv, TypeOK, SchedExact, Waits, WaitsNext
  <1>2. SchedExact'
    BY UpSched DEF ClientUp, Inv, TypeOK
  <1>3. \A r \in Procs : waitState'[r] \in {"NONE", "KSEM"}
    BY UpEffect DEF ClientUp, Inv, TypeOK, SchedTypeOK, Threads
  <1> QED
    BY <1>1, <1>2, <1>3 DEF ClientUp, Inv, TypeOK, SchedExact

\* So do the steps of the scheduler.
LEMMA SchedInv ==
    ASSUME Inv,
           \/ \E p \in Procs : Resched(p)
           \/ Switch
           \/ Idle
           \/ \E sliceEnds \in BOOLEAN : Tick(sliceEnds)
    PROVE  Inv' /\ UNCHANGED <<waitState, semVars, waiting>>
  <1>1. UNCHANGED <<waitState, semVars, waiting>>
    BY DEF Resched, Switch, Schedule, Idle, CpuIdle, Tick
  <1>2. SchedExact'
    <2>1. CASE \E p \in Procs : Resched(p)
      BY <2>1, CallKeeps DEF Resched, Inv, SchedExact, SchedTypeOK
    <2>2. CASE Switch
      BY <2>2, SwitchKeeps DEF Switch, Inv
    <2>3. CASE Idle
      BY <2>3, CallKeeps DEF Idle, CpuIdle, Inv, SchedExact, SchedTypeOK
    <2>4. CASE \E sliceEnds \in BOOLEAN : Tick(sliceEnds)
      <3>1. needResched' \in [Threads -> BOOLEAN]
        BY <2>4, ProcTickTypes DEF Tick, Inv, SchedExact
      <3> QED
        BY <2>4, <3>1, CallKeeps DEF Tick, Inv, SchedExact, SchedTypeOK
    <2> QED
      BY <2>1, <2>2, <2>3, <2>4
  <1> QED
    BY <1>1, <1>2 DEF Inv, TypeOK, SemTypeOK, semVars, SchedExact, Waits

\* Every step of the specification keeps Inv.
LEMMA NextInv == Inv /\ [Next]_vars => Inv'
  <1> SUFFICES ASSUME Inv, [Next]_vars PROVE Inv'
    OBVIOUS
  <1>1. CASE Next
    BY <1>1, DownInv, DownedInv, TryDownInv, UpInv, SchedInv DEF Next
  <1>2. CASE UNCHANGED vars
    BY <1>2, RestKeeps DEF vars, schedVars, semVars, Inv, TypeOK, SemTypeOK, SchedExact, Waits
  <1> QED
    BY <1>1, <1>2

\* Inv holds in every reachable state.
THEOREM Invariant == Spec => []Inv
  BY InitInv, NextInv, PTL DEF Spec
-----------------------------------------------------------------------------
(* What follows from Inv *)

\* The positions of a process in a queue in which it is once, or not at all.
LEMMA Occurrences ==
    ASSUME NEW q \in Seq(Procs), NEW p, IsInjective(q)
    PROVE  Cardinality({k \in 1 .. Len(q) : q[k] = p}) = IF Contains(q, p) THEN 1 ELSE 0
  <1> DEFINE places == {k \in 1 .. Len(q) : q[k] = p}
  <1>1. CASE Contains(q, p)
    <2>1. PICK k \in 1 .. Len(q) : q[k] = p
      BY <1>1 DEF Contains
    <2>2. places = {k}
      BY <2>1 DEF IsInjective
    <2> QED
      BY <1>1, <2>2, FS_Singleton
  <1>2. CASE ~Contains(q, p)
    <2>1. places = {}
      BY <1>2 DEF Contains
    <2> QED
      BY <1>2, <2>1, FS_EmptySet
  <1> QED
    BY <1>1, <1>2

\* The queue of a semaphore has every process that sleeps in down() on it once
\* and nobody else, and up() has woken whoever returns there: the assertions of
\* sem.c hold.
THEOREM WaitQueuesExact == Spec => []QueuesExact
  <1>1. Inv => QueuesExact
    <2> SUFFICES ASSUME Inv PROVE QueuesExact
      OBVIOUS
    <2>1. ASSUME NEW p \in Procs, NEW s \in Sems
          PROVE  Cardinality({k \in 1 .. Len(queue[s]) : queue[s][k] = p}) =
                     IF s \in waiting[p] /\ waitState[p] = "KSEM" THEN 1 ELSE 0
      <3>1. queue[s] \in Seq(Procs) /\ IsInjective(queue[s])
        BY DEF Inv, TypeOK, SemTypeOK, Waits, WaitsExact
      <3>2. Contains(queue[s], p) <=> s \in waiting[p] /\ waitState[p] = "KSEM"
        BY DEF Inv, Waits, WaitsExact
      <3> QED
        BY <3>1, <3>2, Occurrences
    <2>2. ASSUME NEW p \in Procs, Running(p), waiting[p] # {}
          PROVE  wakeupFlags[p] = "KSEM"
      BY <2>2, RunningIsAwake DEF Inv, Waits, WaitsExact
    <2> QED
      BY <2>1, <2>2 DEF Inv, QueuesExact
  <1> QED
    BY <1>1, Invariant, PTL

\* A semaphore with a unit left has nobody in its queue: up() hands the unit
\* over and down() takes one that is there.
THEOREM FreeMeansNoWaiter == Spec => []NoWaiterLeft
  <1>1. Inv => NoWaiterLeft
    BY DEF Inv, Waits, WaitsExact, NoWaiterLeft
  <1> QED
    BY <1>1, Invariant, PTL

\* The scheduler does its part: a thread that can run is in the run queue once,
\* one that sleeps has a reason, and the CPU belongs to one that can run.
THEOREM ThreadsScheduled == Spec => [](RunQueueExact /\ SleepHasReason /\ CurrentCanRun)
  <1>1. Inv => RunQueueExact /\ SleepHasReason /\ CurrentCanRun
    BY DEF Inv, SchedExact
  <1> QED
    BY <1>1, Invariant, PTL

-----------------------------------------------------------------------------
(* SemClients implements SemAbs *)

\* What each action is to the abstract semaphore.
LEMMA DownIs ==
    ASSUME Inv, NEW p \in Procs, NEW s \in Sems, ClientDown(p, s)
    PROVE  A!Take(s) \/ A!Wait(p, s)
  <1>1. CASE DownNow(s) /\ UNCHANGED waiting
    <2>1. A!Take(s)
      BY <1>1 DEF DownNow, Free, schedVars, A!Take, doing
    <2> QED
      BY <2>1
  <1>2. CASE DownSleeps(p, s) /\ waiting' = [waiting EXCEPT ![p] = {s}]
    <2>1. doing[p] = "other" /\ waiting \in [Procs -> SUBSET Sems]
      BY DEF ClientDown, Outside, doing, Inv, TypeOK
    <2>2. value[s] = 0
      BY <1>2 DEF DownSleeps, Free, Inv, TypeOK, SemTypeOK
    <2>3. doing' = [doing EXCEPT ![p] = "waiting"]
      <3>1. \A r \in Procs : waitState'[r] = IF r = p THEN "KSEM" ELSE waitState[r]
        BY <1>2 DEF DownSleeps, Inv, TypeOK, SchedTypeOK, Threads
      <3> QED
        BY <1>2, <2>1, <3>1 DEF doing
    <2>4. A!Wait(p, s)
      BY <1>2, <2>1, <2>2, <2>3 DEF DownSleeps, Queued, A!Wait
    <2> QED
      BY <2>4
  <1> QED
    BY <1>1, <1>2 DEF ClientDown

\* The return from schedule() is the return of a process that has its unit.
LEMMA DownedIs ==
    ASSUME Inv, NEW p \in Procs, NEW s \in Sems, ClientDowned(p, s)
    PROVE  A!Return(p)
  <1>1. queue' = queue /\ value' = value /\ waitState' = waitState
    BY DownedInv DEF ClientDowned, Downed, schedVars
  <1>2. doing[p] = "granted"
    BY RunningIsAwake DEF ClientDowned, doing
  <1>3. doing' = [doing EXCEPT ![p] = "other"]
    BY <1>1 DEF ClientDowned, doing, Inv, TypeOK
  <1> QED
    BY <1>1, <1>2, <1>3 DEF A!Return

\* up() gives a unit, to the first in line if there is one.
LEMMA UpIs ==
    ASSUME Inv, NEW p \in Procs, NEW s \in Sems, ClientUp(p, s)
    PROVE  A!Give(s)
  <1>1. CASE queue[s] = <<>>
    BY <1>1 DEF ClientUp, Up, schedVars, A!Give, doing
  <1>2. CASE queue[s] # <<>>
    <2> DEFINE r == Head(queue[s])
    <2>1. /\ queue' = [queue EXCEPT ![s] = Tail(@)]
          /\ waitState' = WokenWait(waitState, state, {r})
          /\ value' = value /\ waiting' = waiting
      BY <1>2 DEF ClientUp, Up, HandedOver, Inv, TypeOK, SemTypeOK
    <2>2. r \in Procs /\ Contains(queue[s], r)
      BY <1>2 DEF Inv, TypeOK, SemTypeOK, Contains
    <2> HIDE DEF r
    <2>3. waitState[r] = "KSEM" /\ waiting[r] # {} /\ state[r] # "RUNNABLE"
      BY <2>2 DEF Inv, Waits, WaitsExact, SchedExact, SleepHasReason, Threads
    <2>4. \A t \in Procs : waitState'[t] = IF t = r THEN "NONE" ELSE waitState[t]
      BY <2>1, <2>2, <2>3 DEF WokenWait, Asleep, Threads
    <2>5. doing' = [doing EXCEPT ![r] = "granted"]
      BY <2>1, <2>2, <2>3, <2>4 DEF doing
    <2> QED
      BY <1>2, <2>1, <2>5 DEF A!Give, r
  <1> QED
    BY <1>1, <1>2

\* try_down takes a unit or does nothing.
LEMMA TryDownIs ==
    ASSUME NEW p \in Procs, NEW s \in Sems, TryDown(p, s)
    PROVE  A!Take(s) \/ UNCHANGED A!vars
  <1>1. CASE DownNow(s)
    BY <1>1 DEF TryDown, DownNow, Free, schedVars, A!Take, doing
  <1>2. CASE UNCHANGED <<schedVars, semVars>>
    BY <1>2 DEF TryDown, schedVars, semVars, A!vars, doing
  <1> QED
    BY <1>1, <1>2 DEF TryDown

\* Units are neither lost nor made, and are granted in the order of the calls
\* of down(): the specification implements SemAbs, step by step.
THEOREM SemImplemented == Spec => Semaphore
  <1>1. Init => A!Init
    BY ValueAssumption DEF Init, SemInit, A!Init, doing
  <1>2. Inv /\ [Next]_vars => [A!Next]_A!vars
    <2> SUFFICES ASSUME Inv, [Next]_vars PROVE A!Next \/ UNCHANGED A!vars
      OBVIOUS
    <2>1. ASSUME NEW p \in Procs, NEW s \in Sems,
                 ClientDown(p, s) \/ ClientDowned(p, s) \/ TryDown(p, s) \/ ClientUp(p, s)
          PROVE  A!Next \/ UNCHANGED A!vars
      BY <2>1, DownIs, DownedIs, UpIs, TryDownIs DEF A!Next
    <2>2. CASE \/ \E p \in Procs : Resched(p)
               \/ Switch \/ Idle
               \/ \E sliceEnds \in BOOLEAN : Tick(sliceEnds)
      BY <2>2, SchedInv DEF semVars, A!vars, doing
    <2>3. CASE UNCHANGED vars
      BY <2>3 DEF vars, schedVars, semVars, A!vars, doing
    <2> QED
      BY <2>1, <2>2, <2>3 DEF Next
  <1> QED
    BY <1>1, <1>2, Invariant, PTL DEF Spec, Semaphore, A!Spec
=============================================================================
