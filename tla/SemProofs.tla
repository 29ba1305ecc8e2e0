----------------------------- MODULE SemProofs ------------------------------
(***************************************************************************)
(* Lemmas about the wait queues of semaphores (module Sem): what down()    *)
(* and up() do to them, stated over the semaphores w a process is inside   *)
(* down() for, which every client keeps in its own way.                    *)
(***************************************************************************)
EXTENDS Sem, SchedProofs

\* Who waits, where, and what the flags tell whoever returns: w[p] is the
\* semaphore p is inside down() for, as a set of at most one.
WaitsExact(ws, wf, v, q, w) ==
    /\ \A s \in Sems : IsInjective(q[s])
    /\ \A p \in Procs, s \in Sems :
           Contains(q[s], p) <=> s \in w[p] /\ ws[p] = "KSEM"
    /\ \A p \in Procs : ws[p] = "KSEM" => w[p] # {}
    /\ \A p \in Procs : \A s, t \in w[p] : s = t
    /\ \A p \in Procs : w[p] # {} /\ ws[p] # "KSEM" => wf[p] = "KSEM"
    /\ \A s \in Sems : v[s] > 0 => q[s] = <<>>

Waits(w) == WaitsExact(waitState, wakeupFlags, value, queue, w)
WaitsNext(w) == WaitsExact(waitState', wakeupFlags', value', queue', w)

-----------------------------------------------------------------------------
\* down() on a free semaphore changes nothing but its value.
LEMMA DownNowKeeps ==
    ASSUME NEW w, NEW s \in Sems, SemTypeOK, Waits(w), DownNow(s)
    PROVE  SemTypeOK' /\ WaitsNext(w)
  <1>1. /\ value[s] > 0 /\ value' = [value EXCEPT ![s] = @ - 1]
        /\ queue' = queue /\ wakeupFlags' = wakeupFlags /\ waitState' = waitState
    BY DEF DownNow, Free, schedVars
  <1>2. SemTypeOK'
    BY <1>1 DEF SemTypeOK
  <1>3. \A t \in Sems : value'[t] > 0 => value[t] > 0
    BY <1>1 DEF SemTypeOK
  <1> QED
    BY <1>1, <1>2, <1>3, Zenon DEF Waits, WaitsNext, WaitsExact

\* down() on a semaphore that is not free puts its caller at the end of the
\* queue.
LEMMA DownSleepsKeeps ==
    ASSUME NEW w \in [Procs -> SUBSET Sems], NEW p \in Procs, NEW s \in Sems,
           SchedTypeOK, SemTypeOK, Waits(w), w[p] = {}, DownSleeps(p, s)
    PROVE  SemTypeOK' /\ WaitsNext([w EXCEPT ![p] = {s}])
  <1> DEFINE w2 == [w EXCEPT ![p] = {s}]
  <1>1. SemTypeOK'
    BY DEF SemTypeOK, DownSleeps, Queued
  <1>2. /\ queue[s] \in Seq(Procs) /\ queue'[s] = Append(queue[s], p)
        /\ \A t \in Sems \ {s} : queue'[t] = queue[t]
        /\ value' = value /\ ~(value[s] > 0)
    BY DEF SemTypeOK, DownSleeps, Queued, Free
  <1>3. /\ waitState' = [waitState EXCEPT ![p] = "KSEM"]
        /\ wakeupFlags' = [wakeupFlags EXCEPT ![p] = "INTERRUPTED"]
        /\ waitState \in [Threads -> WState] /\ p \in Threads
        /\ wakeupFlags \in [Procs -> {"INTERRUPTED", "KSEM"}]
    BY DEF SemTypeOK, SchedTypeOK, DownSleeps, Threads
  <1>4. \A t \in Sems : ~Contains(queue[t], p)
    BY DEF Waits, WaitsExact
  <1>5. \A t \in Sems : IsInjective(queue'[t])
    <2>1. IsInjective(queue[s]) /\ ~Contains(queue[s], p)
      BY <1>4 DEF Waits, WaitsExact
    <2>2. IsInjective(Append(queue[s], p))
      BY <1>2, <2>1 DEF IsInjective, Contains
    <2> QED
      BY <1>2, <2>2, Zenon DEF Waits, WaitsExact
  <1>6. \A r \in Procs, t \in Sems :
           Contains(queue'[t], r) <=> Contains(queue[t], r) \/ (r = p /\ t = s)
    BY <1>2 DEF Contains
  <1>7. \A r \in Procs, t \in Sems :
           Contains(queue'[t], r) <=> t \in w2[r] /\ waitState'[r] = "KSEM"
    BY <1>3, <1>4, <1>6 DEF Waits, WaitsExact, Threads
  <1> QED
    BY <1>1, <1>2, <1>3, <1>5, <1>7 DEF Waits, WaitsNext, WaitsExact, Threads

\* Whoever returns from schedule() in down() is in no queue any more.
LEMMA DownedKeeps ==
    ASSUME NEW w \in [Procs -> SUBSET Sems], NEW p \in Procs, NEW s \in Sems,
           SemTypeOK, Waits(w), waitState[p] # "KSEM", Downed(p, s)
    PROVE  SemTypeOK' /\ queue' = queue /\ WaitsNext([w EXCEPT ![p] = {}])
  <1>1. RemoveFirst(queue[s], p) = queue[s]
    BY DEF Waits, WaitsExact, Contains, RemoveFirst
  <1>2. /\ queue' = queue /\ value' = value
        /\ wakeupFlags' = wakeupFlags /\ waitState' = waitState
    BY <1>1 DEF Downed, SemTypeOK, schedVars
  <1> QED
    BY <1>2 DEF Waits, WaitsNext, WaitsExact, SemTypeOK

\* up() wakes the first in the queue, if there is one, with the flags of a
\* semaphore, and keeps the value at zero then.
LEMMA UpKeeps ==
    ASSUME NEW w \in [Procs -> SUBSET Sems], NEW s \in Sems,
           SchedTypeOK, SemTypeOK, SleepHasReason, Waits(w), Up(s)
    PROVE  SemTypeOK' /\ WaitsNext(w)
  <1>1. CASE queue[s] = <<>>
    <2>1. /\ value' = [value EXCEPT ![s] = @ + 1]
          /\ queue' = queue /\ wakeupFlags' = wakeupFlags /\ waitState' = waitState
      BY <1>1 DEF Up, schedVars
    <2> QED
      BY <1>1, <2>1 DEF SemTypeOK, Waits, WaitsNext, WaitsExact
  <1>2. CASE queue[s] # <<>>
    <2> DEFINE p == Head(queue[s])
    <2>1. /\ queue' = [queue EXCEPT ![s] = Tail(@)]
          /\ wakeupFlags' = [wakeupFlags EXCEPT ![p] = "KSEM"]
          /\ waitState' = WokenWait(waitState, state, {p})
          /\ value' = value
      BY <1>2 DEF Up, HandedOver, SemTypeOK
    <2>2. queue[s] \in Seq(Procs) /\ Len(queue[s]) \in Nat \ {0} /\ p = queue[s][1]
      BY <1>2 DEF SemTypeOK
    <2>3. p \in Procs /\ p \in Threads
      BY <2>2 DEF Threads
    <2> HIDE DEF p
    <2>4. Contains(queue[s], p)
      BY <2>2 DEF Contains
    <2>5. waitState[p] = "KSEM" /\ s \in w[p]
      BY <2>3, <2>4 DEF Waits, WaitsExact
    <2>6. state[p] = "SLEEPING"
      BY <2>3, <2>5 DEF SleepHasReason
    <2>7. waitState' = [waitState EXCEPT ![p] = "NONE"]
      BY <2>1, <2>3, <2>6 DEF WokenWait, Asleep, SchedTypeOK
    <2>8. SemTypeOK'
      BY <2>1, <2>2, <2>3 DEF SemTypeOK
    <2>9. /\ queue'[s] \in Seq(Procs)
          /\ Len(queue'[s]) = Len(queue[s]) - 1
          /\ \A k \in 1 .. Len(queue[s]) - 1 : queue'[s][k] = queue[s][k + 1]
          /\ \A t \in Sems \ {s} : queue'[t] = queue[t]
      BY <2>1, <2>2 DEF SemTypeOK
    <2>10. \A t \in Sems : IsInjective(queue'[t])
      <3>1. IsInjective(queue[s])
        BY DEF Waits, WaitsExact
      <3>2. IsInjective(queue'[s])
        <4> DOMAIN queue[s] = 1 .. Len(queue[s]) /\ DOMAIN queue'[s] = 1 .. Len(queue'[s])
          BY <2>2, <2>9
        <4> SUFFICES ASSUME NEW a \in 1 .. Len(queue'[s]), NEW b \in 1 .. Len(queue'[s]),
                            queue'[s][a] = queue'[s][b]
                     PROVE  a = b
          BY DEF IsInjective
        <4>1. /\ a + 1 \in 1 .. Len(queue[s]) /\ b + 1 \in 1 .. Len(queue[s])
              /\ queue[s][a + 1] = queue[s][b + 1]
          BY <2>2, <2>9
        <4>2. a + 1 = b + 1
          BY <3>1, <4>1 DEF IsInjective
        <4> QED
          BY <2>9, <4>2
      <3> QED
        BY <2>9, <3>2, Zenon DEF Waits, WaitsExact
    <2>11. \A r \in Procs : Contains(queue'[s], r) <=> Contains(queue[s], r) /\ r # p
      <3>1. ASSUME NEW r \in Procs, Contains(queue'[s], r)
            PROVE  Contains(queue[s], r) /\ r # p
        BY <2>2, <2>9, <3>1 DEF Contains, Waits, WaitsExact, IsInjective
      <3>2. ASSUME NEW r \in Procs, Contains(queue[s], r), r # p
            PROVE  Contains(queue'[s], r)
        <4>1. PICK k \in 1 .. Len(queue[s]) : queue[s][k] = r
          BY <3>2 DEF Contains
        <4>2. k - 1 \in 1 .. Len(queue[s]) - 1
          BY <2>2, <3>2, <4>1
        <4>3. queue'[s][k - 1] = r
          BY <2>9, <4>1, <4>2
        <4> QED
          BY <2>9, <4>2, <4>3 DEF Contains
      <3> QED
        BY <3>1, <3>2
    <2>12. \A r \in Procs, t \in Sems :
               Contains(queue'[t], r) <=> t \in w[r] /\ waitState'[r] = "KSEM"
      <3>1. ASSUME NEW r \in Procs, NEW t \in Sems, t # s
            PROVE  Contains(queue'[t], r) <=> t \in w[r] /\ waitState'[r] = "KSEM"
        BY <2>3, <2>5, <2>7, <2>9, <3>1 DEF Waits, WaitsExact, Threads, SchedTypeOK
      <3>2. ASSUME NEW r \in Procs
            PROVE  Contains(queue'[s], r) <=> s \in w[r] /\ waitState'[r] = "KSEM"
        BY <2>3, <2>7, <2>11 DEF Waits, WaitsExact, Threads, SchedTypeOK
      <3> QED
        BY <3>1, <3>2
    <2>13. \A r \in Procs : w[r] # {} /\ waitState'[r] # "KSEM" => wakeupFlags'[r] = "KSEM"
      BY <2>1, <2>3, <2>7 DEF Waits, WaitsExact, Threads, SchedTypeOK, SemTypeOK
    <2>14. \A r \in Procs : waitState'[r] = "KSEM" => w[r] # {}
      BY <2>3, <2>7 DEF Waits, WaitsExact, Threads, SchedTypeOK
    <2>15. \A t \in Sems : value'[t] > 0 => queue'[t] = <<>>
      BY <1>2, <2>1, <2>9 DEF Waits, WaitsExact
    <2> QED
      BY <2>8, <2>10, <2>12, <2>13, <2>14, <2>15 DEF Waits, WaitsNext, WaitsExact
  <1> QED
    BY <1>1, <1>2

\* A process woken out of another sleep, by its timer, waits for no semaphore
\* before and after.
LEMMA OtherWakeKeeps ==
    ASSUME NEW w \in [Procs -> SUBSET Sems], NEW S \in SUBSET Procs,
           SchedTypeOK, SemTypeOK, Waits(w), UNCHANGED semVars,
           \A p \in S : waitState[p] # "KSEM" /\ w[p] = {},
           waitState' = WokenWait(waitState, state, S)
    PROVE  SemTypeOK' /\ WaitsNext(w)
  BY DEF SemTypeOK, semVars, Waits, WaitsNext, WaitsExact, WokenWait, Asleep,
         SchedTypeOK, Threads
-----------------------------------------------------------------------------
(* The same operations as the scheduler and a client's other state see them. *)

\* down() keeps the scheduler's invariant, wherever it stands.
LEMMA DownSched ==
    ASSUME NEW p \in Procs, NEW s \in Sems, SchedExact, Running(p),
           DownNow(s) \/ DownSleeps(p, s) \/ Downed(p, s)
    PROVE  SchedExact'
  <1>1. CASE DownNow(s) \/ Downed(p, s)
    BY <1>1, RestKeeps DEF DownNow, Downed
  <1>2. CASE DownSleeps(p, s)
    <2>1. "KSEM" \in WState
      BY DEF WState
    <2> QED
      BY <1>2, <2>1, StopKeeps DEF DownSleeps
  <1> QED
    BY <1>1, <1>2

\* So does up().
LEMMA UpSched ==
    ASSUME NEW s \in Sems, SchedExact, SemTypeOK, Up(s)
    PROVE  SchedExact'
  <1>1. CASE queue[s] = <<>>
    BY <1>1, RestKeeps DEF Up
  <1>2. CASE queue[s] # <<>>
    <2>1. {Head(queue[s])} \in SUBSET Threads
      BY <1>2 DEF SemTypeOK, Threads
    <2>2. needResched' \in [Threads -> BOOLEAN]
      BY <1>2 DEF Up, SchedExact, SchedTypeOK
    <2> QED
      BY <1>2, <2>1, <2>2, WakeKeeps DEF Up
  <1> QED
    BY <1>1, <1>2

\* up() either wakes one process that sleeps on the semaphore, or raises its
\* value when there is none.
LEMMA UpEffect ==
    ASSUME NEW w \in [Procs -> SUBSET Sems], NEW s \in Sems,
           SchedExact, SemTypeOK, Waits(w), Up(s)
    PROVE  \/ /\ \A p \in Procs : s \in w[p] => waitState[p] # "KSEM"
              /\ value' = [value EXCEPT ![s] = @ + 1]
              /\ waitState' = waitState
           \/ \E p \in Procs :
                  /\ s \in w[p] /\ waitState[p] = "KSEM"
                  /\ waitState' = [waitState EXCEPT ![p] = "NONE"]
                  /\ value' = value
  <1>1. CASE queue[s] = <<>>
    <2>1. \A p \in Procs : s \in w[p] => waitState[p] # "KSEM"
      BY <1>1 DEF Waits, WaitsExact, Contains
    <2> QED
      BY <1>1, <2>1 DEF Up, schedVars
  <1>2. CASE queue[s] # <<>>
    <2> DEFINE p == Head(queue[s])
    <2>1. waitState' = WokenWait(waitState, state, {p}) /\ value' = value
      BY <1>2 DEF Up, HandedOver, SemTypeOK
    <2>2. p \in Procs /\ p \in Threads /\ Contains(queue[s], p)
      BY <1>2 DEF SemTypeOK, Contains, Threads
    <2> HIDE DEF p
    <2>3. s \in w[p] /\ waitState[p] = "KSEM"
      BY <2>2 DEF Waits, WaitsExact
    <2>4. waitState' = [waitState EXCEPT ![p] = "NONE"]
      BY <2>1, <2>2, <2>3 DEF WokenWait, Asleep, SchedExact, SleepHasReason, SchedTypeOK
    <2> QED
      BY <2>1, <2>2, <2>3, <2>4
  <1> QED
    BY <1>1, <1>2
=============================================================================
