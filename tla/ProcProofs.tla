----------------------------- MODULE ProcProofs -----------------------------
(***************************************************************************)
(* The safety of process management (module Proc) for every set of         *)
(* processes and every bound on their number.                              *)
(*                                                                         *)
(* IInv joins the safety invariants with Control, which says how pc, state *)
(* and waitState of a process belong together.  Without it nothing tells   *)
(* that a timer cannot wake a zombie, or that the process do_wait frees is *)
(* not linked anywhere.  Every lemma below shows that one kind of step     *)
(* preserves IInv; InductiveStep puts them together.                       *)
(***************************************************************************)
EXTENDS Proc, SchedProofs, FiniteSetTheorems

\* What the place process p has reached says of its state.
ControlAt(p) ==
    /\ parent[p] # p
    /\ state[p] # "UNINIT"
    /\ state[p] = "UNUSED" <=> pc[p] = "none"
    /\ state[p] = "ZOMBIE" <=> pc[p] = "exited"
    /\ waitState[p] \in {"NONE", "CHILD", "TIMER"}
    /\ waitState[p] = "CHILD" => pc[p] = "waited"
    /\ waitState[p] = "TIMER" => pc[p] = "slept"

Control ==
    /\ state[idle] = "RUNNABLE"
    /\ pc[idle] = "idle"
    /\ pc[init] \notin {"none", "exited"}
    /\ parent[init] = idle
    /\ \A p \in Procs : ControlAt(p)

\* The part of the invariant that Sched knows of.
SchedInv == SchedTypeOK /\ RunQueueExact /\ SleepHasReason /\ CurrentCanRun

\* ParentAlive and NoMissedChild, written out over pairs of processes.
FamilyInv ==
    \A q \in Procs :
        /\ state[q] # "UNUSED" /\ q # init =>
               parent[q] \in Procs /\ state[parent[q]] \notin {"UNUSED", "ZOMBIE"}
        /\ \A p \in Procs :
               waitState[p] = "CHILD" /\ parent[q] = p /\ waitPid[p] \in {AnyChild, q}
                   => state[q] # "ZOMBIE"

\* The inductive invariant.
IInv ==
    /\ TypeOK
    /\ SchedInv
    /\ Control
    /\ TimerOfSleeper
    /\ FamilyInv
    /\ NrProcessExact

-----------------------------------------------------------------------------
\* FamilyInv is what it is said to be.
LEMMA FamilyMeaning == FamilyInv <=> ParentAlive /\ NoMissedChild
  BY DEF FamilyInv, ParentAlive, NoMissedChild, Reapable, Awaited, Children, Live

\* A step that changes neither which processes are zombies or unused, nor
\* parents, nor the waitPid of a sleeper, keeps FamilyInv and NrProcessExact:
\* the common case of the lemmas below.
LEMMA FamilyFrame ==
    ASSUME FamilyInv, NrProcessExact,
           \A p \in Procs :
               /\ state[p] = "ZOMBIE" <=> state'[p] = "ZOMBIE"
               /\ state[p] = "UNUSED" <=> state'[p] = "UNUSED"
               /\ waitState'[p] = "CHILD" =>
                      waitState[p] = "CHILD" /\ waitPid'[p] = waitPid[p],
           parent' = parent, nrProcess' = nrProcess
    PROVE  FamilyInv' /\ NrProcessExact'
  <1>1. Live' = Live
    BY DEF Live
  <1>2. FamilyInv'
    BY DEF FamilyInv
  <1>3. NrProcessExact'
    BY <1>1 DEF NrProcessExact
  <1> QED
    BY <1>2, <1>3

\* IInv holds when proc_init has finished.
LEMMA InitIInv == Init => IInv
  <1> SUFFICES ASSUME Init PROVE IInv
    OBVIOUS
  <1> USE IdleAssumption, InitAssumption, AnyAssumption
  <1>1. TypeOK
    BY DEF Init, TypeOK, SchedTypeOK, Threads, PState, WState, PC
  <1>2. SchedInv
    <2>1. SchedTypeOK
      BY <1>1 DEF TypeOK
    <2> QED
      BY <2>1 DEF Init, SchedInv, RunQueueExact, SleepHasReason, CurrentCanRun, Threads
  <1>3. Control /\ TimerOfSleeper
    BY DEF Init, Control, ControlAt, TimerOfSleeper, Threads
  <1>4. Live = {init}
    BY DEF Init, Live, Threads
  <1>5. FamilyInv
    BY DEF Init, FamilyInv, Threads
  <1>6. NrProcessExact
    <2>1. Cardinality({init}) = 1
      BY FS_Singleton
    <2> QED
      BY <1>4, <2>1 DEF Init, NrProcessExact
  <1> QED
    BY <1>1, <1>2, <1>3, <1>5, <1>6 DEF IInv

-----------------------------------------------------------------------------
\* A step that changes the states to st, wakes S from there and leaves the CPU
\* where it is keeps SchedInv, if whoever loses the right to run is about to
\* call schedule().
LEMMA WakeStep ==
    ASSUME SchedInv, NEW st \in [Threads -> PState], NEW S \in SUBSET Threads,
           QueuedExactly(st, rq), Reasoned(st, waitState),
           state' = WokenState(st, S),
           waitState' = WokenWait(waitState, st, S),
           rq' = WokenQueue(rq, st, S),
           current' = current,
           needResched' \in [Threads -> BOOLEAN],
           inSched' \in BOOLEAN,
           inSched' \/ st[current] = "RUNNABLE"
    PROVE  SchedInv'
  <1>1. WakeTyped(st, waitState, rq)
    BY DEF WakeTyped, SchedInv, SchedTypeOK
  <1>2. SchedTypeOK'
    BY <1>1, WakeTypes DEF WakeTyped, SchedInv, SchedTypeOK
  <1>3. QueuedExactly(state', rq')
    BY <1>1, WakeKeepsQueue
  <1>4. Reasoned(state', waitState')
    BY <1>1, WakeKeepsReasons
  <1>5. RunQueueExact'
    BY <1>3 DEF QueuedExactly, RunQueueExact
  <1>6. SleepHasReason'
    BY <1>4 DEF Reasoned, SleepHasReason
  <1>7. CurrentCanRun'
    BY DEF CurrentCanRun, WokenState, SchedInv, SchedTypeOK
  <1> QED
    BY <1>2, <1>5, <1>6, <1>7 DEF SchedInv

\* do_exit of a process that runs (from sys_exit, do_wait or trap).
LEMMA ExitStep ==
    ASSUME IInv, NEW p \in Procs, Running(p), Exit(p), pc[p] # "slept"
    PROVE  IInv'
  <1> USE InitAssumption, IdleAssumption
  <1> DEFINE st == [state EXCEPT ![p] = "ZOMBIE"]
             wake == {q \in Notified(p) : waitState[q] = "CHILD"}
  <1>1. /\ TypeOK /\ SchedInv /\ Control /\ TimerOfSleeper
        /\ FamilyInv /\ NrProcessExact
        /\ p \in Threads /\ init \in Threads
    BY DEF IInv, Threads
  <1>2. /\ state' = WokenState(st, wake)
        /\ waitState' = WokenWait(waitState, st, wake)
        /\ rq' = WokenQueue(rq, st, wake)
        /\ parent' = Reparented(p)
        /\ waitPid' = [waitPid EXCEPT ![p] = AnyChild]
        /\ pc' = [pc EXCEPT ![p] = "exited"]
        /\ inSched' = TRUE
        /\ UNCHANGED <<current, needResched, exiting, timers, nrProcess>>
        /\ p # init
    BY DEF Exit
  <1>3. state[p] = "RUNNABLE" /\ waitState[p] = "NONE" /\ current = p
    BY <1>1 DEF Running, SchedInv, CurrentCanRun, SleepHasReason
  <1>4. wake \subseteq Threads /\ st \in [Threads -> PState]
    BY <1>1 DEF TypeOK, SchedTypeOK, Notified, PState
  <1>5. \A q \in wake : state[q] = "SLEEPING" /\ q # p
    BY <1>1, <1>3, <1>4 DEF SchedInv, SleepHasReason
  <1>6. SchedInv'
    <2>1. QueuedExactly(st, rq)
      BY <1>1, <1>3 DEF QueuedExactly, SchedInv, RunQueueExact, TypeOK, SchedTypeOK
    <2>2. Reasoned(st, waitState)
      BY <1>1, <1>3 DEF Reasoned, SchedInv, SleepHasReason, TypeOK, SchedTypeOK
    <2>3. needResched' \in [Threads -> BOOLEAN]
      BY <1>1, <1>2 DEF TypeOK, SchedTypeOK
    <2> HIDE DEF st, wake
    <2> QED
      BY <1>1, <1>2, <1>4, <2>1, <2>2, <2>3, WakeStep
  <1>7. \A q \in Threads :
           /\ q = p => state'[q] = "ZOMBIE"
           /\ q \in wake => state[q] = "SLEEPING" /\ state'[q] = "RUNNABLE"
                                /\ waitState'[q] = "NONE"
           /\ q # p /\ q \notin wake => state'[q] = state[q]
           /\ q \notin wake => waitState'[q] = waitState[q]
    BY <1>1, <1>2, <1>5 DEF WokenState, WokenWait, Asleep, TypeOK, SchedTypeOK
  <1>8. /\ parent' \in [Procs -> Threads]
        /\ \A q \in Procs :
               IF parent[q] = p /\ state[q] # "UNUSED"
                 THEN parent'[q] = init ELSE parent'[q] = parent[q]
    BY <1>1, <1>2 DEF Reparented, Children, Live, TypeOK
  <1>9. TypeOK'
    BY <1>1, <1>2, <1>6, <1>8 DEF TypeOK, SchedInv, PC
  <1>10. Control' /\ TimerOfSleeper'
    <2> HIDE DEF st, wake
    <2>1. TimerOfSleeper'
      BY <1>1, <1>2 DEF TimerOfSleeper, TypeOK
    <2>2. state'[idle] = "RUNNABLE" /\ pc'[idle] = "idle"
      BY <1>1, <1>2, <1>7 DEF Control, Threads, TypeOK
    <2>3. pc'[init] \notin {"none", "exited"} /\ parent'[init] = idle
      BY <1>1, <1>2, <1>8 DEF Control, TypeOK, Threads
    <2>4. ASSUME NEW q \in Procs
          PROVE  ControlAt(q)'
      <3>1. q \in Threads
        BY DEF Threads
      <3>2. parent'[q] # q
        BY <1>1, <1>8 DEF Control, ControlAt
      <3>3. CASE q = p
        <4>1. pc'[p] = "exited" /\ p \notin wake
          BY <1>1, <1>2, <1>5 DEF TypeOK
        <4>2. state'[p] = "ZOMBIE" /\ waitState'[p] = "NONE"
          BY <1>1, <1>3, <1>7, <4>1
        <4> QED
          BY <3>2, <3>3, <4>1, <4>2 DEF ControlAt
      <3>4. CASE q \in wake
        <4>1. q # p /\ state[q] = "SLEEPING" /\ state'[q] = "RUNNABLE" /\ waitState'[q] = "NONE"
          BY <1>5, <1>7, <3>1, <3>4
        <4>2. pc'[q] = pc[q]
          BY <1>1, <1>2, <4>1 DEF TypeOK
        <4> QED
          BY <1>1, <3>2, <4>1, <4>2 DEF Control, ControlAt
      <3>5. CASE q # p /\ q \notin wake
        BY <1>1, <1>2, <1>7, <3>1, <3>2, <3>5 DEF TypeOK, Control, ControlAt
      <3> QED
        BY <3>3, <3>4, <3>5
    <2> QED
      BY <2>1, <2>2, <2>3, <2>4 DEF Control
  <1>11. FamilyInv'
    <2>1. ASSUME NEW q \in Procs, state'[q] # "UNUSED", q # init
          PROVE  parent'[q] \in Procs /\ state'[parent'[q]] \notin {"UNUSED", "ZOMBIE"}
      <3>1. state[q] # "UNUSED"
        BY <1>3, <1>7, <2>1 DEF Threads
      <3>2. state[init] \notin {"UNUSED", "ZOMBIE"}
        BY <1>1 DEF Control, ControlAt
      <3>3. \A r \in Procs \ {p} : state[r] \notin {"UNUSED", "ZOMBIE"} =>
                                    state'[r] \notin {"UNUSED", "ZOMBIE"}
        BY <1>7 DEF Threads
      <3> QED
        BY <1>1, <1>2, <1>8, <2>1, <3>1, <3>2, <3>3 DEF FamilyInv
    <2>2. ASSUME NEW q \in Procs, NEW r \in Procs, waitState'[r] = "CHILD",
                 parent'[q] = r, waitPid'[r] \in {AnyChild, q}, state'[q] = "ZOMBIE"
          PROVE  FALSE
      <3>1. r \notin wake /\ waitState[r] = "CHILD" /\ r # p
        BY <1>3, <1>7, <2>2 DEF Threads
      <3>2. waitPid[r] \in {AnyChild, q}
        BY <1>1, <1>2, <2>2, <3>1 DEF TypeOK
      <3>3. r # parent[p] /\ r \notin Notified(p)
        BY <3>1 DEF Notified
      <3>4. CASE q = p
        BY <1>1, <1>3, <1>8, <2>2, <3>3, <3>4 DEF Control, ControlAt
      <3>5. CASE q # p
        <4>1. state[q] = "ZOMBIE"
          BY <1>7, <2>2, <3>5 DEF Threads
        <4>2. CASE parent[q] = p
          BY <1>8, <2>2, <3>3, <4>1, <4>2 DEF Notified, Children, Live
        <4>3. CASE parent[q] # p
          BY <1>1, <1>8, <2>2, <3>1, <3>2, <4>1, <4>3 DEF FamilyInv
        <4> QED
          BY <4>2, <4>3
      <3> QED
        BY <3>4, <3>5
    <2> QED
      BY <2>1, <2>2 DEF FamilyInv
  <1>12. NrProcessExact'
    <2>1. Live' = Live
      BY <1>3, <1>7 DEF Live, Threads
    <2> QED
      BY <1>1, <1>2, <2>1 DEF NrProcessExact
  <1> QED
    BY <1>6, <1>9, <1>10, <1>11, <1>12 DEF IInv

\* do_fork by sys_fork or init_main.
LEMMA ForkStep ==
    ASSUME IInv, NEW p \in Procs, NEW c \in Procs, NEW x \in {"trapret", "wait"},
           Running(p), DoFork(p, c), pc[p] \in {"user", "start"},
           pc' = [pc EXCEPT ![p] = x, ![c] = "user"]
    PROVE  IInv'
  <1> USE InitAssumption, IdleAssumption
  <1> DEFINE st == [state EXCEPT ![c] = "UNINIT"]
             woken == {c}
  <1>1. /\ TypeOK /\ SchedInv /\ Control /\ TimerOfSleeper
        /\ FamilyInv /\ NrProcessExact
        /\ p \in Threads /\ c \in Threads /\ idle \in Threads /\ c # idle
    BY DEF IInv, Threads
  <1>2. /\ state[c] = "UNUSED" /\ waitState[c] = "NONE" /\ pc[c] = "none"
        /\ c # current /\ c # p /\ c # init
        /\ state[p] = "RUNNABLE" /\ waitState[p] = "NONE"
        /\ current = p /\ inSched = FALSE
    BY <1>1 DEF DoFork, Running, SchedInv, CurrentCanRun, SleepHasReason, Control, ControlAt,
                TypeOK, SchedTypeOK
  <1>3. /\ state' = WokenState(st, woken)
        /\ waitState' = WokenWait(waitState, st, woken)
        /\ rq' = WokenQueue(rq, st, woken)
        /\ needResched' = [needResched EXCEPT ![c] = FALSE]
        /\ parent' = [parent EXCEPT ![c] = p]
        /\ exiting' = [exiting EXCEPT ![c] = FALSE]
        /\ nrProcess' = nrProcess + 1
        /\ UNCHANGED <<current, inSched, waitPid, timers>>
    BY DEF DoFork, Linked
  <1>4. SchedInv'
    <2>1. st \in [Threads -> PState] /\ woken \subseteq Threads
      BY <1>1 DEF TypeOK, SchedTypeOK, PState
    <2>2. QueuedExactly(st, rq)
      BY <1>1, <1>2 DEF QueuedExactly, SchedInv, RunQueueExact, TypeOK, SchedTypeOK
    <2>3. Reasoned(st, waitState)
      BY <1>1, <1>2 DEF Reasoned, SchedInv, SleepHasReason, TypeOK, SchedTypeOK
    <2>4. needResched' \in [Threads -> BOOLEAN] /\ inSched' \in BOOLEAN
      BY <1>1, <1>3 DEF TypeOK, SchedTypeOK
    <2>5. st[current] = "RUNNABLE"
      BY <1>1, <1>2 DEF TypeOK, SchedTypeOK
    <2> HIDE DEF st, woken
    <2> QED
      BY <1>1, <1>3, <2>1, <2>2, <2>3, <2>4, <2>5, WakeStep
  <1>5. \A q \in Threads :
           /\ q = c => state'[q] = "RUNNABLE"
           /\ q # c => state'[q] = state[q]
           /\ waitState'[q] = waitState[q]
    BY <1>1, <1>2, <1>3 DEF WokenState, WokenWait, Asleep, TypeOK, SchedTypeOK
  <1>6. \A q \in Procs :
           /\ q = c => parent'[q] = p /\ pc'[q] = "user"
           /\ q # c => parent'[q] = parent[q]
           /\ q = p => pc'[q] = x
           /\ q # c /\ q # p => pc'[q] = pc[q]
    BY <1>1, <1>2, <1>3 DEF TypeOK, Threads
  <1>7. TypeOK'
    BY <1>1, <1>3, <1>4 DEF TypeOK, SchedInv, PC
  <1>8. Control'
    <2>1. pc'[idle] = "idle" /\ state'[idle] = "RUNNABLE"
      BY <1>1, <1>5 DEF TypeOK, Control
    <2>2. pc'[init] \notin {"none", "exited"} /\ parent'[init] = idle
      BY <1>1, <1>2, <1>6 DEF Control
    <2>3. ASSUME NEW q \in Procs
          PROVE  ControlAt(q)'
      <3>0. ControlAt(q)
        BY <1>1 DEF Control
      <3>1. q \in Threads
        BY DEF Threads
      <3>2. CASE q = c
        BY <1>1, <1>2, <1>5, <1>6, <3>2 DEF ControlAt
      <3>3. CASE q = p
        BY <1>1, <1>2, <1>5, <1>6, <3>0, <3>3 DEF ControlAt
      <3>4. CASE q # p /\ q # c
        <4>1. /\ parent'[q] = parent[q] /\ state'[q] = state[q]
              /\ waitState'[q] = waitState[q] /\ pc'[q] = pc[q]
          BY <1>5, <1>6, <3>1, <3>4
        <4> QED
          BY <3>0, <4>1 DEF ControlAt
      <3> QED
        BY <3>2, <3>3, <3>4
    <2> QED
      BY <2>1, <2>2, <2>3 DEF Control
  <1>9. TimerOfSleeper'
    <2>1. timers' = timers /\ timers \subseteq Procs
      BY <1>1, <1>3 DEF TypeOK
    <2>2. \A t \in timers : t # p /\ t # c
      BY <1>1, <1>2 DEF TimerOfSleeper
    <2> QED
      BY <1>1, <1>6, <2>1, <2>2 DEF TimerOfSleeper
  <1>10. FamilyInv'
    <2>1. ASSUME NEW q \in Procs, state'[q] # "UNUSED", q # init
          PROVE  parent'[q] \in Procs /\ state'[parent'[q]] \notin {"UNUSED", "ZOMBIE"}
      <3>1. CASE q = c
        BY <1>1, <1>2, <1>5, <1>6, <3>1
      <3>2. CASE q # c
        BY <1>1, <1>2, <1>5, <1>6, <2>1, <3>2 DEF FamilyInv, Threads
      <3> QED
        BY <3>1, <3>2
    <2>2. ASSUME NEW q \in Procs, NEW r \in Procs, waitState'[r] = "CHILD",
                 parent'[q] = r, waitPid'[r] \in {AnyChild, q}, state'[q] = "ZOMBIE"
          PROVE  FALSE
      <3>1. q \in Threads /\ r \in Threads
        BY DEF Threads
      <3>2. q # c /\ state[q] = "ZOMBIE" /\ parent[q] = r /\ waitState[r] = "CHILD"
        BY <1>5, <1>6, <2>2, <3>1
      <3> QED
        BY <1>1, <1>3, <2>2, <3>2 DEF FamilyInv
    <2> QED
      BY <2>1, <2>2 DEF FamilyInv
  <1>11. NrProcessExact'
    <2>1. Live' = Live \cup {c} /\ c \notin Live
      BY <1>2, <1>5 DEF Live, Threads
    <2>2. IsFiniteSet(Live)
      BY FiniteAssumption, FS_Subset DEF Live
    <2>3. Cardinality(Live') = Cardinality(Live) + 1
      BY <2>1, <2>2, FS_AddElement
    <2> QED
      BY <1>1, <1>3, <2>2, <2>3, FS_CardinalityType DEF NrProcessExact
  <1> QED
    BY <1>4, <1>7, <1>8, <1>9, <1>10, <1>11 DEF IInv

\* do_wait frees a zombie.
LEMMA ReapStep ==
    ASSUME IInv, NEW p \in Procs, NEW q \in Procs, Reap(p, q)
    PROVE  IInv'
  <1> USE InitAssumption, IdleAssumption
  <1>1. /\ TypeOK /\ SchedInv /\ Control /\ TimerOfSleeper
        /\ FamilyInv /\ NrProcessExact
        /\ p \in Threads /\ q \in Threads /\ idle \in Threads /\ q # idle
    BY DEF IInv, Threads
  <1>2. /\ state[q] = "ZOMBIE" /\ parent[q] = p /\ pc[q] = "exited"
        /\ pc[p] = "wait" /\ waitState[q] = "NONE" /\ waitState[p] = "NONE"
        /\ current = p /\ state[p] = "RUNNABLE" /\ inSched = FALSE
        /\ p # q /\ q # init
    BY <1>1 DEF Reap, Reapable, Awaited, Children, Running, SchedInv, Control, ControlAt,
                SleepHasReason, CurrentCanRun, TypeOK, SchedTypeOK
  <1>3. /\ state' = [state EXCEPT ![q] = "UNUSED"]
        /\ nrProcess' = nrProcess - 1
        /\ parent' = [parent EXCEPT ![q] = idle]
        /\ waitPid' = [waitPid EXCEPT ![p] = AnyChild]
        /\ exiting' = [exiting EXCEPT ![q] = FALSE]
        /\ pc' = [pc EXCEPT ![q] = "none", ![p] = IF p = init THEN "again" ELSE "trapret"]
        /\ inSched' = (p = init)
        /\ UNCHANGED <<waitState, rq, current, needResched, timers>>
    BY DEF Reap, Unlinked
  <1>4. \A r \in Threads :
           /\ r = q => state'[r] = "UNUSED" /\ pc'[r] = "none"
           /\ r # q => state'[r] = state[r]
           /\ r = p => pc'[r] \in {"again", "trapret"}
           /\ r # q /\ r # p => pc'[r] = pc[r]
    BY <1>1, <1>2, <1>3 DEF TypeOK, SchedTypeOK
  <1>5. \A r \in Procs :
           /\ r = q => parent'[r] = idle
           /\ r # q => parent'[r] = parent[r]
           /\ r # p => waitPid'[r] = waitPid[r]
    BY <1>1, <1>3 DEF TypeOK
  <1>6. SchedInv'
    <2>1. SchedTypeOK'
      BY <1>1, <1>3 DEF TypeOK, SchedTypeOK, PState
    <2>2. RunQueueExact' /\ SleepHasReason' /\ CurrentCanRun'
      BY <1>1, <1>2, <1>3, <1>4 DEF SchedInv, RunQueueExact, SleepHasReason, CurrentCanRun
    <2> QED
      BY <2>1, <2>2 DEF SchedInv
  <1>7. NrProcessExact' /\ nrProcess' \in Nat
    <2>1. Live' = Live \ {q} /\ q \in Live
      BY <1>2, <1>4 DEF Live, Threads
    <2>2. IsFiniteSet(Live)
      BY FiniteAssumption, FS_Subset DEF Live
    <2>3. IsFiniteSet(Live') /\ Cardinality(Live') = Cardinality(Live) - 1
      BY <2>1, <2>2, FS_RemoveElement
    <2>4. Cardinality(Live) \in Nat /\ Cardinality(Live') \in Nat
      BY <2>2, <2>3, FS_CardinalityType
    <2> QED
      BY <1>1, <1>3, <2>3, <2>4 DEF NrProcessExact
  <1>8. TypeOK'
    BY <1>1, <1>3, <1>6, <1>7 DEF TypeOK, SchedInv, PC
  <1>9. Control'
    <2>1. pc'[idle] = "idle" /\ state'[idle] = "RUNNABLE"
      BY <1>1, <1>2, <1>4 DEF Control
    <2>2. pc'[init] \notin {"none", "exited"} /\ parent'[init] = idle
      BY <1>1, <1>2, <1>4, <1>5 DEF Control, Threads
    <2>3. ASSUME NEW r \in Procs
          PROVE  ControlAt(r)'
      <3>0. ControlAt(r)
        BY <1>1 DEF Control
      <3>1. r \in Threads
        BY DEF Threads
      <3>2. CASE r = q
        <4>1. /\ parent'[q] = idle /\ state'[q] = "UNUSED" /\ pc'[q] = "none"
              /\ waitState'[q] = "NONE"
          BY <1>1, <1>2, <1>3, <1>4, <1>5
        <4> QED
          BY <3>2, <4>1 DEF ControlAt
      <3>3. CASE r = p
        <4>1. /\ parent'[p] = parent[p] /\ state'[p] = "RUNNABLE"
              /\ pc'[p] \in {"again", "trapret"} /\ waitState'[p] = "NONE"
          BY <1>1, <1>2, <1>3, <1>4, <1>5
        <4> QED
          BY <3>0, <3>3, <4>1 DEF ControlAt
      <3>4. CASE r # p /\ r # q
        <4>1. /\ parent'[r] = parent[r] /\ state'[r] = state[r]
              /\ waitState'[r] = waitState[r] /\ pc'[r] = pc[r]
          BY <1>3, <1>4, <1>5, <3>1, <3>4
        <4> QED
          BY <3>0, <4>1 DEF ControlAt
      <3> QED
        BY <3>2, <3>3, <3>4
    <2> QED
      BY <2>1, <2>2, <2>3 DEF Control
  <1>10. TimerOfSleeper'
    BY <1>1, <1>2, <1>3, <1>4 DEF TimerOfSleeper, TypeOK, Threads
  <1>11. FamilyInv'
    BY <1>1, <1>2, <1>3, <1>4, <1>5 DEF FamilyInv, Threads
  <1> QED
    BY <1>6, <1>7, <1>8, <1>9, <1>10, <1>11 DEF IInv

\* A step in which p goes from one place to another and nobody's state
\* changes: most system calls that return at once, and Panic.
LEMMA QuietStep ==
    ASSUME IInv, NEW p \in Procs, NEW x \in PC \ {"none", "exited"},
           pc[p] \notin {"none", "exited"}, waitState[p] = "NONE",
           pc' = [pc EXCEPT ![p] = x],
           UNCHANGED <<state, waitState, rq, current, parent, exiting, nrProcess>>,
           inSched' \in BOOLEAN, needResched' \in [Threads -> BOOLEAN],
           inSched' \/ state[current] = "RUNNABLE",
           waitPid' \in [Procs -> Procs \cup {AnyChild}],
           \A q \in Procs \ {p} : waitPid'[q] = waitPid[q],
           timers' \subseteq timers, p \notin timers'
    PROVE  IInv'
  <1> USE InitAssumption, IdleAssumption
  <1>1. /\ TypeOK /\ SchedInv /\ Control /\ TimerOfSleeper
        /\ FamilyInv /\ NrProcessExact /\ p \in Threads /\ p # idle
    BY DEF IInv, Threads
  <1>2. \A q \in Threads : /\ q = p => pc'[q] = x
                           /\ q # p => pc'[q] = pc[q]
    BY <1>1 DEF TypeOK
  <1>3. TypeOK'
    BY <1>1 DEF TypeOK, SchedTypeOK
  <1>4. SchedInv'
    BY <1>1, <1>3 DEF SchedInv, RunQueueExact, SleepHasReason, CurrentCanRun, TypeOK
  <1>5. Control'
    <2>1. ASSUME NEW q \in Procs
          PROVE  ControlAt(q)'
      <3>1. ControlAt(q) /\ q \in Threads
        BY <1>1 DEF Control, Threads
      <3>2. CASE q = p
        BY <1>2, <3>1, <3>2 DEF ControlAt
      <3>3. CASE q # p
        BY <1>2, <3>1, <3>3 DEF ControlAt
      <3> QED
        BY <3>2, <3>3
    <2>2. pc'[idle] = "idle" /\ pc'[init] \notin {"none", "exited"}
      BY <1>1, <1>2 DEF Control, Threads
    <2> QED
      BY <1>1, <2>1, <2>2 DEF Control
  <1>6. TimerOfSleeper'
    BY <1>1, <1>2 DEF TimerOfSleeper, TypeOK, Threads
  <1>7. FamilyInv' /\ NrProcessExact'
    BY <1>1, FamilyFrame
  <1> QED
    BY <1>1, <1>3, <1>4, <1>5, <1>6, <1>7 DEF IInv

\* p puts itself to sleep in do_wait or do_sleep and calls schedule().
LEMMA SleepStep ==
    ASSUME IInv, NEW p \in Procs, Running(p), pc[p] \in {"user", "wait"},
           state' = [state EXCEPT ![p] = "SLEEPING"],
           inSched' = TRUE,
           UNCHANGED <<rq, current, needResched, parent, exiting, waitPid, nrProcess>>,
           \/ /\ waitState' = [waitState EXCEPT ![p] = "CHILD"]
              /\ pc' = [pc EXCEPT ![p] = "waited"]
              /\ Reapable(p) = {} /\ timers' = timers
           \/ /\ waitState' = [waitState EXCEPT ![p] = "TIMER"]
              /\ pc' = [pc EXCEPT ![p] = "slept"]
              /\ timers' = timers \cup {p}
    PROVE  IInv'
  <1> USE InitAssumption, IdleAssumption
  <1>1. /\ TypeOK /\ SchedInv /\ Control /\ TimerOfSleeper
        /\ FamilyInv /\ NrProcessExact /\ p \in Threads /\ p # idle
        /\ state[p] = "RUNNABLE" /\ current = p
    BY DEF IInv, Threads, Running, SchedInv, CurrentCanRun
  <1>2. \A q \in Threads :
           /\ q = p => /\ state'[q] = "SLEEPING"
                       /\ \/ waitState'[q] = "CHILD" /\ pc'[q] = "waited"
                          \/ waitState'[q] = "TIMER" /\ pc'[q] = "slept"
           /\ q # p => state'[q] = state[q] /\ waitState'[q] = waitState[q] /\ pc'[q] = pc[q]
    BY <1>1 DEF TypeOK, SchedTypeOK
  <1>3. TypeOK'
    BY <1>1 DEF TypeOK, SchedTypeOK, PC, PState, WState
  <1>4. SchedInv'
    <2>1. RunQueueExact'
      BY <1>1, <1>2 DEF SchedInv, RunQueueExact
    <2>2. SleepHasReason'
      BY <1>1, <1>2 DEF SchedInv, SleepHasReason
    <2> QED
      BY <1>3, <2>1, <2>2 DEF SchedInv, CurrentCanRun, TypeOK
  <1>5. Control'
    <2>1. ASSUME NEW q \in Procs
          PROVE  ControlAt(q)'
      <3>1. ControlAt(q) /\ q \in Threads
        BY <1>1 DEF Control, Threads
      <3>2. CASE q = p
        BY <1>2, <3>1, <3>2 DEF ControlAt
      <3>3. CASE q # p
        BY <1>2, <3>1, <3>3 DEF ControlAt
      <3> QED
        BY <3>2, <3>3
    <2>2. /\ pc'[idle] = "idle" /\ state'[idle] = "RUNNABLE"
          /\ pc'[init] \notin {"none", "exited"}
      BY <1>1, <1>2 DEF Control, Threads
    <2> QED
      BY <1>1, <2>1, <2>2 DEF Control
  <1>6. TimerOfSleeper'
    <2>1. p \notin timers /\ timers \subseteq Threads
      BY <1>1 DEF TimerOfSleeper, TypeOK, Threads
    <2>2. \A t \in timers : pc'[t] = "slept"
      BY <1>1, <1>2, <2>1 DEF TimerOfSleeper
    <2> QED
      BY <1>1, <2>2 DEF TimerOfSleeper, TypeOK
  <1>7. FamilyInv'
    <2>1. ASSUME NEW q \in Procs, state'[q] # "UNUSED", q # init
          PROVE  parent'[q] \in Procs /\ state'[parent'[q]] \notin {"UNUSED", "ZOMBIE"}
      <3>1. state[q] # "UNUSED"
        BY <1>1, <1>2, <2>1 DEF Threads
      <3>2. parent[q] \in Procs /\ state[parent[q]] \notin {"UNUSED", "ZOMBIE"}
        BY <1>1, <2>1, <3>1 DEF FamilyInv
      <3> QED
        BY <1>2, <3>2 DEF Threads
    <2>2. ASSUME NEW q \in Procs, NEW r \in Procs, waitState'[r] = "CHILD",
                 parent'[q] = r, waitPid'[r] \in {AnyChild, q}, state'[q] = "ZOMBIE"
          PROVE  FALSE
      <3>1. q \in Threads /\ r \in Threads /\ state[q] = "ZOMBIE"
        BY <1>2, <2>2 DEF Threads
      <3>2. CASE r = p
        <4>1. Reapable(p) = {}
          BY <1>1, <1>2, <2>2, <3>2 DEF TypeOK, SchedTypeOK
        <4> QED
          BY <2>2, <3>1, <3>2, <4>1 DEF Reapable, Awaited, Children, Live
      <3>3. CASE r # p
        BY <1>1, <1>2, <2>2, <3>1, <3>3 DEF FamilyInv
      <3> QED
        BY <3>2, <3>3
    <2> QED
      BY <2>1, <2>2 DEF FamilyInv
  <1>8. NrProcessExact'
    <2>1. Live' = Live
      BY <1>1, <1>2 DEF Live, Threads
    <2> QED
      BY <1>1, <2>1 DEF NrProcessExact
  <1> QED
    BY <1>3, <1>4, <1>5, <1>6, <1>7, <1>8 DEF IInv

\* A step that wakes processes, none of them a zombie, and moves at most a
\* process from user mode to the end of trap(): do_kill and the clock.
LEMMA WakingStep ==
    ASSUME IInv, NEW S \in SUBSET Threads,
           \A s \in S : state[s] \in {"SLEEPING", "RUNNABLE"},
           state' = WokenState(state, S),
           waitState' = WokenWait(waitState, state, S),
           rq' = WokenQueue(rq, state, S),
           UNCHANGED <<current, inSched, parent, waitPid, nrProcess>>,
           needResched' \in [Threads -> BOOLEAN],
           exiting' \in [Procs -> BOOLEAN],
           timers' \subseteq timers,
           pc' = pc \/ \E p \in Procs : pc[p] = "user" /\ pc' = [pc EXCEPT ![p] = "trapret"]
    PROVE  IInv'
  <1> USE InitAssumption, IdleAssumption
  <1>1. /\ TypeOK /\ SchedInv /\ Control /\ TimerOfSleeper
        /\ FamilyInv /\ NrProcessExact /\ Procs \subseteq Threads
    BY DEF IInv, Threads
  <1>2. \A q \in Threads :
           /\ state'[q] = "ZOMBIE" <=> state[q] = "ZOMBIE"
           /\ state'[q] = "UNUSED" <=> state[q] = "UNUSED"
           /\ state'[q] = "UNINIT" <=> state[q] = "UNINIT"
           /\ state[q] = "RUNNABLE" => state'[q] = "RUNNABLE"
           /\ waitState'[q] \in {"NONE", waitState[q]}
    BY <1>1 DEF WokenState, WokenWait, Asleep, TypeOK, SchedTypeOK
  <1>3. \A q \in Threads :
           pc'[q] = pc[q] \/ (pc[q] = "user" /\ pc'[q] = "trapret")
    BY <1>1 DEF TypeOK
  <1>4. SchedInv'
    <2>1. QueuedExactly(state, rq) /\ Reasoned(state, waitState)
      BY <1>1 DEF QueuedExactly, Reasoned, SchedInv, RunQueueExact, SleepHasReason
    <2>2. state \in [Threads -> PState] /\ inSched' \in BOOLEAN
      BY <1>1 DEF TypeOK, SchedTypeOK
    <2>3. inSched' \/ state[current] = "RUNNABLE"
      BY <1>1 DEF SchedInv, CurrentCanRun
    <2> QED
      BY <1>1, <2>1, <2>2, <2>3, WakeStep
  <1>5. TypeOK'
    BY <1>1, <1>4 DEF TypeOK, SchedInv, PC
  <1>6. Control'
    <2>1. ASSUME NEW q \in Procs
          PROVE  ControlAt(q)'
      <3>1. ControlAt(q) /\ q \in Threads /\ parent'[q] = parent[q]
        BY <1>1 DEF Control
      <3>2. waitState'[q] = "NONE" \/ waitState'[q] = waitState[q]
        BY <1>2, <3>1
      <3>3. CASE pc'[q] = pc[q]
        BY <1>2, <3>1, <3>2, <3>3 DEF ControlAt
      <3>4. CASE pc[q] = "user" /\ pc'[q] = "trapret"
        BY <1>2, <3>1, <3>2, <3>4 DEF ControlAt
      <3> QED
        BY <1>3, <3>1, <3>3, <3>4
    <2>2. /\ pc'[idle] = "idle" /\ state'[idle] = "RUNNABLE"
          /\ pc'[init] \notin {"none", "exited"}
      BY <1>1, <1>2, <1>3 DEF Control, Threads
    <2> QED
      BY <1>1, <2>1, <2>2 DEF Control
  <1>7. TimerOfSleeper'
    <2>1. \A t \in timers' : t \in Threads /\ pc[t] = "slept"
      BY <1>1 DEF TimerOfSleeper, TypeOK
    <2> QED
      BY <1>3, <2>1 DEF TimerOfSleeper
  <1>8. FamilyInv' /\ NrProcessExact'
    <2>1. ASSUME NEW q \in Procs
          PROVE  /\ state[q] = "ZOMBIE" <=> state'[q] = "ZOMBIE"
                 /\ state[q] = "UNUSED" <=> state'[q] = "UNUSED"
                 /\ waitState'[q] = "CHILD" =>
                        waitState[q] = "CHILD" /\ waitPid'[q] = waitPid[q]
      BY <1>1, <1>2
    <2> QED
      BY <1>1, <2>1, FamilyFrame
  <1> QED
    BY <1>1, <1>4, <1>5, <1>6, <1>7, <1>8 DEF IInv

-----------------------------------------------------------------------------
\* Facts about the process that runs, used for every system call.
LEMMA RunningFacts ==
    ASSUME IInv, NEW p \in Procs, Running(p)
    PROVE  /\ p \in Threads /\ current = p /\ inSched = FALSE
           /\ state[p] = "RUNNABLE" /\ waitState[p] = "NONE"
           /\ pc[p] # "slept" => p \notin timers
           /\ inSched \in BOOLEAN /\ needResched \in [Threads -> BOOLEAN]
           /\ waitPid \in [Procs -> Procs \cup {AnyChild}]
           /\ exiting \in [Procs -> BOOLEAN]
  BY DEF IInv, TypeOK, SchedTypeOK, SchedInv, SleepHasReason, CurrentCanRun, Running,
         TimerOfSleeper, Threads

\* A step of the kernel's own code preserves IInv.
LEMMA KernelStepIInv == IInv /\ KernelStep => IInv'
  <1> SUFFICES ASSUME IInv, KernelStep PROVE IInv'
    OBVIOUS
  <1> USE InitAssumption, IdleAssumption
  <1>1. CASE Switch
    <2>1. SchedTypeOK /\ RunQueueExact /\ state[idle] = "RUNNABLE"
      BY DEF IInv, SchedInv, Control
    <2>2. SchedTypeOK' /\ RunQueueExact' /\ CurrentCanRun'
      BY <1>1, <2>1, ScheduleCorrect DEF Switch
    <2>3. UNCHANGED <<state, waitState, procVars>>
      BY <1>1 DEF Switch, Schedule
    <2>4. TypeOK' /\ SchedInv' /\ Control' /\ TimerOfSleeper'
      BY <2>2, <2>3 DEF IInv, TypeOK, SchedInv, SleepHasReason, Control, ControlAt,
                        TimerOfSleeper, procVars
    <2>5. FamilyInv' /\ NrProcessExact'
      BY <2>3, FamilyFrame DEF IInv, procVars
    <2> QED
      BY <2>4, <2>5 DEF IInv
  <1>2. CASE Idle
    <2>1. /\ inSched' = TRUE /\ current = idle
          /\ UNCHANGED <<state, waitState, rq, current, needResched, procVars>>
      BY <1>2 DEF Idle, CpuIdle, Running
    <2>2. TypeOK' /\ SchedInv' /\ Control' /\ TimerOfSleeper'
      BY <2>1 DEF IInv, TypeOK, SchedTypeOK, SchedInv, SleepHasReason, RunQueueExact,
                  CurrentCanRun, Control, ControlAt, TimerOfSleeper, procVars
    <2>3. FamilyInv' /\ NrProcessExact'
      BY <2>1, FamilyFrame DEF IInv, procVars
    <2> QED
      BY <2>2, <2>3 DEF IInv
  <1>3. CASE InitAgain
    BY <1>3, RunningFacts, QuietStep DEF InitAgain, schedVars, PC
  <1>4. ASSUME NEW c \in Procs, InitStart(c) PROVE IInv'
    BY <1>4, ForkStep DEF InitStart
  <1>5. ASSUME NEW p \in Procs, NEW q \in Procs, Reap(p, q) PROVE IInv'
    BY <1>5, ReapStep
  <1>6. ASSUME NEW p \in Procs, WaitSleeps(p) PROVE IInv'
    BY <1>6, SleepStep DEF WaitSleeps
  <1>7. ASSUME NEW p \in Procs, Running(p), pc[p] \in {"user", "waited", "trapret"},
               DoExit(p)
        PROVE  IInv'
    <2>1. CASE Exit(p)
      BY <1>7, <2>1, ExitStep
    <2>2. CASE Panic(p)
      BY <1>7, <2>2, RunningFacts, QuietStep DEF Panic, schedVars, PC
    <2> QED
      BY <1>7, <2>1, <2>2 DEF DoExit
  <1>8. ASSUME NEW p \in Procs, Waited(p) PROVE IInv'
    <2>1. CASE KilledInWait(p) /\ DoExit(p)
      BY <1>7, <1>8, <2>1 DEF Waited
    <2>2. CASE pc' = [pc EXCEPT ![p] = "wait"]
               /\ UNCHANGED <<schedVars, parent, exiting, waitPid, timers, nrProcess>>
      BY <1>8, <2>2, RunningFacts, QuietStep DEF Waited, schedVars, PC
    <2> QED
      BY <1>8, <2>1, <2>2 DEF Waited
  <1>9. ASSUME NEW p \in Procs, WaitFails(p) PROVE IInv'
    <2> DEFINE x == IF p = init THEN "done" ELSE "trapret"
    <2>1. x \in PC \ {"none", "exited"}
      BY DEF PC
    <2>2. /\ Running(p) /\ pc[p] = "wait"
          /\ pc' = [pc EXCEPT ![p] = x]
          /\ waitPid' = [waitPid EXCEPT ![p] = AnyChild]
          /\ UNCHANGED <<schedVars, parent, exiting, timers, nrProcess>>
      BY <1>9 DEF WaitFails
    <2> HIDE DEF x
    <2> QED
      BY <2>1, <2>2, RunningFacts, QuietStep DEF schedVars
  <1>10. ASSUME NEW p \in Procs, Slept(p) PROVE IInv'
    BY <1>10, RunningFacts, QuietStep DEF Slept, TimerDeleted, schedVars, PC
  <1>11. ASSUME NEW p \in Procs, TrapReturn(p) PROVE IInv'
    <2>1. CASE exiting[p] /\ DoExit(p)
      BY <1>7, <1>11, <2>1 DEF TrapReturn
    <2>2. CASE ~(exiting[p] /\ DoExit(p))
      BY <1>11, <2>2, RunningFacts, QuietStep DEF TrapReturn, PC
    <2> QED
      BY <2>1, <2>2
  <1> QED
    BY <1>1, <1>2, <1>3, <1>4, <1>5, <1>6, <1>8, <1>9, <1>10, <1>11 DEF KernelStep

\* A system call preserves IInv.
LEMMA UserStepIInv == IInv /\ UserStep => IInv'
  <1> SUFFICES ASSUME IInv, NEW p \in Procs,
                      \/ \E c \in Procs : Fork(p, c)
                      \/ CallReturns(p)
                      \/ SysExit(p)
                      \/ \E pid \in Procs \cup {AnyChild} : SysWait(p, pid)
                      \/ \E t \in Procs : Kill(p, t)
                      \/ Yield(p)
                      \/ Sleep(p)
               PROVE  IInv'
    BY DEF UserStep
  <1>1. ASSUME NEW c \in Procs, Fork(p, c) PROVE IInv'
    BY <1>1, ForkStep DEF Fork
  <1>2. CASE CallReturns(p)
    BY <1>2, RunningFacts, QuietStep DEF CallReturns, schedVars, PC
  <1>3. CASE SysExit(p)
    <2>1. CASE Exit(p)
      BY <1>3, <2>1, ExitStep DEF SysExit
    <2>2. CASE Panic(p)
      BY <1>3, <2>2, RunningFacts, QuietStep DEF SysExit, Panic, schedVars, PC
    <2> QED
      BY <1>3, <2>1, <2>2 DEF SysExit, DoExit
  <1>4. ASSUME NEW pid \in Procs \cup {AnyChild}, SysWait(p, pid) PROVE IInv'
    BY <1>4, RunningFacts, QuietStep DEF SysWait, schedVars, PC
  <1>5. ASSUME NEW t \in Procs, Kill(p, t) PROVE IInv'
    <2>1. KillWakes(t) \subseteq Threads
      BY DEF KillWakes, Threads
    <2>2. \A s \in KillWakes(t) : state[s] \in {"SLEEPING", "RUNNABLE"}
      BY DEF KillWakes, Interruptible, IInv, SchedInv, SleepHasReason, Threads
    <2>3. /\ state' = WokenState(state, KillWakes(t))
          /\ waitState' = WokenWait(waitState, state, KillWakes(t))
          /\ rq' = WokenQueue(rq, state, KillWakes(t))
          /\ UNCHANGED <<current, inSched, needResched, parent, waitPid, timers, nrProcess>>
          /\ exiting' = [exiting EXCEPT ![t] = TRUE]
          /\ Running(p) /\ pc[p] = "user" /\ pc' = [pc EXCEPT ![p] = "trapret"]
      BY <1>5 DEF Kill
    <2>4. needResched' \in [Threads -> BOOLEAN] /\ exiting' \in [Procs -> BOOLEAN]
      BY <2>3, RunningFacts
    <2> QED
      BY <2>1, <2>2, <2>3, <2>4, WakingStep
  <1>6. CASE Yield(p)
    <2>1. needResched' \in [Threads -> BOOLEAN]
      BY <1>6, RunningFacts DEF Yield
    <2> QED
      BY <1>6, <2>1, RunningFacts, QuietStep DEF Yield, PC
  <1>7. CASE Sleep(p)
    BY <1>7, SleepStep DEF Sleep
  <1> QED
    BY <1>1, <1>2, <1>3, <1>4, <1>5, <1>6, <1>7

\* A clock interrupt preserves IInv.
LEMMA InterruptIInv == IInv /\ Interrupt => IInv'
  <1> SUFFICES ASSUME IInv, NEW due \in SUBSET timers, NEW sliceEnds \in BOOLEAN,
                      Tick(due, sliceEnds)
               PROVE  IInv'
    BY DEF Interrupt
  <1> USE InitAssumption, IdleAssumption
  <1>1. due \subseteq Threads /\ \A s \in due : state[s] \in {"SLEEPING", "RUNNABLE"}
    <2>1. \A s \in due : s \in Procs /\ pc[s] = "slept"
      BY DEF IInv, TypeOK, TimerOfSleeper
    <2>2. \A s \in due : state[s] \in PState \ {"UNUSED", "UNINIT", "ZOMBIE"}
      BY <2>1 DEF IInv, Control, ControlAt, TypeOK, SchedTypeOK, Threads
    <2> QED
      BY <2>1, <2>2 DEF PState, Threads
  <1>2. needResched' \in [Threads -> BOOLEAN]
    BY DEF Tick, ProcTick, IInv, TypeOK, SchedTypeOK
  <1>3. pc' = pc \/ \E p \in Procs : pc[p] = "user" /\ pc' = [pc EXCEPT ![p] = "trapret"]
    BY DEF Tick, InterruptsOn, IInv, TypeOK, SchedTypeOK, Threads
  <1>4. /\ state' = WokenState(state, due)
        /\ waitState' = WokenWait(waitState, state, due)
        /\ rq' = WokenQueue(rq, state, due)
        /\ UNCHANGED <<current, inSched, parent, waitPid, nrProcess>>
        /\ timers' \subseteq timers
        /\ exiting' \in [Procs -> BOOLEAN]
    BY DEF Tick, IInv, TypeOK
  <1> QED
    BY <1>1, <1>2, <1>3, <1>4, WakingStep

\* IInv is inductive.
LEMMA InductiveStep == IInv /\ [Next]_vars => IInv'
  <1>1. ASSUME IInv, UNCHANGED vars PROVE IInv'
    <2>1. TypeOK' /\ SchedInv' /\ Control' /\ TimerOfSleeper'
      BY <1>1 DEF IInv, TypeOK, SchedTypeOK, SchedInv, SleepHasReason, RunQueueExact,
                  CurrentCanRun, Control, ControlAt, TimerOfSleeper,
                  vars, schedVars, procVars
    <2>2. FamilyInv' /\ NrProcessExact'
      BY <1>1, FamilyFrame DEF IInv, vars, schedVars, procVars
    <2> QED
      BY <2>1, <2>2 DEF IInv
  <1> QED
    BY <1>1, KernelStepIInv, UserStepIInv, InterruptIInv DEF Next, Stopped

-----------------------------------------------------------------------------
\* IInv holds in every reachable state, for any number of processes.
THEOREM Inductive == Spec => []IInv
  BY InitIInv, InductiveStep, PTL DEF Spec

\* Every variable keeps its type; in particular nr_process never goes below 0.
THEOREM TypeCorrect == Spec => []TypeOK
  BY Inductive, PTL DEF IInv

\* The run queue holds each runnable process that waits for the CPU exactly
\* once, and nothing else.
THEOREM RunQueueCorrect == Spec => []RunQueueExact
  <1>1. IInv => RunQueueExact
    BY DEF IInv, SchedInv
  <1> QED
    BY <1>1, Inductive, PTL

\* state and wait_state always agree on who sleeps.
THEOREM SleepCorrect == Spec => []SleepHasReason
  <1>1. IInv => SleepHasReason
    BY DEF IInv, SchedInv
  <1> QED
    BY <1>1, Inductive, PTL

\* schedule() never gives the CPU to a process that cannot run.
THEOREM CurrentCorrect == Spec => []CurrentCanRun
  <1>1. IInv => CurrentCanRun
    BY DEF IInv, SchedInv
  <1> QED
    BY <1>1, Inductive, PTL

\* Neither wakeup_proc, nor a timer, nor the run queue can reach a zombie.
THEOREM ZombieIsInert == Spec => []ZombieInert
  <1>1. IInv => ZombieInert
    <2> SUFFICES ASSUME IInv, NEW p \in Procs, state[p] = "ZOMBIE"
                 PROVE  /\ waitState[p] = "NONE" /\ p \notin timers /\ rq[p] = 0
                        /\ current = p => inSched
      BY DEF ZombieInert
    <2>1. p \in Threads /\ pc[p] = "exited"
      BY DEF IInv, Control, ControlAt, Threads
    <2>2. waitState[p] = "NONE" /\ rq[p] = 0
      BY <2>1 DEF IInv, SchedInv, SleepHasReason, RunQueueExact
    <2>3. p \notin timers /\ (current = p => inSched)
      BY <2>1 DEF IInv, TimerOfSleeper, SchedInv, CurrentCanRun
    <2> QED
      BY <2>2, <2>3
  <1> QED
    BY <1>1, Inductive, PTL

\* timer_list holds timers of processes inside do_sleep only.
THEOREM TimersCorrect == Spec => []TimerOfSleeper
  <1>1. IInv => TimerOfSleeper
    BY DEF IInv
  <1> QED
    BY <1>1, Inductive, PTL

\* do_exit leaves no process with a parent that has exited.
THEOREM ParentsLive == Spec => []ParentAlive
  <1>1. IInv => ParentAlive
    BY FamilyMeaning DEF IInv
  <1> QED
    BY <1>1, Inductive, PTL

\* do_exit and do_wait lose no wakeup.
THEOREM NoLostWakeup == Spec => []NoMissedChild
  <1>1. IInv => NoMissedChild
    BY FamilyMeaning DEF IInv
  <1> QED
    BY <1>1, Inductive, PTL

\* nr_process counts the processes exactly.
THEOREM CountCorrect == Spec => []NrProcessExact
  <1>1. IInv => NrProcessExact
    BY DEF IInv
  <1> QED
    BY <1>1, Inductive, PTL

\* A zombie is freed by its own parent in do_wait, and by nobody else.
THEOREM ReapedByParentOnly == Spec => ReapedByParent
  <1> DEFINE Reaped(p) ==
               state[p] = "ZOMBIE" /\ state'[p] # "ZOMBIE" =>
                   state'[p] = "UNUSED" /\ Running(parent[p]) /\ pc[parent[p]] = "wait"
  <1> USE InitAssumption, IdleAssumption
  <1>1. ASSUME IInv, Next PROVE \A p \in Procs : Reaped(p)
    <2> SUFFICES ASSUME NEW p \in Procs, state[p] = "ZOMBIE" PROVE Reaped(p)
      OBVIOUS
    <2>1. /\ p \in Threads /\ waitState[p] = "NONE" /\ p \notin timers
          /\ pc[p] = "exited" /\ (current = p => inSched)
          /\ state \in [Threads -> PState]
      BY <1>1 DEF IInv, Control, ControlAt, TimerOfSleeper, SchedInv, CurrentCanRun,
                  SleepHasReason, Threads, TypeOK, SchedTypeOK
    <2>2. ASSUME state' = state PROVE Reaped(p)
      BY <2>2
    <2>3. ASSUME NEW S, p \notin S, state' = WokenState(state, S) PROVE Reaped(p)
      BY <2>1, <2>3 DEF WokenState
    <2>4. ASSUME NEW r \in Procs, Running(r), DoExit(r) PROVE Reaped(p)
      <3>1. CASE Exit(r)
        <4> DEFINE st == [state EXCEPT ![r] = "ZOMBIE"]
                   wake == {q \in Notified(r) : waitState[q] = "CHILD"}
        <4>1. p \notin wake /\ state' = WokenState(st, wake)
          BY <2>1, <3>1 DEF Exit
        <4>2. state'[p] = st[p]
          BY <2>1, <4>1 DEF WokenState
        <4> QED
          BY <2>1, <2>4, <4>2
      <3>2. CASE Panic(r)
        BY <2>2, <3>2 DEF Panic, schedVars
      <3> QED
        BY <2>4, <3>1, <3>2 DEF DoExit
    <2>5. ASSUME NEW r \in Procs, NEW c \in Procs, Running(r), DoFork(r, c)
          PROVE  Reaped(p)
      <3>1. p # c
        BY <2>5 DEF DoFork
      <3> QED
        BY <2>1, <2>5, <3>1 DEF DoFork, WokenState
    <2>6. ASSUME NEW r \in Procs, NEW q \in Procs, Reap(r, q) PROVE Reaped(p)
      <3>1. state' = [state EXCEPT ![q] = "UNUSED"] /\ parent[q] = r
            /\ Running(r) /\ pc[r] = "wait"
        BY <2>6 DEF Reap, Reapable, Awaited, Children
      <3> QED
        BY <2>1, <3>1
    <2>7. CASE KernelStep
      <3>1. CASE Switch \/ Idle \/ InitAgain
        BY <2>2, <3>1 DEF Switch, Schedule, Idle, CpuIdle, InitAgain, schedVars
      <3>2. ASSUME NEW c \in Procs, InitStart(c) PROVE Reaped(p)
        BY <2>5, <3>2 DEF InitStart
      <3>3. ASSUME NEW r \in Procs, WaitSleeps(r) PROVE Reaped(p)
        BY <2>1, <3>3 DEF WaitSleeps, Running
      <3>4. ASSUME NEW r \in Procs, Waited(r) PROVE Reaped(p)
        BY <2>2, <2>4, <3>4 DEF Waited, schedVars
      <3>5. ASSUME NEW r \in Procs, WaitFails(r) \/ Slept(r) PROVE Reaped(p)
        BY <2>2, <3>5 DEF WaitFails, Slept, schedVars
      <3>6. ASSUME NEW r \in Procs, TrapReturn(r) PROVE Reaped(p)
        BY <2>2, <2>4, <3>6 DEF TrapReturn
      <3> QED
        BY <2>6, <2>7, <3>1, <3>2, <3>3, <3>4, <3>5, <3>6 DEF KernelStep
    <2>8. CASE UserStep
      <3>1. ASSUME NEW r \in Procs, NEW c \in Procs, Fork(r, c) PROVE Reaped(p)
        BY <2>5, <3>1 DEF Fork
      <3>2. ASSUME NEW r \in Procs, SysExit(r) PROVE Reaped(p)
        BY <2>4, <3>2 DEF SysExit
      <3>3. ASSUME NEW r \in Procs, NEW t \in Procs, Kill(r, t) PROVE Reaped(p)
        <4>1. p \notin KillWakes(t)
          BY <2>1 DEF KillWakes, Interruptible
        <4> QED
          BY <2>3, <3>3, <4>1 DEF Kill
      <3>4. ASSUME NEW r \in Procs, Sleep(r) PROVE Reaped(p)
        BY <2>1, <3>4 DEF Sleep, Running
      <3>5. ASSUME NEW r \in Procs,
                   CallReturns(r) \/ Yield(r) \/ \E pid \in Procs \cup {AnyChild} : SysWait(r, pid)
            PROVE  Reaped(p)
        BY <2>2, <3>5 DEF CallReturns, Yield, SysWait, schedVars
      <3> QED
        BY <2>8, <3>1, <3>2, <3>3, <3>4, <3>5 DEF UserStep
    <2>9. CASE Interrupt
      <3>1. PICK due \in SUBSET timers, sliceEnds \in BOOLEAN : Tick(due, sliceEnds)
        BY <2>9 DEF Interrupt
      <3> QED
        BY <2>1, <2>3, <3>1 DEF Tick
    <2>10. CASE Stopped
      BY <2>2, <2>10 DEF Stopped, vars, schedVars
    <2> QED
      BY <1>1, <2>7, <2>8, <2>9, <2>10 DEF Next
  <1>2. IInv /\ [Next]_vars => [\A p \in Procs : Reaped(p)]_vars
    BY <1>1
  <1> QED
    BY <1>2, Inductive, PTL DEF Spec, ReapedByParent

-----------------------------------------------------------------------------
(* init_main ends only when it is alone *)

\* init runs init_main and nothing else, and always waits for any child.
InitOnly ==
    /\ pc[init] \in {"start", "wait", "waited", "again", "done", "panic"}
    /\ waitPid[init] = AnyChild

\* The processes are a tree with init at its root: any set of others holds one
\* whose parent is outside.
Rooted ==
    \A S \in SUBSET (Live \ {init}) : S # {} => \E q \in S : parent[q] \notin S

\* What makes InitEndsAlone inductive, together with IInv.
EndInv == InitOnly /\ Rooted /\ InitEndsAlone

\* A step that creates no process and gives children to init alone keeps the
\* tree.
LEMMA RootedFrame ==
    ASSUME Rooted, Live' \subseteq Live,
           \A q \in Live' \ {init} : parent'[q] \in {parent[q], init}
    PROVE  Rooted'
  <1> SUFFICES ASSUME NEW S \in SUBSET (Live' \ {init}), S # {}
               PROVE  \E q \in S : parent'[q] \notin S
    BY DEF Rooted
  <1>1. S \in SUBSET (Live \ {init}) /\ init \notin S
    OBVIOUS
  <1>2. PICK q \in S : parent[q] \notin S
    BY <1>1 DEF Rooted
  <1>3. parent'[q] \in {parent[q], init}
    OBVIOUS
  <1> QED
    BY <1>1, <1>2, <1>3

\* do_fork adds a leaf to the tree: nobody is the child of a free proc_struct.
LEMMA RootedFork ==
    ASSUME IInv, Rooted, NEW p \in Procs, NEW c \in Procs, Running(p), DoFork(p, c)
    PROVE  Rooted'
  <1>1. /\ state[c] = "UNUSED" /\ parent' = [parent EXCEPT ![c] = p]
        /\ state' = WokenState([state EXCEPT ![c] = "UNINIT"], {c})
    BY DEF DoFork
  <1>2. state \in [Threads -> PState] /\ parent \in [Procs -> Threads] /\ p # c
    BY <1>1 DEF IInv, TypeOK, SchedTypeOK, SchedInv, CurrentCanRun, Running
  <1>3. \A q \in Live' : q = c \/ (q \in Live /\ parent'[q] = parent[q])
    BY <1>1, <1>2 DEF Live, WokenState, Threads
  <1>4. \A q \in Live \ {init} : parent[q] # c
    BY <1>1 DEF IInv, FamilyInv, Live
  <1>5. parent'[c] = p
    BY <1>1, <1>2
  <1> SUFFICES ASSUME NEW S \in SUBSET (Live' \ {init}), S # {}
               PROVE  \E q \in S : parent'[q] \notin S
    BY DEF Rooted
  <1>6. CASE S = {c}
    BY <1>2, <1>5, <1>6
  <1>7. CASE S # {c}
    <2>1. S \ {c} # {} /\ S \ {c} \in SUBSET (Live \ {init})
      BY <1>3, <1>7
    <2>2. PICK q \in S \ {c} : parent[q] \notin S \ {c}
      BY <2>1 DEF Rooted
    <2> QED
      BY <1>3, <1>4, <2>1, <2>2
  <1> QED
    BY <1>6, <1>7

\* init stays in init_main, and leaves it only when do_wait finds no child.
LEMMA InitStays ==
    ASSUME IInv, InitOnly, ~Halted, KernelStep \/ UserStep \/ Interrupt
    PROVE  InitOnly' /\ (pc'[init] = "done" => WaitFails(init))
  <1> USE InitAssumption, IdleAssumption
  <1> DEFINE Goal == InitOnly' /\ (pc'[init] = "done" => WaitFails(init))
  <1>1. /\ pc \in [Threads -> PC] /\ waitPid \in [Procs -> Procs \cup {AnyChild}]
        /\ init \in Threads /\ idle # init /\ Procs \subseteq Threads
        /\ pc[init] \in {"start", "wait", "waited", "again"} /\ waitPid[init] = AnyChild
        /\ state[init] \notin {"UNUSED", "ZOMBIE"}
    BY DEF IInv, TypeOK, Threads, InitOnly, Halted, Control, ControlAt
  <1>2. ASSUME pc'[init] = pc[init], waitPid'[init] = AnyChild PROVE Goal
    BY <1>1, <1>2 DEF InitOnly
  <1>3. ASSUME NEW p \in Procs, DoExit(p) PROVE Goal
    <2>1. CASE Exit(p)
      BY <1>1, <1>2, <2>1 DEF Exit
    <2>2. CASE Panic(p)
      BY <1>1, <2>2 DEF Panic, InitOnly
    <2> QED
      BY <1>3, <2>1, <2>2 DEF DoExit
  <1>4. CASE KernelStep
    <2>1. CASE Switch \/ Idle \/ InitAgain
      BY <1>1, <1>2, <2>1 DEF Switch, Idle, InitAgain, procVars, InitOnly
    <2>2. ASSUME NEW c \in Procs, InitStart(c) PROVE Goal
      BY <1>1, <2>2 DEF InitStart, DoFork, InitOnly
    <2>3. ASSUME NEW p \in Procs, NEW q \in Procs, Reap(p, q) PROVE Goal
      <3>1. q # init
        BY <1>1, <2>3 DEF Reap, Reapable
      <3> QED
        BY <1>1, <2>3, <3>1 DEF Reap, InitOnly
    <2>4. ASSUME NEW p \in Procs, WaitSleeps(p) PROVE Goal
      BY <1>1, <2>4 DEF WaitSleeps, InitOnly
    <2>5. ASSUME NEW p \in Procs, Waited(p) PROVE Goal
      BY <1>1, <1>3, <2>5 DEF Waited, InitOnly
    <2>6. ASSUME NEW p \in Procs, WaitFails(p) PROVE Goal
      BY <1>1, <2>6 DEF WaitFails, InitOnly
    <2>7. ASSUME NEW p \in Procs, Slept(p) \/ TrapReturn(p) PROVE Goal
      <3>1. p # init
        BY <1>1, <2>7 DEF Slept, TrapReturn
      <3> QED
        BY <1>1, <1>2, <1>3, <2>7, <3>1 DEF Slept, TrapReturn
    <2> QED
      BY <1>4, <2>1, <2>2, <2>3, <2>4, <2>5, <2>6, <2>7 DEF KernelStep
  <1>5. CASE UserStep
    <2>1. ASSUME NEW p \in Procs, NEW c \in Procs, Fork(p, c) PROVE Goal
      <3>1. p # init /\ c # init
        BY <1>1, <2>1 DEF Fork, DoFork
      <3> QED
        BY <1>1, <1>2, <2>1, <3>1 DEF Fork, DoFork
    <2>2. ASSUME NEW p \in Procs, SysExit(p) PROVE Goal
      BY <1>3, <2>2 DEF SysExit
    <2>3. ASSUME NEW p \in Procs,
                 \/ CallReturns(p) \/ Yield(p) \/ Sleep(p)
                 \/ \E pid \in Procs \cup {AnyChild} : SysWait(p, pid)
                 \/ \E t \in Procs : Kill(p, t)
          PROVE  Goal
      <3>1. p # init
        BY <1>1, <2>3 DEF CallReturns, Yield, Sleep, SysWait, Kill
      <3>2. pc'[init] = pc[init] /\ waitPid'[init] = AnyChild
        BY <1>1, <2>3, <3>1 DEF CallReturns, Yield, Sleep, SysWait, Kill
      <3> QED
        BY <1>2, <3>2
    <2> QED
      BY <1>5, <2>1, <2>2, <2>3 DEF UserStep
  <1>6. CASE Interrupt
    BY <1>1, <1>2, <1>6 DEF Interrupt, Tick
  <1> QED
    BY <1>4, <1>5, <1>6

\* Every step keeps the tree.
LEMMA TreeStays ==
    ASSUME IInv, InitOnly, Rooted, KernelStep \/ UserStep \/ Interrupt
    PROVE  Rooted'
  <1> USE InitAssumption, IdleAssumption
  <1>1. /\ state \in [Threads -> PState] /\ parent \in [Procs -> Threads]
        /\ Procs \subseteq Threads
    BY DEF IInv, TypeOK, SchedTypeOK, Threads
  <1>2. ASSUME state' = state, parent' = parent PROVE Rooted'
    BY <1>2, RootedFrame DEF Live
  <1>3. ASSUME NEW S, \A q \in S : state[q] # "UNUSED", state' = WokenState(state, S),
               parent' = parent
        PROVE  Rooted'
    <2>1. Live' \subseteq Live
      BY <1>1, <1>3 DEF Live, WokenState
    <2> QED
      BY <1>3, <2>1, RootedFrame
  <1>4. ASSUME NEW p \in Procs, Running(p), DoExit(p) PROVE Rooted'
    <2>1. CASE Exit(p)
      <3> DEFINE st == [state EXCEPT ![p] = "ZOMBIE"]
                 wake == {q \in Notified(p) : waitState[q] = "CHILD"}
      <3>1. state' = WokenState(st, wake) /\ parent' = Reparented(p)
        BY <2>1 DEF Exit
      <3>2. state[p] # "UNUSED" /\ \A q \in Procs : q \in wake => state[q] # "UNUSED"
        BY <1>1, <1>4 DEF IInv, SchedInv, CurrentCanRun, SleepHasReason, Running
      <3>3. \A q \in Procs : state[q] = "UNUSED" => state'[q] = "UNUSED"
        <4> HIDE DEF wake
        <4> QED
          BY <1>1, <3>1, <3>2 DEF WokenState
      <3>4. \A q \in Procs : parent'[q] \in {parent[q], init}
        BY <3>1 DEF Reparented
      <3> QED
        BY <3>3, <3>4, RootedFrame DEF Live
    <2>2. CASE Panic(p)
      BY <1>2, <2>2 DEF Panic, schedVars
    <2> QED
      BY <1>4, <2>1, <2>2 DEF DoExit
  <1>5. ASSUME NEW p \in Procs, NEW q \in Procs, Reap(p, q) PROVE Rooted'
    <2>1. state' = [state EXCEPT ![q] = "UNUSED"] /\ parent' = [parent EXCEPT ![q] = idle]
      BY <1>5 DEF Reap
    <2>2. Live' = Live \ {q}
      BY <1>1, <2>1 DEF Live
    <2>3. \A r \in Live' : parent'[r] = parent[r]
      BY <1>1, <2>1, <2>2 DEF Live
    <2> QED
      BY <2>2, <2>3, RootedFrame
  <1>6. ASSUME NEW p \in Procs, Running(p), state' = [state EXCEPT ![p] = "SLEEPING"],
               parent' = parent
        PROVE  Rooted'
    <2>1. state[p] # "UNUSED"
      BY <1>1, <1>6 DEF IInv, SchedInv, CurrentCanRun, Running
    <2>2. Live' = Live
      BY <1>1, <1>6, <2>1 DEF Live
    <2> QED
      BY <1>6, <2>2, RootedFrame
  <1>7. CASE KernelStep
    <2>1. CASE Switch \/ Idle \/ InitAgain
      BY <1>2, <2>1 DEF Switch, Schedule, Idle, CpuIdle, InitAgain, schedVars, procVars
    <2>2. ASSUME NEW c \in Procs, InitStart(c) PROVE Rooted'
      BY <2>2, RootedFork DEF InitStart
    <2>3. ASSUME NEW p \in Procs, WaitSleeps(p) PROVE Rooted'
      BY <1>6, <2>3 DEF WaitSleeps
    <2>4. ASSUME NEW p \in Procs, Waited(p) \/ TrapReturn(p) PROVE Rooted'
      BY <1>2, <1>4, <2>4 DEF Waited, TrapReturn, schedVars
    <2>5. ASSUME NEW p \in Procs, WaitFails(p) \/ Slept(p) PROVE Rooted'
      BY <1>2, <2>5 DEF WaitFails, Slept, schedVars
    <2> QED
      BY <1>5, <1>7, <2>1, <2>2, <2>3, <2>4, <2>5 DEF KernelStep
  <1>8. CASE UserStep
    <2>1. ASSUME NEW p \in Procs, NEW c \in Procs, Fork(p, c) PROVE Rooted'
      BY <2>1, RootedFork DEF Fork
    <2>2. ASSUME NEW p \in Procs, SysExit(p) PROVE Rooted'
      BY <1>4, <2>2 DEF SysExit
    <2>3. ASSUME NEW p \in Procs, NEW t \in Procs, Kill(p, t) PROVE Rooted'
      <3>1. \A q \in KillWakes(t) : state[q] # "UNUSED"
        BY <2>3 DEF Kill, KillWakes, Live
      <3> QED
        BY <1>3, <2>3, <3>1 DEF Kill
    <2>4. ASSUME NEW p \in Procs, Sleep(p) PROVE Rooted'
      BY <1>6, <2>4 DEF Sleep
    <2>5. ASSUME NEW p \in Procs,
                 CallReturns(p) \/ Yield(p) \/ \E pid \in Procs \cup {AnyChild} : SysWait(p, pid)
          PROVE  Rooted'
      BY <1>2, <2>5 DEF CallReturns, Yield, SysWait, schedVars
    <2> QED
      BY <1>8, <2>1, <2>2, <2>3, <2>4, <2>5 DEF UserStep
  <1>9. CASE Interrupt
    <2>1. PICK due \in SUBSET timers, sliceEnds \in BOOLEAN : Tick(due, sliceEnds)
      BY <1>9 DEF Interrupt
    <2>2. \A q \in due : state[q] # "UNUSED"
      BY <2>1 DEF IInv, TypeOK, TimerOfSleeper, Control, ControlAt
    <2> QED
      BY <1>3, <2>1, <2>2 DEF Tick
  <1> QED
    BY <1>7, <1>8, <1>9

\* When do_wait of init finds no child, init is the only process: the parents
\* of all the others would be others too.
LEMMA AloneAtEnd ==
    ASSUME IInv, InitOnly, Rooted, WaitFails(init)
    PROVE  InitEndsAlone'
  <1> USE InitAssumption
  <1>1. Awaited(init) = {} /\ UNCHANGED <<state, nrProcess>>
    BY DEF WaitFails, schedVars
  <1>2. Live' = Live /\ init \in Live
    BY <1>1 DEF Live, IInv, Control, ControlAt
  <1>3. \A q \in Live : parent[q] # init
    BY <1>1 DEF Awaited, Children, InitOnly
  <1>4. Live \ {init} = {}
    <2> SUFFICES ASSUME Live \ {init} # {} PROVE FALSE
      OBVIOUS
    <2>1. PICK q \in Live \ {init} : parent[q] \notin Live \ {init}
      BY DEF Rooted
    <2>2. parent[q] \in Live
      BY DEF IInv, FamilyInv, Live
    <2> QED
      BY <1>3, <2>1, <2>2
  <1>5. Live = {init}
    BY <1>2, <1>4
  <1>6. nrProcess = 2
    <2>1. Cardinality({init}) = 1
      BY FS_Singleton
    <2> QED
      BY <1>5, <2>1 DEF IInv, NrProcessExact
  <1> QED
    BY <1>1, <1>2, <1>5, <1>6 DEF InitEndsAlone

\* The assertions at the end of init_main hold: when do_wait has failed, init
\* and idleproc are the only processes left.
THEOREM InitIsAlone == Spec => []InitEndsAlone
  <1> USE InitAssumption, IdleAssumption
  <1>1. Init => EndInv
    <2> SUFFICES ASSUME Init PROVE EndInv
      OBVIOUS
    <2>1. Live = {init}
      BY DEF Init, Live, Threads
    <2> QED
      BY <2>1 DEF Init, EndInv, InitOnly, Rooted, InitEndsAlone, Threads
  <1>2. IInv /\ EndInv /\ [Next]_vars => EndInv'
    <2> SUFFICES ASSUME IInv, EndInv, [Next]_vars PROVE EndInv'
      OBVIOUS
    <2>1. CASE UNCHANGED vars
      BY <2>1 DEF vars, schedVars, procVars, EndInv, InitOnly, Rooted, InitEndsAlone, Live
    <2>2. CASE ~Halted /\ (KernelStep \/ UserStep \/ Interrupt)
      <3>1. InitOnly' /\ (pc'[init] = "done" => WaitFails(init)) /\ Rooted'
        BY <2>2, InitStays, TreeStays DEF EndInv
      <3>2. InitEndsAlone'
        <4>1. CASE pc'[init] = "done"
          BY <3>1, <4>1, AloneAtEnd DEF EndInv
        <4>2. CASE pc'[init] # "done"
          BY <4>2 DEF InitEndsAlone
        <4> QED
          BY <4>1, <4>2
      <3> QED
        BY <3>1, <3>2 DEF EndInv
    <2> QED
      BY <2>1, <2>2 DEF Next, Stopped
  <1>3. EndInv => InitEndsAlone
    BY DEF EndInv
  <1> QED
    BY <1>1, <1>2, <1>3, Inductive, PTL DEF Spec
=============================================================================
