------------------------- MODULE PhilosophersProofs -------------------------
(***************************************************************************)
(* The dining philosophers of lab8 are safe for any number of them and of  *)
(* meals: neighbours never eat at the same time, nobody is left hungry,    *)
(* and the mutex keeps all but one out of the critical section.            *)
(***************************************************************************)
EXTENDS Philosophers, SemProofs

\* The semaphore a philosopher is inside down() for.
inDown == [i \in Procs |->
              IF pc[i] \in {"takeWait", "putWait"} THEN {mutex}
              ELSE IF pc[i] = "forkWait" THEN {i} ELSE {}]

\* A philosopher sleeps for a semaphore or for its timer, and in do_sleep then.
Sleeps ==
    \A i \in Procs :
        /\ waitState[i] \in {"NONE", "KSEM", "TIMER"}
        /\ waitState[i] = "TIMER" <=> i \in timers
        /\ i \in timers => pc[i] \in {"thinking", "eating"}

\* The mutex belongs to whoever is in the critical section, and before that to
\* whoever up() has handed it to.
Holds(i) ==
    \/ pc[i] \in Critical
    \/ pc[i] \in {"takeWait", "putWait"} /\ waitState[i] # "KSEM"

MutexExact ==
    /\ \A i, j \in Procs : Holds(i) /\ Holds(j) => i = j
    /\ value[mutex] > 0 => value[mutex] = 1 /\ \A i \in Procs : ~Holds(i)

\* What a philosopher's step says of its state, its semaphore and its wait.
Idling == {"think", "thinking", "take", "takeWait", "hungry",
           "putRight", "putRelease", "quit", "exited"}
Asking == {"release", "fork", "forkWait"}
Dined  == {"eat", "eating", "put", "putWait", "putLeft"}

ForksExact ==
    \A i \in Procs :
        /\ pc[i] \in Idling => state_sema[i] = "THINKING" /\ value[i] = 0
        /\ pc[i] \in Dined => state_sema[i] = "EATING" /\ value[i] = 0
        /\ pc[i] \in Asking => state_sema[i] \in {"HUNGRY", "EATING"}
        /\ pc[i] \in {"release", "fork"} =>
               value[i] = IF state_sema[i] = "EATING" THEN 1 ELSE 0
        /\ pc[i] = "forkWait" =>
               value[i] = 0 /\ (state_sema[i] = "HUNGRY" <=> waitState[i] = "KSEM")

\* st says that neighbours do not eat at the same time.
Apart(st) ==
    \A i \in Procs : st[i] = "EATING" => st[Left(i)] # "EATING" /\ st[Right(i)] # "EATING"

\* Philosopher i is not left hungry in st: a neighbour eats, or is about to
\* test i.
Served(st, at, i) ==
    st[i] = "HUNGRY" =>
        \/ st[Left(i)] = "EATING"
        \/ st[Right(i)] = "EATING"
        \/ \E j \in Procs : at[j] = "putRight" /\ i = Right(j)

MealsLeft == \A i \in Procs : pc[i] \notin {"quit", "exited"} => iter[i] < TIMES

Inv ==
    /\ TypeOK
    /\ SchedExact
    /\ Waits(inDown)
    /\ Sleeps
    /\ MutexExact
    /\ ForksExact
    /\ Apart(state_sema)
    /\ \A i \in Procs : Served(state_sema, pc, i)
    /\ MealsLeft
-----------------------------------------------------------------------------
(* The seats around the table, and steps of one philosopher. *)

\* Everybody has a neighbour on each side, who has him on the other.
LEMMA Seats ==
    \A i \in Procs :
        /\ Left(i) \in Procs /\ Right(i) \in Procs
        /\ Left(i) # i /\ Right(i) # i
        /\ Left(Right(i)) = i /\ Right(Left(i)) = i
  <1>1. \A i \in 0 .. N - 1 : (i + N - 1) % N = IF i = 0 THEN N - 1 ELSE i - 1
    BY PhilAssumption
  <1>2. \A i \in 0 .. N - 1 : (i + 1) % N = IF i = N - 1 THEN 0 ELSE i + 1
    BY PhilAssumption
  <1> QED
    BY <1>1, <1>2, PhilAssumption DEF Left, Right

\* The philosopher that owns the CPU is awake.
LEMMA AtIsAwake ==
    ASSUME Inv, NEW i \in Procs, NEW l, At(i, l)
    PROVE  /\ Running(i) /\ pc[i] = l /\ i \in Threads /\ i \in Sems
           /\ waitState[i] = "NONE" /\ i \notin timers
  BY PhilAssumption
  DEF Inv, At, SchedExact, CurrentCanRun, SleepHasReason, Running, Sleeps, Threads

\* A step of i to another place changes nothing of what the others wait for.
LEMMA GotoDown ==
    ASSUME Inv, NEW i \in Procs, NEW l, Goto(i, l)
    PROVE  /\ inDown \in [Procs -> SUBSET Sems]
           /\ inDown' = [inDown EXCEPT ![i] =
                             IF l \in {"takeWait", "putWait"} THEN {mutex}
                             ELSE IF l = "forkWait" THEN {i} ELSE {}]
           /\ l \notin {"takeWait", "putWait", "forkWait"} =>
                  inDown' = [inDown EXCEPT ![i] = {}]
           /\ pc[i] \notin {"takeWait", "putWait", "forkWait"} => inDown[i] = {}
  BY PhilAssumption DEF Inv, TypeOK, Goto, inDown

-----------------------------------------------------------------------------
(* Inv is inductive *)

\* The philosophers start thinking, the mutex free and the forks' semaphores at
\* zero.
LEMMA InitInv == Init => Inv
  <1> SUFFICES ASSUME Init PROVE Inv
    OBVIOUS
  <1>1. SchedTypeOK
    BY DEF Init, SchedTypeOK, Threads, PState, WState
  <1>2. SchedExact
    BY <1>1 DEF Init, SchedExact, RunQueueExact, SleepHasReason, CurrentCanRun, Threads
  <1>3. TypeOK
    BY <1>1, PhilAssumption DEF Init, TypeOK, SemInit, SemTypeOK, PC
  <1>4. Waits(inDown)
    BY DEF Init, SemInit, Waits, WaitsExact, Contains, IsInjective, Threads, inDown
  <1>5. Sleeps /\ MealsLeft
    BY PhilAssumption DEF Init, Sleeps, MealsLeft, Threads
  <1>6. MutexExact
    BY PhilAssumption DEF Init, MutexExact, Holds, Critical, SemInit
  <1>7. ForksExact
    BY PhilAssumption DEF Init, ForksExact, Idling, Asking, Dined, SemInit
  <1>8. Apart(state_sema) /\ \A i \in Procs : Served(state_sema, pc, i)
    BY DEF Init, Apart, Served
  <1> QED
    BY <1>2, <1>3, <1>4, <1>5, <1>6, <1>7, <1>8 DEF Inv

\* do_sleep puts its caller to sleep with a timer.
LEMMA DoSleepInv ==
    ASSUME Inv, NEW i \in Procs, DoSleep(i)
    PROVE  Inv'
  <1> PICK l \in {"think", "eat"} :
          At(i, l) /\ Goto(i, IF l = "think" THEN "thinking" ELSE "eating")
    BY DEF DoSleep
  <1> DEFINE l2 == IF l = "think" THEN "thinking" ELSE "eating"
  <1>1. /\ Running(i) /\ pc[i] = l /\ i \in Threads /\ waitState[i] = "NONE"
        /\ pc' = [pc EXCEPT ![i] = l2]
    BY AtIsAwake DEF Goto
  <1>2. /\ waitState' = [waitState EXCEPT ![i] = "TIMER"] /\ timers' = timers \cup {i}
        /\ UNCHANGED <<value, queue, wakeupFlags, state_sema, iter>>
        /\ waitState \in [Threads -> WState] /\ pc \in [Procs -> PC]
    BY DEF DoSleep, semVars, Inv, TypeOK, SchedTypeOK
  <1>3. SchedExact'
    <2>1. "TIMER" \in WState
      BY DEF WState
    <2> QED
      BY <1>1, <2>1, StopKeeps DEF DoSleep, Inv
  <1>4. TypeOK'
    BY <1>1, <1>2, <1>3 DEF Inv, TypeOK, SchedExact, SemTypeOK, PC
  <1>5. Waits(inDown)'
    <2>1. inDown' = inDown /\ inDown[i] = {}
      BY <1>1, <1>2 DEF inDown
    <2> QED
      BY <1>1, <1>2, <2>1 DEF Inv, Waits, WaitsExact, Threads
  <1>6. Sleeps' /\ MealsLeft'
    BY <1>1, <1>2 DEF Inv, Sleeps, MealsLeft, Threads
  <1>7. MutexExact'
    BY <1>1, <1>2 DEF Inv, MutexExact, Holds, Critical, Threads
  <1>8. ForksExact'
    BY <1>1, <1>2 DEF Inv, ForksExact, Idling, Asking, Dined, Threads
  <1>9. Apart(state_sema)' /\ \A j \in Procs : Served(state_sema, pc, j)'
    BY <1>1, <1>2 DEF Inv, Apart, Served
  <1> QED
    BY <1>3, <1>4, <1>5, <1>6, <1>7, <1>8, <1>9 DEF Inv

\* The return from do_sleep finds the timer gone.
LEMMA SleptInv ==
    ASSUME Inv, NEW i \in Procs, Slept(i)
    PROVE  Inv'
  <1> PICK l \in {"thinking", "eating"} :
          At(i, l) /\ Goto(i, IF l = "thinking" THEN "take" ELSE "put")
    BY DEF Slept
  <1> DEFINE l2 == IF l = "thinking" THEN "take" ELSE "put"
  <1>1. /\ Running(i) /\ pc[i] = l /\ i \in Threads /\ waitState[i] = "NONE"
        /\ pc' = [pc EXCEPT ![i] = l2] /\ timers' = timers
    BY AtIsAwake DEF Goto, Slept
  <1>2. /\ UNCHANGED <<schedVars, waitState, value, queue, wakeupFlags, state_sema, iter>>
        /\ waitState \in [Threads -> WState] /\ pc \in [Procs -> PC]
    BY DEF Slept, semVars, schedVars, Inv, TypeOK, SchedTypeOK
  <1>3. SchedExact'
    BY <1>2, RestKeeps DEF Inv
  <1>4. TypeOK'
    BY <1>1, <1>2, <1>3 DEF Inv, TypeOK, SchedExact, SemTypeOK, PC
  <1>5. Waits(inDown)'
    <2>1. inDown' = inDown
      BY <1>1, <1>2 DEF inDown
    <2> QED
      BY <1>1, <1>2, <2>1 DEF Inv, Waits
  <1>6. Sleeps' /\ MealsLeft'
    BY <1>1, <1>2 DEF Inv, Sleeps, MealsLeft, Threads
  <1>7. MutexExact'
    BY <1>1, <1>2 DEF Inv, MutexExact, Holds, Critical, Threads
  <1>8. ForksExact'
    BY <1>1, <1>2 DEF Inv, ForksExact, Idling, Asking, Dined, Threads
  <1>9. Apart(state_sema)' /\ \A j \in Procs : Served(state_sema, pc, j)'
    BY <1>1, <1>2 DEF Inv, Apart, Served
  <1> QED
    BY <1>3, <1>4, <1>5, <1>6, <1>7, <1>8, <1>9 DEF Inv

\* down(&sem), in its three ways: the unit is there, the caller goes to sleep,
\* or it comes back with the unit.
LEMMA DownStep ==
    ASSUME Inv, NEW i \in Procs, NEW s \in Sems, NEW from, NEW wait, NEW next,
           from \notin {"takeWait", "putWait", "forkWait"},
           next \notin {"takeWait", "putWait", "forkWait"},
           \/ wait \in {"takeWait", "putWait"} /\ s = mutex
           \/ wait = "forkWait" /\ s = i,
           Down(i, s, from, wait, next)
    PROVE  /\ SchedExact' /\ SemTypeOK' /\ Waits(inDown)'
           /\ waitState[i] = "NONE" /\ i \notin timers /\ i \in Threads
           /\ \/ /\ pc[i] = from /\ pc' = [pc EXCEPT ![i] = next]
                 /\ value[s] > 0 /\ value' = [value EXCEPT ![s] = @ - 1]
                 /\ waitState' = waitState
              \/ /\ pc[i] = from /\ pc' = [pc EXCEPT ![i] = wait]
                 /\ value[s] = 0 /\ value' = value
                 /\ waitState' = [waitState EXCEPT ![i] = "KSEM"]
              \/ /\ pc[i] = wait /\ pc' = [pc EXCEPT ![i] = next]
                 /\ value' = value /\ waitState' = waitState
  <1>1. inDown \in [Procs -> SUBSET Sems] /\ SchedTypeOK /\ SemTypeOK /\ Waits(inDown)
    BY PhilAssumption DEF inDown, Inv, TypeOK
  <1>2. CASE At(i, from) /\ DownNow(s) /\ Goto(i, next)
    <2>1. Running(i) /\ pc[i] = from
      BY <1>2, AtIsAwake
    <2>2. inDown' = [inDown EXCEPT ![i] = {}] /\ inDown[i] = {}
      BY <1>2, <2>1, GotoDown
    <2>3. inDown' = inDown
      BY <1>1, <2>2
    <2>4. SemTypeOK' /\ Waits(inDown)'
      BY <1>1, <1>2, <2>3, DownNowKeeps DEF Waits, WaitsNext
    <2>5. SchedExact'
      BY <1>2, <2>1, DownSched DEF Inv
    <2> QED
      BY <1>2, <2>4, <2>5, AtIsAwake DEF DownNow, Free, Goto, schedVars
  <1>3. CASE At(i, from) /\ DownSleeps(i, s) /\ Goto(i, wait)
    <2>1. inDown' = [inDown EXCEPT ![i] = {s}] /\ inDown[i] = {} /\ Running(i) /\ pc[i] = from
      BY <1>3, GotoDown, AtIsAwake
    <2>2. SemTypeOK' /\ Waits(inDown)'
      BY <1>1, <1>3, <2>1, DownSleepsKeeps DEF Waits, WaitsNext
    <2>3. SchedExact'
      BY <1>3, <2>1, DownSched DEF Inv
    <2>4. value[s] = 0
      BY <1>1, <1>3 DEF DownSleeps, Free, SemTypeOK
    <2> QED
      BY <1>3, <2>2, <2>3, <2>4, AtIsAwake DEF DownSleeps, Goto
  <1>4. CASE At(i, wait) /\ Downed(i, s) /\ Goto(i, next)
    <2>1. inDown' = [inDown EXCEPT ![i] = {}] /\ Running(i) /\ waitState[i] = "NONE"
      BY <1>4, GotoDown, AtIsAwake
    <2>2. SemTypeOK' /\ Waits(inDown)'
      BY <1>1, <1>4, <2>1, DownedKeeps DEF Waits, WaitsNext
    <2>3. SchedExact'
      BY <1>4, <2>1, DownSched DEF Inv
    <2> QED
      BY <1>4, <2>2, <2>3, AtIsAwake DEF Downed, Goto, schedVars
  <1> QED
    BY <1>2, <1>3, <1>4 DEF Down

\* down(&mutex) makes its caller the one that holds the mutex, now or once up()
\* has handed it over.
LEMMA MutexDownInv ==
    ASSUME Inv, NEW i \in Procs, TakeMutex(i) \/ PutMutex(i)
    PROVE  Inv'
  <1> PICK l \in {"take", "put"} :
          IF l = "take" THEN TakeMutex(i) ELSE PutMutex(i)
    OBVIOUS
  <1> DEFINE wait == IF l = "take" THEN "takeWait" ELSE "putWait"
             next == IF l = "take" THEN "hungry" ELSE "putLeft"
  <1>0. Down(i, mutex, l, wait, next)
    BY DEF TakeMutex, PutMutex
  <1>1. /\ SchedExact' /\ SemTypeOK' /\ Waits(inDown)'
        /\ waitState[i] = "NONE" /\ i \notin timers /\ i \in Threads
        /\ \/ /\ pc[i] = l /\ pc' = [pc EXCEPT ![i] = next]
              /\ value[mutex] > 0 /\ value' = [value EXCEPT ![mutex] = @ - 1]
              /\ waitState' = waitState
           \/ /\ pc[i] = l /\ pc' = [pc EXCEPT ![i] = wait]
              /\ value[mutex] = 0 /\ value' = value
              /\ waitState' = [waitState EXCEPT ![i] = "KSEM"]
           \/ /\ pc[i] = wait /\ pc' = [pc EXCEPT ![i] = next]
              /\ value' = value /\ waitState' = waitState
    <2>1. mutex \in Sems
      BY PhilAssumption
    <2> QED
      BY <1>0, <2>1, DownStep
  <1>2. /\ UNCHANGED <<state_sema, iter, timers>>
        /\ value \in [Sems -> Nat] /\ mutex \in Sems /\ mutex \notin Procs
        /\ waitState \in [Threads -> WState] /\ pc \in [Procs -> PC]
        /\ Procs \subseteq Sems /\ Procs \subseteq Threads
    BY <1>0, PhilAssumption DEF Down, Inv, TypeOK, SchedTypeOK, SemTypeOK, Threads
  <1>4. TypeOK'
    BY <1>1, <1>2 DEF Inv, TypeOK, SchedExact, PC
  <1>6. Sleeps' /\ MealsLeft'
    BY <1>1, <1>2 DEF Inv, Sleeps, MealsLeft
  <1>7. MutexExact'
    BY <1>1, <1>2 DEF Inv, MutexExact, Holds, Critical
  <1>8. ForksExact'
    BY <1>1, <1>2 DEF Inv, ForksExact, Idling, Asking, Dined
  <1>9. Apart(state_sema)' /\ \A j \in Procs : Served(state_sema, pc, j)'
    BY <1>1, <1>2 DEF Inv, Apart, Served
  <1> QED
    BY <1>1, <1>4, <1>6, <1>7, <1>8, <1>9 DEF Inv

\* down(&s[i]) is passed only by a philosopher whose state is EATING.
LEMMA TakeForksInv ==
    ASSUME Inv, NEW i \in Procs, TakeForks(i)
    PROVE  Inv' /\ (pc'[i] = "eat" => state_sema[i] = "EATING")
  <1>1. /\ SchedExact' /\ SemTypeOK' /\ Waits(inDown)'
        /\ waitState[i] = "NONE" /\ i \notin timers /\ i \in Threads
        /\ \/ /\ pc[i] = "fork" /\ pc' = [pc EXCEPT ![i] = "eat"]
              /\ value[i] > 0 /\ value' = [value EXCEPT ![i] = @ - 1]
              /\ waitState' = waitState
           \/ /\ pc[i] = "fork" /\ pc' = [pc EXCEPT ![i] = "forkWait"]
              /\ value[i] = 0 /\ value' = value
              /\ waitState' = [waitState EXCEPT ![i] = "KSEM"]
           \/ /\ pc[i] = "forkWait" /\ pc' = [pc EXCEPT ![i] = "eat"]
              /\ value' = value /\ waitState' = waitState
    <2>1. i \in Sems
      BY PhilAssumption
    <2> QED
      BY <2>1, DownStep DEF TakeForks
  <1>2. /\ UNCHANGED <<state_sema, iter, timers>>
        /\ value \in [Sems -> Nat] /\ mutex \in Sems /\ mutex \notin Procs
        /\ waitState \in [Threads -> WState] /\ pc \in [Procs -> PC]
        /\ Procs \subseteq Sems /\ Procs \subseteq Threads
    BY PhilAssumption DEF TakeForks, Down, Inv, TypeOK, SchedTypeOK, SemTypeOK, Threads
  <1>4. TypeOK'
    BY <1>1, <1>2 DEF Inv, TypeOK, SchedExact, PC
  <1>6. Sleeps' /\ MealsLeft'
    BY <1>1, <1>2 DEF Inv, Sleeps, MealsLeft
  <1>7. MutexExact'
    BY <1>1, <1>2 DEF Inv, MutexExact, Holds, Critical
  <1>8. ForksExact' /\ (pc'[i] = "eat" => state_sema[i] = "EATING")
    BY <1>1, <1>2 DEF Inv, ForksExact, Idling, Asking, Dined
  <1>9. Apart(state_sema)' /\ \A j \in Procs : Served(state_sema, pc, j)'
    BY <1>1, <1>2 DEF Inv, Apart, Served
  <1> QED
    BY <1>1, <1>4, <1>6, <1>7, <1>8, <1>9 DEF Inv

\* up(&sem) by a philosopher: a sleeper gets the unit, or the value is raised.
LEMMA UpStep ==
    ASSUME Inv, NEW i \in Procs, NEW s \in Sems, NEW l, NEW next,
           l \notin {"takeWait", "putWait", "forkWait"},
           next \notin {"takeWait", "putWait", "forkWait"},
           At(i, l), Up(s), Goto(i, next)
    PROVE  /\ SchedExact' /\ SemTypeOK' /\ Waits(inDown)'
           /\ \/ /\ \A p \in Procs : s \in inDown[p] => waitState[p] # "KSEM"
                 /\ value' = [value EXCEPT ![s] = @ + 1] /\ waitState' = waitState
              \/ \E p \in Procs \ {i} :
                     /\ s \in inDown[p] /\ waitState[p] = "KSEM" /\ value' = value
                     /\ waitState' = [waitState EXCEPT ![p] = "NONE"]
  <1>1. inDown \in [Procs -> SUBSET Sems] /\ SchedTypeOK /\ SemTypeOK /\ Waits(inDown)
    BY PhilAssumption DEF inDown, Inv, TypeOK
  <1>2. pc[i] = l /\ waitState[i] = "NONE"
    BY AtIsAwake
  <1>3. inDown' = [inDown EXCEPT ![i] = {}] /\ inDown[i] = {}
    BY <1>2, GotoDown
  <1>4. inDown' = inDown
    BY <1>1, <1>3
  <1>5. SemTypeOK' /\ Waits(inDown)'
    BY <1>1, <1>4, UpKeeps DEF Waits, WaitsNext, Inv, SchedExact
  <1>6. SchedExact'
    BY <1>1, UpSched DEF Inv
  <1>7. \/ /\ \A p \in Procs : s \in inDown[p] => waitState[p] # "KSEM"
           /\ value' = [value EXCEPT ![s] = @ + 1] /\ waitState' = waitState
        \/ \E p \in Procs :
               /\ s \in inDown[p] /\ waitState[p] = "KSEM"
               /\ waitState' = [waitState EXCEPT ![p] = "NONE"] /\ value' = value
    BY <1>1, UpEffect DEF Inv
  <1> QED
    BY <1>2, <1>5, <1>6, <1>7

\* up(&mutex) hands the mutex over, or frees it.
LEMMA MutexUpInv ==
    ASSUME Inv, NEW i \in Procs, Release(i) \/ PutRelease(i)
    PROVE  Inv'
  <1> PICK l \in {"release", "putRelease"} :
          IF l = "release" THEN Release(i) ELSE PutRelease(i)
    OBVIOUS
  <1> DEFINE next == IF l = "release" THEN "fork" ELSE IF Again(i) THEN "think" ELSE "quit"
  <1>1. /\ At(i, l) /\ Up(mutex) /\ Goto(i, next)
        /\ UNCHANGED <<state_sema, timers>>
        /\ iter' = IF l = "release" THEN iter ELSE [iter EXCEPT ![i] = @ + 1]
    BY DEF Release, PutRelease
  <1>2. /\ value \in [Sems -> Nat] /\ mutex \in Sems /\ mutex \notin Procs
        /\ waitState \in [Threads -> WState] /\ pc \in [Procs -> PC]
        /\ Procs \subseteq Sems /\ Procs \subseteq Threads
        /\ iter \in [Procs -> 0 .. TIMES] /\ TIMES \in Nat
    BY PhilAssumption DEF Inv, TypeOK, SchedTypeOK, SemTypeOK, Threads
  <1>3. /\ SchedExact' /\ SemTypeOK' /\ Waits(inDown)'
        /\ \/ /\ \A p \in Procs : mutex \in inDown[p] => waitState[p] # "KSEM"
              /\ value' = [value EXCEPT ![mutex] = @ + 1] /\ waitState' = waitState
           \/ \E p \in Procs \ {i} :
                  /\ mutex \in inDown[p] /\ waitState[p] = "KSEM" /\ value' = value
                  /\ waitState' = [waitState EXCEPT ![p] = "NONE"]
    BY <1>1, <1>2, UpStep
  <1>4. /\ pc[i] = l /\ pc' = [pc EXCEPT ![i] = next] /\ waitState[i] = "NONE"
        /\ iter[i] < TIMES /\ i \notin timers
    BY <1>1, AtIsAwake DEF Goto, Inv, MealsLeft
  <1>5. \A p \in Procs : mutex \in inDown[p] <=> pc[p] \in {"takeWait", "putWait"}
    BY <1>2 DEF inDown
  <1>6. TypeOK'
    BY <1>1, <1>2, <1>3, <1>4 DEF Inv, TypeOK, SchedExact, PC
  <1>7. Sleeps'
    BY <1>1, <1>2, <1>3, <1>4, <1>5 DEF Inv, Sleeps
  <1>8. MealsLeft'
    BY <1>1, <1>2, <1>4 DEF Inv, MealsLeft, Again
  <1>9. MutexExact'
    <2>1. pc[i] \in Critical /\ value[mutex] = 0
      BY <1>2, <1>4 DEF Inv, MutexExact, Holds, Critical
    <2> QED
      BY <1>2, <1>3, <1>4, <1>5, <2>1 DEF Inv, MutexExact, Holds, Critical
  <1>10. ForksExact'
    BY <1>1, <1>2, <1>3, <1>4, <1>5 DEF Inv, ForksExact, Idling, Asking, Dined
  <1>11. Apart(state_sema)' /\ \A j \in Procs : Served(state_sema, pc, j)'
    BY <1>1, <1>2, <1>4 DEF Inv, Apart, Served
  <1> QED
    BY <1>3, <1>6, <1>7, <1>8, <1>9, <1>10, <1>11 DEF Inv

\* phi_test_sema(j) by philosopher i, on the states st: j is given its fork's
\* unit if it may eat, and nothing happens otherwise.
LEMMA TestStep ==
    ASSUME Inv, NEW i \in Procs, NEW j \in Procs, NEW st, NEW l, NEW next,
           l \notin {"takeWait", "putWait", "forkWait"},
           next \notin {"takeWait", "putWait", "forkWait"},
           pc[j] = "forkWait" => st[j] = state_sema[j],
           At(i, l), Test(st, j), Goto(i, next)
    PROVE  /\ SchedExact' /\ SemTypeOK' /\ Waits(inDown)'
           /\ \/ /\ MayEat(st, j)
                 /\ state_sema' = [st EXCEPT ![j] = "EATING"]
                 /\ \/ /\ pc[j] # "forkWait"
                       /\ value' = [value EXCEPT ![j] = @ + 1] /\ waitState' = waitState
                    \/ /\ pc[j] = "forkWait" /\ waitState[j] = "KSEM" /\ value' = value
                       /\ waitState' = [waitState EXCEPT ![j] = "NONE"]
              \/ /\ ~MayEat(st, j)
                 /\ state_sema' = st /\ value' = value /\ waitState' = waitState
  <1>1. j \in Sems /\ \A p \in Procs : j \in inDown[p] <=> p = j /\ pc[j] = "forkWait"
    BY PhilAssumption DEF inDown
  <1>2. CASE MayEat(st, j) /\ state_sema' = [st EXCEPT ![j] = "EATING"] /\ Up(j)
    <2>1. /\ SchedExact' /\ SemTypeOK' /\ Waits(inDown)'
          /\ \/ /\ \A p \in Procs : j \in inDown[p] => waitState[p] # "KSEM"
                /\ value' = [value EXCEPT ![j] = @ + 1] /\ waitState' = waitState
             \/ \E p \in Procs \ {i} :
                    /\ j \in inDown[p] /\ waitState[p] = "KSEM" /\ value' = value
                    /\ waitState' = [waitState EXCEPT ![p] = "NONE"]
      BY <1>1, <1>2, UpStep
    <2>2. pc[j] = "forkWait" => waitState[j] = "KSEM"
      BY <1>2 DEF MayEat, Inv, ForksExact
    <2> QED
      BY <1>1, <1>2, <2>1, <2>2
  <1>3. CASE ~MayEat(st, j) /\ state_sema' = st /\ UNCHANGED <<schedVars, semVars>>
    <2>1. inDown \in [Procs -> SUBSET Sems] /\ inDown' = inDown
      <3>1. inDown \in [Procs -> SUBSET Sems]
        BY PhilAssumption DEF inDown, Inv, TypeOK
      <3>2. inDown' = [inDown EXCEPT ![i] = {}] /\ inDown[i] = {}
        BY AtIsAwake, GotoDown
      <3> QED
        BY <3>1, <3>2
    <2>2. SchedExact' /\ SemTypeOK' /\ Waits(inDown)'
      BY <1>3, <2>1, RestKeeps DEF Inv, TypeOK, SemTypeOK, semVars, schedVars, Waits
    <2> QED
      BY <1>3, <2>2 DEF semVars, schedVars
  <1> QED
    BY <1>2, <1>3 DEF Test

\* A philosopher who may eat has no neighbour who eats.
LEMMA TestApart ==
    ASSUME NEW st \in [Procs -> {"THINKING", "HUNGRY", "EATING"}], NEW j \in Procs,
           Apart(st), MayEat(st, j)
    PROVE  Apart([st EXCEPT ![j] = "EATING"])
  BY Seats DEF Apart, MayEat

\* phi_take_forks_sema: i is HUNGRY, or EATING at once.
LEMMA HungryInv ==
    ASSUME Inv, NEW i \in Procs, Hungry(i)
    PROVE  Inv'
  <1> DEFINE st == [state_sema EXCEPT ![i] = "HUNGRY"]
  <1>1. /\ pc[i] = "hungry" /\ pc' = [pc EXCEPT ![i] = "release"]
        /\ UNCHANGED <<iter, timers>> /\ waitState[i] = "NONE" /\ i \notin timers
    BY AtIsAwake DEF Hungry, Goto
  <1>2. /\ value \in [Sems -> Nat] /\ mutex \in Sems /\ mutex \notin Procs
        /\ waitState \in [Threads -> WState] /\ pc \in [Procs -> PC]
        /\ Procs \subseteq Sems /\ Procs \subseteq Threads
        /\ state_sema \in [Procs -> {"THINKING", "HUNGRY", "EATING"}]
        /\ st \in [Procs -> {"THINKING", "HUNGRY", "EATING"}]
    BY PhilAssumption DEF Inv, TypeOK, SchedTypeOK, SemTypeOK, Threads
  <1>3. /\ SchedExact' /\ SemTypeOK' /\ Waits(inDown)'
        /\ \/ /\ MayEat(st, i) /\ state_sema' = [st EXCEPT ![i] = "EATING"]
              /\ value' = [value EXCEPT ![i] = @ + 1] /\ waitState' = waitState
           \/ /\ ~MayEat(st, i) /\ state_sema' = st
              /\ value' = value /\ waitState' = waitState
    <2>1. At(i, "hungry") /\ Test(st, i) /\ Goto(i, "release") /\ pc[i] # "forkWait"
      BY <1>1 DEF Hungry
    <2> HIDE DEF st
    <2> QED
      BY <2>1, TestStep
  <1>4. state_sema[i] = "THINKING" /\ value[i] = 0
    BY <1>1 DEF Inv, ForksExact, Idling
  <1>5. TypeOK'
    BY <1>1, <1>2, <1>3 DEF Inv, TypeOK, SchedExact, PC
  <1>6. Sleeps' /\ MealsLeft'
    BY <1>1, <1>2, <1>3 DEF Inv, Sleeps, MealsLeft
  <1>7. MutexExact'
    BY <1>1, <1>2, <1>3, PhilAssumption DEF Inv, MutexExact, Holds, Critical
  <1>8. ForksExact'
    BY <1>1, <1>2, <1>3, <1>4 DEF Inv, ForksExact, Idling, Asking, Dined
  <1>9. Apart(state_sema)'
    <2>1. Apart(st)
      BY <1>2, <1>4, Seats DEF Inv, Apart
    <2> HIDE DEF st
    <2>2. MayEat(st, i) => Apart([st EXCEPT ![i] = "EATING"])
      BY <1>2, <2>1, TestApart
    <2> QED
      BY <1>3, <2>1, <2>2 DEF Apart
  <1>10. ASSUME NEW k \in Procs PROVE Served(state_sema, pc, k)'
    <2>1. Served(state_sema, pc, k) /\ \A j \in Procs : pc[j] = "putRight" => pc'[j] = "putRight"
      BY <1>1, <1>2 DEF Inv
    <2>2. CASE k = i
      BY <1>2, <1>3, <2>2, Seats DEF MayEat, Served
    <2>3. CASE k # i
      BY <1>2, <1>3, <1>4, <2>1, <2>3, Seats DEF Served
    <2> QED
      BY <2>2, <2>3
  <1> QED
    BY <1>3, <1>5, <1>6, <1>7, <1>8, <1>9, <1>10 DEF Inv

\* phi_put_forks_sema, first half: i has eaten, and tests its left neighbour.
LEMMA PutLeftInv ==
    ASSUME Inv, NEW i \in Procs, PutLeft(i)
    PROVE  Inv'
  <1> DEFINE st == [state_sema EXCEPT ![i] = "THINKING"]
             j == Left(i)
  <1>1. /\ pc[i] = "putLeft" /\ pc' = [pc EXCEPT ![i] = "putRight"]
        /\ UNCHANGED <<iter, timers>> /\ waitState[i] = "NONE" /\ i \notin timers
    BY AtIsAwake DEF PutLeft, Goto
  <1>2. /\ value \in [Sems -> Nat] /\ mutex \in Sems /\ mutex \notin Procs
        /\ waitState \in [Threads -> WState] /\ pc \in [Procs -> PC]
        /\ Procs \subseteq Sems /\ Procs \subseteq Threads
        /\ state_sema \in [Procs -> {"THINKING", "HUNGRY", "EATING"}]
        /\ st \in [Procs -> {"THINKING", "HUNGRY", "EATING"}]
        /\ j \in Procs /\ j # i
    BY PhilAssumption, Seats DEF Inv, TypeOK, SchedTypeOK, SemTypeOK, Threads
  <1>3. /\ SchedExact' /\ SemTypeOK' /\ Waits(inDown)'
        /\ \/ /\ MayEat(st, j) /\ state_sema' = [st EXCEPT ![j] = "EATING"]
              /\ \/ /\ pc[j] # "forkWait"
                    /\ value' = [value EXCEPT ![j] = @ + 1] /\ waitState' = waitState
                 \/ /\ pc[j] = "forkWait" /\ waitState[j] = "KSEM" /\ value' = value
                    /\ waitState' = [waitState EXCEPT ![j] = "NONE"]
           \/ /\ ~MayEat(st, j) /\ state_sema' = st
              /\ value' = value /\ waitState' = waitState
    <2>1. /\ At(i, "putLeft") /\ Test(st, j) /\ Goto(i, "putRight")
          /\ j \in Procs /\ st[j] = state_sema[j]
      BY <1>2 DEF PutLeft
    <2> HIDE DEF st, j
    <2> QED
      BY <2>1, TestStep
  <1>4. state_sema[i] = "EATING" /\ value[i] = 0
    BY <1>1 DEF Inv, ForksExact, Dined
  <1> HIDE DEF j
  <1>5. TypeOK'
    BY <1>1, <1>2, <1>3 DEF Inv, TypeOK, SchedExact, PC
  <1>6. Sleeps' /\ MealsLeft'
    BY <1>1, <1>2, <1>3 DEF Inv, Sleeps, MealsLeft
  <1>7. MutexExact'
    <2>1. value'[mutex] = value[mutex]
      BY <1>2, <1>3
    <2>2. \A k \in Procs : Holds(k)' <=> Holds(k)
      BY <1>1, <1>2, <1>3 DEF Holds, Critical
    <2> QED
      BY <2>1, <2>2 DEF Inv, MutexExact
  <1>8. ForksExact'
    <2>1. MayEat(st, j) => state_sema[j] = "HUNGRY" /\ pc[j] \in Asking
      BY <1>2 DEF MayEat, Inv, ForksExact, TypeOK, PC, Idling, Asking, Dined
    <2> QED
      BY <1>1, <1>2, <1>3, <1>4, <2>1 DEF Inv, ForksExact, Idling, Asking, Dined
  <1>9. Apart(state_sema)'
    <2>1. Apart(st)
      BY <1>2, <1>4, Seats DEF Inv, Apart
    <2> HIDE DEF st
    <2>2. MayEat(st, j) => Apart([st EXCEPT ![j] = "EATING"])
      BY <1>2, <2>1, TestApart
    <2> QED
      BY <1>3, <2>1, <2>2 DEF Apart
  <1>10. ASSUME NEW k \in Procs PROVE Served(state_sema, pc, k)'
    <2>1. /\ Served(state_sema, pc, k) /\ pc'[i] = "putRight"
          /\ \A r \in Procs : pc[r] = "putRight" => pc'[r] = "putRight"
      BY <1>1, <1>2 DEF Inv
    <2>2. CASE k = Right(i)
      BY <2>1, <2>2 DEF Served
    <2>3. CASE k = j
      BY <1>2, <1>3, <2>3, Seats DEF MayEat, Served
    <2>4. CASE k # j /\ k # Right(i)
      <3>1. Left(k) # i /\ Right(k) # i
        BY <2>4, Seats DEF j
      <3> QED
        BY <1>2, <1>3, <2>1, <2>4, <3>1, Seats DEF Served
    <2> QED
      BY <2>2, <2>3, <2>4
  <1> QED
    BY <1>3, <1>5, <1>6, <1>7, <1>8, <1>9, <1>10 DEF Inv

\* The second half: it tests its right neighbour.
LEMMA PutRightInv ==
    ASSUME Inv, NEW i \in Procs, PutRight(i)
    PROVE  Inv'
  <1> DEFINE j == Right(i)
  <1>1. /\ pc[i] = "putRight" /\ pc' = [pc EXCEPT ![i] = "putRelease"]
        /\ UNCHANGED <<iter, timers>> /\ waitState[i] = "NONE" /\ i \notin timers
    BY AtIsAwake DEF PutRight, Goto
  <1>2. /\ value \in [Sems -> Nat] /\ mutex \in Sems /\ mutex \notin Procs
        /\ waitState \in [Threads -> WState] /\ pc \in [Procs -> PC]
        /\ Procs \subseteq Sems /\ Procs \subseteq Threads
        /\ state_sema \in [Procs -> {"THINKING", "HUNGRY", "EATING"}]
        /\ j \in Procs /\ j # i
    BY PhilAssumption, Seats DEF Inv, TypeOK, SchedTypeOK, SemTypeOK, Threads
  <1>3. /\ SchedExact' /\ SemTypeOK' /\ Waits(inDown)'
        /\ \/ /\ MayEat(state_sema, j) /\ state_sema' = [state_sema EXCEPT ![j] = "EATING"]
              /\ \/ /\ pc[j] # "forkWait"
                    /\ value' = [value EXCEPT ![j] = @ + 1] /\ waitState' = waitState
                 \/ /\ pc[j] = "forkWait" /\ waitState[j] = "KSEM" /\ value' = value
                    /\ waitState' = [waitState EXCEPT ![j] = "NONE"]
           \/ /\ ~MayEat(state_sema, j) /\ state_sema' = state_sema
              /\ value' = value /\ waitState' = waitState
    <2>1. At(i, "putRight") /\ Test(state_sema, j) /\ Goto(i, "putRelease") /\ j \in Procs
      BY <1>2 DEF PutRight, Second
    <2> HIDE DEF j
    <2> QED
      BY <2>1, TestStep
  <1> HIDE DEF j
  <1>5. TypeOK'
    BY <1>1, <1>2, <1>3 DEF Inv, TypeOK, SchedExact, PC
  <1>6. Sleeps' /\ MealsLeft'
    BY <1>1, <1>2, <1>3 DEF Inv, Sleeps, MealsLeft
  <1>7. MutexExact'
    <2>1. value'[mutex] = value[mutex]
      BY <1>2, <1>3
    <2>2. \A k \in Procs : Holds(k)' <=> Holds(k)
      BY <1>1, <1>2, <1>3 DEF Holds, Critical
    <2> QED
      BY <2>1, <2>2 DEF Inv, MutexExact
  <1>8. ForksExact'
    <2>1. MayEat(state_sema, j) => state_sema[j] = "HUNGRY" /\ pc[j] \in Asking
      BY <1>2 DEF MayEat, Inv, ForksExact, TypeOK, PC, Idling, Asking, Dined
    <2> QED
      BY <1>1, <1>2, <1>3, <2>1 DEF Inv, ForksExact, Idling, Asking, Dined
  <1>9. Apart(state_sema)'
    BY <1>2, <1>3, TestApart DEF Inv
  <1>10. ASSUME NEW k \in Procs PROVE Served(state_sema, pc, k)'
    <2>1. /\ Served(state_sema, pc, k)
          /\ \A r \in Procs : r # i /\ pc[r] = "putRight" => pc'[r] = "putRight"
      BY <1>1, <1>2 DEF Inv
    <2>2. CASE k = j
      BY <1>2, <1>3, <2>2, Seats DEF MayEat, Served
    <2>3. CASE k # j
      BY <1>2, <1>3, <2>1, <2>3, Seats DEF Served, j
    <2> QED
      BY <2>2, <2>3
  <1> QED
    BY <1>3, <1>5, <1>6, <1>7, <1>8, <1>9, <1>10 DEF Inv

\* The thread ends.
LEMMA QuitInv ==
    ASSUME Inv, NEW i \in Procs, Quit(i)
    PROVE  Inv'
  <1>1. /\ Running(i) /\ pc[i] = "quit" /\ pc' = [pc EXCEPT ![i] = "exited"]
        /\ UNCHANGED <<waitState, value, queue, wakeupFlags, state_sema, iter, timers>>
        /\ pc \in [Procs -> PC]
    BY AtIsAwake DEF Quit, Goto, semVars, Inv, TypeOK
  <1>2. SchedExact'
    <2>1. "NONE" \in WState
      BY DEF WState
    <2> QED
      BY <1>1, <2>1, StopKeeps DEF Quit, Inv
  <1>3. TypeOK'
    BY <1>1, <1>2 DEF Inv, TypeOK, SchedExact, SemTypeOK, PC
  <1>4. Waits(inDown)'
    <2>1. inDown' = inDown
      BY <1>1 DEF inDown
    <2> QED
      BY <1>1, <2>1 DEF Inv, Waits
  <1>5. Sleeps' /\ MealsLeft'
    BY <1>1 DEF Inv, Sleeps, MealsLeft
  <1>6. MutexExact'
    BY <1>1 DEF Inv, MutexExact, Holds, Critical
  <1>7. ForksExact'
    BY <1>1 DEF Inv, ForksExact, Idling, Asking, Dined
  <1>8. Apart(state_sema)' /\ \A j \in Procs : Served(state_sema, pc, j)'
    BY <1>1 DEF Inv, Apart, Served
  <1> QED
    BY <1>2, <1>3, <1>4, <1>5, <1>6, <1>7, <1>8 DEF Inv

\* A clock interrupt wakes nobody who waits for a semaphore.
LEMMA TickInv ==
    ASSUME Inv, NEW due \in SUBSET timers, NEW sliceEnds \in BOOLEAN, Tick(due, sliceEnds)
    PROVE  Inv' /\ UNCHANGED <<pc, state_sema>>
  <1>1. /\ due \in SUBSET Procs /\ due \in SUBSET Threads
        /\ waitState' = WokenWait(waitState, state, due) /\ timers' = timers \ due
        /\ UNCHANGED <<value, queue, wakeupFlags, state_sema, iter, pc>>
    BY DEF Tick, semVars, Inv, TypeOK, Threads
  <1>2. SchedExact'
    BY <1>1, WakeKeeps, ProcTickTypes DEF Tick, Inv, SchedExact
  <1>3. inDown' = inDown /\ inDown \in [Procs -> SUBSET Sems]
    BY <1>1, PhilAssumption DEF inDown, Inv, TypeOK
  <1>4. \A p \in due : waitState[p] = "TIMER" /\ inDown[p] = {} /\ state[p] # "RUNNABLE"
    BY <1>1 DEF Inv, Sleeps, inDown, SchedExact, SleepHasReason
  <1>5. SemTypeOK' /\ Waits(inDown)'
    BY <1>1, <1>3, <1>4, OtherWakeKeeps DEF Inv, TypeOK, Waits, WaitsNext, semVars
  <1>6. TypeOK'
    BY <1>1, <1>2, <1>5 DEF Inv, TypeOK, SchedExact
  <1>7. \A p \in Procs : waitState'[p] = IF p \in due THEN "NONE" ELSE waitState[p]
    BY <1>1, <1>4 DEF WokenWait, Asleep, Threads
  <1>8. Sleeps' /\ MealsLeft'
    BY <1>1, <1>4, <1>7 DEF Inv, Sleeps, MealsLeft
  <1>9. MutexExact'
    BY <1>1, <1>4, <1>7 DEF Inv, Sleeps, MutexExact, Holds
  <1>10. ForksExact'
    BY <1>1, <1>4, <1>7 DEF Inv, Sleeps, ForksExact
  <1>11. Apart(state_sema)' /\ \A j \in Procs : Served(state_sema, pc, j)'
    BY <1>1 DEF Inv, Apart, Served
  <1> QED
    BY <1>1, <1>2, <1>5, <1>6, <1>8, <1>9, <1>10, <1>11 DEF Inv

\* A switch, or a call of schedule() by idleproc, touches the scheduler only.
LEMMA SchedInv ==
    ASSUME Inv, Switch \/ Idle \/ UNCHANGED vars
    PROVE  Inv' /\ UNCHANGED <<pc, state_sema>>
  <1>1. UNCHANGED <<waitState, value, queue, wakeupFlags, state_sema, iter, pc, timers>>
    BY DEF Switch, Schedule, Idle, CpuIdle, vars, schedVars, semVars
  <1>2. SchedExact'
    <2>1. CASE Switch
      BY <2>1, SwitchKeeps DEF Switch, Inv
    <2>2. CASE Idle
      BY <2>2, CallKeeps DEF Idle, CpuIdle, Inv, SchedExact, SchedTypeOK
    <2>3. CASE UNCHANGED vars
      BY <2>3, RestKeeps DEF vars, Inv
    <2> QED
      BY <2>1, <2>2, <2>3
  <1>3. TypeOK' /\ Waits(inDown)'
    BY <1>1, <1>2 DEF Inv, TypeOK, SemTypeOK, SchedExact, Waits, inDown
  <1> QED
    BY <1>1, <1>2, <1>3
    DEF Inv, Sleeps, MutexExact, Holds, ForksExact, Apart, Served, MealsLeft

\* Every step of the specification keeps Inv.
LEMMA NextInv == Inv /\ [Next]_vars => Inv'
  <1> SUFFICES ASSUME Inv, [Next]_vars PROVE Inv'
    OBVIOUS
  <1>1. CASE ThreadStep
    BY <1>1, DoSleepInv, SleptInv, MutexDownInv, TakeForksInv, MutexUpInv, HungryInv,
       PutLeftInv, PutRightInv, QuitInv
    DEF ThreadStep
  <1>2. CASE Switch \/ Idle \/ UNCHANGED vars
    BY <1>2, SchedInv
  <1>3. CASE \E due \in SUBSET timers, sliceEnds \in BOOLEAN : Tick(due, sliceEnds)
    BY <1>3, TickInv
  <1> QED
    BY <1>1, <1>2, <1>3 DEF Next

\* Inv holds in every reachable state.
THEOREM Invariant == Spec => []Inv
  BY InitInv, NextInv, PTL DEF Spec

-----------------------------------------------------------------------------
(* What follows from Inv *)

\* Outside the critical section nobody is HUNGRY between two neighbours who do
\* not eat: whoever puts its forks down has tested both.
THEOREM NobodyMissed == Spec => []NoMissedFork
  <1>1. Inv => NoMissedFork
    BY DEF Inv, NoMissedFork, Served, Critical
  <1> QED
    BY <1>1, Invariant, PTL

\* The mutex does its work: one philosopher at most is between down(&mutex) and
\* up(&mutex).
THEOREM MutexExclusive ==
    Spec => [](\A i, j \in Procs : pc[i] \in Critical /\ pc[j] \in Critical => i = j)
  <1>1. Inv => \A i, j \in Procs : pc[i] \in Critical /\ pc[j] \in Critical => i = j
    BY DEF Inv, MutexExact, Holds
  <1> QED
    BY <1>1, Invariant, PTL

\* Whoever is past down(&s[i]) has state EATING, and no neighbour is then: the
\* program implements the dining philosophers, step by step.
THEOREM DiningImplemented == Spec => ForksExclusive
  <1>1. Init => D!Init
    BY PhilAssumption DEF Init, D!Init, phase, D!Phils
  <1>2. Inv /\ [Next]_vars => [D!Next]_phase
    <2> SUFFICES ASSUME Inv, [Next]_vars PROVE D!Next \/ phase' = phase
      OBVIOUS
    <2>1. D!Phils = Procs /\ \A i \in Procs : D!Neighbours(i) = {Left(i), Right(i)}
      BY PhilAssumption DEF D!Phils, D!Neighbours, Left, Right
    <2>2. \A i \in Procs : phase[i] = "eating" => state_sema[i] = "EATING"
      BY DEF phase, Inv, ForksExact, Dined
    <2>3. ASSUME NEW i \in Procs, NEW l, Goto(i, l)
          PROVE  phase' = [phase EXCEPT ![i] =
                     IF l \in {"release", "fork", "forkWait"} THEN "hungry"
                     ELSE IF l \in {"eat", "eating", "put", "putWait", "putLeft"} THEN "eating"
                     ELSE "thinking"]
      BY <2>3 DEF phase, Goto, Inv, TypeOK
    <2>4. ASSUME NEW i \in Procs, TakeForks(i) PROVE D!Next \/ phase' = phase
      <3>1. CASE Goto(i, "eat") /\ pc[i] \in {"fork", "forkWait"}
        <4>1. state_sema[i] = "EATING"
          BY <2>4, <3>1, TakeForksInv DEF Goto, Inv, TypeOK
        <4>2. \A j \in D!Neighbours(i) : phase[j] # "eating"
          BY <2>1, <2>2, <4>1, Seats DEF Inv, Apart
        <4>3. phase[i] = "hungry"
          BY <3>1 DEF phase
        <4>4. phase' = [phase EXCEPT ![i] = "eating"]
          BY <2>3, <3>1
        <4> QED
          BY <2>1, <4>2, <4>3, <4>4 DEF D!Next, D!Eat
      <3>2. CASE Goto(i, "forkWait") /\ pc[i] = "fork"
        <4>1. phase' = [phase EXCEPT ![i] = "hungry"]
          BY <2>3, <3>2
        <4>2. phase[i] = "hungry"
          BY <3>2 DEF phase
        <4> QED
          BY <4>1, <4>2 DEF phase
      <3> QED
        BY <2>4, <3>1, <3>2 DEF TakeForks, Down, At
    <2>5. ASSUME NEW i \in Procs, Hungry(i) PROVE D!Next
      <3>1. Goto(i, "release") /\ phase[i] = "thinking"
        BY <2>5 DEF Hungry, At, phase
      <3>2. phase' = [phase EXCEPT ![i] = "hungry"]
        BY <2>3, <3>1
      <3> QED
        BY <2>1, <3>1, <3>2 DEF D!Next, D!Hunger
    <2>6. ASSUME NEW i \in Procs, PutLeft(i) PROVE D!Next
      <3>1. Goto(i, "putRight") /\ phase[i] = "eating"
        BY <2>6 DEF PutLeft, At, phase
      <3>2. phase' = [phase EXCEPT ![i] = "thinking"]
        BY <2>3, <3>1
      <3> QED
        BY <2>1, <3>1, <3>2 DEF D!Next, D!Think
    <2>7. ASSUME NEW i \in Procs,
                 \/ DoSleep(i) \/ Slept(i) \/ TakeMutex(i) \/ PutMutex(i)
                 \/ Release(i) \/ PutRight(i) \/ PutRelease(i) \/ Quit(i)
          PROVE  phase' = phase
      <3>1. PICK l \in PC, next \in PC :
                /\ pc[i] = l /\ Goto(i, next)
                /\ <<l, next>> \in
                       {<<"think", "thinking">>, <<"eat", "eating">>, <<"thinking", "take">>,
                        <<"eating", "put">>, <<"take", "takeWait">>, <<"take", "hungry">>,
                        <<"takeWait", "hungry">>, <<"put", "putWait">>, <<"put", "putLeft">>,
                        <<"putWait", "putLeft">>, <<"release", "fork">>,
                        <<"putRight", "putRelease">>, <<"putRelease", "think">>,
                        <<"putRelease", "quit">>, <<"quit", "exited">>}
        BY <2>7 DEF DoSleep, Slept, TakeMutex, PutMutex, Down, Release, PutRight,
                    PutRelease, Quit, At, PC
      <3>2. phase' = [phase EXCEPT ![i] = phase[i]]
        <4>1. phase[i] = IF l \in {"release", "fork", "forkWait"} THEN "hungry"
                         ELSE IF l \in {"eat", "eating", "put", "putWait", "putLeft"} THEN "eating"
                         ELSE "thinking"
          BY <3>1 DEF phase
        <4> QED
          BY <2>3, <3>1, <4>1
      <3> QED
        BY <3>2 DEF phase
    <2>8. CASE Switch \/ Idle \/ UNCHANGED vars
      BY <2>8, SchedInv DEF phase
    <2>9. CASE \E due \in SUBSET timers, sliceEnds \in BOOLEAN : Tick(due, sliceEnds)
      BY <2>9, TickInv DEF phase
    <2> QED
      BY <2>4, <2>5, <2>6, <2>7, <2>8, <2>9 DEF Next, ThreadStep
  <1> QED
    BY <1>1, <1>2, Invariant, PTL DEF Spec, ForksExclusive, D!Spec
=============================================================================
