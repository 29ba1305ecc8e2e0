---------------------------- MODULE Philosophers ----------------------------
(***************************************************************************)
(* The dining philosophers of lab8 (kern/sync/check_sync.c, the version    *)
(* with semaphores), a program of kernel threads that exercises down, up,  *)
(* do_sleep and the scheduler together.                                    *)
(*                                                                         *)
(* A kernel thread is not preempted, but runs with interrupts on: a clock  *)
(* interrupt can fall between any two of its steps, also between the one   *)
(* that puts it to sleep and schedule().  Each step has one semaphore      *)
(* operation at most.  init, which has created the threads and waits for   *)
(* them to exit, is not modelled.                                          *)
(***************************************************************************)
EXTENDS Sem

CONSTANTS N,       \* the number of philosophers
          TIMES,   \* how often each one eats
          mutex    \* the semaphore for the critical section; s[i] is named i

ASSUME PhilAssumption ==
    /\ N \in Nat \ {0, 1}
    /\ Procs = 0 .. N - 1
    /\ Sems = Procs \cup {mutex}
    /\ mutex \notin Procs
    /\ TIMES \in Nat

VARIABLES state_sema,  \* "THINKING", "HUNGRY" or "EATING"
          iter,        \* how often a philosopher has eaten
          pc,          \* the next step of a philosopher
          timers       \* the processes with a timer (do_sleep)

vars == <<schedVars, semVars, state_sema, iter, pc, timers>>

Left(i) == (i + N - 1) % N
Right(i) == (i + 1) % N

\* The steps of philosopher_using_semaphore.  "thinking", "eating": back from
\* schedule() in do_sleep; "takeWait", "forkWait", "putWait": in down.
PC == {"think", "thinking", "take", "takeWait", "hungry", "release",
       "fork", "forkWait", "eat", "eating", "put", "putWait",
       "putLeft", "putRight", "putRelease", "quit", "exited"}

TypeOK ==
    /\ SchedTypeOK
    /\ SemTypeOK
    /\ state_sema \in [Procs -> {"THINKING", "HUNGRY", "EATING"}]
    /\ iter \in [Procs -> 0 .. TIMES]
    /\ pc \in [Procs -> PC]
    /\ timers \subseteq Procs

\* check_sync has created the philosophers, and init sleeps in do_wait.
Init ==
    /\ state = [p \in Threads |-> "RUNNABLE"]
    /\ waitState = [p \in Threads |-> "NONE"]
    /\ rq = [p \in Threads |-> IF p = idle THEN 0 ELSE 1]
    /\ current = idle
    /\ inSched = FALSE
    /\ needResched = [p \in Threads |-> p = idle]
    /\ SemInit([s \in Sems |-> IF s = mutex THEN 1 ELSE 0])
    /\ state_sema = [i \in Procs |-> "THINKING"]
    /\ iter = [i \in Procs |-> 0]
    /\ pc = [i \in Procs |-> IF TIMES = 0 THEN "quit" ELSE "think"]
    /\ timers = {}

At(i, label) == Running(i) /\ pc[i] = label
Goto(i, label) == pc' = [pc EXCEPT ![i] = label]

-----------------------------------------------------------------------------
\* do_sleep(SLEEP_TIME) up to schedule(), and after it.
DoSleep(i) ==
    /\ \/ At(i, "think") /\ Goto(i, "thinking")
       \/ At(i, "eat") /\ Goto(i, "eating")
    /\ state' = [state EXCEPT ![i] = "SLEEPING"]
    /\ waitState' = [waitState EXCEPT ![i] = "TIMER"]
    /\ timers' = timers \cup {i}
    /\ inSched' = TRUE
    /\ UNCHANGED <<rq, current, needResched, semVars, state_sema, iter>>

Slept(i) ==
    /\ \/ At(i, "thinking") /\ Goto(i, "take")
       \/ At(i, "eating") /\ Goto(i, "put")
    /\ timers' = timers \ {i}
    /\ UNCHANGED <<schedVars, semVars, state_sema, iter>>

\* down(&sem) at the step from, going on at next, by way of wait if it sleeps.
Down(i, sem, from, wait, next) ==
    /\ \/ At(i, from) /\ DownNow(sem) /\ Goto(i, next)
       \/ At(i, from) /\ DownSleeps(i, sem) /\ Goto(i, wait)
       \/ At(i, wait) /\ Downed(i, sem) /\ Goto(i, next)
    /\ UNCHANGED <<state_sema, iter, timers>>

TakeMutex(i) == Down(i, mutex, "take", "takeWait", "hungry")
TakeForks(i) == Down(i, i, "fork", "forkWait", "eat")
PutMutex(i) == Down(i, mutex, "put", "putWait", "putLeft")

\* The test of phi_test_sema on the states st.  Mutant: one neighbour only.
MayEat_Left(st, i) == st[i] = "HUNGRY" /\ st[Left(i)] # "EATING"
MayEat(st, i) ==
    /\ st[i] = "HUNGRY"
    /\ st[Left(i)] # "EATING"
    /\ st[Right(i)] # "EATING"

\* phi_test_sema(i) when the states are st.
Test(st, i) ==
    \/ /\ MayEat(st, i)
       /\ state_sema' = [st EXCEPT ![i] = "EATING"]
       /\ Up(i)
    \/ /\ ~MayEat(st, i)
       /\ state_sema' = st
       /\ UNCHANGED <<schedVars, semVars>>

\* phi_take_forks_sema, between down(&mutex) and up(&mutex).
Hungry(i) ==
    /\ At(i, "hungry")
    /\ Test([state_sema EXCEPT ![i] = "HUNGRY"], i)
    /\ Goto(i, "release")
    /\ UNCHANGED <<iter, timers>>

\* up(&mutex), on the way to down(&s[i]).
Release(i) ==
    /\ At(i, "release")
    /\ Up(mutex)
    /\ Goto(i, "fork")
    /\ UNCHANGED <<state_sema, iter, timers>>

\* phi_put_forks_sema, between down(&mutex) and up(&mutex).
PutLeft(i) ==
    /\ At(i, "putLeft")
    /\ Test([state_sema EXCEPT ![i] = "THINKING"], Left(i))
    /\ Goto(i, "putRight")
    /\ UNCHANGED <<iter, timers>>

\* The neighbour tested second.  Mutant: the same one again.
Second_Left(i) == Left(i)
Second(i) == Right(i)

PutRight(i) ==
    /\ At(i, "putRight")
    /\ Test(state_sema, Second(i))
    /\ Goto(i, "putRelease")
    /\ UNCHANGED <<iter, timers>>

\* The test of the loop after one more meal.
Again(i) == iter[i] + 1 < TIMES

PutRelease(i) ==
    /\ At(i, "putRelease")
    /\ Up(mutex)
    /\ iter' = [iter EXCEPT ![i] = @ + 1]
    /\ Goto(i, IF Again(i) THEN "think" ELSE "quit")
    /\ UNCHANGED <<state_sema, timers>>

\* The thread function returns, and do_exit leaves a zombie.
Quit(i) ==
    /\ At(i, "quit")
    /\ state' = [state EXCEPT ![i] = "ZOMBIE"]
    /\ inSched' = TRUE
    /\ Goto(i, "exited")
    /\ UNCHANGED <<waitState, rq, current, needResched, semVars, state_sema, iter, timers>>

\* The clock interrupt, as in Proc.
Tick(due, sliceEnds) ==
    /\ due \subseteq timers
    /\ state' = WokenState(state, due)
    /\ waitState' = WokenWait(waitState, state, due)
    /\ rq' = WokenQueue(rq, state, due)
    /\ timers' = timers \ due
    /\ ProcTick(sliceEnds)
    /\ UNCHANGED <<current, inSched, semVars, state_sema, iter, pc>>

Switch == Schedule /\ UNCHANGED <<semVars, state_sema, iter, pc, timers>>
Idle == CpuIdle /\ UNCHANGED <<semVars, state_sema, iter, pc, timers>>

ThreadStep ==
    \E i \in Procs :
        \/ DoSleep(i) \/ Slept(i) \/ TakeMutex(i) \/ TakeForks(i) \/ PutMutex(i)
        \/ Hungry(i) \/ Release(i) \/ PutLeft(i) \/ PutRight(i) \/ PutRelease(i)
        \/ Quit(i)

Next ==
    \/ ThreadStep
    \/ Switch
    \/ Idle
    \/ \E due \in SUBSET timers, sliceEnds \in BOOLEAN : Tick(due, sliceEnds)

Spec == Init /\ [][Next]_vars

\* Kernel code goes on, a queued process is picked at last, clock interrupts
\* keep coming and every timer expires.
Fairness ==
    /\ WF_vars(ThreadStep \/ Switch \/ Idle)
    /\ \A i \in Procs : SF_vars(Switch /\ current' = i)
    /\ WF_vars(\E due \in SUBSET timers : Tick(due, TRUE))
    /\ \A i \in Procs : WF_vars(\E due \in SUBSET timers : i \in due /\ Tick(due, TRUE))

FairSpec == Spec /\ Fairness
-----------------------------------------------------------------------------
(* Properties *)

\* Between down(&mutex) and up(&mutex).
Critical == {"hungry", "release", "putLeft", "putRight", "putRelease"}

\* Nobody is left hungry: outside the critical section, a philosopher who is
\* HUNGRY has a neighbour who is EATING.  (And every variable has its type.)
NoMissedFork ==
    /\ TypeOK
    /\ (\A i \in Procs : pc[i] \notin Critical) =>
           \A i \in Procs :
               state_sema[i] = "HUNGRY" =>
                   \E j \in {Left(i), Right(i)} : state_sema[j] = "EATING"

\* What a philosopher really does, by the step it has reached.
phase == [i \in Procs |->
             IF pc[i] \in {"release", "fork", "forkWait"} THEN "hungry"
             ELSE IF pc[i] \in {"eat", "eating", "put", "putWait", "putLeft"} THEN "eating"
             ELSE "thinking"]

D == INSTANCE Dining

\* The program solves the problem: no philosopher is past down(&s[i]) while a
\* neighbour is.
ForksExclusive == D!Spec

\* Every philosopher eats TIMES times and quits: neither the semaphores nor the
\* scheduler leave one asleep.
AllQuit == <>(\A i \in Procs : state[i] = "ZOMBIE")
=============================================================================
