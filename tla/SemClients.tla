----------------------------- MODULE SemClients -----------------------------
(***************************************************************************)
(* Kernel threads that use semaphores in any way the interface allows:     *)
(* down, try_down and up in any order, with calls of schedule() between.   *)
(***************************************************************************)
EXTENDS Sem

CONSTANTS Initial,   \* the value sem_init gives a semaphore
          MaxValue   \* bound on the value of a semaphore

ASSUME ValueAssumption == Initial \in [Sems -> Nat] /\ MaxValue \in Nat

VARIABLES waiting   \* the semaphores a process is inside down() for, after
                    \* wait_current_set: one, or none

vars == <<schedVars, semVars, waiting>>

TypeOK ==
    /\ SchedTypeOK
    /\ SemTypeOK
    /\ waiting \in [Procs -> SUBSET Sems]

Init ==
    /\ state = [p \in Threads |-> "RUNNABLE"]
    /\ waitState = [p \in Threads |-> "NONE"]
    /\ rq = [p \in Threads |-> IF p = idle THEN 0 ELSE 1]
    /\ current = idle
    /\ inSched = FALSE
    /\ needResched = [p \in Threads |-> p = idle]
    /\ SemInit(Initial)
    /\ waiting = [p \in Procs |-> {}]

-----------------------------------------------------------------------------
\* The CPU executes the code of a thread outside down().
Outside(p) == Running(p) /\ waiting[p] = {}

ClientDown(p, s) ==
    /\ Outside(p)
    /\ \/ DownNow(s) /\ UNCHANGED waiting
       \/ DownSleeps(p, s) /\ waiting' = [waiting EXCEPT ![p] = {s}]

ClientDowned(p, s) ==
    /\ Running(p)
    /\ s \in waiting[p]
    /\ Downed(p, s)
    /\ waiting' = [waiting EXCEPT ![p] = {}]

\* try_down: down() if it need not wait, and nothing else.
TryDown(p, s) ==
    /\ Outside(p)
    /\ \/ DownNow(s)
       \/ ~Free(s) /\ UNCHANGED <<schedVars, semVars>>
    /\ UNCHANGED waiting

ClientUp(p, s) ==
    /\ Outside(p)
    /\ value[s] < MaxValue
    /\ Up(s)
    /\ UNCHANGED waiting

\* A thread gives up the CPU.
Resched(p) ==
    /\ Outside(p)
    /\ inSched' = TRUE
    /\ UNCHANGED <<state, waitState, rq, current, needResched, semVars, waiting>>

Switch == Schedule /\ UNCHANGED <<semVars, waiting>>
Idle == CpuIdle /\ UNCHANGED <<semVars, waiting>>

\* A clock interrupt: no timers here.
Tick(sliceEnds) ==
    /\ ProcTick(sliceEnds)
    /\ UNCHANGED <<state, waitState, rq, current, inSched, semVars, waiting>>

Next ==
    \/ \E p \in Procs :
           \/ Resched(p)
           \/ \E s \in Sems :
                  \/ ClientDown(p, s)
                  \/ ClientDowned(p, s)
                  \/ TryDown(p, s)
                  \/ ClientUp(p, s)
    \/ Switch
    \/ Idle
    \/ \E sliceEnds \in BOOLEAN : Tick(sliceEnds)

Spec == Init /\ [][Next]_vars

\* The code of down() goes on after schedule(), every thread gives up the CPU at
\* last, schedule() switches, and to a queued process at last.
Fairness ==
    /\ WF_vars(\E p \in Procs, s \in Sems : ClientDowned(p, s))
    /\ SF_vars(\E p \in Procs : Resched(p))
    /\ WF_vars(Switch)
    /\ WF_vars(Idle)
    /\ \A p \in Procs : SF_vars(Switch /\ current' = p)

FairSpec == Spec /\ Fairness
-----------------------------------------------------------------------------
\* A process is in the queue of a semaphore once if it sleeps in down() on that
\* semaphore, and in no queue otherwise: up() finds the wait state it asserts,
\* and wakes nobody who does something else; and whoever returns from schedule()
\* in down() has been woken by up(), as it asserts.  (And every variable has its
\* type.)
QueuesExact ==
    /\ TypeOK
    /\ \A p \in Procs, s \in Sems :
           Cardinality({k \in 1 .. Len(queue[s]) : queue[s][k] = p}) =
               IF s \in waiting[p] /\ waitState[p] = "KSEM" THEN 1 ELSE 0
    /\ \A p \in Procs : Running(p) /\ waiting[p] # {} => wakeupFlags[p] = "KSEM"

\* Nobody waits for a semaphore that is free.
NoWaiterLeft == \A s \in Sems : value[s] > 0 => queue[s] = <<>>

\* What a process does, as SemAbs sees it.
doing == [p \in Procs |->
             IF waiting[p] = {} THEN "other"
             ELSE IF waitState[p] = "KSEM" THEN "waiting" ELSE "granted"]

A == INSTANCE SemAbs WITH units <- value, line <- queue

\* Units are neither lost nor made, and are granted in the order of the calls.
Semaphore == A!Spec

\* The queue is fair: whoever waits for a semaphore that is raised again and
\* again returns from down().
WaiterServed ==
    \A s \in Sems :
        []<><<\E p \in Procs : ClientUp(p, s)>>_vars =>
            \A p \in Procs : s \in waiting[p] ~> waiting[p] = {}
=============================================================================
