-------------------------------- MODULE Proc --------------------------------
(***************************************************************************)
(* The life of processes in lab8 (kern/process/proc.c, kern/trap/trap.c):  *)
(* fork, exit, wait, kill, yield, sleep, the return path of a trap, clock  *)
(* interrupts, and init_main, which reaps orphans.                         *)
(*                                                                         *)
(* A system call runs with interrupts off until it calls schedule(), so    *)
(* each stretch between two calls of schedule() is one action.  init is a  *)
(* kernel thread with interrupts on: a clock interrupt can fall between    *)
(* any two of its steps, also after it has put itself to sleep and before  *)
(* schedule() switches.  A process is named by its proc_struct, which also *)
(* stands for its pid (GetPid models get_pid).                             *)
(***************************************************************************)
EXTENDS Sched

CONSTANTS init,          \* initproc
          AnyChild,      \* the pid 0 of do_wait: any child
          MAX_PROCESS    \* bound on nr_process

ASSUME InitAssumption == init \in Procs
ASSUME AnyAssumption == AnyChild \notin Threads
ASSUME MaxAssumption  == MAX_PROCESS \in Nat

VARIABLES parent,      \* proc->parent
          exiting,     \* proc->flags & PF_EXITING
          pc,          \* where p continues when it next runs
          waitPid,     \* the pid argument of the do_wait p is in (AnyChild outside)
          timers,      \* processes with a timer in timer_list (do_sleep)
          nrProcess    \* nr_process

procVars == <<parent, exiting, pc, waitPid, timers, nrProcess>>
vars == <<schedVars, procVars>>

\* "user": in user mode; "trapret": end of trap(); "wait": at repeat in
\* do_wait; "waited", "slept": back from the schedule() of do_wait, do_sleep;
\* "exited": in the last schedule() of do_exit; "start", "again": in
\* init_main; "done", "panic": the kernel has stopped.
PC == {"none", "idle", "user", "trapret", "wait", "waited", "slept", "exited",
       "start", "again", "done", "panic"}

Live == {p \in Procs : state[p] # "UNUSED"}
Children(p) == {q \in Live : parent[q] = p}
Halted == pc[init] \in {"done", "panic"}

TypeOK ==
    /\ SchedTypeOK
    /\ parent \in [Procs -> Threads]
    /\ exiting \in [Procs -> BOOLEAN]
    /\ pc \in [Threads -> PC]
    /\ waitPid \in [Procs -> Procs \cup {AnyChild}]
    /\ timers \subseteq Procs
    /\ nrProcess \in Nat

\* proc_init: idleproc runs, and has created initproc.
Init ==
    /\ state = [p \in Threads |-> IF p \in {idle, init} THEN "RUNNABLE" ELSE "UNUSED"]
    /\ waitState = [p \in Threads |-> "NONE"]
    /\ rq = [p \in Threads |-> IF p = init THEN 1 ELSE 0]
    /\ current = idle
    /\ inSched = FALSE
    /\ needResched = [p \in Threads |-> p = idle]
    /\ parent = [p \in Procs |-> idle]
    /\ exiting = [p \in Procs |-> FALSE]
    /\ pc = [p \in Threads |->
                IF p = idle THEN "idle" ELSE IF p = init THEN "start" ELSE "none"]
    /\ waitPid = [p \in Procs |-> AnyChild]
    /\ timers = {}
    /\ nrProcess = 2

-----------------------------------------------------------------------------
(* do_fork *)

\* set_links and remove_links, as far as the number of processes goes.
Linked == nrProcess + 1
Unlinked == nrProcess - 1

\* The whole of do_fork when nothing fails: a fresh proc_struct, child of
\* current, linked into the process set and made RUNNABLE.
DoFork(p, c) ==
    /\ nrProcess < MAX_PROCESS
    /\ state[c] = "UNUSED"
    /\ LET st == [state EXCEPT ![c] = "UNINIT"]
       IN /\ state' = WokenState(st, {c})
          /\ waitState' = WokenWait(waitState, st, {c})
          /\ rq' = WokenQueue(rq, st, {c})
    /\ needResched' = [needResched EXCEPT ![c] = FALSE]
    /\ parent' = [parent EXCEPT ![c] = p]
    /\ exiting' = [exiting EXCEPT ![c] = FALSE]
    /\ nrProcess' = Linked
    /\ UNCHANGED <<current, inSched, waitPid, timers>>

\* sys_fork; the child starts in user mode.
Fork(p, c) ==
    /\ Running(p)
    /\ pc[p] = "user"
    /\ DoFork(p, c)
    /\ pc' = [pc EXCEPT ![p] = "trapret", ![c] = "user"]

\* A system call that returns without an effect on the processes: fork beyond
\* MAX_PROCESS or without memory, wait with a bad address for the exit code,
\* kill of a pid no process has, sleep of no time.
CallReturns(p) ==
    /\ Running(p)
    /\ pc[p] = "user"
    /\ pc' = [pc EXCEPT ![p] = "trapret"]
    /\ UNCHANGED <<schedVars, parent, exiting, waitPid, timers, nrProcess>>

-----------------------------------------------------------------------------
(* do_exit *)

\* Whom do_exit tells: the parent, and init when it inherits a zombie from p.
\* Mutant: the parent is not told.
Notified_Init(p) == {q \in {init} : \E c \in Children(p) : state[c] = "ZOMBIE"}
Notified(p) ==
    {parent[p]} \cup {q \in {init} : \E c \in Children(p) : state[c] = "ZOMBIE"}

\* The loop that hands p's children over to init.  Mutant: it is left out.
Reparented_Not(p) == parent
Reparented(p) == [q \in Procs |-> IF q \in Children(p) THEN init ELSE parent[q]]

\* do_exit of a process other than init: become a zombie, wake a parent that
\* waits for a child, hand all children over to init, and wake init if one of
\* them is a zombie already.
Exit(p) ==
    /\ p # init
    /\ LET st   == [state EXCEPT ![p] = "ZOMBIE"]
           wake == {q \in Notified(p) : waitState[q] = "CHILD"}
       IN /\ state' = WokenState(st, wake)
          /\ waitState' = WokenWait(waitState, st, wake)
          /\ rq' = WokenQueue(rq, st, wake)
    /\ parent' = Reparented(p)
    /\ waitPid' = [waitPid EXCEPT ![p] = AnyChild]
    /\ pc' = [pc EXCEPT ![p] = "exited"]
    /\ inSched' = TRUE
    /\ UNCHANGED <<current, needResched, exiting, timers, nrProcess>>

\* do_exit of init panics.
Panic(p) ==
    /\ p = init
    /\ pc' = [pc EXCEPT ![p] = "panic"]
    /\ UNCHANGED <<schedVars, parent, exiting, waitPid, timers, nrProcess>>

DoExit(p) == Exit(p) \/ Panic(p)

\* sys_exit
SysExit(p) ==
    /\ Running(p)
    /\ pc[p] = "user"
    /\ DoExit(p)

-----------------------------------------------------------------------------
(* do_wait *)

\* sys_wait(pid): enter do_wait.
SysWait(p, pid) ==
    /\ Running(p)
    /\ pc[p] = "user"
    /\ waitPid' = [waitPid EXCEPT ![p] = pid]
    /\ pc' = [pc EXCEPT ![p] = "wait"]
    /\ UNCHANGED <<schedVars, parent, exiting, timers, nrProcess>>

\* The children the pid argument names.  Mutant: pid 0 names none.
Awaited_NoAny(p) == {q \in Children(p) : waitPid[p] = q}
Awaited(p) == {q \in Children(p) : waitPid[p] \in {AnyChild, q}}
Reapable(p) == {q \in Awaited(p) : state[q] = "ZOMBIE"}

\* found: unhash, unlink and free the zombie q, and return 0.  init_main then
\* calls schedule() before it waits again.
Reap(p, q) ==
    /\ Running(p)
    /\ pc[p] = "wait"
    /\ q \in Reapable(p)
    /\ state' = [state EXCEPT ![q] = "UNUSED"]
    /\ nrProcess' = Unlinked
    /\ parent' = [parent EXCEPT ![q] = idle]
    /\ waitPid' = [waitPid EXCEPT ![p] = AnyChild]
    /\ exiting' = [exiting EXCEPT ![q] = FALSE]
    /\ pc' = [pc EXCEPT ![q] = "none", ![p] = IF p = init THEN "again" ELSE "trapret"]
    /\ inSched' = (p = init)
    /\ UNCHANGED <<waitState, rq, current, needResched, timers>>

\* There is an awaited child, but none is a zombie: sleep.
WaitSleeps(p) ==
    /\ Running(p)
    /\ pc[p] = "wait"
    /\ Awaited(p) # {}
    /\ Reapable(p) = {}
    /\ state' = [state EXCEPT ![p] = "SLEEPING"]
    /\ waitState' = [waitState EXCEPT ![p] = "CHILD"]
    /\ pc' = [pc EXCEPT ![p] = "waited"]
    /\ inSched' = TRUE
    /\ UNCHANGED <<rq, current, needResched, parent, exiting, waitPid, timers, nrProcess>>

\* The test of PF_EXITING after schedule().  Mutant: it is left out.
KilledInWait_Ignored(p) == FALSE
KilledInWait(p) == exiting[p]

\* Back from schedule(): exit if killed meanwhile, else look again.
Waited(p) ==
    /\ Running(p)
    /\ pc[p] = "waited"
    /\ \/ KilledInWait(p) /\ DoExit(p)
       \/ /\ ~KilledInWait(p)
          /\ pc' = [pc EXCEPT ![p] = "wait"]
          /\ UNCHANGED <<schedVars, parent, exiting, waitPid, timers, nrProcess>>

\* No such child: -E_BAD_PROC, which ends init_main.
WaitFails(p) ==
    /\ Running(p)
    /\ pc[p] = "wait"
    /\ Awaited(p) = {}
    /\ pc' = [pc EXCEPT ![p] = IF p = init THEN "done" ELSE "trapret"]
    /\ waitPid' = [waitPid EXCEPT ![p] = AnyChild]
    /\ UNCHANGED <<schedVars, parent, exiting, timers, nrProcess>>

-----------------------------------------------------------------------------
(* do_kill, do_yield, do_sleep *)

\* Whom do_kill wakes.
KillWakes(t) == {q \in {t} : ~exiting[q] /\ Interruptible(waitState[q])}

\* sys_kill(t): set PF_EXITING and wake t from an interruptible sleep; nothing
\* but an error code when t is marked already.
Kill(p, t) ==
    /\ Running(p)
    /\ pc[p] = "user"
    /\ t \in Live
    /\ state' = WokenState(state, KillWakes(t))
    /\ waitState' = WokenWait(waitState, state, KillWakes(t))
    /\ rq' = WokenQueue(rq, state, KillWakes(t))
    /\ exiting' = [exiting EXCEPT ![t] = TRUE]
    /\ pc' = [pc EXCEPT ![p] = "trapret"]
    /\ UNCHANGED <<current, inSched, needResched, parent, waitPid, timers, nrProcess>>

\* sys_yield
Yield(p) ==
    /\ Running(p)
    /\ pc[p] = "user"
    /\ needResched' = [needResched EXCEPT ![p] = TRUE]
    /\ pc' = [pc EXCEPT ![p] = "trapret"]
    /\ UNCHANGED <<state, waitState, rq, current, inSched>>
    /\ UNCHANGED <<parent, exiting, waitPid, timers, nrProcess>>

\* sys_sleep(time), time > 0, up to the call of schedule().
Sleep(p) ==
    /\ Running(p)
    /\ pc[p] = "user"
    /\ state' = [state EXCEPT ![p] = "SLEEPING"]
    /\ waitState' = [waitState EXCEPT ![p] = "TIMER"]
    /\ timers' = timers \cup {p}
    /\ pc' = [pc EXCEPT ![p] = "slept"]
    /\ inSched' = TRUE
    /\ UNCHANGED <<rq, current, needResched, parent, exiting, waitPid, nrProcess>>

\* Mutant: do_sleep does not call del_timer after schedule().
TimerDeleted_Not(p) == timers
TimerDeleted(p) == timers \ {p}

\* do_sleep after schedule(): del_timer, whether it has expired or not.
Slept(p) ==
    /\ Running(p)
    /\ pc[p] = "slept"
    /\ timers' = TimerDeleted(p)
    /\ pc' = [pc EXCEPT ![p] = "trapret"]
    /\ UNCHANGED <<schedVars, parent, exiting, waitPid, nrProcess>>

-----------------------------------------------------------------------------
(* trap *)

\* The end of trap() for a trap from user mode.
TrapReturn(p) ==
    /\ Running(p)
    /\ pc[p] = "trapret"
    /\ \/ exiting[p] /\ DoExit(p)
       \/ /\ ~exiting[p]
          /\ inSched' = needResched[p]
          /\ pc' = [pc EXCEPT ![p] = "user"]
          /\ UNCHANGED <<state, waitState, rq, current, needResched>>
          /\ UNCHANGED <<parent, exiting, waitPid, timers, nrProcess>>

\* Interrupts are on in user mode, in idleproc and in init.
InterruptsOn ==
    \/ current \in {idle, init}
    \/ ~inSched /\ pc[current] = "user"

\* The clock interrupt: the timers of the processes in due expire and wake
\* them, and the scheduling class looks at current's time slice.
Tick(due, sliceEnds) ==
    /\ InterruptsOn
    /\ due \subseteq timers
    /\ state' = WokenState(state, due)
    /\ waitState' = WokenWait(waitState, state, due)
    /\ rq' = WokenQueue(rq, state, due)
    /\ timers' = timers \ due
    /\ ProcTick(sliceEnds)
    /\ pc' = IF current \in {idle, init} THEN pc ELSE [pc EXCEPT ![current] = "trapret"]
    /\ UNCHANGED <<current, inSched, parent, exiting, waitPid, nrProcess>>

-----------------------------------------------------------------------------
(* init_main and idleproc *)

\* init_main creates user_main, then waits for any child.
InitStart(c) ==
    /\ Running(init)
    /\ pc[init] = "start"
    /\ DoFork(init, c)
    /\ pc' = [pc EXCEPT ![init] = "wait", ![c] = "user"]

\* while (do_wait(0, NULL) == 0) schedule();
InitAgain ==
    /\ Running(init)
    /\ pc[init] = "again"
    /\ pc' = [pc EXCEPT ![init] = "wait"]
    /\ UNCHANGED <<schedVars, parent, exiting, waitPid, timers, nrProcess>>

Idle == CpuIdle /\ UNCHANGED procVars

Switch == Schedule /\ UNCHANGED procVars

-----------------------------------------------------------------------------
\* Steps the kernel takes by itself.
KernelStep ==
    \/ Switch
    \/ Idle
    \/ InitAgain
    \/ \E c \in Procs : InitStart(c)
    \/ \E p \in Procs :
           \/ \E q \in Procs : Reap(p, q)
           \/ WaitSleeps(p)
           \/ Waited(p)
           \/ WaitFails(p)
           \/ Slept(p)
           \/ TrapReturn(p)

\* System calls a user program makes.
UserStep ==
    \E p \in Procs :
        \/ \E c \in Procs : Fork(p, c)
        \/ CallReturns(p)
        \/ SysExit(p)
        \/ \E pid \in Procs \cup {AnyChild} : SysWait(p, pid)
        \/ \E t \in Procs : Kill(p, t)
        \/ Yield(p)
        \/ Sleep(p)

Interrupt == \E due \in SUBSET timers, sliceEnds \in BOOLEAN : Tick(due, sliceEnds)

\* After a panic, or when init_main has ended, the kernel does nothing more.
Stopped == Halted /\ UNCHANGED vars

Next == Stopped \/ (~Halted /\ (KernelStep \/ UserStep \/ Interrupt))

Spec == Init /\ [][Next]_vars
-----------------------------------------------------------------------------
(* Safety *)

\* A zombie is inert (do_exit, wakeup_proc's assertion): nothing is left that
\* could wake or run it again -- no wait state, no timer, no place in the run
\* queue -- and the CPU stays with it only until its last schedule().
ZombieInert ==
    \A p \in Procs :
        state[p] = "ZOMBIE" =>
            /\ waitState[p] = "NONE"
            /\ p \notin timers
            /\ rq[p] = 0
            /\ current = p => inSched

\* Every process but init has a parent that has not exited: do_exit hands all
\* children over to init, so that no zombie is left without a reaper.
ParentAlive ==
    \A p \in Live \ {init} :
        /\ parent[p] \in Live
        /\ state[parent[p]] # "ZOMBIE"

\* No lost wakeup between do_exit and do_wait: a process asleep in do_wait has
\* no zombie child it waits for.
NoMissedChild ==
    \A p \in Procs : waitState[p] = "CHILD" => Reapable(p) = {}

\* A process is in timer_list only between the start of do_sleep and its
\* del_timer, even when do_kill wakes it first: timer_list holds no timer on a
\* stack frame that is gone.
TimerOfSleeper == \A p \in timers : pc[p] = "slept"

\* nr_process counts idleproc and every process not yet reaped.
NrProcessExact == nrProcess = Cardinality(Live) + 1

\* The assertions at the end of init_main: when no child is left to wait for,
\* init and idleproc are the only processes.
InitEndsAlone == pc[init] = "done" => Live = {init} /\ nrProcess = 2

\* A zombie goes away only when its own parent, running in do_wait, reaps it.
ReapedByParent ==
    [][\A p \in Procs :
          state[p] = "ZOMBIE" /\ state'[p] # "ZOMBIE" =>
              state'[p] = "UNUSED" /\ Running(parent[p]) /\ pc[parent[p]] = "wait"]_vars

-----------------------------------------------------------------------------
(* Liveness *)

\* The running kernel code goes on; a process that stays in the run queue is
\* picked at last (the contract of pick_next); clock interrupts keep coming,
\* a time slice ends, and a timer expires.
Fairness ==
    /\ WF_vars(~Halted /\ KernelStep)
    /\ \A p \in Procs : SF_vars(~Halted /\ Switch /\ current' = p)
    /\ SF_vars(~Halted /\ \E due \in SUBSET timers : Tick(due, TRUE))
    /\ \A p \in Procs :
           SF_vars(~Halted /\ \E due \in SUBSET timers : p \in due /\ Tick(due, TRUE))

FairSpec == Spec /\ Fairness

\* Orphans are reaped: a zombie that init has inherited is freed at last.
OrphanReaped ==
    \A p \in Procs :
        (state[p] = "ZOMBIE" /\ parent[p] = init) ~> (state[p] = "UNUSED" \/ Halted)

\* do_kill reaches a process that sleeps interruptibly: once PF_EXITING is set
\* and it has been woken in do_wait or do_sleep, it exits without returning to
\* its program.
KilledSleeperExits ==
    \A p \in Procs :
        (exiting[p] /\ state[p] = "RUNNABLE" /\ pc[p] \in {"waited", "slept"})
            ~> (state[p] \in {"ZOMBIE", "UNUSED"} \/ Halted)

\* What do_kill promises ("kill process with pid by set this process's flags
\* with PF_EXITING"): a process that do_kill has marked exits at last.
KillTakesEffect ==
    \A p \in Procs \ {init} :
        exiting[p] ~> (state[p] \in {"ZOMBIE", "UNUSED"} \/ Halted)
=============================================================================
