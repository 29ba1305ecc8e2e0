-------------------------------- MODULE Sem ---------------------------------
(***************************************************************************)
(* Semaphores and wait queues of lab8 (kern/sync/sem.c, wait.c) on top of  *)
(* the scheduler core.  The actions are parts of the actions of a client,  *)
(* which says where a process goes on.                                     *)
(*                                                                         *)
(* up() hands the semaphore over: a waiting process is taken out of the    *)
(* queue and woken without value ever being raised.                        *)
(***************************************************************************)
EXTENDS Sched, SequencesExt

CONSTANT Sems    \* the semaphores

VARIABLES value,        \* sem->value
          queue,        \* sem->wait_queue: the processes, in order
          wakeupFlags   \* wakeup_flags in the wait_t of a process

semVars == <<value, queue, wakeupFlags>>

SemTypeOK ==
    /\ value \in [Sems -> Nat]
    /\ queue \in [Sems -> Seq(Procs)]
    /\ wakeupFlags \in [Procs -> {"INTERRUPTED", "KSEM"}]

\* sem_init(s, v[s])
SemInit(v) ==
    /\ value = v
    /\ queue = [s \in Sems |-> <<>>]
    /\ wakeupFlags = [p \in Procs |-> "INTERRUPTED"]

-----------------------------------------------------------------------------
\* The test of __down.
Free(s) == value[s] > 0

\* down(s) without waiting.
DownNow(s) ==
    /\ Free(s)
    /\ value' = [value EXCEPT ![s] = @ - 1]
    /\ UNCHANGED <<schedVars, queue, wakeupFlags>>

\* wait_queue_add: at the end.  Mutant: at the front.
Queued_Front(s, p) == <<p>> \o queue[s]
Queued(s, p) == Append(queue[s], p)

\* down(s) up to the call of schedule(): wait_current_set.
DownSleeps(p, s) ==
    /\ ~Free(s)
    /\ state' = [state EXCEPT ![p] = "SLEEPING"]
    /\ waitState' = [waitState EXCEPT ![p] = "KSEM"]
    /\ wakeupFlags' = [wakeupFlags EXCEPT ![p] = "INTERRUPTED"]
    /\ queue' = [queue EXCEPT ![s] = Queued(s, p)]
    /\ inSched' = TRUE
    /\ UNCHANGED <<rq, current, needResched, value>>

\* down(s) after schedule(): wait_current_del, if the wait_t is still linked.
Downed(p, s) ==
    /\ queue' = [queue EXCEPT ![s] = RemoveFirst(@, p)]
    /\ UNCHANGED <<schedVars, value, wakeupFlags>>

\* What up(s) adds to value when it wakes a process: nothing.
\* Mutant: it raises value as well.
HandedOver_Raised(s) == value[s] + 1
HandedOver(s) == value[s]

\* up(s)
Up(s) ==
    \/ /\ queue[s] = <<>>
       /\ value' = [value EXCEPT ![s] = @ + 1]
       /\ UNCHANGED <<schedVars, queue, wakeupFlags>>
    \/ /\ queue[s] # <<>>
       /\ LET p == Head(queue[s])
          IN /\ queue' = [queue EXCEPT ![s] = Tail(@)]
             /\ wakeupFlags' = [wakeupFlags EXCEPT ![p] = "KSEM"]
             /\ state' = WokenState(state, {p})
             /\ waitState' = WokenWait(waitState, state, {p})
             /\ rq' = WokenQueue(rq, state, {p})
       /\ value' = [value EXCEPT ![s] = HandedOver(s)]
       /\ UNCHANGED <<current, inSched, needResched>>
=============================================================================
