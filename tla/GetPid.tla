------------------------------- MODULE GetPid -------------------------------
(***************************************************************************)
(* get_pid of lab8 (kern/process/proc.c) with its callers do_fork, which   *)
(* links the new process into proc_list, and do_wait, which unlinks a      *)
(* reaped one.  get_pid remembers an interval: no process has an           *)
(* identifier strictly between last_pid and next_safe, so that most calls  *)
(* need not look at proc_list at all.                                      *)
(*                                                                         *)
(* do_fork calls get_pid with interrupts off, so nothing changes proc_list *)
(* during the scan; a step of the model is a round of its loop.  proc_list *)
(* is the set of the processes linked in it, and a scan may meet them in   *)
(* any order.                                                              *)
(***************************************************************************)
EXTENDS Naturals, FiniteSets

CONSTANTS Procs,        \* the proc_structs other than idleproc's
          MAX_PROCESS,  \* bound on the processes, idleproc included
          MAX_PID       \* bound on their identifiers

\* The static_assert of get_pid.
ASSUME PidAssumption ==
    /\ MAX_PROCESS \in Nat \ {0}
    /\ MAX_PID \in Nat
    /\ MAX_PID > MAX_PROCESS

VARIABLES pid,        \* proc->pid, 0 when proc is not linked in proc_list
          last_pid,   \* the identifier allocated last, or the candidate
          next_safe,  \* the end of the interval known to be free
          unseen,     \* what the scan of proc_list has yet to meet
          pc          \* "idle": outside get_pid; "scan": in its loop; "found"

vars == <<pid, last_pid, next_safe, unseen, pc>>

Pids == 1 .. MAX_PID - 1
NoPid == 0

\* The processes linked in proc_list.
procList == {c \in Procs : pid[c] # NoPid}

TypeOK ==
    /\ pid \in [Procs -> Pids \cup {NoPid}]
    /\ last_pid \in 1 .. MAX_PID
    /\ next_safe \in 1 .. MAX_PID
    /\ unseen \subseteq procList
    /\ pc \in {"idle", "scan", "found"}

Init ==
    /\ pid = [c \in Procs |-> NoPid]
    /\ last_pid = MAX_PID
    /\ next_safe = MAX_PID
    /\ unseen = {}
    /\ pc = "idle"

-----------------------------------------------------------------------------
\* inside: start a scan for the candidate p with the largest interval.
Scan(p) ==
    /\ last_pid' = p
    /\ next_safe' = MAX_PID
    /\ unseen' = procList
    /\ pc' = "scan"

\* Whether the fast path has to look at proc_list after all.
\* Mutant: off by one, the end of the interval is taken for free.
LeavesInterval_Late(p) == p > next_safe
LeavesInterval(p) == p >= next_safe

\* do_fork calls get_pid (nr_process also counts idleproc, which is not in
\* proc_list): wrap, scan, or take the next identifier of the interval.
Call ==
    /\ pc = "idle"
    /\ Cardinality(procList) + 1 < MAX_PROCESS
    /\ LET p == last_pid + 1
       IN \/ p >= MAX_PID /\ Scan(1)
          \/ p < MAX_PID /\ LeavesInterval(p) /\ Scan(p)
          \/ /\ p < MAX_PID /\ ~LeavesInterval(p)
             /\ last_pid' = p
             /\ pc' = "found"
             /\ UNCHANGED <<next_safe, unseen>>
    /\ UNCHANGED pid

\* The candidate after last_pid.  Mutant: always from the start.
Candidate_First == 1
Candidate == IF last_pid + 1 >= MAX_PID THEN 1 ELSE last_pid + 1

\* The scan meets a process that has the candidate: try the next one, and
\* start again when that leaves the interval narrowed so far.
Collision(q) ==
    /\ pid[q] = last_pid
    /\ \/ /\ last_pid + 1 < next_safe
          /\ last_pid' = last_pid + 1
          /\ unseen' = unseen \ {q}
          /\ UNCHANGED <<next_safe, pc>>
       \/ /\ last_pid + 1 >= next_safe
          /\ Scan(Candidate)

\* The scan meets another process.
Passed(q) == IF pid[q] > last_pid /\ next_safe > pid[q] THEN pid[q] ELSE next_safe

Look(q) ==
    /\ pc = "scan"
    /\ q \in unseen
    /\ \/ Collision(q)
       \/ /\ pid[q] # last_pid
          /\ next_safe' = Passed(q)
          /\ unseen' = unseen \ {q}
          /\ UNCHANGED <<last_pid, pc>>
    /\ UNCHANGED pid

\* The scan has met every process.
Finish ==
    /\ pc = "scan"
    /\ unseen = {}
    /\ pc' = "found"
    /\ UNCHANGED <<pid, last_pid, next_safe, unseen>>

\* do_fork: proc->pid = get_pid(), and set_links.
Link(c) ==
    /\ pc = "found"
    /\ c \notin procList
    /\ pid' = [pid EXCEPT ![c] = last_pid]
    /\ pc' = "idle"
    /\ UNCHANGED <<last_pid, next_safe, unseen>>

\* do_wait: remove_links of a zombie, which is then freed.
Unlink(c) ==
    /\ pc = "idle"
    /\ c \in procList
    /\ pid' = [pid EXCEPT ![c] = NoPid]
    /\ UNCHANGED <<last_pid, next_safe, unseen, pc>>

GetPidStep == Finish \/ \E c \in Procs : Look(c) \/ Link(c)

Next == Call \/ GetPidStep \/ \E c \in Procs : Unlink(c)

Spec == Init /\ [][Next]_vars
-----------------------------------------------------------------------------
\* The allocator as its callers see it.
Alloc == INSTANCE PidAlloc

\* Every identifier get_pid hands out is in range and no process has it.
PidsUnique == Alloc!Spec

\* What the fast path relies on: between two calls no process has an
\* identifier strictly between last_pid and next_safe.
IntervalFree ==
    pc # "scan" => \A q \in procList : ~(last_pid < pid[q] /\ pid[q] < next_safe)

\* The scan always ends: with more identifiers than processes, it cannot
\* collide for ever.
ScanEnds == pc = "scan" ~> pc = "idle"
=============================================================================
