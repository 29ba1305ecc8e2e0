------------------------------ MODULE PidAlloc ------------------------------
(***************************************************************************)
(* What the allocation of process identifiers promises: a new process gets *)
(* an identifier that no other process has, whichever; a reaped process    *)
(* gives its identifier back.                                              *)
(***************************************************************************)
CONSTANTS Procs,   \* the processes other than idleproc
          Pids,    \* the identifiers such a process can have
          NoPid    \* of a process that is not linked

VARIABLE pid       \* proc->pid

Init == pid = [c \in Procs |-> NoPid]

Allocate(c) ==
    /\ pid[c] = NoPid
    /\ \E i \in Pids :
           /\ \A d \in Procs : pid[d] # i
           /\ pid' = [pid EXCEPT ![c] = i]

Release(c) ==
    /\ pid[c] # NoPid
    /\ pid' = [pid EXCEPT ![c] = NoPid]

Next == \E c \in Procs : Allocate(c) \/ Release(c)

Spec == Init /\ [][Next]_pid
=============================================================================
