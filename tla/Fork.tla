-------------------------------- MODULE Fork --------------------------------
(***************************************************************************)
(* What do_fork gives a process besides its place in the scheduler: an     *)
(* identifier (GetPid), and memory for its proc_struct, kernel stack and   *)
(* mm_struct and a table of open files (Files).  The two share no state,   *)
(* so that neither restricts the other: a behaviour is one of either of    *)
(* them, and the other one stays as it was initially.                      *)
(***************************************************************************)
EXTENDS GetPid

CONSTANTS Owners, Regular, Dirs, root, NENTRY, STD, Structs, MaxLost, NULL

VARIABLES part,
          state, mm, filesp, created, fd_array, pwd, inode, heap, lostRef, lostMm, stranded

filesVars == <<state, mm, filesp, created, fd_array, pwd, inode, heap,
               lostRef, lostMm, stranded>>

F == INSTANCE Files WITH Procs <- Owners

ASSUME OwnersAssumption == F!FilesAssumption

ForkInit == Init /\ F!Init /\ part \in {"pids", "files"}

ForkNext ==
    /\ UNCHANGED part
    /\ \/ part = "pids" /\ Next /\ UNCHANGED filesVars
       \/ part = "files" /\ F!Next /\ UNCHANGED vars

\* get_pid, once called, runs to its end.
ForkSpec ==
    /\ ForkInit
    /\ [][ForkNext]_<<part, vars, filesVars>>
    /\ WF_vars(part = "pids" /\ GetPidStep)

\* The invariants of Files, which it states with the code they are about.
InodesExact == F!InodesExact
ResourcesExact == F!ResourcesExact
=============================================================================
