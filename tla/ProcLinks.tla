----------------------------- MODULE ProcLinks ------------------------------
(***************************************************************************)
(* The links of the family tree of lab8 (kern/process/proc.c): proc->cptr, *)
(* the youngest child, and proc->optr and proc->yptr, the older and the    *)
(* younger sibling, as set_links, remove_links and do_exit maintain them.  *)
(*                                                                         *)
(* Interrupts are off in all of them.  The loop in which do_exit hands the *)
(* children over to init is one step for each child.  nr_process and the   *)
(* states of processes, but for ZOMBIE, are in Proc.                       *)
(***************************************************************************)
EXTENDS Naturals, FiniteSets, Sequences

CONSTANTS Procs, idle, init, NULL

LinksAssumption ==
    IsFiniteSet(Procs) /\ init \in Procs /\ idle \notin Procs /\ NULL \notin Procs \cup {idle}

VARIABLES state,     \* "UNUSED", "ALIVE" or "ZOMBIE"
          parent, cptr, optr, yptr,
          leaving    \* the process in the loop of do_exit, or NULL

vars == <<state, parent, cptr, optr, yptr, leaving>>

Threads == Procs \cup {idle}
Pointer == Threads \cup {NULL}

TypeOK ==
    /\ state \in [Procs -> {"UNUSED", "ALIVE", "ZOMBIE"}]
    /\ {parent, optr, yptr} \subseteq [Procs -> Pointer]
    /\ cptr \in [Threads -> Pointer]
    /\ leaving \in Pointer

Init ==
    /\ state = [p \in Procs |-> "UNUSED"]
    /\ parent = [p \in Procs |-> NULL]
    /\ cptr = [p \in Threads |-> NULL]
    /\ optr = [p \in Procs |-> NULL]
    /\ yptr = [p \in Procs |-> NULL]
    /\ leaving = NULL

Alive == {idle} \cup {p \in Procs : state[p] = "ALIVE"}

\* f, but with f[p] = v if p is a process.
Set(f, p, v) == IF p = NULL THEN f ELSE [f EXCEPT ![p] = v]

-----------------------------------------------------------------------------
\* The yptr of the sibling that becomes the second youngest.
\* Mutant: set_links does not set it.
Younger_Not(p, c) == yptr
Younger(p, c) == Set(yptr, cptr[p], c)

\* do_fork: alloc_proc and set_links of c, a child of p.  idleproc creates init
\* and nothing else.
SetLinks(p, c) ==
    /\ leaving = NULL
    /\ p \in Alive
    /\ state[c] = "UNUSED"
    /\ p = idle <=> c = init
    /\ state' = [state EXCEPT ![c] = "ALIVE"]
    /\ parent' = [parent EXCEPT ![c] = p]
    /\ optr' = [optr EXCEPT ![c] = cptr[p]]
    /\ yptr' = [Younger(p, c) EXCEPT ![c] = NULL]
    /\ cptr' = [cptr EXCEPT ![p] = c, ![c] = NULL]
    /\ UNCHANGED leaving

\* The cptr that change when c goes.  Mutant: the parent of the youngest child
\* keeps its pointer.
Eldest_Kept(c) == cptr
Eldest(c) == IF yptr[c] = NULL THEN [cptr EXCEPT ![parent[c]] = optr[c]] ELSE cptr

\* do_wait of p: remove_links of the zombie c, which is then freed.
RemoveLinks(p, c) ==
    /\ leaving = NULL
    /\ p \in Alive
    /\ state[c] = "ZOMBIE"
    /\ parent[c] = p
    /\ cptr' = Eldest(c)
    /\ yptr' = Set(yptr, optr[c], yptr[c])
    /\ optr' = Set(optr, yptr[c], optr[c])
    /\ state' = [state EXCEPT ![c] = "UNUSED"]
    /\ UNCHANGED <<parent, leaving>>

\* do_exit of p, up to its loop.
Exit(p) ==
    /\ leaving = NULL
    /\ state[p] = "ALIVE"
    /\ p # init
    /\ state' = [state EXCEPT ![p] = "ZOMBIE"]
    /\ leaving' = p
    /\ UNCHANGED <<parent, cptr, optr, yptr>>

\* The optr of an adopted child c.
Older(c) == [optr EXCEPT ![c] = cptr[init]]

\* A round of the loop: init adopts the youngest child.
Adopt ==
    /\ leaving # NULL
    /\ cptr[leaving] # NULL
    /\ LET c == cptr[leaving]
       IN /\ cptr' = [cptr EXCEPT ![leaving] = optr[c], ![init] = c]
          /\ yptr' = [Set(yptr, cptr[init], c) EXCEPT ![c] = NULL]
          /\ optr' = Older(c)
          /\ parent' = [parent EXCEPT ![c] = init]
    /\ UNCHANGED <<state, leaving>>

\* The end of the loop.
Left ==
    /\ leaving # NULL
    /\ cptr[leaving] = NULL
    /\ leaving' = NULL
    /\ UNCHANGED <<state, parent, cptr, optr, yptr>>

Next ==
    \/ \E p \in Threads, c \in Procs : SetLinks(p, c) \/ RemoveLinks(p, c)
    \/ \E p \in Procs : Exit(p)
    \/ Adopt
    \/ Left

Spec == Init /\ [][Next]_vars
-----------------------------------------------------------------------------
\* The walk of do_wait: along optr from cptr, as far as n processes.  (idleproc,
\* which has no optr, is nobody's child.)
Line[n \in 0 .. Cardinality(Procs) + 1] ==
    [p \in Pointer |-> IF n = 0 \/ p \notin Procs THEN <<>> ELSE <<p>> \o Line[n - 1][optr[p]]]

children == [p \in Threads |-> Line[Cardinality(Procs) + 1][cptr[p]]]

F == INSTANCE Family

\* The links are a family tree: whatever the order of forks, exits and waits,
\* do_wait finds the children of a process, all of them and no other.
LinksAreFamily == F!Spec

\* The links agree with one another: yptr leads back along optr, cptr to the
\* youngest, and nothing points to a process that has been freed; past the loop
\* of do_exit a zombie has no children.  (And every variable has its type.)
LinksAgree ==
    /\ TypeOK
    /\ \A c \in Procs :
           /\ state[c] = "UNUSED" =>
                  \A p \in Procs : state[p] # "UNUSED" => c \notin {optr[p], yptr[p], cptr[p]}
           /\ state[c] # "UNUSED" /\ parent[c] # leaving =>
                  /\ yptr[c] = NULL => cptr[parent[c]] = c
                  /\ yptr[c] # NULL => optr[yptr[c]] = c /\ parent[yptr[c]] = parent[c]
                  /\ optr[c] # NULL => yptr[optr[c]] = c
           /\ state[c] = "ZOMBIE" /\ leaving # c => cptr[c] = NULL
=============================================================================
