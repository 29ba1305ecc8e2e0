------------------------------- MODULE Timers -------------------------------
(***************************************************************************)
(* What the kernel's timers promise: a timer added for n ticks fires at    *)
(* the n-th tick from then on, unless it is deleted before.                *)
(***************************************************************************)
EXTENDS Naturals

CONSTANTS Procs,   \* the processes, each with at most one timer
          MaxTime  \* the largest number of ticks a timer is set to

VARIABLES left,    \* the ticks until the timer of a process fires, 0 without
          woken    \* the processes the last tick has woken

vars == <<left, woken>>

Init ==
    /\ left = [p \in Procs |-> 0]
    /\ woken = {}

Add(p, n) ==
    /\ left[p] = 0
    /\ left' = [left EXCEPT ![p] = n]
    /\ woken' = {}

Del(p) ==
    /\ left' = [left EXCEPT ![p] = 0]
    /\ woken' = {}

Tick ==
    /\ left' = [p \in Procs |-> IF left[p] = 0 THEN 0 ELSE left[p] - 1]
    /\ woken' = {p \in Procs : left[p] = 1}

Next ==
    \/ \E p \in Procs : Del(p) \/ \E n \in 1 .. MaxTime : Add(p, n)
    \/ Tick

Spec == Init /\ [][Next]_vars
=============================================================================
