------------------------------- MODULE SemAbs -------------------------------
(***************************************************************************)
(* What a semaphore promises.  A process that finds no unit waits in line; *)
(* a unit given back goes to the first in line, if there is one, who has   *)
(* it from then on and returns from down() some time later.                *)
(***************************************************************************)
EXTENDS Naturals, Sequences

CONSTANTS Procs, Sems

VARIABLES units,   \* the free units of a semaphore
          line,    \* the processes in line for a semaphore
          doing    \* "other", "waiting" or "granted"

vars == <<units, line, doing>>

Init ==
    /\ units \in [Sems -> Nat]
    /\ line = [s \in Sems |-> <<>>]
    /\ doing = [p \in Procs |-> "other"]

Take(s) ==
    /\ units[s] > 0
    /\ units' = [units EXCEPT ![s] = @ - 1]
    /\ UNCHANGED <<line, doing>>

Wait(p, s) ==
    /\ doing[p] = "other"
    /\ units[s] = 0
    /\ line' = [line EXCEPT ![s] = Append(@, p)]
    /\ doing' = [doing EXCEPT ![p] = "waiting"]
    /\ UNCHANGED units

Give(s) ==
    \/ /\ line[s] = <<>>
       /\ units' = [units EXCEPT ![s] = @ + 1]
       /\ UNCHANGED <<line, doing>>
    \/ /\ line[s] # <<>>
       /\ line' = [line EXCEPT ![s] = Tail(@)]
       /\ doing' = [doing EXCEPT ![Head(line[s])] = "granted"]
       /\ UNCHANGED units

Return(p) ==
    /\ doing[p] = "granted"
    /\ doing' = [doing EXCEPT ![p] = "other"]
    /\ UNCHANGED <<units, line>>

Next ==
    \/ \E s \in Sems : Take(s) \/ Give(s) \/ \E p \in Procs : Wait(p, s)
    \/ \E p \in Procs : Return(p)

Spec == Init /\ [][Next]_vars
=============================================================================
