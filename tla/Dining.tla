------------------------------- MODULE Dining -------------------------------
(***************************************************************************)
(* The dining philosophers: each one thinks, gets hungry and eats, and     *)
(* never while a neighbour eats.                                           *)
(***************************************************************************)
EXTENDS Naturals

CONSTANT N    \* the number of philosophers

VARIABLE phase

Phils == 0 .. N - 1
Neighbours(i) == {(i + N - 1) % N, (i + 1) % N}

Init == phase = [i \in Phils |-> "thinking"]

Hunger(i) ==
    /\ phase[i] = "thinking"
    /\ phase' = [phase EXCEPT ![i] = "hungry"]

Eat(i) ==
    /\ phase[i] = "hungry"
    /\ \A j \in Neighbours(i) : phase[j] # "eating"
    /\ phase' = [phase EXCEPT ![i] = "eating"]

Think(i) ==
    /\ phase[i] = "eating"
    /\ phase' = [phase EXCEPT ![i] = "thinking"]

Next == \E i \in Phils : Hunger(i) \/ Eat(i) \/ Think(i)

Spec == Init /\ [][Next]_phase
=============================================================================
