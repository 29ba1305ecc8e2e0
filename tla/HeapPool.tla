------------------------------ MODULE HeapPool ------------------------------
(***************************************************************************)
(* What a kernel heap promises: whoever allocates memory has it for        *)
(* himself until he gives it back.                                         *)
(***************************************************************************)
EXTENDS Integers

VARIABLE held      \* what has been allocated: <<start, length>>

Disjoint(x, y) == x[1] + x[2] <= y[1] \/ y[1] + y[2] <= x[1]

Init == held = {}

Alloc(x) == (\A y \in held : Disjoint(x, y)) /\ held' = held \cup {x}
Free(x) == held' = held \ {x}

Next == (\E x \in held' \ held : Alloc(x)) \/ (\E x \in held : Free(x))

Spec == Init /\ [][Next]_held
=============================================================================
