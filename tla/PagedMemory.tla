---------------------------- MODULE PagedMemory -----------------------------
(***************************************************************************)
(* What paging promises a program: its memory has what it stored last, as  *)
(* if it all were resident.  And what a first-in first-out replacement     *)
(* does with it: a page that is missing takes the place of the one that    *)
(* has been resident longest.                                              *)
(***************************************************************************)
EXTENDS Sequences, Integers

CONSTANTS Addresses, Values, Frames   \* Frames: how many pages can be resident

VARIABLES mem,        \* the values stored, for the addresses that have been touched
          resident    \* addresses in the order they came into memory

Init == mem = << >> /\ resident = << >>

Resident(a) == \E i \in 1 .. Len(resident) : resident[i] = a

Arrive(a) ==
    resident' = Append(IF Len(resident) = Frames THEN Tail(resident) ELSE resident, a)

\* The first access to an address finds any value.
Touch(a) ==
    /\ a \notin DOMAIN mem
    /\ Arrive(a)
    /\ \E x \in Values :
          mem' = [b \in DOMAIN mem \cup {a} |-> IF b = a THEN x ELSE mem[b]]

Fetch(a) == a \in DOMAIN mem /\ ~Resident(a) /\ Arrive(a) /\ mem' = mem

Store(a, x) == Resident(a) /\ mem' = [mem EXCEPT ![a] = x] /\ UNCHANGED resident

Next == \E a \in Addresses : Touch(a) \/ Fetch(a) \/ \E x \in Values : Store(a, x)

Spec == Init /\ [][Next]_<<mem, resident>>
=============================================================================
