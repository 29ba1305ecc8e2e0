--------------------------- MODULE PrivateMemory ----------------------------
(***************************************************************************)
(* What virtual memory promises: every process has a memory of its own.  A *)
(* child starts with a copy of its parent's, and from then on nothing that *)
(* one process does is seen by another.                                    *)
(***************************************************************************)
EXTENDS Integers

CONSTANTS Procs, Addresses, Values, Image, None,
          Uncleared   \* where a new program can find anything

VARIABLE memory    \* of a process: its addresses and what they hold, or None

Init == memory = [p \in Procs |-> None]

\* A new program: its image, at some addresses.  (What a page holds is not set
\* where it is Uncleared.)
Load(p) ==
    /\ DOMAIN memory'[p] \subseteq Addresses
    /\ memory'[p] \in [DOMAIN memory'[p] -> Values]
    /\ \A a \in DOMAIN memory'[p] \ Uncleared : memory'[p][a] = Image
    /\ \A q \in Procs \ {p} : memory'[q] = memory[q]

Copy(p, c) ==
    /\ memory[c] = None
    /\ memory' = [memory EXCEPT ![c] = memory[p]]

Store(p, a, v) ==
    /\ a \in DOMAIN memory[p]
    /\ memory' = [memory EXCEPT ![p][a] = v]

\* The address a comes into being with some value.
Grow(p, a) ==
    /\ a \notin DOMAIN memory[p]
    /\ \E v \in Values :
          memory' = [memory EXCEPT ![p] = [b \in DOMAIN @ \cup {a} |-> IF b = a THEN v ELSE @[b]]]

Drop(p) == memory' = [memory EXCEPT ![p] = None]

Next ==
    \E p \in Procs :
       \/ Drop(p)
       \/ Load(p)
       \/ /\ memory[p] # None
          /\ \/ \E c \in Procs : Copy(p, c)
             \/ \E a \in Addresses : Grow(p, a) \/ \E v \in Values : Store(p, a, v)

Spec == Init /\ [][Next]_memory
=============================================================================
