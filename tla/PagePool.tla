------------------------------ MODULE PagePool ------------------------------
(***************************************************************************)
(* What a first-fit page allocator promises its callers: a request for n   *)
(* pages gets the lowest n adjacent pages nobody holds, and fails only if  *)
(* no n adjacent pages are free.                                           *)
(***************************************************************************)
EXTENDS Integers

CONSTANTS N, NULL

VARIABLES used,      \* the pages handed out and not given back
          page       \* what the last request returned

Pages == 0 .. N - 1

Fits(b, n) == b + n <= N /\ b .. b + n - 1 \subseteq Pages \ used

Init == used = {} /\ page = NULL

Alloc(n) ==
    \/ \E b \in Pages :
           /\ Fits(b, n)
           /\ \A c \in 0 .. b - 1 : ~Fits(c, n)
           /\ page' = b
           /\ used' = used \cup b .. b + n - 1
    \/ /\ \A b \in Pages : ~Fits(b, n)
       /\ page' = NULL
       /\ UNCHANGED used

Free(b, n) ==
    /\ b .. b + n - 1 \subseteq used
    /\ used' = used \ (b .. b + n - 1)
    /\ UNCHANGED page

Next == \E n \in 1 .. N : Alloc(n) \/ \E b \in Pages : Free(b, n)

Spec == Init /\ [][Next]_<<used, page>>
=============================================================================
