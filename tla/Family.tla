------------------------------- MODULE Family -------------------------------
(***************************************************************************)
(* The family tree of the processes as fork, exit and wait see it: every   *)
(* process has its children in a line, the youngest in front.              *)
(***************************************************************************)
EXTENDS SequencesExt

CONSTANTS Threads, init

VARIABLE children

Init == children = [p \in Threads |-> <<>>]

Member(c) == \E p \in Threads : \E i \in DOMAIN children[p] : children[p][i] = c

\* p forks c.
Born(p, c) ==
    /\ ~Member(c)
    /\ children' = [children EXCEPT ![p] = <<c>> \o @]

\* init takes over the first child of p, which exits.
Adopted(p) ==
    /\ p # init
    /\ children[p] # <<>>
    /\ children' = [children EXCEPT ![p] = Tail(@), ![init] = <<Head(children[p])>> \o @]

\* p waits for c, a zombie.
Buried(p, c) ==
    \E i \in DOMAIN children[p] :
        /\ children[p][i] = c
        /\ children' = [children EXCEPT ![p] = RemoveAt(@, i)]

Next ==
    \E p \in Threads : Adopted(p) \/ \E c \in Threads : Born(p, c) \/ Buried(p, c)

Spec == Init /\ [][Next]_children
=============================================================================
