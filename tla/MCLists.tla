------------------------------ MODULE MCLists -------------------------------
(***************************************************************************)
(* Lists on small instances: three sleepers; init and four user processes; *)
(* four addresses for three pages; eight pages to allocate, and three for  *)
(* the heap.                                                               *)
(***************************************************************************)
EXTENDS Lists, TLC

CONSTANTS u1, u2, u3, u4

Users == {u1, u2, u3, u4}
MCRelatives == {init} \cup Users

Sym == Permutations(Users) \cup Permutations(Procs)

\* What a later step or a property depends on.  In paging it does not matter which
\* page is used for what, nor the content of a page that is not used.
Matters ==
    CASE part = "timers" -> vars
      [] part = "links" -> linkVars
      [] part = "paging" ->
           <<sm, Paging!Memory, Paging!ByAge,
             [i \in DOMAIN pra |-> <<visited[pra[i]], pra[i] = curr_ptr>>]>>
      [] part = "pages" -> pageVars
      [] part = "heap" -> slobVars
=============================================================================
