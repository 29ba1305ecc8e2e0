------------------------------ MODULE MCMemory ------------------------------
(***************************************************************************)
(* UserMemory on a small instance.  A table has two entries, so that there *)
(* are eight addresses.  The first two programs load; the segments of the  *)
(* second need two page tables of one directory, as the code and the data  *)
(* of a program of over two megabytes do.  The segments of the third       *)
(* overlap so that mm_map does not notice, those of the last so that it    *)
(* does.                                                                   *)
(***************************************************************************)
EXTENDS UserMemory, TLC

ASSUME UserMemoryAssumption

MCPrograms == {<< <<0, 1>> >>, << <<0, 1>>, <<1, 3>> >>,
               << <<1, 2>>, <<0, 2>> >>, << <<0, 2>>, <<1, 2>> >>}
MCStack == <<6, 8>>

Sym == Permutations(Procs)

\* What a later step or a property depends on: which page is used for what does not
\* matter, nor does the content of a page that is not used.
Uses(p) == {<<q[2], q[3]>> : q \in {r \in Places : r[1] = p}}
Live == <<mm, [p \in Procs |-> <<Uses(p), Memory(p)>>], Cardinality(free), PagesUsedOnce>>
=============================================================================
