---------------------------- MODULE SecondChance ----------------------------
(***************************************************************************)
(* Swap with the clock, next to the clock that lab3's report describes     *)
(* (lab3.md, 358-370 and 478-486): that one replaces a page according to   *)
(* whether it was accessed, the code according to the flag "visited".      *)
(***************************************************************************)
EXTENDS Swap

VARIABLE referenced   \* history: the pages accessed since the hand last passed them

ClockInit == Init /\ sm = "clock" /\ referenced = {}

\* The pages that the hand passes in a step.
Passed == {p \in Pages : visited[p] /\ ~visited'[p]}

ClockNext ==
    \E v \in Vma :
        /\ FirstFault(v) \/ SwapInFault(v) \/ \E x \in Values : Store(v, x)
        /\ referenced' = (referenced \ Passed) \cup {pte'[v][2]}

ClockSpec == ClockInit /\ [][ClockNext]_<<vars, referenced>>

\* In translation: "if the reference bit is 1, the page was accessed lately: clear it,
\* and the page has a second chance" (lab3.md:365): a page that was accessed since the
\* hand passed it goes only if all of them were.  An access does not set "visited",
\* though (swap_clock.c:72 is the only line that does, when a page arrives), so that
\* the page goes whose turn it is, accessed or not.
AccessedStays ==
    [][\A v \in Vma : (pte[v][1] = "page" /\ pte'[v][1] = "swap") =>
           \/ pte[v][2] \notin referenced
           \/ ToSet(pra) \subseteq referenced]_<<vars, referenced>>
=============================================================================
