------------------------------- MODULE Swap ---------------------------------
(***************************************************************************)
(* Paging as lab3 runs it in check_swap (mm/swap.c, mm/vmm.c, mm/pmm.c): a *)
(* program with more pages than there are in memory, one page table, the   *)
(* swap disk, and the FIFO or the clock as swap manager.                   *)
(*                                                                         *)
(* A step is a store that finds its page, or the whole exception of an     *)
(* access that does not.  Addresses are page numbers.  An allocated page   *)
(* that is not filled from the disk has any content.                       *)
(***************************************************************************)
EXTENDS SequencesExt

CONSTANTS PPAGES,            \* pages of memory
          VFIRST, VLAST,     \* the vma: BEING_CHECK_VALID_VADDR, CHECK_VALID_VADDR
          MAX_SWAP_OFFSET,   \* max_swap_offset
          Values

SwapAssumption ==
    /\ PPAGES \in Nat \ {0}
    /\ VLAST \in Nat /\ VFIRST \in 0 .. VLAST
    /\ MAX_SWAP_OFFSET \in Nat /\ VLAST + 1 < MAX_SWAP_OFFSET
    /\ Values # {}

Pages == 1 .. PPAGES
ListHead == 0      \* &pra_list_head
Vma == VFIRST .. VLAST

VARIABLES sm,          \* the swap manager
          pte,         \* of an address: <<"none">>, a page, or an entry of the swap disk
          pra,         \* the list of swappable pages, from its head on
          curr_ptr,    \* the hand of the clock
          visited, pra_vaddr, content,   \* of a page
          ide,         \* the swap disk
          free

vars == <<sm, pte, pra, curr_ptr, visited, pra_vaddr, content, ide, free>>

None == <<"none">>
Mapped(p) == <<"page", p>>
Entry(n) == <<"swap", n>>

TypeOK ==
    /\ sm \in {"fifo", "clock"}
    /\ pte \in [Vma -> {None} \cup {Mapped(p) : p \in Pages}
                              \cup {Entry(n) : n \in 1 .. MAX_SWAP_OFFSET - 1}]
    /\ pra \in Seq(Pages) /\ IsInjective(pra)
    /\ curr_ptr \in {ListHead} \cup ToSet(pra)
    /\ visited \in [Pages -> BOOLEAN]
    /\ pra_vaddr \in [Pages -> Vma]
    /\ content \in [Pages -> Values] /\ ide \in [1 .. MAX_SWAP_OFFSET - 1 -> Values]
    /\ free \subseteq Pages

\* What is not written before it is read has some value.
Init ==
    /\ sm \in {"fifo", "clock"}
    /\ pte = [v \in Vma |-> None]
    /\ pra = << >> /\ curr_ptr = ListHead
    /\ visited = [p \in Pages |-> FALSE] /\ pra_vaddr = [p \in Pages |-> VFIRST]
    /\ \E x \in Values : /\ content = [p \in Pages |-> x]
                         /\ ide = [n \in 1 .. MAX_SWAP_OFFSET - 1 |-> x]
    /\ free = Pages

-----------------------------------------------------------------------------
\* A page fault works on the state s.

state == [pte |-> pte, pra |-> pra, curr_ptr |-> curr_ptr, visited |-> visited,
          pra_vaddr |-> pra_vaddr, content |-> content, ide |-> ide, free |-> free,
          victim |-> ListHead]

\* The manager takes in a page: the FIFO after the head, the clock before it.
map_swappable(s, p) ==
    IF sm = "fifo" THEN [s EXCEPT !.pra = <<p>> \o @]
    ELSE [s EXCEPT !.pra = Append(@, p), !.visited[p] = TRUE]

\* swap_out_victim.  Mutant: the FIFO takes the page after the head.
FifoVictim_Next(s) == [s EXCEPT !.pra = Tail(@), !.victim = Head(s.pra)]
FifoVictim(s) == [s EXCEPT !.pra = Front(@), !.victim = Last(s.pra)]

\* The clock passes the visited pages, which are so no longer, and the head of the
\* list; after a round it is back at the first.
ClockVictim(s) ==
    LET n == Len(s.pra)
        start == IF s.curr_ptr = ListHead THEN 1 ELSE CHOOSE i \in 1 .. n : s.pra[i] = s.curr_ptr
        At(k) == ((start + k - 1) % n) + 1   \* where the hand is after k pages
        passed == CHOOSE k \in 0 .. n :
                     /\ k = n \/ ~s.visited[s.pra[At(k)]]
                     /\ \A j \in 0 .. k - 1 : s.visited[s.pra[At(j)]]
        i == At(passed)
    IN [s EXCEPT !.visited = [p \in Pages |-> @[p] /\ \A j \in 0 .. passed - 1 : p # s.pra[At(j)]],
                 !.curr_ptr = IF i = n THEN ListHead ELSE s.pra[i + 1],
                 !.victim = s.pra[i],
                 !.pra = RemoveAt(@, i)]

\* swap_out of a page: it goes to the place on the disk that its address has.
swap_entry(v) == v + 1

WriteOut(s) ==
    LET v == s.pra_vaddr[s.victim]
    IN [s EXCEPT !.ide[swap_entry(v)] = s.content[s.victim],
                 !.pte[v] = Entry(swap_entry(v)),
                 !.free = @ \cup {s.victim}]

swap_out(s) ==
    LET Victim(t) == IF sm = "fifo" THEN FifoVictim(t) ELSE ClockVictim(t)
    IN WriteOut(Victim(s))

\* alloc_pages of one page swaps out until there is one.
WithFreePage(s) == IF s.free = {} THEN swap_out(s) ELSE s

\* page_insert, swap_map_swappable and pra_vaddr, in pgdir_alloc_page and do_pgfault.
Arrived(s, p, v) ==
    map_swappable([s EXCEPT !.free = @ \ {p}, !.pte[v] = Mapped(p), !.pra_vaddr[p] = v], p)

Becomes(s) ==
    /\ pte' = s.pte /\ pra' = s.pra /\ curr_ptr' = s.curr_ptr /\ visited' = s.visited
    /\ pra_vaddr' = s.pra_vaddr /\ content' = s.content /\ ide' = s.ide
    /\ free' = s.free /\ sm' = sm

-----------------------------------------------------------------------------
\* do_pgfault at an address without a page, and at one whose page is on the disk
\* (swap_in).
FirstFault(v) ==
    LET Gets(s) == \E p \in s.free, x \in Values :
                      Becomes(Arrived([s EXCEPT !.content[p] = x], p, v))
    IN pte[v] = None /\ Gets(WithFreePage(state))

SwapInFault(v) ==
    LET Gets(s) == \E p \in s.free :
                      Becomes(Arrived([s EXCEPT !.content[p] = s.ide[s.pte[v][2]]], p, v))
    IN pte[v][1] = "swap" /\ Gets(WithFreePage(state))

\* A store that finds its page.  (A load that does changes nothing.)
Store(v, x) ==
    /\ pte[v][1] = "page"
    /\ content' = [content EXCEPT ![pte[v][2]] = x]
    /\ UNCHANGED <<sm, pte, pra, curr_ptr, visited, pra_vaddr, ide, free>>

Next == \E v \in Vma : FirstFault(v) \/ SwapInFault(v) \/ \E x \in Values : Store(v, x)

Spec == Init /\ [][Next]_vars
-----------------------------------------------------------------------------
(* Properties *)

\* What a load would find.
Memory ==
    [v \in {u \in Vma : pte[u] # None} |->
        IF pte[v][1] = "page" THEN content[pte[v][2]] ELSE ide[pte[v][2]]]

\* The addresses whose pages the manager has, by their age.
ByAge ==
    LET pages == IF sm = "fifo" THEN Reverse(pra) ELSE pra
    IN [i \in 1 .. Len(pra) |-> pra_vaddr[pages[i]]]

M == INSTANCE PagedMemory WITH Addresses <- Vma, Frames <- PPAGES,
                               mem <- Memory, resident <- ByAge

\* Through any sequence of faults the page table, the manager's list, the addresses
\* that pages remember and the swap disk agree: an address has the value that was
\* stored there last, the page that goes is in the list and has been there longest,
\* and no page goes while there is a free one.  The clock, whose visited flags only
\* an arriving page sets, replaces pages in the same order as the FIFO: so do the
\* faults that lab3's test expects of it (tools/grade.sh:408-423), but not the clock
\* that its report describes (SecondChance).
FifoPaging == [](TypeOK /\ \A v \in Vma : pte[v][1] = "page" <=> v \in ToSet(ByAge)) /\ M!Spec
=============================================================================
