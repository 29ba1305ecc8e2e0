----------------------------- MODULE PageAlloc ------------------------------
(***************************************************************************)
(* The first-fit allocator of physical pages (mm/default_pmm.c): the free  *)
(* blocks are linked in the order of their addresses, each headed by a     *)
(* page that holds its size.  The list is modelled with the two pointers   *)
(* of list.h, so that what each list operation does to a list that is not  *)
(* in order can be seen.                                                   *)
(*                                                                         *)
(* Callers ask for any number of pages and give back any adjacent pages    *)
(* they hold; alloc_pages and free_pages run with interrupts off.          *)
(***************************************************************************)
EXTENDS Integers, FiniteSetsExt

CONSTANTS N,             \* the pages that page_init finds free
          NULL,
          free_list,     \* the head of the list
          TopStaysFree   \* do the requests leave the highest page free?

PageAssumption ==
    /\ N \in Nat \ {0}
    /\ TopStaysFree \in BOOLEAN
    /\ NULL \notin Int /\ free_list \notin Int

VARIABLES next, prev,      \* the page_link of a page and of free_list
          property,        \* the size of the block a page heads
          PageProperty,    \* the pages with PG_property: they head free blocks
          nr_free,
          used,            \* the pages the callers hold
          page             \* what the last request returned

vars == <<next, prev, property, PageProperty, nr_free, used, page>>

Pages == 0 .. N - 1
Nodes == Pages \cup {free_list}

TypeOK ==
    /\ next \in [Nodes -> Nodes]
    /\ prev \in [Nodes -> Nodes]
    /\ property \in [Pages -> 0 .. N]
    /\ PageProperty \subseteq Pages
    /\ nr_free \in 0 .. N
    /\ used \subseteq Pages
    /\ page \in Pages \cup {NULL}

-----------------------------------------------------------------------------
(* list.h: a list is a record of the two pointer functions. *)

list == [next |-> next, prev |-> prev]

\* __list_add, whose arguments are read before its assignments.
ListAdd(l, elm, before, after) ==
    [next |-> [l.next EXCEPT ![before] = elm, ![elm] = after],
     prev |-> [l.prev EXCEPT ![after] = elm, ![elm] = before]]

ListAddAfter(l, x, elm) == ListAdd(l, elm, x, l.next[x])
ListAddBefore(l, x, elm) == ListAdd(l, elm, l.prev[x], x)

ListDel(l, elm) ==
    [next |-> [l.next EXCEPT ![l.prev[elm]] = l.next[elm]],
     prev |-> [l.prev EXCEPT ![l.next[elm]] = l.prev[elm]]]

\* The k-th node a scan of the list meets; it ends at free_list.
Scan(l) ==
    LET node[k \in 0 .. N] == IF k = 0 THEN l.next[free_list] ELSE l.next[node[k - 1]]
    IN  node

\* The positions of a scan up to its end.
Positions(l) == {k \in 0 .. N : \A j \in 0 .. k : Scan(l)[j] # free_list}

\* A free list and the pages that head its blocks.
Blocks(l, size, heads) == [list |-> l, size |-> size, heads |-> heads]

\* The nodes that pointers lead to from free_list, forward or backward.
Linked(l) ==
    LET near[k \in 0 .. N] ==
            IF k = 0 THEN {free_list}
            ELSE UNION {{x, l.next[x], l.prev[x]} : x \in near[k - 1]}
    IN  near[N]

\* Pointers and sizes of pages that no pointer leads to are not read before
\* they are written: they are forgotten.
Keep(b) ==
    LET kept == Linked(b.list)
    IN  /\ next' = [x \in Nodes |-> IF x \in kept THEN b.list.next[x] ELSE x]
        /\ prev' = [x \in Nodes |-> IF x \in kept THEN b.list.prev[x] ELSE x]
        /\ property' = [p \in Pages |-> IF p \in kept THEN b.size[p] ELSE 0]
        /\ PageProperty' = b.heads

-----------------------------------------------------------------------------
\* init_memmap on an empty list: one block.
Init ==
    /\ next = [x \in Nodes |-> IF x = free_list THEN 0 ELSE IF x = 0 THEN free_list ELSE x]
    /\ prev = next
    /\ property = [p \in Pages |-> IF p = 0 THEN N ELSE 0]
    /\ PageProperty = {0}
    /\ nr_free = N
    /\ used = {}
    /\ page = NULL

\* Mutant: the last block that is large enough is taken.
FirstFit_Last(n) ==
    LET fitting == {k \in Positions(list) : property[Scan(list)[k]] >= n}
    IN  IF fitting = {} THEN NULL ELSE Scan(list)[Max(fitting)]
\* The first block of the list that is large enough.
FirstFit(n) ==
    LET fitting == {k \in Positions(list) : property[Scan(list)[k]] >= n}
    IN  IF fitting = {} THEN NULL ELSE Scan(list)[Min(fitting)]

\* default_alloc_pages: the front of the first block that is large enough;
\* the rest of the block takes its place in the list.
AllocPages(n) ==
    LET p == FirstFit(n)
        unlinked == ListDel(list, p)
        rest ==
            IF property[p] > n
            THEN Blocks(ListAddAfter(unlinked, prev[p], p + n),
                        [property EXCEPT ![p + n] = property[p] - n],
                        (PageProperty \cup {p + n}) \ {p})
            ELSE Blocks(unlinked, property, PageProperty \ {p})
    IN  /\ n <= nr_free /\ p # NULL
        /\ TopStaysFree => p + n < N
        /\ page' = p
        /\ used' = used \cup p .. p + n - 1
        /\ Keep(rest)
        /\ nr_free' = nr_free - n

\* return NULL.
AllocFails(n) ==
    /\ n > nr_free \/ FirstFit(n) = NULL
    /\ page' = NULL
    /\ UNCHANGED <<next, prev, property, PageProperty, nr_free, used>>

-----------------------------------------------------------------------------
(* default_free_pages *)

\* Into the list before the first block above base.  When there is none, the
\* loop appends base to the last block; it is not left, so that it finds base
\* itself to be the last block next and appends base to base.
Inserted(l, base) ==
    LET above == {k \in Positions(l) : base < Scan(l)[k]}
        last == Scan(l)[Max(Positions(l))]
        appended == ListAddAfter(l, last, base)
    IN  IF Positions(l) = {} THEN ListAddAfter(l, free_list, base)
        ELSE IF above # {} THEN ListAddBefore(l, Scan(l)[Min(above)], base)
        ELSE ListAddAfter(appended, base, base)

\* The block high becomes part of the block low before it.
Joined(b, low, high) ==
    Blocks(ListDel(b.list, high), [b.size EXCEPT ![low] = @ + b.size[high]], b.heads \ {high})

\* Mutant: adjacency is tested against the size of the block that is freed.
Adjacent_Swapped(b, low, high) ==
    low # free_list /\ high # free_list /\ low + b.size[high] = high
Adjacent(b, low, high) ==
    low # free_list /\ high # free_list /\ low + b.size[low] = high

\* The block headed by base, merged with the free blocks around it.
Merged(b, base) ==
    LET below == b.list.prev[base]
        joinsBelow == Adjacent(b, below, base)
        b1 == IF joinsBelow THEN Joined(b, below, base) ELSE b
        base1 == IF joinsBelow THEN below ELSE base
        above == b1.list.next[base1]
    IN  IF Adjacent(b1, base1, above) THEN Joined(b1, base1, above) ELSE b1

FreePages(base, n) ==
    LET block == base .. base + n - 1
        b == Blocks(Inserted(list, base), [property EXCEPT ![base] = n],
                    PageProperty \cup {base})
    IN  /\ block \subseteq used
        /\ used' = used \ block
        /\ Keep(Merged(b, base))
        /\ nr_free' = nr_free + n
        /\ UNCHANGED page

Next ==
    \E n \in 1 .. N :
        \/ AllocPages(n)
        \/ AllocFails(n)
        \/ \E base \in Pages : FreePages(base, n)

Spec == Init /\ [][Next]_vars
-----------------------------------------------------------------------------
\* The heads of the maximal runs of pages nobody holds.
RunHeads == {p \in Pages \ used : p - 1 \notin Pages \ used}

\* The number of pages in the run that p heads.
RunLength(p) == Max({n \in 1 .. N : p .. p + n - 1 \subseteq Pages \ used})

\* The free list is what default_pmm.c describes: it links the maximal runs of
\* free pages, from low to high address and back, each with its size, and
\* exactly their heads have PG_property; and nr_free, by which
\* default_alloc_pages refuses requests, counts the pages nobody holds.
FreeListExact ==
    LET scan == Scan(list)
    IN  /\ TypeOK
        /\ {scan[k] : k \in Positions(list)} = RunHeads
        /\ PageProperty = RunHeads
        /\ \A k \in Positions(list) :
               /\ property[scan[k]] = RunLength(scan[k])
               /\ k > 0 => scan[k - 1] < scan[k] /\ prev[scan[k]] = scan[k - 1]
        /\ \A x \in RunHeads \cup {free_list} : prev[next[x]] = x
        /\ nr_free = Cardinality(Pages \ used)

\* The allocator is a first-fit pool: it returns the lowest pages that fit, and
\* NULL only if there are none, however the free pages came about.
P == INSTANCE PagePool

FirstFitPool == P!Spec

\* default_alloc_pages never returns a page that somebody holds already.
PagesUnshared ==
    [][\A n \in 1 .. N : AllocPages(n) => used \cap page' .. page' + n - 1 = {}]_vars
=============================================================================
