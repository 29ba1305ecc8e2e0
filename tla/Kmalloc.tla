------------------------------ MODULE Kmalloc -------------------------------
(***************************************************************************)
(* The kernel heap of lab8 (mm/kmalloc.c): a ring of free blocks in the    *)
(* order of their addresses (SLOB), for requests of less than a page, and  *)
(* blocks of pages for the others.                                         *)
(*                                                                         *)
(* kmalloc and kfree are not interrupted by anything that calls them: each *)
(* is a step.  Addresses and sizes of blocks are in SLOB_UNITs, as slob_t  *)
(* pointers are; a block that is not in the ring has a dead next.  The     *)
(* page allocator gives any free pages there are.  The assertion of        *)
(* slob_alloc stops the kernel: a request that fails it is no step.  Nobody *)
(* asks for 0 bytes or for alignment.                                      *)
(***************************************************************************)
EXTENDS FiniteSetsExt

CONSTANTS PAGE_SIZE, SLOB_UNIT,
          BIGBLOCK,    \* sizeof(bigblock_t)
          HEAPPAGES,   \* the pages there are
          Requests     \* how many bytes are asked for

KmallocAssumption ==
    /\ SLOB_UNIT \in Nat \ {0} /\ PAGE_SIZE \in Nat /\ PAGE_SIZE % SLOB_UNIT = 0
    /\ HEAPPAGES \in Nat
    /\ Requests \subseteq Nat \ {0}
    /\ BIGBLOCK \in Nat /\ SLOB_UNIT < BIGBLOCK /\ BIGBLOCK + SLOB_UNIT < PAGE_SIZE

VARIABLES next, units,   \* of the block at an address
          slobfree,      \* where the next search begins
          bigblocks,     \* the bigblock_t's: where they are, their pages and order
          freepages,     \* the pages the page allocator has
          owned          \* what callers have: the address and the bytes they asked for

vars == <<next, units, slobfree, bigblocks, freepages, owned>>

SLOB_UNITS(size) == (size + SLOB_UNIT - 1) \div SLOB_UNIT
PageUnits == PAGE_SIZE \div SLOB_UNIT

Dead == -1
arena == 0     \* a block of one unit, below all pages and not adjacent to them
Pages == 1 .. HEAPPAGES
Start(g) == g * PageUnits
Addresses == {arena} \cup Start(1) .. Start(HEAPPAGES + 1) - 1

TypeOK ==
    /\ next \in [Addresses -> Addresses \cup {Dead}]
    /\ units \in [Addresses -> Nat]
    /\ slobfree \in Addresses
    /\ bigblocks \subseteq [at : Addresses, pages : Pages, order : Nat]
    /\ freepages \subseteq Pages
    /\ owned \subseteq [block : Addresses, size : Requests]

Init ==
    /\ next = [a \in Addresses |-> IF a = arena THEN arena ELSE Dead]
    /\ units = [a \in Addresses |-> IF a = arena THEN 1 ELSE 0]
    /\ slobfree = arena
    /\ bigblocks = {}
    /\ freepages = Pages
    /\ owned = {}

-----------------------------------------------------------------------------
\* A call works on the state h of the heap; got is the block that it has got.

heap == [next |-> next, units |-> units, slobfree |-> slobfree, free |-> freepages,
         got |-> Dead]

\* The blocks of the ring, from slobfree on.
Ring(h) ==
    LET n == Cardinality({a \in Addresses : h.next[a] # Dead})
        w[i \in 0 .. n] == IF i = 0 THEN h.slobfree ELSE h.next[w[i - 1]]
    IN w

\* slob_free looks for cur from slobfree on: b goes between cur and cur->next.
Between(h, b, cur) ==
    \/ cur < b /\ b < h.next[cur]
    \/ h.next[cur] <= cur /\ (cur < b \/ b < h.next[cur])

InsertionPoint(h, b) ==
    LET Find(w) == w[Min({i \in DOMAIN w : Between(h, b, w[i])})] IN Find(Ring(h))

\* b is merged with the block cur->next above it, and with the block cur below it.
\* Mutant: it is not merged with the one above.
Above_Missed(h, b, above) == [h EXCEPT !.next[b] = above]
Above(h, b, above) ==
    IF b + h.units[b] = above
      THEN [h EXCEPT !.next[b] = h.next[above], !.next[above] = Dead,
                     !.units[b] = @ + h.units[above], !.units[above] = 0]
      ELSE [h EXCEPT !.next[b] = above]
Below(h, b, cur) ==
    IF cur + h.units[cur] = b
      THEN [h EXCEPT !.next[cur] = h.next[b], !.next[b] = Dead,
                     !.units[cur] = @ + h.units[b], !.units[b] = 0, !.slobfree = cur]
      ELSE [h EXCEPT !.next[cur] = b, !.slobfree = cur]

Insert(h, b, cur) == Below(Above(h, b, h.next[cur]), b, cur)

\* slob_free of a block of so many bytes, or as many units as its header says.
SlobFree(h, b, size) ==
    LET Sized(t) == Insert(t, b, InsertionPoint(t, b))
    IN Sized(IF size = 0 THEN h ELSE [h EXCEPT !.units[b] = SLOB_UNITS(size)])

\* slob_alloc takes n units of the block cur that follows prev.  (They are not the
\* same: the arena stays in the ring, and is too small for any request.)
Fragment(h, prev, cur, n) ==
    [h EXCEPT !.next = [@ EXCEPT ![prev] = cur + n, ![cur + n] = h.next[cur], ![cur] = Dead],
              !.units = [@ EXCEPT ![cur + n] = h.units[cur] - n, ![cur] = n]]
Unlink(h, prev, cur) == [h EXCEPT !.next = [@ EXCEPT ![prev] = h.next[cur], ![cur] = Dead]]

Take(h, prev, cur, n) ==
    [IF h.units[cur] = n THEN Unlink(h, prev, cur) ELSE Fragment(h, prev, cur, n)
       EXCEPT !.slobfree = prev, !.got = cur]

Enough(h, n) == {i \in DOMAIN Ring(h) \ {0} : h.units[Ring(h)[i]] >= n}

\* The first block that is large enough, from the one after slobfree on.
FirstFit(h, n) ==
    LET At(w, i) == Take(h, w[i - 1], w[i], n) IN At(Ring(h), Min(Enough(h, n)))

\* slob_alloc, which gets the page g if it needs one; 0 is none.
SlobAlloc(h, size, g) ==
    LET Grown(t) == FirstFit(t, SLOB_UNITS(size))
    IN IF Enough(h, SLOB_UNITS(size)) # {} THEN FirstFit(h, SLOB_UNITS(size))
       ELSE IF g = 0 THEN h
       ELSE Grown(SlobFree([h EXCEPT !.free = @ \ {g}], Start(g), PAGE_SIZE))

\* find_order.  Mutant: it stops a page too early.
FindOrder_Early(size) == Min({k \in 0 .. size : size \div 2 ^ k <= 2 * PAGE_SIZE})
FindOrder(size) == Min({k \in 0 .. size : size \div 2 ^ k <= PAGE_SIZE})

PagesOf(b) == b.pages .. b.pages + 2 ^ b.order - 1

HeapBecomes(h) ==
    /\ next' = h.next /\ units' = h.units /\ slobfree' = h.slobfree
    /\ freepages' = h.free

\* What the page allocator gives slob_alloc.
Answer(g) == IF freepages = {} THEN g = 0 ELSE g \in freepages

-----------------------------------------------------------------------------
\* __kmalloc of less than a page: the block begins after its header.
KmallocSmall(size, g) ==
    LET Ends(h) ==
            /\ HeapBecomes(h)
            /\ owned' = IF h.got = Dead THEN owned
                        ELSE owned \cup {[block |-> h.got + 1, size |-> size]}
    IN /\ size < PAGE_SIZE - SLOB_UNIT
       /\ size + SLOB_UNIT + SLOB_UNIT < PAGE_SIZE
       /\ Answer(g)
       /\ Ends(SlobAlloc(heap, size + SLOB_UNIT, g))
       /\ UNCHANGED bigblocks

\* __kmalloc of pages from b.pages on, if the page allocator has them.
KmallocPages(size, h, b) ==
    /\ PagesOf(b) \subseteq h.free
    /\ HeapBecomes([h EXCEPT !.free = @ \ PagesOf(b)])
    /\ bigblocks' = bigblocks \cup {b}
    /\ owned' = owned \cup {[block |-> Start(b.pages), size |-> size]}

NoPages(h, order) ==
    /\ \A g \in Pages : ~(g .. g + 2 ^ order - 1 \subseteq h.free)
    /\ HeapBecomes(SlobFree(h, h.got, BIGBLOCK))
    /\ UNCHANGED <<bigblocks, owned>>

KmallocBig(size, g) ==
    LET order == FindOrder(size)
        Goes(h) ==
            /\ h.got # Dead
            /\ \/ \E p \in Pages : KmallocPages(size, h, [at |-> h.got, pages |-> p, order |-> order])
               \/ NoPages(h, order)
    IN /\ size >= PAGE_SIZE - SLOB_UNIT
       /\ Answer(g)
       /\ Goes(SlobAlloc(heap, BIGBLOCK, g))

\* kfree of a block that begins a page and is in the list of big blocks, and of
\* any other.
KfreeBig(x, b) ==
    /\ Start(b.pages) = x.block
    /\ HeapBecomes(SlobFree([heap EXCEPT !.free = @ \cup PagesOf(b)], b.at, BIGBLOCK))
    /\ bigblocks' = bigblocks \ {b}
    /\ owned' = owned \ {x}

KfreeSmall(x) ==
    /\ \A b \in bigblocks : Start(b.pages) # x.block
    /\ HeapBecomes(SlobFree(heap, x.block - 1, 0))
    /\ owned' = owned \ {x}
    /\ UNCHANGED bigblocks

Next ==
    \/ \E size \in Requests, g \in {0} \cup Pages : KmallocSmall(size, g) \/ KmallocBig(size, g)
    \/ \E x \in owned : KfreeSmall(x) \/ \E b \in bigblocks : KfreeBig(x, b)

Spec == Init /\ [][Next]_vars
-----------------------------------------------------------------------------
(* Properties *)

FreeBlocks == {a \in Addresses : next[a] # Dead}

IsBig(x) == \E b \in bigblocks : Start(b.pages) = x.block

\* The blocks in use in the pages of the ring: those callers have, with their
\* headers, and the bigblock_t's.
UsedBlocks == {x.block - 1 : x \in {y \in owned : ~IsBig(y)}} \cup {b.at : b \in bigblocks}

Units(a) == a .. a + units[a] - 1

HeapPages == Pages \ (freepages \cup UNION {PagesOf(b) : b \in bigblocks})

\* Whatever was allocated and freed in whatever order, the ring leads once through
\* all free blocks by their addresses, no two of them are adjacent, the arena stays
\* in it (slobfree never points to a block that was handed out), and every unit of
\* the heap's pages belongs to just one block, that is free or in use: nothing is
\* lost or handed out twice.  (And every variable has its type.)
SlobExact ==
    /\ TypeOK
    /\ {arena, slobfree} \subseteq FreeBlocks /\ units[arena] = 1
    /\ \A a \in FreeBlocks :
          LET Higher == {b \in FreeBlocks : b > a}
          IN /\ next[a] = IF Higher = {} THEN arena ELSE Min(Higher)
             /\ a + units[a] # next[a]
    /\ \A a, b \in (FreeBlocks \ {arena}) \cup UsedBlocks :
          a # b => Units(a) \cap Units(b) = {}
    /\ UNION {Units(a) : a \in (FreeBlocks \ {arena}) \cup UsedBlocks}
         = UNION {Start(g) .. Start(g + 1) - 1 : g \in HeapPages}

\* find_order halves the size and rounds down: of just above 2, 4, ... pages it
\* makes 2, 4, ... pages.
RoundedDown(size) ==
    {PAGE_SIZE * 2 ^ k : k \in {j \in 1 .. size : /\ PAGE_SIZE * 2 ^ j < size
                                                  /\ size < (PAGE_SIZE + 1) * 2 ^ j}}
Given(size) == Min({size} \cup RoundedDown(size))

P == INSTANCE HeapPool WITH held <- {<<x.block, SLOB_UNITS(Given(x.size))>> : x \in owned}

\* No two callers have the same memory, small blocks and pages alike, with as many
\* bytes as they asked for, unless find_order has rounded them down.
HeapIsPool == P!Spec
=============================================================================
