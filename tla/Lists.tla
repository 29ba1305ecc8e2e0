-------------------------------- MODULE Lists -------------------------------
(***************************************************************************)
(* Five lists of the kernel that are kept in an order: the timers, by when *)
(* they fire (TimerList), the children of a process, by age (ProcLinks),   *)
(* the pages that lab3 can swap out, by when they came into memory (Swap), *)
(* the blocks of free pages and those of the kernel heap, by their         *)
(* addresses (PageAlloc, Kmalloc).  They share no state, so that none      *)
(* restricts another: a behaviour is one of one of them, and the others    *)
(* stay as they were initially.                                            *)
(***************************************************************************)
EXTENDS TimerList

CONSTANTS Relatives, init, idle, NULL,                     \* of ProcLinks
          PPAGES, VFIRST, VLAST, MAX_SWAP_OFFSET, Values,  \* of Swap
          N, free_list, TopStaysFree,                      \* of PageAlloc
          PAGE_SIZE, SLOB_UNIT, BIGBLOCK, HEAPPAGES,       \* of Kmalloc
          Requests

VARIABLES part,
          state, parent, cptr, optr, yptr, leaving,
          sm, pte, pra, curr_ptr, visited, pra_vaddr, content, ide, free,
          next, prev, property, PageProperty, nr_free, used, page,
          slob_next, units, slobfree, bigblocks, freepages, owned

linkVars == <<state, parent, cptr, optr, yptr, leaving>>
swapVars == <<sm, pte, pra, curr_ptr, visited, pra_vaddr, content, ide, free>>
pageVars == <<next, prev, property, PageProperty, nr_free, used, page>>
slobVars == <<slob_next, units, slobfree, bigblocks, freepages, owned>>

Links == INSTANCE ProcLinks WITH Procs <- Relatives
Paging == INSTANCE Swap
FreeList == INSTANCE PageAlloc
Slob == INSTANCE Kmalloc WITH next <- slob_next

ASSUME RelativesAssumption == Links!LinksAssumption
ASSUME PagingAssumption == Paging!SwapAssumption
ASSUME FreeListAssumption == FreeList!PageAssumption
ASSUME SlobAssumption == Slob!KmallocAssumption

ListsInit ==
    /\ Init /\ Links!Init /\ Paging!Init /\ FreeList!Init /\ Slob!Init
    /\ part \in {"timers", "links", "paging", "pages", "heap"}

ListsNext ==
    /\ UNCHANGED part
    /\ \/ part = "timers" /\ Next /\ UNCHANGED <<linkVars, swapVars, pageVars, slobVars>>
       \/ part = "links" /\ Links!Next /\ UNCHANGED <<vars, swapVars, pageVars, slobVars>>
       \/ part = "paging" /\ Paging!Next /\ UNCHANGED <<vars, linkVars, pageVars, slobVars>>
       \/ part = "pages" /\ FreeList!Next /\ UNCHANGED <<vars, linkVars, swapVars, slobVars>>
       \/ part = "heap" /\ Slob!Next /\ UNCHANGED <<vars, linkVars, swapVars, pageVars>>

ListsSpec ==
    ListsInit /\ [][ListsNext]_<<part, vars, linkVars, swapVars, pageVars, slobVars>>

\* The properties of ProcLinks, Swap, PageAlloc and Kmalloc, which state them with the
\* code they are about.
LinksAgree == Links!LinksAgree
LinksAreFamily == Links!LinksAreFamily
FifoPaging == Paging!FifoPaging
FreeListExact == FreeList!FreeListExact
FirstFitPool == FreeList!FirstFitPool
SlobExact == Slob!SlobExact
HeapIsPool == Slob!HeapIsPool
=============================================================================
