----------------------------- MODULE UserMemory -----------------------------
(***************************************************************************)
(* The memory of user processes in lab8: the vmas of an mm_struct          *)
(* (mm/vmm.c), the three levels of page tables and the counts of pages     *)
(* (mm/pmm.c), and what do_fork, do_execve, do_exit (process/proc.c) and a *)
(* page fault do to them.                                                  *)
(*                                                                         *)
(* The kernel is not preempted: a call is a step.  alloc_page takes the    *)
(* lowest free page (PagePool with n = 1).  When there is none, swap_out   *)
(* has no mm to take a page from and the kernel stops, as it does when an  *)
(* assertion fails: such a call is no step.  Kernel stacks and the heap    *)
(* have pages of their own here; permissions are left out, and what a page *)
(* holds is one value, though a segment may share its first and last page  *)
(* with bytes that nobody sets.                                            *)
(***************************************************************************)
EXTENDS Integers, SequencesExt

CONSTANTS Procs,
          NPAGES,     \* the pages there are
          FAN,        \* the entries of a table of any level: 512 in the code
          Programs,   \* sequences of segments, [start, end) in pages
          STACK,      \* the vma of the stack
          STACKLOADED,\* how many of its pages load_icode allocates, 4 in the code
          Values, Image

VARIABLES mm,         \* the vmas of a process, in the order of mmap_list, or None
          pgdir,      \* its top-level table, 0 if it has no mm
          free,       \* the free pages
          ref,        \* page->ref
          table,      \* the content of a page, if it is a table: pages, or 0
          data        \* the content of a page, if it is not

vars == <<mm, pgdir, free, ref, table, data>>

Pages == 1 .. NPAGES
Addresses == 0 .. FAN * FAN * FAN - 1      \* in pages
Segments == {s \in Addresses \X (1 .. FAN * FAN * FAN) : s[1] < s[2]}
None == <<"none">>
NoEntries == [i \in 0 .. FAN - 1 |-> 0]

UserMemoryAssumption ==
    /\ NPAGES \in Nat /\ FAN \in Nat \ {0}
    /\ Programs \subseteq Seq(Segments)
    /\ STACK \in Segments /\ STACKLOADED \in 0 .. STACK[2] - STACK[1]
    /\ Image \in Values

TypeOK ==
    /\ \A p \in Procs : mm[p] = None \/ mm[p] \in Seq(Segments)
    /\ pgdir \in [Procs -> {0} \cup Pages]
    /\ free \subseteq Pages
    /\ ref \in [Pages -> 0 .. 1]
    /\ table \in [Pages -> [0 .. FAN - 1 -> {0} \cup Pages]]
    /\ data \in [Pages -> Values]

Init ==
    /\ mm = [p \in Procs |-> None]
    /\ pgdir = [p \in Procs |-> 0]
    /\ free = Pages
    /\ ref = [g \in Pages |-> 0]
    /\ table = [g \in Pages |-> NoEntries]
    /\ data = [g \in Pages |-> Image]

-----------------------------------------------------------------------------
\* A call works on the state s of the pages; vmas and dir are of the mm it builds,
\* and ret is how it has ended, or Ok.  What follows an end does nothing.

Ok == "0"
pages == [free |-> free, ref |-> ref, table |-> table, data |-> data,
          vmas |-> <<>>, dir |-> 0, page |-> 0, ret |-> Ok]

Returns(s, ret) == [s EXCEPT !.ret = ret]

\* alloc_page, free_page
AllocPage(s) ==
    IF s.ret # Ok THEN s
    ELSE IF s.free = {} THEN Returns(s, "PANIC")
    ELSE LET g == Min(s.free) IN [s EXCEPT !.free = @ \ {g}, !.page = g]
FreePage(s, g) == [s EXCEPT !.free = @ \cup {g}, !.ref[g] = 0]

\* PDX1, PDX0 and PTX of an address.
Pdx1(la) == la \div (FAN * FAN)
Pdx0(la) == (la \div FAN) % FAN
Ptx(la) == la % FAN

\* An invalid entry on the way of get_pte gets a table.
NewTable(s, parent, i) ==
    LET Link(t) == IF t.ret # Ok THEN t
                   ELSE [t EXCEPT !.ref[t.page] = 1, !.table[parent][i] = t.page,
                                  !.table[t.page] = NoEntries]
    IN IF s.ret # Ok \/ s.table[parent][i] # 0 THEN s ELSE Link(AllocPage(s))

\* get_pte with create.
GetPte(s, dir, la) ==
    LET Below(t) == NewTable(t, t.table[dir][Pdx1(la)], Pdx0(la))
    IN Below(NewTable(s, dir, Pdx1(la)))

\* The page table of la, and the page at la; 0 if there is none.
PtOf(s, dir, la) ==
    LET pd == s.table[dir][Pdx1(la)] IN IF pd = 0 THEN 0 ELSE s.table[pd][Pdx0(la)]
PageAt(s, dir, la) ==
    LET pt == PtOf(s, dir, la) IN IF pt = 0 THEN 0 ELSE s.table[pt][Ptx(la)]

SetPte(s, dir, la, g) == [s EXCEPT !.table[PtOf(s, dir, la)][Ptx(la)] = g]

\* A reference to the page g less, which is freed at the last one.
\* Mutant: it is not.
Unref_Kept(s, g) == [s EXCEPT !.ref[g] = @ - 1]
Unref(s, g) == IF s.ref[g] = 1 THEN FreePage(s, g) ELSE [s EXCEPT !.ref[g] = @ - 1]

\* page_remove_pte, for unmap_range.
RemovePte(s, dir, la) ==
    LET g == PageAt(s, dir, la)
    IN IF g = 0 THEN s ELSE SetPte(Unref(s, g), dir, la, 0)

\* page_insert
PageInsert(s, dir, la, g) ==
    LET Insert(t) == IF t.ret # Ok THEN t
                     ELSE SetPte(RemovePte([t EXCEPT !.ref[g] = @ + 1], dir, la), dir, la, g)
    IN Insert(GetPte(s, dir, la))

\* The page allocated last, which holds v then, is inserted at la.
InsertNew(s, la, v) ==
    IF s.ret # Ok THEN s ELSE PageInsert([s EXCEPT !.data[s.page] = v], s.dir, la, s.page)

\* pgdir_alloc_page
PgdirAllocPage(s, la, v) == InsertNew(AllocPage(s), la, v)

Pagewise(Op(_, _), s, seg) == FoldLeft(Op, s, [i \in 1 .. seg[2] - seg[1] |-> seg[1] + i - 1])

\* exit_range within the directory i: it frees the page tables of the segment that
\* are empty, and the directory if none of them was missing.
ExitDir(s, dir, seg, i) ==
    LET pd   == s.table[dir][i]
        rows == {Pdx0(la) : la \in {x \in seg[1] .. seg[2] - 1 : Pdx1(x) = i}}
        FreePt(j, t) ==
            LET pt == t.table[pd][j]
            IN IF pt = 0 \/ t.table[pt] # NoEntries THEN t
               ELSE [FreePage(t, pt) EXCEPT !.table[pd][j] = 0]
        FreePd(t) == IF \E j \in rows : s.table[pd][j] = 0 THEN t
                     ELSE [FreePage(t, pd) EXCEPT !.table[dir][i] = 0]
    IN IF pd = 0 THEN s ELSE FreePd(FoldSet(FreePt, s, rows))

ExitRange(s, dir, seg) ==
    LET Exit(t, i) == ExitDir(t, dir, seg, i)
        first == Pdx1(seg[1])
    IN FoldLeft(Exit, s, [i \in 1 .. Pdx1(seg[2] - 1) - first + 1 |-> first + i - 1])

\* exit_mmap, put_pgdir and mm_destroy.
Release(s, dir, vmas) ==
    LET Clear(t, la)   == RemovePte(t, dir, la)
        Unmap(t, seg)  == Pagewise(Clear, t, seg)
        Leave(t, seg)  == ExitRange(t, dir, seg)
    IN FreePage(FoldLeft(Leave, FoldLeft(Unmap, s, vmas), vmas), dir)

\* mm_create and setup_pgdir
Create(s) ==
    LET Top(t) == IF t.ret # Ok THEN t
                  ELSE [t EXCEPT !.dir = t.page, !.vmas = <<>>, !.table[t.page] = NoEntries]
    IN Top(AllocPage(s))

\* mm_map: it refuses a segment that begins inside a vma; when a vma begins inside
\* the segment, the assertion of insert_vma_struct fails.
MmMap(s, seg) ==
    LET Before(v, w) == v[1] < w[1]
    IN IF s.ret # Ok THEN s
       ELSE IF \E v \in ToSet(s.vmas) : v[1] <= seg[1] /\ seg[1] < v[2] THEN Returns(s, "E_INVAL")
       ELSE IF \E v \in ToSet(s.vmas) : seg[1] < v[1] /\ v[1] < seg[2] THEN Returns(s, "PANIC")
       ELSE [s EXCEPT !.vmas = SetToSortSeq(ToSet(@) \cup {seg}, Before)]
-----------------------------------------------------------------------------
\* The call leaves the pages as s has them, and p with s's mm or without one.
PagesBecome(s) ==
    /\ s.ret # "PANIC"
    /\ free' = s.free /\ ref' = s.ref /\ table' = s.table /\ data' = s.data

Owns(p, vmas, dir) ==
    /\ mm' = [mm EXCEPT ![p] = vmas]
    /\ pgdir' = [pgdir EXCEPT ![p] = dir]

\* p has the mm that was built in s, or that is released and p has none.
Keeps(p, s) == PagesBecome(s) /\ Owns(p, s.vmas, s.dir)
Drops(p, s) == PagesBecome([Release(s, s.dir, s.vmas) EXCEPT !.ret = Ok]) /\ Owns(p, None, 0)

Released(p) == IF mm[p] = None THEN pages ELSE Release(pages, pgdir[p], mm[p])

\* A segment of load_icode, of which n pages are allocated.
LoadSegment(s, seg, n) ==
    LET Load(t, la) == PgdirAllocPage(t, la, Image)
    IN Pagewise(Load, MmMap(s, seg), <<seg[1], seg[1] + n>>)

LoadSegments(s, prog) ==
    LET Load(t, seg) == LoadSegment(t, seg, seg[2] - seg[1]) IN FoldLeft(Load, s, prog)

\* The pages of the stack are not cleared: they hold what is in content.
StackPages == STACK[2] - STACKLOADED .. STACK[2] - 1
LoadStack(s, content) ==
    LET Load(t, la) == PgdirAllocPage(t, la, content[la])
    IN Pagewise(Load, MmMap(s, STACK), <<STACK[2] - STACKLOADED, STACK[2]>>)

\* do_execve and load_icode.  Unless mm_map refuses, p runs the program.
Exec(p, prog, content) ==
    LET Ends(s) == IF s.ret = "E_INVAL" THEN Drops(p, s) ELSE Keeps(p, s)
    IN Ends(LoadStack(LoadSegments(Create(Released(p)), prog), content))

\* load_icode cannot read the n-th page of the segment i, or its header if n is 0;
\* do_execve exits.
ExecFails(p, prog, i, n) ==
    LET Part(s) == IF n = 0 THEN s ELSE LoadSegment(s, prog[i], n)
        Ends(s) == s.ret = Ok /\ Drops(p, s)
    IN Ends(Part(LoadSegments(Create(Released(p)), SubSeq(prog, 1, i - 1))))

\* copy_range, for one page.  Mutant: the child gets the page of the parent.
CopyPage_Shared(s, from, la) ==
    LET g == PageAt(s, from, la)
    IN IF g = 0 \/ s.ret # Ok THEN s ELSE PageInsert(GetPte(s, s.dir, la), s.dir, la, g)
CopyPage(s, from, la) ==
    LET g == PageAt(s, from, la)
    IN IF g = 0 \/ s.ret # Ok THEN s
       ELSE InsertNew(AllocPage(GetPte(s, s.dir, la)), la, s.data[g])

\* copy_mm and dup_mmap, from the last vma to the first: do_fork of the child c.
Fork(p, c) ==
    LET Copy(t, la)  == CopyPage(t, pgdir[p], la)
        Dup(t, vma)  == Pagewise(Copy, MmMap(t, vma), vma)
    IN /\ mm[p] # None /\ mm[c] = None
       /\ Keeps(c, FoldLeft(Dup, Create(pages), Reverse(mm[p])))

\* do_exit
Exit(p) ==
    /\ mm[p] # None
    /\ PagesBecome(Released(p))
    /\ Owns(p, None, 0)

InVma(p, la) == mm[p] # None /\ \E v \in ToSet(mm[p]) : la \in v[1] .. v[2] - 1

\* do_pgfault at an address of a vma that has no page.  The page it gets is not
\* cleared.
Fault(p, la, v) ==
    /\ InVma(p, la)
    /\ PageAt(pages, pgdir[p], la) = 0
    /\ PagesBecome(PgdirAllocPage(GetPte([pages EXCEPT !.dir = pgdir[p]], pgdir[p], la), la, v))
    /\ UNCHANGED <<mm, pgdir>>

\* The program of p stores v.
Store(p, la, v) ==
    /\ InVma(p, la)
    /\ PageAt(pages, pgdir[p], la) # 0
    /\ data' = [data EXCEPT ![PageAt(pages, pgdir[p], la)] = v]
    /\ UNCHANGED <<mm, pgdir, free, ref, table>>

Loads(p, prog) ==
    \/ \E content \in [StackPages -> Values] : Exec(p, prog, content)
    \/ \E i \in DOMAIN prog : \E n \in 0 .. prog[i][2] - prog[i][1] : ExecFails(p, prog, i, n)

Next ==
    \E p \in Procs :
       \/ \E prog \in Programs : Loads(p, prog)
       \/ \E c \in Procs : Fork(p, c)
       \/ Exit(p)
       \/ \E la \in Addresses, v \in Values : Fault(p, la, v) \/ Store(p, la, v)

Spec == Init /\ [][Next]_vars
-----------------------------------------------------------------------------
(* Properties *)

\* The places that name a page: a process's top-level table, its directories, its
\* page tables and its pages, each at the first address it is for.
PageIn(q) ==
    CASE q[2] = "dir" -> pgdir[q[1]]
      [] q[2] = "pd"   -> table[pgdir[q[1]]][Pdx1(q[3])]
      [] q[2] = "pt"   -> PtOf(pages, pgdir[q[1]], q[3])
      [] q[2] = "page" -> PageAt(pages, pgdir[q[1]], q[3])

Sizes == [dir |-> FAN * FAN * FAN, pd |-> FAN * FAN, pt |-> FAN, page |-> 1]

Places ==
    {q \in {p \in Procs : mm[p] # None} \X (DOMAIN Sizes) \X Addresses :
        q[3] % Sizes[q[2]] = 0 /\ PageIn(q) # 0}

\* The pages that are neither free nor named by anything.
Lost == Pages \ (free \cup {PageIn(q) : q \in Places})

\* Two page tables of one directory serve the vmas.
Wide(vmas) ==
    \E v, w \in ToSet(vmas) : \E la \in v[1] .. v[2] - 1, lb \in w[1] .. w[2] - 1 :
        Pdx1(la) = Pdx1(lb) /\ Pdx0(la) # Pdx0(lb)

\* No page has two uses, no use has a page that is free, the counts are right, and
\* the pages of a process lie in its vmas, which are in order and do not overlap.
\* (And every variable has its type.)
PagesUsedOnce ==
    /\ TypeOK
    /\ \A q, r \in Places : PageIn(q) = PageIn(r) => q = r
    /\ \A q \in Places :
          /\ PageIn(q) \notin free
          /\ q[2] # "dir" => ref[PageIn(q)] = 1
          /\ q[2] = "page" => InVma(q[1], q[3])
    /\ \A p \in Procs : mm[p] # None =>
          \A i \in 2 .. Len(mm[p]) : mm[p][i - 1][2] <= mm[p][i][1]

\* And no page is lost, but for the tables of a program of which two page tables
\* are in the same directory: exit_range frees the directory with the first vma.
PagesExact ==
    /\ []PagesUsedOnce
    /\ [][Lost' # Lost =>
             \E p \in Procs :
                \/ mm[p] # None /\ Wide(mm[p]) /\ (Exit(p) \/ \E prog \in Programs : Loads(p, prog))
                \/ \E prog \in Programs : Wide(prog) /\ Loads(p, prog)
         ]_vars

\* What a process finds in its memory.
Memory(p) ==
    IF mm[p] = None THEN None
    ELSE [la \in {a \in Addresses : PageAt(pages, pgdir[p], a) # 0} |->
             data[PageAt(pages, pgdir[p], la)]]

M == INSTANCE PrivateMemory WITH
        memory <- [p \in Procs |-> Memory(p)], Uncleared <- StackPages

\* fork copies, exec loads, exit and page faults change the memory of one process,
\* and nothing changes that of another.
MemoryIsPrivate == M!Spec
=============================================================================
