# A TLA+ verification project for ucore

ucore is a teaching operating system for RISC-V, grown in nine laboratories
(`src/lab0` to `src/lab8`). `src/lab8` is the complete kernel and the subject of
this project: processes, scheduling, timers, semaphores, devices, a file system
and memory management in about 10,000 lines of C. The earlier directories hold
earlier stages of the same code, and a few parts that only they have (the
best-fit page allocator of lab2, the clock and LRU page replacement of lab3);
`lab6` and `lab7` are skeletons of exercises.

Source locations below are relative to `src/lab8/kern/`, unless they begin with
`lab2/` or `lab3/`.

## The system

### How it runs

There is one CPU. A trap enters `trap()` (trap/trap.c:267), which dispatches it
and, **only when it came from user mode**, tests `PF_EXITING`, then
`need_resched`, and calls `schedule()`. So the kernel is not preemptive: between
two calls of `schedule()` the running process cannot be switched out.

- A system call runs with interrupts off (the trap cleared SIE), so what it does
  up to `schedule()`, or to its return, cannot be interleaved with anything.
- A kernel thread -- idleproc, init, the philosophers -- runs with interrupts
  on: a clock interrupt can come between any two of its steps, in particular
  after it has set its state to `PROC_SLEEPING` and before `schedule()` has
  switched. Critical sections are bracketed by `local_intr_save`.
- The clock interrupt runs the timers, calls the scheduling class's `proc_tick`
  on the current process and reads the console.

That decides the grain of every model here: an action is a stretch of code
between two points where something else can come between.

### The components

| component | state | operations | depends on | what is hard, and what makes it correct |
|---|---|---|---|---|
| process life cycle (process/proc.c, syscall/syscall.c) | `proc_struct`: state, parent, cptr/optr/yptr, wait_state, flags, pid; `proc_list`, `nr_process` | do_fork, do_exit, do_wait, do_kill, do_yield, do_sleep, get_pid, init_main | scheduler, timers, memory, files | the order of exit, wait and kill: no wakeup is lost, every zombie has a parent that can reap it, nothing runs a zombie, orphans go to init, the links stay a tree, identifiers are unique |
| scheduler core (schedule/sched.c) | run queue, `current`, `need_resched` | wakeup_proc, schedule, tick | scheduling class | a wakeup between going to sleep and the switch: a runnable process is in the queue exactly once |
| stride class (schedule/default_sched_stride.c, libs/skew_heap.h) | skew heap, stride, priority, time slice | enqueue, dequeue, pick_next, proc_tick | -- | strides wrap around, and a process that blocked keeps an old one; pointers of the heap; who can starve |
| timers (schedule/sched.c) | `timer_list` of differences | add_timer, del_timer, run_timer_list | scheduler | every insertion and deletion corrects its successor; each timer fires at its tick |
| semaphores (sync/sem.c, sync/wait.c) | value, wait queue, wakeup flags | up, down, try_down | scheduler | down is two critical sections with `schedule()` between; a unit is handed over, not raised |
| dining philosophers (sync/check_sync.c) | states, semaphores | take and put forks | semaphores, timers | exclusion of neighbours, no deadlock |
| keyboard (fs/devs/dev_stdin.c) | ring buffer, wait queue | dev_stdin_write (interrupt), dev_stdin_read | wait queues, scheduler | sleep on an empty buffer against a character that arrives; many readers; do_kill of a reader |
| physical pages (mm/default_pmm.c, mm/pmm.c) | free list, `nr_free`, page tables, reference counts | alloc_pages, free_pages, page_insert, ... | -- | the list stays sorted and merged, no page is handed out twice |
| kernel heap (mm/kmalloc.c) | ring of free blocks (SLOB), list of blocks of pages | kmalloc, kfree | pages | a block is put back between its neighbours from any starting point of the ring; nothing is lost or handed out twice |
| virtual memory (mm/vmm.c) | mm_struct, vmas | mm_map, dup_mmap, do_pgfault | pages, swap | vmas are disjoint and sorted; references to mm |
| swapping (lab3/kern/mm; mm/swap*.c, not in use) | list of pages, hand of the clock, swap disk | map_swappable, swap_out, swap_in | page tables, disk | list, page table, pages and disk agree: nobody gets another page's content |
| open files (fs/file.c, fs/sysfile.c, fs/vfs/inode.c, vfsfile.c) | descriptor table, open and reference counts | open, read, write, dup, close, fork and exec of the table | inodes | counts agree with holders also when a step fails |
| VFS (fs/vfs/) | device list, current directory, boot file system | mount, lookup, chdir | inodes, devices | references are balanced |
| SFS (fs/sfs/) | superblock, free map, block map of a file, inode cache | read, write, truncate, lookup, sync, reclaim | disk, semaphores | the block map agrees with the size; no block has two owners |
| devices, console, boot, user programs | | | | I/O and assembly |

The kernel persists nothing that it reads back: the disk is a copy of an image
in memory that never fails, so there is no crash recovery.

## The modules

The modules below are in the project now; `PROJECT.json` gives for every
definition the source lines it stands for.

### Scheduler and processes

- **Sched** models schedule/sched.c: process states, wait states, the run queue
  (as a count for each process, so that a double enqueue is visible), `current`,
  `schedule()` and `wakeup_proc`. `Schedule` is the whole function; `WokenState`,
  `WokenWait` and `WokenQueue` are what `wakeup_proc` does to the three pieces of
  state, for client actions to compose. Which queued process `pick_next` returns
  is left open. It declares the scheduling properties that every client has
  (`RunQueueExact`).
- **Proc** (extends Sched) models process/proc.c and trap(): one action for each
  system call up to its `schedule()` or its return (`Fork`, `SysExit`, `SysWait`,
  `Kill`, `Yield`, `Sleep`), for the steps of do_wait (`Reap`, `WaitSleeps`,
  `Waited`, `WaitFails`), the end of do_sleep (`Slept`), the end of a trap
  (`TrapReturn`), the clock interrupt (`Tick`) and init_main. `pc` says where a
  process continues. A process is named by its proc_struct, which also stands for
  its identifier. `CallReturns` is any call without an effect on processes (also
  one that fails); a failed exec is `SysExit`. user_main starts in user mode;
  init_main's panics when it cannot create it are left out.
  What do_fork and the others allocate and free is in Files and UserMemory.
- **ProcLinks** models the links cptr, optr and yptr that set_links,
  remove_links and the loop of do_exit maintain, one step for each child that is
  handed over. **Family** is what they stand for: a line of children for each
  process, as do_wait walks it. `LinksAreFamily` is the refinement.
- **GetPid** models get_pid round by round, with do_fork and do_wait as its
  callers; **PidAlloc** is what they rely on (`PidsUnique` is the refinement).
- **TimerList** models the list of differences, with the walk of add_timer round
  by round; **Timers** is what timers promise (`FiresOnTime` is the refinement).
  Proc uses the promise: a timer expires at some tick.
- **StrideSched** models the stride class under `schedule()` and `wakeup_proc`:
  the skew heap with its pointers, strides modulo 2^W, priorities, time slices
  with whatever kmalloc left in them. `SwitchIsSched` says that schedule() with
  this class is the `Schedule` of Sched, `QueuedRuns` when a queued process gets
  the CPU at last (see Fairness: not always).

### Synchronisation and devices

- **Sem** (extends Sched) models sync/sem.c and sync/wait.c: `DownNow`,
  `DownSleeps` (up to schedule()), `Downed` (after it), `Up`. **SemClients**
  composes it with threads that use semaphores in any way the interface allows.
  **SemAbs** is the promise: units are handed out in the order of the calls
  (`Semaphore` is the refinement).
- **Philosophers** composes Sem, do_sleep and the scheduler into the program of
  sync/check_sync.c; **Dining** is the textbook specification it implements
  (`ForksExclusive`).
- **Stdin** (extends Sched) models fs/devs/dev_stdin.c, do_kill and the end of a
  trap; **LineBuffer** is its promise (`RingIsLine`): characters are read once
  each and in order, and a character typed into a full buffer takes the place of
  the oldest one.

### Files

The kernel is not preempted in a file operation and takes no lock there that is
held, so a system call (or, for a long transfer, a round of sysfile_read or
sysfile_write, which move at most 4096 bytes at a time) is one step.

- **Files** models fs/file.c, fs/fs.c, fs/vfs/vfsfile.c, fs/vfs/vfspath.c and
  fs/vfs/inode.c: the descriptor tables of processes, their working directories
  and the inodes in memory with `ref_count` and `open_count`; with the parts of
  do_fork, do_execve, do_exit and do_wait that allocate and free (`Fork`,
  `ForkFails` for each allocation, `Exec`, `ExecNotOpened`, `ExecNotLoaded`,
  `Exit`, `Reap`). Of a file it knows only whether it is empty in memory and on
  the disk. What gets lost by a failure is counted by history variables
  (`lostRef`, `lostMm`, `stranded`), so that the counts can be stated exactly.
- **SfsFile** models fs/sfs/sfs_inode.c: the inode with its direct and indirect
  blocks, the map of free blocks, the contents of blocks, reading, writing,
  seeking and truncating through several descriptors of one file, with the disk
  full at any point and the assertions (`panicked`). The functions that call each
  other there are operators on a record of the file system's state, named like
  the functions. **ByteFiles** is the promise: a file is a sequence of
  bytes (`FilesAreBytes` is the refinement).

### Memory

- **PageAlloc** models mm/default_pmm.c on the two pointers of libs/list.h: the
  scan, the split, the insertion, both merges, and what each list operation does
  to a list that is no longer in order. **PagePool** is a first-fit pool
  (`FirstFitPool` is the refinement). Callers take any number of pages and give
  back any adjacent pages they hold, as default_check does. Pointers of pages
  that no pointer leads to are forgotten (`Keep`), as nothing reads them before
  they are written.
- **UserMemory** models mm/vmm.c and the page tables of mm/pmm.c with the
  callers in process/proc.c: mm_map, get_pte, page_insert, unmap_range,
  exit_range, copy_range, load_icode, dup_mmap, the release in do_exit, and
  do_pgfault; on three levels of tables that lie in pages themselves. As in
  SfsFile the functions are operators on a record. **PrivateMemory** is the
  promise: a child starts with a copy of its parent's memory, and nobody sees
  what another stores (`MemoryIsPrivate` is the refinement).
- **Kmalloc** models mm/kmalloc.c: the ring of free blocks with the search from
  wherever slobfree points, the split, the insertion and both merges of
  slob_alloc and slob_free, and requests of a page or more with their bigblock_t
  in the same ring. Addresses are in units, so that a block's header is one.
  **HeapPool** is the promise: whoever allocates memory has it for himself
  (`HeapIsPool` is the refinement); `SlobExact` says what the ring must be for it.
- **Swap** models lab3's paging, where it is in use: page faults, swap_out and
  swap_in with one page table, and the FIFO and the clock as managers, with the
  list, the hand and the visited flags. **PagedMemory** is the promise: memory has
  what was stored last, and the page that goes is the oldest (`FifoPaging` is the
  refinement, for both managers). **SecondChance** extends it with the reference bit
  that lab3's report describes, as a history variable, to show where the clock of the
  code differs.

### Modules for several components

Two modules compose components that belong together but share no variable:

- **Fork**: what do_fork gives a process besides its place in the scheduler, an
  identifier (GetPid) and memory and a table of open files (Files, as `F`).
- **Lists**: five lists that the kernel keeps in an order, the timers (TimerList),
  the children of a process (ProcLinks, as `Links`), the pages that can be
  swapped out (Swap, as `Paging`), the blocks of free pages (PageAlloc, as
  `FreeList`) and those of the kernel heap (Kmalloc, as `Slob`).

Their variable `part` says of which of the components a behaviour is; the
others' variables stay as they were initially. So the states are the sum of the
components' states and not their product, and none restricts another. Nothing is
lost by that, as no component reads what another writes: identifiers do not
depend on allocations, nor the timer list on the links. Their constants come with
the components' assumptions (`OwnersAssumption`, `RelativesAssumption`,
`PagingAssumption`, `FreeListAssumption`, `SlobAssumption`).

### Modules for TLC

The MC modules give the constants their values: **MCLists** those of Lists,
**MCFileSystem** those of SfsFile, **MCMemory** those of UserMemory.

### Proof modules

- **SchedProofs** has lemmas for every module that extends Sched, **SemProofs**
  lemmas for every module that extends Sem.
- **ProcProofs**, **SemClientsProofs**, **PhilosophersProofs** and **StdinProofs** hold
  the theorems about the modules they are named after.
- **ForkProofs** and **ListProofs** hold those about the components of Fork and Lists.
  Each theorem is about one component; no proof about one uses a fact of another.

## The runs

A type invariant is a conjunct of a property of each run but proc, whose
`TypeOK` is proved (`TypeCorrect`), and but for GetPid and TimerList, where it is
proved as part of their inductive invariants. Proved only are also `ReapedByParent` of Proc,
`IntervalFree` of GetPid, `HeadNotExpired` of TimerList, and the exclusion by the
mutex of Philosophers (`MutexExclusive`). The cfg of a run
names the bounds.

| run | instance | what it shows |
|---|---|---|
| proc | init, two user processes | the run queue, zombies, parents, timers and links between exit and wait are consistent under every interleaving; init reaps orphans and a process killed in an interruptible sleep exits |
| proc_kill (violation) | the same | the comment of do_kill does not hold, see below |
| lists | three timers, up to four ticks; init, four user processes; both symmetric; four addresses for three pages, FIFO and clock; eight pages, the highest stays free; a heap of three pages of five units | timers fire at their tick; the links are a family tree; a program finds what it stored whatever was swapped out; the free list is exact and the allocator is a first-fit pool; the ring of the heap is exact and nobody gets another's memory |
| fork | four processes, MAX_PROCESS 5, MAX_PID 7; two processes, two files_structs of two descriptors, a file, two directories | identifiers are unique, the scan ends; the counts of inodes and what processes own are exact, except for the known losses |
| stride | three processes, 3-bit strides (BIG_STRIDE 2), priorities 0 to 2, time slices from 0 to above the limit, states compared without dead links and up to a rotation of the strides | the pointers of the heap agree and it is ordered, the smallest stride is picked, the class implements Sched, and a queued process runs at last while the strides are near or nobody blocks |
| sem | three threads, two semaphores, values up to 2 | semaphores keep their promise, also of service |
| philosophers | three philosophers, two meals | exclusion, no forgotten neighbour, all finish |
| stdin | three readers, a ring of two, three characters | no lost wakeup or character, order, every character awaited is read |
| memory | two processes, 18 pages, eight addresses, four programs, two values | no page has two uses, none is lost but where exit_range loses tables, memory is private |
| pages_full (violation) | eight pages | pages are handed out twice, see below |
| clock_access (violation) | lab3's check: five addresses, four pages | a page that was accessed goes before one that was not, see below |
| file_system | two files of up to five bytes on a disk of three blocks, two descriptors | files hold what was written, no block is lost or shared, when assertions fail |

### Why the bounds are enough

- Two user processes and init give do_exit a parent, a child and a third party:
  reparenting, an orphan that is a zombie already or becomes one later, do_kill
  from a sibling, a parent that waits for any or for one child. Three generations
  below init, where a grandchild's zombie is inherited from a parent that is not
  init's own child, need a third; there the theorems, which hold for any number
  of processes, stand in (`NoLostWakeup`, `ParentsLive`).
- Four user processes give ProcLinks a line of siblings with a first, a middle
  and a last, and an adopter that has children already.
- MAX_PID 7 with up to four processes lets get_pid wrap around several times with
  its interval at every width.
- Three timers: one to insert or delete with a neighbour on either side, and
  equal times.
- Three processes fill the skew heap to three nodes (idleproc runs), so that a
  merge goes down both spines. The comparison of strides depends only on their
  difference modulo 2^W; three bits have every case the signed comparison
  distinguishes, and strides start anywhere, as kmalloc leaves them.
  That is also why the run may compare states by the differences of the strides
  (the VIEW `LiveState`): a rotation of all strides changes no step and no
  property. And it leaves out the links of processes outside the heap, which
  skew_heap_insert overwrites before anything reads them, the time slice of a
  process that is not running but for what stride_enqueue makes of it, and a
  priority but for what it adds to the stride. States that the VIEW takes for one
  have the same steps up to it and agree on every condition of fairness (each is
  about inSched, needResched and the time slice of the current process), so that
  it is sound for `QueuedRuns`, too; a symmetry would not be.
- Three processes are what `QueuedRuns` needs: for one to be passed over, two others
  have to block and be woken in turn. Two priorities that add 1 and 2 to a stride
  bring about every distance, and with them TLC finds the starvation described
  below if `QueuedRuns` is stated without its exceptions; with one priority, or
  with two processes, it does not.
- The ring of two is full after two characters and wraps at the third.
- Eight pages of PageAlloc leave room for three free blocks of different sizes with pages in
  use between them, and for a block between two free neighbours.
- Tables of two entries (FAN) give UserMemory two directories, two page tables in
  each and eight addresses, so that vmas share a page table, a directory, or only
  the top. The four programs are: one segment; two that need two page tables of
  one directory; two that overlap so that mm_map does not notice; two that
  overlap so that it does. 18 pages are two full processes and a few more, and
  they do run out. The stack's vma has a page that is allocated by load_icode and
  one that a page fault brings (STACKLOADED 1).
- Kmalloc has pages of five units (PAGE_SIZE 10, SLOB_UNIT 2) and requests that
  take two and three units with their header, so that a page is used up exactly,
  or with a rest of one unit; a bigblock_t has two units. 11 bytes are
  two pages, as are 21, which find_order rounds down. Three pages make adjacent
  pages merge in the ring, and run out.
- Four addresses and three pages are one less of each than check_swap has; the
  hand goes round, and pages come back from the disk and leave again.
- Two processes and two files_structs in Files: one forks and the other fails,
  shares descriptors of the same file in both tables, or exits first. One of the
  two descriptors (STD 1) survives do_execve. One lost reference or mm_struct of
  each kind (MaxLost) is enough to see that it stays lost and no more is.
- In SfsFile a file has one direct block and an indirect one with two entries
  (NDIRECT 1, BLK_NENTRY 2), and a block two bytes (BLKSIZE). The three blocks
  of the disk are then used up by the first file's second block already: direct,
  indirect, one entry. MAX_FILE_SIZE 5 ends within a third block. A transfer has
  at most BLKSIZE bytes, as sysfile_read and sysfile_write have at most
  IOBUF_SIZE, and so touches at most two blocks. On the real disk, too, there are
  fewer free blocks than a file could have (`SfsAssumption`).

No state of the runs is cut off by a bound on time: counters that would grow are
either bounded in a guard by a named constant (`MaxTyped`, `MaxValue`, `TIMES`,
`MAX_PROCESS`, `MaxLost`) or reduced modulo their width.

Deadlock is checked except in memory, where a kernel without a free page
has stopped and a segment that panics is no step, in file_system, where the
kernel has panicked, and in fork, where the last process may have exited.

Besides stride (see above), the runs memory, file_system and lists compare states
by a VIEW: not by which page
serves which purpose (in UserMemory and Swap; the states of Kmalloc and PageAlloc
are compared as they are), nor by what free pages and free blocks contain (all of
it is written before it is read; an uncleared page is given any content), nor by
what the blocks of a file contain of which nothing is promised any more, nor by an
inode on the disk that the dirty one in memory will overwrite.

### Fairness

- Kernel code that has control goes on: weak fairness of the kernel's own steps.
- Clock interrupts keep coming, and time slices end: strong fairness of the tick
  (an interrupt needs interrupts on, which they are again and again).
- A queued process is picked at last: strong fairness of `Schedule` for each
  process. This is the promise of the round-robin class, which Sched models: its
  queue is a list, and whoever is in it gets to the head. The liveness properties
  of the other runs are about the kernel with that class. The stride class keeps
  the promise only while the strides lie within BIG_STRIDE of each other, or no
  process blocks (`QueuedRuns`, for priorities of at most BIG_STRIDE, so that each
  choice adds something); schedule() with it is the `Schedule` of Sched
  (`SwitchIsSched`), but not always a fair one.
- A timer expires at last (TimerList: at its tick).
- A client of a semaphore calls schedule() again and again.

No fairness is assumed of what programs do: a process may loop for ever, never
wait, never exit.

## What the proofs show

Every theorem holds for all values of the constants that satisfy the named
assumptions of the modules: any number of processes, threads, semaphores or
philosophers, any size of a buffer, any times. The two about PageAlloc have one
hypothesis more, that the highest page stays free (`TopStaysFree`): run pages_full
shows that they would be false without it.

| theorem | property | of |
|---|---|---|
| `RunQueueCorrect`, `ZombieIsInert`, `TimersCorrect`, `ParentsLive`, `NoLostWakeup`, `InitIsAlone` | `RunQueueExact`, `ZombieInert`, `TimerOfSleeper`, `ParentAlive`, `NoMissedChild`, `InitEndsAlone` | Proc |
| `SleepCorrect`, `CurrentCorrect`, `CountCorrect`, `ReapedByParentOnly` | `SleepHasReason`, `CurrentCanRun`, `NrProcessExact`, `ReapedByParent` | Proc, no run |
| `PidsAreUnique` | `PidsUnique` (refines PidAlloc) | GetPid |
| `LinksCorrect`, `FamilyImplemented` | `LinksAgree`, `LinksAreFamily` (refines Family) | ProcLinks |
| `ResourcesCorrect`, `InodesCorrect` | `ResourcesExact`, `InodesExact` | Files |
| `TimersFireOnTime` | `FiresOnTime` (refines Timers) | TimerList |
| `PagingIsFifo` | `FifoPaging` (refines PagedMemory) | Swap |
| `FreeListCorrect`, `FirstFitImplemented` | `FreeListExact`, `FirstFitPool` (refines PagePool) | PageAlloc |
| `SlobCorrect`, `HeapImplemented` | `SlobExact`, `HeapIsPool` (refines HeapPool) | Kmalloc |
| `WaitQueuesExact`, `FreeMeansNoWaiter`, `SemImplemented` | `QueuesExact`, `NoWaiterLeft`, `Semaphore` (refines SemAbs) | SemClients |
| `NobodyMissed`, `DiningImplemented` | `NoMissedFork`, `ForksExclusive` (refines Dining) | Philosophers |
| `NoCharLost`, `WaitQueueExact`, `RingImplemented` | `NoLostChar`, `QueueExact`, `RingIsLine` (refines LineBuffer) | Stdin |

### Processes

`ProcProofs` proves that the safety properties of run proc are invariants of
`Spec`, and four properties that the runs leave to it. They are not inductive one
by one. The inductive invariant `IInv` joins them with `Control`, which ties where
a process has got to (`pc`) to its state and wait state: only with it is it known
that the process a timer wakes is asleep in do_sleep and no zombie, that whom
do_exit wakes sleeps in do_wait, and that a freed proc_struct is not in the run
queue. `SchedProofs` has what wakeup_proc and schedule() preserve, for any module
that extends Sched. There is a lemma for each kind of step: a wakeup, a fork, an
exit, a reap, going to sleep, and steps that leave the scheduler alone.

`InitIsAlone` is about the assertions at the end of init_main: when do_wait finds
no child of init, there is no process at all but idleproc. This needs that parents
lead to init, which no property about one process and its parent says: a cycle of
processes that are each other's parents would also have live parents. `Rooted`
says it without recursion: in every set of processes without init, somebody has
its parent outside the set. A process without children that is taken as the set
gives the step; the set of all processes but init gives the theorem.

The assumptions are those of the modules: idleproc is no element of the finite set
of other processes, init is, MAX_PROCESS is a number, and the argument 0 of do_wait
is no process (`IdleAssumption`, `FiniteAssumption`, `InitAssumption`,
`MaxAssumption`, `AnyAssumption`).

### What do_fork sets up

`ForkProofs` proves three things.

- The interval of get_pid and the refinement of PidAlloc, for every MAX_PID greater
  than MAX_PROCESS, as get_pid's static assertion demands (`PidAssumption`). The
  invariant says what the scan has established for the processes it has met.
- What do_fork allocates is what the processes have and what the code is known to
  lose. `ResourceInv` adds to `ResourcesExact` that a process has its memory only
  while it lives (otherwise do_wait would have to free it) and that no NULL counts
  as a lost files_struct. `CountOne` is the lemma about cardinalities.
  `FilesAssumption` says that the directories and files are different things and
  that the processes and the files_structs are finite in number.
- An inode counts exactly its descriptors and its references, and is in memory just
  as long as there is one. The counts of the invariant (`InodeInv`) are cardinalities
  of sets of descriptors and working directories, so that a step that opens, closes or
  shares one changes them by one (`OpensSet`, `CountSet`). `Good` says what an inode
  must be for given counts, `GoodWith` that all inodes are, for given tables; the
  operations of inode.c preserve the one (`RefDecGood`, `OpenDecGood`, ...), the calls
  the other (`OpenTable`, `DupTable`, ...). Closing and duplicating a whole table is a
  loop over the descriptors. That the loop as the model writes it, a recursive
  function, exists and preserves what each round preserves is shown by the least round
  for which it would not (`LoopExists`, `LoopGood`).

### Lists

`ListProofs` proves five.

- The list of differences implements Timers, for any number of timers and any
  times. The sum of differences up to a timer is what it has left; `Deltas` says so
  without a sum, as the difference between neighbours, so that no induction is
  needed but for finding the last timer that expires.
- The pointers of the family agree. `LinksInv` says of each process that its older
  and its younger sibling point back (`SiblingExact`), that cptr leads to a child
  without a younger sibling (`YoungestExact`), that zombies have no children but
  for the one that is still handing them over (`Childless`, `Leaver`). The loop of
  do_exit is not atomic here: in the middle of it the yptr of the next child may
  still lead to the child init has just adopted, and `YoungestExact` has to say
  so. `LinksAssumption` says that init is a process, that idleproc is none of the
  others, of which there are finitely many, and that NULL is neither. That do_wait
  finds the children along them, and so that the links implement Family, needs
  more: siblings could agree with one another in a circle to which no cptr leads.
  `FamilyInv` adds that for each process there is a line of its live children
  along optr (`Lines`). What do_wait walks is such a line (`WalkOfChain`), since
  no line is longer than there are processes (`ChainLength`).
- Paging implements PagedMemory under the FIFO and under the clock, for any number
  of pages and addresses. A fault works on a record of the state, and the
  invariant (`Consistent`) is about such a record, so that it can be shown for the
  swapping out (`FreePage`) and for the page that arrives (`Arrives`) in turn: the
  manager's list has the pages that are not free, each once (`ListExact`); the
  page table leads to the pages of the list and they lead back, and an address
  that is not in memory has its own place on the disk (`TableExact`); and the
  clock's hand is at the oldest page, while no visited page is older than one that
  is not (`HandExact`). From that it follows that the clock goes round the list
  either not at all or all the way (`ClockDeparts`). That a page is swapped out
  when as many are in memory as there are, and not before, is a fact about
  cardinalities (`FullList`). `SwapAssumption` says that there is a page and an
  address, and that the disk has a place for each address.
- The free list has the maximal runs of free pages, and default_alloc_pages takes the
  lowest pages that fit. `FreeBlocks` says that the blocks are in order along both
  pointers (`Sorted`), that with their sizes they make up exactly the free pages
  (`Tiled`), and that no two are adjacent (`Apart`). The scan from free_list then
  meets the blocks in the order of their addresses (`ScanInOrder`), so that it finds
  the first that is large enough (`FirstFitIs`), the place to insert a block
  (`InsertedIs`) and the neighbours to merge with (`MergedIs`). A run of free pages
  lies within one block as no two blocks are adjacent (`RunInBlock`), which is why
  an allocation fails only if no pages fit. `PageAssumption` says that there is a page,
  and that neither free_list nor NULL is one.
- Every unit of the heap's pages is in just one block, free or in use, and no two
  callers have the same memory. `HeapInv` is about a state of the heap as slob_alloc
  and slob_free work on it: the ring leads from each free block to the next one above
  and from the last to the arena (`Ringed`), its blocks and those in use make up the
  heap's pages (`Tiles`), no free block ends where the next begins (`Nearly`, which
  leaves out one block while slob_free merges), and what callers have agrees with the
  bigblock_t's and with the units in the headers (`Users`). The search starts wherever
  slobfree points: it comes round to every block of the ring (`RingCovers`), so that
  slob_free finds the one place for a block (`PointIs`) and slob_alloc any block that
  is large enough (`FirstFitTakes`). A page that slob_alloc gets becomes a block in
  use which is then freed (`GrowIs`), as in the code. Pages lie apart from small
  blocks since the heap has none of them (`SmallFromBig`), and what find_order rounds
  down to fits into its pages (`GivenFits`). `KmallocAssumption` says of the sizes
  that units divide a page, and that a bigblock_t (24 bytes) is larger than a unit
  (16) and, with one more, smaller than a page.

### Semaphores, philosophers, keyboard

The three have in common that a process goes to sleep in one critical section and
finds out why it was woken in another, after other processes, interrupts and
do_kill have come between. Each invariant relates the wait queue to the scheduler's
state.

- `SemProofs` states `WaitsExact` over the semaphore `w[p]` that p is inside down()
  for, which each client keeps in a way of its own (a variable of SemClients, the
  program counter of Philosophers), and what up() and both halves of down()
  preserve: a queue has whoever sleeps for it, once; a process that is inside
  down() and awake was granted its unit; with a unit left nobody waits.
  `SemClientsProofs` adds the rest of a system (any calls in any order) and
  proves the refinement of SemAbs, in which the queue is the order of the calls.
  `ValueAssumption` says that initial values are numbers.
- `PhilosophersProofs` proves exclusion for any number of philosophers. The
  invariant has, for the mutex, that there is one holder at most, whoever up() has
  handed it to included, and none while it is free (`MutexExact`); for each fork
  semaphore, whether its owner has asked for it, been granted it or eaten, against
  state_sema (`ForksExact`); that two neighbours are never both EATING (`Apart`);
  and `Served`, that whoever is HUNGRY has a neighbour who eats or one who is
  about to test. The lemmas use of the table only that everybody has a neighbour
  on each side who has him on the other (`Seats`), so that two philosophers, whose
  left neighbour is the right one, are no special case. `PhilAssumption` says that
  there are at least two, numbered from 0, and that the mutex is none of their
  semaphores.
- `StdinProofs` proves that no reader sleeps while there is a character. The ring is
  addressed modulo its size, so that the proof of `RingIsLine` needs that different
  places between rpos and wpos are different elements (`ModDistinct`). Overwriting
  the oldest character of a full buffer moves rpos past it, which is the step of
  LineBuffer that drops it. `SizeAssumption` says that the buffer has at least one
  element.

To be reasoned about, Sem and Stdin take the process out of the middle of a wait
queue by `RemoveFirst` of SequencesExt (as list_del does: it is there once), and
not by a `SelectSeq`.

### What is only model-checked

- Liveness: `OrphanReaped`, `KilledSleeperExits`, `ScanEnds`, `QueuedRuns`,
  `WaiterServed`, `AllQuit`, `CharIsRead`. Fairness and ENABLED are beyond the
  prover.
- StrideSched: the merge of skew heaps is recursive over the heap.
- SfsFile and UserMemory: their operations are folds over blocks, tables and vmas, one
  inside the other, on records that the next operation continues with. A recursive
  function can be reasoned about as the loops of Files and the scans of Lists
  are, by its least counterexample, but each of these would need that for every fold.

## Where code and comments disagree

- **A kill can be slept through** (run proc_kill). do_kill is described as "kill
  process with pid by set this process's flags with PF_EXITING"
  (process/proc.c:978). trap() tests PF_EXITING before it calls schedule(): a
  process that is killed while it waits for the CPU there goes back to its
  program with the flag set. If the program then waits for a child that never
  exits, nothing wakes it; a second do_kill returns -E_KILLED without waking
  anybody.
- **The highest free block is appended to itself** (run pages_full). The loop of
  default_free_pages goes on after it has appended the block at the end; in the
  next round it finds the block itself to be the last one and appends it to
  itself, so that its prev points to itself. A list_del of the block then does
  not take it out, and its pages are handed out again while they are in use.
  default_init_memmap has the same loop. As long as the highest page stays free
  the allocator is correct (run lists, theorem `FreeListCorrect`).

- **The clock takes no notice of accesses** (run clock_access). The report of lab3
  describes a reference bit that says whether a page was accessed lately and gives
  it a second chance (lab3/lab3.md:358-370), and names it as the difference to the
  FIFO (479-486). The code has a flag `visited` for it, but only map_swappable sets
  it, when a page arrives (lab3/kern/mm/swap_clock.c:72), and nothing reads the
  flag that the hardware keeps in the page table. So the hand is always at the
  oldest page when one is needed, and the clock is a FIFO (run lists, theorem
  `PagingIsFifo`).

  The test of the clock, `_clock_check_swap`, does not show this, nor does it
  contradict it. As its source reads (lab3/kern/mm/swap_clock.c:156-182), it stores
  to five addresses with four pages of memory, to each of them again after the
  fifth fault, and asserts `pgfault_num==5` after every store: no replacement
  whatever could satisfy that, and a FIFO faults a sixth time at the second store
  to 0x1000 (169). What runs is something else: the kernel is compiled with -O2
  (lab3/Makefile:33), and the compiler leaves out stores of a value that is there
  already. The function in lab3/obj/kern/mm/swap_clock.o stores to 0x3000, 0x1000,
  0x4000, 0x2000 and 0x5000, only compares pgfault_num where the source stores to
  0x2000, 0x1000, 0x2000, 0x3000 and 0x4000, stores to 0x5000 again, and then loads
  0x1000. With a FIFO this is a fifth fault at 0x5000, which replaces 0x1000, and a
  sixth at the load, which replaces 0x2000. These are the numbers that are asserted
  and the faults and victims that lab3/tools/grade.sh:413-423 expects. As
  configured, with the manager called lru, it does not run at all
  (lab3/kern/mm/swap.c:43-45).

The rest are not disagreements with a comment, but were met while modelling.
The properties are stated so that they say exactly what still holds.

Scheduling and devices:

- With the stride class a process in the run queue can starve, although every
  process that runs blocks or is preempted (`QueuedRuns` says what excludes it).
  stride_enqueue puts a process that is woken into the heap with the stride it had
  when it blocked (schedule/default_sched_stride.c:74), however far the others
  have gone on since. Once strides lie more than half the range apart, or around
  the circle, "less" is no order: of 0, 2 and 5 modulo 8 each is less than another.
  With BIG_STRIDE 2, p3 is queued at 0, p2 is woken at 5 and picked before p3, goes
  on to 0 and (the later one being preferred among equals) to 2; p1, asleep at 5, is
  woken, p2 blocks, p1 goes on in the same way, and so on. With strides of 32 bits
  it takes more steps, and processes whose strides start anywhere, as they do.
- A killed reader of the keyboard can go back to sleep (fs/devs/dev_stdin.c:59).
- A process whose uninitialised time slice is negative never loses the CPU
  (schedule/default_sched_stride.c:76).

Files (`InodesExact`, `ResourcesExact`):

- When copy_files fails, do_fork goes to the label of copy_mm and loses the new
  mm_struct (process/proc.c:506).
- do_exit gives the files_struct back only if the process has an mm; after a
  do_execve that fails past its point of no return its files stay open for ever
  (process/proc.c:553).
- vfs_open that fails with -E_EXISTS keeps the reference vfs_lookup took
  (fs/vfs/vfsfile.c:47).

Data on the disk (`FilesAreBytes`, `BlocksExact`, `StopsOnlyIf`):

- A write beyond the last block that finds the disk full makes the file longer
  without a block (fs/sfs/sfs_inode.c:652). A block that such a file gets later
  through an indirect block that exists does not make the inode dirty (279), and
  can be forgotten at the last close.
- A seek that runs out of blocks half way keeps the blocks it got without
  changing the size (958).
- A descriptor whose position lies behind the end of a file that was truncated
  through another descriptor makes the assertion of sfs_bmap_load_nolock fail at
  its next write (356).
- A transfer of more than one aligned block would take the blocks for adjacent
  (628). It never has more than one, since IOBUF_SIZE is SFS_BLKSIZE.

Memory (`PagesExact`, `HeapIsPool`, `FifoPaging`):

- exit_range frees a directory together with the first vma that lies in it, though
  it may hold page tables of other vmas, which are lost (mm/pmm.c:431).
- mm_map looks for an overlap only at the start of the new segment
  (mm/vmm.c:172); an overlap it misses stops the kernel in insert_vma_struct.
- swap_init_ok is set while check_mm_struct is NULL, so that an allocation of a
  single page that fails stops the kernel instead of returning NULL
  (mm/pmm.c:66); only kernel stacks, which have two pages, fail gracefully.
- do_pgfault takes every page table entry that is not 0 for a swapped page
  (mm/vmm.c:447), also the valid one of a page that may not be written.
- find_order rounds down (mm/kmalloc.c:213): for 8193 bytes kmalloc gets two
  pages. And 4064 to 4079 bytes are too many for slob_alloc, whose assertion
  fails (100), but too few to be given pages (224). Nobody asks for such sizes.
- The manager that lab3 selects, named lru, returns a variable it has never set
  instead of the page it has unlinked (lab3/kern/mm/swap_lru.c:104).

## Not modelled

- Monitors: cond_signal and cond_wait are empty exercise bodies, and with them
  the second version of the philosophers.
- The assembly of traps and context switches, boot, console, kernel monitor.
- User programs: they are the environment, any sequence of calls.
- Directories' entries, path names, mounting and devices' inodes and descriptors:
  directories are only read (creating, linking and removing files is not
  implemented, so that an nlinks is never 0), and a path is the file it leads to.
  Opening with O_CREAT a name that does not exist, or a directory, calls a NULL
  operation; these are no steps of the model.
- Permissions of pages, the checks of user pointers and threads that share an mm
  or a files_struct. Swapping in lab8: as
  configured, nothing is put into the list of pages that can be swapped. In lab3,
  the manager lru (see above), and what check_swap does to the free list before
  and after.
- Aligned blocks of the kernel heap and ksize, which nobody uses. In Files an
  allocation fails or not, at any time, whatever the heap has.
- The earlier laboratories. lab1 to lab7 repeat the files of lab8 in earlier
  stages, often unchanged; more than four fifths of the lines of code under `src/`
  are theirs. A definition here
  is mapped to the lab8 lines it was translated from and not to the copies, so
  the share of all lines that is mapped stays small however much of the kernel
  is modelled.

In Philosophers the mutex is never contended, since no philosopher is switched
out while he holds it: the branches that wait for it cannot be reached there;
SemClients has the contention.

## Plan

1. **Proofs**: the block map of SfsFile, one operation at a time, and the merge of
   skew heaps. Modules that share nothing can be instantiated by one module, as in
   Fork and Lists, and proved about in one.
2. **Allocators of lab2**: best fit (only lab2/ft/lab2-basic has it; lab2/kern has
   the empty exercise), the buddy system and SLUB of lab2/ft, beside first fit.

Modules with proofs declare no RECURSIVE operator.
