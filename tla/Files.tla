------------------------------- MODULE Files --------------------------------
(***************************************************************************)
(* Open files and working directories of lab8 (fs/file.c, fs/fs.c,         *)
(* fs/vfs/vfsfile.c, fs/vfs/vfspath.c), the inodes in memory they hold on  *)
(* to (fs/vfs/inode.c, fs/sfs/sfs_inode.c), and what do_fork, do_execve,   *)
(* do_exit and do_wait (process/proc.c) allocate and free.                 *)
(*                                                                         *)
(* The kernel is not preempted and none of these calls waits (files_sem,   *)
(* the locks of sfs and of an inode are free whenever they are taken), so  *)
(* that a call is one step.  Any allocation may fail.  A call that fails   *)
(* and leaves everything as it was is a stuttering step; one that ends in  *)
(* a panic (O_CREAT of a name that does not exist, or of a directory) is   *)
(* no step.  A file is empty or not: of its contents more is in SfsFile.   *)
(***************************************************************************)
EXTENDS Integers, FiniteSets, Functions

CONSTANTS Procs,      \* the slots for user processes (MAX_PROCESS)
          Regular,    \* the files of the disk
          Dirs,       \* and its directories
          root,       \* the root directory
          NENTRY,     \* FILES_STRUCT_NENTRY, more than 100 in the code
          STD,        \* the descriptors files_closeall skips, 2 in the code
          Structs,    \* the files_structs there is memory for
          MaxLost,    \* how many references and mm_structs may get lost
          NULL

FilesAssumption ==
    /\ root \in Dirs
    /\ Regular \cap Dirs = {}
    /\ NULL \notin Regular \cup Dirs \cup Structs
    /\ NENTRY \in Nat /\ STD \in 0 .. NENTRY /\ MaxLost \in Nat
    /\ IsFiniteSet(Procs) /\ IsFiniteSet(Structs)

Nodes == Regular \cup Dirs
Fds == 0 .. NENTRY - 1

VARIABLES state,      \* "NONE", "ALIVE" or "ZOMBIE"
          mm,         \* has the process an mm_struct?
          filesp,     \* proc->filesp
          created,    \* the files_structs in use
          fd_array,   \* the inode of a descriptor, or NULL if it is FD_NONE
          pwd,
          inode,      \* what memory and disk hold of a file, see Inode
          heap,       \* how many proc_structs, kernel stacks and mm_structs exist
          lostRef,    \* history: the opens that failed with -E_EXISTS
          lostMm,     \* history: the forks that failed in copy_files
          stranded    \* history: the files_structs of those that exited without mm

vars == <<state, mm, filesp, created, fd_array, pwd, inode, heap,
          lostRef, lostMm, stranded>>

\* size and dirty are of the inode in memory, if there is one (cached).
Inode == [cached : BOOLEAN, ref_count : Nat, open_count : Nat,
          dirty : BOOLEAN, size : {0, 1}, disk : {0, 1}]

Allocated == {"proc", "kstack", "mm"}

TypeOK ==
    /\ state \in [Procs -> {"NONE", "ALIVE", "ZOMBIE"}]
    /\ mm \in [Procs -> BOOLEAN]
    /\ filesp \in [Procs -> Structs \cup {NULL}]
    /\ created \subseteq Structs /\ stranded \subseteq created
    /\ fd_array \in [Structs -> [Fds -> Nodes \cup {NULL}]]
    /\ pwd \in [Structs -> Dirs \cup {NULL}]
    /\ inode \in [Nodes -> Inode]
    /\ heap \in [Allocated -> Nat]
    /\ lostRef \in [Nodes -> Nat] /\ lostMm \in Nat

\* References that stay: bootfs_node and the working directory of init.
Boot(n) == IF n = root THEN 2 ELSE 0

Empty == [fd \in Fds |-> NULL]

\* user_main, a kernel thread that init has just created: it has no mm yet.
Init ==
    \E p \in Procs, f \in Structs :
       /\ state = [q \in Procs |-> IF q = p THEN "ALIVE" ELSE "NONE"]
       /\ mm = [q \in Procs |-> FALSE]
       /\ filesp = [q \in Procs |-> IF q = p THEN f ELSE NULL]
       /\ created = {f}
       /\ fd_array = [g \in Structs |-> Empty]
       /\ pwd = [g \in Structs |-> IF g = f THEN root ELSE NULL]
       /\ \E S \in SUBSET Regular :
             inode = [n \in Nodes |->
                [cached |-> n = root, ref_count |-> IF n = root THEN Boot(n) + 1 ELSE 0,
                 open_count |-> 0, dirty |-> FALSE,
                 size |-> IF n \in S THEN 1 ELSE 0, disk |-> IF n \in S THEN 1 ELSE 0]]
       /\ heap = [k \in Allocated |-> IF k = "mm" THEN 0 ELSE 1]
       /\ lostRef = [n \in Nodes |-> 0]
       /\ lostMm = 0
       /\ stranded = {}

-----------------------------------------------------------------------------
(* Inodes: functions from the inodes before a call to those after it *)

\* sfs_fsync
Fsync(I, n) == [I EXCEPT ![n].dirty = FALSE,
                         ![n].disk = IF I[n].dirty THEN I[n].size ELSE @]

\* inode_ref_inc
RefInc(I, n) == [I EXCEPT ![n].ref_count = @ + 1]

\* vop_reclaim at the last reference: sfs_reclaim writes the inode back if it is
\* dirty and takes it out of the hash list.
Reclaim(I, n) == [Fsync(I, n) EXCEPT ![n].cached = FALSE]

\* inode_ref_dec
RefDec(I, n) ==
    LET J == [I EXCEPT ![n].ref_count = @ - 1]
    IN IF J[n].ref_count = 0 THEN Reclaim(J, n) ELSE J

\* inode_open_inc, inode_open_dec.  Mutant: the last close does not sync.
OpenInc(I, n) == [I EXCEPT ![n].open_count = @ + 1]
OpenDec_NoSync(I, n) == [I EXCEPT ![n].open_count = @ - 1]
OpenDec(I, n) ==
    LET J == [I EXCEPT ![n].open_count = @ - 1]
    IN IF J[n].open_count = 0 THEN Fsync(J, n) ELSE J

\* vfs_lookup, as far as it succeeds: sfs_load_inode finds the inode in memory or
\* reads it from the disk.  (The references to the directories on the way are
\* given back before it returns.)
Lookup(I, n) ==
    IF I[n].cached THEN RefInc(I, n)
    ELSE [I EXCEPT ![n].cached = TRUE, ![n].ref_count = 1, ![n].open_count = 0,
                   ![n].dirty = FALSE, ![n].size = I[n].disk]

\* The file gets size s: sfs_truncfile, or sfs_io_nolock beyond the end.
Resized(I, n, s) == [I EXCEPT ![n].dirty = @ \/ I[n].size # s, ![n].size = s]

\* vfs_close
VfsClose(I, n) == RefDec(OpenDec(I, n), n)

\* fd_array_close of the descriptors S of the table fds.
CloseFds(I, fds, S) ==
    LET Close(n, J) == IF n = NULL THEN J ELSE VfsClose(J, n)
    IN FoldFunctionOnSet(Close, I, fds, S)

\* dup_files and fd_array_dup of a whole table, of its working directory too.
DupFds(I, fds, dir) ==
    LET Dup(n, J) == IF n = NULL THEN J ELSE OpenInc(RefInc(J, n), n)
    IN FoldFunctionOnSet(Dup, RefInc(I, dir), fds, Fds)

-----------------------------------------------------------------------------
(* System calls of the process p on files *)

files(p) == fd_array[filesp[p]]

\* fd_array_alloc(NO_FD): the first free descriptor.
IsFirstFree(fds, fd) == fds[fd] = NULL /\ \A e \in 0 .. fd - 1 : fds[e] # NULL

SetFd(p, fd, n) == fd_array' = [fd_array EXCEPT ![filesp[p]][fd] = n]

\* User programs make system calls.
Running(p) == state[p] = "ALIVE" /\ mm[p]

notFiles == <<state, mm, filesp, created, heap, lostMm, stranded>>

\* vfs_open of the file n, with a reference and an open count; excl and create
\* for a file that exists is an error.
VfsOpen(I, n, truncate) ==
    LET J == OpenInc(Lookup(I, n), n)
    IN IF truncate THEN Resized(J, n, 0) ELSE J

\* file_open.  O_TRUNC, with O_WRONLY or O_RDWR, or O_CREAT make the file empty;
\* directories are only opened for reading.
Open(p, n, truncate) ==
    /\ Running(p)
    /\ truncate => n \in Regular
    /\ \E fd \in Fds : IsFirstFree(files(p), fd) /\ SetFd(p, fd, n)
    /\ inode' = VfsOpen(inode, n, truncate)
    /\ UNCHANGED <<notFiles, pwd, lostRef>>

\* file_open with O_CREAT | O_EXCL of a file that exists fails with -E_EXISTS, but
\* vfs_open does not give the reference of vfs_lookup back.
OpenExcl(p, n) ==
    /\ Running(p)
    /\ \E fd \in Fds : IsFirstFree(files(p), fd)
    /\ lostRef[n] < MaxLost
    /\ inode' = Lookup(inode, n)
    /\ lostRef' = [lostRef EXCEPT ![n] = @ + 1]
    /\ UNCHANGED <<notFiles, fd_array, pwd>>

\* file_close
Close(p, fd) ==
    /\ Running(p)
    /\ files(p)[fd] # NULL
    /\ SetFd(p, fd, NULL)
    /\ inode' = VfsClose(inode, files(p)[fd])
    /\ UNCHANGED <<notFiles, pwd, lostRef>>

\* file_dup(fd1, fd2), where fd2 is free, or the first that is for NO_FD.
Dup(p, fd1, fd2) ==
    /\ Running(p)
    /\ files(p)[fd1] # NULL
    /\ files(p)[fd2] = NULL
    /\ SetFd(p, fd2, files(p)[fd1])
    /\ inode' = OpenInc(RefInc(inode, files(p)[fd1]), files(p)[fd1])
    /\ UNCHANGED <<notFiles, pwd, lostRef>>

\* An empty file grows: file_write, or file_seek beyond the end, for which the
\* descriptor need not be writable.
Grow(p, fd) ==
    /\ Running(p)
    /\ files(p)[fd] \in Regular
    /\ inode' = Resized(inode, files(p)[fd], 1)
    /\ UNCHANGED <<notFiles, fd_array, pwd, lostRef>>

\* file_fsync
Sync(p, fd) ==
    /\ Running(p)
    /\ files(p)[fd] # NULL
    /\ inode' = Fsync(inode, files(p)[fd])
    /\ UNCHANGED <<notFiles, fd_array, pwd, lostRef>>

\* vfs_chdir to another directory n: vfs_set_curdir takes a reference of its own.
Chdir(p, n) ==
    /\ Running(p)
    /\ n # pwd[filesp[p]]
    /\ pwd' = [pwd EXCEPT ![filesp[p]] = n]
    /\ inode' = RefDec(RefDec(RefInc(Lookup(inode, n), n), pwd[filesp[p]]), n)
    /\ UNCHANGED <<notFiles, fd_array, lostRef>>

-----------------------------------------------------------------------------
(* Processes *)

\* What do_fork allocates, in this order, until an allocation fails.
ForkOrder == <<"proc", "kstack", "mm", "files">>

\* What do_fork frees if the i-th fails.  copy_files jumps to the label of
\* copy_mm.  Mutant: the kernel stack is kept then, too.
ForkFrees_NoStack(i) == {ForkOrder[j] : j \in 1 .. (IF i = 4 THEN 1 ELSE i - 1)}
ForkFrees(i) == {ForkOrder[j] : j \in 1 .. (IF i = 4 THEN 2 ELSE i - 1)}

Taken(h, kinds) == [k \in Allocated |-> h[k] + IF k \in kinds THEN 1 ELSE 0]
Freed(h, kinds) == [k \in Allocated |-> h[k] - IF k \in kinds THEN 1 ELSE 0]

\* do_fork of the child c.
Fork(p, c) ==
    /\ Running(p)
    /\ state[c] = "NONE"
    /\ \E f \in Structs \ created :
          /\ created' = created \cup {f}
          /\ filesp' = [filesp EXCEPT ![c] = f]
          /\ fd_array' = [fd_array EXCEPT ![f] = files(p)]
          /\ pwd' = [pwd EXCEPT ![f] = pwd[filesp[p]]]
    /\ inode' = DupFds(inode, files(p), pwd[filesp[p]])
    /\ heap' = Taken(heap, Allocated)
    /\ mm' = [mm EXCEPT ![c] = TRUE]
    /\ state' = [state EXCEPT ![c] = "ALIVE"]
    /\ UNCHANGED <<lostRef, lostMm, stranded>>

\* do_fork, when the i-th allocation fails.
ForkFails(p, i) ==
    /\ Running(p)
    /\ \E c \in Procs : state[c] = "NONE"
    /\ heap' = Freed(Taken(heap, {ForkOrder[j] : j \in 1 .. i - 1}), ForkFrees(i))
    /\ lostMm' = IF i = 4 THEN lostMm + 1 ELSE lostMm
    /\ lostMm' <= MaxLost
    /\ UNCHANGED <<state, mm, filesp, created, fd_array, pwd, inode, lostRef, stranded>>

\* do_exit of p with the descriptors fds: put_files, if p has an mm.
\* Mutant: put_files closes the files, but not the working directory.
PutFiles_NotPwd(p, fds, I) == CloseFds(I, fds, Fds)
PutFiles(p, fds, I) == CloseFds(RefDec(I, pwd[filesp[p]]), fds, Fds)

Leave(p, fds, I, hasMm) ==
    /\ state' = [state EXCEPT ![p] = "ZOMBIE"]
    /\ mm' = [mm EXCEPT ![p] = FALSE]
    /\ heap' = IF mm[p] THEN Freed(heap, {"mm"}) ELSE heap
    /\ IF hasMm
         THEN /\ inode' = PutFiles(p, fds, I)
              /\ created' = created \ {filesp[p]}
              /\ fd_array' = [fd_array EXCEPT ![filesp[p]] = Empty]
              /\ pwd' = [pwd EXCEPT ![filesp[p]] = NULL]
              /\ filesp' = [filesp EXCEPT ![p] = NULL]
              /\ UNCHANGED stranded
         ELSE /\ inode' = I
              /\ fd_array' = [fd_array EXCEPT ![filesp[p]] = fds]
              /\ stranded' = stranded \cup {filesp[p]}
              /\ filesp' = [filesp EXCEPT ![p] = NULL]
              /\ UNCHANGED <<created, pwd>>
    /\ UNCHANGED <<lostRef, lostMm>>

Exit(p) == Running(p) /\ Leave(p, files(p), inode, TRUE)

\* files_closeall, at the start of do_execve.
Kept(fds) == [fd \in Fds |-> IF fd < STD THEN fds[fd] ELSE NULL]
ClosedAll(p) == CloseFds(inode, files(p), STD .. NENTRY - 1)

\* do_execve of the program n.  Its descriptor stays open.
Exec(p, n) ==
    /\ state[p] = "ALIVE"
    /\ \E fd \in Fds :
          /\ IsFirstFree(Kept(files(p)), fd)
          /\ fd_array' = [fd_array EXCEPT ![filesp[p]] = [Kept(files(p)) EXCEPT ![fd] = n]]
    /\ inode' = VfsOpen(ClosedAll(p), n, FALSE)
    /\ heap' = IF mm[p] THEN heap ELSE Taken(heap, {"mm"})
    /\ mm' = [mm EXCEPT ![p] = TRUE]
    /\ UNCHANGED <<state, filesp, created, pwd, lostRef, lostMm, stranded>>

\* do_execve, when sysfile_open fails.
ExecNotOpened(p) ==
    /\ state[p] = "ALIVE"
    /\ Leave(p, Kept(files(p)), ClosedAll(p), mm[p])

\* do_execve, when load_icode fails: do_exit finds no mm.
ExecNotLoaded(p, n) ==
    /\ state[p] = "ALIVE"
    /\ \E fd \in Fds :
          /\ IsFirstFree(Kept(files(p)), fd)
          /\ Leave(p, [Kept(files(p)) EXCEPT ![fd] = n], VfsOpen(ClosedAll(p), n, FALSE), FALSE)

\* do_wait of the parent of c.
Reap(c) ==
    /\ state[c] = "ZOMBIE"
    /\ state' = [state EXCEPT ![c] = "NONE"]
    /\ heap' = Freed(heap, {"proc", "kstack"})
    /\ UNCHANGED <<mm, filesp, created, fd_array, pwd, inode, lostRef, lostMm, stranded>>

Next ==
    \E p \in Procs :
       \/ \E n \in Nodes : Open(p, n, FALSE) \/ OpenExcl(p, n)
       \/ \E n \in Regular : Open(p, n, TRUE) \/ Exec(p, n) \/ ExecNotLoaded(p, n)
       \/ \E n \in Dirs : Chdir(p, n)
       \/ \E fd \in Fds : Close(p, fd) \/ Grow(p, fd) \/ Sync(p, fd)
       \/ \E fd1, fd2 \in Fds : Dup(p, fd1, fd2)
       \/ \E c \in Procs : Fork(p, c)
       \/ \E i \in 1 .. 4 : ForkFails(p, i)
       \/ Exit(p)
       \/ ExecNotOpened(p)
       \/ Reap(p)

Spec == Init /\ [][Next]_vars
-----------------------------------------------------------------------------
(* Properties *)

\* The counts of an inode are exact, whatever was forked, executed, closed or
\* failed: open_count counts its descriptors, ref_count those, the working
\* directories, the references of the kernel and the ones vfs_open lost; and it
\* is in memory just as long as somebody refers to it.  And a file that nobody
\* has open is on the disk as it was left.  (And every variable has its type.)
InodesExact ==
    /\ TypeOK
    /\ \A n \in Nodes :
          LET I == inode[n]
          IN /\ I.open_count = Cardinality({e \in created \X Fds : fd_array[e[1]][e[2]] = n})
             /\ I.ref_count = I.open_count + Cardinality({f \in created : pwd[f] = n})
                                + Boot(n) + lostRef[n]
             /\ I.cached <=> I.ref_count > 0
             /\ I.open_count = 0 => ~I.dirty
             /\ ~I.dirty => I.size = I.disk

\* Whatever fails half way, nothing is freed twice and no more gets lost than an
\* mm_struct for each fork that fails in copy_files, and the files_struct of a
\* process that exits without an mm: every process has its proc_struct and
\* kernel stack until it is waited for, and its mm_struct and files_struct, which
\* no other has, until it exits.
ResourcesExact ==
    /\ heap["proc"] = Cardinality({p \in Procs : state[p] # "NONE"})
    /\ heap["kstack"] = heap["proc"]
    /\ heap["mm"] = Cardinality({p \in Procs : mm[p]}) + lostMm
    /\ \A p \in Procs : (state[p] = "ALIVE") = (filesp[p] # NULL)
    /\ created = ({filesp[p] : p \in Procs} \ {NULL}) \cup stranded
    /\ \A p, q \in Procs : p # q /\ filesp[p] = filesp[q] => filesp[p] = NULL
    /\ \A p \in Procs : filesp[p] \notin stranded
=============================================================================
