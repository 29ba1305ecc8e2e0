------------------------------ MODULE SfsFile -------------------------------
(***************************************************************************)
(* The data of the files of the simple file system of lab8                 *)
(* (fs/sfs/sfs_inode.c): the blocks of an inode, direct and in an indirect *)
(* block, the map of the free blocks, and reading, writing, seeking and    *)
(* truncating through descriptors that each have a position of their own.  *)
(*                                                                         *)
(* Every call holds sem of the inode, and waits for nothing: it is a step. *)
(* The failures are those of a full disk; a failing assertion stops the    *)
(* kernel.  The disk is too small for a file to have more blocks than an   *)
(* inode can name (120 blocks, an inode names 12 + 1024).                  *)
(***************************************************************************)
EXTENDS Integers, SequencesExt

CONSTANTS FileNames,
          Descs,        \* descriptors, of one process or of several
          BLKSIZE,      \* SFS_BLKSIZE, and IOBUF_SIZE too: 4096 in the code
          NDIRECT,      \* SFS_NDIRECT
          BLK_NENTRY,   \* SFS_BLK_NENTRY
          NBLOCKS,      \* the blocks that are free when all files are empty
          MAX_FILE_SIZE

ASSUME SfsAssumption ==
    /\ BLKSIZE \in Nat \ {0, 1} /\ NDIRECT \in Nat /\ BLK_NENTRY \in Nat
    /\ NBLOCKS \in Nat /\ NBLOCKS <= NDIRECT + BLK_NENTRY
    /\ MAX_FILE_SIZE \in Nat

VARIABLES din,       \* the sfs_disk_inode in memory
          dinode,    \* the one on the disk
          dirty,     \* sin->dirty
          freemap,   \* the free blocks
          entry,     \* the content of a block, if it is an indirect one
          data,      \* the content of a block, if it is not
          fd,        \* a descriptor: the name and the position in the file, or Closed
          panicked,  \* has an assertion failed?
          harm       \* history: what a full disk has done to a file

sfsVars == <<din, dinode, dirty, freemap, entry, data>>
vars == <<sfsVars, fd, panicked, harm>>

Blocks == 1 .. NBLOCKS    \* block 0 is none
Zero == <<>>
Closed == <<>>
Lost == <<<<"lost">>>>   \* no content of a file

\* The byte written to place x of f.
Written(f, x) == <<f, x>>

Din == [size : 0 .. MAX_FILE_SIZE, blocks : 0 .. NBLOCKS,
        direct : [0 .. NDIRECT - 1 -> {0} \cup Blocks], indirect : {0} \cup Blocks]

TypeOK ==
    /\ {din, dinode} \subseteq [FileNames -> Din]
    /\ dirty \in [FileNames -> BOOLEAN]
    /\ freemap \subseteq Blocks
    /\ entry \in [Blocks -> [0 .. BLK_NENTRY - 1 -> {0} \cup Blocks]]
    /\ data \in [Blocks -> [0 .. BLKSIZE - 1 ->
                    {Zero} \cup {Written(f, x) : f \in FileNames, x \in 0 .. MAX_FILE_SIZE}]]
    /\ fd \in [Descs -> {Closed} \cup [file : FileNames, pos : 0 .. MAX_FILE_SIZE]]
    /\ panicked \in BOOLEAN /\ harm \in [FileNames -> {"none", "cut", "holed"}]

NoEntries == [i \in 0 .. BLK_NENTRY - 1 |-> 0]
NoBytes == [i \in 0 .. BLKSIZE - 1 |-> Zero]

Init ==
    /\ din = [f \in FileNames |-> [size |-> 0, blocks |-> 0, indirect |-> 0,
                                   direct |-> [i \in 0 .. NDIRECT - 1 |-> 0]]]
    /\ dinode = din
    /\ dirty = [f \in FileNames |-> FALSE]
    /\ freemap = Blocks
    /\ entry = [b \in Blocks |-> NoEntries]
    /\ data = [b \in Blocks |-> NoBytes]
    /\ fd = [d \in Descs |-> Closed]
    /\ panicked = FALSE
    /\ harm = [f \in FileNames |-> "none"]

-----------------------------------------------------------------------------
\* A call works on the state s of the file system: what the variables hold, ino,
\* the block it has got last, done, how many bytes it has read or written, and
\* ret, how it has ended, or Ok.

Ok == "0"
sfs == [din |-> din, dirty |-> dirty, freemap |-> freemap, entry |-> entry,
        data |-> data, ino |-> 0, done |-> 0, ret |-> Ok]

Returns(s, ret) == [s EXCEPT !.ret = ret]

\* sfs_block_alloc.  Mutant: the block is not cleared.
BlockAlloc_Dirty(s) ==
    IF s.freemap = {} THEN Returns(s, "E_NO_MEM")
    ELSE LET b == Min(s.freemap)
         IN [s EXCEPT !.freemap = @ \ {b}, !.ino = b, !.entry[b] = NoEntries]
BlockAlloc(s) ==
    IF s.freemap = {} THEN Returns(s, "E_NO_MEM")
    ELSE LET b == Min(s.freemap)
         IN [s EXCEPT !.freemap = @ \ {b}, !.ino = b,
                      !.entry[b] = NoEntries, !.data[b] = NoBytes]

\* sfs_block_free
BlockFree(s, b) == [s EXCEPT !.freemap = @ \cup {b}]

\* sfs_bmap_get_sub_nolock with create, for an entry that is 0: the indirect block
\* ent is allocated first if it is 0, and freed again if there is none for the entry.
BmapGetSub(s, f, i) ==
    LET ent == s.din[f].indirect
        Entry(b, t) ==
            IF t.ret # Ok THEN IF ent = 0 THEN BlockFree(t, b) ELSE t
            ELSE [t EXCEPT !.entry[b][i] = t.ino, !.din[f].indirect = b,
                           !.dirty[f] = @ \/ ent = 0]
        Indirect(t) == IF t.ret # Ok THEN t ELSE Entry(t.ino, BlockAlloc(t))
    IN Indirect(IF ent = 0 THEN BlockAlloc(s) ELSE [s EXCEPT !.ino = ent])

\* The block i of a file with the inode I, 0 if there is none.
BlockOf(I, ents, i) ==
    IF i < NDIRECT THEN I.direct[i]
    ELSE IF I.indirect = 0 THEN 0 ELSE ents[I.indirect][i - NDIRECT]

\* sfs_bmap_get_nolock
BmapGet(s, f, i, create) ==
    LET b == BlockOf(s.din[f], s.entry, i)
        Direct(t) == IF t.ret # Ok THEN t
                     ELSE [t EXCEPT !.din[f].direct[i] = t.ino, !.dirty[f] = TRUE]
    IN IF b # 0 \/ ~create THEN [s EXCEPT !.ino = b]
       ELSE IF i >= NDIRECT THEN BmapGetSub(s, f, i - NDIRECT)
       ELSE Direct(BlockAlloc(s))

\* sfs_bmap_load_nolock, and its assertions.
BmapLoad(s, f, i) ==
    LET blocks == s.din[f].blocks
        Got(t) == IF t.ret # Ok THEN t
                  ELSE IF t.ino \notin Blocks \ t.freemap THEN Returns(t, "PANIC")
                  ELSE [t EXCEPT !.din[f].blocks = IF i = blocks THEN @ + 1 ELSE @]
    IN IF s.ret # Ok THEN s
       ELSE IF i > blocks THEN Returns(s, "PANIC")
       ELSE Got(BmapGet(s, f, i, i = blocks))

\* sfs_bmap_free_nolock of the block i.  Mutant: the entry is left in its block.
BmapFree_Entry(s, f, i) ==
    LET b == BlockOf(s.din[f], s.entry, i)
    IN IF b = 0 THEN s
       ELSE IF i < NDIRECT THEN [BlockFree(s, b) EXCEPT !.din[f].direct[i] = 0, !.dirty[f] = TRUE]
       ELSE BlockFree(s, b)
BmapFree(s, f, i) ==
    LET b == BlockOf(s.din[f], s.entry, i)
    IN IF b = 0 THEN s
       ELSE IF i < NDIRECT THEN [BlockFree(s, b) EXCEPT !.din[f].direct[i] = 0, !.dirty[f] = TRUE]
       ELSE [BlockFree(s, b) EXCEPT !.entry[s.din[f].indirect][i - NDIRECT] = 0]

\* sfs_bmap_truncate_nolock.  Mutant: the block is freed but still counted.
BmapTruncate_Counted(s, f) == BmapFree(s, f, s.din[f].blocks - 1)
BmapTruncate(s, f) ==
    [BmapFree(s, f, s.din[f].blocks - 1) EXCEPT !.din[f].blocks = @ - 1, !.dirty[f] = TRUE]

BlocksFor(len) == (len + BLKSIZE - 1) \div BLKSIZE

\* sfs_truncfile
Truncfile(s, f, len) ==
    LET nblks == s.din[f].blocks
        tblks == BlocksFor(len)
        Load(t, i) == BmapLoad(t, f, i)
        Cut(t, i)  == BmapTruncate(t, f)
        Ends(t) == IF t.ret # Ok THEN t ELSE [t EXCEPT !.din[f].size = len, !.dirty[f] = TRUE]
    IN IF s.din[f].size = len THEN IF tblks = nblks THEN s ELSE Returns(s, "PANIC")
       ELSE Ends(IF nblks < tblks
                   THEN FoldLeft(Load, s, [i \in 1 .. tblks - nblks |-> nblks + i - 1])
                   ELSE FoldLeft(Cut, s, [i \in 1 .. nblks - tblks |-> i]))

\* A part of sfs_io_nolock: the bytes from .. to - 1, which lie in one block.
IoBlock(s, f, from, to, write) ==
    LET i == from \div BLKSIZE
        Bytes(old) == [x \in 0 .. BLKSIZE - 1 |->
                          IF i * BLKSIZE + x \in from .. to - 1
                            THEN Written(f, i * BLKSIZE + x) ELSE old[x]]
        Move(t) == IF t.ret # Ok THEN t
                   ELSE [t EXCEPT !.done = @ + (to - from),
                                  !.data[t.ino] = IF write THEN Bytes(@) ELSE @]
    IN IF s.ret # Ok \/ from >= to THEN s ELSE Move(BmapLoad(s, f, i))

\* sfs_io_nolock, for no more than IOBUF_SIZE bytes: they lie in two blocks at most.
Io(s, f, offset, len, write) ==
    LET bound  == IF write THEN MAX_FILE_SIZE ELSE s.din[f].size
        endpos == Min({offset + len, bound})
        middle == Min({endpos, (offset \div BLKSIZE + 1) * BLKSIZE})
        Ends(t) == IF offset + t.done <= t.din[f].size THEN t
                   ELSE [t EXCEPT !.din[f].size = offset + t.done, !.dirty[f] = TRUE]
    IN IF offset >= bound THEN s
       ELSE Ends(IoBlock(IoBlock(s, f, offset, middle, write), f, middle, endpos, write))

-----------------------------------------------------------------------------
(* System calls *)

\* Was a call cut short, did it leave the file longer than its blocks?
Harm(s, f, before) ==
    IF before = "holed" \/ s.din[f].size > s.din[f].blocks * BLKSIZE THEN "holed"
    ELSE IF s.ret = "E_NO_MEM" THEN "cut" ELSE before

\* A call on f ends with the file system in the state s, or the kernel stops.
SfsBecomes(f, s) ==
    IF s.ret = "PANIC" THEN panicked' = TRUE /\ UNCHANGED <<sfsVars, harm>>
    ELSE /\ din' = s.din /\ dirty' = s.dirty
         /\ freemap' = s.freemap /\ entry' = s.entry /\ data' = s.data
         /\ harm' = [harm EXCEPT ![f] = Harm(s, f, @)]
         /\ UNCHANGED <<dinode, panicked>>

\* file_open.  The flags: O_TRUNC or O_CREAT, O_APPEND.
Open(d, f, truncate, append) ==
    /\ ~panicked
    /\ fd[d] = Closed
    /\ LET Opens(s) == /\ SfsBecomes(f, s)
                       /\ fd' = [fd EXCEPT ![d] =
                              [file |-> f, pos |-> IF append THEN s.din[f].size ELSE 0]]
       IN Opens(IF truncate THEN Truncfile(sfs, f, 0) ELSE sfs)

\* file_close.  The last one of the file makes sfs_close write the inode to the
\* disk if it is dirty, and sfs_reclaim drop it.
Close(d) ==
    /\ ~panicked
    /\ fd[d] # Closed
    /\ fd' = [fd EXCEPT ![d] = Closed]
    /\ LET f == fd[d].file
       IN IF \E e \in Descs \ {d} : fd[e] # Closed /\ fd[e].file = f
            THEN UNCHANGED sfsVars
            ELSE /\ dinode' = IF dirty[f] THEN [dinode EXCEPT ![f] = din[f]] ELSE dinode
                 /\ din' = [din EXCEPT ![f] = dinode'[f]]
                 /\ dirty' = [dirty EXCEPT ![f] = FALSE]
                 /\ UNCHANGED <<freemap, entry, data>>
    /\ UNCHANGED <<panicked, harm>>

\* A round of sysfile_read or sysfile_write: file_read, file_write.
Transfer(d, len, write) ==
    /\ ~panicked
    /\ fd[d] # Closed
    /\ LET Moves(s) ==
               /\ SfsBecomes(fd[d].file, s)
               /\ fd' = IF s.ret = "PANIC" THEN fd ELSE [fd EXCEPT ![d].pos = @ + s.done]
       IN Moves(Io(sfs, fd[d].file, fd[d].pos, len, write))

\* file_seek to the offset pos (LSEEK_CUR and LSEEK_END only compute it): a seek
\* beyond the end makes the file longer.
Seek(d, pos) ==
    /\ ~panicked
    /\ fd[d] # Closed
    /\ LET f == fd[d].file
           Seeks(s) == /\ SfsBecomes(f, s)
                       /\ fd' = IF s.ret = Ok THEN [fd EXCEPT ![d].pos = pos] ELSE fd
       IN Seeks(IF pos > din[f].size THEN Truncfile(sfs, f, pos) ELSE sfs)

Next ==
    \E d \in Descs :
       \/ \E f \in FileNames, truncate, append \in BOOLEAN : Open(d, f, truncate, append)
       \/ Close(d)
       \/ \E len \in 1 .. BLKSIZE, write \in BOOLEAN : Transfer(d, len, write)
       \/ \E pos \in 0 .. MAX_FILE_SIZE - 1 : Seek(d, pos)

Spec == Init /\ [][Next]_vars
-----------------------------------------------------------------------------
(* Properties *)

\* The places where the inode I has a block.
Places(I) ==
    {<<"direct", i>> : i \in {j \in 0 .. NDIRECT - 1 : I.direct[j] # 0}}
    \cup (IF I.indirect = 0 THEN {}
          ELSE {<<"indirect", 0>>} \cup
               {<<"entry", i>> : i \in {j \in 0 .. BLK_NENTRY - 1 : entry[I.indirect][j] # 0}})

BlockAt(I, p) ==
    CASE p[1] = "direct" -> I.direct[p[2]]
      [] p[1] = "indirect" -> I.indirect
      [] p[1] = "entry" -> entry[I.indirect][p[2]]

AllPlaces == UNION {{<<f, p>> : p \in Places(din[f])} : f \in FileNames}

\* No block belongs to two files, or twice to one, and no block is lost: the ones
\* that are not free are those some inode names, however often a full disk has
\* cut a call short; and a file that it has not has the blocks its size needs.
\* (And every variable has its type.)
BlocksExact ==
    /\ TypeOK
    /\ Blocks \ freemap = {BlockAt(din[q[1]], q[2]) : q \in AllPlaces}
    /\ \A q, r \in AllPlaces :
           BlockAt(din[q[1]], q[2]) = BlockAt(din[r[1]], r[2]) => q = r
    /\ \A f \in FileNames : harm[f] = "none" => din[f].blocks = BlocksFor(din[f].size)

\* What reading a file from its beginning to its end finds.
Contents(f) ==
    [x \in 1 .. din[f].size |->
        data[BlockOf(din[f], entry, (x - 1) \div BLKSIZE)][(x - 1) % BLKSIZE]]

B == INSTANCE ByteFiles WITH
        contents <- [f \in FileNames |-> IF harm[f] = "holed" THEN Lost ELSE Contents(f)],
        Sizes <- 0 .. MAX_FILE_SIZE,
        Chunks <- 1 .. BLKSIZE

\* Reading a file finds what was last written to each place of it since it was
\* last truncated, and zeros where nothing was, however often a full disk has cut
\* a call short; a call changes no other file.  Not so for a file that a write at a
\* position beyond its last block has made longer without getting a block
\* (sfs_io_nolock sets the size whatever it has written): the block such a file
\* gets later may be forgotten when it is closed, and come back uncleared.
FilesAreBytes == B!Spec

\* The assertions hold but in two cases: a descriptor's position lies beyond the
\* end of its file, which was truncated through another one, or a call on the file
\* was cut short, when the disk was full, and has left it more blocks than its size
\* needs, or fewer.
StopsOnlyIf ==
    [][panicked' =>
          \E f \in FileNames :
             \/ harm[f] # "none" /\ din[f].blocks # BlocksFor(din[f].size)
             \/ \E d \in Descs : fd[d] # Closed /\ fd[d].file = f /\ fd[d].pos > din[f].size
      ]_vars
=============================================================================
