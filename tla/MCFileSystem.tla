---------------------------- MODULE MCFileSystem ----------------------------
(***************************************************************************)
(* The data on the disk (SfsFile) on a small instance: two files on a disk *)
(* of three blocks, and two descriptors, each of which may be of either.   *)
(***************************************************************************)
EXTENDS SfsFile, TLC

CONSTANTS f1, f2, d1, d2

MCFileNames == {f1, f2}
MCDescs == {d1, d2}

Sym == Permutations(MCFileNames) \cup Permutations(MCDescs)

\* What a later step or a property depends on: not the content of a free block, nor
\* of one of a file of which nothing is promised any more, nor the inode on the disk
\* when the one in memory will overwrite it.
OnDisk == [n \in FileNames |-> IF dirty[n] THEN din[n] ELSE dinode[n]]
OfHoled == {BlockAt(din[q[1]], q[2]) : q \in {r \in AllPlaces : harm[r[1]] = "holed"}}
InUse == [b \in Blocks \ freemap |-> <<entry[b], IF b \in OfHoled THEN NoBytes ELSE data[b]>>]
Live ==
    IF panicked THEN <<"panicked">> ELSE <<din, dirty, OnDisk, InUse, fd, harm>>
=============================================================================
