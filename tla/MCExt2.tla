------------------------------- MODULE MCExt2 -------------------------------
(* Two volumes.  On the first a block is as large as the superblock and   *)
(* holds two pointers or inodes: a file of sixteen blocks uses all three   *)
(* levels.  On the second it is twice as large, and the file ends in the   *)
(* second level, and its directories have type flags.  Both have two       *)
(* groups of three inodes, a deleted entry, special ones, and a directory  *)
(* that has only these.                                                    *)
EXTENDS Ext2

Block == 0 .. 40
NoEntry == [inum |-> 0, size |-> 0, name |-> ".", type_flags |-> 0]

Device == 8192 \* 0x2000
Directory == 16384 \* 0x4000
RegularFile == 32768 \* 0x8000

\* a file from block 10 on, and a directory in blocks 8, 9 and 38
TheFile(n) == [number |-> n, type_permissions |-> RegularFile, size |-> 64, db |-> <<10, 11>>, ibp |-> <<12, 15, 22>>]
Root(n, size) == [number |-> n, type_permissions |-> Directory, size |-> size, db |-> <<8, 9>>, ibp |-> <<37, 0, 0>>]
Bare(n) == [number |-> n, type_permissions |-> Directory, size |-> 4, db |-> <<39, 0>>, ibp |-> <<0, 0, 0>>]
Empty(n, type) == [number |-> n, type_permissions |-> type, size |-> 0, db |-> <<0, 0>>, ibp |-> <<0, 0, 0>>]
\* inode 4 is of a device, inode 5 of another directory
Inode(n, size) ==
    CASE n = 2 -> Root(n, size)
      [] n = 3 -> Bare(n)
      [] n = 4 -> Empty(n, Device)
      [] n = 5 -> Empty(n, Directory)
      [] n = 6 -> TheFile(n)
      [] OTHER -> Empty(n, 0)

Deep ==
    (12 :> <<13, 14>>) @@
    (15 :> <<16, 17>>) @@ (16 :> <<18, 19>>) @@ (17 :> <<20, 21>>) @@
    (22 :> <<23, 30>>) @@ (23 :> <<24, 27>>) @@ (24 :> <<25, 26>>) @@ (27 :> <<28, 29>>) @@
    (30 :> <<31, 34>>) @@ (31 :> <<32, 33>>) @@ (34 :> <<35, 36>>) @@
    (37 :> <<38>>)

Wide ==
    (12 :> <<13, 14, 16, 17>>) @@ (15 :> <<18, 19>>) @@ (18 :> <<20, 21, 23, 24>>) @@
    (19 :> <<25>>) @@ (37 :> <<38>>)

\* a volume that does not use the flags has what it likes there
At(p, name, inum, size) ==
    p :> [inum |-> inum, size |-> size, name |-> name,
          type_flags |-> IF inum \in {2, 3, 5} THEN 2 ELSE 1]
DirOf(b, size) ==
    LET half == size \div 2
    IN  CASE b = 8  -> At(0, ".", 2, 1) @@ At(1, "..", 2, half - 1) @@ At(half, "a", 6, half)
          [] b = 9  -> At(0, "b", 0, half) @@ At(half, "lost+found", 3, half)
          [] b = 38 -> At(0, "c", 4, half) @@ At(half, "d", 5, half)
          [] b = 39 -> At(0, ".", 3, 1) @@ At(1, "..", 2, size - 1)
          [] OTHER  -> <<>>

\* tables of inodes from blocks 3 and 6, in the manner of the geometry
InodeTable(b, perBlock, size) ==
    LET first == IF b >= 6 THEN 4 + (b - 6) * perBlock ELSE 1 + (b - 3) * perBlock
    IN  [k \in 0 .. perBlock - 1 |-> Inode(first + k, size)]

Disk(size, bgdtBlock, perBlock, dirSize, children) ==
    [b \in Block |->
        [ptrs |-> IF b \in DOMAIN children THEN children[b] ELSE <<>>,
         bgd |-> IF b = bgdtBlock THEN 0 :> 3 @@ 1 :> 6 ELSE <<>>,
         inodes |-> IF b \in 3 .. 7 THEN InodeTable(b, perBlock, dirSize) ELSE <<>>,
         dir |-> DirOf(b, size) @@ [p \in 0 .. size - 1 |-> NoEntry]]]

Volume(size, bgdtBlock, dirSize, children, maxIndex, typeFlags) ==
    [block_size |-> size, inode_size |-> 2, type_flags_used |-> typeFlags,
     total_inodes |-> 6, inodes_per_group |-> 3,
     total_blocks |-> 41, blocks_per_group |-> 32,
     files |-> {6}, dirs |-> {2, 3}, max_index |-> maxIndex,
     disk |-> Disk(size, bgdtBlock, size \div 2, dirSize, children)]

\* the directory ends in the middle of its third block
TwoVolumes == <<Volume(4, 2, 10, Deep, 16, FALSE), Volume(8, 1, 20, Wide, 10, TRUE)>>
=============================================================================
