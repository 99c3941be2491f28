-------------------------------- MODULE Ext2 --------------------------------
(***************************************************************************)
(* rboot/ext2.c: ext2_init, ext2_fread with the way from an index in a     *)
(* file through up to three levels of pointers to a block, and             *)
(* ext2_read_dir.                                                          *)
(*                                                                         *)
(* A step is one block_read or one turn of a loop.  A read that fails is   *)
(* answered with a null pointer, which most callers then use.  Nothing     *)
(* traps that on this machine; what is done with the memory found there is *)
(* not modelled: stage is "wild" until the machine is restarted.           *)
(***************************************************************************)
EXTENDS Integers, Sequences, SequencesExt

CONSTANTS
    Volumes,   \* a sequence of file systems
    Sector,    \* size of a block of the device: 512
    Super,     \* size of the superblock: 1024
    PtrSize,   \* 4
    Direct,    \* direct pointers of an inode: 12
    Word       \* 2^32

-----------------------------------------------------------------------------
(* Reference: what is on a volume.  A block has the pointers, the group    *)
(* descriptors, the inodes and the directory entries that are in its bytes,*)
(* an inode its direct pointers db and three indirect ones, ibp.           *)

\* pointers_per_indirect_block and its powers
PointersOn(vol, n) ==
    LET p == vol.block_size \div PtrSize
    IN  CASE n = 0 -> 1 [] n = 1 -> p [] n = 2 -> p * p [] n = 3 -> p * p * p

\* the first index of each level
FirstOn(vol, level) ==
    CASE level = 0 -> 0
      [] level = 1 -> Direct
      [] level = 2 -> Direct + PointersOn(vol, 1)
      [] level = 3 -> Direct + PointersOn(vol, 1) + PointersOn(vol, 2)
      [] level = 4 -> Direct + PointersOn(vol, 1) + PointersOn(vol, 2) + PointersOn(vol, 3)

\* the blocks that those of a sequence point to, from left to right
Children(vol, blocks) == FlattenSeq([k \in 1 .. Len(blocks) |-> vol.disk[blocks[k]].ptrs])

\* the blocks that are so many pointers below b
LevelBelow(vol, b, depth) ==
    CASE depth = 0 -> <<b>>
      [] depth = 1 -> Children(vol, <<b>>)
      [] depth = 2 -> Children(vol, Children(vol, <<b>>))
      [] depth = 3 -> Children(vol, Children(vol, Children(vol, <<b>>)))

Leaves(vol, i, level) == LevelBelow(vol, i.ibp[level], level)

FileBlocks(vol, i) == i.db \o Leaves(vol, i, 1) \o Leaves(vol, i, 2) \o Leaves(vol, i, 3)

\* what begins at a byte of a directory
EntryAt(vol, i, p) ==
    vol.disk[FileBlocks(vol, i)[p \div vol.block_size + 1]].dir[p % vol.block_size]

Special == {".", "..", "lost+found"}

InUse(e) == e.inum # 0 /\ e.name \notin Special

\* where an inode is: its group, the block of the table of that group, the place there
InodePlace(vol, n) ==
    LET offset == (n - 1) % vol.inodes_per_group
        perBlock == vol.block_size \div vol.inode_size
    IN  [group |-> (n - 1) \div vol.inodes_per_group,
         block |-> offset \div perBlock, slot |-> offset % perBlock]

\* the table of the descriptors follows the superblock, the first 1024 bytes
\* after the first 1024
BgdtOn(vol) == IF vol.block_size = Super THEN 2 ELSE 1

InodeOn(vol, n) ==
    LET at == InodePlace(vol, n)
    IN  vol.disk[vol.disk[BgdtOn(vol)].bgd[at.group] + at.block].inodes[at.slot]

-----------------------------------------------------------------------------
(* Consistent volumes.  A volume that is not leads the code to wherever    *)
(* its pointers say.                                                       *)

GeometryOK(vol) ==
    /\ {vol.block_size, vol.inodes_per_group, vol.blocks_per_group} \subseteq Nat \ {0}
    /\ vol.block_size % Sector = 0 /\ PtrSize <= vol.block_size
    /\ vol.inode_size \in 1 .. vol.block_size
    /\ {vol.total_inodes, vol.total_blocks, vol.max_index} \subseteq Nat
    /\ vol.type_flags_used \in BOOLEAN
    /\ vol.files \cup vol.dirs \subseteq 1 .. vol.total_inodes
    /\ FirstOn(vol, 4) < Word
    /\ DOMAIN vol.disk = 0 .. vol.total_blocks - 1
    /\ vol.total_blocks > 0 /\ vol.total_blocks * vol.block_size <= Word

\* a block of pointers is filled from its beginning
PointersOK(vol, b) ==
    /\ vol.disk[b].ptrs \in Seq(DOMAIN vol.disk)
    /\ Len(vol.disk[b].ptrs) <= PointersOn(vol, 1)

\* entries follow one another, end in their block, and nothing begins in them
DirOK(vol, b) ==
    LET dir == vol.disk[b].dir
    IN  \A p \in 0 .. vol.block_size - 1 :
          /\ dir[p].size \in 0 .. vol.block_size - p
          /\ \A q \in p + 1 .. p + dir[p].size - 1 : dir[q].inum = 0

\* only the last block has pointers to spare
Packed(vol, blocks) ==
    \A k \in 1 .. Len(blocks) - 1 : Len(vol.disk[blocks[k]].ptrs) = PointersOn(vol, 1)

\* the blocks of a file are its first ones, without holes
InodeOK(vol, i) ==
    /\ i.size \in Nat
    /\ i.db \in [1 .. Direct -> DOMAIN vol.disk] /\ i.ibp \in [1 .. 3 -> DOMAIN vol.disk]
    /\ \A level \in 1 .. 3 : \A n \in 0 .. level - 1 : Packed(vol, LevelBelow(vol, i.ibp[level], n))
    /\ \A level \in 1 .. 2 :
         Leaves(vol, i, level + 1) # <<>> => Len(Leaves(vol, i, level)) = PointersOn(vol, level)

\* an inode is in its table
InTable(vol, n) ==
    LET at == InodePlace(vol, n)
    IN  /\ BgdtOn(vol) \in DOMAIN vol.disk
        /\ vol.disk[BgdtOn(vol)].bgd[at.group] + at.block \in DOMAIN vol.disk
        /\ InodeOn(vol, n).number = n

\* the task of a file stays in it, or asks for what no file has
FileOK(vol, i) ==
    \A index \in 0 .. vol.max_index :
        index < Len(FileBlocks(vol, i)) \/ index >= FirstOn(vol, 4)

LongEnough(vol, i) == i.size <= Len(FileBlocks(vol, i)) * vol.block_size

Consistent(vol) ==
    /\ GeometryOK(vol)
    /\ \A b \in DOMAIN vol.disk : PointersOK(vol, b) /\ DirOK(vol, b)
    /\ \A n \in vol.files \cup vol.dirs : InTable(vol, n) /\ InodeOK(vol, InodeOn(vol, n))
    /\ \A n \in vol.files : FileOK(vol, InodeOn(vol, n))
    /\ \A n \in vol.dirs : LongEnough(vol, InodeOn(vol, n))

ASSUME Ext2Assumption ==
    /\ {Sector, Super, PtrSize, Direct, Word} \subseteq Nat \ {0}
    /\ \A i \in 1 .. Len(Volumes) : Consistent(Volumes[i])

VARIABLES
    v, bgdt,      \* the volume; block group descriptors: "none", "read", "garbage"
    task,         \* reading of what, up to which index; the last one if stage = "idle"
    stage,
    inode,        \* the inode that was loaded
    cur,          \* index in the file
    at,           \* next block of pointers, its level, and the index below it
    found,        \* block_no
    ptr,          \* place in a directory block
    list,         \* the directory entries, linked in this order
    answer,       \* history: what fs_fread last had from ext2.c, for which index
    faulty        \* history: a read has failed in this task

ext2Vars == <<v, bgdt, task, stage, inode, cur, at, found, ptr, list, answer, faulty>>

V == Volumes[v]

NoTask == [kind |-> "none", inum |-> 0, last |-> 0]
NoInode == [number |-> 0, type_permissions |-> 0, size |-> 0, db |-> <<>>, ibp |-> <<>>]
NoAnswer == [index |-> -1, block |-> 0]
Nowhere == [block |-> 0, level |-> 0, index |-> 0]

Ext2Init ==
    /\ v \in 1 .. Len(Volumes) /\ bgdt = "none"
    /\ task = NoTask /\ stage = "idle" /\ inode = NoInode
    /\ cur = 0 /\ at = Nowhere /\ found = 0 /\ ptr = 0
    /\ list = <<>> /\ answer = NoAnswer /\ faulty = FALSE

-----------------------------------------------------------------------------
(* Geometry *)

Ceil(n, m) == n \div m + (IF n % m # 0 THEN 1 ELSE 0)

\* in 32 bits
get_sector_num(b) == ((b * V.block_size) % Word) \div Sector

\* what the device holds from that sector on
read_block(b) == V.disk[(get_sector_num(b) * Sector) \div V.block_size]

Pointers(n) == PointersOn(V, n)

\* the superblock is block 1 itself if blocks are that small
BgdtBlock == IF V.block_size = Super THEN 2 ELSE 1

Tally == Ceil(V.total_inodes, V.inodes_per_group) = Ceil(V.total_blocks, V.blocks_per_group)

\* whether the descriptors could be read is not looked at
ext2_init ==
    /\ bgdt = "none" /\ Tally
    /\ bgdt' \in {"read", "garbage"}
    /\ UNCHANGED <<v, task, stage, inode, cur, at, found, ptr, list, answer, faulty>>

-----------------------------------------------------------------------------
(* Inodes *)

Begin(kind, n, first, last) ==
    /\ stage = "idle" /\ bgdt # "none"
    /\ task' = [kind |-> kind, inum |-> n, last |-> last]
    /\ stage' = "inode" /\ cur' = first
    /\ inode' = NoInode /\ at' = Nowhere /\ found' = 0 /\ ptr' = 0
    /\ list' = <<>> /\ answer' = NoAnswer /\ faulty' = FALSE
    /\ UNCHANGED <<v, bgdt>>

ext2_fread(n, first, last) == Begin("file", n, first, last)

ext2_read_dir(n) == Begin("dir", n, 0, 0)

\* "Inode addresses start at 1"
InodeIndex(n) == n - 1

InodesPerBlock == V.block_size \div V.inode_size

\* the inode table of the group, the block in it, the inode in the block
InodeAt(n) ==
    LET group == InodeIndex(n) \div V.inodes_per_group
        offset == InodeIndex(n) % V.inodes_per_group
        start == read_block(BgdtBlock).bgd[group]
    IN  read_block(start + offset \div InodesPerBlock).inodes[offset % InodesPerBlock]

\* a deviation: the last block of a directory counts only if it is full
WholeBlocks(size) == size \div V.block_size

TotalBlocks(size) == Ceil(size, V.block_size)

ext2_read_inode ==
    /\ stage = "inode"
    /\ bgdt = "read"
    /\ inode' = InodeAt(task.inum)
    /\ IF task.kind = "dir"
       THEN /\ task' = [task EXCEPT !.last = TotalBlocks(inode'.size) - 1]
            /\ stage' = IF inode'.size = 0 THEN "idle" ELSE "index"
       ELSE task' = task /\ stage' = "index"
    /\ UNCHANGED <<v, bgdt, cur, at, found, ptr, list, answer, faulty>>

GoesWild ==
    /\ stage' = "wild" /\ faulty' = TRUE
    /\ UNCHANGED <<v, bgdt, task, inode, cur, at, found, ptr, list, answer>>

InodeFails == stage = "inode" /\ GoesWild

\* the table of inodes may be anywhere, and its block need not exist
InodeOfGarbage == stage = "inode" /\ bgdt = "garbage" /\ GoesWild

Restart ==
    /\ stage = "wild"
    /\ bgdt' = "none"
    /\ task' = NoTask /\ stage' = "idle" /\ inode' = NoInode
    /\ cur' = 0 /\ at' = Nowhere /\ found' = 0 /\ ptr' = 0
    /\ list' = <<>> /\ answer' = NoAnswer /\ faulty' = FALSE
    /\ UNCHANGED v

-----------------------------------------------------------------------------
(* get_block_no_from_inode *)

FirstOf(level) == FirstOn(V, level)

IsOf(i, level) == FirstOf(level) <= i /\ i < FirstOf(level + 1)

Index ==
    /\ stage = "index"
    /\ \/ /\ IsOf(cur, 0)
          /\ found' = inode.db[cur + 1] /\ stage' = "found" /\ at' = at
       \/ \E level \in 1 .. 3 :
            /\ IsOf(cur, level)
            /\ at' = [block |-> inode.ibp[level], level |-> level, index |-> cur - FirstOf(level)]
            /\ stage' = "walk" /\ found' = found
       \/ /\ cur >= FirstOf(4)
          /\ found' = 0 /\ stage' = "found" /\ at' = at
    /\ UNCHANGED <<v, bgdt, task, inode, cur, ptr, list, answer, faulty>>

\* a deviation: quotient and remainder by the size of the level itself
SpanOfLevel == Pointers(at.level)

\* how many blocks each pointer stands for
Span == Pointers(at.level - 1)

\* a deviation: a level is left out
OneLevelLess == at.level <= 2

LastLevel == at.level = 1

Walk ==
    /\ stage = "walk"
    /\ LET p == read_block(at.block).ptrs[at.index \div Span + 1]
       IN  IF LastLevel
           THEN found' = p /\ stage' = "found" /\ at' = Nowhere
           ELSE /\ at' = [block |-> p, level |-> at.level - 1, index |-> at.index % Span]
                /\ UNCHANGED <<found, stage>>
    /\ UNCHANGED <<v, bgdt, task, inode, cur, ptr, list, answer, faulty>>

\* the number of a block stands for the failure
WalkFails ==
    /\ stage = "walk"
    /\ found' = 0 /\ stage' = "found" /\ at' = Nowhere /\ faulty' = TRUE
    /\ UNCHANGED <<v, bgdt, task, inode, cur, ptr, list, answer>>

\* a deviation: the loop never gets to the next block
SameBlock == cur

NextBlock == cur + 1

EndTurn == cur' = NextBlock /\ stage' = IF NextBlock <= task.last THEN "index" ELSE "idle"

\* the turn of fs_fread: block_read of its own device, from this number on
FileBlock ==
    /\ stage = "found" /\ task.kind = "file"
    /\ answer' = [index |-> cur, block |-> found]
    /\ EndTurn
    /\ UNCHANGED <<v, bgdt, task, inode, at, found, ptr, list, faulty>>

-----------------------------------------------------------------------------
(* ext2_read_dir *)

DirBlock ==
    /\ stage = "found" /\ task.kind = "dir"
    /\ found # 0
    /\ ptr' = 0 /\ stage' = "entries"
    /\ UNCHANGED <<v, bgdt, task, inode, cur, at, found, list, answer, faulty>>

\* the boot block is taken for entries; one of size 0 ends the loop never
DirOfBootBlock == stage = "found" /\ task.kind = "dir" /\ found = 0 /\ GoesWild

DirBlockFails == stage = "found" /\ task.kind = "dir" /\ GoesWild

\* only part of the last block is in use
TotalBlockSize ==
    IF cur = task.last /\ inode.size % V.block_size # 0
    THEN inode.size % V.block_size ELSE V.block_size

\* a new entry may be given the memory of the one that was just freed, which is
\* still linked: it takes its place in the list
Linked(list0, e) ==
    LET n == Len(list0)
    IN  {Append(list0, e)} \cup
        (IF n > 0 /\ list0[n].freed THEN {[list0 EXCEPT ![n] = e]} ELSE {})

\* history: the byte of the directory that is being looked at
Place == cur * V.block_size + ptr

\* from the flags of the entry, or from its inode: 0x2000 is set for devices and
\* links, directories have 0x4000
IsDir(e) ==
    IF V.type_flags_used THEN e.type_flags = 2
    ELSE (InodeAt(e.inum).type_permissions \div 8192) % 2 = 1

\* a special entry is linked and then freed
DirEntry ==
    /\ stage = "entries" /\ ptr < TotalBlockSize
    /\ LET e == read_block(found).dir[ptr]
       IN  /\ e.size > 0
           /\ ptr' = ptr + e.size
           /\ IF e.inum = 0 THEN list' = list
              ELSE list' \in Linked(list, [name |-> e.name, inum |-> e.inum,
                                           freed |-> e.name \in Special,
                                           is_dir |-> e.name \notin Special /\ IsDir(e),
                                           place |-> Place])
    /\ UNCHANGED <<v, bgdt, task, stage, inode, cur, at, found, answer, faulty>>

\* without type flags the inode of an entry says whether it is a directory
EntryInodeFails ==
    /\ stage = "entries" /\ ptr < TotalBlockSize
    /\ InUse(read_block(found).dir[ptr])
    /\ ~V.type_flags_used
    /\ GoesWild

DirBlockDone ==
    /\ stage = "entries" /\ ptr >= TotalBlockSize
    /\ EndTurn
    /\ UNCHANGED <<v, bgdt, task, inode, at, found, ptr, list, answer, faulty>>

Work ==
    \/ ext2_read_inode \/ InodeOfGarbage \/ Index \/ Walk \/ FileBlock
    \/ DirBlock \/ DirOfBootBlock \/ DirEntry \/ DirBlockDone

Ext2Next ==
    \/ ext2_init
    \/ \E n \in V.files : \E first, last \in 0 .. V.max_index : first <= last /\ ext2_fread(n, first, last)
    \/ \E n \in V.dirs : ext2_read_dir(n)
    \/ Work
    \/ InodeFails \/ WalkFails \/ DirBlockFails \/ EntryInodeFails \/ Restart

Ext2Spec == Ext2Init /\ [][Ext2Next]_ext2Vars

\* the code runs on; that reads fail is never owed
Ext2FairSpec == Ext2Spec /\ WF_ext2Vars(Work)

-----------------------------------------------------------------------------
(* Properties *)

Ext2TypeOK ==
    /\ bgdt \in {"none", "read", "garbage"}
    /\ task.kind \in {"none", "file", "dir"}
    /\ stage \in {"idle", "inode", "index", "walk", "found", "entries", "wild"}
    /\ inode = NoInode \/ inode.number = task.inum
    /\ cur \in 0 .. task.last + 1
    /\ at.level \in 0 .. 3 /\ at.index \in 0 .. Pointers(at.level) - 1
    /\ {at.block, found} \subseteq DOMAIN V.disk
    /\ ptr \in 0 .. V.block_size
    /\ faulty \in BOOLEAN

\* Unless a read fails, each index in a file leads to the block that comes at
\* that place when the tree is read from left to right; behind the largest file
\* there is none.  Code behaviour: get_block_no_from_inode, its subtractions,
\* quotients and remainders.
IndexFollowsTree ==
    ~faulty /\ answer # NoAnswer =>
        LET blocks == FileBlocks(V, inode)
        IN  answer.block = IF answer.index < Len(blocks) THEN blocks[answer.index + 1] ELSE 0

\* A directory that was read without failures lists the entries that are in use
\* and are not special, in their order, whatever was deleted before and between
\* them.  Code behaviour: ext2_read_dir.
DirListsEntries ==
    stage = "idle" /\ task.kind = "dir" =>
        LET live == {k \in 1 .. Len(list) : ~list[k].freed}
            used == {p \in 0 .. inode.size - 1 : InUse(EntryAt(V, inode, p))}
        IN  /\ {list[k].place : k \in live} = used
            /\ \A k \in live :
                 LET e == EntryAt(V, inode, list[k].place)
                 IN  list[k].name = e.name /\ list[k].inum = e.inum
            /\ \A j, k \in live : j < k => list[j].place < list[k].place

\* Every task comes to an end, or to where nothing is known any more.
TaskEnds == stage = "inode" ~> stage \in {"idle", "wild"}

\* The data of a file are read from where its blocks are on the device.  Code
\* behaviour: the function that fs_fread is given is to return a "bdev block
\* num"; all other reads of ext2.c go through get_sector_num.
FileReadFromItsBlocks ==
    ~faulty /\ answer # NoAnswer /\ answer.index < Len(FileBlocks(V, inode)) =>
        answer.block * Sector = FileBlocks(V, inode)[answer.index + 1] * V.block_size

\* No entry that is returned has been freed.  Code behaviour: "Don't return
\* special files" (ext2.c).  It does not hold: the entry was linked before.
NoFreedEntry == stage = "idle" => \A k \in 1 .. Len(list) : ~list[k].freed

\* An entry is marked as a directory if and only if its inode is one, so that a
\* path can lead through it.  Code behaviour: "Determine if its a directory" in
\* ext2_read_dir.  It does not hold without type flags: the wrong bit is tested.
DirectoriesAreMarked ==
    stage = "idle" /\ ~faulty =>
        \A k \in 1 .. Len(list) : ~list[k].freed =>
            (list[k].is_dir <=> InodeOn(V, list[k].inum).type_permissions \div 4096 = 4)
=============================================================================
