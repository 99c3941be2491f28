------------------------------ MODULE FatChain ------------------------------
(***************************************************************************)
(* rboot/fat.c: how a file or a directory is followed through the file     *)
(* allocation table.  fat_get_next_bdev_block_num finds the blocks that    *)
(* fs_fread asks for, one after the other, from the first cluster of the   *)
(* file on; fat_read_dir reads the blocks of a directory.  A step is one   *)
(* read of the table (get_next_fat_entry) or of one cluster.               *)
(*                                                                         *)
(* Sectors are counted from the first data sector: the root directory of a *)
(* FAT12 or FAT16 file system comes first, then cluster 2.                 *)
(***************************************************************************)
EXTENDS Integers, Sequences

CONSTANTS
    MaxCluster,          \* the last cluster the table has an entry for
    Bad,                 \* 0x0ffffff7, the mark after it ends a chain
    SectorsPerCluster,
    RootDirSectors,      \* sectors of the root directory of a FAT12 or FAT16: from a
                         \* count of entries of 16 bits, so that it is below Bad
    Word,                \* 2^32
    FatTypes,            \* the types a file system may have
    Tables,              \* the tables it may have: [0 .. MaxCluster -> 0 .. End]
    MaxBlock,            \* bound: the last block of a file that is asked for
    Faults               \* {"table", "cluster"}: reads that may fail

End == Bad + 1
Entry == 0 .. End
Clusters == 2 .. MaxCluster

ASSUME FatAssumption ==
    /\ MaxCluster \in Nat /\ MaxCluster >= 2
    /\ Bad \in Nat /\ Bad > MaxCluster
    /\ SectorsPerCluster \in Nat \ {0}
    /\ RootDirSectors \in Nat /\ RootDirSectors < Bad - 1
    /\ Word \in Nat /\ Word > RootDirSectors
    /\ FatTypes \subseteq {"FAT12", "FAT16", "FAT32"}
    /\ Tables \subseteq [0 .. MaxCluster -> Entry]
    /\ MaxBlock \in Nat
    /\ Faults \subseteq {"table", "cluster"}

VARIABLES
    type, fat,       \* the mounted file system
    op,              \* the function at work: "none", "read", "dir"
    first,           \* first cluster of the file or directory, 0 for the root
    cluster, f_block,   \* struct fat_file_block_offset, or cur_cluster
    want, last,      \* block of the file asked for now, and last in this read
    offset,          \* cur_root_cluster_offset
    answers,         \* history: the sectors found for a file, in order
    listed,          \* history: the sectors read as those of a directory
    eof,             \* the end of file flag of the stream
    faulty           \* history: a read has failed in this operation

vars == <<type, fat, op, first, cluster, f_block, want, last, offset, answers,
          listed, eof, faulty>>

Init ==
    /\ type \in FatTypes /\ fat \in Tables
    /\ op = "none" /\ first = 0
    /\ cluster = 0 /\ f_block = 0 /\ want = 0 /\ last = 0 /\ offset = 0
    /\ answers = <<>> /\ listed = {} /\ eof = FALSE /\ faulty = FALSE

U(n) == n % Word

\* root_dir_sectors: the root of a FAT32 is a chain as any other
RootSectors == IF type = "FAT32" THEN 0 ELSE RootDirSectors

\* first_non_root_sector + (c - 2) * sectors_per_cluster
get_sector(c) == U(RootSectors + (c - 2) * SectorsPerCluster)

\* what get_next_fat_entry may return, and whether a read failed: behind the
\* table lies anything; the entries of a FAT12 are not decoded
Lookups(c) ==
    IF type = "FAT12" THEN {<<0, FALSE>>}
    ELSE {<<v, FALSE>> : v \in IF c <= MaxCluster THEN {fat[c]} ELSE Entry}
         \cup (IF "table" \in Faults THEN {<<Bad, TRUE>>} ELSE {})

-----------------------------------------------------------------------------
(* Reading a file: fs_fread asks for block after block *)

\* a deviation: the walk of the last read goes on
BlockOfLastRead == f_block

StartBlock == 0

fat_fread(c, from, to) ==
    /\ op = "none"
    /\ op' = "read" /\ first' = c
    /\ cluster' = c /\ f_block' = StartBlock
    /\ want' = from /\ last' = to
    /\ offset' = 0
    /\ answers' = <<>> /\ listed' = {} /\ eof' = FALSE /\ faulty' = FALSE
    /\ UNCHANGED <<type, fat>>

\* a deviation: the mark at the end is taken for a cluster
EndIsCluster(c) == c <= End

\* the file goes on at cluster c
InChain(c) == c < End

\* deviations: the block count stays; it counts two
CountStays(n) == n
CountsTwo(n) == n + 2

NextBlock(n) == n + 1

\* one turn of the while loop
Follow ==
    /\ op = "read"
    /\ f_block # want /\ InChain(cluster)
    /\ \E l \in Lookups(cluster) : cluster' = l[1] /\ faulty' = (faulty \/ l[2])
    /\ f_block' = NextBlock(f_block)
    /\ UNCHANGED <<type, fat, op, first, want, last, offset, answers, listed, eof>>

\* fs_fread goes on with the next block, or is done
Found ==
    /\ op = "read"
    /\ f_block = want /\ InChain(cluster)
    /\ answers' = Append(answers, <<want, get_sector(cluster)>>)
    /\ IF want = last THEN op' = "none" /\ UNCHANGED want
                      ELSE want' = want + 1 /\ UNCHANGED op
    /\ UNCHANGED <<type, fat, first, cluster, f_block, last, offset, listed, eof, faulty>>

NotFound ==
    /\ op = "read"
    /\ ~InChain(cluster)
    /\ eof' = TRUE
    /\ op' = "none"
    /\ UNCHANGED <<type, fat, first, cluster, f_block, want, last, offset,
                   answers, listed, faulty>>

-----------------------------------------------------------------------------
(* Reading a directory *)

IsFixedRoot == first = 0 /\ type # "FAT32"

\* root_dir_cluster is 2 on FAT12 and FAT16, and here on FAT32 too
fat_read_dir(c) ==
    /\ op = "none"
    /\ op' = "dir" /\ first' = c
    /\ cluster' = IF c = 0 THEN 2 ELSE c
    /\ f_block' = 0 /\ want' = 0 /\ last' = 0 /\ offset' = 0
    /\ answers' = <<>> /\ listed' = {} /\ eof' = FALSE /\ faulty' = FALSE
    /\ UNCHANGED <<type, fat>>

\* first_data_sector for the root, first_non_root_sector for the others
DirSector == IF first = 0 THEN U((cluster - 2) * SectorsPerCluster)
                          ELSE get_sector(cluster)

ClusterAt(s) == {s + k : k \in 0 .. SectorsPerCluster - 1}

\* a deviation: one cluster too many
MoreRootInclusive(n) == n <= RootDirSectors \div SectorsPerCluster

MoreRoot(n) == n < RootDirSectors \div SectorsPerCluster

\* a deviation: the mark at the end is passed over
DirDonePastMark(c) == c > End

DirDone(c) == c >= Bad

\* the clusters that may come next
DirNext ==
    IF IsFixedRoot
    THEN {<<IF MoreRoot(offset + 1) THEN cluster + 1 ELSE End, FALSE>>}
    ELSE Lookups(cluster)

ReadDirCluster ==
    /\ op = "dir"
    /\ listed' = listed \cup ClusterAt(DirSector)
    /\ offset' = IF IsFixedRoot THEN offset + 1 ELSE offset
    /\ \E l \in DirNext :
         /\ cluster' = l[1]
         /\ faulty' = l[2]
         /\ op' = IF DirDone(l[1]) THEN "none" ELSE "dir"
    /\ UNCHANGED <<type, fat, first, f_block, want, last, answers, eof>>

\* the whole directory is given up
DirClusterFails ==
    /\ op = "dir" /\ "cluster" \in Faults
    /\ op' = "none" /\ listed' = {} /\ faulty' = TRUE
    /\ UNCHANGED <<type, fat, first, cluster, f_block, want, last, offset, answers, eof>>

Work == Follow \/ Found \/ NotFound \/ ReadDirCluster

Next ==
    \/ Work
    \/ DirClusterFails
    \/ \E c \in Clusters, i, j \in 0 .. MaxBlock : i <= j /\ fat_fread(c, i, j)
    \/ \E c \in Clusters \cup {0} : fat_read_dir(c)

Spec == Init /\ [][Next]_vars

FairSpec == Spec /\ WF_vars(Work)

-----------------------------------------------------------------------------
(* Reference: the chain that starts at a cluster *)

Chain(c) ==
    LET nth[i \in 0 .. MaxCluster + MaxBlock] ==
          IF i = 0 THEN c
          ELSE IF nth[i - 1] > MaxCluster THEN nth[i - 1] ELSE fat[nth[i - 1]]
    IN  nth

\* the sectors of the directory first
DirSectors ==
    IF IsFixedRoot THEN 0 .. RootDirSectors - 1
    ELSE LET c == Chain(IF first = 0 THEN 2 ELSE first)
         IN  UNION {ClusterAt(get_sector(c[i])) : i \in {j \in 0 .. MaxCluster : c[j] < Bad}}

-----------------------------------------------------------------------------
(* Properties *)

TypeOK ==
    /\ type \in FatTypes /\ fat \in Tables
    /\ op \in {"none", "read", "dir"}
    /\ first \in Clusters \cup {0}
    /\ cluster \in Entry
    /\ f_block \in 0 .. want /\ want \in 0 .. last /\ last \in 0 .. MaxBlock
    /\ offset \in 0 .. RootDirSectors + 1
    /\ eof \in BOOLEAN /\ faulty \in BOOLEAN

\* Following one block after the other from where the last one was found gives
\* what following the chain from its start gives, for every table and every
\* range of blocks.  Code behaviour: fat_get_next_bdev_block_num, "Iterate
\* through the cluster chain until we reach the appropriate one".
AnswersFollowChain ==
    ~faulty /\ type # "FAT12" =>
        \A i \in 1 .. Len(answers) :
            answers[i][2] = get_sector(Chain(first)[answers[i][1]])

\* The end of file flag is set when the chain ends before the last block asked
\* for, and only then.  Code behaviour: VFS_FLAGS_EOF.
EofIsEndOfChain ==
    op = "none" /\ listed = {} /\ first # 0 /\ ~faulty /\ type # "FAT12" =>
        (eof <=> Chain(first)[last] = End)

\* Whatever fails, a block that is handed out is one of the file.  Code
\* behaviour: "Iterate through the cluster chain until we reach the appropriate
\* one" (fat.c).  It does not hold: the mark of a failed read of the table is
\* taken for a cluster.
OnlyBlocksOfFile ==
    type # "FAT12" =>
        \A i \in 1 .. Len(answers) :
            \E j \in 0 .. MaxBlock : answers[i][2] = get_sector(Chain(first)[j])

\* the root of a FAT12 is read without its table; any other chain of it has
\* cluster 0 next and no end
Decoded == type = "FAT12" => first = 0

\* A directory is read from its own sectors, all of them and no others.  Code
\* behaviour: fat_read_dir; the sectors of the root are "round[ed] up" in
\* fat_init.
DirReadsItsSectors ==
    op = "none" /\ listed # {} /\ ~faulty /\ Decoded => listed = DirSectors

\* Reading a file ends, on a table with cycles too.  Code behaviour: the block
\* count in the while loop of fat_get_next_bdev_block_num.
ReadEnds == op = "read" ~> op = "none"

\* no chain comes back to one of its clusters
Acyclic == \A S \in SUBSET Clusters : S # {} => \E c \in S : fat[c] \notin S

\* Reading a directory ends if every chain does, whatever fails.  Code
\* behaviour: the do loop of fat_read_dir.
DirEnds == (op = "dir" /\ Acyclic /\ Decoded) ~> op = "none"

\* Whatever is read comes to an end, if its chain does or the file is read.
WalksEnd == ReadEnds /\ DirEnds
=============================================================================
