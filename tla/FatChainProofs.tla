--------------------------- MODULE FatChainProofs ---------------------------
(***************************************************************************)
(* Proofs about FatChain.  The chain of a cluster is a recursive function: *)
(* what it gives is shown by induction over a set of numbers.              *)
(***************************************************************************)
EXTENDS FatChain, FiniteSetTheorems, Induction

-----------------------------------------------------------------------------
(* The chain of a cluster *)

Turn(t, x) == IF x > MaxCluster THEN x ELSE t[x]

IsWalk(t, c, n, f) == f = [i \in 0 .. n |-> IF i = 0 THEN c ELSE Turn(t, f[i - 1])]

LEMMA WalkExists ==
    ASSUME NEW t, NEW c, NEW N \in Nat
    PROVE  \E f : IsWalk(t, c, N, f)
  <1> DEFINE S == {n \in Nat : \E f : IsWalk(t, c, n, f)}
  <1>1. 0 \in S
    <2>1. IsWalk(t, c, 0, [i \in 0 .. 0 |-> c])
      BY DEF IsWalk
    <2> QED
      BY <2>1
  <1>2. ASSUME NEW n \in Nat, n \in S PROVE n + 1 \in S
    <2>1. PICK f : IsWalk(t, c, n, f)
      BY <1>2
    <2> DEFINE g == [i \in 0 .. n + 1 |-> IF i = n + 1 THEN Turn(t, f[n]) ELSE f[i]]
               h == [i \in 0 .. n + 1 |-> IF i = 0 THEN c ELSE Turn(t, g[i - 1])]
    <2>2. ASSUME NEW i \in 0 .. n + 1 PROVE g[i] = h[i]
      <3>1. CASE i = n + 1
        BY <3>1
      <3>2. CASE i = 0
        <4>1. f[0] = c
          BY <2>1 DEF IsWalk
        <4> QED
          BY <3>2, <4>1
      <3>3. CASE i \in 1 .. n
        <4>1. f[i] = Turn(t, f[i - 1])
          BY <2>1, <3>3 DEF IsWalk
        <4>2. g[i] = f[i] /\ g[i - 1] = f[i - 1]
          BY <3>3
        <4>3. h[i] = Turn(t, g[i - 1])
          BY <3>3
        <4> QED
          BY <4>1, <4>2, <4>3
      <3> QED
        BY <3>1, <3>2, <3>3
    <2>3. g = h
      BY <2>2
    <2>4. IsWalk(t, c, n + 1, g)
      BY <2>3 DEF IsWalk
    <2> QED
      BY <2>4
  <1>3. Nat \subseteq S
    <2> HIDE DEF S
    <2> QED
      BY <1>1, <1>2, NumbersFrom0
  <1> QED
    BY <1>3

ChainEnd == MaxCluster + MaxBlock

ChainOf(t, c) == CHOOSE f : IsWalk(t, c, ChainEnd, f)

LEMMA ChainIs ==
    ASSUME NEW c
    PROVE  Chain(c) = ChainOf(fat, c)
  BY DEF Chain, ChainOf, IsWalk, Turn, ChainEnd

LEMMA ChainTurns ==
    ASSUME NEW t, NEW c
    PROVE  /\ ChainOf(t, c)[0] = c
           /\ \A i \in 0 .. ChainEnd - 1 : ChainOf(t, c)[i + 1] = Turn(t, ChainOf(t, c)[i])
  <1>1. ChainEnd \in Nat
    BY FatAssumption DEF ChainEnd
  <1>2. IsWalk(t, c, ChainEnd, ChainOf(t, c))
    BY <1>1, WalkExists DEF ChainOf
  <1> HIDE DEF ChainOf
  <1> QED
    BY <1>1, <1>2 DEF IsWalk

\* a chain that has left the table stays where it is
LEMMA ChainStays ==
    ASSUME NEW t, NEW c, NEW i \in 0 .. ChainEnd, ChainOf(t, c)[i] > MaxCluster
    PROVE  \A j \in i .. ChainEnd : ChainOf(t, c)[j] = ChainOf(t, c)[i]
  <1> DEFINE f == ChainOf(t, c)
             S == {n \in Nat : i + n <= ChainEnd => f[i + n] = f[i]}
  <1>1. ChainEnd \in Nat
    BY FatAssumption DEF ChainEnd
  <1>2. \A k \in 0 .. ChainEnd - 1 : f[k + 1] = Turn(t, f[k])
    BY ChainTurns
  <1> HIDE DEF f
  <1>3. f[i] > MaxCluster
    BY DEF f
  <1>4. 0 \in S
    BY <1>1
  <1>5. ASSUME NEW n \in Nat, n \in S PROVE n + 1 \in S
    <2> SUFFICES ASSUME i + (n + 1) <= ChainEnd PROVE f[i + (n + 1)] = f[i]
      OBVIOUS
    <2>1. i + n \in 0 .. ChainEnd - 1 /\ i + (n + 1) = (i + n) + 1
      BY <1>1
    <2>2. f[i + n] = f[i]
      BY <1>1, <1>5, <2>1
    <2>3. f[(i + n) + 1] = Turn(t, f[i + n])
      BY <1>2, <2>1
    <2> QED
      BY <1>3, <2>1, <2>2, <2>3 DEF Turn
  <1>6. Nat \subseteq S
    <2> HIDE DEF S
    <2> QED
      BY <1>4, <1>5, NumbersFrom0
  <1>7. ASSUME NEW j \in i .. ChainEnd PROVE f[j] = f[i]
    <2>1. j - i \in Nat /\ i + (j - i) = j
      BY <1>1
    <2>2. j - i \in S
      BY <1>6, <2>1
    <2> QED
      BY <1>1, <2>1, <2>2
  <1> QED
    BY <1>7 DEF f

-----------------------------------------------------------------------------
(* The invariant *)

\* every entry of a table names a cluster of it or ends the chain
TablesLead == \A t \in Tables : \A c \in 0 .. MaxCluster : t[c] \in 0 .. MaxCluster \cup {End}

\* no read has failed, and there is a table to follow
Trusted == ~faulty /\ type # "FAT12"

\* where the walk of a file stands
OnChain ==
    op = "read" => /\ first \in Clusters /\ ~eof /\ listed = {}
                   /\ Trusted => cluster = ChainOf(fat, first)[f_block]

AnswersOK ==
    /\ answers \in Seq((0 .. MaxBlock) \X Nat)
    /\ Trusted =>
         \A i \in 1 .. Len(answers) :
             answers[i][2] = get_sector(ChainOf(fat, first)[answers[i][1]])

EofOK ==
    op = "none" /\ listed = {} /\ first # 0 /\ Trusted =>
        (eof <=> ChainOf(fat, first)[last] = End)


LEMMA Sizes ==
    /\ MaxCluster \in Nat /\ MaxCluster >= 2 /\ Bad \in Nat /\ Bad > MaxCluster
    /\ SectorsPerCluster \in Nat \ {0} /\ RootDirSectors \in Nat /\ Word \in Nat \ {0}
    /\ MaxBlock \in Nat /\ ChainEnd \in Nat /\ ChainEnd >= MaxBlock
    /\ End \in Nat /\ End = Bad + 1 /\ Clusters \subseteq 2 .. MaxCluster
    /\ Entry = 0 .. End
  <1>1. /\ MaxCluster \in Nat /\ MaxCluster >= 2 /\ Bad \in Nat /\ Bad > MaxCluster
        /\ SectorsPerCluster \in Nat \ {0} /\ RootDirSectors \in Nat
        /\ MaxBlock \in Nat
    BY FatAssumption
  <1>2. End \in Nat
    BY <1>1 DEF End
  <1>3. Word \in Nat /\ Word # 0
    BY <1>1, FatAssumption
  <1> QED
    BY <1>1, <1>2, <1>3 DEF ChainEnd, End, Clusters, Entry

LEMMA SectorType ==
    ASSUME NEW c \in Int
    PROVE  get_sector(c) \in Nat
  <1>1. RootSectors \in Nat
    BY Sizes DEF RootSectors
  <1>2. (c - 2) * SectorsPerCluster \in Int
    BY Sizes
  <1> DEFINE p == (c - 2) * SectorsPerCluster
  <1>3. RootSectors + p \in Int
    BY <1>1, <1>2
  <1> HIDE DEF p
  <1>4. (RootSectors + p) % Word \in Nat
    BY <1>3, Sizes
  <1> QED
    BY <1>4 DEF get_sector, U, p

LEMMA FailedLookup ==
    ASSUME NEW c, NEW l \in Lookups(c), l[2]
    PROVE  l[1] = Bad
  <1>1. \/ l = <<Bad, TRUE>>
        \/ \E v : l = <<v, FALSE>>
    BY DEF Lookups
  <1>2. \A v : l = <<v, FALSE>> => l[2] = FALSE
    OBVIOUS
  <1>3. l = <<Bad, TRUE>>
    BY <1>1, <1>2
  <1> QED
    BY <1>3

LEMMA LookupType ==
    ASSUME TypeOK, NEW c \in Entry, NEW l \in Lookups(c)
    PROVE  /\ l[1] \in Entry /\ l[2] \in BOOLEAN
           /\ c <= MaxCluster /\ type # "FAT12" /\ ~l[2] => l[1] = fat[c]
  <1>1. fat \in [0 .. MaxCluster -> Entry]
    BY FatAssumption DEF TypeOK
  <1>2. c \in Nat /\ 0 \in Entry /\ Bad \in Entry
    BY Sizes
  <1>3. CASE type = "FAT12"
    <2>1. l = <<0, FALSE>>
      BY <1>3 DEF Lookups
    <2>2. l[1] = 0 /\ l[2] = FALSE
      BY <2>1
    <2> QED
      BY <1>2, <1>3, <2>2
  <1>4. CASE type # "FAT12"
    <2>1. \/ l \in {<<v, FALSE>> : v \in IF c <= MaxCluster THEN {fat[c]} ELSE Entry}
          \/ l = <<Bad, TRUE>>
      BY <1>4 DEF Lookups
    <2>2. CASE l = <<Bad, TRUE>>
      BY <1>2, <2>2
    <2>3. CASE l \in {<<v, FALSE>> : v \in IF c <= MaxCluster THEN {fat[c]} ELSE Entry}
      <3>1. PICK v \in IF c <= MaxCluster THEN {fat[c]} ELSE Entry : l = <<v, FALSE>>
        BY <2>3
      <3>2. l[1] = v /\ l[2] = FALSE
        BY <3>1
      <3>3. v \in Entry
        BY <1>1, <1>2, <3>1, Sizes
      <3> QED
        BY <3>1, <3>2, <3>3
    <2> QED
      BY <2>1, <2>2, <2>3
  <1> QED
    BY <1>3, <1>4

\* on the fixed root, clusters are counted one after the other
RootClusters == RootDirSectors \div SectorsPerCluster

RootWalk ==
    op = "dir" =>
        /\ IF IsFixedRoot THEN cluster = 2 + offset /\ (offset = 0 \/ offset < RootClusters)
           ELSE offset = 0
        /\ ~faulty /\ ~eof

TypeInv == TypeOK /\ RootWalk

LEMMA RootClustersType ==
    /\ RootClusters \in Nat /\ RootClusters <= RootDirSectors
    /\ RootClusters * SectorsPerCluster <= RootDirSectors
    /\ RootDirSectors % SectorsPerCluster = 0 => RootClusters * SectorsPerCluster = RootDirSectors
  <1> DEFINE q == RootDirSectors \div SectorsPerCluster
             p == q * SectorsPerCluster
             r == RootDirSectors % SectorsPerCluster
  <1>1. SectorsPerCluster \in Nat \ {0} /\ RootDirSectors \in Nat
    BY Sizes
  <1>2. q \in Nat /\ r \in Nat /\ RootDirSectors = p + r
    <2>1. /\ q \in Nat /\ r \in 0 .. SectorsPerCluster - 1
          /\ RootDirSectors = p + r
      BY <1>1, DivMod, Zenon
    <2> HIDE DEF q, r, p
    <2> QED
      BY <1>1, <2>1
  <1> HIDE DEF q, r
  <1>3. p \in Nat /\ q <= p
    <2>1. p = q * (SectorsPerCluster - 1) + q
      BY <1>1, <1>2
    <2>2. q * (SectorsPerCluster - 1) \in Nat
      BY <1>1, <1>2
    <2> QED
      BY <1>1, <1>2, <2>1, <2>2
  <1>4. q = RootClusters /\ p = RootClusters * SectorsPerCluster
    BY DEF RootClusters, q
  <1> HIDE DEF p
  <1>5. p <= RootDirSectors /\ q <= RootDirSectors /\ (r = 0 => p = RootDirSectors)
    BY <1>1, <1>2, <1>3
  <1> QED
    BY <1>2, <1>4, <1>5 DEF r

\* both walks and both reads start afresh
LEMMA TypeStart ==
    ASSUME TypeInv,
           \/ \E c \in Clusters, i, j \in 0 .. MaxBlock : i <= j /\ fat_fread(c, i, j)
           \/ \E c \in Clusters \cup {0} : fat_read_dir(c)
    PROVE  TypeInv'
  <1>1. /\ MaxBlock \in Nat /\ Clusters \subseteq Entry /\ 0 \in Entry /\ 2 \in Entry
        /\ RootDirSectors \in Nat
    BY Sizes
  <1>2. ASSUME NEW c \in Clusters, NEW i \in 0 .. MaxBlock, NEW j \in 0 .. MaxBlock,
               i <= j, fat_fread(c, i, j)
        PROVE  TypeInv'
    <2>1. /\ op' = "read" /\ first' = c /\ cluster' = c /\ f_block' = 0 /\ want' = i
          /\ last' = j /\ offset' = 0 /\ eof' = FALSE /\ faulty' = FALSE
          /\ type' = type /\ fat' = fat
      BY <1>2 DEF fat_fread, StartBlock
    <2>2. /\ c \in Entry /\ 0 \in 0 .. i /\ i \in 0 .. j /\ 0 \in 0 .. RootDirSectors + 1
      BY <1>1, <1>2
    <2>3. type \in FatTypes /\ fat \in Tables
      BY DEF TypeInv, TypeOK
    <2>4. TypeOK'
      BY <2>1, <2>2, <2>3 DEF TypeOK
    <2> QED
      BY <2>1, <2>4 DEF TypeInv, RootWalk
  <1>3. ASSUME NEW c \in Clusters \cup {0}, fat_read_dir(c)
        PROVE  TypeInv'
    <2>1. /\ op' = "dir" /\ first' = c /\ cluster' = (IF c = 0 THEN 2 ELSE c) /\ f_block' = 0
          /\ want' = 0 /\ last' = 0 /\ offset' = 0 /\ eof' = FALSE /\ faulty' = FALSE
          /\ type' = type /\ fat' = fat
      BY <1>3 DEF fat_read_dir
    <2>2. /\ (IF c = 0 THEN 2 ELSE c) \in Entry /\ 0 \in 0 .. 0 /\ 0 \in 0 .. MaxBlock
          /\ 0 \in 0 .. RootDirSectors + 1
      BY <1>1
    <2>3. type \in FatTypes /\ fat \in Tables
      BY DEF TypeInv, TypeOK
    <2>4. TypeOK'
      BY <2>1, <2>2, <2>3 DEF TypeOK
    <2>5. RootWalk'
      BY <2>1 DEF RootWalk, IsFixedRoot
    <2> QED
      BY <2>4, <2>5 DEF TypeInv
  <1> QED
    BY <1>2, <1>3

LEMMA TypeDir ==
    ASSUME TypeInv, ReadDirCluster
    PROVE  TypeInv'
  <1>1. /\ op = "dir" /\ ~faulty /\ cluster \in Entry
        /\ UNCHANGED <<type, fat, first, f_block, want, last, answers, eof>>
        /\ offset' = IF IsFixedRoot THEN offset + 1 ELSE offset
    BY DEF ReadDirCluster, TypeInv, TypeOK, RootWalk
  <1>2. ~eof
    BY <1>1 DEF TypeInv, RootWalk
  <1>3. PICK l \in DirNext : /\ cluster' = l[1] /\ faulty' = l[2]
                             /\ op' = IF DirDone(l[1]) THEN "none" ELSE "dir"
    BY DEF ReadDirCluster
  <1>4. CASE IsFixedRoot
    <2>1. /\ l = <<IF MoreRoot(offset + 1) THEN cluster + 1 ELSE End, FALSE>>
          /\ cluster = 2 + offset /\ (offset = 0 \/ offset < RootClusters) /\ offset' = offset + 1
          /\ offset \in Nat
      <3>1. offset \in Nat
        BY Sizes DEF TypeInv, TypeOK
      <3>2. l = <<IF MoreRoot(offset + 1) THEN cluster + 1 ELSE End, FALSE>>
        BY <1>3, <1>4 DEF DirNext
      <3>3. cluster = 2 + offset /\ (offset = 0 \/ offset < RootClusters)
        BY <1>1, <1>4 DEF TypeInv, RootWalk
      <3> QED
        BY <1>1, <1>4, <3>1, <3>2, <3>3
    <2>2. l[1] = (IF MoreRoot(offset + 1) THEN cluster + 1 ELSE End) /\ l[2] = FALSE
      BY <2>1
    <2>3. MoreRoot(offset + 1) <=> offset + 1 < RootClusters
      BY DEF MoreRoot, RootClusters
    <2>4. RootDirSectors < Bad - 1
      BY FatAssumption
    <2>5. offset + 1 \in 0 .. RootDirSectors + 1 /\ l[1] \in Entry
      BY <2>1, <2>2, <2>3, <2>4, RootClustersType, Sizes
    <2>6. ~MoreRoot(offset + 1) => DirDone(l[1])
      BY <2>2, Sizes DEF DirDone
    <2>7. IsFixedRoot' = IsFixedRoot
      BY <1>1 DEF IsFixedRoot
    <2>8. TypeOK'
      BY <1>1, <1>3, <2>1, <2>2, <2>5 DEF TypeInv, TypeOK
    <2>9. RootWalk'
      <3> SUFFICES ASSUME op' = "dir"
                   PROVE  /\ cluster' = 2 + offset' /\ offset' < RootClusters
                          /\ ~faulty' /\ ~eof'
        BY <1>4, <2>7 DEF RootWalk
      <3>1. MoreRoot(offset + 1)
        BY <1>3, <2>6
      <3>2. cluster' = (2 + offset) + 1
        BY <1>3, <2>1, <2>2, <3>1
      <3> QED
        BY <1>1, <1>3, <1>2, <2>1, <2>2, <2>3, <3>1, <3>2
    <2> QED
      BY <2>8, <2>9 DEF TypeInv
  <1>5. CASE ~IsFixedRoot
    <2>1. l \in Lookups(cluster) /\ offset' = offset /\ offset = 0
      BY <1>1, <1>3, <1>5 DEF DirNext, TypeInv, RootWalk
    <2>2. l[1] \in Entry /\ l[2] \in BOOLEAN
      BY <1>1, <2>1, LookupType DEF TypeInv
    <2>3. l[2] => DirDone(l[1])
      BY <2>1, FailedLookup, Sizes DEF DirDone
    <2>4. IsFixedRoot' = IsFixedRoot
      BY <1>1 DEF IsFixedRoot
    <2>5. TypeOK'
      BY <1>1, <1>3, <2>1, <2>2 DEF TypeInv, TypeOK
    <2>6. RootWalk'
      BY <1>1, <1>3, <1>5, <2>1, <2>2, <2>3, <2>4 DEF TypeInv, TypeOK, RootWalk
    <2> QED
      BY <2>5, <2>6 DEF TypeInv
  <1> QED
    BY <1>4, <1>5

LEMMA TypeStep ==
    ASSUME TypeInv, [Next]_vars
    PROVE  TypeInv'
  <1>1. CASE Follow
    <2>1. PICK l \in Lookups(cluster) : cluster' = l[1] /\ faulty' = (faulty \/ l[2])
      BY <1>1 DEF Follow
    <2>2. l[1] \in Entry /\ l[2] \in BOOLEAN
      BY <2>1, LookupType DEF TypeInv, TypeOK
    <2>3. f_block' \in 0 .. want
      BY <1>1, Sizes DEF Follow, NextBlock, TypeInv, TypeOK
    <2> QED
      BY <1>1, <2>1, <2>2, <2>3 DEF Follow, TypeInv, TypeOK, RootWalk
  <1>2. CASE Found
    <2>1. want' \in 0 .. last /\ f_block' \in 0 .. want'
      BY <1>2, Sizes DEF Found, TypeInv, TypeOK
    <2> QED
      BY <1>2, <2>1 DEF Found, TypeInv, TypeOK, RootWalk
  <1>3. CASE NotFound
    BY <1>3 DEF NotFound, TypeInv, TypeOK, RootWalk
  <1>4. CASE ReadDirCluster
    BY <1>4, TypeDir
  <1>5. CASE DirClusterFails
    BY <1>5 DEF DirClusterFails, TypeInv, TypeOK, RootWalk
  <1>6. CASE UNCHANGED vars
    BY <1>6 DEF vars, TypeInv, TypeOK, RootWalk, IsFixedRoot
  <1> QED
    BY <1>1, <1>2, <1>3, <1>4, <1>5, <1>6, TypeStart DEF Next, Work

LEMMA TypeBegin ==
    ASSUME Init
    PROVE  TypeInv
  <1>1. 0 \in Entry /\ 0 \in 0 .. 0 /\ 0 \in 0 .. MaxBlock /\ 0 \in 0 .. RootDirSectors + 1
    BY Sizes
  <1>2. TypeOK
    BY <1>1 DEF Init, TypeOK
  <1> QED
    BY <1>2 DEF Init, TypeInv, RootWalk

\* Blocks, clusters and the place in the root keep their types, for every table:
\* the walk of a file never counts past the block it looks for, and the root of
\* a FAT16 is never read past its last sector by more than one cluster.  Code
\* behaviour: the while loop of fat_get_next_bdev_block_num and the test of
\* cur_root_cluster_offset.
THEOREM FatTypeCorrect == Spec => []TypeOK
  <1>1. TypeInv => TypeOK
    BY DEF TypeInv
  <1> QED
    BY <1>1, TypeBegin, TypeStep, PTL DEF Spec

-----------------------------------------------------------------------------
(* Files *)

FileInv == OnChain /\ AnswersOK /\ EofOK

\* what the chain of a cluster comes to is in the table or the end of it
LEMMA InTable ==
    ASSUME TablesLead, NEW t \in Tables, NEW c \in Clusters
    PROVE  \A i \in 0 .. ChainEnd : ChainOf(t, c)[i] \in 0 .. MaxCluster \cup {End}
  <1> DEFINE f == ChainOf(t, c)
             S == {n \in Nat : n <= ChainEnd => f[n] \in 0 .. MaxCluster \cup {End}}
  <1>1. f[0] = c /\ \A k \in 0 .. ChainEnd - 1 : f[k + 1] = Turn(t, f[k])
    BY ChainTurns
  <1> HIDE DEF f
  <1>2. 0 \in S
    BY <1>1, Sizes
  <1>3. ASSUME NEW n \in Nat, n \in S PROVE n + 1 \in S
    <2> SUFFICES ASSUME n + 1 <= ChainEnd PROVE f[n + 1] \in 0 .. MaxCluster \cup {End}
      OBVIOUS
    <2>1. n \in 0 .. ChainEnd - 1 /\ f[n] \in 0 .. MaxCluster \cup {End}
      BY <1>3, Sizes
    <2>2. f[n + 1] = Turn(t, f[n])
      BY <1>1, <2>1
    <2>3. CASE f[n] = End
      BY <2>2, <2>3, Sizes DEF Turn
    <2>4. CASE f[n] \in 0 .. MaxCluster
      BY <2>2, <2>4, Sizes DEF Turn, TablesLead
    <2> QED
      BY <2>1, <2>3, <2>4
  <1>4. Nat \subseteq S
    <2> HIDE DEF S
    <2> QED
      BY <1>2, <1>3, NumbersFrom0
  <1>5. ASSUME NEW i \in 0 .. ChainEnd PROVE f[i] \in 0 .. MaxCluster \cup {End}
    <2>1. i \in Nat /\ i <= ChainEnd
      BY Sizes
    <2> QED
      BY <1>4, <2>1
  <1> QED
    BY <1>5 DEF f

LEMMA FileBegin ==
    ASSUME Init
    PROVE  FileInv
  BY DEF Init, FileInv, OnChain, AnswersOK, EofOK

LEMMA FileStart ==
    ASSUME TypeInv,
           \/ \E c \in Clusters, i, j \in 0 .. MaxBlock : i <= j /\ fat_fread(c, i, j)
           \/ \E c \in Clusters \cup {0} : fat_read_dir(c)
    PROVE  FileInv'
  <1>1. ASSUME NEW c \in Clusters, NEW i \in 0 .. MaxBlock, NEW j \in 0 .. MaxBlock,
               fat_fread(c, i, j)
        PROVE  FileInv'
    <2>1. /\ op' = "read" /\ first' = c /\ cluster' = c /\ f_block' = 0
          /\ answers' = <<>> /\ listed' = {} /\ eof' = FALSE
      BY <1>1 DEF fat_fread, StartBlock
    <2>2. ChainOf(fat', c)[0] = c
      BY ChainTurns
    <2> QED
      BY <2>1, <2>2 DEF FileInv, OnChain, AnswersOK, EofOK
  <1>2. ASSUME NEW c \in Clusters \cup {0}, fat_read_dir(c)
        PROVE  FileInv'
    BY <1>2 DEF fat_read_dir, FileInv, OnChain, AnswersOK, EofOK
  <1> QED
    BY <1>1, <1>2

\* one turn of the loop is one turn along the chain
LEMMA FollowKeepsFile ==
    ASSUME TablesLead, TypeInv, FileInv, Follow
    PROVE  FileInv'
  <1>1. PICK l \in Lookups(cluster) : cluster' = l[1] /\ faulty' = (faulty \/ l[2])
    BY DEF Follow
  <1>2. /\ op = "read" /\ op' = "read" /\ f_block # want /\ f_block' = f_block + 1
        /\ cluster < End
        /\ UNCHANGED <<type, fat, first, want, last, offset, answers, listed, eof>>
    BY DEF Follow, NextBlock, InChain
  <1>3. /\ f_block \in 0 .. ChainEnd - 1 /\ cluster \in Entry /\ fat \in Tables
        /\ first \in Clusters
    BY <1>2, Sizes DEF TypeInv, TypeOK, FileInv, OnChain
  <1>4. l[2] \in BOOLEAN
    BY <1>1, <1>3, LookupType DEF TypeInv
  <1>5. Trusted' => Trusted /\ ~l[2]
    BY <1>1, <1>2, <1>4 DEF Trusted
  <1>6. ASSUME Trusted' PROVE cluster' = ChainOf(fat', first')[f_block']
    <2> DEFINE f == ChainOf(fat, first)
    <2>1. cluster = f[f_block]
      BY <1>2, <1>5, <1>6 DEF FileInv, OnChain
    <2>2. f[0] = first /\ f[f_block + 1] = Turn(fat, f[f_block])
      BY <1>3, ChainTurns
    <2>3. cluster <= MaxCluster
      <3>1. f_block \in 0 .. ChainEnd
        BY <1>3, Sizes
      <3>2. f[f_block] \in 0 .. MaxCluster \cup {End}
        BY <1>3, <3>1, InTable
      <3> QED
        BY <1>2, <2>1, <3>2, Sizes
    <2>4. l[1] = fat[cluster]
      BY <1>1, <1>3, <1>5, <1>6, <2>3, LookupType DEF TypeInv, Trusted
    <2>5. Turn(fat, cluster) = fat[cluster]
      BY <1>3, <2>3, Sizes DEF Turn
    <2> HIDE DEF f
    <2>6. cluster' = f[f_block']
      BY <1>1, <1>2, <2>1, <2>2, <2>4, <2>5
    <2> QED
      BY <1>2, <2>6 DEF f
  <1>7. OnChain'
    BY <1>2, <1>3, <1>6 DEF FileInv, OnChain
  <1>8. AnswersOK'
    <2>1. answers \in Seq((0 .. MaxBlock) \X Nat)
      BY DEF FileInv, AnswersOK
    <2>2. ASSUME Trusted', NEW i \in 1 .. Len(answers)
          PROVE  answers[i][2] = get_sector(ChainOf(fat, first)[answers[i][1]])
      BY <1>5, <2>2 DEF FileInv, AnswersOK
    <2>3. \A c : get_sector(c)' = get_sector(c)
      BY <1>2 DEF get_sector, U, RootSectors
    <2> QED
      BY <1>2, <2>1, <2>2, <2>3 DEF AnswersOK
  <1> QED
    BY <1>2, <1>7, <1>8 DEF FileInv, EofOK

LEMMA AnswersKept ==
    ASSUME AnswersOK, UNCHANGED <<type, fat, first, answers>>, Trusted' => Trusted
    PROVE  AnswersOK'
  <1>1. \A c : get_sector(c)' = get_sector(c)
    BY DEF get_sector, U, RootSectors
  <1> QED
    BY <1>1 DEF AnswersOK

LEMMA FoundKeepsFile ==
    ASSUME TypeInv, FileInv, Found
    PROVE  FileInv'
  <1>1. /\ op = "read" /\ f_block = want /\ cluster < End
        /\ answers' = Append(answers, <<want, get_sector(cluster)>>)
        /\ IF want = last THEN op' = "none" ELSE op' = "read"
        /\ UNCHANGED <<type, fat, first, cluster, f_block, last, listed, eof, faulty>>
    BY DEF Found, InChain
  <1>2. /\ want \in 0 .. MaxBlock /\ cluster \in Int /\ first \in Clusters /\ ~eof
    BY <1>1, Sizes DEF TypeInv, TypeOK, FileInv, OnChain
  <1>3. Trusted => cluster = ChainOf(fat, first)[want]
    BY <1>1 DEF FileInv, OnChain
  <1>4. Trusted' = Trusted
    BY <1>1 DEF Trusted
  <1>5. OnChain'
    BY <1>1, <1>4 DEF FileInv, OnChain
  <1>6. AnswersOK'
    <2> DEFINE e == <<want, get_sector(cluster)>>
    <2>1. answers \in Seq((0 .. MaxBlock) \X Nat) /\ e \in (0 .. MaxBlock) \X Nat
      BY <1>2, SectorType DEF FileInv, AnswersOK
    <2>2. /\ answers' \in Seq((0 .. MaxBlock) \X Nat) /\ Len(answers') = Len(answers) + 1
          /\ \A i \in 1 .. Len(answers) : answers'[i] = answers[i]
          /\ answers'[Len(answers) + 1] = e
      BY <1>1, <2>1
    <2>3. \A c : get_sector(c)' = get_sector(c)
      BY <1>1 DEF get_sector, U, RootSectors
    <2>4. ASSUME Trusted, NEW i \in 1 .. Len(answers')
          PROVE  answers'[i][2] = get_sector(ChainOf(fat, first)[answers'[i][1]])
      <3>1. CASE i \in 1 .. Len(answers)
        BY <2>2, <2>4, <3>1 DEF FileInv, AnswersOK
      <3>2. CASE i = Len(answers) + 1
        <4>1. answers'[i][1] = want /\ answers'[i][2] = get_sector(cluster)
          BY <2>2, <3>2
        <4> QED
          BY <1>3, <2>4, <4>1
      <3>3. Len(answers) \in Nat
        BY <2>1
      <3> QED
        BY <2>2, <3>1, <3>2, <3>3
    <2> QED
      BY <1>1, <1>4, <2>2, <2>3, <2>4 DEF AnswersOK
  <1>7. EofOK'
    <2>1. op' = "none" => want = last
      BY <1>1
    <2>2. cluster # End
      BY <1>1, <1>2, Sizes
    <2> QED
      BY <1>1, <1>2, <1>3, <1>4, <2>1, <2>2 DEF EofOK
  <1> QED
    BY <1>5, <1>6, <1>7 DEF FileInv

\* the chain ended before the block that was asked for
LEMMA NotFoundKeepsFile ==
    ASSUME TablesLead, TypeInv, FileInv, NotFound
    PROVE  FileInv'
  <1>1. /\ op = "read" /\ op' = "none" /\ ~(cluster < End) /\ eof' = TRUE
        /\ UNCHANGED <<type, fat, first, cluster, f_block, want, last, answers, listed, faulty>>
    BY DEF NotFound, InChain
  <1>2. Trusted' = Trusted
    BY <1>1 DEF Trusted
  <1>3. AnswersOK'
    BY <1>1, <1>2, AnswersKept DEF FileInv
  <1>4. ASSUME Trusted PROVE ChainOf(fat, first)[last] = End
    <2> DEFINE f == ChainOf(fat, first)
    <2>1. f[f_block] = cluster /\ fat \in Tables /\ first \in Clusters
      BY <1>1, <1>4 DEF FileInv, OnChain, TypeInv, TypeOK
    <2>2. f_block \in 0 .. ChainEnd /\ last \in f_block .. ChainEnd /\ cluster \in Int
      BY Sizes DEF TypeInv, TypeOK
    <2>3. f[f_block] \in 0 .. MaxCluster \cup {End}
      BY <2>1, <2>2, InTable
    <2>4. f[f_block] = End /\ f[f_block] > MaxCluster
      BY <1>1, <2>1, <2>2, <2>3, Sizes
    <2>5. f[last] = f[f_block]
      BY <2>2, <2>4, ChainStays
    <2> QED
      BY <2>4, <2>5
  <1> QED
    BY <1>1, <1>2, <1>3, <1>4 DEF FileInv, OnChain, EofOK

\* a directory leaves the answers of the last file alone, and lists something
LEMMA DirKeepsFile ==
    ASSUME TypeInv, FileInv, ReadDirCluster \/ DirClusterFails
    PROVE  FileInv'
  <1>1. /\ op = "dir" /\ op' \in {"none", "dir"} /\ answers' = answers
        /\ UNCHANGED <<type, fat, first>> /\ ~faulty
    BY DEF ReadDirCluster, DirClusterFails, TypeInv, RootWalk
  <1>2. AnswersOK'
    BY <1>1, AnswersKept DEF FileInv, Trusted
  <1>3. faulty' \/ listed' # {}
    <2>1. CASE DirClusterFails
      BY <2>1 DEF DirClusterFails
    <2>2. CASE ReadDirCluster
      <3>1. 0 \in 0 .. SectorsPerCluster - 1
        BY Sizes
      <3>2. ClusterAt(DirSector) # {}
        BY <3>1 DEF ClusterAt
      <3> QED
        BY <2>2, <3>2 DEF ReadDirCluster
    <2> QED
      BY <2>1, <2>2
  <1> QED
    BY <1>1, <1>2, <1>3 DEF FileInv, OnChain, EofOK, Trusted

LEMMA FileStep ==
    ASSUME TablesLead, TypeInv, FileInv, [Next]_vars
    PROVE  FileInv'
  <1>1. CASE UNCHANGED vars
    <2>1. AnswersOK'
      BY <1>1, AnswersKept DEF vars, FileInv, Trusted
    <2> QED
      BY <1>1, <2>1 DEF vars, FileInv, OnChain, EofOK, Trusted
  <1> QED
    BY <1>1, FollowKeepsFile, FoundKeepsFile, NotFoundKeepsFile, DirKeepsFile, FileStart
       DEF Next, Work

FileIInv == TypeInv /\ FileInv

LEMMA FatFileInvariant ==
    ASSUME TablesLead
    PROVE  Spec => []FileIInv
  <1>1. Init => FileIInv
    BY TypeBegin, FileBegin DEF FileIInv
  <1>2. FileIInv /\ [Next]_vars => FileIInv'
    BY TypeStep, FileStep DEF FileIInv
  <1> QED
    BY <1>1, <1>2, PTL DEF Spec

\* Following one block after the other from where the last one was found gives
\* what following the chain from its start gives, for every table, cyclic or not,
\* and files of any length, as long as no read of the table fails.  Code
\* behaviour: fat_get_next_bdev_block_num, "Iterate through the cluster chain
\* until we reach the appropriate one".
THEOREM AnswersFollowChainHolds ==
    ASSUME TablesLead
    PROVE  Spec => []AnswersFollowChain
  <1>1. FileIInv => AnswersFollowChain
    BY ChainIs DEF FileIInv, FileInv, AnswersOK, AnswersFollowChain, Trusted
  <1> QED
    BY <1>1, FatFileInvariant, PTL

\* The end of file flag is set when the chain ends before the last block asked
\* for, and only then, for every table.  Code behaviour: VFS_FLAGS_EOF.
THEOREM EofIsEndOfChainHolds ==
    ASSUME TablesLead
    PROVE  Spec => []EofIsEndOfChain
  <1>1. FileIInv => EofIsEndOfChain
    BY ChainIs DEF FileIInv, FileInv, EofOK, EofIsEndOfChain, Trusted
  <1> QED
    BY <1>1, FatFileInvariant, PTL

-----------------------------------------------------------------------------
(* Directories: paths of n steps through the table *)

IsPath(t, c, n, f) ==
    /\ f \in [0 .. n -> 0 .. MaxCluster]
    /\ f[0] = c
    /\ \A i \in 0 .. n - 1 : f[i + 1] = t[f[i]]

LongerPath(f, n, x) == [i \in 0 .. n + 1 |-> IF i = n + 1 THEN x ELSE f[i]]

LEMMA PathGrows ==
    ASSUME NEW t, NEW c, NEW n \in Nat, NEW f, IsPath(t, c, n, f),
           t[f[n]] \in 0 .. MaxCluster
    PROVE  IsPath(t, c, n + 1, LongerPath(f, n, t[f[n]]))
  <1> DEFINE x == t[f[n]]
             g == LongerPath(f, n, x)
  <1>1. /\ f \in [0 .. n -> 0 .. MaxCluster] /\ f[0] = c
        /\ \A i \in 0 .. n - 1 : f[i + 1] = t[f[i]]
    BY DEF IsPath
  <1>2. x \in 0 .. MaxCluster
    OBVIOUS
  <1>3. /\ g[n + 1] = x /\ \A i \in 0 .. n : g[i] = f[i]
        /\ g = [i \in 0 .. n + 1 |-> g[i]]
    BY DEF LongerPath
  <1>4. ASSUME NEW i \in 0 .. n + 1 PROVE g[i] \in 0 .. MaxCluster
    <2>1. CASE i = n + 1
      BY <1>2, <1>3, <2>1
    <2>2. CASE i \in 0 .. n
      BY <1>1, <1>3, <2>2
    <2> QED
      BY <2>1, <2>2
  <1>5. ASSUME NEW i \in 0 .. (n + 1) - 1 PROVE g[i + 1] = t[g[i]]
    <2>1. CASE i = n
      <3>1. n \in 0 .. n
        OBVIOUS
      <3>2. g[n] = f[n] /\ g[n + 1] = x
        BY <1>3, <3>1
      <3> QED
        BY <2>1, <3>2
    <2>2. CASE i \in 0 .. n - 1
      <3>1. i + 1 \in 0 .. n /\ i \in 0 .. n
        BY <2>2
      <3> QED
        BY <1>1, <1>3, <2>2, <3>1
    <2> QED
      BY <2>1, <2>2
  <1> HIDE DEF g, x
  <1>6. g \in [0 .. n + 1 -> 0 .. MaxCluster]
    BY <1>3, <1>4
  <1>7. g[0] = c
    <2>1. 0 \in 0 .. n
      OBVIOUS
    <2> QED
      BY <1>1, <1>3, <2>1
  <1> QED
    BY <1>5, <1>6, <1>7 DEF IsPath, g, x

\* a path that ends visits no cluster twice
LEMMA PathIsSimple ==
    ASSUME NEW t, NEW c, NEW n \in Nat, NEW f, IsPath(t, c, n, f), t[f[n]] = End,
           NEW i \in 0 .. n, NEW j \in 0 .. n, i < j
    PROVE  f[i] # f[j]
  <1> SUFFICES ASSUME f[i] = f[j] PROVE FALSE
    OBVIOUS
  <1> DEFINE S == {k \in Nat : j + k <= n => f[i + k] = f[j + k]}
  <1>1. /\ \A k \in 0 .. n : f[k] \in 0 .. MaxCluster
        /\ \A k \in 0 .. n - 1 : f[k + 1] = t[f[k]]
    BY DEF IsPath
  <1>2. 0 \in S
    OBVIOUS
  <1>3. ASSUME NEW k \in Nat, k \in S PROVE k + 1 \in S
    <2> SUFFICES ASSUME j + (k + 1) <= n PROVE f[i + (k + 1)] = f[j + (k + 1)]
      OBVIOUS
    <2>1. /\ i + k \in 0 .. n - 1 /\ j + k \in 0 .. n - 1
          /\ i + (k + 1) = (i + k) + 1 /\ j + (k + 1) = (j + k) + 1
      OBVIOUS
    <2>2. f[i + k] = f[j + k]
      BY <1>3, <2>1
    <2>3. f[(i + k) + 1] = t[f[i + k]] /\ f[(j + k) + 1] = t[f[j + k]]
      BY <1>1, <2>1
    <2> QED
      BY <2>1, <2>2, <2>3
  <1>4. Nat \subseteq S
    <2> HIDE DEF S
    <2> QED
      BY <1>2, <1>3, NumbersFrom0
  <1>5. n - j \in Nat /\ j + (n - j) = n /\ i + (n - j) \in 0 .. n - 1
    OBVIOUS
  <1>6. f[i + (n - j)] = f[n]
    <2>1. n - j \in S
      BY <1>4, <1>5
    <2> QED
      BY <1>5, <2>1
  <1>7. f[(i + (n - j)) + 1] = End
    BY <1>1, <1>5, <1>6
  <1>8. (i + (n - j)) + 1 \in 0 .. n
    BY <1>5
  <1> QED
    BY <1>1, <1>7, <1>8, Sizes

\* and so it is no longer than the table
LEMMA PathIsShort ==
    ASSUME NEW t, NEW c, NEW n \in Nat, NEW f, IsPath(t, c, n, f), t[f[n]] = End
    PROVE  n <= MaxCluster
  <1> SUFFICES ASSUME n > MaxCluster PROVE FALSE
    BY Sizes
  <1>1. /\ IsFiniteSet(0 .. n) /\ Cardinality(0 .. n) = n + 1
        /\ IsFiniteSet(0 .. MaxCluster) /\ Cardinality(0 .. MaxCluster) = MaxCluster + 1
    <2>1. 0 \in Int /\ n \in Int /\ MaxCluster \in Int /\ 0 <= n /\ 0 <= MaxCluster
      BY Sizes
    <2>2. /\ IsFiniteSet(0 .. n) /\ Cardinality(0 .. n) = IF 0 > n THEN 0 ELSE n - 0 + 1
          /\ IsFiniteSet(0 .. MaxCluster)
          /\ Cardinality(0 .. MaxCluster) = IF 0 > MaxCluster THEN 0 ELSE MaxCluster - 0 + 1
      BY <2>1, FS_Interval
    <2> QED
      BY <2>1, <2>2
  <1>2. f \in [0 .. n -> 0 .. MaxCluster]
    BY DEF IsPath
  <1>3. Cardinality(0 .. MaxCluster) < Cardinality(0 .. n)
    BY <1>1, Sizes
  <1>4. \E i, j \in 0 .. n : i # j /\ f[i] = f[j]
    BY <1>1, <1>2, <1>3, FS_PigeonHole
  <1>5. \E i, j \in 0 .. n : i < j /\ f[i] = f[j]
    <2>1. PICK i \in 0 .. n, j \in 0 .. n : i # j /\ f[i] = f[j]
      BY <1>4
    <2>2. i < j \/ j < i
      BY <2>1
    <2> QED
      BY <2>1, <2>2
  <1> QED
    BY <1>5, PathIsSimple

LEMMA PathIsChain ==
    ASSUME NEW t, NEW c, NEW n \in Nat, NEW f, IsPath(t, c, n, f), t[f[n]] = End
    PROVE  {j \in 0 .. MaxCluster : ChainOf(t, c)[j] < Bad} = 0 .. n
           /\ \A j \in 0 .. n : ChainOf(t, c)[j] = f[j]
  <1> DEFINE h == ChainOf(t, c)
             S == {k \in Nat : k <= n => h[k] = f[k]}
  <1>1. h[0] = c /\ \A k \in 0 .. ChainEnd - 1 : h[k + 1] = Turn(t, h[k])
    BY ChainTurns
  <1>2. n <= MaxCluster /\ n <= ChainEnd
    BY PathIsShort, Sizes DEF ChainEnd
  <1>3. /\ f[0] = c /\ \A k \in 0 .. n : f[k] \in 0 .. MaxCluster
        /\ \A k \in 0 .. n - 1 : f[k + 1] = t[f[k]]
    BY DEF IsPath
  <1> HIDE DEF h
  <1>4. 0 \in S
    BY <1>1, <1>3
  <1>5. ASSUME NEW k \in Nat, k \in S PROVE k + 1 \in S
    <2> SUFFICES ASSUME k + 1 <= n PROVE h[k + 1] = f[k + 1]
      OBVIOUS
    <2>1. k \in 0 .. n - 1 /\ k \in 0 .. ChainEnd - 1 /\ k \in 0 .. n
      BY <1>2, Sizes
    <2>2. h[k] = f[k] /\ f[k] \in 0 .. MaxCluster
      BY <1>3, <1>5, <2>1
    <2>3. Turn(t, h[k]) = t[f[k]]
      BY <2>2, Sizes DEF Turn
    <2> QED
      BY <1>1, <1>3, <2>1, <2>3
  <1>6. Nat \subseteq S
    <2> HIDE DEF S
    <2> QED
      BY <1>4, <1>5, NumbersFrom0
  <1>7. ASSUME NEW j \in 0 .. n PROVE h[j] = f[j]
    BY <1>6
  <1>8. ASSUME NEW j \in n + 1 .. MaxCluster PROVE ~(h[j] < Bad)
    <2>1. n + 1 \in 0 .. ChainEnd /\ j \in n + 1 .. ChainEnd /\ n \in 0 .. ChainEnd - 1
      BY Sizes DEF ChainEnd
    <2>2. h[n] = f[n] /\ f[n] \in 0 .. MaxCluster
      BY <1>3, <1>7
    <2>3. h[n + 1] = End
      BY <1>1, <2>1, <2>2, Sizes DEF Turn
    <2>4. h[n + 1] > MaxCluster
      BY <2>3, Sizes
    <2>5. h[j] = h[n + 1]
      BY <2>1, <2>4, ChainStays DEF h
    <2> QED
      BY <2>3, <2>5, Sizes
  <1>9. \A j \in 0 .. n : h[j] < Bad
    BY <1>3, <1>7, Sizes
  <1>10. {j \in 0 .. MaxCluster : h[j] < Bad} = 0 .. n
    BY <1>2, <1>8, <1>9, Sizes
  <1> QED
    BY <1>7, <1>10 DEF h

-----------------------------------------------------------------------------
(* Directories *)

\* the fixed root is a whole number of clusters
RootWhole == RootDirSectors > 0 /\ RootDirSectors % SectorsPerCluster = 0

Start == IF first = 0 THEN 2 ELSE first

\* get_sector behind r sectors of the fixed root
SectorAt(r, c) == U(r + (c - 2) * SectorsPerCluster)

\* the sectors of the first m clusters of a path
SectorsOf(r, f, m) == UNION {ClusterAt(SectorAt(r, f[i])) : i \in 0 .. m - 1}

\* what has been read so far
DirListed ==
    op = "dir" =>
        IF IsFixedRoot THEN listed = 0 .. offset * SectorsPerCluster - 1
        ELSE Trusted => \E n \in Nat : \E f :
               /\ IsPath(fat, Start, n, f) /\ f[n] = cluster
               /\ listed = SectorsOf(RootSectors, f, n)

\* and in the end
DirDoneOK ==
    op = "none" /\ listed # {} /\ ~faulty =>
        IF IsFixedRoot THEN listed = 0 .. RootDirSectors - 1
        ELSE Trusted => \E n \in Nat : \E f :
               /\ IsPath(fat, Start, n, f) /\ fat[f[n]] = End
               /\ listed = SectorsOf(RootSectors, f, n + 1)

DirInv == DirListed /\ DirDoneOK

\* the sectors of one more cluster
LEMMA SectorsGrow ==
    ASSUME NEW r, NEW f, NEW m \in Nat
    PROVE  SectorsOf(r, f, m + 1) = SectorsOf(r, f, m) \cup ClusterAt(SectorAt(r, f[m]))
  <1> DEFINE C(i) == ClusterAt(SectorAt(r, f[i]))
  <1>1. \A x : x \in SectorsOf(r, f, m) <=> \E i \in 0 .. m - 1 : x \in C(i)
    BY DEF SectorsOf
  <1>2. \A x : x \in SectorsOf(r, f, m + 1) <=> \E i \in 0 .. (m + 1) - 1 : x \in C(i)
    BY DEF SectorsOf
  <1> HIDE DEF C
  <1>3. \A i : i \in 0 .. (m + 1) - 1 <=> i \in 0 .. m - 1 \/ i = m
    OBVIOUS
  <1>4. \A x : x \in SectorsOf(r, f, m + 1) <=> x \in SectorsOf(r, f, m) \/ x \in C(m)
    BY <1>1, <1>2, <1>3
  <1> QED
    BY <1>4 DEF C

LEMMA DirStart ==
    ASSUME TypeInv,
           \/ \E c \in Clusters, i, j \in 0 .. MaxBlock : i <= j /\ fat_fread(c, i, j)
           \/ \E c \in Clusters \cup {0} : fat_read_dir(c)
    PROVE  DirInv'
  <1>1. ASSUME NEW c \in Clusters, NEW i \in 0 .. MaxBlock, NEW j \in 0 .. MaxBlock,
               fat_fread(c, i, j)
        PROVE  DirInv'
    BY <1>1 DEF fat_fread, DirInv, DirListed, DirDoneOK
  <1>2. ASSUME NEW c \in Clusters \cup {0}, fat_read_dir(c)
        PROVE  DirInv'
    <2>1. /\ op' = "dir" /\ first' = c /\ cluster' = (IF c = 0 THEN 2 ELSE c)
          /\ offset' = 0 /\ listed' = {}
      BY <1>2 DEF fat_read_dir
    <2>2. listed' = 0 .. offset' * SectorsPerCluster - 1
      <3>1. 0 * SectorsPerCluster = 0
        BY Sizes
      <3> QED
        BY <2>1, <3>1
    <2>3. Start' = cluster' /\ Start' \in 0 .. MaxCluster
      BY <2>1, Sizes DEF Start
    <2> DEFINE f == [i \in 0 .. 0 |-> Start']
    <2>4. IsPath(fat', Start', 0, f) /\ f[0] = cluster'
      BY <2>3 DEF IsPath
    <2>5. SectorsOf(RootSectors', f, 0) = {}
      BY DEF SectorsOf
    <2> HIDE DEF f
    <2>6. \E n \in Nat : \E g : /\ IsPath(fat', Start', n, g) /\ g[n] = cluster'
                                /\ listed' = SectorsOf(RootSectors', g, n)
      BY <2>1, <2>4, <2>5
    <2>7. DirListed'
      BY <2>2, <2>6 DEF DirListed
    <2> QED
      BY <2>1, <2>7 DEF DirInv, DirDoneOK
  <1> QED
    BY <1>1, <1>2

\* the next sectors of the fixed root
LEMMA RootGrows ==
    ASSUME RootWhole, TypeInv, DirInv, ReadDirCluster, IsFixedRoot
    PROVE  /\ listed' = 0 .. (offset + 1) * SectorsPerCluster - 1
           /\ op' = "none" => listed' = 0 .. RootDirSectors - 1
  <1> DEFINE spc == SectorsPerCluster
             s == offset * spc
             t == (offset + 1) * spc
             r == RootClusters * spc
  <1>1. /\ op = "dir" /\ first = 0 /\ offset \in Nat /\ cluster = 2 + offset
        /\ (offset = 0 \/ offset < RootClusters)
    BY Sizes DEF ReadDirCluster, IsFixedRoot, TypeInv, TypeOK, RootWalk
  <1>2. spc \in Nat \ {0} /\ RootDirSectors \in Nat \ {0} /\ RootClusters \in Nat
    BY Sizes, RootClustersType DEF RootWhole
  <1>3. r = RootDirSectors
    BY RootClustersType DEF RootWhole
  <1>4. RootClusters >= 1 /\ offset + 1 <= RootClusters
    <2>1. RootClusters # 0
      <3>1. RootClusters = 0 => r = 0
        BY <1>2
      <3> HIDE DEF r
      <3> QED
        BY <1>2, <1>3, <3>1
    <2> QED
      BY <1>1, <1>2, <2>1
  <1>5. s \in Nat /\ t \in Nat /\ t = s + spc
    BY <1>1, <1>2
  <1>6. t <= r
    <2>1. RootClusters - (offset + 1) \in Nat
      BY <1>1, <1>2, <1>4
    <2>2. (RootClusters - (offset + 1)) * spc \in Nat
      BY <1>2, <2>1
    <2>3. (RootClusters - (offset + 1)) * spc = r - t
      BY <1>1, <1>2
    <2>4. r \in Nat
      BY <1>2
    <2> HIDE DEF r, t
    <2> QED
      BY <1>5, <2>2, <2>3, <2>4
  <1>7. Word \in Nat /\ Word > RootDirSectors
    BY FatAssumption
  <1>8. DirSector = s
    <2>1. DirSector = ((cluster - 2) * spc) % Word
      BY <1>1 DEF DirSector, U
    <2>2. cluster - 2 = offset
      BY <1>1
    <2>3. s \in 0 .. Word - 1
      <3> HIDE DEF s, t, r, spc
      <3> QED
        BY <1>2, <1>3, <1>5, <1>6, <1>7
    <2>4. s % Word = s
      <3> HIDE DEF s
      <3> QED
        BY <1>7, <2>3
    <2> QED
      BY <2>1, <2>2, <2>4
  <1>9. listed = 0 .. s - 1
    BY <1>1 DEF DirInv, DirListed
  <1>10. listed' = 0 .. t - 1
    <2>1. listed' = listed \cup ClusterAt(s)
      BY <1>8 DEF ReadDirCluster
    <2>2. ClusterAt(s) = s .. s + spc - 1
      <3>1. ClusterAt(s) = {s + k : k \in 0 .. spc - 1}
        BY DEF ClusterAt
      <3> HIDE DEF s, spc
      <3>2. \A x \in s .. s + spc - 1 : x - s \in 0 .. spc - 1 /\ x = s + (x - s)
        BY <1>2, <1>5
      <3>3. \A k \in 0 .. spc - 1 : s + k \in s .. s + spc - 1
        BY <1>2, <1>5
      <3> QED
        BY <3>1, <3>2, <3>3
    <2> HIDE DEF s, t, spc
    <2> QED
      BY <1>2, <1>5, <1>9, <2>1, <2>2
  <1>11. ASSUME op' = "none" PROVE t = RootDirSectors
    <2>1. PICK l \in DirNext : op' = IF DirDone(l[1]) THEN "none" ELSE "dir"
      BY DEF ReadDirCluster
    <2>2. l = <<IF MoreRoot(offset + 1) THEN cluster + 1 ELSE End, FALSE>>
      BY <2>1 DEF DirNext
    <2>3. l[1] = IF MoreRoot(offset + 1) THEN cluster + 1 ELSE End
      BY <2>2
    <2>4. RootDirSectors < Bad - 1 /\ RootClusters <= RootDirSectors /\ Bad \in Nat
      BY FatAssumption, RootClustersType
    <2>5. MoreRoot(offset + 1) <=> offset + 1 < RootClusters
      BY DEF MoreRoot, RootClusters
    <2>6. l[1] >= Bad
      BY <1>11, <2>1 DEF DirDone
    <2>7. offset + 1 = RootClusters
      <3>1. CASE offset + 1 < RootClusters
        BY <1>1, <1>2, <2>3, <2>4, <2>5, <2>6, <3>1
      <3> QED
        BY <1>1, <1>2, <1>4, <3>1
    <2>8. t = r
      BY <2>7
    <2> QED
      BY <1>3, <2>8
  <1> QED
    BY <1>10, <1>11

\* the next cluster of a chain
LEMMA ChainGrows ==
    ASSUME TablesLead, TypeInv, DirInv, ReadDirCluster, ~IsFixedRoot
    PROVE  DirInv'
  <1>1. /\ op = "dir" /\ ~faulty /\ cluster \in Entry /\ fat \in Tables
        /\ listed' = listed \cup ClusterAt(DirSector)
        /\ UNCHANGED <<type, fat, first>>
    BY DEF ReadDirCluster, TypeInv, TypeOK, RootWalk
  <1>2. PICK l \in Lookups(cluster) : /\ cluster' = l[1] /\ faulty' = l[2]
                                      /\ op' = IF DirDone(l[1]) THEN "none" ELSE "dir"
    BY DEF ReadDirCluster, DirNext
  <1>3. Start' = Start /\ RootSectors' = RootSectors /\ IsFixedRoot' = IsFixedRoot
    BY <1>1 DEF Start, RootSectors, IsFixedRoot
  <1>4. l[2] \in BOOLEAN
    BY <1>1, <1>2, LookupType DEF TypeInv
  <1>5. SUFFICES ASSUME Trusted' PROVE DirInv'
    <2>1. l[2] => DirDone(l[1])
      BY FailedLookup, Sizes DEF DirDone
    <2> QED
      BY <1>2, <1>3, <1>4, <2>1 DEF DirInv, DirListed, DirDoneOK, Trusted
  <1>6. Trusted /\ ~l[2] /\ type # "FAT12"
    BY <1>1, <1>2, <1>5 DEF Trusted
  <1>7. PICK n \in Nat : \E f : /\ IsPath(fat, Start, n, f) /\ f[n] = cluster
                                /\ listed = SectorsOf(RootSectors, f, n)
    BY <1>1, <1>6 DEF DirInv, DirListed
  <1>8. PICK f : /\ IsPath(fat, Start, n, f) /\ f[n] = cluster
                 /\ listed = SectorsOf(RootSectors, f, n)
    BY <1>7
  <1>9. cluster \in 0 .. MaxCluster
    <2>1. n \in 0 .. n
      OBVIOUS
    <2> QED
      BY <1>8, <2>1 DEF IsPath
  <1>10. l[1] = fat[f[n]]
    BY <1>1, <1>2, <1>6, <1>8, <1>9, LookupType, Sizes DEF TypeInv
  <1>11. listed' = SectorsOf(RootSectors, f, n + 1)
    <2>1. DirSector = SectorAt(RootSectors, cluster)
      <3>1. CASE first # 0
        BY <3>1 DEF DirSector, get_sector, SectorAt
      <3>2. CASE first = 0
        <4>1. RootSectors = 0
          BY <3>2 DEF IsFixedRoot, RootSectors
        <4>2. (cluster - 2) * SectorsPerCluster \in Int
          BY <1>9, Sizes
        <4>3. 0 + (cluster - 2) * SectorsPerCluster = (cluster - 2) * SectorsPerCluster
          BY <4>2
        <4> QED
          BY <3>2, <4>1, <4>3 DEF DirSector, SectorAt
      <3> QED
        BY <3>1, <3>2
    <2> QED
      BY <1>1, <1>8, <2>1, SectorsGrow
  <1>12. fat[f[n]] \in 0 .. MaxCluster \cup {End}
    BY <1>1, <1>8, <1>9 DEF TablesLead
  <1>13. CASE fat[f[n]] = End
    <2>1. op' = "none"
      BY <1>2, <1>10, <1>13, Sizes DEF DirDone
    <2>2. \E m \in Nat : \E g : /\ IsPath(fat, Start, m, g) /\ fat[g[m]] = End
                                /\ listed' = SectorsOf(RootSectors, g, m + 1)
      BY <1>8, <1>11, <1>13
    <2> QED
      BY <1>1, <1>3, <2>1, <2>2 DEF DirInv, DirListed, DirDoneOK
  <1>14. CASE fat[f[n]] \in 0 .. MaxCluster
    <2>1. op' = "dir"
      BY <1>2, <1>10, <1>14, Sizes DEF DirDone
    <2> DEFINE g == LongerPath(f, n, fat[f[n]])
    <2>2. IsPath(fat, Start, n + 1, g)
      BY <1>8, <1>14, PathGrows
    <2>3. g[n + 1] = fat[f[n]] /\ \A i \in 0 .. n : g[i] = f[i]
      BY DEF LongerPath
    <2>4. SectorsOf(RootSectors, g, n + 1) = SectorsOf(RootSectors, f, n + 1)
      <3>1. \A i \in 0 .. (n + 1) - 1 : g[i] = f[i]
        BY <2>3
      <3> HIDE DEF g
      <3> QED
        BY <3>1 DEF SectorsOf
    <2> HIDE DEF g
    <2>5. \E m \in Nat : \E h : /\ IsPath(fat, Start, m, h) /\ h[m] = cluster'
                                /\ listed' = SectorsOf(RootSectors, h, m)
      <3>1. n + 1 \in Nat /\ g[n + 1] = cluster'
        BY <1>2, <1>10, <2>3
      <3> QED
        BY <1>11, <2>2, <2>4, <3>1
    <2> QED
      BY <1>1, <1>3, <2>1, <2>5 DEF DirInv, DirListed, DirDoneOK
  <1> QED
    BY <1>12, <1>13, <1>14

LEMMA DirStep ==
    ASSUME TablesLead, RootWhole, TypeInv, FileInv, DirInv, [Next]_vars
    PROVE  DirInv'
  <1>1. CASE UNCHANGED vars
    BY <1>1 DEF vars, DirInv, DirListed, DirDoneOK, IsFixedRoot, Trusted, Start, RootSectors
  <1>2. CASE Follow
    BY <1>2 DEF Follow, DirInv, DirListed, DirDoneOK
  <1>3. CASE Found \/ NotFound
    BY <1>3 DEF Found, NotFound, FileInv, OnChain, DirInv, DirListed, DirDoneOK
  <1>4. CASE ReadDirCluster
    <2>1. CASE IsFixedRoot
      <3>1. IsFixedRoot' /\ offset' = offset + 1
        BY <1>4, <2>1 DEF ReadDirCluster, IsFixedRoot
      <3> QED
        BY <1>4, <2>1, <3>1, RootGrows DEF DirInv, DirListed, DirDoneOK
    <2> QED
      BY <1>4, <2>1, ChainGrows
  <1>5. CASE DirClusterFails
    BY <1>5 DEF DirClusterFails, DirInv, DirListed, DirDoneOK
  <1> QED
    BY <1>1, <1>2, <1>3, <1>4, <1>5, DirStart DEF Next, Work

IInv == TypeInv /\ FileInv /\ DirInv

LEMMA FatInvariant ==
    ASSUME TablesLead, RootWhole
    PROVE  Spec => []IInv
  <1>1. Init => IInv
    BY TypeBegin, FileBegin DEF IInv, Init, DirInv, DirListed, DirDoneOK
  <1>2. IInv /\ [Next]_vars => IInv'
    BY TypeStep, FileStep, DirStep DEF IInv
  <1> QED
    BY <1>1, <1>2, PTL DEF Spec

\* what the path has read are the sectors of the chain
LEMMA ListedIsChain ==
    ASSUME IInv
    PROVE  DirReadsItsSectors
  <1> SUFFICES ASSUME op = "none", listed # {}, ~faulty, Decoded
               PROVE  listed = DirSectors
    BY DEF DirReadsItsSectors
  <1>1. CASE IsFixedRoot
    BY <1>1 DEF IInv, DirInv, DirDoneOK, DirSectors
  <1>2. CASE ~IsFixedRoot
    <2>0. Trusted
      BY <1>2 DEF Decoded, IsFixedRoot, Trusted
    <2>1. PICK n \in Nat : \E f : /\ IsPath(fat, Start, n, f) /\ fat[f[n]] = End
                                  /\ listed = SectorsOf(RootSectors, f, n + 1)
      BY <1>2, <2>0 DEF IInv, DirInv, DirDoneOK
    <2>2. PICK f : /\ IsPath(fat, Start, n, f) /\ fat[f[n]] = End
                   /\ listed = SectorsOf(RootSectors, f, n + 1)
      BY <2>1
    <2> DEFINE c == ChainOf(fat, Start)
    <2>3. /\ {j \in 0 .. MaxCluster : c[j] < Bad} = 0 .. n
          /\ \A j \in 0 .. n : c[j] = f[j]
      BY <2>2, PathIsChain
    <2> HIDE DEF c
    <2>4. SectorsOf(RootSectors, f, n + 1) = UNION {ClusterAt(get_sector(c[i])) : i \in 0 .. n}
      <3>1. (n + 1) - 1 = n
        OBVIOUS
      <3> QED
        BY <2>3, <3>1 DEF SectorsOf, SectorAt, get_sector
    <2>5. Chain(IF first = 0 THEN 2 ELSE first) = c
      BY ChainIs DEF c, Start
    <2>6. DirSectors = UNION {ClusterAt(get_sector(c[i])) :
                                  i \in {j \in 0 .. MaxCluster : c[j] < Bad}}
      BY <1>2, <2>5 DEF DirSectors
    <2> QED
      BY <2>2, <2>3, <2>4, <2>6
  <1> QED
    BY <1>1, <1>2

\* A directory is read from its own sectors, all of them and no others, as long
\* as nothing fails: for chains of any length, a path through the table that
\* comes to an end being no longer than the table, and for a fixed root of whole
\* clusters.  Code behaviour: fat_read_dir.
THEOREM DirReadsItsSectorsHolds ==
    ASSUME TablesLead, RootWhole
    PROVE  Spec => []DirReadsItsSectors
  BY FatInvariant, ListedIsChain, PTL
=============================================================================
