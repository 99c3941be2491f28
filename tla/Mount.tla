------------------------------- MODULE Mount -------------------------------
(***************************************************************************)
(* From the card to an open file: libfs_init and register_fs of            *)
(* rboot/libfs.c, read_mbr of rboot/mbr.c, and in rboot/vfs.c the list of  *)
(* file systems, the default and the paths of mb_fopen.                    *)
(*                                                                         *)
(* The list is a static of the C program.  Every pass of the boot loop     *)
(* runs lua/fs.lua, which calls libfs_init, so a card is mounted again on  *)
(* top of what was mounted before.  A step is the start of libfs_init, one *)
(* partition, or one call.                                                 *)
(*                                                                         *)
(* A path is a sequence of "(", ")", "/" and names; the name ":", by which *)
(* a device is opened as a file where its file system allows that, which   *)
(* neither FAT nor ext2 does, is left out.                                 *)
(***************************************************************************)
EXTENDS Integers, Sequences

CONSTANTS
    Cards,       \* the cards, each [1 .. 4 -> Kinds]
    NoCard,
    DeviceName,  \* the names of the four partitions
    Dirs, Files, \* what every file system holds: sequences of names
    Paths,       \* what may be opened
    MaxDevNames, \* MAX_DEV_NAMES
    MaxInits     \* bound: mounts of a card

Kinds == {"empty", "fat", "ext2", "damaged", "other"}
Partition == 1 .. 4
Nodes == Dirs \cup Files

IsName(t) == t \notin {"(", ")", "/"}

\* device names end with the number of the partition; what is in a directory
\* of a file system is in the tree of its root
ASSUME MountAssumption ==
    /\ Cards \subseteq [Partition -> Kinds] /\ NoCard \notin Cards
    /\ DeviceName \in [Partition -> {t \in STRING : IsName(t)}]
    /\ \A i, j \in Partition : DeviceName[i] = DeviceName[j] => i = j
    /\ Nodes \subseteq Seq(STRING) /\ <<>> \in Dirs /\ Dirs \cap Files = {}
    /\ \A n \in Nodes \ {<<>>} : SubSeq(n, 1, Len(n) - 1) \in Dirs
    /\ Paths \subseteq Seq(STRING)
    /\ MaxDevNames \in Nat \ {0} /\ MaxInits \in Nat

VARIABLES
    slot,         \* the card in the slot
    first, def,   \* vfs_entry list, newest first, and the default
    names,        \* device_names
    inits,        \* cards initialised so far: which device an entry is on
    table, next,  \* block_0 in read_mbr, and the partition it looks at; 5: done
    opened,       \* the path given to mb_fopen, and what it found
    chosen,       \* history: the entry vfs_set_default chose
    calm          \* history: nothing failed and the card stayed in this mount

vars == <<slot, first, def, names, inits, table, next, opened, chosen, calm>>

NoEntry == [name |-> "", init |-> 0, part |-> 0]
Nothing == [on |-> NoEntry, node |-> <<>>]
NotOpen == [path |-> <<>>, got |-> Nothing]

Init ==
    /\ slot \in Cards \cup {NoCard}
    /\ first = <<>> /\ def = NoEntry /\ names = <<>>
    /\ inits = 0 /\ table = slot /\ next = 5
    /\ opened = NotOpen
    /\ chosen = NoEntry /\ calm = TRUE

-----------------------------------------------------------------------------
(* Mounting *)

\* nothing is open when the mounts change: opened is what the present ones gave
Idle == next = 5 /\ opened = NotOpen

ChangeCard ==
    /\ opened = NotOpen
    /\ slot' \in (Cards \cup {NoCard}) \ {slot}
    /\ calm' = FALSE
    /\ UNCHANGED <<first, def, names, inits, table, next, opened, chosen>>

\* sd_card_init, cache_init and the read of block 0; if one of them fails
\* nothing is mounted
libfs_init ==
    /\ Idle /\ inits < MaxInits
    /\ slot # NoCard
    /\ inits' = inits + 1
    /\ table' = slot /\ next' = 1
    /\ calm' = TRUE
    /\ UNCHANGED <<slot, first, def, names, opened, chosen>>

\* a deviation: the end of the list of names is overrun
HasNameSlotOfAll == Len(names) < MaxDevNames

HasNameSlot == Len(names) < MaxDevNames - 1

ToTheHead(e) == <<e>> \o first

vfs_register(e) ==
    /\ first' = ToTheHead(e)
    /\ names' = IF HasNameSlot THEN Append(names, e.name) ELSE names
    /\ def' = IF def = NoEntry THEN e ELSE def

\* a deviation: the loop ends with the first partition that cannot be used
StopAtFailure == 5

AfterFailure == next + 1

Supported == {"fat", "ext2"}

\* fat_init or ext2_init reads the partition through the card now in the slot
RegisterPartition ==
    /\ next <= 4
    /\ table[next] \in Supported
    /\ slot # NoCard /\ slot[next] = table[next]
    /\ vfs_register([name |-> DeviceName[next], init |-> inits, part |-> next])
    /\ next' = next + 1
    /\ UNCHANGED <<slot, inits, table, opened, chosen, calm>>

\* not in use, not of a type that is supported, or not valid; with the 512-byte
\* blocks of the card every partition begins and ends on a block
SkipPartition ==
    /\ next <= 4
    /\ table[next] \notin Supported
    /\ next' = AfterFailure
    /\ UNCHANGED <<slot, first, def, names, inits, table, opened, chosen, calm>>

PartitionFails ==
    /\ next <= 4
    /\ table[next] \in Supported
    /\ next' = AfterFailure
    /\ calm' = FALSE
    /\ UNCHANGED <<slot, first, def, names, inits, table, opened, chosen>>

-----------------------------------------------------------------------------
(* The list *)

\* the first of the list
find_ve(name) ==
    IF \E k \in 1 .. Len(first) : <<first[k].name>> = name
    THEN first[CHOOSE k \in 1 .. Len(first) :
                  <<first[k].name>> = name /\ \A j \in 1 .. k - 1 : <<first[j].name>> # name]
    ELSE NoEntry

vfs_set_default ==
    /\ Idle
    /\ \E k \in 1 .. Len(first) :
         LET e == find_ve(<<first[k].name>>)
         IN  def' = e /\ chosen' = e
    /\ UNCHANGED <<slot, first, names, inits, table, next, opened, calm>>

-----------------------------------------------------------------------------
(* Paths *)

Begun == [ok |-> TRUE, reading_dev |-> FALSE, dir_start |-> 1, dir_count |-> 0, ve |-> def]

\* a deviation: a name at the end of the path is not counted
CountsInside(p, k) == 0

\* no '/' follows the last name
CountsAtEnd(p, k) == IF k = Len(p) THEN 1 ELSE 0

\* one turn of the first loop of split_dir
Scan(p, k, s) ==
    IF ~s.ok THEN s
    ELSE CASE p[k] = "(" -> IF k = 1 THEN [s EXCEPT !.reading_dev = TRUE] ELSE [s EXCEPT !.ok = FALSE]
           [] p[k] = ")" -> IF ~s.reading_dev THEN [s EXCEPT !.ok = FALSE]
                            ELSE [s EXCEPT !.ve = find_ve(SubSeq(p, 2, k - 1)),
                                           !.reading_dev = FALSE, !.dir_start = k + 1]
           [] p[k] = "/" -> IF s.reading_dev THEN [s EXCEPT !.ok = FALSE]
                            ELSE IF k # s.dir_start THEN [s EXCEPT !.dir_count = @ + 1]
                            ELSE [s EXCEPT !.dir_start = @ + 1]
           [] OTHER -> [s EXCEPT !.dir_count = @ + CountsAtEnd(p, k)]

Scanned(p) ==
    LET after[k \in 0 .. Len(p)] == IF k = 0 THEN Begun ELSE Scan(p, k, after[k - 1])
    IN  after[Len(p)]

\* where the part of the path ends that begins at k
PartEnd(p, k) ==
    LET slashes == {e \in k .. Len(p) : p[e] = "/"}
    IN  IF slashes = {} THEN Len(p) + 1
        ELSE CHOOSE e \in slashes : \A j \in slashes : e <= j

\* the second loop: the parts, each a sequence of its own
Parts(p, s) ==
    LET begin[j \in 1 .. s.dir_count] ==
          IF j = 1 THEN s.dir_start ELSE PartEnd(p, begin[j - 1]) + 1
    IN  [j \in 1 .. s.dir_count |-> SubSeq(p, begin[j], PartEnd(p, begin[j]) - 1)]

\* the directory entries below d that have this name
Lookup(d, part) == {n \in Nodes : Len(part) = 1 /\ n = d \o part}

Walks(d, part) == Lookup(d, part) \cap Dirs

\* read_directory: the set of the directory that the parts lead to
Directory(parts) ==
    LET at[j \in 0 .. Len(parts)] ==
          IF j = 0 THEN {<<>>} ELSE UNION {Walks(d, parts[j]) : d \in at[j - 1]}
    IN  at[Len(parts)]

\* the last part is looked up in the directory of the others
Found(ve, parts) ==
    LET n == Len(parts)
        found == UNION {Lookup(d, parts[n]) : d \in Directory(SubSeq(parts, 1, n - 1))}
    IN  IF found = {} THEN Nothing ELSE [on |-> ve, node |-> CHOOSE f \in found : TRUE]

\* a read of a directory that fails is as if nothing was there, and leaves
\* nothing open: of such a call there is nothing to say
mb_fopen(p) ==
    /\ Idle /\ p # <<>>
    /\ LET s == Scanned(p)
       IN  opened' = [path |-> p,
                      got |-> IF s.ok /\ s.ve # NoEntry /\ s.dir_count > 0
                              THEN Found(s.ve, Parts(p, s)) ELSE Nothing]
    /\ UNCHANGED <<slot, first, def, names, inits, table, next, chosen, calm>>

mb_fclose ==
    /\ opened # NotOpen
    /\ opened' = NotOpen
    /\ UNCHANGED <<slot, first, def, names, inits, table, next, chosen, calm>>

Next ==
    \/ ChangeCard \/ libfs_init
    \/ RegisterPartition \/ SkipPartition \/ PartitionFails
    \/ vfs_set_default
    \/ (\E p \in Paths : mb_fopen(p)) \/ mb_fclose

Spec == Init /\ [][Next]_vars

-----------------------------------------------------------------------------
(* Reference: what a path means *)

\* "(device)" and the rest; without a device the rest is all
DeviceParts(p) == {k \in 2 .. Len(p) : p[1] = "(" /\ p[k] = ")" /\ \A j \in 2 .. k - 1 : IsName(p[j])}

Rest(p) == IF DeviceParts(p) = {} THEN p
           ELSE SubSeq(p, (CHOOSE k \in DeviceParts(p) : TRUE) + 1, Len(p))

\* any number of "/", then names with one "/" between them, and one at the end
IsWellFormed(r) ==
    /\ \A k \in 1 .. Len(r) : r[k] \notin {"(", ")"}
    /\ \A k \in 1 .. Len(r) - 1 :
         /\ ~(IsName(r[k]) /\ IsName(r[k + 1]))
         /\ r[k] = "/" /\ r[k + 1] = "/" => \A j \in 1 .. k : r[j] = "/"

\* its names in their order
Node(p) ==
    LET r == Rest(p)
        names_to[k \in 0 .. Len(r)] ==
          IF k = 0 THEN <<>>
          ELSE IF IsName(r[k]) THEN Append(names_to[k - 1], r[k]) ELSE names_to[k - 1]
    IN  names_to[Len(r)]

\* of those with the name, the one of the latest mount; without a name the
\* one that was chosen, or else the first that was ever mounted
Device(p) ==
    IF DeviceParts(p) = {}
    THEN IF chosen # NoEntry \/ first = <<>> THEN chosen ELSE first[Len(first)]
    ELSE LET named == {k \in 1 .. Len(first) : p[2] = first[k].name /\ p[3] = ")"}
         IN  IF named = {} THEN NoEntry
             ELSE first[CHOOSE k \in named : \A j \in named : first[k].init >= first[j].init]

Meant(p) ==
    IF IsWellFormed(Rest(p)) /\ Device(p) # NoEntry /\ Node(p) # <<>> /\ Node(p) \in Nodes
    THEN [on |-> Device(p), node |-> Node(p)] ELSE Nothing

-----------------------------------------------------------------------------
(* Properties *)

Entries == [name : {DeviceName[i] : i \in Partition}, init : 1 .. inits, part : Partition]

TypeOK ==
    /\ slot \in Cards \cup {NoCard} /\ table \in Cards \cup {NoCard}
    /\ first \in Seq(Entries)
    /\ def \in Entries \cup {NoEntry} /\ chosen \in Entries \cup {NoEntry}
    /\ names \in Seq(STRING) /\ Len(names) < MaxDevNames
    /\ inits \in 0 .. MaxInits /\ next \in 1 .. 5
    /\ opened.path \in Paths \cup {<<>>}
    /\ calm \in BOOLEAN

\* Unless a read fails, mb_fopen finds what the path means, on the device it
\* means, after any number of mounts of any cards, and nothing for any other
\* path.  Code behaviour: split_dir, find_ve, and the walk of read_directory.
OpenFindsFile ==
    opened # NotOpen => opened.got = Meant(opened.path)

\* A mount that nothing disturbs registers every partition it has a file system
\* for, on top of all that was there, whatever lies between them.  Code
\* behaviour: the loop of read_mbr and register_fs.
MountsAll ==
    LET mine == {i \in Partition : table[i] \in Supported}
        new == {k \in 1 .. Len(first) : first[k].init = inits}
    IN  calm /\ inits > 0 /\ next = 5 =>
            /\ {first[k].part : k \in new} = mine
            /\ \A k \in new, j \in 1 .. Len(first) :
                 j < k => j \in new /\ first[j].part > first[k].part
=============================================================================
