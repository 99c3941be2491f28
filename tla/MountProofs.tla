---------------------------- MODULE MountProofs ----------------------------
(***************************************************************************)
(* Proofs about Mount: a mount that nothing disturbs registers all it can, *)
(* and mb_fopen finds what the path means, for any cards, any number of    *)
(* mounts of them and paths of any length.                                 *)
(***************************************************************************)
EXTENDS Mount, Induction

USE MountAssumption

-----------------------------------------------------------------------------
(* The list of file systems *)

EntriesTo(n) == [name : {DeviceName[i] : i \in Partition}, init : 1 .. n, part : Partition]

\* j was mounted after k
After(j, k) == j.init > k.init \/ (j.init = k.init /\ j.part > k.part)

ListOK(list, n) ==
    /\ list \in Seq(EntriesTo(n))
    /\ \A k \in 1 .. Len(list) : list[k].name = DeviceName[list[k].part]
    /\ \A k \in 1 .. Len(list) : \A j \in 1 .. k - 1 : After(list[j], list[k])

\* what the latest mount has registered
NewParts(list, n) == {list[k].part : k \in {j \in 1 .. Len(list) : list[j].init = n}}

DefaultOf(list, choice) ==
    IF choice # NoEntry \/ list = <<>> THEN choice ELSE list[Len(list)]

MountInv ==
    /\ TypeOK
    /\ ListOK(first, inits)
    /\ next <= 4 => inits >= 1 /\ opened = NotOpen
    /\ next <= 4 => \A i \in NewParts(first, inits) : i < next
    /\ calm /\ inits > 0 => NewParts(first, inits) = {i \in 1 .. next - 1 : table[i] \in Supported}
    /\ def = DefaultOf(first, chosen)
    /\ first = <<>> => chosen = NoEntry

\* what is registered is an entry, and its name can be written in a path
LEMMA EntryFields ==
    ASSUME NEW n \in Nat, NEW e \in EntriesTo(n)
    PROVE  /\ e # NoEntry
           /\ e.init \in 1 .. n /\ e.part \in Partition
           /\ e.name \in STRING /\ IsName(e.name)
  <1>1. /\ e.init \in 1 .. n /\ e.part \in Partition
        /\ e.name \in {DeviceName[i] : i \in Partition}
    BY DEF EntriesTo
  <1>2. e.init # NoEntry.init
    BY <1>1 DEF NoEntry
  <1>3. PICK i \in Partition : e.name = DeviceName[i]
    BY <1>1
  <1>4. DeviceName[i] \in {t \in STRING : IsName(t)}
    BY <1>3
  <1> QED
    BY <1>1, <1>2, <1>3, <1>4

\* an earlier mount stays one of the mounts
LEMMA EntriesGrow ==
    ASSUME NEW n \in Nat
    PROVE  EntriesTo(n) \subseteq EntriesTo(n + 1)
  BY DEF EntriesTo

\* every element of the list is an entry
LEMMA ListElement ==
    ASSUME NEW n \in Nat, NEW list, ListOK(list, n)
    PROVE  /\ Len(list) \in Nat
           /\ \A k \in 1 .. Len(list) : list[k] \in EntriesTo(n)
  BY DEF ListOK

EntryOf(n, i) == [name |-> DeviceName[i], init |-> n, part |-> i]

Longer(list, n, i) == <<EntryOf(n, i)>> \o list

\* a partition goes to the head of the list
LEMMA RegisterList ==
    ASSUME NEW n \in Nat \ {0}, NEW list, ListOK(list, n), NEW i \in Partition,
           \A x \in NewParts(list, n) : x < i
    PROVE  /\ EntryOf(n, i) \in EntriesTo(n)
           /\ ListOK(Longer(list, n, i), n)
           /\ NewParts(Longer(list, n, i), n) = NewParts(list, n) \cup {i}
           /\ Longer(list, n, i) # <<>>
  <1> DEFINE e == EntryOf(n, i)
             longer == Longer(list, n, i)
  <1>1. longer = <<e>> \o list /\ e = [name |-> DeviceName[i], init |-> n, part |-> i]
    BY DEF Longer, EntryOf
  <1> HIDE DEF e, longer
  <1>2. e \in EntriesTo(n)
    BY <1>1 DEF EntriesTo
  <1>3. Len(list) \in Nat /\ \A k \in 1 .. Len(list) : list[k] \in EntriesTo(n)
    BY ListElement
  <1>4. longer \in Seq(EntriesTo(n)) /\ Len(longer) = Len(list) + 1
    BY <1>1, <1>2, <1>3 DEF ListOK
  <1>5. longer[1] = e /\ \A k \in 2 .. Len(longer) : longer[k] = list[k - 1]
    BY <1>1, <1>2, <1>3 DEF ListOK
  <1>6. \A k \in 1 .. Len(longer) : k = 1 \/ (k - 1 \in 1 .. Len(list) /\ k \in 2 .. Len(longer))
    <2>1. Len(list) \in Nat /\ Len(longer) = Len(list) + 1
      BY <1>3, <1>4
    <2> QED
      BY <2>1
  <1>7. ASSUME NEW k \in 1 .. Len(longer) PROVE longer[k].name = DeviceName[longer[k].part]
    <2>1. CASE k = 1
      BY <1>1, <1>5, <2>1
    <2>2. CASE k # 1
      <3>1. k - 1 \in 1 .. Len(list) /\ k \in 2 .. Len(longer)
        BY <1>6, <2>2
      <3>2. longer[k] = list[k - 1]
        BY <1>5, <3>1
      <3>3. list[k - 1].name = DeviceName[list[k - 1].part]
        BY <3>1 DEF ListOK
      <3> QED
        BY <3>2, <3>3
    <2> QED
      BY <2>1, <2>2
  <1>8. \A k \in 1 .. Len(list) : After(e, list[k])
    <2> SUFFICES ASSUME NEW k \in 1 .. Len(list) PROVE After(e, list[k])
      OBVIOUS
    <2>1. list[k].init \in 1 .. n /\ list[k].part \in Partition
      BY <1>3, EntryFields
    <2>2. list[k].init = n => list[k].part \in NewParts(list, n)
      BY DEF NewParts
    <2>3. list[k].init = n => list[k].part < i
      BY <2>2
    <2>4. e.init = n /\ e.part = i
      BY <1>1
    <2> QED
      BY <2>1, <2>3, <2>4 DEF After, Partition
  <1>9. ASSUME NEW k \in 1 .. Len(longer), NEW j \in 1 .. k - 1
        PROVE  After(longer[j], longer[k])
    <2>1. k # 1 /\ k - 1 \in 1 .. Len(list) /\ longer[k] = list[k - 1]
      BY <1>4, <1>5, <1>6
    <2>2. CASE j = 1
      BY <1>5, <1>8, <2>1, <2>2
    <2>3. CASE j # 1
      <3>1. j \in 2 .. Len(longer) /\ j - 1 \in 1 .. (k - 1) - 1
        BY <1>3, <1>4, <2>3
      <3>2. longer[j] = list[j - 1]
        BY <1>5, <3>1
      <3> QED
        BY <2>1, <3>1, <3>2 DEF ListOK
    <2> QED
      BY <2>2, <2>3
  <1>10. ListOK(longer, n)
    BY <1>4, <1>7, <1>9 DEF ListOK
  <1>11. NewParts(longer, n) = NewParts(list, n) \cup {i}
    <2>1. ASSUME NEW x \in NewParts(longer, n) PROVE x \in NewParts(list, n) \cup {i}
      <3>1. PICK k \in 1 .. Len(longer) : longer[k].init = n /\ x = longer[k].part
        BY <2>1 DEF NewParts
      <3>2. CASE k = 1
        BY <1>1, <1>5, <3>1, <3>2
      <3>3. CASE k # 1
        <4>1. k - 1 \in 1 .. Len(list) /\ longer[k] = list[k - 1]
          BY <1>5, <1>6, <3>3
        <4> QED
          BY <3>1, <4>1 DEF NewParts
      <3> QED
        BY <3>2, <3>3
    <2>2. i \in NewParts(longer, n)
      <3>1. 1 \in 1 .. Len(longer) /\ longer[1].init = n /\ longer[1].part = i
        BY <1>1, <1>3, <1>4, <1>5
      <3> QED
        BY <3>1 DEF NewParts
    <2>3. ASSUME NEW x \in NewParts(list, n) PROVE x \in NewParts(longer, n)
      <3>1. PICK k \in 1 .. Len(list) : list[k].init = n /\ x = list[k].part
        BY <2>3 DEF NewParts
      <3>2. k + 1 \in 2 .. Len(longer) /\ k + 1 \in 1 .. Len(longer) /\ (k + 1) - 1 = k
        BY <1>3, <1>4
      <3>3. longer[k + 1] = list[k]
        BY <1>5, <3>2
      <3> QED
        BY <3>1, <3>2, <3>3 DEF NewParts
    <2> QED
      BY <2>1, <2>2, <2>3
  <1>12. longer # <<>>
    BY <1>3, <1>4
  <1> QED
    BY <1>2, <1>10, <1>11, <1>12 DEF e, longer

\* the default is set by the first that is registered
LEMMA RegisterDefault ==
    ASSUME NEW n \in Nat, NEW list \in Seq(EntriesTo(n)), NEW e \in EntriesTo(n),
           NEW choice, list = <<>> => choice = NoEntry,
           NEW d, d = DefaultOf(list, choice)
    PROVE  (IF d = NoEntry THEN e ELSE d) = DefaultOf(<<e>> \o list, choice)
  <1> DEFINE longer == <<e>> \o list
             l == Len(list)
  <1>1. l \in Nat /\ \A k \in 1 .. l : list[k] \in EntriesTo(n)
    OBVIOUS
  <1>2. Len(longer) = l + 1 /\ longer[1] = e /\ \A k \in 2 .. l + 1 : longer[k] = list[k - 1]
    BY <1>1
  <1>3. longer # <<>>
    BY <1>1, <1>2
  <1> HIDE DEF longer
  <1>4. CASE choice # NoEntry
    BY <1>4 DEF DefaultOf
  <1>5. CASE choice = NoEntry /\ list = <<>>
    <2>1. d = NoEntry
      BY <1>5 DEF DefaultOf
    <2>2. longer[Len(longer)] = e
      BY <1>2, <1>5
    <2> QED
      BY <1>3, <1>5, <2>1, <2>2 DEF DefaultOf
  <1>6. CASE choice = NoEntry /\ list # <<>>
    <2>1. l \in 1 .. l
      BY <1>1, <1>6
    <2>2. d = list[l] /\ d # NoEntry
      BY <1>1, <1>6, <2>1, EntryFields DEF DefaultOf
    <2>3. l + 1 \in 2 .. l + 1 /\ (l + 1) - 1 = l
      BY <2>1
    <2>4. longer[Len(longer)] = list[l]
      BY <1>2, <2>3
    <2> QED
      BY <1>3, <1>6, <2>2, <2>4 DEF DefaultOf
  <1> QED
    BY <1>4, <1>5, <1>6 DEF longer

\* before the first partition of a mount nothing of it is registered
LEMMA NextMount ==
    ASSUME NEW n \in Nat, NEW list, ListOK(list, n)
    PROVE  ListOK(list, n + 1) /\ NewParts(list, n + 1) = {}
  <1>1. Len(list) \in Nat /\ \A k \in 1 .. Len(list) : list[k] \in EntriesTo(n)
    BY ListElement
  <1>2. list \in Seq(EntriesTo(n + 1))
    <2>1. list \in Seq(EntriesTo(n))
      BY DEF ListOK
    <2> QED
      BY <2>1, EntriesGrow
  <1>3. ListOK(list, n + 1)
    BY <1>2 DEF ListOK
  <1>4. \A k \in 1 .. Len(list) : list[k].init # n + 1
    BY <1>1, EntryFields
  <1> QED
    BY <1>3, <1>4 DEF NewParts

-----------------------------------------------------------------------------
(* Finding an entry *)

IsNamed(list, k, name) == k \in 1 .. Len(list) /\ <<list[k].name>> = name

\* find_ve gives the first of the list that has the name
LEMMA FindsFirst ==
    ASSUME NEW name, NEW i, IsNamed(first, i, name), first \in Seq(Entries)
    PROVE  \E k \in 1 .. Len(first) :
             /\ IsNamed(first, k, name) /\ find_ve(name) = first[k]
             /\ \A j \in 1 .. k - 1 : ~IsNamed(first, j, name)
  <1> DEFINE S == {k \in Nat : IsNamed(first, k, name)}
             IsLeast(k) == k \in 1 .. Len(first) /\ <<first[k].name>> = name
                           /\ \A j \in 1 .. k - 1 : <<first[j].name>> # name
  <1>1. Len(first) \in Nat
    OBVIOUS
  <1>2. i \in S
    BY <1>1 DEF IsNamed
  <1>3. PICK m \in S : \A n \in S : m <= n
    BY <1>2, LeastExists
  <1>4. IsLeast(m)
    <2>1. m \in 1 .. Len(first) /\ <<first[m].name>> = name
      BY <1>3 DEF IsNamed
    <2>2. ASSUME NEW j \in 1 .. m - 1 PROVE <<first[j].name>> # name
      <3>1. j \notin S /\ j \in Nat /\ j \in 1 .. Len(first)
        BY <1>1, <1>3, <2>1
      <3> QED
        BY <3>1 DEF IsNamed
    <2> QED
      BY <2>1, <2>2
  <1> DEFINE c == CHOOSE k \in 1 .. Len(first) :
                    <<first[k].name>> = name /\ \A j \in 1 .. k - 1 : <<first[j].name>> # name
  <1>5. IsLeast(c)
    <2>1. \E k \in 1 .. Len(first) :
            <<first[k].name>> = name /\ \A j \in 1 .. k - 1 : <<first[j].name>> # name
      BY <1>4
    <2> QED
      BY <2>1
  <1>6. find_ve(name) = first[c]
    BY <1>4 DEF find_ve
  <1> HIDE DEF c
  <1>7. \A j \in 1 .. c - 1 : ~IsNamed(first, j, name)
    BY <1>5 DEF IsNamed
  <1> QED
    BY <1>5, <1>6, <1>7 DEF IsNamed

\* and nothing if none has it
LEMMA FindsNone ==
    ASSUME NEW name, \A k \in 1 .. Len(first) : ~IsNamed(first, k, name)
    PROVE  find_ve(name) = NoEntry
  BY DEF find_ve, IsNamed

-----------------------------------------------------------------------------
(* The invariant *)

\* the entries of the type invariant
LEMMA EntriesAre == Entries = EntriesTo(inits)
  BY DEF Entries, EntriesTo

\* before the first mount the list is empty
LEMMA InitInv == Init => MountInv
  <1> SUFFICES ASSUME Init PROVE MountInv
    OBVIOUS
  <1>1. TypeOK
    <2>1. first \in Seq(Entries) /\ names \in Seq(STRING) /\ Len(names) < MaxDevNames
      BY DEF Init
    <2>2. opened.path \in Paths \cup {<<>>}
      BY DEF Init, NotOpen
    <2> QED
      BY <2>1, <2>2 DEF Init, TypeOK
  <1>2. ListOK(first, inits)
    BY DEF Init, ListOK
  <1>3. def = DefaultOf(first, chosen)
    BY DEF Init, DefaultOf
  <1> QED
    BY <1>1, <1>2, <1>3 DEF Init, MountInv

\* the list and what is known of it stay
LEMMA ListStays ==
    ASSUME MountInv, UNCHANGED <<first, def, names, inits, chosen>>,
           slot' \in Cards \cup {NoCard}, table' = table, next' = next,
           calm' \in BOOLEAN, calm' => calm,
           opened'.path \in Paths \cup {<<>>}, next <= 4 => opened' = NotOpen
    PROVE  MountInv'
  <1>1. TypeOK'
    BY DEF MountInv, TypeOK, Entries
  <1> QED
    BY <1>1 DEF MountInv

\* changing the card leaves the list as it is
LEMMA ChangeCardInv == MountInv /\ ChangeCard => MountInv'
  <1> SUFFICES ASSUME MountInv, ChangeCard PROVE MountInv'
    OBVIOUS
  <1>1. opened'.path \in Paths \cup {<<>>}
    BY DEF ChangeCard, MountInv, TypeOK
  <1> QED
    BY <1>1, ListStays DEF ChangeCard

\* libfs_init begins a mount of which nothing is registered
LEMMA MountStartInv == MountInv /\ libfs_init => MountInv'
  <1> SUFFICES ASSUME MountInv, libfs_init PROVE MountInv'
    OBVIOUS
  <1>1. /\ inits \in Nat /\ inits + 1 \in 0 .. MaxInits /\ inits' = inits + 1
        /\ table' = slot /\ next' = 1 /\ calm' = TRUE /\ opened = NotOpen
        /\ UNCHANGED <<slot, first, def, names, opened, chosen>>
    BY DEF libfs_init, Idle, MountInv, TypeOK
  <1>2. ListOK(first, inits + 1) /\ NewParts(first, inits + 1) = {}
    BY <1>1, NextMount DEF MountInv
  <1>3. TypeOK'
    <2>1. Entries' = EntriesTo(inits + 1)
      BY <1>1 DEF Entries, EntriesTo
    <2>2. Entries \subseteq Entries'
      BY <1>1, <2>1, EntriesAre, EntriesGrow
    <2>3. first' \in Seq(Entries')
      BY <1>1, <1>2, <2>1 DEF ListOK
    <2>4. def' \in Entries' \cup {NoEntry} /\ chosen' \in Entries' \cup {NoEntry}
      BY <1>1, <2>2 DEF MountInv, TypeOK
    <2>5. next' \in 1 .. 5
      BY <1>1
    <2> QED
      BY <1>1, <2>3, <2>4, <2>5 DEF MountInv, TypeOK
  <1>4. {i \in 1 .. next' - 1 : table'[i] \in Supported} = {}
    BY <1>1
  <1>5. NewParts(first', inits') = {}
    BY <1>1, <1>2
  <1>6. ListOK(first', inits')
    BY <1>1, <1>2
  <1>7. def' = DefaultOf(first', chosen') /\ (first' = <<>> => chosen' = NoEntry)
    BY <1>1 DEF MountInv
  <1>8. inits' >= 1
    BY <1>1
  <1> QED
    BY <1>1, <1>3, <1>4, <1>5, <1>6, <1>7, <1>8 DEF MountInv

\* from one partition to the next
LEMMA NextPartition ==
    ASSUME MountInv, next <= 4
    PROVE  /\ next \in Partition /\ next + 1 \in 1 .. 5 /\ inits \in Nat \ {0}
           /\ (next + 1) - 1 = next
           /\ \A t : {i \in 1 .. next : t[i] \in Supported}
                       = {i \in 1 .. next - 1 : t[i] \in Supported}
                         \cup (IF t[next] \in Supported THEN {next} ELSE {})
  <1>1. next \in 1 .. 5 /\ inits \in Nat /\ inits >= 1
    BY DEF MountInv, TypeOK
  <1>2. 1 .. next = (1 .. next - 1) \cup {next}
    BY <1>1
  <1> QED
    BY <1>1, <1>2 DEF Partition

\* fat_init or ext2_init registers its partition at the head
LEMMA RegisterPartitionInv == MountInv /\ RegisterPartition => MountInv'
  <1> SUFFICES ASSUME MountInv, RegisterPartition PROVE MountInv'
    OBVIOUS
  <1> DEFINE e == EntryOf(inits, next)
  <1>1. /\ next <= 4 /\ table[next] \in Supported
        /\ next' = next + 1
        /\ UNCHANGED <<slot, inits, table, opened, chosen, calm>>
        /\ vfs_register(e)
    BY DEF RegisterPartition, EntryOf
  <1>2. /\ first' = <<e>> \o first
        /\ names' = IF HasNameSlot THEN Append(names, e.name) ELSE names
        /\ def' = IF def = NoEntry THEN e ELSE def
    BY <1>1 DEF vfs_register, ToTheHead
  <1>3. /\ next \in Partition /\ next + 1 \in 1 .. 5 /\ inits \in Nat \ {0}
        /\ (next + 1) - 1 = next
    BY <1>1, NextPartition
  <1>4. ListOK(first, inits) /\ \A x \in NewParts(first, inits) : x < next
    BY <1>1 DEF MountInv
  <1>5. e.name \in STRING
    BY <1>3 DEF EntryOf
  <1>6. first' = Longer(first, inits, next)
    BY <1>2 DEF Longer
  <1>7. /\ e \in EntriesTo(inits)
        /\ ListOK(first', inits)
        /\ NewParts(first', inits) = NewParts(first, inits) \cup {next}
        /\ first' # <<>>
    BY <1>3, <1>4, <1>6, RegisterList
  <1> HIDE DEF e
  <1>8. def' = DefaultOf(first', chosen')
    <2>1. /\ inits \in Nat /\ first \in Seq(EntriesTo(inits))
          /\ first = <<>> => chosen = NoEntry
          /\ def = DefaultOf(first, chosen)
      BY <1>3, <1>4 DEF MountInv, ListOK
    <2>2. (IF def = NoEntry THEN e ELSE def) = DefaultOf(<<e>> \o first, chosen)
      BY <1>7, <2>1, RegisterDefault
    <2> QED
      BY <1>1, <1>2, <2>2
  <1>9. TypeOK'
    <2>1. Entries' = EntriesTo(inits) /\ Entries = EntriesTo(inits)
      BY <1>1, EntriesAre DEF Entries, EntriesTo
    <2>2. first' \in Seq(Entries')
      BY <1>7, <2>1 DEF ListOK
    <2>3. def' \in Entries' \cup {NoEntry} /\ chosen' \in Entries' \cup {NoEntry}
      BY <1>1, <1>2, <1>7, <2>1 DEF MountInv, TypeOK
    <2>4. names' \in Seq(STRING) /\ Len(names') < MaxDevNames
      <3>1. names \in Seq(STRING) /\ Len(names) < MaxDevNames
        BY DEF MountInv, TypeOK
      <3>2. CASE HasNameSlot
        <4>1. Append(names, e.name) \in Seq(STRING) /\ Len(Append(names, e.name)) = Len(names) + 1
          BY <1>5, <3>1
        <4> QED
          BY <1>2, <3>1, <3>2, <4>1 DEF HasNameSlot
      <3>3. CASE ~HasNameSlot
        BY <1>2, <3>1, <3>3
      <3> QED
        BY <3>2, <3>3
    <2> QED
      BY <1>1, <1>3, <2>2, <2>3, <2>4 DEF MountInv, TypeOK
  <1>10. \A x \in NewParts(first', inits) : x < next + 1
    <2>1. \A x \in NewParts(first, inits) : x < next /\ x \in Int
      <3>1. \A x \in NewParts(first, inits) : x \in Partition
        BY <1>3, <1>4, ListElement, EntryFields DEF NewParts
      <3> QED
        BY <1>4, <3>1 DEF Partition
    <2> QED
      BY <1>3, <1>7, <2>1 DEF Partition
  <1>11. calm => NewParts(first', inits) = {i \in 1 .. next : table[i] \in Supported}
    BY <1>1, <1>3, <1>7, NextPartition DEF MountInv
  <1> QED
    BY <1>1, <1>3, <1>7, <1>8, <1>9, <1>10, <1>11 DEF MountInv

\* a partition is left out, calmly only if there is no file system for it
LEMMA LeaveOut ==
    ASSUME MountInv, next <= 4, next' = next + 1, calm' \in BOOLEAN,
           calm' => calm /\ table[next] \notin Supported,
           UNCHANGED <<slot, first, def, names, inits, table, opened, chosen>>
    PROVE  MountInv'
  <1>1. /\ next \in Partition /\ next + 1 \in 1 .. 5 /\ inits \in Nat \ {0}
        /\ (next + 1) - 1 = next
    BY NextPartition
  <1>2. TypeOK'
    BY <1>1 DEF MountInv, TypeOK, Entries
  <1>3. \A x \in NewParts(first, inits) : x < next + 1
    <2>1. \A x \in NewParts(first, inits) : x < next
      BY DEF MountInv
    <2>2. \A x \in NewParts(first, inits) : x \in Partition
      BY <1>1, ListElement, EntryFields DEF NewParts, MountInv
    <2> QED
      BY <1>1, <2>1, <2>2 DEF Partition
  <1>4. calm' => NewParts(first, inits) = {i \in 1 .. next : table[i] \in Supported}
    BY <1>1, NextPartition DEF MountInv
  <1> QED
    BY <1>1, <1>2, <1>3, <1>4 DEF MountInv

\* vfs_set_default chooses an entry of the list
LEMMA SetDefaultInv == MountInv /\ vfs_set_default => MountInv'
  <1> SUFFICES ASSUME MountInv, vfs_set_default PROVE MountInv'
    OBVIOUS
  <1>1. PICK k \in 1 .. Len(first) :
          def' = find_ve(<<first[k].name>>) /\ chosen' = find_ve(<<first[k].name>>)
    BY DEF vfs_set_default
  <1>2. UNCHANGED <<slot, first, names, inits, table, next, opened, calm>>
    BY DEF vfs_set_default
  <1>3. first \in Seq(Entries) /\ Entries = EntriesTo(inits) /\ inits \in Nat
    BY EntriesAre DEF MountInv, TypeOK
  <1>4. IsNamed(first, k, <<first[k].name>>)
    BY DEF IsNamed
  <1>5. PICK m \in 1 .. Len(first) : find_ve(<<first[k].name>>) = first[m]
    BY <1>3, <1>4, FindsFirst
  <1>6. first[m] \in Entries /\ first[m] # NoEntry
    BY <1>3, EntryFields
  <1>7. def' \in Entries /\ def' = chosen' /\ chosen' # NoEntry
    BY <1>1, <1>5, <1>6
  <1>8. TypeOK'
    BY <1>2, <1>7 DEF MountInv, TypeOK, Entries
  <1>9. def' = DefaultOf(first', chosen')
    BY <1>7 DEF DefaultOf
  <1>10. first' # <<>>
    BY <1>1, <1>2, <1>3
  <1> QED
    BY <1>2, <1>8, <1>9, <1>10 DEF MountInv

\* mb_fopen leaves the list as it is
LEMMA OpenInv == ASSUME MountInv, NEW p \in Paths, mb_fopen(p) PROVE MountInv'
  <1>1. opened'.path \in Paths \cup {<<>>}
    BY DEF mb_fopen
  <1>2. ~(next <= 4)
    BY DEF mb_fopen, Idle
  <1>3. UNCHANGED <<slot, first, def, names, inits, table, next, chosen, calm>>
    BY DEF mb_fopen
  <1>4. slot' \in Cards \cup {NoCard} /\ calm' \in BOOLEAN
    BY <1>3 DEF MountInv, TypeOK
  <1> QED
    BY <1>1, <1>2, <1>3, <1>4, ListStays

\* and so does mb_fclose
LEMMA CloseInv == MountInv /\ mb_fclose => MountInv'
  <1> SUFFICES ASSUME MountInv, mb_fclose PROVE MountInv'
    OBVIOUS
  <1>1. opened'.path \in Paths \cup {<<>>} /\ opened' = NotOpen
    BY DEF mb_fclose, NotOpen
  <1>2. UNCHANGED <<slot, first, def, names, inits, table, next, chosen, calm>>
    BY DEF mb_fclose
  <1>3. slot' \in Cards \cup {NoCard} /\ calm' \in BOOLEAN
    BY <1>2 DEF MountInv, TypeOK
  <1> QED
    BY <1>1, <1>2, <1>3, ListStays

\* The list is in the order of the mounts and of their partitions, a mount has
\* registered what it has passed, and the default is the choice or the last of
\* the list: read_mbr, vfs_register and vfs_set_default, whatever fails.
THEOREM MountInvariant == Spec => []MountInv
  <1>1. Init => MountInv
    BY InitInv
  <1>2. MountInv /\ [Next]_vars => MountInv'
    <2> SUFFICES ASSUME MountInv, [Next]_vars PROVE MountInv'
      OBVIOUS
    <2>1. CASE ChangeCard
      BY <2>1, ChangeCardInv
    <2>2. CASE libfs_init
      BY <2>2, MountStartInv
    <2>3. CASE RegisterPartition
      BY <2>3, RegisterPartitionInv
    <2>4. CASE SkipPartition
      <3>1. calm' = calm /\ calm \in BOOLEAN
        BY <2>4 DEF SkipPartition, MountInv, TypeOK
      <3> QED
        BY <2>4, <3>1, LeaveOut DEF SkipPartition, AfterFailure
    <2>5. CASE PartitionFails
      BY <2>5, LeaveOut DEF PartitionFails, AfterFailure
    <2>6. CASE vfs_set_default
      BY <2>6, SetDefaultInv
    <2>7. CASE \E p \in Paths : mb_fopen(p)
      BY <2>7, OpenInv
    <2>8. CASE mb_fclose
      BY <2>8, CloseInv
    <2>9. CASE UNCHANGED vars
      <3>1. TypeOK'
        BY <2>9 DEF vars, MountInv, TypeOK, Entries
      <3> QED
        BY <2>9, <3>1 DEF vars, MountInv
    <2> QED
      BY <2>1, <2>2, <2>3, <2>4, <2>5, <2>6, <2>7, <2>8, <2>9 DEF Next
  <1> QED
    BY <1>1, <1>2, PTL DEF Spec

\* Every variable keeps its type; device_names is never overrun.
THEOREM MountTypeCorrect == Spec => []TypeOK
  <1>1. MountInv => TypeOK
    BY DEF MountInv
  <1> QED
    BY <1>1, MountInvariant, PTL

\* A calm mount registers every supported partition, on top of what was there:
\* the loop of read_mbr, for any card and any number of mounts.
THEOREM MountsAllHolds == Spec => []MountsAll
  <1>1. MountInv => MountsAll
    <2> SUFFICES ASSUME MountInv, calm, inits > 0, next = 5
                 PROVE  LET mine == {i \in Partition : table[i] \in Supported}
                            new == {k \in 1 .. Len(first) : first[k].init = inits}
                        IN  /\ {first[k].part : k \in new} = mine
                            /\ \A k \in new, j \in 1 .. Len(first) :
                                 j < k => j \in new /\ first[j].part > first[k].part
      BY DEF MountsAll
    <2> DEFINE new == {k \in 1 .. Len(first) : first[k].init = inits}
    <2>1. {first[k].part : k \in new} = {i \in Partition : table[i] \in Supported}
      <3>1. NewParts(first, inits) = {i \in 1 .. next - 1 : table[i] \in Supported}
        BY DEF MountInv
      <3>2. NewParts(first, inits) = {first[k].part : k \in new}
        BY DEF NewParts
      <3>3. 1 .. next - 1 = Partition
        BY DEF Partition
      <3> QED
        BY <3>1, <3>2, <3>3
    <2>2. ASSUME NEW k \in new, NEW j \in 1 .. Len(first), j < k
          PROVE  j \in new /\ first[j].part > first[k].part
      <3>1. ListOK(first, inits) /\ inits \in Nat
        BY DEF MountInv, TypeOK
      <3>2. j \in 1 .. k - 1
        BY <2>2
      <3>3. After(first[j], first[k])
        BY <3>1, <3>2 DEF ListOK
      <3>4. first[j].init \in 1 .. inits /\ first[k].init = inits
        BY <3>1, ListElement, EntryFields
      <3> QED
        BY <3>1, <3>3, <3>4 DEF After
    <2> QED
      BY <2>1, <2>2
  <1> QED
    BY <1>1, MountInvariant, PTL

HIDE MountAssumption

-----------------------------------------------------------------------------
(* The first loop of split_dir, token by token *)

\* the file system that is named when the device ends at k
DeviceAt(p, k) == find_ve(SubSeq(p, 2, k - 1))

\* the file systems that the path may lead to
Devices(p) == {def} \cup {DeviceAt(p, k) : k \in 1 .. Len(p)}

ScanStates(p) ==
    [ok : BOOLEAN, reading_dev : BOOLEAN, dir_start : Int, dir_count : Int, ve : Devices(p)]

State(ok, reading_dev, dir_start, dir_count, ve) ==
    [ok |-> ok, reading_dev |-> reading_dev, dir_start |-> dir_start,
     dir_count |-> dir_count, ve |-> ve]

AfterOf(p) ==
    CHOOSE f : f = [k \in 0 .. Len(p) |-> IF k = 0 THEN Begun ELSE Scan(p, k, f[k - 1])]

\* the loop ends with its last turn
LEMMA ScannedIs == ASSUME NEW p PROVE Scanned(p) = AfterOf(p)[Len(p)]
  BY DEF Scanned, AfterOf

\* a state is its five fields
LEMMA StateFields ==
    ASSUME NEW p, NEW s \in ScanStates(p)
    PROVE  /\ s = State(s.ok, s.reading_dev, s.dir_start, s.dir_count, s.ve)
           /\ s.ok \in BOOLEAN /\ s.reading_dev \in BOOLEAN
           /\ s.dir_start \in Int /\ s.dir_count \in Int /\ s.ve \in Devices(p)
  BY DEF ScanStates, State

\* and five fields are a state
LEMMA IsState ==
    ASSUME NEW p, NEW ok \in BOOLEAN, NEW rd \in BOOLEAN, NEW ds \in Int, NEW dc \in Int,
           NEW ve \in Devices(p)
    PROVE  /\ State(ok, rd, ds, dc, ve) \in ScanStates(p)
           /\ State(ok, rd, ds, dc, ve).ok = ok
           /\ State(ok, rd, ds, dc, ve).reading_dev = rd
           /\ State(ok, rd, ds, dc, ve).dir_start = ds
           /\ State(ok, rd, ds, dc, ve).dir_count = dc
           /\ State(ok, rd, ds, dc, ve).ve = ve
  BY DEF ScanStates, State

\* a failure ends the loop
LEMMA ScanFailed ==
    ASSUME NEW p, NEW k, NEW s, ~s.ok
    PROVE  Scan(p, k, s) = s
  BY DEF Scan

\* a device may begin only at the start
LEMMA ScanOpen ==
    ASSUME NEW p, NEW k, NEW s \in ScanStates(p), s.ok, p[k] = "("
    PROVE  /\ k = 1 => Scan(p, k, s) = State(s.ok, TRUE, s.dir_start, s.dir_count, s.ve)
           /\ k # 1 => Scan(p, k, s) = State(FALSE, s.reading_dev, s.dir_start, s.dir_count, s.ve)
  BY DEF Scan, State, ScanStates

\* and ends with a parenthesis
LEMMA ScanClose ==
    ASSUME NEW p, NEW k, NEW s \in ScanStates(p), s.ok, p[k] = ")"
    PROVE  /\ ~s.reading_dev =>
                Scan(p, k, s) = State(FALSE, s.reading_dev, s.dir_start, s.dir_count, s.ve)
           /\ s.reading_dev =>
                Scan(p, k, s) = State(s.ok, FALSE, k + 1, s.dir_count, DeviceAt(p, k))
  BY DEF Scan, State, ScanStates, DeviceAt

\* a slash ends a part or moves the start
LEMMA ScanSlash ==
    ASSUME NEW p, NEW k, NEW s \in ScanStates(p), s.ok, p[k] = "/"
    PROVE  /\ s.reading_dev =>
                Scan(p, k, s) = State(FALSE, s.reading_dev, s.dir_start, s.dir_count, s.ve)
           /\ ~s.reading_dev /\ k # s.dir_start =>
                Scan(p, k, s) = State(s.ok, s.reading_dev, s.dir_start, s.dir_count + 1, s.ve)
           /\ ~s.reading_dev /\ k = s.dir_start =>
                Scan(p, k, s) = State(s.ok, s.reading_dev, s.dir_start + 1, s.dir_count, s.ve)
  BY DEF Scan, State, ScanStates

\* a name counts if nothing follows it
LEMMA ScanName ==
    ASSUME NEW p, NEW k, NEW s \in ScanStates(p), s.ok, IsName(p[k])
    PROVE  Scan(p, k, s) = State(s.ok, s.reading_dev, s.dir_start,
                                 s.dir_count + CountsAtEnd(p, k), s.ve)
  BY DEF Scan, State, ScanStates, IsName

\* a turn leads from state to state
LEMMA ScanType ==
    ASSUME NEW p, NEW k \in 1 .. Len(p), NEW s \in ScanStates(p)
    PROVE  Scan(p, k, s) \in ScanStates(p)
  <1>1. DeviceAt(p, k) \in Devices(p)
    BY DEF Devices
  <1>2. CountsAtEnd(p, k) \in Int
    BY DEF CountsAtEnd
  <1>3. /\ s.ok \in BOOLEAN /\ s.reading_dev \in BOOLEAN
        /\ s.dir_start \in Int /\ s.dir_count \in Int /\ s.ve \in Devices(p)
        /\ k + 1 \in Int /\ s.dir_start + 1 \in Int /\ s.dir_count + 1 \in Int
        /\ s.dir_count + CountsAtEnd(p, k) \in Int
    BY <1>2, StateFields
  <1>4. CASE ~s.ok
    BY <1>4, ScanFailed
  <1>5. CASE s.ok /\ p[k] = "("
    <2>1. \/ Scan(p, k, s) = State(s.ok, TRUE, s.dir_start, s.dir_count, s.ve)
          \/ Scan(p, k, s) = State(FALSE, s.reading_dev, s.dir_start, s.dir_count, s.ve)
      BY <1>5, ScanOpen
    <2>2. /\ State(s.ok, TRUE, s.dir_start, s.dir_count, s.ve) \in ScanStates(p)
          /\ State(FALSE, s.reading_dev, s.dir_start, s.dir_count, s.ve) \in ScanStates(p)
      BY <1>1, <1>3, IsState
    <2> QED
      BY <2>1, <2>2
  <1>6. CASE s.ok /\ p[k] = ")"
    <2>1. \/ Scan(p, k, s) = State(FALSE, s.reading_dev, s.dir_start, s.dir_count, s.ve)
          \/ Scan(p, k, s) = State(s.ok, FALSE, k + 1, s.dir_count, DeviceAt(p, k))
      BY <1>6, ScanClose
    <2>2. /\ State(FALSE, s.reading_dev, s.dir_start, s.dir_count, s.ve) \in ScanStates(p)
          /\ State(s.ok, FALSE, k + 1, s.dir_count, DeviceAt(p, k)) \in ScanStates(p)
      BY <1>1, <1>3, IsState
    <2> QED
      BY <2>1, <2>2
  <1>7. CASE s.ok /\ p[k] = "/"
    <2>1. \/ Scan(p, k, s) = State(FALSE, s.reading_dev, s.dir_start, s.dir_count, s.ve)
          \/ Scan(p, k, s) = State(s.ok, s.reading_dev, s.dir_start, s.dir_count + 1, s.ve)
          \/ Scan(p, k, s) = State(s.ok, s.reading_dev, s.dir_start + 1, s.dir_count, s.ve)
      BY <1>7, ScanSlash
    <2>2. State(FALSE, s.reading_dev, s.dir_start, s.dir_count, s.ve) \in ScanStates(p)
      BY <1>3, IsState
    <2>3. State(s.ok, s.reading_dev, s.dir_start, s.dir_count + 1, s.ve) \in ScanStates(p)
      BY <1>3, IsState
    <2>4. State(s.ok, s.reading_dev, s.dir_start + 1, s.dir_count, s.ve) \in ScanStates(p)
      BY <1>3, IsState
    <2> QED
      BY <2>1, <2>2, <2>3, <2>4
  <1>8. CASE s.ok /\ IsName(p[k])
    <2>1. Scan(p, k, s) = State(s.ok, s.reading_dev, s.dir_start, s.dir_count + CountsAtEnd(p, k), s.ve)
      BY <1>8, ScanName
    <2>2. State(s.ok, s.reading_dev, s.dir_start, s.dir_count + CountsAtEnd(p, k), s.ve) \in ScanStates(p)
      BY <1>1, <1>3, IsState
    <2> QED
      BY <2>1, <2>2
  <1> QED
    BY <1>4, <1>5, <1>6, <1>7, <1>8 DEF IsName

\* the loop begins with Begun and goes on turn by turn
LEMMA AfterSteps ==
    ASSUME NEW p, Len(p) \in Nat
    PROVE  /\ AfterOf(p)[0] = Begun
           /\ \A k \in 1 .. Len(p) : AfterOf(p)[k] = Scan(p, k, AfterOf(p)[k - 1])
           /\ \A k \in 0 .. Len(p) : AfterOf(p)[k] \in ScanStates(p)
  <1> DEFINE D == ScanStates(p)
             L == Len(p)
             H == [y \in (1 .. L) \X D |-> Scan(p, y[1], y[2])]
             R(f) == [k \in 0 .. L |-> IF k = 0 THEN Begun ELSE Scan(p, k, f[k - 1])]
  <1>1. Begun \in D
    BY DEF Begun, ScanStates, Devices
  <1>2. \A k \in 1 .. L, x \in D : Scan(p, k, x) \in D
    BY ScanType
  <1>3. \A k \in 1 .. L, x \in D : H[<<k, x>>] = Scan(p, k, x)
    OBVIOUS
  <1>4. \A k \in 1 .. L, x \in D : H[<<k, x>>] \in D
    <2> HIDE DEF H, D, L
    <2> QED
      BY <1>2, <1>3
  <1>5. L \in Int
    OBVIOUS
  <1> HIDE DEF H, D, L
  <1>6. PICK f \in [0 .. L -> D] : IsRecursive(0, L, Begun, H, f)
    <2>1. 0 \in Int /\ 0 + 1 = 1
      OBVIOUS
    <2>2. \A k \in 0 + 1 .. L, x \in D : H[<<k, x>>] \in D
      BY <1>4, <2>1
    <2> QED
      BY <1>1, <1>5, <2>1, <2>2, RecursionExists
  <1>7. f = R(f)
    <2>1. ASSUME NEW k \in 0 .. L PROVE f[k] = R(f)[k]
      <3>1. CASE k = 0
        BY <1>6, <3>1 DEF IsRecursive
      <3>2. CASE k # 0
        <4>1. k \in 1 .. L /\ k - 1 \in 0 .. L
          BY <1>5, <3>2
        <4>2. f[k] = H[<<k, f[k - 1]>>]
          BY <1>6, <3>2 DEF IsRecursive
        <4> QED
          BY <1>3, <1>6, <3>2, <4>1, <4>2
      <3> QED
        BY <3>1, <3>2
    <2>2. f = [k \in 0 .. L |-> f[k]]
      BY <1>6
    <2> QED
      BY <2>1, <2>2
  <1>8. AfterOf(p) = CHOOSE g : g = R(g)
    BY DEF AfterOf, L
  <1>9. AfterOf(p) = R(AfterOf(p))
    <2> HIDE DEF R
    <2> QED
      BY <1>7, <1>8
  <1> DEFINE g == AfterOf(p)
  <1>10. g = R(g)
    BY <1>9
  <1> HIDE DEF g
  <1>11. g[0] = Begun /\ \A k \in 1 .. L : g[k] = Scan(p, k, g[k - 1])
    <2>1. 0 \in 0 .. L /\ \A k \in 1 .. L : k \in 0 .. L /\ k # 0
      BY <1>5 DEF L
    <2>2. \A k \in 0 .. L : g[k] = R(g)[k]
      BY <1>10
    <2>3. \A k \in 0 .. L : R(g)[k] = IF k = 0 THEN Begun ELSE Scan(p, k, g[k - 1])
      OBVIOUS
    <2> HIDE DEF R
    <2> QED
      BY <2>1, <2>2, <2>3
  <1>12. 0 .. L \subseteq {k \in 0 .. L : g[k] \in D}
    <2> DEFINE T == {k \in 0 .. L : g[k] \in D}
    <2>1. 0 \in T
      BY <1>1, <1>11 DEF L
    <2>2. \A k \in 0 .. L - 1 : k \in T => k + 1 \in T
      <3> SUFFICES ASSUME NEW k \in 0 .. L - 1, k \in T PROVE k + 1 \in T
        OBVIOUS
      <3>1. k + 1 \in 1 .. L /\ k + 1 \in 0 .. L /\ (k + 1) - 1 = k
        BY <1>5
      <3>2. g[k + 1] = Scan(p, k + 1, g[k])
        BY <1>11, <3>1
      <3> QED
        BY <1>2, <3>1, <3>2
    <2> HIDE DEF T
    <2>3. 0 .. L \subseteq T
      BY <1>5, <2>1, <2>2, UpFrom
    <2> QED
      BY <2>3 DEF T
  <1> QED
    BY <1>11, <1>12 DEF g, D, L

-----------------------------------------------------------------------------
(* The first loop behind the device, or from the start if there is none *)

Enters(p, b, w) ==
    /\ p \in Seq(STRING) /\ b \in 0 .. Len(p) /\ w \in Devices(p)
    /\ b = 0 /\ Len(p) > 0 => p[1] # "("
    /\ AfterOf(p)[b] = State(TRUE, FALSE, b + 1, 0, w)

\* no device is being read any more
LEMMA NotReading ==
    ASSUME NEW p, NEW b, NEW w, Enters(p, b, w)
    PROVE  \A k \in b .. Len(p) : ~AfterOf(p)[k].reading_dev
  <1> DEFINE L == Len(p)
             g == AfterOf(p)
             S == {k \in b .. L : ~g[k].reading_dev}
  <1>1. L \in Nat /\ b \in 0 .. L
    BY DEF Enters
  <1>2. /\ \A k \in 1 .. L : g[k] = Scan(p, k, g[k - 1])
        /\ \A k \in 0 .. L : g[k] \in ScanStates(p)
    BY <1>1, AfterSteps
  <1>3. b \in S
    <2>1. g[b] = State(TRUE, FALSE, b + 1, 0, w)
      BY DEF Enters
    <2> HIDE DEF g
    <2>2. ~g[b].reading_dev
      BY <2>1 DEF State
    <2> QED
      BY <1>1, <2>2
  <1> HIDE DEF g
  <1>4. ASSUME NEW k \in b .. L - 1, k \in S PROVE k + 1 \in S
    <2>1. k + 1 \in 1 .. L /\ k + 1 \in b .. L /\ k \in 0 .. L /\ (k + 1) - 1 = k
      BY <1>1
    <2>2. g[k + 1] = Scan(p, k + 1, g[k]) /\ g[k] \in ScanStates(p) /\ ~g[k].reading_dev
      BY <1>2, <1>4, <2>1
    <2>3. CASE ~g[k].ok
      BY <2>1, <2>2, <2>3, ScanFailed
    <2>4. CASE g[k].ok /\ p[k + 1] = "("
      <3>1. k + 1 # 1
        <4>1. k + 1 = 1 => b = 0
          BY <1>1, <2>1
        <4> QED
          BY <1>1, <2>1, <2>4, <4>1 DEF Enters
      <3> QED
        BY <2>1, <2>2, <2>4, <3>1, ScanOpen DEF State
    <2>5. CASE g[k].ok /\ p[k + 1] = ")"
      BY <2>1, <2>2, <2>5, ScanClose DEF State
    <2>6. CASE g[k].ok /\ p[k + 1] = "/"
      <3> DEFINE s == g[k]
      <3>1. s \in ScanStates(p) /\ s.ok /\ ~s.reading_dev /\ g[k + 1] = Scan(p, k + 1, s)
        BY <2>2, <2>6
      <3> HIDE DEF s
      <3>2. CASE k + 1 = s.dir_start
        BY <2>1, <2>6, <3>1, <3>2, ScanSlash DEF State
      <3>3. CASE k + 1 # s.dir_start
        BY <2>1, <2>6, <3>1, <3>3, ScanSlash DEF State
      <3> QED
        BY <3>2, <3>3
    <2>7. CASE g[k].ok /\ IsName(p[k + 1])
      BY <2>1, <2>2, <2>7, ScanName DEF State
    <2> QED
      BY <2>3, <2>4, <2>5, <2>6, <2>7 DEF IsName
  <1>5. b .. L \subseteq S
    <2> HIDE DEF S, L
    <2> QED
      BY <1>1, <1>3, <1>4, UpFrom
  <1> QED
    BY <1>5 DEF g

\* what has failed stays failed
LEMMA StaysFailed ==
    ASSUME NEW p, Len(p) \in Nat, NEW j \in 0 .. Len(p), ~AfterOf(p)[j].ok
    PROVE  ~Scanned(p).ok
  <1> DEFINE L == Len(p)
             g == AfterOf(p)
             S == {k \in j .. L : ~g[k].ok}
  <1>1. \A k \in 1 .. L : g[k] = Scan(p, k, g[k - 1])
    BY AfterSteps
  <1>2. j \in S
    OBVIOUS
  <1>3. ASSUME NEW k \in j .. L - 1, k \in S PROVE k + 1 \in S
    <2>1. k + 1 \in 1 .. L /\ k + 1 \in j .. L /\ (k + 1) - 1 = k
      OBVIOUS
    <2>2. g[k + 1] = Scan(p, k + 1, g[k]) /\ ~g[k].ok
      BY <1>1, <1>3, <2>1
    <2> HIDE DEF g
    <2> QED
      BY <2>1, <2>2, ScanFailed
  <1>4. j .. L \subseteq S
    <2>1. j \in Int /\ L \in Int
      OBVIOUS
    <2> HIDE DEF S, L
    <2> QED
      BY <1>2, <1>3, <2>1, UpFrom
  <1>5. L \in S
    BY <1>4
  <1> QED
    BY <1>5, ScannedIs

\* behind the device a parenthesis is an error
LEMMA ParenFails ==
    ASSUME NEW p, NEW b, NEW w, Enters(p, b, w),
           NEW k \in b + 1 .. Len(p), p[k] \in {"(", ")"}
    PROVE  ~Scanned(p).ok
  <1> DEFINE L == Len(p)
             s == AfterOf(p)[k - 1]
  <1>1. L \in Nat /\ b \in 0 .. L
    BY DEF Enters
  <1>2. k \in 1 .. L /\ k - 1 \in b .. L /\ k - 1 \in 0 .. L /\ k \in 0 .. L
    BY <1>1
  <1>3. s \in ScanStates(p) /\ AfterOf(p)[k] = Scan(p, k, s)
    BY <1>1, <1>2, AfterSteps
  <1>4. ~s.reading_dev
    BY <1>2, NotReading
  <1> HIDE DEF s
  <1>5. ~AfterOf(p)[k].ok
    <2>1. CASE ~s.ok
      BY <1>3, <2>1, ScanFailed
    <2>2. CASE s.ok /\ p[k] = "("
      <3>1. k # 1
        <4>1. k = 1 => b = 0
          BY <1>1, <1>2
        <4> QED
          BY <1>1, <1>2, <2>2, <4>1 DEF Enters
      <3> QED
        BY <1>3, <2>2, <3>1, ScanOpen DEF State
    <2>3. CASE s.ok /\ p[k] = ")"
      BY <1>3, <1>4, <2>3, ScanClose DEF State
    <2> QED
      BY <2>1, <2>2, <2>3
  <1> QED
    BY <1>1, <1>2, <1>5, StaysFailed

\* leading slashes move the start
LEMMA LeadingSlashes ==
    ASSUME NEW p, NEW b, NEW w, Enters(p, b, w),
           NEW n \in b .. Len(p), \A k \in b + 1 .. n : p[k] = "/"
    PROVE  AfterOf(p)[n] = State(TRUE, FALSE, n + 1, 0, w)
  <1> DEFINE L == Len(p)
             g == AfterOf(p)
             S == {k \in b .. n : g[k] = State(TRUE, FALSE, k + 1, 0, w)}
  <1>1. L \in Nat /\ b \in 0 .. L /\ n \in 0 .. L
    BY DEF Enters
  <1>2. \A k \in 1 .. L : g[k] = Scan(p, k, g[k - 1])
    BY <1>1, AfterSteps
  <1>3. b \in S
    <2>1. g[b] = State(TRUE, FALSE, b + 1, 0, w)
      BY DEF Enters
    <2>2. b \in b .. n
      BY <1>1
    <2> HIDE DEF g
    <2> QED
      BY <2>1, <2>2
  <1> HIDE DEF g
  <1>4. ASSUME NEW k \in b .. n - 1, k \in S PROVE k + 1 \in S
    <2>1. k + 1 \in 1 .. L /\ k + 1 \in b + 1 .. n /\ k + 1 \in b .. n /\ (k + 1) - 1 = k
          /\ k + 1 \in Int /\ 0 \in Int
      BY <1>1
    <2> DEFINE s == State(TRUE, FALSE, k + 1, 0, w)
    <2>2. g[k + 1] = Scan(p, k + 1, s)
      BY <1>2, <1>4, <2>1
    <2>3. w \in Devices(p)
      BY DEF Enters
    <2>4. s.ok = TRUE /\ s.reading_dev = FALSE /\ s.dir_start = k + 1 /\ s.dir_count = 0 /\ s.ve = w
      BY DEF State
    <2>5. s \in ScanStates(p)
      <3>1. TRUE \in BOOLEAN /\ FALSE \in BOOLEAN
        OBVIOUS
      <3> QED
        BY <2>1, <2>3, <3>1, IsState
    <2>6. p[k + 1] = "/"
      BY <2>1
    <2> HIDE DEF s
    <2>7. Scan(p, k + 1, s) = State(s.ok, s.reading_dev, s.dir_start + 1, s.dir_count, s.ve)
      <3> DEFINE m == k + 1
      <3>1. s.ok /\ ~s.reading_dev /\ m = s.dir_start /\ p[m] = "/"
        BY <2>4, <2>6
      <3> HIDE DEF m
      <3>2. Scan(p, m, s) = State(s.ok, s.reading_dev, s.dir_start + 1, s.dir_count, s.ve)
        BY <2>5, <3>1, ScanSlash
      <3> QED
        BY <3>2 DEF m
    <2>8. g[k + 1] = State(TRUE, FALSE, (k + 1) + 1, 0, w)
      BY <2>2, <2>4, <2>7
    <2> QED
      BY <2>1, <2>8
  <1>5. b .. n \subseteq S
    <2> HIDE DEF S, L
    <2>1. b \in Int /\ n \in Int /\ (b <= n => b \in S)
      BY <1>1, <1>3
    <2> QED
      BY <1>4, <2>1, UpFrom
  <1>6. n \in S
    <2>1. n \in b .. n
      BY <1>1
    <2> HIDE DEF S
    <2> QED
      BY <1>5, <2>1
  <1> QED
    BY <1>6 DEF g

-----------------------------------------------------------------------------
(* The parts: names are counted and cut in the same places *)

\* a part ends at k: with a slash, or with the path
Inc(p, k) == IF p[k] = "/" \/ k = Len(p) THEN 1 ELSE 0

\* behind S, the first that is not a slash, f counts the parts
IsBody(p, S, f) ==
    /\ p \in Seq(STRING) /\ S \in 1 .. Len(p) /\ p[S] # "/"
    /\ f[S - 1] = 0
    /\ \A k \in S .. Len(p) : f[k] = f[k - 1] + Inc(p, k)

\* from the first name on the loop counts parts and nothing else changes
LEMMA BodyState ==
    ASSUME NEW p, NEW b, NEW w, Enters(p, b, w),
           NEW S \in b + 1 .. Len(p), \A k \in b + 1 .. S - 1 : p[k] = "/",
           IsName(p[S]), \A k \in S .. Len(p) : p[k] \notin {"(", ")"}
    PROVE  \E f : /\ IsBody(p, S, f)
                  /\ Scanned(p) = State(TRUE, FALSE, S, f[Len(p)], w)
  <1> DEFINE L == Len(p)
             g == AfterOf(p)
             f == [k \in 0 .. L |-> g[k].dir_count]
             T == {k \in S - 1 .. L : g[k] = State(TRUE, FALSE, S, g[k].dir_count, w)}
  <1>1. L \in Nat /\ b \in 0 .. L /\ S \in 1 .. L /\ p \in Seq(STRING) /\ w \in Devices(p)
    BY DEF Enters
  <1>2. /\ \A k \in 1 .. L : g[k] = Scan(p, k, g[k - 1])
        /\ \A k \in 0 .. L : g[k] \in ScanStates(p)
    BY <1>1, AfterSteps
  <1>3. g[S - 1] = State(TRUE, FALSE, S, 0, w)
    <2>1. S - 1 \in b .. L /\ (S - 1) + 1 = S
      BY <1>1
    <2>2. g[S - 1] = State(TRUE, FALSE, (S - 1) + 1, 0, w)
      BY <2>1, LeadingSlashes
    <2> QED
      BY <2>1, <2>2
  <1> HIDE DEF g
  <1>4. g[S - 1].dir_count = 0
    BY <1>3 DEF State
  <1>5. ASSUME NEW k \in S .. L, k - 1 \in T
        PROVE  /\ g[k] = State(TRUE, FALSE, S, g[k - 1].dir_count + Inc(p, k), w)
               /\ g[k].dir_count = g[k - 1].dir_count + Inc(p, k)
    <2> DEFINE s == g[k - 1]
    <2>1. k \in 1 .. L /\ k - 1 \in 0 .. L /\ k \in Int
      BY <1>1
    <2>2. g[k] = Scan(p, k, s) /\ s \in ScanStates(p)
      BY <1>2, <2>1
    <2>3. s = State(TRUE, FALSE, S, s.dir_count, w)
      BY <1>5
    <2> HIDE DEF s
    <2>4. s.ok = TRUE /\ s.reading_dev = FALSE /\ s.dir_start = S /\ s.ve = w
      BY <2>3 DEF State
    <2>5. g[k] = State(TRUE, FALSE, S, s.dir_count + Inc(p, k), w)
      <3>1. CASE p[k] = "/"
        <4>1. k # S
          BY <3>1 DEF IsName
        <4>2. g[k] = State(s.ok, s.reading_dev, s.dir_start, s.dir_count + 1, s.ve)
          BY <2>2, <2>4, <3>1, <4>1, ScanSlash
        <4> QED
          BY <2>4, <3>1, <4>2 DEF Inc
      <3>2. CASE p[k] # "/"
        <4>1. IsName(p[k])
          BY <3>2 DEF IsName
        <4>2. g[k] = State(s.ok, s.reading_dev, s.dir_start, s.dir_count + CountsAtEnd(p, k), s.ve)
          BY <2>2, <2>4, <4>1, ScanName
        <4>3. CountsAtEnd(p, k) = Inc(p, k)
          BY <3>2 DEF CountsAtEnd, Inc
        <4> QED
          BY <2>4, <4>2, <4>3
      <3> QED
        BY <3>1, <3>2
    <2>6. g[k].dir_count = s.dir_count + Inc(p, k)
      BY <2>5 DEF State
    <2> QED
      BY <2>5, <2>6 DEF s
  <1>6. S - 1 .. L \subseteq T
    <2>1. S - 1 \in T
      <3>1. S - 1 \in S - 1 .. L
        BY <1>1
      <3>2. g[S - 1] = State(TRUE, FALSE, S, g[S - 1].dir_count, w)
        BY <1>3, <1>4
      <3> QED
        BY <3>1, <3>2
    <2>2. ASSUME NEW k \in S - 1 .. L - 1, k \in T PROVE k + 1 \in T
      <3>1. k + 1 \in S .. L /\ (k + 1) - 1 = k /\ k + 1 \in S - 1 .. L
        BY <1>1
      <3>2. /\ g[k + 1] = State(TRUE, FALSE, S, g[k].dir_count + Inc(p, k + 1), w)
            /\ g[k + 1].dir_count = g[k].dir_count + Inc(p, k + 1)
        BY <1>5, <2>2, <3>1
      <3>3. g[k + 1] = State(TRUE, FALSE, S, g[k + 1].dir_count, w)
        BY <3>2
      <3> QED
        BY <3>1, <3>3
    <2>3. S - 1 \in Int /\ L \in Int
      BY <1>1
    <2> HIDE DEF T, L
    <2> QED
      BY <2>1, <2>2, <2>3, UpFrom
  <1>7. IsBody(p, S, f)
    <2>1. f[S - 1] = 0
      <3>1. S - 1 \in 0 .. L
        BY <1>1
      <3> QED
        BY <1>4, <3>1
    <2>2. ASSUME NEW k \in S .. L PROVE f[k] = f[k - 1] + Inc(p, k)
      <3>1. k \in 0 .. L /\ k - 1 \in 0 .. L /\ k - 1 \in S - 1 .. L
        BY <1>1
      <3>2. k - 1 \in T
        BY <1>6, <3>1
      <3>3. g[k].dir_count = g[k - 1].dir_count + Inc(p, k)
        BY <1>5, <3>2
      <3> QED
        BY <3>1, <3>3
    <2>3. p[S] # "/"
      BY DEF IsName
    <2> HIDE DEF f
    <2> QED
      BY <1>1, <2>1, <2>2, <2>3 DEF IsBody
  <1>8. Scanned(p) = State(TRUE, FALSE, S, f[L], w)
    <2>1. L \in 0 .. L /\ L \in S - 1 .. L
      BY <1>1
    <2>2. L \in T
      BY <1>6, <2>1
    <2>3. f[L] = g[L].dir_count
      BY <2>1
    <2> QED
      BY <2>2, <2>3, ScannedIs DEF g
  <1> HIDE DEF f
  <1> QED
    BY <1>7, <1>8

\* if there are only slashes there is no part
LEMMA NoBody ==
    ASSUME NEW p, NEW b, NEW w, Enters(p, b, w), \A k \in b + 1 .. Len(p) : p[k] = "/"
    PROVE  Scanned(p).dir_count = 0
  <1>1. Len(p) \in b .. Len(p)
    BY DEF Enters
  <1>2. AfterOf(p)[Len(p)] = State(TRUE, FALSE, Len(p) + 1, 0, w)
    BY <1>1, LeadingSlashes
  <1> QED
    BY <1>2, ScannedIs DEF State

\* the count never falls, and rises once more at the end
LEMMA CountGrows ==
    ASSUME NEW p, NEW S, NEW f, IsBody(p, S, f)
    PROVE  /\ \A k \in S - 1 .. Len(p) : f[k] \in Nat
           /\ \A k \in S .. Len(p) : f[k - 1] + 1 <= f[Len(p)]
  <1> DEFINE L == Len(p)
             T == {k \in S - 1 .. L : f[k] \in Nat}
  <1>1. L \in Nat /\ S \in 1 .. L
    BY DEF IsBody
  <1>2. \A k \in S .. L : f[k] = f[k - 1] + Inc(p, k) /\ Inc(p, k) \in {0, 1}
    BY DEF IsBody, Inc
  <1>3. S - 1 .. L \subseteq T
    <2>1. S - 1 \in T
      BY <1>1 DEF IsBody
    <2>2. ASSUME NEW k \in S - 1 .. L - 1, k \in T PROVE k + 1 \in T
      <3>1. k + 1 \in S .. L /\ (k + 1) - 1 = k /\ k + 1 \in S - 1 .. L
        BY <1>1
      <3> QED
        BY <1>2, <2>2, <3>1
    <2>3. S - 1 \in Int /\ L \in Int
      BY <1>1
    <2> HIDE DEF T, L
    <2> QED
      BY <2>1, <2>2, <2>3, UpFrom
  <1>4. \A k \in S - 1 .. L : f[k] \in Nat
    BY <1>3
  <1>5. ASSUME NEW k \in S .. L PROVE f[k - 1] + 1 <= f[L]
    <2> DEFINE U == {m \in k .. L : f[k - 1] <= f[m - 1]}
    <2>1. k \in U
      <3>1. f[k - 1] \in Nat /\ k \in k .. L
        BY <1>1, <1>4
      <3> QED
        BY <3>1
    <2>2. ASSUME NEW m \in k .. L - 1, m \in U PROVE m + 1 \in U
      <3>1. m + 1 \in k .. L /\ (m + 1) - 1 = m /\ m \in S .. L /\ m - 1 \in S - 1 .. L
            /\ k - 1 \in S - 1 .. L /\ m \in S - 1 .. L
        BY <1>1
      <3>2. f[m] = f[m - 1] + Inc(p, m) /\ Inc(p, m) \in {0, 1}
        BY <1>2, <3>1
      <3>3. f[m - 1] \in Nat /\ f[k - 1] \in Nat /\ f[k - 1] <= f[m - 1]
        BY <1>4, <2>2, <3>1
      <3> QED
        BY <3>1, <3>2, <3>3
    <2>3. k .. L \subseteq U
      <3>1. k \in Int /\ L \in Int
        BY <1>1
      <3> HIDE DEF U, L
      <3> QED
        BY <2>1, <2>2, <3>1, UpFrom
    <2>4. L \in k .. L /\ L \in S .. L /\ L - 1 \in S - 1 .. L /\ k - 1 \in S - 1 .. L
      BY <1>1
    <2>5. f[k - 1] <= f[L - 1] /\ f[L] = f[L - 1] + Inc(p, L)
      BY <1>2, <2>3, <2>4
    <2>6. Inc(p, L) = 1
      BY DEF Inc
    <2>7. f[k - 1] \in Nat /\ f[L - 1] \in Nat
      BY <1>4, <2>4
    <2> QED
      BY <2>5, <2>6, <2>7
  <1> QED
    BY <1>4, <1>5

\* from S to n names and slashes take turns
Alternate(p, S, n) ==
    \A j \in Nat : /\ S + 2 * j <= n => p[S + 2 * j] # "/"
                   /\ S + 2 * j + 1 <= n => p[S + 2 * j + 1] = "/"

\* where names and slashes take turns each slash counts one
LEMMA AlternateCount ==
    ASSUME NEW p, NEW S, NEW f, IsBody(p, S, f),
           NEW n \in S - 1 .. Len(p) - 1, Alternate(p, S, n)
    PROVE  \A j \in Nat : /\ S + 2 * j - 1 <= n => f[S + 2 * j - 1] = j
                          /\ S + 2 * j <= n => f[S + 2 * j] = j
  <1> DEFINE L == Len(p)
             P(j) == /\ S + 2 * j - 1 <= n => f[S + 2 * j - 1] = j
                     /\ S + 2 * j <= n => f[S + 2 * j] = j
             T == {j \in Nat : P(j)}
  <1>1. L \in Nat /\ S \in 1 .. L /\ n \in Nat /\ n < L
    BY DEF IsBody
  <1>2. ASSUME NEW k \in S .. n PROVE f[k] = f[k - 1] + (IF p[k] = "/" THEN 1 ELSE 0)
    <2>1. k \in S .. L /\ k # L
      BY <1>1
    <2> QED
      BY <2>1 DEF IsBody, Inc
  <1>3. ASSUME NEW j \in Nat, S + 2 * j <= n, f[S + 2 * j - 1] = j PROVE f[S + 2 * j] = j
    <2> DEFINE k == S + 2 * j
    <2>1. k \in S .. n /\ p[k] # "/" /\ k - 1 = S + 2 * j - 1
      BY <1>1, <1>3 DEF Alternate
    <2>2. f[k] = f[k - 1] + 0
      BY <1>2, <2>1
    <2> QED
      BY <1>3, <2>1, <2>2
  <1>4. 0 \in T
    <2>1. S + 2 * 0 - 1 = S - 1 /\ S + 2 * 0 = S
      BY <1>1
    <2>2. f[S + 2 * 0 - 1] = 0
      BY <2>1 DEF IsBody
    <2>3. S + 2 * 0 <= n => f[S + 2 * 0] = 0
      BY <1>3, <2>2
    <2> QED
      BY <2>2, <2>3
  <1>5. ASSUME NEW j \in Nat, j \in T PROVE j + 1 \in T
    <2> DEFINE k == S + 2 * j + 1
    <2>1. k = S + 2 * (j + 1) - 1 /\ k - 1 = S + 2 * j
      BY <1>1
    <2>2. k <= n => f[k] = j + 1
      <3> SUFFICES ASSUME k <= n PROVE f[k] = j + 1
        OBVIOUS
      <3>1. k \in S .. n /\ S + 2 * j <= n
        BY <1>1
      <3>2. p[k] = "/"
        BY DEF Alternate
      <3>3. f[S + 2 * j] = j
        BY <1>5, <3>1
      <3>4. f[k] = f[k - 1] + 1
        BY <1>2, <3>1, <3>2
      <3> QED
        BY <2>1, <3>3, <3>4
    <2>3. S + 2 * (j + 1) - 1 <= n => f[S + 2 * (j + 1) - 1] = j + 1
      BY <2>1, <2>2
    <2>4. S + 2 * (j + 1) <= n => f[S + 2 * (j + 1)] = j + 1
      <3> SUFFICES ASSUME S + 2 * (j + 1) <= n PROVE f[S + 2 * (j + 1)] = j + 1
        OBVIOUS
      <3>1. S + 2 * (j + 1) - 1 <= n
        BY <1>1
      <3>2. j + 1 \in Nat
        OBVIOUS
      <3> QED
        BY <1>3, <2>3, <3>1, <3>2
    <2> QED
      BY <2>3, <2>4
  <1>6. Nat \subseteq T
    <2> HIDE DEF T
    <2> QED
      BY <1>4, <1>5, NumbersFrom0
  <1> QED
    BY <1>6

\* a part ends at its first slash, or with the path
LEMMA PartEndAt ==
    ASSUME NEW p, Len(p) \in Nat, NEW k \in 1 .. Len(p) + 1, NEW e \in k .. Len(p) + 1,
           e = Len(p) + 1 \/ p[e] = "/", \A j \in k .. e - 1 : p[j] # "/"
    PROVE  PartEnd(p, k) = e
  <1> DEFINE slashes == {i \in k .. Len(p) : p[i] = "/"}
             c == CHOOSE i \in slashes : \A j \in slashes : i <= j
  <1>1. CASE slashes = {}
    <2>1. e = Len(p) + 1
      BY <1>1
    <2> QED
      BY <1>1, <2>1 DEF PartEnd
  <1>2. CASE slashes # {}
    <2>1. PICK i \in k .. Len(p) : p[i] = "/"
      BY <1>2
    <2>2. e <= i
      BY <2>1
    <2>3. e \in slashes
      BY <2>1, <2>2
    <2>4. \A j \in slashes : e <= j
      OBVIOUS
    <2>5. c \in slashes /\ \A j \in slashes : c <= j
      BY <2>3, <2>4
    <2>6. c <= e /\ e <= c /\ c \in Int
      BY <2>3, <2>4, <2>5
    <2>7. PartEnd(p, k) = c
      BY <1>2 DEF PartEnd
    <2> HIDE DEF c
    <2> QED
      BY <2>6, <2>7
  <1> QED
    BY <1>1, <1>2

\* and not among names
LEMMA PartEndBehind ==
    ASSUME NEW p, Len(p) \in Nat, NEW k \in Nat
    PROVE  /\ PartEnd(p, k) \in Nat
           /\ \A m \in k .. Len(p) : (\A j \in k .. m : p[j] # "/") => PartEnd(p, k) > m
  <1> DEFINE slashes == {i \in k .. Len(p) : p[i] = "/"}
             c == CHOOSE i \in slashes : \A j \in slashes : i <= j
  <1>1. CASE slashes = {}
    BY <1>1 DEF PartEnd
  <1>2. CASE slashes # {}
    <2>1. slashes \subseteq Nat
      OBVIOUS
    <2>2. \E i \in slashes : \A j \in slashes : i <= j
      <3> HIDE DEF slashes
      <3> QED
        BY <1>2, <2>1, LeastExists
    <2>3. c \in slashes
      BY <2>2
    <2>4. PartEnd(p, k) = c
      BY <1>2 DEF PartEnd
    <2> HIDE DEF c
    <2> QED
      BY <2>1, <2>3, <2>4
  <1> QED
    BY <1>1, <1>2

BeginOf(p, S, n) ==
    CHOOSE f : f = [j \in 1 .. n |-> IF j = 1 THEN S ELSE PartEnd(p, f[j - 1]) + 1]

\* the second loop of split_dir cuts at these places
LEMMA PartsAre ==
    ASSUME NEW p, NEW s
    PROVE  LET begin == BeginOf(p, s.dir_start, s.dir_count)
           IN  Parts(p, s) = [j \in 1 .. s.dir_count |->
                                SubSeq(p, begin[j], PartEnd(p, begin[j]) - 1)]
  BY DEF Parts, BeginOf

\* each part begins behind the end of the one before
LEMMA BeginSteps ==
    ASSUME NEW p, Len(p) \in Nat, NEW S \in Nat, NEW n \in Nat
    PROVE  /\ n > 0 => BeginOf(p, S, n)[1] = S
           /\ \A j \in 1 .. n - 1 : BeginOf(p, S, n)[j + 1] = PartEnd(p, BeginOf(p, S, n)[j]) + 1
           /\ \A j \in 1 .. n : BeginOf(p, S, n)[j] \in Nat
  <1> DEFINE H == [y \in (1 .. n) \X Nat |-> PartEnd(p, y[2]) + 1]
             R(f) == [j \in 1 .. n |-> IF j = 1 THEN S ELSE PartEnd(p, f[j - 1]) + 1]
  <1>1. \A x \in Nat : PartEnd(p, x) + 1 \in Nat
    BY PartEndBehind
  <1>2. \A j \in 1 .. n, x \in Nat : H[<<j, x>>] = PartEnd(p, x) + 1
    OBVIOUS
  <1> HIDE DEF H
  <1>3. PICK f \in [1 .. n -> Nat] : IsRecursive(1, n, S, H, f)
    <2>1. \A j \in 1 + 1 .. n, x \in Nat : H[<<j, x>>] \in Nat
      <3>1. \A j \in 1 + 1 .. n : j \in 1 .. n
        OBVIOUS
      <3> QED
        BY <1>1, <1>2, <3>1
    <2>2. 1 \in Int /\ n \in Int
      OBVIOUS
    <2> QED
      BY <2>1, <2>2, RecursionExists
  <1>4. f = R(f)
    <2>1. ASSUME NEW j \in 1 .. n PROVE f[j] = R(f)[j]
      <3>1. CASE j = 1
        BY <1>3, <3>1 DEF IsRecursive
      <3>2. CASE j # 1
        <4>1. j - 1 \in 1 .. n
          BY <3>2
        <4>2. f[j] = H[<<j, f[j - 1]>>]
          BY <1>3, <3>2 DEF IsRecursive
        <4> QED
          BY <1>2, <1>3, <3>2, <4>1, <4>2
      <3> QED
        BY <3>1, <3>2
    <2>2. f = [j \in 1 .. n |-> f[j]]
      BY <1>3
    <2> QED
      BY <2>1, <2>2
  <1>5. BeginOf(p, S, n) = CHOOSE g : g = R(g)
    BY DEF BeginOf
  <1>6. BeginOf(p, S, n) = R(BeginOf(p, S, n))
    <2> HIDE DEF R
    <2> QED
      BY <1>4, <1>5
  <1> DEFINE g == BeginOf(p, S, n)
  <1>7. g = R(g)
    BY <1>6
  <1> HIDE DEF g
  <1>8. \A j \in 1 .. n : g[j] = IF j = 1 THEN S ELSE PartEnd(p, g[j - 1]) + 1
    <2>1. \A j \in 1 .. n : g[j] = R(g)[j]
      BY <1>7
    <2>2. \A j \in 1 .. n : R(g)[j] = IF j = 1 THEN S ELSE PartEnd(p, g[j - 1]) + 1
      OBVIOUS
    <2> HIDE DEF R
    <2> QED
      BY <2>1, <2>2
  <1>9. n > 0 => g[1] = S
    BY <1>8
  <1>10. ASSUME NEW j \in 1 .. n - 1 PROVE g[j + 1] = PartEnd(p, g[j]) + 1
    <2>1. j + 1 \in 1 .. n /\ j + 1 # 1 /\ (j + 1) - 1 = j
      OBVIOUS
    <2> QED
      BY <1>8, <2>1
  <1>11. 1 .. n \subseteq {j \in 1 .. n : g[j] \in Nat}
    <2> DEFINE T == {j \in 1 .. n : g[j] \in Nat}
    <2>1. 1 <= n => 1 \in T
      BY <1>9
    <2>2. ASSUME NEW j \in 1 .. n - 1, j \in T PROVE j + 1 \in T
      <3>1. j + 1 \in 1 .. n
        OBVIOUS
      <3> QED
        BY <1>1, <1>10, <2>2, <3>1
    <2>3. 1 \in Int /\ n \in Int
      OBVIOUS
    <2> HIDE DEF T
    <2>4. 1 .. n \subseteq T
      BY <2>1, <2>2, <2>3, UpFrom
    <2> QED
      BY <2>4 DEF T
  <1> QED
    BY <1>9, <1>10, <1>11 DEF g

\* where names and slashes take turns, each part begins with a name
LEMMA AlternateBegin ==
    ASSUME NEW p, NEW S, NEW f, IsBody(p, S, f), NEW n \in Nat,
           NEW m \in S .. Len(p), Alternate(p, S, m)
    PROVE  \A j \in 1 .. n : S + 2 * j - 3 <= m => BeginOf(p, S, n)[j] = S + 2 * j - 2
  <1> DEFINE L == Len(p)
             g == BeginOf(p, S, n)
             T == {j \in 1 .. n : S + 2 * j - 3 <= m => g[j] = S + 2 * j - 2}
  <1>1. L \in Nat /\ S \in 1 .. L /\ S \in Nat /\ m \in Nat /\ m <= L
    BY DEF IsBody
  <1>2. /\ n > 0 => g[1] = S
        /\ \A j \in 1 .. n - 1 : g[j + 1] = PartEnd(p, g[j]) + 1
    BY <1>1, BeginSteps
  <1> HIDE DEF g
  <1>3. 1 <= n => 1 \in T
    BY <1>1, <1>2
  <1>4. ASSUME NEW j \in 1 .. n - 1, j \in T PROVE j + 1 \in T
    <2> SUFFICES ASSUME S + 2 * (j + 1) - 3 <= m PROVE g[j + 1] = S + 2 * (j + 1) - 2
      OBVIOUS
    <2> DEFINE k == S + 2 * j - 2
    <2>1. k + 1 = S + 2 * (j + 1) - 3 /\ k + 1 <= m /\ S + 2 * j - 3 <= m
          /\ k \in 1 .. L + 1 /\ k + 1 \in k .. L + 1 /\ k + 2 = S + 2 * (j + 1) - 2
      BY <1>1
    <2>2. g[j] = k
      BY <1>4, <2>1
    <2>3. p[k] # "/" /\ p[k + 1] = "/"
      <3>1. j - 1 \in Nat /\ k = S + 2 * (j - 1) /\ k + 1 = S + 2 * (j - 1) + 1 /\ k <= m
        BY <1>1, <2>1
      <3> HIDE DEF k
      <3> QED
        BY <2>1, <3>1 DEF Alternate
    <2> HIDE DEF k
    <2>4. \A i \in k .. (k + 1) - 1 : p[i] # "/"
      <3>1. \A i \in k .. (k + 1) - 1 : i = k
        BY <2>1
      <3> QED
        BY <2>3, <3>1
    <2>5. PartEnd(p, k) = k + 1
      BY <1>1, <2>1, <2>3, <2>4, PartEndAt
    <2>6. g[j + 1] = (k + 1) + 1
      BY <1>2, <2>2, <2>5
    <2> QED
      BY <2>1, <2>6
  <1>5. 1 .. n \subseteq T
    <2>1. 1 \in Int /\ n \in Int
      OBVIOUS
    <2> HIDE DEF T
    <2> QED
      BY <1>3, <1>4, <2>1, UpFrom
  <1> QED
    BY <1>5 DEF g

PartsFrom(p, S, n) ==
    LET begin == BeginOf(p, S, n)
    IN  [j \in 1 .. n |-> SubSeq(p, begin[j], PartEnd(p, begin[j]) - 1)]

\* a part of one element is that element
LEMMA PartLength ==
    ASSUME NEW p \in Seq(STRING), NEW k \in 1 .. Len(p) + 1, NEW e \in Nat, e >= k
    PROVE  /\ Len(SubSeq(p, k, e - 1)) = e - k
           /\ e = k + 1 => SubSeq(p, k, e - 1) = <<p[k]>>
  <1>1. SubSeq(p, k, e - 1) = [i \in 1 .. e - k |-> p[k + i - 1]]
    <2>1. (e - 1) - k + 1 = e - k
      OBVIOUS
    <2>2. SubSeq(p, k, e - 1) = [i \in 1 .. (e - 1) - k + 1 |-> p[k + i - 1]]
      OBVIOUS
    <2> QED
      BY <2>1, <2>2
  <1>2. e - k \in Nat
    OBVIOUS
  <1>3. Len([i \in 1 .. e - k |-> p[k + i - 1]]) = e - k
    BY <1>2
  <1>4. ASSUME e = k + 1 PROVE [i \in 1 .. e - k |-> p[k + i - 1]] = <<p[k]>>
    <2>1. e - k = 1
      BY <1>4
    <2>2. \A i \in 1 .. 1 : k + i - 1 = k
      OBVIOUS
    <2>3. [i \in 1 .. 1 |-> p[k + i - 1]] = <<p[k]>>
      BY <2>2
    <2> QED
      BY <2>1, <2>3
  <1> QED
    BY <1>1, <1>3, <1>4

\* every second one behind S
NamesOf(p, S, n) == [i \in 1 .. n |-> p[S + 2 * i - 2]]

PartsAreNames(p, S, n) == \A j \in 1 .. n : PartsFrom(p, S, n)[j] = <<NamesOf(p, S, n)[j]>>

\* every part is a name, and together they are all there is
LEMMA GoodParts ==
    ASSUME NEW p, NEW S, NEW f, IsBody(p, S, f), Alternate(p, S, Len(p)),
           NEW n, n = f[Len(p)]
    PROVE  /\ n \in Nat /\ n > 0
           /\ Len(p) = S + 2 * n - 2 \/ Len(p) = S + 2 * n - 1
           /\ PartsAreNames(p, S, n)
  <1> DEFINE L == Len(p)
  <1>1. L \in Nat /\ S \in 1 .. L /\ S \in Nat /\ p \in Seq(STRING)
    BY DEF IsBody
  <1>2. Alternate(p, S, L - 1) /\ L - 1 \in S - 1 .. L - 1
    BY <1>1 DEF Alternate
  <1>3. PICK m \in Nat : L = S + 2 * m \/ L = S + 2 * m + 1
    <2>1. (L - S) \div 2 \in Nat
          /\ (L - S = 2 * ((L - S) \div 2) \/ L - S = 2 * ((L - S) \div 2) + 1)
      BY <1>1
    <2> QED
      BY <1>1, <2>1
  <1>4. f[L - 1] = m
    <2>1. /\ S + 2 * m - 1 <= L - 1 => f[S + 2 * m - 1] = m
          /\ S + 2 * m <= L - 1 => f[S + 2 * m] = m
      BY <1>2, AlternateCount
    <2>2. CASE L = S + 2 * m
      BY <1>1, <2>1, <2>2
    <2>3. CASE L = S + 2 * m + 1
      <3>1. L - 1 = S + 2 * m /\ S + 2 * m <= L - 1
        BY <1>1, <2>3
      <3> QED
        BY <2>1, <3>1
    <2> QED
      BY <1>3, <2>2, <2>3
  <1>5. n = m + 1
    <2>1. f[L] = f[L - 1] + Inc(p, L)
      BY <1>1 DEF IsBody
    <2> QED
      BY <1>4, <2>1 DEF Inc
  <1>6. n \in Nat /\ n > 0 /\ (L = S + 2 * n - 2 \/ L = S + 2 * n - 1)
    BY <1>1, <1>3, <1>5
  <1>7. ASSUME NEW j \in 1 .. n PROVE PartsFrom(p, S, n)[j] = <<p[S + 2 * j - 2]>>
    <2> DEFINE k == S + 2 * j - 2
    <2>1. k \in 1 .. L /\ k \in 1 .. L + 1 /\ k + 1 \in k .. L + 1 /\ S + 2 * j - 3 <= L
          /\ k + 1 \in Nat
      BY <1>1, <1>6
    <2>2. BeginOf(p, S, n)[j] = k
      <3>1. L \in S .. Len(p)
        BY <1>1
      <3> QED
        BY <1>6, <2>1, <3>1, AlternateBegin
    <2>3. p[k] # "/" /\ (k + 1 = L + 1 \/ p[k + 1] = "/")
      <3> DEFINE i == j - 1
      <3>1. i \in Nat /\ k = S + 2 * i /\ k + 1 = S + 2 * i + 1
        BY <1>1
      <3>2. k <= L /\ (k + 1 = L + 1 \/ k + 1 <= L)
        BY <2>1
      <3> HIDE DEF i
      <3>3. /\ S + 2 * i <= L => p[S + 2 * i] # "/"
            /\ S + 2 * i + 1 <= L => p[S + 2 * i + 1] = "/"
        BY <3>1 DEF Alternate
      <3> HIDE DEF k
      <3> QED
        BY <3>1, <3>2, <3>3
    <2> HIDE DEF k
    <2>4. PartEnd(p, k) = k + 1
      <3>1. \A i \in k .. (k + 1) - 1 : i = k
        BY <2>1
      <3>2. \A i \in k .. (k + 1) - 1 : p[i] # "/"
        BY <2>3, <3>1
      <3> QED
        BY <1>1, <2>1, <2>3, <3>2, PartEndAt
    <2>5. SubSeq(p, k, (k + 1) - 1) = <<p[k]>>
      <3> DEFINE e == k + 1
      <3>1. e \in Nat /\ e >= k /\ e = k + 1
        BY <2>1
      <3> HIDE DEF e
      <3>2. SubSeq(p, k, e - 1) = <<p[k]>>
        BY <1>1, <2>1, <3>1, PartLength
      <3> QED
        BY <3>2 DEF e
    <2>6. PartsFrom(p, S, n)[j] = SubSeq(p, k, PartEnd(p, k) - 1)
      BY <2>2 DEF PartsFrom
    <2> QED
      BY <2>4, <2>5, <2>6 DEF k
  <1>8. \A j \in 1 .. n : NamesOf(p, S, n)[j] = p[S + 2 * j - 2]
    BY DEF NamesOf
  <1>9. \A j \in 1 .. n : PartsFrom(p, S, n)[j] = <<NamesOf(p, S, n)[j]>>
    BY <1>7, <1>8
  <1> QED
    BY <1>6, <1>9 DEF PartsAreNames

\* two names or two slashes behind each other
Clash(p, k) == p[k] = "/" <=> p[k + 1] = "/"

\* otherwise one of the parts is no name
LEMMA BadParts ==
    ASSUME NEW p, NEW S, NEW f, IsBody(p, S, f), ~Alternate(p, S, Len(p)),
           NEW n, n = f[Len(p)]
    PROVE  /\ n \in Nat
           /\ \E j \in 1 .. n : Len(PartsFrom(p, S, n)[j]) # 1
           /\ \E k \in S .. Len(p) - 1 : Clash(p, k)
  <1> DEFINE L == Len(p)
             T == {i \in S .. L : ~Alternate(p, S, i)}
  <1>1. L \in Nat /\ S \in 1 .. L /\ S \in Nat /\ p \in Seq(STRING) /\ p[S] # "/"
    BY DEF IsBody
  <1>2. PICK m \in T : \A i \in T : m <= i
    <2>1. T \subseteq Nat
      BY <1>1
    <2>2. L \in T
      BY <1>1
    <2> HIDE DEF T
    <2> QED
      BY <2>1, <2>2, LeastExists
  <1>3. m \in S .. L /\ ~Alternate(p, S, m)
    OBVIOUS
  <1>4. m # S
    <2>1. ASSUME NEW j \in Nat, S + 2 * j <= S PROVE j = 0
      BY <1>1, <2>1
    <2>2. \A j \in Nat : ~(S + 2 * j + 1 <= S)
      BY <1>1
    <2>3. S + 2 * 0 = S
      BY <1>1
    <2>4. Alternate(p, S, S)
      BY <1>1, <2>1, <2>2, <2>3 DEF Alternate
    <2> QED
      BY <1>3, <2>4
  <1>5. m - 1 \in S .. L - 1 /\ m - 1 \in S .. L /\ m - 1 \in S - 1 .. L - 1 /\ m \in Nat
    BY <1>1, <1>3, <1>4
  <1>6. Alternate(p, S, m - 1)
    <2>1. m - 1 \notin T
      BY <1>2, <1>5
    <2> QED
      BY <1>5, <2>1
  <1>7. n \in Nat /\ f[m - 1] + 1 <= n
    <2>1. m \in S .. L /\ L \in S - 1 .. L
      BY <1>1, <1>3
    <2> QED
      BY <2>1, CountGrows
  <1>8. PICK j \in Nat : \/ S + 2 * j <= m /\ p[S + 2 * j] = "/"
                         \/ S + 2 * j + 1 <= m /\ p[S + 2 * j + 1] # "/"
    BY <1>3 DEF Alternate
  <1>9. CASE S + 2 * j <= m /\ p[S + 2 * j] = "/"
    <2>1. m = S + 2 * j
      <3>1. ~(S + 2 * j <= m - 1)
        BY <1>6, <1>9 DEF Alternate
      <3> QED
        BY <1>1, <1>5, <1>9, <3>1
    <2>2. j # 0
      BY <1>1, <1>4, <2>1
    <2>3. p[m] = "/" /\ m \in 1 .. L /\ m \in 1 .. L + 1 /\ m \in S .. L
      BY <1>1, <1>3, <1>9, <2>1
    <2>4. p[m - 1] = "/"
      <3> DEFINE i == j - 1
      <3>1. i \in Nat /\ m - 1 = S + 2 * i + 1
        BY <1>1, <2>1, <2>2
      <3> HIDE DEF i
      <3>2. S + 2 * i + 1 <= m - 1 => p[S + 2 * i + 1] = "/"
        BY <1>6, <3>1 DEF Alternate
      <3> QED
        BY <1>5, <3>1, <3>2
    <2>5. f[m - 1] = j
      <3>1. S + 2 * j - 1 <= m - 1 => f[S + 2 * j - 1] = j
        BY <1>5, <1>6, AlternateCount
      <3> QED
        BY <1>1, <2>1, <3>1
    <2>6. f[m] = j + 1 /\ f[m] <= n
      <3>1. f[m] = f[m - 1] + 1
        BY <2>3 DEF IsBody, Inc
      <3> QED
        BY <1>7, <2>5, <3>1
    <2>7. j + 1 \in 1 .. n
      BY <1>7, <2>6
    <2>8. BeginOf(p, S, n)[j + 1] = m
      <3>1. \A i \in 1 .. n : S + 2 * i - 3 <= m - 1 => BeginOf(p, S, n)[i] = S + 2 * i - 2
        BY <1>5, <1>6, <1>7, AlternateBegin
      <3>2. S + 2 * (j + 1) - 3 <= m - 1 /\ S + 2 * (j + 1) - 2 = m
        BY <1>1, <2>1
      <3> DEFINE i == j + 1
      <3>3. i \in 1 .. n /\ S + 2 * i - 3 <= m - 1 /\ S + 2 * i - 2 = m
        BY <2>7, <3>2
      <3> HIDE DEF i
      <3>4. BeginOf(p, S, n)[i] = S + 2 * i - 2
        BY <3>1, <3>3
      <3> QED
        BY <3>3, <3>4 DEF i
    <2>9. PartEnd(p, m) = m
      <3>1. m \in m .. L + 1 /\ \A i \in m .. m - 1 : FALSE
        BY <2>3
      <3> QED
        BY <1>1, <2>3, <3>1, PartEndAt
    <2>10. PartsFrom(p, S, n)[j + 1] = SubSeq(p, m, m - 1)
      BY <2>7, <2>8, <2>9 DEF PartsFrom
    <2>11. Len(SubSeq(p, m, m - 1)) = m - m
      BY <1>1, <1>5, <2>3, PartLength
    <2>12. Len(PartsFrom(p, S, n)[j + 1]) # 1
      BY <1>5, <2>10, <2>11
    <2>13. Clash(p, m - 1)
      <3>1. (m - 1) + 1 = m
        BY <1>5
      <3> QED
        BY <2>3, <2>4, <3>1 DEF Clash
    <2> QED
      BY <1>5, <1>7, <2>7, <2>12, <2>13
  <1>10. CASE S + 2 * j + 1 <= m /\ p[S + 2 * j + 1] # "/"
    <2>1. m = S + 2 * j + 1
      <3>1. ~(S + 2 * j + 1 <= m - 1)
        BY <1>6, <1>10 DEF Alternate
      <3> QED
        BY <1>1, <1>5, <1>10, <3>1
    <2> DEFINE k == m - 1
    <2>2. k = S + 2 * j /\ k \in 1 .. L /\ k \in 1 .. L + 1 /\ m \in k .. L /\ k + 1 = m
      BY <1>1, <1>5, <2>1
    <2>3. p[m] # "/" /\ p[k] # "/"
      BY <1>6, <1>10, <2>1, <2>2 DEF Alternate
    <2>4. f[k] = j
      <3>1. S + 2 * j <= m - 1 => f[S + 2 * j] = j
        BY <1>5, <1>6, AlternateCount
      <3> QED
        BY <1>5, <2>2, <3>1
    <2>5. j + 1 \in 1 .. n
      BY <1>7, <2>4
    <2>6. BeginOf(p, S, n)[j + 1] = k
      <3>1. \A i \in 1 .. n : S + 2 * i - 3 <= m - 1 => BeginOf(p, S, n)[i] = S + 2 * i - 2
        BY <1>5, <1>6, <1>7, AlternateBegin
      <3>2. S + 2 * (j + 1) - 3 <= m - 1 /\ S + 2 * (j + 1) - 2 = k
        BY <1>1, <2>1
      <3> HIDE DEF k
      <3> DEFINE i == j + 1
      <3>3. i \in 1 .. n /\ S + 2 * i - 3 <= m - 1 /\ S + 2 * i - 2 = k
        BY <2>5, <3>2
      <3> HIDE DEF i
      <3>4. BeginOf(p, S, n)[i] = S + 2 * i - 2
        BY <3>1, <3>3
      <3> QED
        BY <3>3, <3>4 DEF i
    <2>7. PartEnd(p, k) \in Nat /\ PartEnd(p, k) > m
      <3>1. \A i \in k .. m : i = k \/ i = m
        BY <2>2
      <3>2. \A i \in k .. m : p[i] # "/"
        BY <2>3, <3>1
      <3>3. k \in Nat
        BY <2>2
      <3> HIDE DEF k
      <3> QED
        BY <1>1, <2>2, <3>2, <3>3, PartEndBehind
    <2> HIDE DEF k
    <2> DEFINE e == PartEnd(p, k)
    <2>8. PartsFrom(p, S, n)[j + 1] = SubSeq(p, k, e - 1)
      BY <2>5, <2>6 DEF PartsFrom
    <2>9. e \in Nat /\ e > m /\ e >= k
      BY <1>5, <2>2, <2>7
    <2> HIDE DEF e
    <2>10. Len(SubSeq(p, k, e - 1)) = e - k
      BY <1>1, <2>2, <2>9, PartLength
    <2>11. e - k # 1
      BY <1>5, <2>2, <2>9
    <2>12. Clash(p, k)
      BY <2>2, <2>3 DEF Clash
    <2> QED
      BY <1>5, <1>7, <2>5, <2>8, <2>10, <2>11, <2>12 DEF k
  <1> QED
    BY <1>8, <1>9, <1>10

\* sequences of the same elements are the same
LEMMA SameSequence ==
    ASSUME NEW s \in Seq(STRING), NEW t \in Seq(STRING), Len(s) = Len(t), \A i \in 1 .. Len(s) : s[i] = t[i]
    PROVE  s = t
  <1>1. s = [i \in 1 .. Len(s) |-> s[i]] /\ t = [i \in 1 .. Len(t) |-> t[i]]
    OBVIOUS
  <1>2. [i \in 1 .. Len(s) |-> s[i]] = [i \in 1 .. Len(s) |-> t[i]]
    OBVIOUS
  <1> QED
    BY <1>1, <1>2

-----------------------------------------------------------------------------
(* The walk of read_directory *)

Prefix(c, j) == [i \in 1 .. j |-> c[i]]

\* the directory above a prefix is the prefix before it
LEMMA PrefixFacts ==
    ASSUME NEW c \in Seq(STRING), NEW j \in 0 .. Len(c)
    PROVE  /\ Prefix(c, j) \in Seq(STRING) /\ Len(Prefix(c, j)) = j
           /\ Prefix(c, 0) = <<>> /\ Prefix(c, Len(c)) = c
           /\ j > 0 => /\ Prefix(c, j) # <<>>
                       /\ Prefix(c, j - 1) \o <<c[j]>> = Prefix(c, j)
                       /\ SubSeq(Prefix(c, j), 1, Len(Prefix(c, j)) - 1) = Prefix(c, j - 1)
  <1>1. Prefix(c, j) \in Seq(STRING) /\ Len(Prefix(c, j)) = j
    BY DEF Prefix
  <1>2. Prefix(c, 0) = <<>> /\ Prefix(c, Len(c)) = c
    BY DEF Prefix
  <1>3. ASSUME j > 0
        PROVE  /\ Prefix(c, j) # <<>>
               /\ Prefix(c, j - 1) \o <<c[j]>> = Prefix(c, j)
               /\ SubSeq(Prefix(c, j), 1, Len(Prefix(c, j)) - 1) = Prefix(c, j - 1)
    <2> DEFINE q == Prefix(c, j - 1)
               r == Prefix(c, j)
    <2>1. q \in Seq(STRING) /\ Len(q) = j - 1 /\ \A i \in 1 .. j - 1 : q[i] = c[i]
      BY <1>3 DEF Prefix
    <2>2. r \in Seq(STRING) /\ Len(r) = j /\ \A i \in 1 .. j : r[i] = c[i]
      BY <1>1 DEF Prefix
    <2>3. q = [i \in 1 .. j - 1 |-> c[i]] /\ r = [i \in 1 .. j |-> c[i]]
      BY DEF Prefix
    <2> HIDE DEF q, r
    <2>4. c[j] \in STRING
      BY <1>3
    <2>5. q \o <<c[j]>> = r
      <3> DEFINE t == q \o <<c[j]>>
      <3>1. t \in Seq(STRING) /\ Len(t) = j
        BY <1>3, <2>1, <2>4
      <3>2. \A i \in 1 .. j : t[i] = r[i]
        BY <1>3, <2>1, <2>2, <2>4
      <3>3. Len(t) = Len(r) /\ \A i \in 1 .. Len(t) : t[i] = r[i]
        BY <2>2, <3>1, <3>2
      <3> HIDE DEF t
      <3>4. t \in Seq(STRING) /\ r \in Seq(STRING)
        BY <2>2, <3>1
      <3>5. t = r
        BY <3>3, <3>4, SameSequence
      <3> QED
        BY <3>5 DEF t
    <2>6. SubSeq(r, 1, j - 1) = q
      <3> DEFINE t == SubSeq(r, 1, j - 1)
      <3>1. t \in Seq(STRING) /\ Len(t) = j - 1
        BY <1>3, <2>2
      <3>2. \A i \in 1 .. j - 1 : t[i] = q[i]
        BY <1>3, <2>1, <2>2
      <3>3. Len(t) = Len(q) /\ \A i \in 1 .. Len(t) : t[i] = q[i]
        BY <2>1, <3>1, <3>2
      <3> HIDE DEF t
      <3>4. t \in Seq(STRING) /\ q \in Seq(STRING)
        BY <2>1, <3>1
      <3>5. t = q
        BY <3>3, <3>4, SameSequence
      <3> QED
        BY <3>5 DEF t
    <2>7. r # <<>>
      BY <1>3, <2>2
    <2> QED
      BY <2>2, <2>5, <2>6, <2>7 DEF q, r
  <1> QED
    BY <1>1, <1>2, <1>3

AtOf(parts) ==
    CHOOSE f : f = [j \in 0 .. Len(parts) |->
                      IF j = 0 THEN {<<>>} ELSE UNION {Walks(d, parts[j]) : d \in f[j - 1]}]

\* the walk ends with its last part
LEMMA DirectoryIs == ASSUME NEW parts PROVE Directory(parts) = AtOf(parts)[Len(parts)]
  BY DEF Directory, AtOf

\* the walk begins at the root and takes one part at a time
LEMMA DirectorySteps ==
    ASSUME NEW parts, Len(parts) \in Nat
    PROVE  /\ AtOf(parts)[0] = {<<>>}
           /\ \A j \in 1 .. Len(parts) :
                AtOf(parts)[j] = UNION {Walks(d, parts[j]) : d \in AtOf(parts)[j - 1]}
  <1> DEFINE n == Len(parts)
             D == SUBSET Dirs
             W(j, x) == UNION {Walks(d, parts[j]) : d \in x}
             H == [y \in (1 .. n) \X D |-> W(y[1], y[2])]
             R(f) == [j \in 0 .. n |-> IF j = 0 THEN {<<>>} ELSE W(j, f[j - 1])]
  <1>1. {<<>>} \in D
    BY MountAssumption
  <1>2. \A j \in 1 .. n, x \in D : W(j, x) \in D
    BY DEF Walks
  <1> HIDE DEF D
  <1>3. \A j \in 1 .. n, x \in D : H[<<j, x>>] = W(j, x)
    OBVIOUS
  <1>4. n \in Int
    OBVIOUS
  <1>5. \A j \in 1 .. n, x \in D : H[<<j, x>>] \in D
    <2> HIDE DEF H, W, n
    <2> QED
      BY <1>2, <1>3
  <1> HIDE DEF H, W, n
  <1>6. PICK f \in [0 .. n -> D] : IsRecursive(0, n, {<<>>}, H, f)
    <2>1. 0 \in Int /\ 0 + 1 = 1
      OBVIOUS
    <2>2. \A j \in 0 + 1 .. n, x \in D : H[<<j, x>>] \in D
      BY <1>5, <2>1
    <2> QED
      BY <1>1, <1>4, <2>1, <2>2, RecursionExists
  <1>7. f = R(f)
    <2>1. ASSUME NEW j \in 0 .. n PROVE f[j] = R(f)[j]
      <3>1. CASE j = 0
        BY <1>6, <3>1 DEF IsRecursive
      <3>2. CASE j # 0
        <4>1. j \in 1 .. n /\ j - 1 \in 0 .. n
          BY <1>4, <3>2
        <4>2. f[j] = H[<<j, f[j - 1]>>]
          BY <1>6, <3>2 DEF IsRecursive
        <4> QED
          BY <1>3, <1>6, <3>2, <4>1, <4>2
      <3> QED
        BY <3>1, <3>2
    <2>2. f = [j \in 0 .. n |-> f[j]]
      BY <1>6
    <2> QED
      BY <2>1, <2>2
  <1>8. AtOf(parts) = CHOOSE g : g = R(g)
    BY DEF AtOf, W, n
  <1>9. AtOf(parts) = R(AtOf(parts))
    <2> HIDE DEF R
    <2> QED
      BY <1>7, <1>8
  <1> DEFINE g == AtOf(parts)
  <1>10. g = R(g)
    BY <1>9
  <1> HIDE DEF g
  <1>11. g[0] = {<<>>} /\ \A j \in 1 .. n : g[j] = W(j, g[j - 1])
    <2>1. 0 \in 0 .. n /\ \A j \in 1 .. n : j \in 0 .. n /\ j # 0
      BY <1>4 DEF n
    <2>2. \A j \in 0 .. n : g[j] = R(g)[j]
      BY <1>10
    <2>3. \A j \in 0 .. n : R(g)[j] = IF j = 0 THEN {<<>>} ELSE W(j, g[j - 1])
      OBVIOUS
    <2> HIDE DEF R
    <2> QED
      BY <2>1, <2>2, <2>3
  <1> QED
    BY <1>11 DEF g, n, W

\* where a part is no name nothing is found from there on
LEMMA NoWalk ==
    ASSUME NEW parts, Len(parts) \in Nat, NEW j \in 1 .. Len(parts), Len(parts[j]) # 1
    PROVE  Directory(parts) = {}
  <1> DEFINE n == Len(parts)
             g == AtOf(parts)
             T == {i \in j .. n : g[i] = {}}
  <1>1. \A i \in 1 .. n : g[i] = UNION {Walks(d, parts[i]) : d \in g[i - 1]}
    BY DirectorySteps
  <1> HIDE DEF g
  <1>2. g[j] = {}
    <2>1. \A d : Walks(d, parts[j]) = {}
      BY DEF Walks, Lookup
    <2> QED
      BY <1>1, <2>1
  <1>3. ASSUME NEW i \in j .. n - 1, i \in T PROVE i + 1 \in T
    <2>1. i + 1 \in 1 .. n /\ i + 1 \in j .. n /\ (i + 1) - 1 = i /\ g[i] = {}
      BY <1>3
    <2>2. g[i + 1] = UNION {Walks(d, parts[i + 1]) : d \in {}}
      BY <1>1, <2>1
    <2>3. g[i + 1] = {}
      BY <2>2
    <2> QED
      BY <2>1, <2>3
  <1>4. j .. n \subseteq T
    <2>1. j \in Int /\ n \in Int /\ j \in T
      BY <1>2
    <2> HIDE DEF T, n
    <2> QED
      BY <1>3, <2>1, UpFrom
  <1>5. n \in T
    BY <1>4
  <1>6. g[n] = {}
    BY <1>5
  <1> QED
    BY <1>6, DirectoryIs DEF g

\* the directory with these names, if there is one
LEMMA WalkTo ==
    ASSUME NEW c \in Seq(STRING), NEW parts, Len(parts) \in Nat, Len(parts) <= Len(c),
           \A j \in 1 .. Len(parts) : parts[j] = <<c[j]>>
    PROVE  Directory(parts) = {Prefix(c, Len(parts))} \cap Dirs
  <1> DEFINE n == Len(parts)
             g == AtOf(parts)
             T == {i \in 0 .. n : g[i] = {Prefix(c, i)} \cap Dirs}
  <1>1. /\ g[0] = {<<>>}
        /\ \A i \in 1 .. n : g[i] = UNION {Walks(d, parts[i]) : d \in g[i - 1]}
    BY DirectorySteps
  <1> HIDE DEF g
  <1>2. 0 \in T
    <2>1. 0 \in 0 .. Len(c)
      OBVIOUS
    <2>2. Prefix(c, 0) = <<>>
      BY <2>1, PrefixFacts
    <2> QED
      BY <1>1, <2>2, MountAssumption
  <1>3. ASSUME NEW i \in 0 .. n - 1, i \in T PROVE i + 1 \in T
    <2> DEFINE k == i + 1
               q == Prefix(c, i)
               r == Prefix(c, k)
    <2>1. k \in 1 .. n /\ k \in 0 .. n /\ k \in 0 .. Len(c) /\ k > 0 /\ k - 1 = i /\ i \in 0 .. Len(c)
      OBVIOUS
    <2>2. g[k] = UNION {Walks(d, parts[k]) : d \in {q} \cap Dirs}
      BY <1>1, <1>3, <2>1
    <2>3. parts[k] = <<c[k]>>
      BY <2>1
    <2> HIDE DEF k
    <2>4. q \o <<c[k]>> = r /\ SubSeq(r, 1, Len(r) - 1) = q /\ r # <<>>
      <3>1. /\ Prefix(c, k - 1) \o <<c[k]>> = Prefix(c, k)
            /\ SubSeq(Prefix(c, k), 1, Len(Prefix(c, k)) - 1) = Prefix(c, k - 1)
            /\ Prefix(c, k) # <<>>
        BY <2>1, PrefixFacts
      <3> QED
        BY <2>1, <3>1
    <2>5. r \in Dirs => q \in Dirs
      BY <2>4, MountAssumption DEF Nodes
    <2>6. Walks(q, parts[k]) = {r} \cap Dirs
      <3>1. Len(<<c[k]>>) = 1
        OBVIOUS
      <3> HIDE DEF q, r
      <3> QED
        BY <2>3, <2>4, <3>1 DEF Walks, Lookup, Nodes
    <2> HIDE DEF q, r
    <2>7. g[k] = {r} \cap Dirs
      <3>1. CASE q \in Dirs
        BY <2>2, <2>6, <3>1
      <3>2. CASE q \notin Dirs
        BY <2>2, <2>5, <3>2
      <3> QED
        BY <3>1, <3>2
    <2> QED
      BY <2>1, <2>7 DEF k, r
  <1>4. 0 .. n \subseteq T
    <2>1. 0 \in Int /\ n \in Int
      OBVIOUS
    <2> HIDE DEF T, n
    <2> QED
      BY <1>2, <1>3, <2>1, UpFrom
  <1>5. n \in T
    BY <1>4
  <1> QED
    BY <1>5, DirectoryIs DEF g

\* the parts of the directory are those of the path but the last
LEMMA AllButLast ==
    ASSUME NEW X, NEW parts \in Seq(X), NEW n, n = Len(parts), n > 0
    PROVE  /\ n \in Nat
           /\ Len(SubSeq(parts, 1, n - 1)) = n - 1
           /\ \A j \in 1 .. n - 1 : SubSeq(parts, 1, n - 1)[j] = parts[j]
  OBVIOUS

\* a path with a part that is no name is found nowhere
LEMMA FoundNothing ==
    ASSUME NEW X, NEW parts \in Seq(X), NEW ve, NEW j \in 1 .. Len(parts), Len(parts[j]) # 1
    PROVE  Found(ve, parts) = Nothing
  <1> DEFINE n == Len(parts)
             q == SubSeq(parts, 1, n - 1)
             found == UNION {Lookup(d, parts[n]) : d \in Directory(q)}
  <1>1. n \in Nat /\ n > 0 /\ Len(q) = n - 1 /\ n - 1 \in Nat /\ \A i \in 1 .. n - 1 : q[i] = parts[i]
    <2>1. n = Len(parts) /\ n > 0
      OBVIOUS
    <2> HIDE DEF n
    <2> QED
      BY <2>1, AllButLast
  <1> HIDE DEF q
  <1>2. found = {}
    <2>1. CASE j = n
      <3>1. \A d : Lookup(d, parts[n]) = {}
        BY <2>1 DEF Lookup
      <3> QED
        BY <3>1
    <2>2. CASE j # n
      <3>1. j \in 1 .. Len(q) /\ Len(q) \in Nat /\ Len(q[j]) # 1
        BY <1>1, <2>2
      <3>2. Directory(q) = {}
        BY <3>1, NoWalk
      <3> QED
        BY <3>2
    <2> QED
      BY <2>1, <2>2
  <1> QED
    BY <1>2 DEF Found, q

\* a path of names is found if there is such a node
LEMMA FoundNode ==
    ASSUME NEW X, NEW parts \in Seq(X), NEW ve, NEW c \in Seq(STRING), Len(c) = Len(parts),
           Len(c) > 0, \A j \in 1 .. Len(c) : parts[j] = <<c[j]>>
    PROVE  Found(ve, parts) = IF c \in Nodes THEN [on |-> ve, node |-> c] ELSE Nothing
  <1> DEFINE n == Len(parts)
             q == SubSeq(parts, 1, n - 1)
             b == Prefix(c, n - 1)
             found == UNION {Lookup(d, parts[n]) : d \in Directory(q)}
  <1>1. n \in Nat /\ n > 0 /\ Len(q) = n - 1 /\ n - 1 \in Nat /\ \A i \in 1 .. n - 1 : q[i] = parts[i]
    <2>1. n = Len(parts) /\ n > 0
      OBVIOUS
    <2> HIDE DEF n
    <2> QED
      BY <2>1, AllButLast
  <1>2. n \in 1 .. n /\ n \in 0 .. Len(c) /\ parts[n] = <<c[n]>> /\ Len(<<c[n]>>) = 1
    BY <1>1
  <1>3. b \o <<c[n]>> = c /\ SubSeq(c, 1, Len(c) - 1) = b /\ c # <<>>
    <2>1. /\ Prefix(c, n - 1) \o <<c[n]>> = Prefix(c, n)
          /\ SubSeq(Prefix(c, n), 1, Len(Prefix(c, n)) - 1) = Prefix(c, n - 1)
          /\ Prefix(c, n) # <<>> /\ Prefix(c, Len(c)) = c
      <3> HIDE DEF n
      <3> QED
        BY <1>1, <1>2, PrefixFacts
    <2> QED
      BY <2>1
  <1>4. Directory(q) = {b} \cap Dirs
    <2>1. Len(q) \in Nat /\ Len(q) <= Len(c) /\ \A j \in 1 .. Len(q) : q[j] = <<c[j]>>
      BY <1>1
    <2> HIDE DEF q
    <2>2. Directory(q) = {Prefix(c, Len(q))} \cap Dirs
      BY <2>1, WalkTo
    <2> QED
      BY <1>1, <2>2
  <1> HIDE DEF q, b, n
  <1>5. Lookup(b, parts[n]) = {c} \cap Nodes
    BY <1>2, <1>3 DEF Lookup
  <1>6. found = {c} \cap Nodes
    <2>1. CASE b \in Dirs
      BY <1>4, <1>5, <2>1
    <2>2. CASE b \notin Dirs
      <3>1. c \notin Nodes
        BY <1>3, <2>2, MountAssumption
      <3>2. Directory(q) = {}
        BY <1>4, <2>2
      <3>3. found = {}
        BY <3>2
      <3> QED
        BY <3>1, <3>3
    <2> QED
      BY <2>1, <2>2
  <1>7. Found(ve, parts) = IF found = {} THEN Nothing
                           ELSE [on |-> ve, node |-> CHOOSE x \in found : TRUE]
    BY DEF Found, q, n
  <1> HIDE DEF found
  <1>8. CASE c \in Nodes
    <2>1. found = {c}
      BY <1>6, <1>8
    <2>2. (CHOOSE x \in found : TRUE) = c
      BY <2>1
    <2> QED
      BY <1>7, <1>8, <2>1, <2>2
  <1>9. CASE c \notin Nodes
    BY <1>6, <1>7, <1>9
  <1> QED
    BY <1>8, <1>9

-----------------------------------------------------------------------------
(* What a path means, from b + 1 on *)

\* what is behind b
LEMMA Behind ==
    ASSUME NEW p \in Seq(STRING), NEW b \in 0 .. Len(p)
    PROVE  /\ SubSeq(p, b + 1, Len(p)) \in Seq(STRING)
           /\ Len(SubSeq(p, b + 1, Len(p))) = Len(p) - b
           /\ \A k \in 1 .. Len(p) - b : SubSeq(p, b + 1, Len(p))[k] = p[b + k]
  <1>1. SubSeq(p, b + 1, Len(p)) = [i \in 1 .. Len(p) - (b + 1) + 1 |-> p[(b + 1) + i - 1]]
    OBVIOUS
  <1>2. Len(p) - (b + 1) + 1 = Len(p) - b /\ \A i \in Int : (b + 1) + i - 1 = b + i
    OBVIOUS
  <1>3. SubSeq(p, b + 1, Len(p)) = [i \in 1 .. Len(p) - b |-> p[b + i]]
    BY <1>1, <1>2
  <1>4. \A i \in 1 .. Len(p) - b : p[b + i] \in STRING
    OBVIOUS
  <1> QED
    BY <1>3, <1>4

NamesTo(r) ==
    CHOOSE f : f = [k \in 0 .. Len(r) |->
                      IF k = 0 THEN <<>>
                      ELSE IF IsName(r[k]) THEN Append(f[k - 1], r[k]) ELSE f[k - 1]]

\* the node has all the names of the rest
LEMMA NodeIs == ASSUME NEW p PROVE Node(p) = NamesTo(Rest(p))[Len(Rest(p))]
  BY DEF Node, NamesTo

\* the names are collected one after the other
LEMMA NamesToSteps ==
    ASSUME NEW r \in Seq(STRING)
    PROVE  /\ NamesTo(r)[0] = <<>>
           /\ \A k \in 1 .. Len(r) :
                NamesTo(r)[k] = IF IsName(r[k]) THEN Append(NamesTo(r)[k - 1], r[k])
                                ELSE NamesTo(r)[k - 1]
  <1> DEFINE n == Len(r)
             D == Seq(STRING)
             W(k, x) == IF IsName(r[k]) THEN Append(x, r[k]) ELSE x
             H == [y \in (1 .. n) \X D |-> W(y[1], y[2])]
             R(f) == [k \in 0 .. n |-> IF k = 0 THEN <<>> ELSE W(k, f[k - 1])]
  <1>1. <<>> \in D
    OBVIOUS
  <1>2. ASSUME NEW k \in 1 .. n, NEW x \in D PROVE W(k, x) \in D
    <2>1. r[k] \in STRING
      OBVIOUS
    <2>2. Append(x, r[k]) \in D /\ x \in D
      BY <2>1
    <2> HIDE DEF D
    <2> QED
      BY <2>2
  <1> HIDE DEF D
  <1>3. \A k \in 1 .. n, x \in D : H[<<k, x>>] = W(k, x)
    OBVIOUS
  <1>4. n \in Int
    OBVIOUS
  <1>5. \A k \in 1 .. n, x \in D : H[<<k, x>>] \in D
    <2> HIDE DEF H, W, n
    <2> QED
      BY <1>2, <1>3
  <1> HIDE DEF H, W, n
  <1>6. PICK f \in [0 .. n -> D] : IsRecursive(0, n, <<>>, H, f)
    <2>1. 0 \in Int /\ 0 + 1 = 1
      OBVIOUS
    <2>2. \A k \in 0 + 1 .. n, x \in D : H[<<k, x>>] \in D
      BY <1>5, <2>1
    <2> QED
      BY <1>1, <1>4, <2>1, <2>2, RecursionExists
  <1>7. f = R(f)
    <2>1. ASSUME NEW k \in 0 .. n PROVE f[k] = R(f)[k]
      <3>1. CASE k = 0
        BY <1>6, <3>1 DEF IsRecursive
      <3>2. CASE k # 0
        <4>1. k \in 1 .. n /\ k - 1 \in 0 .. n
          BY <1>4, <3>2
        <4>2. f[k] = H[<<k, f[k - 1]>>]
          BY <1>6, <3>2 DEF IsRecursive
        <4> QED
          BY <1>3, <1>6, <3>2, <4>1, <4>2
      <3> QED
        BY <3>1, <3>2
    <2>2. f = [k \in 0 .. n |-> f[k]]
      BY <1>6
    <2> QED
      BY <2>1, <2>2
  <1>8. NamesTo(r) = CHOOSE g : g = R(g)
    BY DEF NamesTo, W, n
  <1>9. NamesTo(r) = R(NamesTo(r))
    <2> HIDE DEF R
    <2> QED
      BY <1>7, <1>8
  <1> DEFINE g == NamesTo(r)
  <1>10. g = R(g)
    BY <1>9
  <1> HIDE DEF g
  <1>11. g[0] = <<>> /\ \A k \in 1 .. n : g[k] = W(k, g[k - 1])
    <2>1. 0 \in 0 .. n /\ \A k \in 1 .. n : k \in 0 .. n /\ k # 0
      BY <1>4 DEF n
    <2>2. \A k \in 0 .. n : g[k] = R(g)[k]
      BY <1>10
    <2>3. \A k \in 0 .. n : R(g)[k] = IF k = 0 THEN <<>> ELSE W(k, g[k - 1])
      OBVIOUS
    <2> HIDE DEF R
    <2> QED
      BY <2>1, <2>2, <2>3
  <1> QED
    BY <1>11 DEF g, n, W

IsRest(p, b) == /\ p \in Seq(STRING) /\ b \in 0 .. Len(p)
                /\ Rest(p) = SubSeq(p, b + 1, Len(p))

\* slashes lead to no node
LEMMA SlashesName ==
    ASSUME NEW p, NEW b, IsRest(p, b), NEW n \in b .. Len(p), \A k \in b + 1 .. n : p[k] = "/"
    PROVE  NamesTo(Rest(p))[n - b] = <<>>
  <1> DEFINE r == Rest(p)
             g == NamesTo(r)
             T == {k \in 0 .. n - b : g[k] = <<>>}
  <1>1. p \in Seq(STRING) /\ b \in 0 .. Len(p) /\ r = SubSeq(p, b + 1, Len(p))
        /\ Len(p) \in Nat
    BY DEF IsRest
  <1>2. r \in Seq(STRING) /\ Len(r) = Len(p) - b /\ \A k \in 1 .. Len(p) - b : r[k] = p[b + k]
    BY <1>1, Behind
  <1> HIDE DEF r
  <1>3. /\ g[0] = <<>>
        /\ \A k \in 1 .. Len(r) : g[k] = IF IsName(r[k]) THEN Append(g[k - 1], r[k]) ELSE g[k - 1]
    BY <1>2, NamesToSteps
  <1> HIDE DEF g
  <1>4. ASSUME NEW k \in 0 .. n - b - 1, k \in T PROVE k + 1 \in T
    <2>1. k + 1 \in 1 .. Len(p) - b /\ k + 1 \in 0 .. n - b /\ b + (k + 1) \in b + 1 .. n
          /\ (k + 1) - 1 = k
      BY <1>1
    <2>2. r[k + 1] = "/"
      BY <1>2, <2>1
    <2>3. g[k + 1] = g[k]
      BY <1>2, <1>3, <2>1, <2>2 DEF IsName
    <2> QED
      BY <1>4, <2>1, <2>3
  <1>5. 0 .. n - b \subseteq T
    <2>1. 0 \in Int /\ n - b \in Int /\ (0 <= n - b => 0 \in T)
      BY <1>1, <1>3
    <2> DEFINE m == n - b
    <2> HIDE DEF T, m
    <2>2. m \in Int /\ (0 <= m => 0 \in T) /\ \A k \in 0 .. m - 1 : k \in T => k + 1 \in T
      BY <1>4, <2>1 DEF m
    <2>3. 0 .. m \subseteq T
      BY <2>1, <2>2, UpFrom
    <2> QED
      BY <2>3 DEF m
  <1>6. n - b \in T
    <2>1. n - b \in 0 .. n - b
      BY <1>1
    <2> QED
      BY <1>5, <2>1
  <1> QED
    BY <1>6 DEF g, r

\* the names of a path are names of a node
LEMMA NamesOfIs ==
    ASSUME NEW p \in Seq(STRING), NEW S \in Nat \ {0}, NEW n \in Nat, S + 2 * n - 2 <= Len(p)
    PROVE  /\ NamesOf(p, S, n) \in Seq(STRING) /\ Len(NamesOf(p, S, n)) = n
           /\ \A i \in 1 .. n : NamesOf(p, S, n)[i] = p[S + 2 * i - 2]
  <1>1. \A i \in 1 .. n : S + 2 * i - 2 \in 1 .. Len(p)
    OBVIOUS
  <1>2. \A i \in 1 .. n : p[S + 2 * i - 2] \in STRING
    BY <1>1
  <1> QED
    BY <1>2 DEF NamesOf

\* one more name
LEMMA NamesOfMore ==
    ASSUME NEW p \in Seq(STRING), NEW S \in Nat \ {0}, NEW n \in Nat, S + 2 * n <= Len(p)
    PROVE  NamesOf(p, S, n + 1) = Append(NamesOf(p, S, n), p[S + 2 * n])
  <1> DEFINE s == NamesOf(p, S, n)
             m == n + 1
             t == NamesOf(p, S, m)
             u == Append(s, p[S + 2 * n])
  <1>1. m \in Nat /\ S + 2 * m - 2 <= Len(p) /\ S + 2 * n - 2 <= Len(p) /\ S + 2 * m - 2 = S + 2 * n
        /\ S + 2 * n \in 1 .. Len(p)
    OBVIOUS
  <1>2. m = n + 1
    OBVIOUS
  <1> HIDE DEF m
  <1>3. s \in Seq(STRING) /\ Len(s) = n /\ \A i \in 1 .. n : s[i] = p[S + 2 * i - 2]
    BY <1>1, NamesOfIs
  <1>4. t \in Seq(STRING) /\ Len(t) = m /\ \A i \in 1 .. m : t[i] = p[S + 2 * i - 2]
    BY <1>1, NamesOfIs
  <1> HIDE DEF s, t
  <1>5. u \in Seq(STRING) /\ Len(u) = m
    BY <1>1, <1>2, <1>3
  <1>6. ASSUME NEW i \in 1 .. m PROVE u[i] = t[i]
    <2>1. CASE i = m
      BY <1>1, <1>2, <1>3, <1>4, <2>1
    <2>2. CASE i # m
      <3>1. i \in 1 .. n
        BY <1>2, <2>2
      <3>2. u[i] = s[i]
        BY <1>3, <3>1
      <3> QED
        BY <1>3, <1>4, <3>1, <3>2
    <2> QED
      BY <2>1, <2>2
  <1>7. Len(u) = Len(t) /\ \A i \in 1 .. Len(u) : u[i] = t[i]
    BY <1>4, <1>5, <1>6
  <1> HIDE DEF u
  <1>8. u = t
    BY <1>4, <1>5, <1>7, SameSequence
  <1> QED
    BY <1>8 DEF u, t, s, m

\* where names and slashes take turns they are all there is
LEMMA NodeNames ==
    ASSUME NEW p, NEW b, IsRest(p, b), NEW S \in b + 1 .. Len(p),
           \A k \in b + 1 .. S - 1 : p[k] = "/", \A k \in S .. Len(p) : p[k] \notin {"(", ")"},
           Alternate(p, S, Len(p)),
           NEW n \in Nat \ {0}, Len(p) = S + 2 * n - 2 \/ Len(p) = S + 2 * n - 1
    PROVE  Node(p) = NamesOf(p, S, n)
  <1> DEFINE L == Len(p)
             r == Rest(p)
             g == NamesTo(r)
             P(j) == /\ S + 2 * j - 1 <= L => g[S + 2 * j - 1 - b] = NamesOf(p, S, j)
                     /\ S + 2 * j <= L => g[S + 2 * j - b] = NamesOf(p, S, j + 1)
             T == {j \in Nat : P(j)}
  <1>1. p \in Seq(STRING) /\ b \in 0 .. L /\ r = SubSeq(p, b + 1, L) /\ L \in Nat /\ b \in Nat
        /\ S \in Nat \ {0}
    BY DEF IsRest
  <1>2. r \in Seq(STRING) /\ Len(r) = L - b /\ \A k \in 1 .. L - b : r[k] = p[b + k]
    BY <1>1, Behind
  <1>3. g[S - 1 - b] = <<>>
    <2>1. S - 1 \in b .. L /\ (S - 1) - b = S - 1 - b
      BY <1>1
    <2> DEFINE m == S - 1
    <2> HIDE DEF m
    <2>2. m \in b .. L /\ \A k \in b + 1 .. m : p[k] = "/"
      BY <2>1 DEF m
    <2>3. g[m - b] = <<>>
      BY <2>2, SlashesName
    <2> QED
      BY <2>3 DEF m
  <1> HIDE DEF r
  <1>4. \A k \in 1 .. Len(r) : g[k] = IF IsName(r[k]) THEN Append(g[k - 1], r[k]) ELSE g[k - 1]
    BY <1>2, NamesToSteps
  <1> HIDE DEF g
  <1>5. ASSUME NEW k \in S .. L
        PROVE  /\ p[k] = "/" => g[k - b] = g[k - 1 - b]
               /\ p[k] # "/" => g[k - b] = Append(g[k - 1 - b], p[k])
    <2>1. k - b \in 1 .. Len(r) /\ (k - b) - 1 = k - 1 - b /\ b + (k - b) = k
      BY <1>1, <1>2
    <2>2. r[k - b] = p[k]
      BY <1>2, <2>1
    <2>3. IsName(p[k]) <=> p[k] # "/"
      BY DEF IsName
    <2> QED
      BY <1>4, <2>1, <2>2, <2>3
  <1>6. ASSUME NEW j \in Nat, S + 2 * j <= L, g[S + 2 * j - 1 - b] = NamesOf(p, S, j)
        PROVE  g[S + 2 * j - b] = NamesOf(p, S, j + 1)
    <2> DEFINE k == S + 2 * j
    <2>1. k \in S .. L
      BY <1>1, <1>6
    <2>2. p[k] # "/"
      BY <1>6 DEF Alternate
    <2>3. NamesOf(p, S, j + 1) = Append(NamesOf(p, S, j), p[k])
      BY <1>1, <1>6, NamesOfMore
    <2>4. k - b = S + 2 * j - b /\ k - 1 - b = S + 2 * j - 1 - b
      BY <1>1
    <2> HIDE DEF k
    <2>5. g[k - b] = Append(g[k - 1 - b], p[k])
      BY <1>5, <2>1, <2>2
    <2> QED
      BY <1>6, <2>3, <2>4, <2>5
  <1>7. 0 \in T
    <2>1. S + 2 * 0 - 1 - b = S - 1 - b
      BY <1>1
    <2>2. NamesOf(p, S, 0) = <<>>
      BY DEF NamesOf
    <2>3. g[S + 2 * 0 - 1 - b] = NamesOf(p, S, 0)
      BY <1>3, <2>1, <2>2
    <2> QED
      BY <1>6, <2>3
  <1>8. ASSUME NEW j \in Nat, j \in T PROVE j + 1 \in T
    <2> DEFINE k == S + 2 * j + 1
               i == j + 1
    <2>1. k = S + 2 * i - 1 /\ k - 1 = S + 2 * j /\ k \in Nat /\ i \in Nat
      BY <1>1
    <2>2. ASSUME k <= L PROVE g[k - b] = NamesOf(p, S, i)
      <3>1. k \in S .. L /\ S + 2 * j <= L /\ k - 1 - b = S + 2 * j - b
        BY <1>1, <2>2
      <3>2. p[k] = "/"
        BY <2>2 DEF Alternate
      <3>3. g[S + 2 * j - b] = NamesOf(p, S, i)
        BY <1>8, <3>1
      <3> HIDE DEF k
      <3>4. g[k - b] = g[k - 1 - b]
        BY <1>5, <3>1, <3>2
      <3> QED
        BY <3>1, <3>3, <3>4
    <2>3. S + 2 * i - 1 <= L => g[S + 2 * i - 1 - b] = NamesOf(p, S, i)
      <3>1. S + 2 * i - 1 - b = k - b
        BY <1>1, <2>1
      <3> HIDE DEF i, k
      <3> QED
        BY <2>1, <2>2, <3>1
    <2>4. S + 2 * i <= L => g[S + 2 * i - b] = NamesOf(p, S, i + 1)
      <3> HIDE DEF i
      <3> SUFFICES ASSUME S + 2 * i <= L PROVE g[S + 2 * i - b] = NamesOf(p, S, i + 1)
        OBVIOUS
      <3>1. S + 2 * i - 1 <= L
        BY <1>1, <2>1
      <3> QED
        BY <1>6, <2>1, <2>3, <3>1
    <2> QED
      BY <2>1, <2>3, <2>4
  <1>9. Nat \subseteq T
    <2> HIDE DEF T
    <2> QED
      BY <1>7, <1>8, NumbersFrom0
  <1>10. Node(p) = g[L - b]
    BY <1>2, NodeIs DEF g, r
  <1>11. CASE L = S + 2 * n - 1
    <2>1. n \in T
      BY <1>9
    <2>2. g[S + 2 * n - 1 - b] = NamesOf(p, S, n)
      BY <1>1, <1>11, <2>1
    <2>3. S + 2 * n - 1 - b = L - b
      BY <1>1, <1>11
    <2> QED
      BY <1>10, <2>2, <2>3
  <1>12. CASE L = S + 2 * n - 2
    <2> DEFINE j == n - 1
    <2>1. j \in Nat /\ S + 2 * j = L /\ S + 2 * j - b = L - b /\ j + 1 = n
      BY <1>1, <1>12
    <2> HIDE DEF j
    <2>2. g[S + 2 * j - b] = NamesOf(p, S, j + 1)
      <3>1. P(j)
        BY <1>9, <2>1
      <3> QED
        BY <1>1, <2>1, <3>1
    <2> QED
      BY <1>10, <2>1, <2>2
  <1> QED
    BY <1>11, <1>12

\* a well-formed rest has no parentheses
LEMMA NoParens ==
    ASSUME NEW p, NEW b, IsRest(p, b), IsWellFormed(Rest(p))
    PROVE  \A k \in b + 1 .. Len(p) : p[k] \notin {"(", ")"}
  <1> DEFINE L == Len(p)
             r == Rest(p)
  <1>1. p \in Seq(STRING) /\ b \in 0 .. L /\ r = SubSeq(p, b + 1, L) /\ L \in Nat
    BY DEF IsRest
  <1>2. Len(r) = L - b /\ \A k \in 1 .. L - b : r[k] = p[b + k]
    BY <1>1, Behind
  <1>3. \A k \in 1 .. Len(r) : r[k] \notin {"(", ")"}
    BY DEF IsWellFormed
  <1> HIDE DEF r
  <1>4. ASSUME NEW k \in b + 1 .. L PROVE p[k] \notin {"(", ")"}
    <2>1. k - b \in 1 .. L - b /\ b + (k - b) = k
      BY <1>1
    <2> QED
      BY <1>2, <1>3, <2>1
  <1> QED
    BY <1>4

\* and from its first name on no two names or slashes behind each other
LEMMA WellFormedIs ==
    ASSUME NEW p, NEW b, IsRest(p, b), NEW S \in b + 1 .. Len(p),
           \A k \in b + 1 .. S - 1 : p[k] = "/", p[S] # "/",
           \A k \in b + 1 .. Len(p) : p[k] \notin {"(", ")"}
    PROVE  IsWellFormed(Rest(p)) <=> \A k \in S .. Len(p) - 1 : ~Clash(p, k)
  <1> DEFINE L == Len(p)
             r == Rest(p)
  <1>1. p \in Seq(STRING) /\ b \in 0 .. L /\ r = SubSeq(p, b + 1, L) /\ L \in Nat /\ b \in Nat
        /\ S \in Nat
    BY DEF IsRest
  <1>2. Len(r) = L - b /\ \A k \in 1 .. L - b : r[k] = p[b + k]
    BY <1>1, Behind
  <1> HIDE DEF r
  <1>3. \A k \in b + 1 .. L : IsName(p[k]) <=> p[k] # "/"
    BY DEF IsName
  <1>4. ASSUME IsWellFormed(r), NEW k \in S .. L - 1 PROVE ~Clash(p, k)
    <2> DEFINE i == k - b
               s == S - b
    <2>1. /\ i \in 1 .. Len(r) - 1 /\ i \in 1 .. L - b /\ b + i = k
          /\ i + 1 \in 1 .. L - b /\ b + (i + 1) = k + 1
          /\ s \in 1 .. i /\ s \in 1 .. L - b /\ b + s = S
          /\ k \in b + 1 .. L /\ k + 1 \in b + 1 .. L
      BY <1>1, <1>2
    <2> HIDE DEF i, s
    <2>2. r[i] = p[k] /\ r[i + 1] = p[k + 1] /\ r[s] = p[S]
      BY <1>2, <2>1
    <2>3. /\ ~(IsName(r[i]) /\ IsName(r[i + 1]))
          /\ r[i] = "/" /\ r[i + 1] = "/" => \A j \in 1 .. i : r[j] = "/"
      BY <1>4, <2>1 DEF IsWellFormed
    <2> QED
      BY <1>3, <2>1, <2>2, <2>3 DEF Clash
  <1>5. ASSUME \A k \in S .. L - 1 : ~Clash(p, k) PROVE IsWellFormed(r)
    <2>1. ASSUME NEW k \in 1 .. Len(r) PROVE r[k] \notin {"(", ")"}
      <3>1. k \in 1 .. L - b /\ b + k \in b + 1 .. L
        BY <1>1, <1>2
      <3> QED
        BY <1>2, <3>1
    <2>2. ASSUME NEW i \in 1 .. Len(r) - 1
          PROVE  /\ ~(IsName(r[i]) /\ IsName(r[i + 1]))
                 /\ r[i] = "/" /\ r[i + 1] = "/" => \A j \in 1 .. i : r[j] = "/"
      <3> DEFINE k == b + i
      <3>1. /\ k \in b + 1 .. L /\ k + 1 \in b + 1 .. L /\ k + 1 = b + (i + 1)
            /\ i \in 1 .. L - b /\ i + 1 \in 1 .. L - b /\ k \in b + 1 .. L - 1
        BY <1>1, <1>2
      <3>2. r[i] = p[k] /\ r[i + 1] = p[k + 1]
        BY <1>2, <3>1
      <3>3. \A j \in 1 .. i : j \in 1 .. L - b /\ b + j \in b + 1 .. k
        BY <1>1, <1>2
      <3> HIDE DEF k
      <3>4. CASE k \in S .. L - 1
        <4>1. ~Clash(p, k)
          BY <1>5, <3>4
        <4> QED
          BY <1>3, <3>1, <3>2, <4>1 DEF Clash
      <3>5. CASE k \notin S .. L - 1
        <4>1. k \in b + 1 .. S - 1
          BY <1>1, <3>1, <3>5
        <4>2. p[k] = "/"
          BY <4>1
        <4>3. ASSUME NEW j \in 1 .. i PROVE b + j \in b + 1 .. S - 1
          <5>1. b + j \in b + 1 .. k
            BY <3>3
          <5>2. b + j \in Int /\ b + j <= k /\ b + 1 <= b + j /\ k <= S - 1
            BY <1>1, <4>1, <5>1
          <5> QED
            BY <1>1, <3>1, <5>2
        <4>4. \A j \in 1 .. i : r[j] = "/"
          BY <1>2, <3>3, <4>3
        <4> QED
          BY <1>3, <3>1, <3>2, <4>2, <4>4
      <3> QED
        BY <3>4, <3>5
    <2> QED
      BY <2>1, <2>2 DEF IsWellFormed
  <1> QED
    BY <1>4, <1>5 DEF r

\* none are where names and slashes take turns
LEMMA NoClash ==
    ASSUME NEW p, Len(p) \in Nat, NEW S \in Nat, Alternate(p, S, Len(p)),
           NEW k \in S .. Len(p) - 1
    PROVE  ~Clash(p, k)
  <1> DEFINE L == Len(p)
  <1>1. PICK j \in Nat : k = S + 2 * j \/ k = S + 2 * j + 1
    <2>1. (k - S) \div 2 \in Nat
          /\ (k - S = 2 * ((k - S) \div 2) \/ k - S = 2 * ((k - S) \div 2) + 1)
      OBVIOUS
    <2> DEFINE j == (k - S) \div 2
    <2> HIDE DEF j
    <2>2. j \in Nat /\ (k - S = 2 * j \/ k - S = 2 * j + 1)
      BY <2>1 DEF j
    <2>3. k = S + 2 * j \/ k = S + 2 * j + 1
      BY <2>2
    <2> QED
      BY <2>2, <2>3
  <1>2. CASE k = S + 2 * j
    <2>1. k + 1 = S + 2 * j + 1 /\ k <= L /\ k + 1 <= L
      BY <1>2
    <2>2. p[k] # "/" /\ p[k + 1] = "/"
      BY <1>2, <2>1 DEF Alternate
    <2> QED
      BY <2>2 DEF Clash
  <1>3. CASE k = S + 2 * j + 1
    <2> DEFINE i == j + 1
    <2>1. i \in Nat /\ k + 1 = S + 2 * i /\ k <= L /\ k + 1 <= L
      BY <1>3
    <2> HIDE DEF i
    <2>2. p[k + 1] # "/"
      BY <2>1 DEF Alternate
    <2>3. p[k] = "/"
      BY <1>3, <2>1 DEF Alternate
    <2> QED
      BY <2>2, <2>3 DEF Clash
  <1> QED
    BY <1>1, <1>2, <1>3

-----------------------------------------------------------------------------
(* What mb_fopen finds *)

GotOf(p, s) ==
    IF s.ok /\ s.ve # NoEntry /\ s.dir_count > 0 THEN Found(s.ve, Parts(p, s)) ELSE Nothing

MeantOn(p, w) ==
    IF IsWellFormed(Rest(p)) /\ w # NoEntry /\ Node(p) # <<>> /\ Node(p) \in Nodes
    THEN [on |-> w, node |-> Node(p)] ELSE Nothing

\* the parts are a sequence
LEMMA PartsFromSeq ==
    ASSUME NEW p, NEW S, NEW n \in Nat
    PROVE  /\ Len(PartsFrom(p, S, n)) = n
           /\ \E X : PartsFrom(p, S, n) \in Seq(X)
  <1> DEFINE q == PartsFrom(p, S, n)
             X == {q[j] : j \in 1 .. n}
  <1>1. q = [j \in 1 .. n |-> q[j]]
    BY DEF PartsFrom
  <1> HIDE DEF q
  <1>2. q \in [1 .. n -> X]
    BY <1>1
  <1>3. q \in Seq(X) /\ Len(q) = n
    <2> HIDE DEF X
    <2> QED
      BY <1>2
  <1> QED
    BY <1>3 DEF q

\* from the end of the loop to the walk
LEMMA GotBody ==
    ASSUME NEW p, NEW S, NEW n, NEW w, Scanned(p) = State(TRUE, FALSE, S, n, w)
    PROVE  GotOf(p, Scanned(p)) =
             IF w # NoEntry /\ n > 0 THEN Found(w, PartsFrom(p, S, n)) ELSE Nothing
  <1> DEFINE s == Scanned(p)
  <1>1. s.ok /\ s.dir_start = S /\ s.dir_count = n /\ s.ve = w
    BY DEF State
  <1> HIDE DEF s
  <1>2. Parts(p, s) = PartsFrom(p, S, n)
    BY <1>1, PartsAre DEF PartsFrom
  <1>3. GotOf(p, s) = IF w # NoEntry /\ n > 0 THEN Found(w, PartsFrom(p, S, n)) ELSE Nothing
    BY <1>1, <1>2 DEF GotOf
  <1> QED
    BY <1>3 DEF s

\* behind the device, mb_fopen finds what the path means there
LEMMA BehindDevice ==
    ASSUME NEW p, NEW b, NEW w, Enters(p, b, w), IsRest(p, b)
    PROVE  GotOf(p, Scanned(p)) = MeantOn(p, w)
  <1> DEFINE L == Len(p)
             T == {k \in b + 1 .. L : p[k] # "/"}
  <1>1. p \in Seq(STRING) /\ L \in Nat /\ b \in 0 .. L /\ b \in Nat
    BY DEF IsRest
  <1>2. CASE \E k \in b + 1 .. L : p[k] \in {"(", ")"}
    <2>1. ~Scanned(p).ok
      BY <1>2, ParenFails
    <2>2. ~IsWellFormed(Rest(p))
      BY <1>2, NoParens
    <2> QED
      BY <2>1, <2>2 DEF GotOf, MeantOn
  <1>3. CASE T = {}
    <2>1. \A k \in b + 1 .. L : p[k] = "/"
      BY <1>3
    <2>2. Scanned(p).dir_count = 0
      BY <2>1, NoBody
    <2>3. Node(p) = <<>>
      <3>1. L \in b .. L
        BY <1>1
      <3>2. NamesTo(Rest(p))[L - b] = <<>>
        BY <2>1, <3>1, SlashesName
      <3>3. Len(Rest(p)) = L - b
        BY <1>1, Behind DEF IsRest
      <3> QED
        BY <3>2, <3>3, NodeIs
    <2> QED
      BY <2>2, <2>3 DEF GotOf, MeantOn
  <1>4. CASE T # {} /\ \A k \in b + 1 .. L : p[k] \notin {"(", ")"}
    <2>1. PICK S \in T : \A k \in T : S <= k
      <3>1. T \subseteq Nat
        BY <1>1
      <3> HIDE DEF T
      <3> QED
        BY <1>4, <3>1, LeastExists
    <2>2. S \in b + 1 .. L /\ p[S] # "/" /\ S \in Nat /\ S \in Nat \ {0}
      BY <1>1
    <2>3. \A k \in b + 1 .. S - 1 : p[k] = "/"
      <3> SUFFICES ASSUME NEW k \in b + 1 .. S - 1, p[k] # "/" PROVE FALSE
        OBVIOUS
      <3>1. k \in T /\ ~(S <= k)
        BY <1>1, <2>2
      <3> QED
        BY <2>1, <3>1
    <2>4. IsName(p[S]) /\ \A k \in S .. L : p[k] \notin {"(", ")"}
      <3>1. \A k \in S .. L : k \in b + 1 .. L
        BY <1>1, <2>2
      <3> QED
        BY <1>4, <2>2, <3>1 DEF IsName
    <2> HIDE DEF T
    <2>5. PICK f : IsBody(p, S, f) /\ Scanned(p) = State(TRUE, FALSE, S, f[L], w)
      BY <2>2, <2>3, <2>4, BodyState
    <2> DEFINE n == f[L]
    <2>6. n = f[Len(p)]
      OBVIOUS
    <2>7. Scanned(p) = State(TRUE, FALSE, S, n, w)
      BY <2>5
    <2>8. IsBody(p, S, f)
      BY <2>5
    <2> HIDE DEF n
    <2> DEFINE q == PartsFrom(p, S, n)
    <2>9. GotOf(p, Scanned(p)) = IF w # NoEntry /\ n > 0 THEN Found(w, q) ELSE Nothing
      BY <2>7, GotBody, Zenon
    <2>10. IsWellFormed(Rest(p)) <=> \A k \in S .. L - 1 : ~Clash(p, k)
      BY <1>4, <2>2, <2>3, WellFormedIs
    <2>11. CASE Alternate(p, S, L)
      <3> DEFINE c == NamesOf(p, S, n)
      <3>1. /\ n \in Nat /\ n > 0
            /\ L = S + 2 * n - 2 \/ L = S + 2 * n - 1
            /\ \A j \in 1 .. n : q[j] = <<c[j]>>
        <4> HIDE DEF c, q, L
        <4>1. n \in Nat /\ n > 0
          BY <2>6, <2>11, <2>8, GoodParts DEF L
        <4>2. L = S + 2 * n - 2 \/ L = S + 2 * n - 1
          BY <2>6, <2>11, <2>8, GoodParts DEF L
        <4>3. \A j \in 1 .. n : q[j] = <<c[j]>>
          <5>1. PartsAreNames(p, S, n)
            BY <2>6, <2>11, <2>8, GoodParts DEF L
          <5> QED
            BY <5>1 DEF q, c, PartsAreNames
        <4> QED
          BY <4>1, <4>2, <4>3
      <3>2. IsWellFormed(Rest(p))
        BY <1>1, <2>2, <2>10, <2>11, NoClash
      <3>3. c \in Seq(STRING) /\ Len(c) = n
        <4>1. S + 2 * n - 2 <= L
          BY <2>2, <3>1
        <4> QED
          BY <1>1, <2>2, <3>1, <4>1, NamesOfIs
      <3>4. Node(p) = c
        <4>1. n \in Nat \ {0}
          BY <3>1
        <4> QED
          BY <2>2, <2>3, <2>4, <2>11, <3>1, <4>1, NodeNames
      <3>5. Len(q) = n /\ \E X : q \in Seq(X)
        BY <3>1, PartsFromSeq
      <3> HIDE DEF c, q
      <3>6. Found(w, q) = IF c \in Nodes THEN [on |-> w, node |-> c] ELSE Nothing
        <4>1. PICK X : q \in Seq(X)
          BY <3>5
        <4>2. Len(c) = Len(q) /\ Len(c) > 0 /\ \A j \in 1 .. Len(c) : q[j] = <<c[j]>>
          BY <3>1, <3>3, <3>5
        <4> QED
          BY <3>3, <4>1, <4>2, FoundNode
      <3>7. c # <<>>
        BY <3>1, <3>3
      <3> QED
        BY <2>9, <3>1, <3>2, <3>4, <3>6, <3>7 DEF MeantOn
    <2>12. CASE ~Alternate(p, S, L)
      <3>1. /\ n \in Nat
            /\ \E j \in 1 .. n : Len(q[j]) # 1
            /\ \E k \in S .. L - 1 : Clash(p, k)
        BY <2>6, <2>12, <2>8, BadParts
      <3>2. ~IsWellFormed(Rest(p))
        BY <2>10, <3>1
      <3>3. Len(q) = n /\ \E X : q \in Seq(X)
        BY <3>1, PartsFromSeq
      <3> HIDE DEF q
      <3>4. Found(w, q) = Nothing
        <4>1. PICK X : q \in Seq(X)
          BY <3>3
        <4>2. PICK j \in 1 .. Len(q) : Len(q[j]) # 1
          BY <3>1, <3>3
        <4> QED
          BY <4>1, <4>2, FoundNothing
      <3> QED
        BY <2>9, <3>2, <3>4 DEF MeantOn
    <2> QED
      BY <2>11, <2>12
  <1> QED
    BY <1>2, <1>3, <1>4

-----------------------------------------------------------------------------
(* The device of a path *)

\* a device ends in one place at most
LEMMA OneDevicePart ==
    ASSUME NEW p, Len(p) \in Nat, NEW e \in DeviceParts(p)
    PROVE  DeviceParts(p) = {e} /\ (CHOOSE k \in DeviceParts(p) : TRUE) = e
  <1>1. \A k \in DeviceParts(p) : /\ k \in 2 .. Len(p) /\ ~IsName(p[k])
                                  /\ \A j \in 2 .. k - 1 : IsName(p[j])
    BY DEF DeviceParts, IsName
  <1>2. ASSUME NEW k \in DeviceParts(p) PROVE k = e
    <2>1. k \in 2 .. Len(p) /\ e \in 2 .. Len(p)
      BY <1>1
    <2>2. ~(k \in 2 .. e - 1) /\ ~(e \in 2 .. k - 1)
      BY <1>1
    <2> QED
      BY <2>1, <2>2
  <1>3. DeviceParts(p) = {e}
    BY <1>2
  <1> QED
    BY <1>3

\* while the name of the device is read
LEMMA InDevice ==
    ASSUME NEW p
    PROVE  LET s == State(TRUE, TRUE, 1, 0, def)
           IN  /\ s \in ScanStates(p)
               /\ s.ok = TRUE /\ s.reading_dev = TRUE
               /\ s.dir_start = 1 /\ s.dir_count = 0 /\ s.ve = def
  <1>1. TRUE \in BOOLEAN /\ 1 \in Int /\ 0 \in Int /\ def \in Devices(p)
    BY DEF Devices
  <1>2. State(TRUE, TRUE, 1, 0, def) \in ScanStates(p)
    BY <1>1, IsState
  <1> QED
    BY <1>2 DEF State

\* the first state of the loop
LEMMA BegunIs == Begun = State(TRUE, FALSE, 1, 0, def)
  BY DEF Begun, State

\* a name that is read belongs to the device
LEMMA ReadingName ==
    ASSUME NEW p, Len(p) \in Nat, NEW m \in 1 .. Len(p), p[1] = "(", m = 1 \/ m < Len(p),
           \A k \in 2 .. m : IsName(p[k])
    PROVE  AfterOf(p)[m] = State(TRUE, TRUE, 1, 0, def)
  <1> DEFINE L == Len(p)
             g == AfterOf(p)
             s == State(TRUE, TRUE, 1, 0, def)
             T == {k \in 1 .. m : g[k] = s}
  <1>1. /\ g[0] = Begun
        /\ \A k \in 1 .. L : g[k] = Scan(p, k, g[k - 1])
        /\ g[0] \in ScanStates(p)
    BY AfterSteps
  <1>2. def \in Devices(p) /\ 1 \in Int /\ 0 \in Int /\ 0 + 0 = 0 /\ 1 - 1 = 0
    BY DEF Devices
  <1> HIDE DEF g
  <1>3. s \in ScanStates(p) /\ s.ok = TRUE /\ s.reading_dev = TRUE /\ s.dir_start = 1
        /\ s.dir_count = 0 /\ s.ve = def
    BY InDevice
  <1>4. g[1] = s
    <2> DEFINE t == g[0]
    <2>1. t = State(TRUE, FALSE, 1, 0, def) /\ t \in ScanStates(p)
      BY <1>1, BegunIs
    <2>2. 1 \in 1 .. L
      OBVIOUS
    <2>3. g[1] = Scan(p, 1, t)
      BY <1>1, <1>2, <2>2
    <2> HIDE DEF t
    <2>4. t.ok = TRUE /\ t.dir_start = 1 /\ t.dir_count = 0 /\ t.ve = def
      BY <2>1 DEF State
    <2>5. Scan(p, 1, t) = State(t.ok, TRUE, t.dir_start, t.dir_count, t.ve)
      <3> DEFINE i == 1
      <3>1. i = 1 /\ p[i] = "(" /\ t.ok /\ t \in ScanStates(p)
        BY <2>1, <2>4
      <3> HIDE DEF i
      <3>2. Scan(p, i, t) = State(t.ok, TRUE, t.dir_start, t.dir_count, t.ve)
        BY <3>1, ScanOpen
      <3> QED
        BY <3>2 DEF i
    <2> QED
      BY <2>3, <2>4, <2>5
  <1> HIDE DEF s
  <1>5. ASSUME NEW k \in 1 .. m - 1, k \in T PROVE k + 1 \in T
    <2> DEFINE i == k + 1
    <2>1. i \in 1 .. L /\ i \in 1 .. m /\ i \in 2 .. m /\ i - 1 = k /\ i # L
      OBVIOUS
    <2> HIDE DEF i
    <2>2. g[i] = Scan(p, i, s)
      BY <1>1, <1>5, <2>1
    <2>3. IsName(p[i])
      BY <2>1
    <2>4. Scan(p, i, s) = State(s.ok, s.reading_dev, s.dir_start, s.dir_count + CountsAtEnd(p, i), s.ve)
      BY <1>3, <2>3, ScanName
    <2>5. CountsAtEnd(p, i) = 0
      BY <2>1 DEF CountsAtEnd
    <2>6. g[i] = s
      BY <1>2, <1>3, <2>2, <2>4, <2>5 DEF s
    <2> QED
      BY <2>1, <2>6 DEF i
  <1>6. 1 .. m \subseteq T
    <2>1. 1 \in Int /\ m \in Int /\ (1 <= m => 1 \in T)
      BY <1>4
    <2> HIDE DEF T
    <2> QED
      BY <1>5, <2>1, UpFrom
  <1>7. m \in 1 .. m /\ g[m] = s
    BY <1>6
  <1> QED
    BY <1>7 DEF g, s

\* the scan of a path with a device goes on behind it
LEMMA EntersBehind ==
    ASSUME NEW p \in Seq(STRING), NEW e \in DeviceParts(p)
    PROVE  Enters(p, e, DeviceAt(p, e)) /\ IsRest(p, e)
  <1> DEFINE L == Len(p)
             w == DeviceAt(p, e)
             g == AfterOf(p)
             s == State(TRUE, TRUE, 1, 0, def)
  <1>1. /\ L \in Nat /\ e \in 2 .. L /\ p[1] = "(" /\ p[e] = ")"
        /\ \A j \in 2 .. e - 1 : IsName(p[j])
    BY DEF DeviceParts
  <1>2. IsRest(p, e)
    <2>1. DeviceParts(p) # {} /\ (CHOOSE k \in DeviceParts(p) : TRUE) = e
      BY <1>1, OneDevicePart
    <2>2. Rest(p) = SubSeq(p, e + 1, L)
      BY <2>1 DEF Rest
    <2> QED
      BY <1>1, <2>2 DEF IsRest
  <1>3. w \in Devices(p) /\ def \in Devices(p)
    BY <1>1 DEF Devices
  <1>4. g[e - 1] = s
    <2> DEFINE m == e - 1
    <2>1. m \in 1 .. L /\ m < L /\ \A j \in 2 .. m : IsName(p[j])
      BY <1>1
    <2> HIDE DEF m
    <2>2. AfterOf(p)[m] = State(TRUE, TRUE, 1, 0, def)
      BY <1>1, <2>1, ReadingName
    <2> QED
      BY <2>2 DEF m
  <1>5. g[e] = Scan(p, e, g[e - 1])
    BY <1>1, AfterSteps
  <1> HIDE DEF g, w
  <1>6. s \in ScanStates(p) /\ s.ok = TRUE /\ s.reading_dev = TRUE /\ s.dir_start = 1
        /\ s.dir_count = 0 /\ s.ve = def
    BY InDevice
  <1> HIDE DEF s
  <1>7. Scan(p, e, s) = State(s.ok, FALSE, e + 1, s.dir_count, w)
    BY <1>1, <1>6, ScanClose DEF w
  <1>8. g[e] = State(TRUE, FALSE, e + 1, 0, w)
    BY <1>4, <1>5, <1>6, <1>7
  <1>9. Enters(p, e, w)
    BY <1>1, <1>3, <1>8 DEF Enters, g
  <1> QED
    BY <1>2, <1>9 DEF w

\* and of one without from its start
LEMMA EntersAtStart ==
    ASSUME NEW p \in Seq(STRING), p # <<>>, p[1] # "("
    PROVE  DeviceParts(p) = {} /\ Enters(p, 0, def) /\ IsRest(p, 0)
  <1>1. DeviceParts(p) = {}
    BY DEF DeviceParts
  <1>2. AfterOf(p)[0] = State(TRUE, FALSE, 0 + 1, 0, def)
    <2>1. AfterOf(p)[0] = Begun /\ 0 + 1 = 1
      BY AfterSteps
    <2> QED
      BY <2>1, BegunIs
  <1>3. Enters(p, 0, def)
    BY <1>2 DEF Enters, Devices
  <1>4. SubSeq(p, 0 + 1, Len(p)) = p
    <2>1. 0 + 1 = 1
      OBVIOUS
    <2>2. SubSeq(p, 1, Len(p)) = p
      OBVIOUS
    <2> QED
      BY <2>1, <2>2
  <1>5. IsRest(p, 0)
    BY <1>1, <1>4 DEF IsRest, Rest
  <1> QED
    BY <1>1, <1>3, <1>5

\* a device that does not end is none
LEMMA NoDeviceEnd ==
    ASSUME NEW p \in Seq(STRING), p # <<>>, p[1] = "(", DeviceParts(p) = {}, NEW w
    PROVE  GotOf(p, Scanned(p)) = Nothing /\ MeantOn(p, w) = Nothing
  <1> DEFINE L == Len(p)
             T == {k \in 2 .. L : ~IsName(p[k])}
             g == AfterOf(p)
  <1>1. L \in Nat /\ L >= 1 /\ 1 \in 1 .. L
    OBVIOUS
  <1>2. MeantOn(p, w) = Nothing
    <2>1. Rest(p) = p
      BY DEF Rest
    <2>2. ~IsWellFormed(Rest(p))
      BY <1>1, <2>1 DEF IsWellFormed
    <2> QED
      BY <2>2 DEF MeantOn
  <1>3. CASE T # {}
    <2>1. PICK m \in T : \A k \in T : m <= k
      <3>1. T \subseteq Nat
        BY <1>1
      <3> HIDE DEF T
      <3> QED
        BY <1>3, <3>1, LeastExists
    <2>2. m \in 2 .. L /\ ~IsName(p[m])
      OBVIOUS
    <2>3. \A k \in 2 .. m - 1 : IsName(p[k])
      <3> SUFFICES ASSUME NEW k \in 2 .. m - 1, ~IsName(p[k]) PROVE FALSE
        OBVIOUS
      <3>1. k \in T /\ ~(m <= k)
        BY <1>1, <2>2
      <3> QED
        BY <2>1, <3>1
    <2> HIDE DEF T
    <2>4. p[m] \in {"(", "/"}
      <3>1. p[m] # ")"
        BY <2>2, <2>3 DEF DeviceParts
      <3> QED
        BY <2>2, <3>1 DEF IsName
    <2> DEFINE i == m - 1
               s == State(TRUE, TRUE, 1, 0, def)
    <2>5. i \in 1 .. L /\ i < L /\ i = m - 1 /\ m \in 1 .. L /\ m \in 0 .. L /\ m # 1
      BY <1>1, <2>2
    <2>6. \A k \in 2 .. i : IsName(p[k])
      BY <2>3
    <2> HIDE DEF i
    <2>7. g[i] = s
      BY <1>1, <2>5, <2>6, ReadingName
    <2>8. g[m] = Scan(p, m, g[m - 1])
      BY <1>1, <2>5, AfterSteps
    <2>9. s \in ScanStates(p) /\ s.ok = TRUE /\ s.reading_dev = TRUE
      BY InDevice
    <2> HIDE DEF s, g
    <2>10. ~g[m].ok
      <3>1. g[m] = Scan(p, m, s)
        BY <2>5, <2>7, <2>8
      <3>2. CASE p[m] = "("
        <4>1. Scan(p, m, s) = State(FALSE, s.reading_dev, s.dir_start, s.dir_count, s.ve)
          BY <2>5, <2>9, <3>2, ScanOpen
        <4> QED
          BY <3>1, <4>1 DEF State
      <3>3. CASE p[m] = "/"
        <4>1. Scan(p, m, s) = State(FALSE, s.reading_dev, s.dir_start, s.dir_count, s.ve)
          BY <2>9, <3>3, ScanSlash
        <4> QED
          BY <3>1, <4>1 DEF State
      <3> QED
        BY <2>4, <3>2, <3>3
    <2>11. ~Scanned(p).ok
      BY <1>1, <2>5, <2>10, StaysFailed DEF g
    <2> QED
      BY <1>2, <2>11 DEF GotOf
  <1>4. CASE T = {} /\ L = 1
    <2>1. g[1] = State(TRUE, TRUE, 1, 0, def)
      <3>1. \A k \in 2 .. 1 : IsName(p[k])
        OBVIOUS
      <3> QED
        BY <1>1, <3>1, ReadingName
    <2>2. Scanned(p) = State(TRUE, TRUE, 1, 0, def)
      BY <1>4, <2>1, ScannedIs
    <2>3. Scanned(p).dir_count = 0
      BY <2>2 DEF State
    <2> QED
      BY <1>2, <2>3 DEF GotOf
  <1>5. CASE T = {} /\ L # 1
    <2> DEFINE i == L - 1
               s == State(TRUE, TRUE, 1, 0, def)
    <2>1. L \in 2 .. L /\ L \in 1 .. L
      <3> HIDE DEF L
      <3> QED
        BY <1>1, <1>5
    <2>2. i \in 1 .. L /\ i < L /\ i = L - 1 /\ L \in 1 .. L /\ L \in 2 .. L
      <3> HIDE DEF L
      <3> QED
        BY <1>1, <2>1
    <2>3. \A k \in 2 .. L : IsName(p[k])
      BY <1>5
    <2>4. \A k \in 2 .. i : IsName(p[k])
      BY <2>3
    <2> HIDE DEF i
    <2>5. g[i] = s
      BY <1>1, <2>2, <2>4, ReadingName
    <2>6. g[L] = Scan(p, L, g[L - 1])
      BY <1>1, <2>2, AfterSteps
    <2>7. s \in ScanStates(p) /\ s.ok = TRUE /\ s.reading_dev = TRUE /\ s.dir_start = 1
          /\ s.dir_count = 0 /\ s.ve = def
      BY InDevice
    <2> HIDE DEF s, g
    <2>8. Scan(p, L, s) = State(s.ok, s.reading_dev, s.dir_start, s.dir_count + CountsAtEnd(p, L), s.ve)
      <3>1. IsName(p[L])
        BY <2>2, <2>3
      <3> HIDE DEF L
      <3> QED
        BY <2>7, <3>1, ScanName
    <2>9. CountsAtEnd(p, L) = 1 /\ 0 + 1 = 1
      BY DEF CountsAtEnd
    <2>10. g[L] = State(TRUE, TRUE, 1, 1, def)
      BY <2>2, <2>5, <2>6, <2>7, <2>8, <2>9
    <2>11. Scanned(p) = State(TRUE, TRUE, 1, 1, def)
      BY <2>10, ScannedIs DEF g
    <2>12. GotOf(p, Scanned(p)) = IF def # NoEntry THEN Found(def, PartsFrom(p, 1, 1)) ELSE Nothing
      <3> DEFINE t == Scanned(p)
      <3>1. t.ok = TRUE /\ t.dir_start = 1 /\ t.dir_count = 1 /\ t.ve = def /\ 1 > 0
        BY <2>11 DEF State
      <3> HIDE DEF t
      <3>2. Parts(p, t) = PartsFrom(p, 1, 1)
        BY <3>1, PartsAre DEF PartsFrom
      <3>3. GotOf(p, t) = IF def # NoEntry THEN Found(def, PartsFrom(p, 1, 1)) ELSE Nothing
        BY <3>1, <3>2 DEF GotOf
      <3> QED
        BY <3>3 DEF t
    <2> DEFINE q == PartsFrom(p, 1, 1)
    <2>13. Len(q[1]) # 1
      <3>1. BeginOf(p, 1, 1)[1] = 1
        BY <1>1, BeginSteps
      <3>2. PartEnd(p, 1) \in Nat /\ PartEnd(p, 1) > L
        <4>1. \A j \in 1 .. L : p[j] # "/"
          <5>1. \A j \in 1 .. L : j = 1 \/ j \in 2 .. L
            BY <1>1
          <5> QED
            BY <2>3, <5>1 DEF IsName
        <4>2. L \in 1 .. L /\ 1 \in Nat
          BY <1>1
        <4> QED
          BY <1>1, <4>1, <4>2, PartEndBehind
      <3> DEFINE e == PartEnd(p, 1)
      <3>3. 1 \in 1 .. 1
        OBVIOUS
      <3>4. q[1] = SubSeq(p, 1, e - 1)
        BY <3>1, <3>3 DEF PartsFrom
      <3>5. e \in Nat /\ e >= 1 /\ e > L /\ 1 \in 1 .. L + 1
        BY <1>1, <3>2
      <3> HIDE DEF e
      <3>6. Len(SubSeq(p, 1, e - 1)) = e - 1
        BY <3>5, PartLength
      <3> QED
        BY <1>1, <1>5, <3>4, <3>5, <3>6
    <2>14. Len(q) = 1 /\ \E X : q \in Seq(X)
      BY PartsFromSeq
    <2> HIDE DEF q
    <2>15. Found(def, q) = Nothing
      <3>1. PICK X : q \in Seq(X)
        BY <2>14
      <3>2. 1 \in 1 .. Len(q)
        BY <2>14
      <3> QED
        BY <2>13, <3>1, <3>2, FoundNothing
    <2> QED
      BY <1>2, <2>12, <2>15 DEF q
  <1> QED
    BY <1>3, <1>4, <1>5

\* the entry that find_ve gives is that of the latest mount
LEMMA LatestIsFound ==
    ASSUME MountInv, NEW p \in Seq(STRING), NEW e \in DeviceParts(p)
    PROVE  Device(p) = DeviceAt(p, e)
  <1> DEFINE n == Len(first)
             name == SubSeq(p, 2, e - 1)
             named == {k \in 1 .. n : p[2] = first[k].name /\ p[3] = ")"}
             IsLatest(k) == \A j \in named : first[k].init >= first[j].init
  <1>1. /\ e \in 2 .. Len(p) /\ p[e] = ")" /\ \A j \in 2 .. e - 1 : IsName(p[j])
        /\ DeviceParts(p) # {} /\ Len(p) \in Nat
    BY DEF DeviceParts
  <1>2. /\ ListOK(first, inits) /\ inits \in Nat /\ first \in Seq(Entries) /\ n \in Nat
        /\ \A k \in 1 .. n : first[k] \in EntriesTo(inits)
    BY ListElement DEF MountInv, TypeOK
  <1>3. \A k \in 1 .. n : /\ first[k].init \in 1 .. inits /\ first[k].part \in Partition
                          /\ first[k].name \in STRING /\ IsName(first[k].name)
                          /\ first[k].name = DeviceName[first[k].part]
    BY <1>2, EntryFields DEF ListOK
  <1>4. Device(p) = IF named = {} THEN NoEntry ELSE first[CHOOSE k \in named : IsLatest(k)]
    BY <1>1 DEF Device
  <1>5. Len(name) = e - 2
    BY <1>1
  <1>6. CASE e = 3
    <2>1. name = <<p[2]>> /\ p[3] = ")"
      <3>1. /\ 2 \in 1 .. Len(p) + 1 /\ e \in Nat /\ e >= 2 /\ e = 2 + 1
        BY <1>1, <1>6
      <3>2. SubSeq(p, 2, e - 1) = <<p[2]>>
        BY <3>1, PartLength
      <3> QED
        BY <1>1, <1>6, <3>2
    <2> HIDE DEF name
    <2>2. \A k \in 1 .. n : IsNamed(first, k, name) <=> first[k].name = p[2]
      BY <2>1 DEF IsNamed
    <2>3. \A k \in 1 .. n : IsNamed(first, k, name) <=> k \in named
      BY <2>1, <2>2
    <2>4. CASE named = {}
      <3>1. \A k \in 1 .. n : ~IsNamed(first, k, name)
        BY <2>3, <2>4
      <3>2. find_ve(name) = NoEntry
        BY <3>1, FindsNone
      <3> QED
        BY <1>4, <2>4, <3>2 DEF name, DeviceAt
    <2>5. CASE named # {}
      <3>1. PICK i \in named : TRUE
        BY <2>5
      <3>2. IsNamed(first, i, name)
        BY <2>3, <3>1
      <3>3. PICK k \in 1 .. n : /\ IsNamed(first, k, name) /\ find_ve(name) = first[k]
                                /\ \A j \in 1 .. k - 1 : ~IsNamed(first, j, name)
        BY <1>2, <3>2, FindsFirst
      <3>4. k \in named
        BY <2>3, <3>3
      <3>5. \A j \in named : j \in 1 .. n /\ first[j].name = p[2]
        OBVIOUS
      <3>6. ASSUME NEW j \in named, j # k PROVE k \in 1 .. j - 1 /\ After(first[k], first[j])
        <4>1. j \in 1 .. n /\ j \notin 1 .. k - 1
          BY <2>3, <3>3, <3>5
        <4>2. k \in 1 .. j - 1
          BY <1>2, <3>6, <4>1
        <4> QED
          BY <1>2, <4>1, <4>2 DEF ListOK
      <3>7. IsLatest(k)
        <4> SUFFICES ASSUME NEW j \in named PROVE first[k].init >= first[j].init
          OBVIOUS
        <4>1. first[k].init \in Int /\ first[j].init \in Int
          BY <1>2, <1>3, <3>5
        <4>2. j # k => After(first[k], first[j])
          BY <3>6
        <4> QED
          BY <4>1, <4>2 DEF After
      <3>8. ASSUME NEW j \in named, IsLatest(j) PROVE j = k
        <4> SUFFICES ASSUME j # k PROVE FALSE
          OBVIOUS
        <4>1. first[j].init >= first[k].init
          BY <3>4, <3>8
        <4>2. After(first[k], first[j])
          BY <3>6
        <4>3. /\ first[k].init \in Int /\ first[j].init \in Int
              /\ first[k].part \in Partition /\ first[j].part \in Partition
          BY <1>2, <1>3, <3>5
        <4>4. first[k].part > first[j].part
          BY <4>1, <4>2, <4>3 DEF After
        <4>5. DeviceName[first[k].part] = DeviceName[first[j].part]
          BY <1>3, <3>4, <3>5
        <4>6. first[k].part = first[j].part
          BY <4>3, <4>5, MountAssumption
        <4> QED
          BY <4>3, <4>4, <4>6 DEF Partition
      <3> DEFINE c == CHOOSE j \in named : IsLatest(j)
      <3>9. c \in named /\ IsLatest(c)
        <4> HIDE DEF named, IsLatest
        <4> QED
          BY <3>4, <3>7
      <3>10. c = k
        BY <3>8, <3>9
      <3>11. Device(p) = first[c]
        BY <1>4, <2>5
      <3> HIDE DEF c
      <3> QED
        BY <3>3, <3>10, <3>11 DEF name, DeviceAt
    <2> QED
      BY <2>4, <2>5
  <1>7. CASE e # 3
    <2>1. named = {}
      <3> SUFFICES ASSUME NEW k \in named PROVE FALSE
        OBVIOUS
      <3>1. p[2] = first[k].name /\ p[3] = ")" /\ IsName(first[k].name)
        BY <1>3
      <3>2. CASE e = 2
        BY <1>1, <3>1, <3>2 DEF IsName
      <3>3. CASE e > 3
        <4>1. 3 \in 2 .. e - 1
          BY <1>1, <3>3
        <4> QED
          BY <1>1, <3>1, <4>1 DEF IsName
      <3> QED
        BY <1>1, <1>7, <3>2, <3>3
    <2>2. ASSUME NEW k \in 1 .. n PROVE ~IsNamed(first, k, name)
      <3>1. Len(<<first[k].name>>) = 1 /\ Len(name) # 1
        BY <1>1, <1>5, <1>7
      <3> HIDE DEF name
      <3> QED
        BY <3>1 DEF IsNamed
    <2>3. find_ve(name) = NoEntry
      <3> HIDE DEF name
      <3> QED
        BY <2>2, FindsNone
    <2> QED
      BY <1>4, <2>1, <2>3 DEF DeviceAt
  <1> QED
    BY <1>6, <1>7

-----------------------------------------------------------------------------
(* Opening *)

\* so mb_fopen finds what the path means
LEMMA OpenMeans ==
    ASSUME MountInv, NEW p \in Seq(STRING), p # <<>>
    PROVE  GotOf(p, Scanned(p)) = Meant(p)
  <1>1. Meant(p) = MeantOn(p, Device(p))
    BY DEF Meant, MeantOn
  <1>2. CASE p[1] # "("
    <2>1. DeviceParts(p) = {} /\ Enters(p, 0, def) /\ IsRest(p, 0)
      BY <1>2, EntersAtStart
    <2>2. Device(p) = def
      BY <2>1 DEF Device, DefaultOf, MountInv
    <2>3. GotOf(p, Scanned(p)) = MeantOn(p, def)
      BY <2>1, BehindDevice
    <2> QED
      BY <1>1, <2>2, <2>3
  <1>3. CASE p[1] = "(" /\ DeviceParts(p) = {}
    BY <1>1, <1>3, NoDeviceEnd
  <1>4. CASE DeviceParts(p) # {}
    <2>1. PICK e : e \in DeviceParts(p)
      BY <1>4
    <2> DEFINE w == DeviceAt(p, e)
    <2>2. Enters(p, e, w) /\ IsRest(p, e)
      BY <2>1, EntersBehind
    <2>3. Device(p) = w
      BY <2>1, LatestIsFound
    <2> HIDE DEF w
    <2>4. GotOf(p, Scanned(p)) = MeantOn(p, w)
      BY <2>2, BehindDevice
    <2> QED
      BY <1>1, <2>3, <2>4
  <1> QED
    BY <1>2, <1>3, <1>4

\* what a path means depends on the list and on the choice alone
LEMMA MeantStays ==
    ASSUME UNCHANGED <<first, chosen>>, NEW p
    PROVE  Meant(p)' = Meant(p)
  <1>1. Device(p)' = Device(p)
    BY DEF Device
  <1> QED
    BY <1>1 DEF Meant

GotMeant == opened # NotOpen => opened.got = Meant(opened.path)

\* nothing is opened, or nothing that it depends on changes
LEMMA GotStays ==
    ASSUME GotMeant, opened' = opened, opened = NotOpen \/ UNCHANGED <<first, chosen>>
    PROVE  GotMeant'
  <1>1. CASE opened = NotOpen
    BY <1>1 DEF GotMeant, NotOpen
  <1>2. CASE opened # NotOpen
    <2>1. UNCHANGED <<first, chosen>> /\ opened' = opened
      BY <1>2
    <2>2. Device(opened.path)' = Device(opened.path)
      BY <2>1 DEF Device
    <2>3. Meant(opened.path)' = Meant(opened.path)
      BY <2>1, <2>2 DEF Meant
    <2> QED
      BY <2>1, <2>3 DEF GotMeant
  <1> QED
    BY <1>1, <1>2

\* mb_fopen finds what the path means, on the device it means, and nothing for
\* any other path: split_dir, find_ve and read_directory, for paths of any
\* length, any tree of names and any history of mounts.
THEOREM OpenFindsFileHolds == Spec => []OpenFindsFile
  <1>1. Init => GotMeant
    BY DEF Init, GotMeant
  <1>2. MountInv /\ GotMeant /\ [Next]_vars => GotMeant'
    <2> SUFFICES ASSUME MountInv, GotMeant, [Next]_vars PROVE GotMeant'
      OBVIOUS
    <2>1. CASE ChangeCard
      BY <2>1, GotStays DEF ChangeCard
    <2>2. CASE libfs_init
      BY <2>2, GotStays DEF libfs_init, Idle
    <2>3. CASE RegisterPartition
      BY <2>3, GotStays DEF RegisterPartition, MountInv
    <2>4. CASE SkipPartition
      BY <2>4, GotStays DEF SkipPartition, MountInv
    <2>5. CASE PartitionFails
      BY <2>5, GotStays DEF PartitionFails, MountInv
    <2>6. CASE vfs_set_default
      BY <2>6, GotStays DEF vfs_set_default, Idle
    <2>7. ASSUME NEW p \in Paths, mb_fopen(p) PROVE GotMeant'
      <3>1. p \in Seq(STRING) /\ p # <<>>
        BY <2>7, MountAssumption DEF mb_fopen
      <3>2. opened' = [path |-> p, got |-> GotOf(p, Scanned(p))]
        BY <2>7 DEF mb_fopen, GotOf
      <3>3. GotOf(p, Scanned(p)) = Meant(p)
        BY <3>1, OpenMeans
      <3>4. Meant(p)' = Meant(p)
        BY <2>7, MeantStays DEF mb_fopen
      <3>5. opened'.path = p /\ opened'.got = Meant(p)
        BY <3>2, <3>3
      <3> QED
        BY <3>4, <3>5 DEF GotMeant
    <2>8. CASE mb_fclose
      BY <2>8 DEF mb_fclose, GotMeant, NotOpen
    <2>9. CASE UNCHANGED vars
      BY <2>9, GotStays DEF vars
    <2> QED
      BY <2>1, <2>2, <2>3, <2>4, <2>5, <2>6, <2>7, <2>8, <2>9 DEF Next
  <1>3. GotMeant => OpenFindsFile
    BY DEF GotMeant, OpenFindsFile
  <1> QED
    BY <1>1, <1>2, <1>3, MountInvariant, PTL DEF Spec

=============================================================================
