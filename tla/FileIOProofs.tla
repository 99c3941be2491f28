---------------------------- MODULE FileIOProofs ----------------------------
(***************************************************************************)
(* Proofs about FileIO: what a call on an open file moves and leaves, for  *)
(* every size of block, file and request and every fault.                  *)
(***************************************************************************)
EXTENDS FileIO, TLAPS

USE FileAssumption

History ==
    /\ before \in [op : {"open", "seek", "read", "write", "refused"}, data : [Offset -> Byte],
                   pos : Int, len : 0 .. Room, size : 0 .. MaxBytes,
                   faulty : BOOLEAN, ever : BOOLEAN]
    /\ before.faulty => before.ever

\* only a whole block that fails takes the position back, by one and once
Placed == pos >= -1 /\ pos <= len /\ (pos = -1 => before.ever)

\* the request in progress: where its loop is and how far it has come
Request ==
    io.op # "none" =>
        /\ io.start \in -1 .. Room /\ io.size \in 0 .. MaxBytes
        /\ io.total = pos - io.start /\ io.total >= 0
        /\ io.cur >= FirstBlock
        /\ io.start >= 0 => pos = IF io.cur <= LastBlock THEN Here ELSE io.start + io.size
        /\ before.op = io.op /\ before.pos = io.start /\ before.size = io.size
        /\ ~before.faulty

ReadSoFar ==
    io.op = "read" /\ io.start >= 0 =>
        /\ io.start + io.size <= len
        /\ \A j \in Place : j < io.total => mem[j] = data[io.start + j]

WrittenSoFar ==
    io.op = "write" =>
        /\ mem \in [Place -> Byte]
        /\ len = IF pos > before.len THEN pos ELSE before.len
        /\ io.start >= 0 => \A j \in Place : j < io.total => data[io.start + j] = mem[j]

AppendsAtEnd == mode = "a+" /\ before.op = "write" => before.pos = before.len

Inv ==
    /\ TypeOK /\ History /\ Placed /\ Request /\ ReadSoFar /\ WrittenSoFar
    /\ AppendsAtEnd /\ WriteStaysInRange /\ ReadReturnsFile /\ WriteStoresAll

-----------------------------------------------------------------------------
(* Arithmetic *)

LEMMA DivMod ==
    ASSUME NEW n \in Nat, NEW m \in Nat \ {0}
    PROVE  n \div m \in Nat /\ n % m \in 0 .. m - 1 /\ n = (n \div m) * m + (n % m)
  OBVIOUS

LEMMA NextMultiple ==
    ASSUME NEW a \in Nat, NEW b \in Nat, NEW m \in Nat, a < b
    PROVE  (a + 1) * m = a * m + m /\ (a + 1) * m <= b * m
  <1>1. (b - (a + 1)) * m >= 0
    BY b - (a + 1) \in Nat, (b - (a + 1)) * m \in Nat
  <1> QED
    BY <1>1

LEMMA DivMonotone ==
    ASSUME NEW a \in Nat, NEW b \in Nat, NEW m \in Nat \ {0}, a <= b
    PROVE  a \div m <= b \div m
  <1>1. SUFFICES ASSUME b \div m < a \div m PROVE FALSE
    BY DivMod
  <1> DEFINE p == a \div m
             q == b \div m
  <1>2. p \in Nat /\ q \in Nat /\ a >= p * m /\ b < q * m + m
    <2>1. p \in Nat /\ a = p * m + (a % m) /\ a % m \in 0 .. m - 1
      BY DivMod
    <2>2. q \in Nat /\ b = q * m + (b % m) /\ b % m \in 0 .. m - 1
      BY DivMod
    <2> HIDE DEF p, q
    <2>3. p * m \in Int /\ q * m \in Int
      BY <2>1, <2>2
    <2> QED
      BY <2>1, <2>2, <2>3
  <1>3. q < p
    BY <1>1
  <1> HIDE DEF p, q
  <1>4. q * m + m <= p * m
    BY <1>2, <1>3, NextMultiple
  <1>5. p * m \in Int /\ q * m \in Int
    BY <1>2
  <1> QED
    BY <1>2, <1>4, <1>5

LEMMA ModBelow == ASSUME NEW n \in Nat, NEW m \in Nat, n < m PROVE n % m = n
  OBVIOUS

LEMMA RoomIsNat == Room \in Nat
  BY DEF Room

\* positions of the file are the same in 32 bits
LEMMA UIsIdentity == \A n \in 0 .. Room + MaxBytes : U(n) = n
  BY RoomIsNat, ModBelow DEF U

\* A request of which the first piece begins head bytes behind a multiple of m
\* and the last one ends tail bytes behind one: what each piece covers
LEMMA Pieces ==
    ASSUME NEW start \in Nat, NEW size \in Nat, NEW m \in Nat \ {0}, NEW cur \in Nat,
           NEW first \in Nat, NEW head \in 0 .. m - 1, start = first * m + head,
           NEW last \in Nat, NEW tail \in 0 .. m - 1, start + size = last * m + tail,
           first <= cur, cur <= last,
           NEW from, from = IF cur = first THEN head ELSE 0,
           NEW to, to = IF cur = last THEN tail ELSE m
    PROVE  /\ from \in 0 .. m /\ to \in 0 .. m /\ from <= to
           /\ cur * m \in Nat /\ (cur + 1) * m = cur * m + m
           /\ start <= cur * m + from /\ (cur = first => start = cur * m + from)
           /\ cur * m + to <= start + size
           /\ (cur = last => cur * m + to = start + size)
  <1> DEFINE here == cur * m
             low  == first * m
             high == last * m
  <1>1. here \in Nat /\ low \in Nat /\ high \in Nat
    OBVIOUS
  <1>2. (cur + 1) * m = here + m
    OBVIOUS
  <1>3. /\ cur = first => low = here
        /\ cur # first => low + m <= here
    BY NextMultiple
  <1>4. /\ cur = last => high = here
        /\ cur # last => here + m <= high
    BY NextMultiple
  <1>5. start = low + head /\ start + size = high + tail
    OBVIOUS
  <1> HIDE DEF here, low, high
  <1>6. start <= here + from /\ (cur = first => start = here + from)
    BY <1>1, <1>3, <1>5
  <1>7. here + to <= start + size /\ (cur = last => here + to = start + size)
    BY <1>1, <1>4, <1>5
  <1>8. from \in 0 .. m /\ to \in 0 .. m
    OBVIOUS
  <1>9. from <= to
    <2>1. CASE cur = first /\ cur = last
      BY <2>1, <1>1, <1>6, <1>7, <1>8
    <2>2. CASE cur # first \/ cur # last
      BY <2>2
    <2> QED
      BY <2>1, <2>2
  <1> QED
    BY <1>1, <1>2, <1>6, <1>7, <1>8, <1>9 DEF here

-----------------------------------------------------------------------------
(* The segment of the current block *)

LEMMA RequestBlocks ==
    ASSUME TypeOK, Request, io.op # "none", io.start >= 0
    PROVE  /\ io.start \in Nat /\ io.size \in Nat /\ io.cur \in Nat
           /\ U(io.start) = io.start /\ U(io.start + io.size) = io.start + io.size
           /\ FirstBlock = io.start \div BlockSize
           /\ LastBlock = (io.start + io.size) \div BlockSize
           /\ FirstBlock \in Nat /\ LastBlock \in Nat /\ FirstBlock <= io.cur
  <1>1. io.start \in 0 .. Room /\ io.size \in 0 .. MaxBytes /\ FirstBlock <= io.cur
    BY RoomIsNat DEF Request
  <1>2. io.start \in Nat /\ io.size \in Nat /\ io.start + io.size \in 0 .. Room + MaxBytes
    BY <1>1, RoomIsNat
  <1>3. io.start \in 0 .. Room + MaxBytes
    BY <1>1, RoomIsNat
  <1>4. U(io.start) = io.start /\ U(io.start + io.size) = io.start + io.size
    BY <1>2, <1>3, UIsIdentity
  <1>5. io.start \div BlockSize \in Nat
    BY <1>2, DivMod
  <1>6. (io.start + io.size) \div BlockSize \in Nat
    BY <1>2, io.start + io.size \in Nat, DivMod
  <1> QED
    BY <1>1, <1>2, <1>4, <1>5, <1>6 DEF TypeOK, FirstBlock, LastBlock

LEMMA SegmentFacts ==
    ASSUME TypeOK, Request, io.op # "none", io.start >= 0, io.cur <= LastBlock
    PROVE  /\ Segment \in 0 .. BlockSize
           /\ Here \in Nat /\ Here >= io.start
           /\ (io.cur = FirstBlock => Here = io.start)
           /\ Here + Segment <= io.start + io.size
           /\ (io.cur = LastBlock => Here + Segment = io.start + io.size)
           /\ (io.cur < LastBlock => Here + Segment = (io.cur + 1) * BlockSize)
           /\ (HasBlock => Here + Segment <= Room)
           /\ (~HasBlock => Here >= Room)
  <1>1. /\ io.start \in Nat /\ io.size \in Nat /\ io.cur \in Nat
        /\ U(io.start) = io.start /\ U(io.start + io.size) = io.start + io.size
        /\ FirstBlock = io.start \div BlockSize
        /\ LastBlock = (io.start + io.size) \div BlockSize
        /\ FirstBlock <= io.cur
    BY RequestBlocks
  <1>2. From = IF io.cur = io.start \div BlockSize THEN io.start % BlockSize ELSE 0
    BY <1>1 DEF From
  <1>3. To = IF io.cur = (io.start + io.size) \div BlockSize
             THEN (io.start + io.size) % BlockSize ELSE BlockSize
    BY <1>1 DEF To
  <1>4. /\ From \in 0 .. BlockSize /\ To \in 0 .. BlockSize /\ From <= To
        /\ io.cur * BlockSize \in Nat
        /\ (io.cur + 1) * BlockSize = io.cur * BlockSize + BlockSize
        /\ io.start <= io.cur * BlockSize + From
        /\ (io.cur = io.start \div BlockSize => io.start = io.cur * BlockSize + From)
        /\ io.cur * BlockSize + To <= io.start + io.size
        /\ (io.cur = (io.start + io.size) \div BlockSize =>
              io.cur * BlockSize + To = io.start + io.size)
    <2> DEFINE m     == BlockSize
               start == io.start
               size  == io.size
               cur   == io.cur
               first == start \div m
               head  == start % m
               last  == (start + size) \div m
               tail  == (start + size) % m
               from  == From
               to    == To
    <2>1. start \in Nat /\ size \in Nat /\ cur \in Nat /\ m \in Nat \ {0}
      BY <1>1
    <2>2. first \in Nat /\ head \in 0 .. m - 1 /\ start = first * m + head
      BY <2>1, DivMod
    <2>3. start + size \in Nat
      BY <2>1
    <2>4. last \in Nat /\ tail \in 0 .. m - 1 /\ start + size = last * m + tail
      BY <2>1, <2>3, DivMod
    <2>5. first <= cur /\ cur <= last
      BY <1>1
    <2>6. from = IF cur = first THEN head ELSE 0
      BY <1>2
    <2>7. to = IF cur = last THEN tail ELSE m
      BY <1>3
    <2> HIDE DEF m, start, size, cur, first, head, last, tail, from, to
    <2>8. /\ from \in 0 .. m /\ to \in 0 .. m /\ from <= to
          /\ cur * m \in Nat /\ (cur + 1) * m = cur * m + m
          /\ start <= cur * m + from /\ (cur = first => start = cur * m + from)
          /\ cur * m + to <= start + size
          /\ (cur = last => cur * m + to = start + size)
      BY <2>1, <2>2, <2>4, <2>5, <2>6, <2>7, Pieces
    <2> QED
      BY <2>8 DEF m, start, size, cur, first, last, from, to
  <1>5. io.cur # LastBlock => To = BlockSize
    BY DEF To
  <1>6. Here = io.cur * BlockSize + From /\ Segment = To - From
    BY DEF Here, Segment
  <1>7. Here + Segment = io.cur * BlockSize + To
    BY <1>4, <1>6
  <1>8. HasBlock => io.cur * BlockSize + BlockSize <= Room
    <2>1. ASSUME HasBlock PROVE (io.cur + 1) * BlockSize <= NumBlocks * BlockSize
      BY <2>1, <1>1, NextMultiple DEF HasBlock
    <2> QED
      BY <2>1, <1>4 DEF Room
  <1>9. ~HasBlock => io.cur * BlockSize >= Room
    <2>1. CASE io.cur = NumBlocks
      BY <2>1 DEF Room
    <2>2. CASE NumBlocks < io.cur
      <3>1. (NumBlocks + 1) * BlockSize = NumBlocks * BlockSize + BlockSize
            /\ (NumBlocks + 1) * BlockSize <= io.cur * BlockSize
        BY <1>1, <2>2, NextMultiple
      <3> QED
        BY <3>1, <1>4, RoomIsNat DEF Room
    <2> QED
      BY <1>1, <2>1, <2>2 DEF HasBlock
  <1>10. FirstBlock \in Nat /\ LastBlock \in Nat
    BY RequestBlocks
  <1>11. /\ Segment \in 0 .. BlockSize
         /\ Here \in Nat /\ Here >= io.start
         /\ (io.cur = FirstBlock => Here = io.start)
         /\ Here + Segment <= io.start + io.size
         /\ (io.cur = LastBlock => Here + Segment = io.start + io.size)
    <2> DEFINE base == io.cur * BlockSize
    <2>1. /\ From \in 0 .. BlockSize /\ To \in 0 .. BlockSize /\ From <= To
          /\ base \in Nat /\ io.start <= base + From
          /\ (io.cur = FirstBlock => io.start = base + From)
          /\ base + To <= io.start + io.size
          /\ (io.cur = LastBlock => base + To = io.start + io.size)
      BY <1>1, <1>4
    <2>2. Here = base + From /\ Segment = To - From /\ Here + Segment = base + To
      BY <1>6, <1>7
    <2> HIDE DEF base
    <2>3. io.start \in Nat /\ io.size \in Nat /\ BlockSize \in Nat
      BY <1>1 DEF FileAssumption
    <2> HIDE FileAssumption
    <2>4. From \in Int /\ To \in Int /\ 0 <= From /\ From <= To /\ To <= BlockSize
      BY <2>1, <2>3
    <2>5. Segment \in 0 .. BlockSize
      BY <2>2, <2>3, <2>4
    <2>6. Here \in Nat /\ Here >= io.start
      BY <2>1, <2>2, <2>3, <2>4
    <2>7. io.cur = FirstBlock => Here = io.start
      BY <2>1, <2>2
    <2>8. Here + Segment <= io.start + io.size
      BY <2>1, <2>2
    <2>9. io.cur = LastBlock => Here + Segment = io.start + io.size
      BY <2>1, <2>2
    <2> QED
      BY <2>5, <2>6, <2>7, <2>8, <2>9
  <1>12. io.cur < LastBlock => Here + Segment = (io.cur + 1) * BlockSize
    <2> HIDE FileAssumption
    <2>1. io.cur < LastBlock => To = BlockSize
      BY <1>1, <1>5, <1>10
    <2> DEFINE base == io.cur * BlockSize
               next == (io.cur + 1) * BlockSize
    <2>2. next = base + BlockSize /\ Here + Segment = base + To
      BY <1>4, <1>7
    <2> HIDE DEF base, next
    <2>3. io.cur < LastBlock => Here + Segment = next
      BY <2>1, <2>2
    <2> QED
      BY <2>3 DEF next
  <1>13. HasBlock => Here + Segment <= Room
    BY <1>4, <1>7, <1>8, RoomIsNat
  <1>14. ~HasBlock => Here >= Room
    BY <1>4, <1>6, <1>9, RoomIsNat
  <1> QED
    BY <1>11, <1>12, <1>13, <1>14

\* a request before the file has no block, its number being taken in 32 bits
LEMMA NothingBefore ==
    ASSUME TypeOK, Request, io.op # "none", ~(io.start >= 0)
    PROVE  io.start = -1 /\ ~HasBlock
  <1>1. io.start = -1 /\ FirstBlock <= io.cur /\ io.cur \in Nat
    BY RoomIsNat DEF Request, TypeOK
  <1>2. U(-1) = Word - 1
    BY RoomIsNat DEF U
  <1>3. Word - 1 \in Nat /\ Word - 1 >= Room
    BY RoomIsNat
  <1>4. Room \div BlockSize <= (Word - 1) \div BlockSize
    BY <1>3, RoomIsNat, DivMonotone
  <1>5. Room \div BlockSize = NumBlocks
    BY DEF Room
  <1>6. (Word - 1) \div BlockSize \in Nat
    BY <1>3, DivMod
  <1>7. FirstBlock = (Word - 1) \div BlockSize
    BY <1>1, <1>2 DEF FirstBlock
  <1> QED
    BY <1>1, <1>4, <1>5, <1>6, <1>7 DEF HasBlock

-----------------------------------------------------------------------------
(* A call begins *)

LEMMA StartOfRequest ==
    ASSUME NEW p \in 0 .. Room, NEW n \in 0 .. MaxBytes
    PROVE  /\ U(p) \div BlockSize <= U(p + n) \div BlockSize
           /\ (U(p) \div BlockSize) * BlockSize + (U(p) % BlockSize) = p
  <1>1. p \in Nat /\ n \in Nat /\ p \in 0 .. Room + MaxBytes /\ p + n \in 0 .. Room + MaxBytes
    BY RoomIsNat
  <1>2. U(p) = p /\ U(p + n) = p + n
    BY <1>1, UIsIdentity
  <1>3. p \div BlockSize <= (p + n) \div BlockSize
    BY <1>1, DivMonotone
  <1>4. p = (p \div BlockSize) * BlockSize + (p % BlockSize)
    BY <1>1, DivMod
  <1> QED
    BY <1>2, <1>3, <1>4

LEMMA UDivIsNat == \A n \in Int : U(n) \div BlockSize \in Nat
  <1> TAKE n \in Int
  <1>1. Word \in Nat \ {0}
    BY RoomIsNat
  <1>2. U(n) \in Nat
    BY <1>1 DEF U
  <1> QED
    BY <1>2, DivMod

LEMMA BeginInv ==
    ASSUME Inv, NEW op \in {"read", "write"}, NEW p \in -1 .. Room, NEW n \in 0 .. MaxBytes,
           Begin(op, p, n), pos' = p, UNCHANGED <<data, len, mode, eof, fwrite, ret>>,
           mem' \in [Place -> Byte \cup {Junk}], op = "write" => mem' \in [Place -> Byte],
           p <= len, p = -1 => before.ever, op = "read" /\ p >= 0 => p + n <= len,
           op = "write" /\ mode = "a+" => p = len
    PROVE  Inv'
  <1> USE DEF Inv, Begin, Snapshot
  <1>1. io' = [op |-> op, start |-> p, size |-> n, cur |-> U(p) \div BlockSize, total |-> 0]
    OBVIOUS
  <1>2. before' = [op |-> op, data |-> data, pos |-> p, len |-> len, size |-> n,
                   faulty |-> FALSE, ever |-> before.ever]
    OBVIOUS
  <1>3. p \in Int /\ n \in Nat /\ U(p) \div BlockSize \in Nat
    BY UDivIsNat, RoomIsNat
  <1>4. TypeOK'
    BY <1>1, <1>3 DEF TypeOK
  <1>5. History'
    BY <1>2, <1>3 DEF History, TypeOK
  <1>6. Placed'
    BY <1>2, RoomIsNat DEF Placed, TypeOK
  <1>7. Request'
    <2>1. FirstBlock' = io'.cur
      BY <1>1 DEF FirstBlock
    <2>2. ASSUME p >= 0 PROVE io'.cur <= LastBlock' /\ pos' = Here'
      <3>1. p \in 0 .. Room
        BY <2>2, RoomIsNat
      <3>2. io'.cur <= LastBlock'
        <4>1. LastBlock' = U(p + n) \div BlockSize
          BY <1>1 DEF LastBlock
        <4>2. U(p) \div BlockSize <= U(p + n) \div BlockSize
          BY <3>1, StartOfRequest
        <4> QED
          BY <1>1, <4>1, <4>2
      <3>3. Here' = (U(p) \div BlockSize) * BlockSize + (U(p) % BlockSize)
        BY <1>1, <2>1 DEF Here, From
      <3> QED
        BY <3>1, <3>2, <3>3, StartOfRequest
    <2> QED
      BY <1>1, <1>2, <1>3, <2>1, <2>2 DEF Request
  <1>8. ReadSoFar' /\ WrittenSoFar'
    BY <1>1, <1>2, <1>3 DEF ReadSoFar, WrittenSoFar, Place, TypeOK
  <1>9. AppendsAtEnd' /\ WriteStaysInRange' /\ ReadReturnsFile' /\ WriteStoresAll'
    BY <1>1, <1>2 DEF AppendsAtEnd, WriteStaysInRange, ReadReturnsFile, WriteStoresAll, Returned
  <1> QED
    BY <1>4, <1>5, <1>6, <1>7, <1>8, <1>9

LEMMA BytesToReadFit ==
    ASSUME Inv, NEW n \in 0 .. MaxBytes
    PROVE  BytesToRead(n) \in 0 .. MaxBytes /\ (pos >= 0 => pos + BytesToRead(n) <= len)
  <1>1. pos \in Int /\ len \in 0 .. Room /\ pos <= len
    BY DEF Inv, TypeOK, Placed
  <1>2. Word \in Nat \ {0} /\ U(len - pos) \in Nat
    BY <1>1, RoomIsNat DEF U
  <1>3. BytesToRead(n) \in 0 .. MaxBytes
    BY <1>2 DEF BytesToRead
  <1>4. ASSUME pos >= 0 PROVE U(len - pos) = len - pos
    <2>1. len - pos \in 0 .. Room + MaxBytes
      BY <1>1, <1>4, RoomIsNat
    <2> QED
      BY <2>1, UIsIdentity
  <1> QED
    BY <1>1, <1>3, <1>4 DEF BytesToRead

LEMMA ReadInv == ASSUME Inv, NEW n \in 0 .. MaxBytes, mb_fread(n) PROVE Inv'
  <1>1. BytesToRead(n) \in 0 .. MaxBytes /\ (pos >= 0 => pos + BytesToRead(n) <= len)
    BY BytesToReadFit
  <1>2. pos \in -1 .. Room /\ pos <= len /\ (pos = -1 => before.ever)
    BY RoomIsNat DEF Inv, TypeOK, Placed
  <1>3. mem' \in [Place -> Byte \cup {Junk}]
    BY DEF mb_fread, Fill
  <1> QED
    BY <1>1, <1>2, <1>3, BeginInv DEF mb_fread

LEMMA WriteInv ==
    ASSUME Inv, NEW n \in 0 .. MaxBytes, NEW payload \in Payloads, mb_fwrite(n, payload)
    PROVE  Inv'
  <1>1. len \in 0 .. Room /\ pos \in -1 .. Room /\ pos <= len /\ (pos = -1 => before.ever)
    BY RoomIsNat DEF Inv, TypeOK, Placed
  <1>2. WritePosition \in -1 .. Room /\ WritePosition <= len
        /\ (WritePosition = -1 => before.ever) /\ (mode = "a+" => WritePosition = len)
    BY <1>1, RoomIsNat DEF WritePosition
  <1>3. mem' \in [Place -> Byte] /\ mem' \in [Place -> Byte \cup {Junk}]
    BY DEF mb_fwrite, Place
  <1> QED
    BY <1>2, <1>3, BeginInv DEF mb_fwrite

LEMMA SeekInv ==
    ASSUME Inv, NEW o \in Int, NEW w \in {"SET", "END", "CUR"}, mb_fseek(o, w) PROVE Inv'
  <1>1. pos \in Int /\ len \in 0 .. Room
    BY DEF Inv, TypeOK
  <1>2. pos' \in 0 .. len
    BY <1>1, RoomIsNat DEF mb_fseek, Clamped
  <1> USE DEF mb_fseek, Snapshot
  <1>3. TypeOK'
    <2>1. pos' \in Int /\ ret' \in Int
      BY <1>1, <1>2
    <2>2. calls' \in 0 .. MaxCalls
      <3>1. calls < MaxCalls /\ calls' = calls + 1
        OBVIOUS
      <3>2. calls \in 0 .. MaxCalls
        BY DEF Inv, TypeOK
      <3>3. MaxCalls \in Nat
        BY DEF FileAssumption
      <3> HIDE FileAssumption
      <3> HIDE DEF mb_fseek
      <3> QED
        BY <3>1, <3>2, <3>3
    <2>3. UNCHANGED <<data, len, mode, eof, fwrite, io, mem>>
      OBVIOUS
    <2> HIDE DEF mb_fseek
    <2> QED
      BY <2>1, <2>2, <2>3 DEF Inv, TypeOK
  <1>6. History'
    <2>1. before' = [op |-> "seek", data |-> data, pos |-> pos', len |-> len, size |-> 0,
                     faulty |-> FALSE, ever |-> before.ever]
      OBVIOUS
    <2> QED
      <3>1. data \in [Offset -> Byte] /\ len \in 0 .. Room /\ pos' \in Int
        <4> HIDE DEF mb_fseek
        <4>1. data \in [Offset -> Byte]
          BY DEF Inv, TypeOK
        <4>2. pos' \in Int
          BY <1>1, <1>2
        <4> QED
          BY <1>1, <4>1, <4>2
      <3>2. before.ever \in BOOLEAN
        BY DEF Inv, History
      <3>3. 0 \in 0 .. MaxBytes
        BY DEF FileAssumption
      <3> HIDE DEF mb_fseek
      <3> QED
        BY <2>1, <3>1, <3>2, <3>3 DEF History
  <1> HIDE FileAssumption
  <1>7. Placed'
    BY <1>1, <1>2, RoomIsNat DEF Placed
  <1>4. Request' /\ ReadSoFar' /\ WrittenSoFar'
    BY DEF Request, ReadSoFar, WrittenSoFar
  <1>5. AppendsAtEnd' /\ WriteStaysInRange' /\ ReadReturnsFile' /\ WriteStoresAll'
    BY DEF AppendsAtEnd, WriteStaysInRange, ReadReturnsFile, WriteStoresAll, Returned
  <1> QED
    BY <1>3, <1>4, <1>5, <1>6, <1>7 DEF Inv

LEMMA RefusedInv == ASSUME Inv, NEW n \in 0 .. MaxBytes, WriteRefused(n) PROVE Inv'
  <1> USE DEF WriteRefused, Snapshot
  <1> HIDE FileAssumption
  <1>1. TypeOK'
    <2>1. ret' \in Int /\ UNCHANGED <<data, pos, len, mode, eof, fwrite, io, mem>>
      OBVIOUS
    <2>2. calls' \in 0 .. MaxCalls
      <3>1. calls < MaxCalls /\ calls' = calls + 1
        OBVIOUS
      <3>2. calls \in 0 .. MaxCalls /\ MaxCalls \in Nat
        BY FileAssumption DEF Inv, TypeOK
      <3> HIDE DEF WriteRefused
      <3> QED
        BY <3>1, <3>2
    <2> HIDE DEF WriteRefused
    <2> QED
      BY <2>1, <2>2 DEF Inv, TypeOK
  <1>2. /\ io.op = "none" /\ UNCHANGED <<pos, len, io>>
        /\ before' = [op |-> "refused", data |-> data, pos |-> pos, len |-> len, size |-> n,
                      faulty |-> FALSE, ever |-> before.ever]
    OBVIOUS
  <1> HIDE DEF WriteRefused
  <1>3. History' /\ Placed'
    BY <1>2 DEF Inv, TypeOK, History, Placed
  <1>4. Request' /\ ReadSoFar' /\ WrittenSoFar'
    BY <1>2 DEF Request, ReadSoFar, WrittenSoFar
  <1>5. AppendsAtEnd' /\ WriteStaysInRange' /\ ReadReturnsFile' /\ WriteStoresAll'
    BY <1>2 DEF AppendsAtEnd, WriteStaysInRange, ReadReturnsFile, WriteStoresAll, Returned
  <1> QED
    BY <1>1, <1>3, <1>4, <1>5 DEF Inv

\* an open file on which nothing has been done yet
LEMMA FreshInv ==
    ASSUME NEW m \in Mode, NEW w \in BOOLEAN, NEW d \in Contents, NEW l \in 0 .. Room,
           Open(m, w, d, l)
    PROVE  Inv'
  <1> USE DEF Open, Snapshot, NoCall
  <1>1. TypeOK'
    <2>1. data' \in [Offset -> Byte] /\ mem' \in [Place -> Byte \cup {Junk}]
      BY DEF Fill, Offset
    <2>2. io' \in [op : {"none", "read", "write"}, start : Int, size : Nat,
                   cur : Nat, total : Int]
      OBVIOUS
    <2>3. eof' \in BOOLEAN /\ mode' \in Mode /\ fwrite' \in BOOLEAN
      OBVIOUS
    <2>4. pos' \in Int /\ len' \in 0 .. Room /\ ret' \in Int /\ calls' \in 0 .. MaxCalls
      OBVIOUS
    <2> QED
      BY <2>1, <2>2, <2>3, <2>4 DEF TypeOK
  <1>2. History' /\ Placed'
    BY RoomIsNat DEF History, Placed, Offset
  <1>3. Request' /\ ReadSoFar' /\ WrittenSoFar'
    BY DEF Request, ReadSoFar, WrittenSoFar
  <1>4. AppendsAtEnd' /\ WriteStaysInRange' /\ ReadReturnsFile' /\ WriteStoresAll'
    BY DEF AppendsAtEnd, WriteStaysInRange, ReadReturnsFile, WriteStoresAll, Returned
  <1> QED
    BY <1>1, <1>2, <1>3, <1>4 DEF Inv

LEMMA InitInv == Init => Inv
  <1> SUFFICES ASSUME Init PROVE Inv
    OBVIOUS
  <1> USE DEF Init, Snapshot, NoCall
  <1>1. TypeOK
    <2>1. data \in [Offset -> Byte] /\ mem \in [Place -> Byte \cup {Junk}]
      BY DEF Fill, Offset
    <2>2. io \in [op : {"none", "read", "write"}, start : Int, size : Nat,
                  cur : Nat, total : Int]
      OBVIOUS
    <2>3. eof \in BOOLEAN /\ mode \in Mode /\ fwrite \in BOOLEAN
      OBVIOUS
    <2>4. pos \in Int /\ len \in 0 .. Room /\ ret \in Int /\ calls \in 0 .. MaxCalls
      OBVIOUS
    <2> QED
      BY <2>1, <2>2, <2>3, <2>4 DEF TypeOK
  <1>2. History /\ Placed
    BY RoomIsNat DEF History, Placed, Offset
  <1>3. Request /\ ReadSoFar /\ WrittenSoFar
    BY DEF Request, ReadSoFar, WrittenSoFar
  <1>4. AppendsAtEnd /\ WriteStaysInRange /\ ReadReturnsFile /\ WriteStoresAll
    BY DEF AppendsAtEnd, WriteStaysInRange, ReadReturnsFile, WriteStoresAll, Returned
  <1> QED
    BY <1>1, <1>2, <1>3, <1>4 DEF Inv

-----------------------------------------------------------------------------
(* A turn of the loop *)

\* where the call is when it has a block to move
LEMMA Located ==
    ASSUME Inv, io.op # "none", io.cur <= LastBlock, HasBlock
    PROVE  /\ io.start \in Nat /\ io.size \in 0 .. MaxBytes
           /\ Here \in Nat /\ Segment \in Nat /\ io.total \in Nat
           /\ pos = Here /\ Here = io.start + io.total
           /\ Here + Segment <= io.start + io.size /\ Here + Segment <= Room
           /\ (io.cur = LastBlock => Here + Segment = io.start + io.size)
           /\ (io.cur < LastBlock => Here + Segment = (io.cur + 1) * BlockSize)
  <1>1. TypeOK /\ Request
    BY DEF Inv
  <1>2. io.start >= 0
    BY <1>1, NothingBefore
  <1>3. /\ io.start \in -1 .. Room /\ io.size \in 0 .. MaxBytes /\ pos = Here
        /\ io.total = pos - io.start /\ io.total >= 0
    BY <1>1, <1>2 DEF Request
  <1>4. /\ Segment \in 0 .. BlockSize /\ Here \in Nat
        /\ Here + Segment <= io.start + io.size /\ Here + Segment <= Room
        /\ (io.cur = LastBlock => Here + Segment = io.start + io.size)
        /\ (io.cur < LastBlock => Here + Segment = (io.cur + 1) * BlockSize)
    BY <1>1, <1>2, SegmentFacts
  <1> QED
    BY <1>2, <1>3, <1>4, RoomIsNat

LEMMA FilledType ==
    ASSUME Inv, io.op # "none", io.cur <= LastBlock, HasBlock,
           NEW source \in [Offset -> Byte \cup {Junk}]
    PROVE  Filled(source) \in [Place -> Byte \cup {Junk}]
  <1>1. /\ Here \in Nat /\ Segment \in Nat /\ io.total \in Nat /\ Here + Segment <= Room
    BY Located
  <1>2. ASSUME NEW j \in Place, j >= io.total, j < io.total + Segment
        PROVE  source[BytesOf(j)] \in Byte \cup {Junk}
    BY <1>1, <1>2, RoomIsNat DEF BytesOf, Offset, Place
  <1> QED
    BY <1>2 DEF Filled, Inv, TypeOK

LEMMA StoredType ==
    ASSUME Inv, io.op = "write", io.cur <= LastBlock, HasBlock
    PROVE  Stored \in [Offset -> Byte]
  <1>1. /\ Here \in Nat /\ Segment \in Nat /\ io.total \in Nat /\ io.start \in Nat
        /\ Here = io.start + io.total /\ io.size \in 0 .. MaxBytes
        /\ Here + Segment <= io.start + io.size
    BY Located
  <1>2. ASSUME NEW i \in Offset, InSegment(i) PROVE mem[PlaceOf(i)] \in Byte
    <2>1. PlaceOf(i) \in Place
      <3>1. i \in Int /\ Here <= i /\ i < Here + Segment /\ MaxBytes \in Int
        BY <1>2, RoomIsNat DEF InSegment, Offset, FileAssumption
      <3>2. i - io.start \in 0 .. MaxBytes - 1 /\ PlaceOf(i) = i - io.start
        <4> HIDE FileAssumption
        <4>1. io.size \in Int /\ io.size <= MaxBytes
          BY <1>1, <3>1
        <4>2. PlaceOf(i) = i - io.start
          BY <1>1, <3>1 DEF PlaceOf
        <4>3. i - io.start >= 0 /\ i - io.start < io.size /\ i - io.start \in Int
          BY <1>1, <3>1, <4>1
        <4> QED
          BY <3>1, <4>1, <4>2, <4>3
      <3> QED
        BY <3>2 DEF Place
    <2> QED
      BY <2>1 DEF Inv, WrittenSoFar
  <1> QED
    BY <1>2 DEF Stored, Inv, TypeOK

\* a write stays inside its request with every segment
LEMMA StoredInRange ==
    ASSUME Inv, io.op = "write", io.cur <= LastBlock, HasBlock,
           NEW i \in Offset, Stored[i] # before.data[i]
    PROVE  i >= before.pos /\ i < before.pos + before.size
  <1>1. /\ Here \in Nat /\ Segment \in Nat /\ io.total \in Nat /\ io.start \in Nat
        /\ Here = io.start + io.total /\ io.size \in 0 .. MaxBytes
        /\ Here + Segment <= io.start + io.size
    BY Located
  <1>2. before.op = "write" /\ before.pos = io.start /\ before.size = io.size
    BY DEF Inv, Request
  <1>3. CASE InSegment(i)
    BY <1>1, <1>2, <1>3, RoomIsNat DEF InSegment, Offset
  <1>4. CASE ~InSegment(i)
    BY <1>2, <1>4 DEF Stored, Inv, WriteStaysInRange
  <1> QED
    BY <1>3, <1>4

LEMMA TurnInv ==
    ASSUME Inv, io.op # "none", io.cur <= LastBlock, HasBlock, Turn,
           data' \in [Offset -> Byte], mem' \in [Place -> Byte \cup {Junk}],
           ReadSoFar', WrittenSoFar', WriteStaysInRange'
    PROVE  Inv'
  <1> DEFINE next == (io.cur + 1) * BlockSize
  <1>1. /\ io.start \in Nat /\ io.size \in 0 .. MaxBytes
        /\ Here \in Nat /\ Segment \in Nat /\ io.total \in Nat
        /\ pos = Here /\ Here = io.start + io.total
        /\ Here + Segment <= io.start + io.size /\ Here + Segment <= Room
        /\ (io.cur = LastBlock => Here + Segment = io.start + io.size)
        /\ (io.cur < LastBlock => Here + Segment = next)
    BY Located
  <1> HIDE DEF next
  <1> HIDE FileAssumption
  <1>2. io' = [op |-> io.op, start |-> io.start, size |-> io.size, cur |-> io.cur + 1,
               total |-> io.total + Segment]
    BY DEF Inv, TypeOK, Turn
  <1>3. io.cur \in Nat /\ io.op \in {"read", "write"} /\ len \in 0 .. Room /\ pos <= len
    BY DEF Inv, TypeOK, Placed
  <1>4. pos' = Here + Segment /\ pos' \in 0 .. Room
    BY <1>1, RoomIsNat DEF Turn, Progress
  <1>5. io.op = "read" => pos' <= len
    BY <1>1, <1>3, <1>4 DEF Inv, ReadSoFar
  <1>6. len' \in 0 .. Room /\ pos' <= len'
    <2>1. len' = IF io.op = "write" /\ pos + Segment > len THEN pos + Segment ELSE len
      BY DEF Turn, Progress
    <2>2. pos + Segment = pos' /\ pos' \in 0 .. Room /\ len \in 0 .. Room
      BY <1>1, <1>3, <1>4
    <2>3. io.op # "write" => pos' <= len
      BY <1>3, <1>5
    <2> QED
      BY <2>1, <2>2, <2>3, RoomIsNat
  <1>7. TypeOK'
    <2>1. io' \in [op : {"none", "read", "write"}, start : Int, size : Nat,
                   cur : Nat, total : Int]
      <3>1. io.start \in Int /\ io.size \in Nat /\ io.cur + 1 \in Nat
            /\ io.total + Segment \in Int
        <4>1. io.start \in Nat /\ io.size \in 0 .. MaxBytes /\ io.total \in Nat /\ Segment \in Nat
          BY <1>1
        <4> QED
          BY <1>3, <4>1
      <3>2. io.op \in {"none", "read", "write"}
        BY <1>3
      <3> QED
        BY <1>2, <3>1, <3>2
    <2>2. pos' \in Int
      BY <1>4, RoomIsNat
    <2> QED
      BY <1>6, <2>1, <2>2 DEF Inv, TypeOK, Turn
  <1>8. Placed' /\ History'
    BY <1>4, <1>6, RoomIsNat DEF Placed, Inv, History, Turn
  <1>9. Request'
    <2>1. FirstBlock' = FirstBlock /\ LastBlock' = LastBlock
      BY <1>2 DEF FirstBlock, LastBlock
    <2>2. FirstBlock \in Nat /\ LastBlock \in Nat /\ FirstBlock <= io.cur
      BY <1>1, RequestBlocks DEF Inv
    <2>3. io'.cur # FirstBlock'
      BY <1>2, <1>3, <2>1, <2>2
    <2>4. Here' = next
      <3>1. io'.cur = io.cur + 1 /\ From' = 0
        BY <1>2, <2>3 DEF From
      <3>2. (io.cur + 1) * BlockSize \in Int
        <4>1. BlockSize \in Nat
          BY FileAssumption
        <4> QED
          BY <1>3, <4>1
      <3>3. Here' = (io.cur + 1) * BlockSize + 0
        BY <3>1 DEF Here
      <3>4. ASSUME NEW h \in Int PROVE h + 0 = h
        OBVIOUS
      <3> QED
        BY <3>2, <3>3, <3>4 DEF next
    <2>5. pos' = IF io'.cur <= LastBlock' THEN Here' ELSE io'.start + io'.size
      <3>1. CASE io.cur < LastBlock
        BY <1>1, <1>2, <1>3, <1>4, <2>1, <2>2, <2>4, <3>1
      <3>2. CASE io.cur = LastBlock
        BY <1>1, <1>2, <1>3, <1>4, <2>1, <2>2, <3>2
      <3> QED
        BY <1>3, <2>2, <3>1, <3>2
    <2>6. /\ io'.start \in -1 .. Room /\ io'.size \in 0 .. MaxBytes
          /\ io'.total = pos' - io'.start /\ io'.total >= 0
          /\ io'.cur >= FirstBlock'
      <3>1. io.start \in -1 .. Room
        BY DEF Inv, Request
      <3>2. io'.start = io.start /\ io'.size = io.size /\ io'.cur = io.cur + 1
            /\ io'.total = io.total + Segment
        BY <1>2
      <3> QED
        <4>1. io'.total = pos' - io'.start /\ io'.total >= 0
          <5> HIDE FileAssumption
          <5>1. pos = io.start + io.total /\ io.total >= 0 /\ io.start \in Int /\ io.total \in Int
                /\ Segment \in Nat
            BY <1>1
          <5>2. pos' = pos + Segment
            BY <1>1, <1>4
          <5> QED
            BY <3>2, <5>1, <5>2
        <4>2. io'.cur >= FirstBlock'
          BY <1>3, <2>1, <2>2, <3>2
        <4> QED
          BY <1>1, <3>1, <3>2, <4>1, <4>2
    <2>7. before'.op = io'.op /\ before'.pos = io'.start /\ before'.size = io'.size
          /\ ~before'.faulty
      BY <1>2 DEF Inv, Request, Turn
    <2> QED
      BY <2>5, <2>6, <2>7 DEF Request
  <1>10. AppendsAtEnd' /\ ReadReturnsFile' /\ WriteStoresAll'
    BY <1>2 DEF Inv, AppendsAtEnd, ReadReturnsFile, WriteStoresAll, Returned, Turn
  <1> QED
    BY <1>7, <1>8, <1>9, <1>10 DEF Inv

LEMMA ReadBlockInv == ASSUME Inv, ReadBlock PROVE Inv'
  <1> USE DEF ReadBlock, InLoop
  <1> HIDE FileAssumption
  <1>1. /\ io.start \in Nat /\ Here \in Nat /\ Segment \in Nat /\ io.total \in Nat
        /\ Here = io.start + io.total
    BY Located
  <1>2. data \in [Offset -> Byte \cup {Junk}]
    BY DEF Inv, TypeOK
  <1>3. data' \in [Offset -> Byte] /\ mem' \in [Place -> Byte \cup {Junk}]
    BY <1>2, FilledType DEF Inv, TypeOK
  <1>4. ReadSoFar'
    <2>1. io'.op = "read" /\ io'.start = io.start /\ io'.size = io.size
          /\ io'.total = io.total + Segment
      BY DEF Turn, Inv, TypeOK
    <2>2. len' = len
      BY DEF Turn, Progress
    <2>3. ASSUME NEW j \in Place, j < io.total + Segment PROVE mem'[j] = data[io.start + j]
      <3>1. CASE j >= io.total
        BY <1>1, <2>3, <3>1 DEF Filled, BytesOf, Place
      <3>2. CASE j < io.total
        BY <1>1, <2>3, <3>2 DEF Filled, Inv, ReadSoFar, Place
      <3> QED
        BY <1>1, <3>1, <3>2 DEF Place
    <2> QED
      BY <1>1, <2>1, <2>2, <2>3 DEF ReadSoFar, Inv
  <1>5. WrittenSoFar' /\ WriteStaysInRange'
    BY DEF Turn, Inv, TypeOK, WrittenSoFar, WriteStaysInRange, Request
  <1> QED
    BY <1>3, <1>4, <1>5, TurnInv

LEMMA WriteBlockInv == ASSUME Inv, WriteBlock PROVE Inv'
  <1> USE DEF WriteBlock, InLoop
  <1> HIDE FileAssumption
  <1>1. /\ io.start \in Nat /\ Here \in Nat /\ Segment \in Nat /\ io.total \in Nat
        /\ pos = Here /\ Here = io.start + io.total /\ Here + Segment <= Room
    BY Located
  <1>2. data' \in [Offset -> Byte] /\ mem' \in [Place -> Byte \cup {Junk}]
    BY StoredType DEF Inv, TypeOK
  <1>3. WrittenSoFar'
    <2>1. io'.op = "write" /\ io'.start = io.start /\ io'.total = io.total + Segment
      BY DEF Turn, Inv, TypeOK
    <2>2. pos' = pos + Segment /\ before' = before /\ mem' = mem
      BY DEF Turn, Progress
    <2>3. len' = IF pos' > before'.len THEN pos' ELSE before'.len
      <3>1. len = IF pos > before.len THEN pos ELSE before.len
        BY DEF Inv, WrittenSoFar
      <3>2. before.len \in Int
        BY DEF Inv, History
      <3>3. len' = IF pos + Segment > len THEN pos + Segment ELSE len
        BY DEF Turn, Progress
      <3> QED
        BY <1>1, <2>2, <3>1, <3>2, <3>3
    <2>4. ASSUME NEW j \in Place, j < io.total + Segment PROVE data'[io.start + j] = mem[j]
      <3>1. io.start + j \in Offset
        BY <1>1, <2>4, RoomIsNat DEF Place, Offset
      <3>2. CASE j >= io.total
        <4>1. InSegment(io.start + j) /\ PlaceOf(io.start + j) = j
          <5>1. j \in Nat /\ io.total \in Nat /\ Segment \in Nat /\ Here = io.start + io.total
                /\ io.start \in Nat
            BY <1>1 DEF Place
          <5>2. j < io.total + Segment
            BY <2>4
          <5> HIDE FileAssumption
          <5> HIDE DEF WriteBlock
          <5>3. InSegment(io.start + j)
            BY <3>2, <5>1, <5>2 DEF InSegment
          <5>4. PlaceOf(io.start + j) = j
            BY <5>1 DEF PlaceOf
          <5> QED
            BY <5>3, <5>4
        <4> QED
          BY <3>1, <4>1 DEF Stored
      <3>3. CASE j < io.total
        BY <1>1, <2>4, <3>1, <3>3 DEF Stored, InSegment, Inv, WrittenSoFar, Place
      <3> QED
        BY <1>1, <3>2, <3>3 DEF Place
    <2> QED
      BY <1>1, <2>1, <2>2, <2>3, <2>4 DEF WrittenSoFar, Inv
  <1>4. WriteStaysInRange'
    BY StoredInRange DEF WriteStaysInRange, Turn
  <1>5. ReadSoFar'
    BY DEF Turn, Inv, TypeOK, ReadSoFar
  <1> QED
    BY <1>2, <1>3, <1>4, <1>5, TurnInv

-----------------------------------------------------------------------------
(* The call returns *)

LEMMA ReturnInv ==
    ASSUME Inv, io.op # "none", NEW k \in Int, Return(k),
           data' \in [Offset -> Byte], mem' \in [Place -> Byte \cup {Junk}], eof' \in BOOLEAN,
           before' = before \/ Faulted,
           pos + k >= -1, pos + k = -1 => before'.ever,
           pos + k <= IF io.op = "write" THEN Room ELSE len,
           WriteStaysInRange', ReadReturnsFile', WriteStoresAll'
    PROVE  Inv'
  <1> USE DEF Return, Progress
  <1> HIDE FileAssumption
  <1>1. pos \in Int /\ len \in 0 .. Room /\ io.total \in Int /\ pos <= len
        /\ io.op \in {"read", "write"}
    BY DEF Inv, TypeOK, Placed
  <1>2. pos' = pos + k /\ len' \in 0 .. Room /\ pos' <= len'
    BY <1>1, RoomIsNat
  <1>3. ret' \in Int /\ io' = NoCall
    BY <1>1
  <1>4. io' \in [op : {"none", "read", "write"}, start : Int, size : Nat, cur : Nat, total : Int]
    BY <1>3 DEF NoCall
  <1>5. TypeOK'
    BY <1>2, <1>3, <1>4 DEF Inv, TypeOK
  <1>6. History'
    BY DEF Inv, History, Faulted
  <1>7. Placed'
    BY <1>2 DEF Placed
  <1>8. Request' /\ ReadSoFar' /\ WrittenSoFar'
    BY <1>3 DEF NoCall, Request, ReadSoFar, WrittenSoFar
  <1>9. AppendsAtEnd'
    BY DEF Inv, AppendsAtEnd, Faulted, History
  <1> QED
    BY <1>5, <1>6, <1>7, <1>8, <1>9 DEF Inv

\* a fault is reported, and excuses what the call did not do
LEMMA FaultInv ==
    ASSUME Inv, io.op # "none", NEW k \in Int, Return(k), Faulted,
           data' \in [Offset -> Byte], mem' \in [Place -> Byte \cup {Junk}], eof' \in BOOLEAN,
           pos + k >= -1, pos + k <= IF io.op = "write" THEN Room ELSE len,
           WriteStaysInRange'
    PROVE  Inv'
  <1>1. before'.faulty /\ before'.ever
    BY DEF Faulted, Inv, History
  <1>2. ReadReturnsFile' /\ WriteStoresAll'
    BY <1>1 DEF ReadReturnsFile, WriteStoresAll, Sound
  <1> QED
    BY <1>1, <1>2, ReturnInv

LEMMA RangeKept ==
    ASSUME Inv, Faulted, data' = data \/ (io.op = "write" /\ data' = Stored),
           io.op # "none", io.cur <= LastBlock, HasBlock
    PROVE  WriteStaysInRange'
  <1>1. before'.op = before.op /\ before'.data = before.data /\ before'.pos = before.pos
        /\ before'.size = before.size
    BY DEF Faulted, Inv, History
  <1>2. CASE data' = data
    BY <1>1, <1>2 DEF Inv, WriteStaysInRange
  <1>3. CASE io.op = "write" /\ data' = Stored
    BY <1>1, <1>3, StoredInRange DEF WriteStaysInRange
  <1> QED
    BY <1>2, <1>3

\* the loop fails at a block, whatever it was doing with it
LEMMA FailInv ==
    ASSUME Inv, NEW op \in {"read", "write"}, InLoop(op), HasBlock, Faulted,
           NEW k \in {-1, 0, Segment}, Return(k), UNCHANGED eof,
           data' = data \/ (io.op = "write" /\ data' = Stored),
           mem' = mem \/ \E source \in [Offset -> Byte \cup {Junk}] : mem' = Filled(source)
    PROVE  Inv'
  <1> USE DEF InLoop
  <1>1. /\ Here \in Nat /\ Segment \in Nat /\ pos = Here /\ Here + Segment <= Room
        /\ Here + Segment <= io.start + io.size /\ io.start \in Nat
    BY Located
  <1>2. pos \in Int /\ len \in 0 .. Room /\ pos <= len /\ eof \in BOOLEAN
    BY DEF Inv, TypeOK, Placed
  <1>3. io.op = "read" => Here + Segment <= len
    BY <1>1, <1>2 DEF Inv, ReadSoFar, Request
  <1>4. k \in Int /\ pos + k >= -1
    BY <1>1, <1>2
  <1>5. pos + k <= IF io.op = "write" THEN Room ELSE len
    BY <1>1, <1>2, <1>3, RoomIsNat
  <1>6. data' \in [Offset -> Byte]
    BY StoredType DEF Inv, TypeOK
  <1>7. mem' \in [Place -> Byte \cup {Junk}]
    BY FilledType DEF Inv, TypeOK
  <1>8. WriteStaysInRange'
    BY RangeKept
  <1> QED
    BY <1>2, <1>4, <1>5, <1>6, <1>7, <1>8, FaultInv

LEMMA FailsInv == ASSUME Inv, Fails PROVE Inv'
  <1>1. CASE ReadWholeFails
    BY <1>1, FailInv DEF ReadWholeFails
  <1>2. CASE ReadPartFails
    <2>1. [i \in Offset |-> Junk] \in [Offset -> Byte \cup {Junk}]
      OBVIOUS
    <2> QED
      BY <1>2, <2>1, FailInv DEF ReadPartFails
  <1>3. CASE WriteWholeFails
    BY <1>3, FailInv DEF WriteWholeFails, MaybeStored, InLoop
  <1>4. CASE EditReadFails
    BY <1>4, FailInv DEF EditReadFails
  <1>5. CASE EditWriteFails
    BY <1>5, FailInv DEF EditWriteFails, MaybeStored, InLoop
  <1> QED
    BY <1>1, <1>2, <1>3, <1>4, <1>5 DEF Fails

\* a call that ends without a fault has done all that it could
LEMMA EndInv ==
    ASSUME Inv, io.op # "none", Return(0), UNCHANGED <<data, mem, before>>, eof' \in BOOLEAN,
           io.start >= 0 => pos = IF io.start + io.size <= Room \/ io.op = "read"
                                  THEN io.start + io.size ELSE Room
    PROVE  Inv'
  <1> USE DEF Return, Progress
  <1>1. /\ pos \in Int /\ len \in 0 .. Room /\ pos <= len /\ pos >= -1
        /\ (pos = -1 => before.ever) /\ io.op \in {"read", "write"}
        /\ data \in [Offset -> Byte] /\ mem \in [Place -> Byte \cup {Junk}]
    BY DEF Inv, TypeOK, Placed
  <1>2. /\ io.total = pos - io.start /\ io.start \in Int /\ io.size \in Nat
        /\ before.op = io.op /\ before.pos = io.start /\ before.size = io.size
        /\ ~before.faulty
    BY DEF Inv, TypeOK, Request
  <1>3. pos' = pos /\ len' = len /\ ret' = pos - io.start
    BY <1>1, <1>2
  <1>4. ReadReturnsFile'
    BY <1>1, <1>2, <1>3 DEF ReadReturnsFile, Returned, Sound, Inv, ReadSoFar
  <1>5. WriteStoresAll'
    BY <1>1, <1>2, <1>3, RoomIsNat DEF WriteStoresAll, Returned, Sound, Inv, WrittenSoFar
  <1>6. WriteStaysInRange'
    BY DEF Inv, WriteStaysInRange
  <1>7. /\ pos + 0 >= -1 /\ (pos + 0 = -1 => before'.ever)
        /\ pos + 0 <= IF io.op = "write" THEN Room ELSE len
    BY <1>1, RoomIsNat
  <1>8. data' \in [Offset -> Byte] /\ mem' \in [Place -> Byte \cup {Junk}] /\ before' = before
    BY <1>1
  <1> QED
    BY <1>4, <1>5, <1>6, <1>7, <1>8, ReturnInv

LEMMA EndOfChainInv == ASSUME Inv, EndOfChain PROVE Inv'
  <1> USE DEF EndOfChain, InLoop
  <1>1. ASSUME io.start >= 0
        PROVE  pos = IF io.start + io.size <= Room \/ io.op = "read"
                     THEN io.start + io.size ELSE Room
    <2>1. pos = Here
      BY <1>1 DEF Inv, Request
    <2>2. /\ Here \in Nat /\ Segment \in Nat /\ Here >= Room
          /\ Here + Segment <= io.start + io.size
      BY <1>1, SegmentFacts DEF Inv
    <2>3. pos <= len /\ len \in 0 .. Room /\ io.start \in Int /\ io.size \in Nat
      BY DEF Inv, Placed, TypeOK
    <2>4. io.op = "read" => io.start + io.size <= len
      BY <1>1 DEF Inv, ReadSoFar
    <2> QED
      BY <2>1, <2>2, <2>3, <2>4, RoomIsNat
  <1> QED
    BY <1>1, EndInv

LEMMA EndOfLoopInv == ASSUME Inv, EndOfLoop PROVE Inv'
  <1> USE DEF EndOfLoop
  <1>1. ASSUME io.start >= 0
        PROVE  pos = IF io.start + io.size <= Room \/ io.op = "read"
                     THEN io.start + io.size ELSE Room
    <2>1. LastBlock \in Nat /\ io.cur \in Nat
      BY <1>1, RequestBlocks DEF Inv
    <2>2. pos = io.start + io.size
      BY <1>1, <2>1 DEF Inv, Request
    <2>3. pos <= len /\ len \in 0 .. Room
      BY DEF Inv, Placed, TypeOK
    <2> QED
      BY <2>2, <2>3, RoomIsNat
  <1>2. eof' \in BOOLEAN
    BY DEF Inv, TypeOK
  <1> QED
    BY <1>1, <1>2, EndInv

LEMMA StutterInv == ASSUME Inv, UNCHANGED vars PROVE Inv'
  BY DEF vars, Inv, TypeOK, History, Placed, Request, ReadSoFar, WrittenSoFar, AppendsAtEnd,
         WriteStaysInRange, ReadReturnsFile, WriteStoresAll, FirstBlock, LastBlock, Here, From,
         Returned, Sound

-----------------------------------------------------------------------------
(* The theorems *)

\* The invariant of libfs.c and vfs.c on one open file: where the loop of the
\* call stands, and what it has moved so far.
THEOREM FileInvariant == Spec => []Inv
  <1>1. Inv /\ [Next]_vars => Inv'
    <2> SUFFICES ASSUME Inv, [Next]_vars PROVE Inv'
      OBVIOUS
    <2>1. CASE Goes
      BY <2>1, EndOfChainInv, EndOfLoopInv, ReadBlockInv, WriteBlockInv DEF Goes
    <2>2. CASE Fails
      BY <2>2, FailsInv
    <2>3. CASE Call
      BY <2>3, ReadInv, WriteInv, RefusedInv, SeekInv, RoomIsNat DEF Call
    <2>4. CASE Reopen
      BY <2>4, FreshInv DEF Reopen
    <2>5. CASE UNCHANGED vars
      BY <2>5, StutterInv
    <2> QED
      BY <2>1, <2>2, <2>3, <2>4, <2>5 DEF Next, Loop
  <1> QED
    BY InitInv, <1>1, PTL DEF Spec

\* Type correctness of an open file of vfs.c.
THEOREM FileTypeOK == Spec => []TypeOK
  <1>1. Inv => TypeOK
    BY DEF Inv
  <1> QED
    BY FileInvariant, <1>1, PTL

\* fs_fread returns the file's bytes, as many as there are, from any position
\* and in blocks of any size, if no block fails.
THEOREM ReadReturnsFileHolds == Spec => []ReadReturnsFile
  <1>1. Inv => ReadReturnsFile
    BY DEF Inv
  <1> QED
    BY FileInvariant, <1>1, PTL

\* fs_fwrite stores all that fits the file's blocks, if no block fails.
THEOREM WriteStoresAllHolds == Spec => []WriteStoresAll
  <1>1. Inv => WriteStoresAll
    BY DEF Inv
  <1> QED
    BY FileInvariant, <1>1, PTL

\* Whatever fails in it, fs_fwrite changes no byte outside its request.
THEOREM WriteStaysInRangeHolds == Spec => []WriteStaysInRange
  <1>1. Inv => WriteStaysInRange
    BY DEF Inv
  <1> QED
    BY FileInvariant, <1>1, PTL

\* Whatever fails, a file opened "a+" keeps what it held when mb_fwrite began.
THEOREM AppendKeepsContentsHolds == Spec => []AppendKeepsContents
  <1>1. Inv => AppendKeepsContents
    BY RoomIsNat DEF Inv, AppendsAtEnd, WriteStaysInRange, AppendKeepsContents, History, Offset
  <1> QED
    BY FileInvariant, <1>1, PTL

\* mb_fseek and mb_fread keep the position in the file until a block fails.
THEOREM PositionInFileHolds == Spec => []PositionInFile
  <1>1. Inv => PositionInFile
    BY DEF Inv, TypeOK, Placed, PositionInFile
  <1> QED
    BY FileInvariant, <1>1, PTL
=============================================================================
