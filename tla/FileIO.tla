------------------------------- MODULE FileIO -------------------------------
(***************************************************************************)
(* One open file: mb_fopen, mb_fread, mb_fwrite, mb_fseek and mb_fclose of *)
(* rboot/vfs.c over fs_fread and fs_fwrite of rboot/libfs.c, the code all  *)
(* file systems share.                                                     *)
(*                                                                         *)
(* fs_fread and fs_fwrite cut a request at the file system's blocks.  A    *)
(* step of the model is one turn of their loop, that is one block_read,    *)
(* and for a partly written block one block_read and one block_write.      *)
(* The file system maps the i-th block of the file to the device, or says  *)
(* that there is none; here the device is the file's own blocks.           *)
(***************************************************************************)
EXTENDS Integers

CONSTANTS
    BlockSize,   \* fs->block_size
    NumBlocks,   \* blocks the file has on the device
    Word,        \* 2^32: size_t and uint32_t
    Byte,        \* what a byte can be
    Junk,        \* a byte of memory that nobody has filled
    Contents,    \* the contents the blocks of a file may have when it is opened
    Payloads,    \* the buffers a caller writes from
    MaxBytes,    \* bound: the most bytes one call asks for
    MaxCalls,    \* bound: the calls made on one open file
    Faults       \* the operations of the device that may fail

Room == NumBlocks * BlockSize

ASSUME FileAssumption ==
    /\ BlockSize \in Nat \ {0}
    /\ NumBlocks \in Nat \ {0}
    /\ MaxBytes \in Nat
    /\ MaxCalls \in Nat
    /\ Word \in Nat /\ Room + MaxBytes < Word
    /\ Junk \notin Byte
    /\ Contents \subseteq [0 .. Room - 1 -> Byte]
    /\ Payloads \subseteq [0 .. MaxBytes - 1 -> Byte]
    /\ Faults \subseteq {"read", "write"}

VARIABLES
    data,     \* the file's blocks on the device, byte by byte
    pos, len, mode, eof,    \* struct vfs_file
    fwrite,   \* whether its file system has the pointer fs->fwrite
    io,       \* the fs_fread or fs_fwrite in progress
    mem,      \* the caller's memory
    ret,      \* what the last call returned
    calls,    \* calls made on this file
    before    \* history: the last call, the file when it began, a fault since;
              \* a fault since the file was opened

vars == <<data, pos, len, mode, eof, fwrite, io, mem, ret, calls, before>>

Offset == 0 .. Room - 1
Place  == 0 .. MaxBytes - 1
Mode   == {"r", "r+", "a", "a+"}

Fill == [j \in Place |-> Junk]

NoCall == [op |-> "none", start |-> 0, size |-> 0, cur |-> 0, total |-> 0]

\* a uint32_t
U(n) == n % Word

Snapshot(op, d, p, l, n, e) ==
    [op |-> op, data |-> d, pos |-> p, len |-> l, size |-> n,
     faulty |-> FALSE, ever |-> e]

Open(m, w, d, l) ==
    /\ data' = d /\ len' = l /\ mode' = m /\ fwrite' = w
    /\ pos' = 0 /\ eof' = FALSE
    /\ io' = NoCall /\ mem' = Fill /\ ret' = 0 /\ calls' = 0
    /\ before' = Snapshot("open", d, 0, l, 0, FALSE)

Init ==
    /\ data \in Contents /\ len \in 0 .. Room /\ mode \in Mode /\ fwrite \in BOOLEAN
    /\ pos = 0 /\ eof = FALSE
    /\ io = NoCall /\ mem = Fill /\ ret = 0 /\ calls = 0
    /\ before = Snapshot("open", data, 0, len, 0, FALSE)

\* mb_fclose, and mb_fopen of another file
Reopen ==
    /\ io.op = "none"
    /\ \E m \in Mode, w \in BOOLEAN, d \in Contents, l \in 0 .. Room : Open(m, w, d, l)

-----------------------------------------------------------------------------
(* The calls *)

Begin(op, p, n) ==
    /\ io.op = "none"
    /\ calls < MaxCalls
    /\ calls' = calls + 1
    /\ io' = [op |-> op, start |-> p, size |-> n, cur |-> U(p) \div BlockSize, total |-> 0]
    /\ before' = Snapshot(op, data, p, len, n, before.ever)

\* deviations: the request is not cut at the length of the file; an "a+" file
\* is written where it was last read
NotCut(n) == n
WriteWhereRead == pos

\* mb_fread with size 1: at most what is left of the file, in size_t
BytesToRead(n) == IF n > U(len - pos) THEN U(len - pos) ELSE n

mb_fread(n) ==
    /\ Begin("read", pos, BytesToRead(n))
    /\ mem' = Fill
    /\ UNCHANGED <<data, pos, len, mode, eof, fwrite, ret>>

\* "a+" files are written at their end, all others at the position
WritePosition == IF mode = "a+" THEN len ELSE pos

\* the mode is looked at by neither mb_fwrite nor fs_fwrite
mb_fwrite(n, payload) ==
    /\ fwrite
    /\ Begin("write", WritePosition, n)
    /\ pos' = WritePosition
    /\ mem' = payload
    /\ UNCHANGED <<data, len, mode, eof, fwrite, ret>>

\* EROFS
WriteRefused(n) ==
    /\ ~fwrite
    /\ io.op = "none"
    /\ calls < MaxCalls
    /\ calls' = calls + 1
    /\ ret' = 0
    /\ before' = Snapshot("refused", data, pos, len, n, before.ever)
    /\ UNCHANGED <<data, pos, len, mode, eof, fwrite, io, mem>>

\* a deviation: a position beyond the end is kept
ClampedBelow(p) == IF p < 0 THEN 0 ELSE p

Clamped(p) == IF p < 0 THEN 0 ELSE IF p > len THEN len ELSE p

mb_fseek(offset, whence) ==
    /\ io.op = "none"
    /\ calls < MaxCalls
    /\ calls' = calls + 1
    /\ pos' = Clamped(CASE whence = "SET" -> offset
                        [] whence = "END" -> len - offset
                        [] whence = "CUR" -> pos + offset)
    /\ ret' = 0
    /\ before' = Snapshot("seek", data, pos', len, 0, before.ever)
    /\ UNCHANGED <<data, len, mode, eof, fwrite, io, mem>>

-----------------------------------------------------------------------------
(* One turn of the loop *)

FirstBlock == U(io.start) \div BlockSize
LastBlock  == U(io.start + io.size) \div BlockSize

\* a deviation: the last block is taken to its end
ToEndOfBlock == BlockSize

\* the bytes from From on and below To of the current block are asked for
From == IF io.cur = FirstBlock THEN U(io.start) % BlockSize ELSE 0
To   == IF io.cur = LastBlock THEN U(io.start + io.size) % BlockSize ELSE BlockSize
Segment == To - From
IsWhole == From = 0 /\ Segment = BlockSize

\* a deviation: a block is always used from its first byte on
HereWithoutOffset == io.cur * BlockSize

\* save_buf and stream->pos have moved as far as the total
Here == io.cur * BlockSize + From

InLoop(op) == io.op = op /\ io.cur <= LastBlock
HasBlock == io.cur < NumBlocks

\* the file's bytes a segment covers, and their places in the caller's memory
InSegment(i) == i >= Here /\ i < Here + Segment
PlaceOf(i) == io.total + i - Here
BytesOf(j) == Here + j - io.total

Filled(source) ==
    [j \in Place |-> IF j >= io.total /\ j < io.total + Segment
                     THEN source[BytesOf(j)] ELSE mem[j]]

Stored == [i \in Offset |-> IF InSegment(i) THEN mem[PlaceOf(i)] ELSE data[i]]

\* a deviation: the length does not follow the position
ProgressWithoutLength(k) == pos' = pos + k /\ UNCHANGED len

Progress(k) ==
    /\ pos' = pos + k
    /\ len' = IF io.op = "write" /\ pos + k > len THEN pos + k ELSE len

\* a deviation: the loop stays at its block
TurnInPlace ==
    /\ Progress(0)
    /\ UNCHANGED <<io, mode, eof, fwrite, ret, calls, before>>

Turn ==
    /\ Progress(Segment)
    /\ io' = [io EXCEPT !.cur = @ + 1, !.total = @ + Segment]
    /\ UNCHANGED <<mode, eof, fwrite, ret, calls, before>>

\* the call returns early, its total counted on by k
Return(k) ==
    /\ Progress(k)
    /\ ret' = io.total + k
    /\ io' = NoCall
    /\ UNCHANGED <<mode, fwrite, calls>>

Faulted == before' = [before EXCEPT !.faulty = TRUE, !.ever = TRUE]

\* the file has no such block: 0xffffffff
EndOfChain ==
    /\ InLoop("read") \/ InLoop("write")
    /\ ~HasBlock
    /\ eof' = TRUE
    /\ Return(0)
    /\ UNCHANGED <<data, mem, before>>

EndOfLoop ==
    /\ io.op # "none" /\ io.cur > LastBlock
    /\ Return(0)
    /\ UNCHANGED <<data, mem, eof, before>>

ReadBlock ==
    /\ InLoop("read") /\ HasBlock
    /\ mem' = Filled(data)
    /\ Turn
    /\ UNCHANGED data

\* block_read's -1 is added to the total and to the position
ReadWholeFails ==
    /\ InLoop("read") /\ HasBlock /\ IsWhole
    /\ "read" \in Faults
    /\ Return(-1)
    /\ Faulted
    /\ UNCHANGED <<data, mem, eof>>

\* as a uint32_t the -1 is no short count: the segment of the temporary
\* buffer, which was never filled, is copied and counted
ReadPartFails ==
    /\ InLoop("read") /\ HasBlock /\ ~IsWhole
    /\ "read" \in Faults
    /\ mem' = Filled([i \in Offset |-> Junk])
    /\ Return(Segment)
    /\ Faulted
    /\ UNCHANGED <<data, eof>>

WriteBlock ==
    /\ InLoop("write") /\ HasBlock
    /\ data' = Stored
    /\ Turn
    /\ UNCHANGED mem

MaybeStored == data' = data \/ data' = Stored

WriteWholeFails ==
    /\ InLoop("write") /\ HasBlock /\ IsWhole
    /\ "write" \in Faults
    /\ MaybeStored
    /\ Return(-1)
    /\ Faulted
    /\ UNCHANGED <<mem, eof>>

\* the block to be edited cannot be read: nothing of it is written
EditReadFails ==
    /\ InLoop("write") /\ HasBlock /\ ~IsWhole
    /\ "read" \in Faults
    /\ Return(0)
    /\ Faulted
    /\ UNCHANGED <<data, mem, eof>>

\* the edited block cannot be written, and is counted as if it had been
EditWriteFails ==
    /\ InLoop("write") /\ HasBlock /\ ~IsWhole
    /\ "write" \in Faults
    /\ MaybeStored
    /\ Return(Segment)
    /\ Faulted
    /\ UNCHANGED <<mem, eof>>

Goes == EndOfChain \/ EndOfLoop \/ ReadBlock \/ WriteBlock

Fails == ReadWholeFails \/ ReadPartFails \/ WriteWholeFails \/ EditReadFails \/ EditWriteFails

Loop == Goes \/ Fails

Call ==
    \/ \E n \in 0 .. MaxBytes : mb_fread(n)
    \/ \E n \in 0 .. MaxBytes, p \in Payloads : mb_fwrite(n, p)
    \/ \E n \in 0 .. MaxBytes : WriteRefused(n)
    \/ \E o \in -1 .. Room + 1, w \in {"SET", "END", "CUR"} : mb_fseek(o, w)

Next == Loop \/ Call \/ Reopen

Spec == Init /\ [][Next]_vars

\* the loop runs on; a fault is never owed
FairSpec == Spec /\ WF_vars(Goes)

-----------------------------------------------------------------------------
(* Properties *)

TypeOK ==
    /\ data \in [Offset -> Byte]
    /\ pos \in Int
    /\ len \in 0 .. Room
    /\ mode \in Mode
    /\ eof \in BOOLEAN /\ fwrite \in BOOLEAN
    /\ io \in [op : {"none", "read", "write"}, start : Int, size : Nat,
               cur : Nat, total : Int]
    /\ mem \in [Place -> Byte \cup {Junk}]
    /\ ret \in Int
    /\ calls \in 0 .. MaxCalls

Returned(op) == io.op = "none" /\ before.op = op

\* the last call met no fault and began at a position of the file
Sound == ~before.faulty /\ before.pos >= 0

\* A read without a fault returns as many bytes as the file has there, up to
\* what was asked for, and they are the file's: across blocks, from any
\* position.  Code behaviour: the segments of fs_fread.
ReadReturnsFile ==
    Returned("read") /\ Sound =>
        /\ ret = before.size
        /\ pos = before.pos + ret
        /\ pos <= len
        /\ \A j \in Place : j < ret => mem[j] = data[before.pos + j]

\* A write without a fault stores all that fits the blocks of the file at the
\* position, and the length follows.  Code behaviour: fs_fwrite.
WriteStoresAll ==
    Returned("write") /\ Sound =>
        /\ ret = IF before.pos + before.size <= Room THEN before.size
                                                    ELSE Room - before.pos
        /\ pos = before.pos + ret
        /\ len = IF pos > before.len THEN pos ELSE before.len
        /\ \A j \in Place : j < ret => data[before.pos + j] = mem[j]

\* At no moment of a write, whatever fails, has a byte outside the request
\* changed: editing part of a block keeps its rest.  Code behaviour: the
\* temporary buffer of fs_fwrite.
WriteStaysInRange ==
    before.op = "write" =>
        \A i \in Offset : data[i] # before.data[i] =>
            i >= before.pos /\ i < before.pos + before.size

\* What a file opened "a+" held stays, wherever it was read before.  Code
\* behaviour: "Files opened in mode "a+" always set the stream position to
\* the end of the file before writing" (libfs.c).
AppendKeepsContents ==
    mode = "a+" /\ before.op = "write" =>
        \A i \in Offset : i < before.len => data[i] = before.data[i]

\* Every byte a read reports is a byte of the file, after a fault as well.
\* Code behaviour: "load to a buffer somewhere and copy appropriately" (libfs.c).
\* It does not hold: of a block that cannot be read and is only wanted in part
\* the bytes of a buffer that was never filled are reported.
ReportedBytesAreFile ==
    Returned("read") /\ before.pos >= 0 =>
        \A j \in Place : j < ret => mem[j] = data[before.pos + j]

\* While no block has failed since the file was opened the position stays in
\* the file, through any calls.  Code behaviour: the two last tests of
\* mb_fseek, and the cut that mb_fread makes.
PositionInFile == ~before.ever => pos >= 0 /\ pos <= len

\* The loop over the blocks comes to its end.
CallEnds == io.op # "none" ~> io.op = "none"
=============================================================================
