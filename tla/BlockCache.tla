----------------------------- MODULE BlockCache -----------------------------
(***************************************************************************)
(* block.c over block_cache.c: the loop that splits a request into blocks, *)
(* and the direct-mapped write-through cache it drives.  The SD card below *)
(* is the array disk; each operation of Faults may fail there.             *)
(*                                                                         *)
(* One step is one call of the device below block_read or block_write, so  *)
(* the power can go between two blocks of one request.  Requests are of    *)
(* whole blocks: the file systems make no others, and cache_write would    *)
(* refuse them (EFAULT).                                                   *)
(***************************************************************************)
EXTENDS Integers

CONSTANTS
    NumBlocks, Value, Junk, MaxRun, Faults,    \* see BlockDevice
    CacheBlocks,   \* cache_length / block_size
    NoBlock,       \* 0xffffffff, the mark of an empty cache slot
    MultiRead,     \* supports_multiple_block_read
    ErrorCount     \* (size_t)-1 / block_size: 8388607 for 512-byte blocks

VARIABLES
    disk, call, buf, result,    \* see BlockDevice
    cached_blocks,   \* slot -> number of the block it holds
    cache_mem,       \* slot -> contents of its cache line
    suspect          \* history: blocks whose cache lines a failed write changed

Device == INSTANCE BlockDevice

vars == <<disk, call, buf, result, cached_blocks, cache_mem, suspect>>

Block == Device!Block

-----------------------------------------------------------------------------
(* cache_init *)

\* the number of cache entries, rounded down to a power of two
RoundDown[n \in Nat] == IF n <= 1 THEN n ELSE 2 * RoundDown[n \div 2]

CacheEntries == RoundDown[CacheBlocks]

Slot == 0 .. CacheEntries - 1

\* block_no & cache_mask, the mask being a power of two less one
CacheIdx(b) == b % CacheEntries

ASSUME DeviceAssumption ==
    /\ NumBlocks \in Nat \ {0}
    /\ MaxRun \in Nat \ {0}
    /\ Junk \notin Value
    /\ Faults \subseteq {"read", "write"}

ASSUME CacheAssumption ==
    /\ CacheBlocks \in Nat \ {0}
    /\ CacheEntries \in Nat \ {0}
    /\ NoBlock \in Nat /\ NumBlocks <= NoBlock
    /\ MultiRead \in BOOLEAN
    /\ ErrorCount \in Nat \ {0}

Init ==
    /\ Device!DeviceInit
    /\ cached_blocks = [s \in Slot |-> NoBlock]
    /\ cache_mem = [s \in Slot |-> Junk]
    /\ suspect = {}

-----------------------------------------------------------------------------
(* The caller, and the loops of block_read and block_write *)

CacheUnchanged == UNCHANGED <<cached_blocks, cache_mem, suspect>>

Request ==
    /\ \/ \E c \in Device!Request("read") : Device!Start(c, Device!Empty)
       \/ \E c \in Device!Request("write") :
            \E d \in Device!Payload(c) : Device!Start(c, d)
    /\ CacheUnchanged

\* deviations, substituted for Advance to see the properties fail
NoAdvance(k)    == call' = call
AdvanceTwice(k) == call' = [call EXCEPT !.done = @ + k + 1]

\* buf_offset and block_offset move on
Advance(k) == call' = [call EXCEPT !.done = @ + k]

GiveUp == call' = Device!Idle /\ result' = "failed"

Reading == call.op = "read" /\ call.done < call.len
Writing == call.op = "write" /\ call.done < call.len

\* several blocks at once are handed to the device in one piece
Whole == MultiRead /\ call.len > 1

Cur == Device!Current

Finish == Device!Finish /\ CacheUnchanged

-----------------------------------------------------------------------------
(* cache_read *)

\* a deviation: a filled slot counts as a hit, whatever block it holds
HitWithoutTag == cached_blocks[CacheIdx(Cur)] # NoBlock

Hit == cached_blocks[CacheIdx(Cur)] = Cur

\* a request of more than one block passes the cache by
ReadThrough ==
    /\ call.op = "read" /\ call.done = 0 /\ Whole
    /\ buf' = Device!Delivered(call.len)
    /\ Advance(call.len)
    /\ UNCHANGED <<disk, result>> /\ CacheUnchanged

\* ... and its error comes back as it is
ReadThroughFails ==
    /\ call.op = "read" /\ call.done = 0 /\ Whole
    /\ "read" \in Faults
    /\ \E k \in 0 .. call.len : buf' = Device!Delivered(k)
    /\ GiveUp
    /\ UNCHANGED disk /\ CacheUnchanged

ReadHit ==
    /\ Reading /\ ~Whole
    /\ Hit
    /\ buf' = [buf EXCEPT ![call.done] = cache_mem[CacheIdx(Cur)]]
    /\ Advance(1)
    /\ UNCHANGED <<disk, result>> /\ CacheUnchanged

\* the block is read into the cache line and copied to the caller from there
ReadMiss ==
    /\ Reading /\ ~Whole
    /\ ~Hit
    /\ cached_blocks' = [cached_blocks EXCEPT ![CacheIdx(Cur)] = Cur]
    /\ cache_mem' = [cache_mem EXCEPT ![CacheIdx(Cur)] = disk[Cur]]
    /\ buf' = [buf EXCEPT ![call.done] = disk[Cur]]
    /\ Advance(1)
    /\ suspect' = suspect \ {Cur, cached_blocks[CacheIdx(Cur)]}
    /\ UNCHANGED <<disk, result>>

\* buf_size becomes the device's -1 and memcpy copies 0xffffffff bytes
ReadMissFails ==
    /\ Reading /\ ~Whole
    /\ ~Hit
    /\ "read" \in Faults
    /\ cached_blocks' = [cached_blocks EXCEPT ![CacheIdx(Cur)] = NoBlock]
    /\ cache_mem' = [cache_mem EXCEPT ![CacheIdx(Cur)] = Junk]
    /\ call' = Device!Halted
    /\ suspect' = suspect \ {cached_blocks[CacheIdx(Cur)]}
    /\ UNCHANGED <<disk, buf, result>>

-----------------------------------------------------------------------------
(* cache_write, one block at a time (block_write never joins blocks) *)

\* the memory at buf + i blocks, i counted from the block being written
SourceBlock(i) ==
    IF call.done + i \in Device!Offset THEN buf[call.done + i] ELSE Junk

\* deviations: the cache is not updated; the block number is not compared
NoLines(n) == {}
LinesWithoutTag(n) == {s \in Slot : \E i \in 0 .. n - 1 : CacheIdx(Cur + i) = s}

\* the slots that hold one of the n blocks from the current one on
LinesOf(n) ==
    {s \in Slot : \E i \in 0 .. n - 1 :
        cached_blocks[s] = Cur + i /\ CacheIdx(Cur + i) = s}

\* "Update the cache if required": the loop over block_count blocks
UpdatedLines(n) ==
    [s \in Slot |-> IF s \in LinesOf(n) THEN SourceBlock(cached_blocks[s] - Cur)
                                        ELSE cache_mem[s]]

WriteBlock ==
    /\ Writing
    /\ disk' = [disk EXCEPT ![Cur] = buf[call.done]]
    /\ cache_mem' = UpdatedLines(1)
    /\ Advance(1)
    /\ suspect' = suspect \ {Cur}
    /\ UNCHANGED <<buf, result, cached_blocks>>

\* the device's -1 is divided into a block count like any other return value
WriteBlockFails ==
    /\ Writing
    /\ "write" \in Faults
    /\ Device!MaybeStored
    /\ cache_mem' = UpdatedLines(ErrorCount)
    /\ GiveUp
    /\ suspect' = suspect \cup ({cached_blocks[s] : s \in LinesOf(ErrorCount)} \cap Block)
    /\ UNCHANGED <<buf, cached_blocks>>

\* the machine restarts: libfs_init makes a new, empty cache
PowerCycle ==
    /\ Device!PowerCycle
    /\ cached_blocks' = [s \in Slot |-> NoBlock]
    /\ cache_mem' = [s \in Slot |-> Junk]
    /\ suspect' = {}

Serve ==
    \/ ReadThrough \/ ReadThroughFails
    \/ ReadHit \/ ReadMiss \/ ReadMissFails
    \/ WriteBlock \/ WriteBlockFails
    \/ Finish

Next == Request \/ Serve \/ PowerCycle

Spec == Init /\ [][Next]_vars

\* the processor does nothing else while a call is being served
FairSpec == Spec /\ WF_vars(Serve)

-----------------------------------------------------------------------------
(* Properties *)

Calls == [op : {"idle", "read", "write", "halted"},
          start : Block, len : 0 .. MaxRun, done : 0 .. MaxRun]

TypeOK ==
    /\ disk \in [Block -> Value]
    /\ call \in Calls
    /\ buf \in Device!Buffer
    /\ result \in {"none", "ok", "failed"}
    /\ cached_blocks \in [Slot -> Block \cup {NoBlock}]
    /\ cache_mem \in [Slot -> Value \cup {Junk}]
    /\ suspect \subseteq Block

Valid(s) == cached_blocks[s] # NoBlock

\* A filled cache line holds what the card holds of its block.  Code
\* behaviour: "Implemented as write through" (block_cache.c).
Coherent ==
    \A s \in Slot : Valid(s) => cache_mem[s] = disk[cached_blocks[s]]

\* Whatever fails, a line can differ from the card only if a failed write
\* changed that very line and neither a later write of its block nor a
\* reload has repaired it.  Code behaviour: the update loop of cache_write.
StaleOnlyAfterFailedWrite ==
    \A s \in Slot :
        Valid(s) /\ cached_blocks[s] \notin suspect
            => cache_mem[s] = disk[cached_blocks[s]]

\* A request that was started is answered, or the machine has stopped, or it
\* was restarted.  Code behaviour: the do-while loops of block.c.
RequestEnds == call.op \in {"read", "write"} ~> call.op \in {"idle", "halted"}

\* Seen from above, the cached device is a device without a cache.
IsDevice == Device!DeviceSpec
=============================================================================
