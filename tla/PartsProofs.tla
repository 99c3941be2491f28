----------------------------- MODULE PartsProofs -----------------------------
(***************************************************************************)
(* Proofs about the parts that work alone.                                 *)
(* Block cache: its safety for every size of device and cache, every set   *)
(* of contents and every combination of faults, and that it implements     *)
(* BlockDevice as long as the card's writes do not fail.                   *)
(* Timer: its waits are never too short, and in reach of the wrap never    *)
(* too long, for every width of the counter, every delay that fits the     *)
(* counter and every polling rate.                                         *)
(* Console: the screen shows the text, for every width and height of the   *)
(* screen and of a character.                                              *)
(* SysCalls: an open handle has a live structure of its own, files are     *)
(* lost only when no handle is free, and the table of handles implements   *)
(* the table of descriptors.                                               *)
(* Packages: a package is run at most once unless it requires itself, for  *)
(* every archive and every depth of the stack.                             *)
(* Property tags: a tag that was processed is found with its answer, for   *)
(* every array that has room for the lists, every set of tags and answers. *)
(* Serial boot loader: a line that came whole is in memory whatever was    *)
(* missed before, and the image of a first transfer without a loss is all  *)
(* that is in memory, for every file whose segments are boundaries of      *)
(* 64 KiB and, for the image, whose words have places of their own.        *)
(* All parts: each keeps its types, together with Ext2.                    *)
(***************************************************************************)
EXTENDS BlockCache, Timer, Console, SysCalls, Packages, PropertyTags, HexLoader, Parts, Ext2Proofs, SequenceTheorems,
        Induction

-----------------------------------------------------------------------------
(* Block cache: the inductive invariant *)

USE DeviceAssumption, CacheAssumption

\* the request being served lies inside the device and the caller's memory
CallFits ==
    /\ call.op \in {"idle", "halted"} => call.len = 0
    /\ call.op \in {"read", "write"} =>
        /\ call.len \in 1 .. MaxRun
        /\ call.start + call.len <= NumBlocks
        /\ call.done <= call.len

\* what is left to be written was filled in by the caller
PayloadFull ==
    call.op = "write" =>
        \A i \in Device!Offset : i < call.len => buf[i] \in Value

\* a block is cached in its own slot only
RightSlot ==
    \A s \in Slot : Valid(s) => CacheIdx(cached_blocks[s]) = s

\* only a failed write makes a block suspect
SuspectNeedsFault == "write" \notin Faults => suspect = {}

CacheInv ==
    /\ TypeOK
    /\ CallFits
    /\ PayloadFull
    /\ RightSlot
    /\ StaleOnlyAfterFailedWrite
    /\ SuspectNeedsFault

-----------------------------------------------------------------------------
(* Block cache: the slot arithmetic *)

\* every block has a slot: CacheIdx masks the number to the cache's size
LEMMA CacheIdxInSlot == \A b \in Nat : CacheIdx(b) \in Slot
  BY DEF CacheIdx, Slot

\* the block a running request has reached is inside the device
LEMMA CurrentInBlock ==
    ASSUME TypeOK, CallFits, call.op \in {"read", "write"}, call.done < call.len
    PROVE  /\ Cur \in Block
           /\ call.done \in Device!Offset
           /\ Cur = call.start + call.done
  BY DEF TypeOK, CallFits, Calls, Cur, Device!Current, Block, Device!Block,
         Device!Offset

\* a write updates a line only if that line holds one of its blocks
LEMMA LinesOfOne ==
    ASSUME TypeOK, RightSlot, Cur \in Block, NEW s \in Slot
    PROVE  s \in LinesOf(1) <=> cached_blocks[s] = Cur
  BY CacheIdxInSlot DEF LinesOf, RightSlot, Valid, TypeOK, Block, Device!Block

-----------------------------------------------------------------------------
(* Block cache: the invariant holds initially and every step preserves it *)

LEMMA CacheInitInv == Init => CacheInv
  <1> SUFFICES ASSUME Init PROVE CacheInv
    OBVIOUS
  <1> USE DEF Init, Device!DeviceInit, Device!Idle, Device!Empty
  <1>1. TypeOK
    BY DEF TypeOK, Calls, Block, Device!Block, Device!Buffer, Device!Offset
  <1>2. CallFits /\ PayloadFull /\ SuspectNeedsFault
    BY DEF CallFits, PayloadFull, SuspectNeedsFault
  <1>3. RightSlot /\ StaleOnlyAfterFailedWrite
    BY DEF RightSlot, StaleOnlyAfterFailedWrite, Valid
  <1> QED
    BY <1>1, <1>2, <1>3 DEF CacheInv

LEMMA RequestInv == CacheInv /\ Request => CacheInv'
  <1> SUFFICES ASSUME CacheInv, Request PROVE CacheInv'
    OBVIOUS
  <1> USE DEF CacheUnchanged
  <1>1. PICK c \in Device!Request("read") \cup Device!Request("write"),
             d \in Device!Buffer :
          /\ Device!Start(c, d)
          /\ c.op = "write" => d \in Device!Payload(c)
    <2>1. CASE \E c \in Device!Request("read") : Device!Start(c, Device!Empty)
      BY <2>1 DEF Device!Request, Device!Empty, Device!Buffer
    <2>2. CASE \E c \in Device!Request("write") :
                 \E d \in Device!Payload(c) : Device!Start(c, d)
      BY <2>2 DEF Device!Payload
    <2> QED
      BY <2>1, <2>2 DEF Request
  <1>2. CacheUnchanged
    BY DEF Request
  <1>3. /\ c \in Calls
        /\ c.op \in {"read", "write"}
        /\ c.len \in 1 .. MaxRun
        /\ c.start + c.len <= NumBlocks
        /\ c.done = 0
    BY DEF Device!Request, Calls, Block, Device!Block
  <1>4. TypeOK'
    BY <1>1, <1>2, <1>3 DEF CacheInv, TypeOK, Device!Start
  <1>5. CallFits'
    BY <1>1, <1>3 DEF CallFits, Device!Start
  <1>6. PayloadFull'
    BY <1>1, <1>3 DEF PayloadFull, Device!Start, Device!Payload, Device!Buffer, Device!Offset
  <1>7. RightSlot' /\ StaleOnlyAfterFailedWrite' /\ SuspectNeedsFault'
    BY <1>1, <1>2
       DEF CacheInv, Device!Start, RightSlot, StaleOnlyAfterFailedWrite, SuspectNeedsFault, Valid
  <1> QED
    BY <1>4, <1>5, <1>6, <1>7 DEF CacheInv

\* what a step that leaves the cache and the card alone has to preserve
LEMMA CacheUntouched ==
    ASSUME CacheInv, CacheUnchanged, UNCHANGED disk,
           call' \in Calls, buf' \in Device!Buffer,
           result' \in {"none", "ok", "failed"}, CallFits', PayloadFull'
    PROVE  CacheInv'
  BY DEF CacheInv, TypeOK, RightSlot, StaleOnlyAfterFailedWrite, SuspectNeedsFault, Valid,
         CacheUnchanged

LEMMA DeliveredInBuffer ==
    ASSUME TypeOK, NEW k \in Nat, call.done + k <= call.len,
           call.start + call.len <= NumBlocks
    PROVE  Device!Delivered(k) \in Device!Buffer
  BY DEF TypeOK, Calls, Block, Device!Block, Device!Delivered, Device!Buffer, Device!Offset

\* ReadThrough and ReadThroughFails move data past the cache
LEMMA PassingByInv == CacheInv /\ (ReadThrough \/ ReadThroughFails) => CacheInv'
  <1> SUFFICES ASSUME CacheInv, ReadThrough \/ ReadThroughFails PROVE CacheInv'
    OBVIOUS
  <1>1. call.len \in 1 .. MaxRun /\ call.start + call.len <= NumBlocks
    BY DEF CacheInv, CallFits, ReadThrough, ReadThroughFails
  <1>2. \A k \in 0 .. call.len : Device!Delivered(k) \in Device!Buffer
    BY <1>1, DeliveredInBuffer DEF CacheInv, TypeOK, Calls, ReadThrough, ReadThroughFails
  <1>3. buf' \in Device!Buffer
    BY <1>1, <1>2 DEF ReadThrough, ReadThroughFails
  <1>4. call' \in Calls
    BY <1>1 DEF CacheInv, TypeOK, Calls, ReadThrough, ReadThroughFails, Advance, GiveUp,
                Device!Idle, Block, Device!Block
  <1>5. CallFits' /\ PayloadFull'
    BY <1>1 DEF CacheInv, TypeOK, Calls, CallFits, PayloadFull, ReadThrough,
                ReadThroughFails, Advance, GiveUp, Device!Idle
  <1> QED
    BY <1>3, <1>4, <1>5, CacheUntouched
       DEF CacheInv, TypeOK, ReadThrough, ReadThroughFails, GiveUp

LEMMA FinishInv == CacheInv /\ Finish => CacheInv'
  BY CacheUntouched
     DEF CacheInv, TypeOK, Calls, CallFits, PayloadFull, Finish, Device!Finish, Device!Idle,
         Block, Device!Block

LEMMA ReadHitInv == CacheInv /\ ReadHit => CacheInv'
  <1> SUFFICES ASSUME CacheInv, ReadHit PROVE CacheInv'
    OBVIOUS
  <1>1. Cur \in Block /\ call.done \in Device!Offset
    BY CurrentInBlock DEF CacheInv, ReadHit, Reading
  <1>2. buf' \in Device!Buffer
    BY <1>1, CacheIdxInSlot
       DEF CacheInv, TypeOK, ReadHit, Device!Buffer, Block, Device!Block
  <1>3. call' \in Calls /\ CallFits' /\ PayloadFull'
    BY DEF CacheInv, TypeOK, Calls, CallFits, PayloadFull, ReadHit, Reading, Advance
  <1> QED
    BY <1>2, <1>3, CacheUntouched DEF CacheInv, TypeOK, ReadHit

LEMMA ReadMissInv == CacheInv /\ ReadMiss => CacheInv'
  <1> SUFFICES ASSUME CacheInv, ReadMiss PROVE CacheInv'
    OBVIOUS
  <1>1. Cur \in Block /\ call.done \in Device!Offset
    BY CurrentInBlock DEF CacheInv, ReadMiss, Reading
  <1>2. CacheIdx(Cur) \in Slot
    BY <1>1, CacheIdxInSlot DEF Block, Device!Block
  <1>3. call' \in Calls /\ CallFits' /\ PayloadFull'
    BY DEF CacheInv, TypeOK, Calls, CallFits, PayloadFull, ReadMiss, Reading, Advance
  <1>4. TypeOK'
    BY <1>1, <1>2, <1>3 DEF CacheInv, TypeOK, ReadMiss, Device!Buffer
  <1>5. RightSlot'
    BY <1>1, <1>2 DEF CacheInv, TypeOK, RightSlot, ReadMiss, Valid
  <1>6. StaleOnlyAfterFailedWrite'
    <2> SUFFICES ASSUME NEW s \in Slot, Valid(s)', cached_blocks'[s] \notin suspect'
                 PROVE  cache_mem'[s] = disk'[cached_blocks'[s]]
      BY DEF StaleOnlyAfterFailedWrite
    <2>1. CASE s = CacheIdx(Cur)
      BY <2>1, <1>1, <1>2 DEF CacheInv, TypeOK, ReadMiss
    \* another slot holds neither the block read nor the one it replaces
    <2>2. CASE s # CacheIdx(Cur)
      <3>1. cached_blocks[s] # Cur /\ cached_blocks[s] # cached_blocks[CacheIdx(Cur)]
        BY <2>2, <1>2 DEF CacheInv, TypeOK, RightSlot, ReadMiss, Valid
      <3> QED
        BY <2>2, <3>1, <1>2 DEF CacheInv, TypeOK, StaleOnlyAfterFailedWrite, ReadMiss, Valid
    <2> QED
      BY <2>1, <2>2
  <1>7. SuspectNeedsFault'
    BY DEF CacheInv, SuspectNeedsFault, ReadMiss
  <1> QED
    BY <1>3, <1>4, <1>5, <1>6, <1>7 DEF CacheInv

LEMMA ReadMissFailsInv == CacheInv /\ ReadMissFails => CacheInv'
  <1> SUFFICES ASSUME CacheInv, ReadMissFails PROVE CacheInv'
    OBVIOUS
  <1>1. CacheIdx(Cur) \in Slot
    BY CurrentInBlock, CacheIdxInSlot DEF CacheInv, ReadMissFails, Reading, Block, Device!Block
  <1>2. call' \in Calls /\ CallFits' /\ PayloadFull'
    BY DEF Calls, CallFits, PayloadFull, ReadMissFails, Device!Halted, Block, Device!Block
  <1>3. TypeOK'
    BY <1>1, <1>2 DEF CacheInv, TypeOK, ReadMissFails
  <1>4. RightSlot' /\ SuspectNeedsFault'
    BY <1>1 DEF CacheInv, TypeOK, RightSlot, SuspectNeedsFault, ReadMissFails, Valid
  <1>5. StaleOnlyAfterFailedWrite'
    <2> SUFFICES ASSUME NEW s \in Slot, Valid(s)', cached_blocks'[s] \notin suspect'
                 PROVE  cache_mem'[s] = disk'[cached_blocks'[s]]
      BY DEF StaleOnlyAfterFailedWrite
    <2>1. s # CacheIdx(Cur)
      BY <1>1 DEF CacheInv, TypeOK, ReadMissFails, Valid
    <2>2. cached_blocks[s] # cached_blocks[CacheIdx(Cur)]
      BY <1>1, <2>1 DEF CacheInv, TypeOK, RightSlot, ReadMissFails, Valid
    <2> QED
      BY <1>1, <2>1, <2>2
         DEF CacheInv, TypeOK, StaleOnlyAfterFailedWrite, ReadMissFails, Valid
  <1> QED
    BY <1>2, <1>3, <1>4, <1>5 DEF CacheInv

\* what the update loop of cache_write puts in a line is a block of memory
LEMMA UpdatedLinesType ==
    ASSUME TypeOK, NEW n
    PROVE  UpdatedLines(n) \in [Slot -> Value \cup {Junk}]
  <1>1. \A i : SourceBlock(i) \in Value \cup {Junk}
    BY DEF TypeOK, SourceBlock, Device!Buffer
  <1> QED
    BY <1>1 DEF TypeOK, UpdatedLines

LEMMA WriteBlockInv == CacheInv /\ WriteBlock => CacheInv'
  <1> SUFFICES ASSUME CacheInv, WriteBlock PROVE CacheInv'
    OBVIOUS
  <1>1. Cur \in Block /\ call.done \in Device!Offset /\ buf[call.done] \in Value
    BY CurrentInBlock DEF CacheInv, PayloadFull, WriteBlock, Writing
  <1>2. call' \in Calls /\ CallFits' /\ PayloadFull'
    BY DEF CacheInv, TypeOK, Calls, CallFits, PayloadFull, WriteBlock, Writing, Advance
  <1>3. TypeOK'
    BY <1>1, <1>2, UpdatedLinesType DEF CacheInv, TypeOK, WriteBlock
  <1>4. RightSlot' /\ SuspectNeedsFault'
    BY DEF CacheInv, RightSlot, SuspectNeedsFault, WriteBlock, Valid
  <1>5. StaleOnlyAfterFailedWrite'
    <2> SUFFICES ASSUME NEW s \in Slot, Valid(s)', cached_blocks'[s] \notin suspect'
                 PROVE  cache_mem'[s] = disk'[cached_blocks'[s]]
      BY DEF StaleOnlyAfterFailedWrite
    <2>1. s \in LinesOf(1) <=> cached_blocks[s] = Cur
      BY <1>1, LinesOfOne DEF CacheInv
    <2>2. CASE cached_blocks[s] = Cur
      <3>1. cache_mem'[s] = SourceBlock(0)
        BY <1>1, <2>1, <2>2 DEF WriteBlock, UpdatedLines, Block, Device!Block
      <3>2. SourceBlock(0) = buf[call.done]
        BY <1>1 DEF SourceBlock, Device!Offset
      <3> QED
        BY <1>1, <2>2, <3>1, <3>2 DEF CacheInv, TypeOK, WriteBlock
    <2>3. CASE cached_blocks[s] # Cur
      BY <1>1, <2>1, <2>3
         DEF CacheInv, TypeOK, StaleOnlyAfterFailedWrite, WriteBlock, UpdatedLines, Valid
    <2> QED
      BY <2>2, <2>3
  <1> QED
    BY <1>2, <1>3, <1>4, <1>5 DEF CacheInv

LEMMA WriteBlockFailsInv == CacheInv /\ WriteBlockFails => CacheInv'
  <1> SUFFICES ASSUME CacheInv, WriteBlockFails PROVE CacheInv'
    OBVIOUS
  <1>1. Cur \in Block /\ call.done \in Device!Offset /\ buf[call.done] \in Value
    BY CurrentInBlock DEF CacheInv, PayloadFull, WriteBlockFails, Writing
  <1>2. call' \in Calls /\ CallFits' /\ PayloadFull' /\ SuspectNeedsFault'
    BY DEF Calls, CallFits, PayloadFull, SuspectNeedsFault, WriteBlockFails, GiveUp,
           Device!Idle, Block, Device!Block
  <1>3. disk' \in [Block -> Value]
    BY <1>1 DEF CacheInv, TypeOK, WriteBlockFails, Device!MaybeStored, Device!Current, Cur
  <1>4. TypeOK'
    BY <1>2, <1>3, UpdatedLinesType DEF CacheInv, TypeOK, WriteBlockFails, GiveUp
  <1>5. RightSlot'
    BY DEF CacheInv, RightSlot, WriteBlockFails, Valid
  <1>6. StaleOnlyAfterFailedWrite'
    <2> SUFFICES ASSUME NEW s \in Slot, Valid(s)', cached_blocks'[s] \notin suspect'
                 PROVE  cache_mem'[s] = disk'[cached_blocks'[s]]
      BY DEF StaleOnlyAfterFailedWrite
    <2>1. cached_blocks[s] \in Block /\ cached_blocks[s] \notin suspect
      BY DEF CacheInv, TypeOK, WriteBlockFails, Valid
    \* a line the loop changed would be suspect now
    <2>2. s \notin LinesOf(ErrorCount)
      BY <2>1 DEF WriteBlockFails
    \* the loop visits the current block first
    <2>3. cached_blocks[s] # Cur
      <3>1. 0 \in 0 .. ErrorCount - 1 /\ Cur + 0 = Cur
        BY <1>1 DEF Block, Device!Block
      <3> QED
        BY <2>1, <2>2, <3>1 DEF CacheInv, LinesOf, RightSlot, WriteBlockFails, Valid
    <2> QED
      BY <1>1, <2>1, <2>2, <2>3
         DEF CacheInv, TypeOK, StaleOnlyAfterFailedWrite, WriteBlockFails, UpdatedLines,
             Valid, Device!MaybeStored, Device!Current, Cur
  <1> QED
    BY <1>2, <1>4, <1>5, <1>6 DEF CacheInv

LEMMA PowerCycleInv == CacheInv /\ PowerCycle => CacheInv'
  <1> SUFFICES ASSUME CacheInv, PowerCycle PROVE CacheInv'
    OBVIOUS
  <1>1. disk' \in [Block -> Value]
    <2>1. CASE UNCHANGED disk
      BY <2>1 DEF CacheInv, TypeOK
    <2>2. CASE ~ UNCHANGED disk
      <3>1. Cur \in Block /\ buf[call.done] \in Value
        BY <2>2, CurrentInBlock
           DEF CacheInv, PayloadFull, PowerCycle, Device!PowerCycle, Device!MaybeStored
      <3> QED
        BY <2>2, <3>1 DEF CacheInv, TypeOK, PowerCycle, Device!PowerCycle,
                          Device!MaybeStored, Device!Current, Cur
    <2> QED
      BY <2>1, <2>2
  <1> USE DEF PowerCycle, Device!PowerCycle, Device!Idle
  <1>2. TypeOK'
    BY <1>1 DEF TypeOK, Calls, Block, Device!Block, Device!Empty, Device!Buffer
  <1>3. CallFits' /\ PayloadFull' /\ SuspectNeedsFault'
    BY DEF CallFits, PayloadFull, SuspectNeedsFault
  <1>4. RightSlot' /\ StaleOnlyAfterFailedWrite'
    BY DEF RightSlot, StaleOnlyAfterFailedWrite, Valid
  <1> QED
    BY <1>2, <1>3, <1>4 DEF CacheInv

LEMMA CacheStutterInv == CacheInv /\ UNCHANGED vars => CacheInv'
  BY DEF CacheInv, vars, TypeOK, CallFits, PayloadFull, RightSlot, StaleOnlyAfterFailedWrite,
         SuspectNeedsFault, Valid

-----------------------------------------------------------------------------
(* Block cache: the theorems *)

\* The invariant of the cached device, with any combination of faults: the
\* cache keeps its slots in order and only failed writes spoil them.
THEOREM CacheInvariant == Spec => []CacheInv
  <1>1. CacheInv /\ [Next]_vars => CacheInv'
    BY RequestInv, PassingByInv, ReadHitInv, ReadMissInv, ReadMissFailsInv, WriteBlockInv,
       WriteBlockFailsInv, FinishInv, PowerCycleInv, CacheStutterInv DEF Next, Serve
  <1> QED
    BY CacheInitInv, <1>1, PTL DEF Spec

\* Every variable keeps its type, whatever block.c and block_cache.c do.
THEOREM CacheTypeOK == Spec => []TypeOK
  <1>1. CacheInv => TypeOK
    BY DEF CacheInv
  <1> QED
    BY CacheInvariant, <1>1, PTL

\* A line differs from the card only where a failed write of block_cache.c
\* changed it, for every device, cache and combination of faults.
THEOREM StaleOnlyAfterFailedWriteHolds == Spec => []StaleOnlyAfterFailedWrite
  <1>1. CacheInv => StaleOnlyAfterFailedWrite
    BY DEF CacheInv
  <1> QED
    BY CacheInvariant, <1>1, PTL

\* As long as no write fails, the write-through cache of block_cache.c is
\* coherent with the card, whatever reads fail and wherever the power goes.
THEOREM CoherentHolds == ASSUME "write" \notin Faults PROVE Spec => []Coherent
  <1>1. CacheInv => Coherent
    BY DEF CacheInv, SuspectNeedsFault, StaleOnlyAfterFailedWrite, Coherent
  <1> QED
    BY CacheInvariant, <1>1, PTL

-----------------------------------------------------------------------------
(* Block cache: the cached device implements the device without a cache *)

\* one block more of a read is one block more in the caller's memory
LEMMA DeliverOne ==
    ASSUME CacheInv, Reading, buf' = [buf EXCEPT ![call.done] = disk[Cur]],
           Advance(1), UNCHANGED <<disk, result>>
    PROVE  Device!DeviceNext
  <1>1. Device!Delivered(1) = [buf EXCEPT ![call.done] = disk[Cur]]
    <2>1. call.done \in Device!Offset /\ Cur = call.start + call.done
      BY CurrentInBlock DEF CacheInv, Reading
    <2>2. \A i \in Device!Offset :
            (i >= call.done /\ i < call.done + 1) <=> i = call.done
      BY <2>1 DEF Device!Offset
    <2>3. buf = [i \in Device!Offset |-> buf[i]]
      BY DEF CacheInv, TypeOK, Device!Buffer
    <2> QED
      BY <2>1, <2>2, <2>3 DEF Device!Delivered
  <1>2. Device!Deliver(1)
    BY <1>1 DEF CacheInv, TypeOK, Calls, Reading, Advance, Device!Deliver
  <1> QED
    BY <1>2 DEF Device!DeviceNext

\* every step of the cache is a step of the device, or of nobody
LEMMA StepIsDeviceStep ==
    ASSUME CacheInv, "write" \notin Faults, [Next]_vars
    PROVE  [Device!DeviceNext]_(Device!devVars)
  <1> SUFFICES ASSUME Next PROVE Device!DeviceNext
    BY DEF vars, Device!devVars
  <1>1. CASE Request
    BY <1>1 DEF Request, Device!DeviceNext
  <1>2. CASE ReadThrough
    <2>1. Device!Deliver(call.len)
      BY <1>2 DEF CacheInv, TypeOK, Calls, ReadThrough, Advance, Device!Deliver
    <2> QED
      BY <1>2, <2>1 DEF CacheInv, CallFits, ReadThrough, Device!DeviceNext
  <1>3. CASE ReadThroughFails
    <2>1. Device!Delivered(0) = buf
      BY <1>3 DEF CacheInv, TypeOK, ReadThroughFails, Device!Delivered, Device!Buffer,
                  Device!Offset
    <2>2. UNCHANGED buf \/ \E k \in 1 .. call.len - call.done : buf' = Device!Delivered(k)
      BY <1>3, <2>1 DEF CacheInv, CallFits, ReadThroughFails
    <2>3. Device!Fail
      BY <1>3, <2>2 DEF CacheInv, CallFits, ReadThroughFails, GiveUp, Device!Fail,
                        Device!MaybeStored
    <2> QED
      BY <2>3 DEF Device!DeviceNext
  <1>4. CASE ReadHit
    <2>1. Cur \in Block /\ CacheIdx(Cur) \in Slot
      BY <1>4, CurrentInBlock, CacheIdxInSlot DEF CacheInv, ReadHit, Reading, Block, Device!Block
    \* a hit is as good as the card, because the cache is coherent
    <2>2. cache_mem[CacheIdx(Cur)] = disk[Cur]
      BY <1>4, <2>1 DEF CacheInv, TypeOK, StaleOnlyAfterFailedWrite, SuspectNeedsFault, Valid,
                        ReadHit, Hit, Block, Device!Block
    <2> QED
      BY <1>4, <2>2, DeliverOne DEF ReadHit
  <1>5. CASE ReadMiss
    BY <1>5, DeliverOne DEF ReadMiss
  <1>6. CASE ReadMissFails
    BY <1>6 DEF ReadMissFails, Reading, Device!Halt, Device!DeviceNext
  <1>7. CASE WriteBlock
    BY <1>7 DEF WriteBlock, Writing, Advance, Cur, Device!Store, Device!DeviceNext
  <1>8. CASE WriteBlockFails
    BY <1>8 DEF WriteBlockFails
  <1>9. CASE Finish
    BY <1>9 DEF Finish, Device!DeviceNext
  <1>10. CASE PowerCycle
    BY <1>10 DEF PowerCycle, Device!DeviceNext
  <1> QED
    BY <1>1, <1>2, <1>3, <1>4, <1>5, <1>6, <1>7, <1>8, <1>9, <1>10 DEF Next, Serve

\* As long as no write fails, block.c over block_cache.c behaves as the plain
\* device of BlockDevice: every read returns what was last written.
THEOREM CacheImplementsDevice ==
    ASSUME "write" \notin Faults
    PROVE  Spec => IsDevice
  <1>1. Init => Device!DeviceInit
    BY DEF Init
  <1>2. CacheInv /\ [Next]_vars => [Device!DeviceNext]_(Device!devVars)
    BY StepIsDeviceStep
  <1> QED
    BY <1>1, <1>2, CacheInvariant, PTL DEF Spec, IsDevice, Device!DeviceSpec

HIDE CacheAssumption
HIDE DeviceAssumption

-----------------------------------------------------------------------------
(* Timer *)

USE TimerAssumption

\* Where the counter stands in a wait without rollover: as long as it has not
\* reached the trigger, it is as far below it as time is left to wait.
Countdown ==
    pc # "idle" /\ ~tw.rollover /\ usec > 0 /\ elapsed < usec
        => clo = tw.trigger_value - (usec - elapsed)

\* only the counter passing the trigger ends a wait without its condition
StillWaiting ==
    pc # "idle" => outcome = "none"

TimerInv == TimerTypeOK /\ Countdown /\ StillWaiting /\ NeverEarly /\ NeverLate

-----------------------------------------------------------------------------

LEMMA ModBelow == ASSUME NEW n \in Nat, n < Modulus PROVE n % Modulus = n
  OBVIOUS

LEMMA ModAbove ==
    ASSUME NEW m \in Nat \ {0}, NEW n \in Nat, m <= n, n < 2 * m
    PROVE  n % m = n - m
  OBVIOUS

LEMMA ModInCounter == ASSUME NEW n \in Nat PROVE n % Modulus \in Counter
  BY DEF Counter

\* the trigger of a delay that fits: no rollover means it lies usec ahead
LEMMA RegisterTimer ==
    ASSUME NEW u \in Usecs, clo \in Counter
    PROVE  /\ register_timer(u) \in [trigger_value : Counter, rollover : BOOLEAN]
           /\ u > 0 /\ ~register_timer(u).rollover
                => register_timer(u).trigger_value = clo + u
  <1>0. u \in Int /\ clo \in Nat /\ clo < Modulus /\ u < Modulus
    BY DEF Counter
  <1>1. CASE u < 0
    BY <1>1 DEF register_timer, Counter
  <1>2. CASE u >= 0
    <2>1. clo + u \in Nat /\ clo + u < 2 * Modulus
      BY <1>0, <1>2
    <2>2. Trigger(u) \in Counter
      BY <2>1, ModInCounter DEF Trigger
    <2>3. clo + u < Modulus => Trigger(u) = clo + u
      BY <2>1, ModBelow DEF Trigger
    <2>4. clo + u >= Modulus => Trigger(u) = clo + u - Modulus
      <3> DEFINE n == clo + u
      <3>1. n \in Nat /\ n < 2 * Modulus /\ Modulus \in Nat \ {0}
        BY <2>1
      <3> HIDE DEF n
      <3>2. Modulus <= n => n % Modulus = n - Modulus
        BY <3>1, ModAbove
      <3>3. clo + u >= Modulus <=> Modulus <= n
        BY <3>1 DEF n
      <3> QED
        BY <1>0, <3>1, <3>2, <3>3 DEF n, Trigger
    <2>5. Trigger(u) > clo <=> u > 0 /\ clo + u < Modulus
      BY <1>2, <2>1, <2>3, <2>4 DEF Counter
    <2>6. register_timer(u) = [trigger_value |-> Trigger(u),
                              rollover |-> ~(Trigger(u) > clo)]
      BY <1>0, <1>2 DEF register_timer
    <2>7. register_timer(u) \in [trigger_value : Counter, rollover : BOOLEAN]
      BY <2>2, <2>6
    <2>8. u > 0 /\ ~register_timer(u).rollover
            => register_timer(u).trigger_value = clo + u
      <3>1. register_timer(u).rollover = ~(Trigger(u) > clo)
        BY <2>6
      <3>2. register_timer(u).trigger_value = Trigger(u)
        BY <2>6
      <3> QED
        BY <2>3, <2>5, <3>1, <3>2
    <2> QED
      BY <2>7, <2>8
  <1> QED
    BY <1>0, <1>1, <1>2

LEMMA TimerInitInv == TimerInit => TimerInv
  BY DEF TimerInit, TimerInv, TimerTypeOK, Counter, Countdown, StillWaiting, NeverEarly, NeverLate

LEMMA WaitInv == ASSUME TimerInv, NEW u \in Usecs, Wait(u) PROVE TimerInv'
  <1> USE DEF TimerInv, Wait
  <1>1. register_timer(u) \in [trigger_value : Counter, rollover : BOOLEAN]
    BY RegisterTimer DEF TimerTypeOK
  <1>2. u > 0 /\ ~register_timer(u).rollover => register_timer(u).trigger_value = clo + u
    BY RegisterTimer DEF TimerTypeOK
  <1>3. TimerTypeOK'
    BY <1>1 DEF TimerTypeOK
  <1>4. Countdown'
    BY <1>1, <1>2 DEF Countdown, TimerTypeOK, Counter
  <1>5. StillWaiting' /\ NeverEarly' /\ NeverLate'
    BY DEF StillWaiting, NeverEarly, NeverLate
  <1> QED
    BY <1>3, <1>4, <1>5

LEMMA CheckInv == TimerInv /\ Check => TimerInv'
  BY DEF TimerInv, Check, TimerTypeOK, Countdown, StillWaiting, NeverEarly, NeverLate, InReach

\* the counter after d more microseconds of a wait without rollover
LEMMA PassesCountdown ==
    ASSUME TimerTypeOK, Countdown, pc # "idle", ~tw.rollover, usec > 0, elapsed < usec,
           NEW d \in 1 .. MaxGap, Passes(d)
    PROVE  /\ elapsed' < usec => /\ elapsed' = elapsed + d
                                 /\ clo' = tw.trigger_value - (usec - elapsed')
           /\ InReach /\ elapsed' >= usec => clo' >= tw.trigger_value
           /\ InReach => elapsed' < usec + MaxGap
  <1>1. clo = tw.trigger_value - (usec - elapsed) /\ clo \in Nat /\ tw.trigger_value \in Nat /\ tw.trigger_value < Modulus
    BY DEF TimerTypeOK, Countdown, Counter
  <1>2. usec \in Nat /\ usec <= Cap /\ elapsed \in Nat /\ elapsed <= Cap
    BY DEF TimerTypeOK
  <1>3. elapsed' < usec => elapsed' = elapsed + d
    BY <1>2 DEF Passes
  <1>4. clo + d < Modulus => clo' = clo + d
    BY <1>1, ModBelow DEF Passes
  <1>5. elapsed + d < usec => clo + d < Modulus
    BY <1>1, <1>2
  <1>6. InReach => clo + d < Modulus
    BY <1>1, <1>2 DEF InReach
  <1>7. elapsed' >= usec => elapsed + d >= usec
    BY <1>2 DEF Passes
  <1>8. elapsed' <= elapsed + d /\ elapsed' \in Nat
    BY <1>2 DEF Passes
  <1>9. elapsed' < usec => clo' = tw.trigger_value - (usec - elapsed')
    BY <1>1, <1>2, <1>3, <1>4, <1>5
  <1>10. InReach /\ elapsed' >= usec => clo' >= tw.trigger_value
    BY <1>1, <1>2, <1>4, <1>6, <1>7
  <1>11. InReach => elapsed' < usec + MaxGap
    BY <1>2, <1>8
  <1> QED
    BY <1>3, <1>9, <1>10, <1>11

LEMMA CompareInv == ASSUME TimerInv, NEW d \in 1 .. MaxGap, Compare(d) PROVE TimerInv'
  <1> USE DEF TimerInv, Compare
  <1>1. TimerTypeOK'
    <2>1. clo + d \in Nat /\ elapsed + d \in Nat
      BY DEF TimerTypeOK, Counter
    <2> QED
      BY <2>1, ModInCounter DEF TimerTypeOK, Passes
  <1>2. StillWaiting'
    BY DEF StillWaiting
  <1>3. CASE ~tw.rollover /\ usec > 0 /\ elapsed < usec
    <2>1. /\ elapsed' < usec => /\ elapsed' = elapsed + d
                                /\ clo' = tw.trigger_value - (usec - elapsed')
          /\ InReach /\ elapsed' >= usec => clo' >= tw.trigger_value
          /\ InReach => elapsed' < usec + MaxGap
      BY <1>3, PassesCountdown
    <2>2. Countdown'
      BY <2>1 DEF Countdown
    <2>3. NeverEarly'
      BY <1>1, <1>3, <2>1 DEF TimerTypeOK, Counter, NeverEarly, StillWaiting, compare_timer
    <2>4. NeverLate'
      BY <1>1, <1>3, <2>1
         DEF TimerTypeOK, Counter, NeverLate, StillWaiting, InReach, compare_timer
    <2> QED
      BY <1>1, <1>2, <2>2, <2>3, <2>4
  <1>4. CASE tw.rollover
    BY <1>1, <1>2, <1>4 DEF compare_timer, Countdown, NeverEarly, NeverLate, InReach,
                            StillWaiting
  <1>5. CASE ~tw.rollover /\ ~(usec > 0 /\ elapsed < usec)
    <2>1. elapsed' >= elapsed
      BY DEF TimerTypeOK, Passes
    <2>2. Countdown' /\ NeverEarly'
      BY <1>1, <1>5, <2>1 DEF TimerTypeOK, Countdown, NeverEarly
    <2>3. NeverLate'
      BY <1>5 DEF TimerTypeOK, NeverLate, InReach
    <2> QED
      BY <1>1, <1>2, <2>2, <2>3
  <1> QED
    BY <1>3, <1>4, <1>5 DEF TimerTypeOK

LEMMA OtherInv ==
    ASSUME TimerInv, (\E d \in 1 .. MaxGap : Run(d)) \/ Hardware \/ UNCHANGED timerVars
    PROVE  TimerInv'
  <1>1. CASE \E d \in 1 .. MaxGap : Run(d)
    <2>1. PICK d \in 1 .. MaxGap : Run(d)
      BY <1>1
    <2>2. clo + d \in Nat
      BY DEF TimerInv, TimerTypeOK, Counter
    <2> QED
      BY <2>1, <2>2, ModInCounter
         DEF TimerInv, Run, TimerTypeOK, Countdown, StillWaiting, NeverEarly, NeverLate, InReach
  <1>2. CASE Hardware
    BY <1>2 DEF TimerInv, Hardware, TimerTypeOK, Countdown, StillWaiting, NeverEarly, NeverLate,
                InReach
  <1>3. CASE UNCHANGED timerVars
    BY <1>3 DEF TimerInv, timerVars, TimerTypeOK, Countdown, StillWaiting, NeverEarly, NeverLate, InReach
  <1> QED
    BY <1>1, <1>2, <1>3

-----------------------------------------------------------------------------

THEOREM TimerInvariant == TimerSpec => []TimerInv
  <1>1. TimerInv /\ [TimerNext]_timerVars => TimerInv'
    BY WaitInv, CheckInv, CompareInv, OtherInv DEF TimerNext, Poll
  <1> QED
    BY TimerInitInv, <1>1, PTL DEF TimerSpec

\* The variables keep their types: a trigger is always a value of the counter.
THEOREM TimerTypeCorrect == TimerSpec => []TimerTypeOK
  <1>1. TimerInv => TimerTypeOK
    BY DEF TimerInv
  <1> QED
    BY TimerInvariant, <1>1, PTL

\* No usleep and no TIMEOUT_WAIT gives up before its time, for every width of
\* the counter, every delay and every polling rate.
THEOREM NeverEarlyHolds == TimerSpec => []NeverEarly
  <1>1. TimerInv => NeverEarly
    BY DEF TimerInv
  <1> QED
    BY TimerInvariant, <1>1, PTL

\* A wait whose trigger is in reach below the wrap of the counter ends at the
\* first poll after its time.
THEOREM NeverLateHolds == TimerSpec => []NeverLate
  <1>1. TimerInv => NeverLate
    BY DEF TimerInv
  <1> QED
    BY TimerInvariant, <1>1, PTL

\* Both, as the runs check it.
THEOREM KeepsTimeHolds == TimerSpec => []KeepsTime
  <1>1. TimerInv => KeepsTime
    BY DEF TimerInv, KeepsTime
  <1> QED
    BY TimerInvariant, <1>1, PTL

HIDE TimerAssumption

-----------------------------------------------------------------------------
(* Console *)

USE ConsoleAssumption

Pixel == 0 .. Height - 1
Line  == 0 .. Rows - 1
Piece == {Dark, Leftover} \cup {Lit(c, r) : c \in Glyph, r \in 0 .. CharH - 1}

Pixels == [Pixel -> [Column -> Piece]]
Chars  == [Line -> [Column -> Glyph \cup {"none"}]]

\* what row p of the pixels shows in column x when chars is the text
PieceShows(pixels, chars, clean, p, x) ==
    IF p \div CharH \in Line /\ chars[p \div CharH][x] # "none"
    THEN pixels[p][x] = Lit(chars[p \div CharH][x], p % CharH)
    ELSE pixels[p][x] = Dark \/ (~clean /\ pixels[p][x] = Leftover)

Shows(pixels, chars, clean) ==
    \A p \in Pixel, x \in Column : PieceShows(pixels, chars, clean, p, x)

\* ShowsText row by row of the pixels, the rows below the last line included:
\* these scroll up into the last line.
ConsoleInv ==
    /\ fb \in Pixels
    /\ cur_x \in Column /\ cur_y \in Line
    /\ text \in Chars
    /\ cleared \in BOOLEAN
    /\ Shows(fb, text, cleared)

-----------------------------------------------------------------------------
(* Arithmetic *)

\* one line of characters further down
LEMMA NextLine ==
    ASSUME NEW m \in Nat \ {0}, NEW n \in Nat
    PROVE  (n + m) \div m = (n \div m) + 1 /\ (n + m) % m = n % m
  <1> DEFINE q == n \div m
             s == n % m
  <1>1. q \in Nat /\ s \in 0 .. m - 1 /\ n = q * m + s
    BY DivMod
  <1> HIDE DEF q, s
  <1>2. n + m = (q + 1) * m + s
    BY <1>1
  <1>3. (n + m) \div m = q + 1 /\ (n + m) % m = s
    BY <1>1, <1>2, q + 1 \in Nat, n + m \in Nat, Quotient
  <1> QED
    BY <1>3 DEF q, s

LEMMA HeightIsNat ==
    Height \in Nat /\ Rows * CharH \in Nat /\ Height = Rows * CharH + Below /\ CharH <= Rows * CharH
  <1>1. Rows * CharH \in Nat
    OBVIOUS
  <1>2. 0 * CharH + CharH <= Rows * CharH
    BY NextMultiple
  <1> QED
    BY <1>1, <1>2 DEF Height

\* the rows that a scroll blanks are not above the last line
LEMMA LastLine ==
    ASSUME NEW p \in Nat, p >= Height - CharH, p \div CharH \in Line
    PROVE  p \div CharH = Rows - 1
  <1> DEFINE y == p \div CharH
  <1>1. y \in Nat /\ p < y * CharH + CharH
    BY DivMod
  <1>2. y \in 0 .. Rows - 1
    BY DEF Line
  <1> HIDE DEF y
  <1>3. y # Rows - 1 => (y + 1) * CharH + CharH <= Rows * CharH
    BY <1>1, <1>2, NextMultiple, y + 1 \in Nat
  <1>4. (y + 1) * CharH = y * CharH + CharH /\ y * CharH \in Nat
    BY <1>1
  <1>5. y = Rows - 1
    BY <1>1, <1>3, <1>4, HeightIsNat
  <1> QED
    BY <1>5 DEF y

-----------------------------------------------------------------------------
(* The steps *)

LEMMA NoTextIsLine == NoText \in [Column -> Glyph \cup {"none"}]
  BY DEF NoText

LEMMA FirstInRange == 0 \in Column /\ 0 \in Line
  BY DEF Column, Line

LEMMA ConsoleInitInv == ConsoleInit => ConsoleInv
  <1> SUFFICES ASSUME ConsoleInit PROVE ConsoleInv
    OBVIOUS
  <1>1. fb \in Pixels
    BY DEF ConsoleInit, Pixels, Pixel, Piece
  <1>2. text \in Chars
    <2>1. text = [y \in Line |-> NoText]
      BY DEF ConsoleInit, Line
    <2> QED
      BY <2>1, NoTextIsLine DEF Chars
  <1>3. cur_x \in Column /\ cur_y \in Line /\ cleared \in BOOLEAN
    <2>1. cleared \in BOOLEAN
      BY DEF ConsoleInit
    <2>2. cur_x \in Column /\ cur_y \in Line
      BY FirstInRange DEF ConsoleInit
    <2> QED
      BY <2>1, <2>2
  <1>4. Shows(fb, text, cleared)
    BY DEF ConsoleInit, Shows, PieceShows, Pixel, Line, NoText
  <1> QED
    BY <1>1, <1>2, <1>3, <1>4 DEF ConsoleInv

LEMMA ClearInv ==
    ASSUME ConsoleInv, clear
    PROVE  ConsoleInv'
  <1>1. fb' \in Pixels
    BY DEF clear, Pixels, Pixel, Piece
  <1>2. text' \in Chars
    BY NoTextIsLine DEF clear, Chars, Line
  <1>3. cur_x' \in Column /\ cur_y' \in Line /\ cleared' \in BOOLEAN
    <2>1. cleared' \in BOOLEAN
      BY DEF clear
    <2>2. cur_x' \in Column /\ cur_y' \in Line
      BY FirstInRange DEF clear
    <2> QED
      BY <2>1, <2>2
  <1>4. Shows(fb', text', cleared')
    BY DEF clear, Shows, PieceShows, Pixel, Line, NoText
  <1> QED
    BY <1>1, <1>2, <1>3, <1>4 DEF ConsoleInv

\* a newline after pixels and chars, which agree
LEMMA NewlineInv ==
    ASSUME NEW pixels \in Pixels, NEW chars \in Chars, cleared \in BOOLEAN,
           Shows(pixels, chars, cleared), cur_y \in Line,
           newline(pixels, chars), UNCHANGED cleared
    PROVE  ConsoleInv'
  <1>1. CASE cur_y + 1 # Rows
    <2>1. fb' = pixels /\ text' = chars /\ cur_y' = cur_y + 1 /\ cur_x' = 0
      BY <1>1 DEF newline
    <2>2. cur_x' \in Column /\ cur_y' \in Line
      BY <1>1, <2>1 DEF Column, Line
    <2> QED
      BY <2>1, <2>2 DEF ConsoleInv
  <1>2. CASE cur_y + 1 = Rows
    <2>1. fb' = Scrolled(pixels) /\ cur_x' = 0 /\ cur_y' = cur_y
          /\ text' = [y \in Line |-> IF y < Rows - 1 THEN chars[y + 1] ELSE NoText]
      BY <1>2 DEF newline, Line
    <2>2. \A p \in Pixel : p < Height - CharH => p + CharH \in Pixel
      BY HeightIsNat DEF Pixel
    <2>3. fb' \in Pixels
      BY <2>1, <2>2 DEF Scrolled, Pixels, Pixel, Piece
    <2>4. text' \in Chars
      <3>1. \A y \in Line : y < Rows - 1 => y + 1 \in Line
        BY DEF Line
      <3> QED
        BY <2>1, <3>1 DEF Chars, NoText
    <2>5. cur_x' \in Column /\ cur_y' \in Line
      BY <2>1 DEF Column
    <2>6. ASSUME NEW p \in Pixel, NEW x \in Column
          PROVE  PieceShows(fb', text', cleared, p, x)
      <3> DEFINE y == p \div CharH
      <3>1. p \in Nat /\ y \in Nat
        BY DivMod, HeightIsNat DEF Pixel
      <3>2. y \in Line => text'[y] = IF y < Rows - 1 THEN chars[y + 1] ELSE NoText
        BY <2>1
      <3>3. CASE p < Height - CharH
        <4>1. p + CharH \in Pixel /\ fb'[p][x] = pixels[p + CharH][x]
          BY <2>1, <2>2, <3>3 DEF Scrolled, Pixel
        <4>2. (p + CharH) \div CharH = y + 1 /\ (p + CharH) % CharH = p % CharH
          BY <3>1, NextLine
        <4>3. PieceShows(pixels, chars, cleared, p + CharH, x)
          BY <4>1 DEF Shows
        <4>4. y + 1 \in Line <=> y \in Line /\ y < Rows - 1
          BY <3>1 DEF Line
        <4> HIDE DEF y
        <4>5. CASE y + 1 \in Line
          <5>1. text'[y] = chars[y + 1] /\ y \in Line
            BY <3>2, <4>4, <4>5
          <5> QED
            BY <4>1, <4>2, <4>3, <4>5, <5>1 DEF PieceShows, y
        <4>6. CASE y + 1 \notin Line
          <5>1. y \in Line => text'[y][x] = "none"
            BY <3>2, <4>4, <4>6 DEF NoText
          <5>2. fb'[p][x] = Dark \/ (~cleared /\ fb'[p][x] = Leftover)
            BY <4>1, <4>2, <4>3, <4>6 DEF PieceShows
          <5> QED
            BY <5>1, <5>2 DEF PieceShows, y
        <4> QED
          BY <4>5, <4>6
      <3>4. CASE ~(p < Height - CharH)
        <4>1. fb'[p][x] = Dark
          BY <2>1, <3>4 DEF Scrolled, Pixel
        <4>2. y \in Line => y = Rows - 1
          BY <3>1, <3>4, LastLine, HeightIsNat
        <4>3. y \in Line => text'[y][x] = "none"
          BY <3>2, <4>2 DEF NoText
        <4> QED
          BY <4>1, <4>3 DEF PieceShows
      <3> QED
        BY <3>3, <3>4
    <2>7. Shows(fb', text', cleared')
      BY <2>6 DEF Shows
    <2> QED
      BY <2>3, <2>4, <2>5, <2>7 DEF ConsoleInv
  <1> QED
    BY <1>1, <1>2

\* a character is drawn: its rows are in place, all others are as they were
LEMMA WriteInv ==
    ASSUME ConsoleInv, NEW c \in Glyph, Write(c)
    PROVE  ConsoleInv'
  <1> DEFINE pixels == draw_char(c, cur_x, cur_y)
             chars  == [text EXCEPT ![cur_y][cur_x] = c]
  <1>1. /\ fb \in Pixels /\ text \in Chars /\ cleared \in BOOLEAN
        /\ cur_x \in Column /\ cur_y \in Line
        /\ Shows(fb, text, cleared)
    BY DEF ConsoleInv
  <1>2. /\ IF cur_x + 1 = Columns THEN newline(pixels, chars)
           ELSE fb' = pixels /\ text' = chars /\ cur_x' = cur_x + 1 /\ UNCHANGED cur_y
        /\ UNCHANGED cleared
    BY DEF Write
  <1>3. pixels = [p \in Pixel |-> IF p \div CharH = cur_y
                    THEN [fb[p] EXCEPT ![cur_x] = Lit(c, p % CharH)] ELSE fb[p]]
    BY DEF draw_char, Pixel
  <1>4. \A p \in Pixel : fb[p] \in [Column -> Piece] /\ Lit(c, p % CharH) \in Piece
    <2>1. \A p \in Pixel : p % CharH \in 0 .. CharH - 1
      BY DivMod, HeightIsNat DEF Pixel
    <2> QED
      BY <1>1, <2>1 DEF Pixels, Piece
  <1>5. \A y \in Line : text[y] \in [Column -> Glyph \cup {"none"}]
    BY <1>1 DEF Chars
  <1>6. chars \in Chars
    BY <1>1 DEF Chars
  <1>7. \A y \in Line, x \in Column :
          chars[y][x] = IF y = cur_y /\ x = cur_x THEN c ELSE text[y][x]
    BY <1>1, <1>5 DEF Chars
  <1> HIDE DEF chars, pixels
  <1>8. pixels \in Pixels
    BY <1>3, <1>4 DEF Pixels
  <1>9. ASSUME NEW p \in Pixel, NEW x \in Column
        PROVE  PieceShows(pixels, chars, cleared, p, x)
    <2> DEFINE y == p \div CharH
               r == p % CharH
    <2> HIDE DEF y, r
    <2>1. pixels[p][x] = IF y = cur_y /\ x = cur_x THEN Lit(c, r) ELSE fb[p][x]
      BY <1>3, <1>4 DEF y, r
    <2>2. PieceShows(fb, text, cleared, p, x)
      BY <1>1 DEF Shows
    <2>3. CASE y = cur_y /\ x = cur_x
      <3>1. y \in Line /\ chars[y][x] = c /\ c # "none"
        BY <1>1, <1>7, <2>3
      <3> QED
        BY <2>1, <2>3, <3>1 DEF PieceShows, y, r
    <2>4. CASE ~(y = cur_y /\ x = cur_x)
      <3>1. pixels[p][x] = fb[p][x] /\ (y \in Line => chars[y][x] = text[y][x])
        BY <1>7, <2>1, <2>4
      <3> QED
        BY <2>2, <3>1 DEF PieceShows, y, r
    <2> QED
      BY <2>3, <2>4
  <1>10. Shows(pixels, chars, cleared)
    BY <1>9 DEF Shows
  <1>11. CASE cur_x + 1 = Columns
    BY <1>1, <1>2, <1>6, <1>8, <1>10, <1>11, NewlineInv
  <1>12. CASE cur_x + 1 # Columns
    <2>1. fb' = pixels /\ text' = chars /\ cur_x' = cur_x + 1 /\ cur_y' = cur_y /\ cleared' = cleared
      BY <1>2, <1>12
    <2>2. cur_x' \in Column
      BY <1>1, <1>12, <2>1 DEF Column
    <2> QED
      BY <1>1, <1>6, <1>8, <1>10, <2>1, <2>2 DEF ConsoleInv
  <1> QED
    BY <1>11, <1>12

-----------------------------------------------------------------------------
(* The theorems *)

\* The screen agrees with the text in every row of pixels, the rows below the
\* last line of characters included.  Code behaviour: clear, console_putc and
\* newline, for every size of the screen and of its characters.
THEOREM ConsoleInvariant == ConsoleSpec => []ConsoleInv
  <1>1. ConsoleInv /\ [ConsoleNext]_consoleVars => ConsoleInv'
    <2> SUFFICES ASSUME ConsoleInv, [ConsoleNext]_consoleVars PROVE ConsoleInv'
      OBVIOUS
    <2>1. CASE clear
      BY <2>1, ClearInv
    <2>2. ASSUME NEW c \in Glyph, Write(c) PROVE ConsoleInv'
      BY <2>2, WriteInv
    <2>3. CASE newline(fb, text) /\ UNCHANGED cleared
      BY <2>3, NewlineInv DEF ConsoleInv
    <2>4. CASE UNCHANGED consoleVars
      BY <2>4 DEF ConsoleInv, consoleVars
    <2> QED
      BY <2>1, <2>2, <2>3, <2>4 DEF ConsoleNext
  <1> QED
    BY ConsoleInitInv, <1>1, PTL DEF ConsoleSpec

\* Each character stands where it was written, with all its rows, however often
\* the screen has scrolled.  Code behaviour: newline and draw_char.
THEOREM ShowsTextHolds == ConsoleSpec => []ShowsText
  <1>1. ASSUME ConsoleInv PROVE ShowsText
    <2> SUFFICES ASSUME NEW y \in Line, NEW x \in Column, NEW r \in 0 .. CharH - 1
                 PROVE  IF text[y][x] # "none" THEN fb[y * CharH + r][x] = Lit(text[y][x], r)
                        ELSE \/ fb[y * CharH + r][x] = Dark
                             \/ ~cleared /\ fb[y * CharH + r][x] = Leftover
      BY DEF ShowsText, Line
    <2> DEFINE p == y * CharH + r
    <2>1. y \in Nat /\ y * CharH \in Nat /\ p \in Nat /\ p = y * CharH + r
      BY DEF Line
    <2>2. p \div CharH = y /\ p % CharH = r
      BY <2>1, Quotient
    <2>3. y * CharH + CharH <= Rows * CharH
      BY <2>1, NextMultiple DEF Line
    <2>4. p < Height
      BY <2>1, <2>3, HeightIsNat
    <2>5. p \in Pixel
      BY <2>1, <2>4, HeightIsNat DEF Pixel
    <2>6. PieceShows(fb, text, cleared, p, x)
      BY <1>1, <2>5 DEF ConsoleInv, Shows
    <2> QED
      BY <2>2, <2>6 DEF PieceShows
  <1> QED
    BY <1>1, ConsoleInvariant, PTL

HIDE ConsoleAssumption

-----------------------------------------------------------------------------
(* System calls *)

USE SysAssumption

VfsFile == [file : CardFile, pos : Int]

\* A position is never behind the end of its file, and before the file only if
\* blocks may fail: an error is counted as -1 bytes read.
PositionInReach ==
    \A s \in Struct : heap[s] # NULL =>
        /\ heap[s].pos <= FileLen[heap[s].file]
        /\ heap[s].pos < 0 => ReadsFail

SysInv == SysTypeOK /\ OwnStruct /\ LostOnlyWhenFull /\ PositionInReach

\* what LostOnlyWhenFull says of one structure
Lost(s) == heap[s] # NULL /\ \A i \in Handle : file_handles[i] # s

LEMMA LostIsRefused ==
    LostOnlyWhenFull <=> refused \subseteq Struct /\ \A s \in Struct : s \in refused <=> Lost(s)
  BY DEF LostOnlyWhenFull, Named, Lost

\* a structure that has been allocated is a record
LEMMA LiveIsFile ==
    ASSUME SysTypeOK, NEW s \in Struct, heap[s] # NULL
    PROVE  heap[s] \in VfsFile
  BY DEF SysTypeOK, VfsFile

LEMMA OpenHandleIsLive ==
    ASSUME SysInv, NEW i \in Handle, file_handles[i] # NULL
    PROVE  /\ file_handles[i] \in Struct
           /\ heap[file_handles[i]] # NULL
           /\ heap[file_handles[i]] \in VfsFile
           /\ \A j \in Handle : file_handles[j] = file_handles[i] => j = i
  BY DEF SysInv, SysTypeOK, OwnStruct, VfsFile

LEMMA NewIsFile ==
    ASSUME NEW f \in CardFile
    PROVE  /\ [file |-> f, pos |-> 0] \in VfsFile
           /\ [file |-> f, pos |-> 0] # NULL
  BY DEF VfsFile

LEMMA HandleIsInt == Handle \subseteq Int
  BY DEF Handle, FILE_STDERR

LEMMA LengthIsNat == ASSUME NEW f \in CardFile PROVE FileLen[f] \in Nat
  OBVIOUS

LEMMA SysInitInv == SysInit => SysInv
  <1> SUFFICES ASSUME SysInit PROVE SysInv
    OBVIOUS
  <1>1. SysTypeOK
    BY DEF SysInit, SysTypeOK
  <1>2. OwnStruct
    BY DEF SysInit, OwnStruct
  <1>3. LostOnlyWhenFull
    BY DEF SysInit, LostOnlyWhenFull
  <1>4. PositionInReach
    BY DEF SysInit, PositionInReach
  <1> QED
    BY <1>1, <1>2, <1>3, <1>4 DEF SysInv

-----------------------------------------------------------------------------
(* The invariant *)

LEMMA OpenInv ==
    ASSUME SysInv, NEW f \in CardFile, _open(f)
    PROVE  SysInv'
  <1> PICK s \in Struct, i \in Handle :
        /\ mb_fopen(f, s)
        /\ FirstFree(i)
        /\ file_handles' = [file_handles EXCEPT ![i] = s]
        /\ sys_ret' = i
        /\ UNCHANGED refused
    BY DEF _open
  <1>1. heap[s] = NULL /\ heap' = [heap EXCEPT ![s] = [file |-> f, pos |-> 0]]
    BY DEF mb_fopen
  <1>2. file_handles[i] = NULL
    BY DEF FirstFree, FreeHandles
  <1>3. \A j \in Handle : file_handles[j] # s
    BY <1>1 DEF SysInv, OwnStruct
  <1>4. heap'[s] = [file |-> f, pos |-> 0] /\ heap'[s] # NULL
    BY <1>1, NewIsFile DEF SysInv, SysTypeOK
  <1>5. \A t \in Struct \ {s} : heap'[t] = heap[t]
    BY <1>1 DEF SysInv, SysTypeOK
  <1>6. file_handles'[i] = s /\ \A j \in Handle \ {i} : file_handles'[j] = file_handles[j]
    BY DEF SysInv, SysTypeOK
  <1>7. SysTypeOK'
    BY <1>1, NewIsFile, HandleIsInt DEF SysInv, SysTypeOK, VfsFile
  <1>8. OwnStruct'
    BY <1>3, <1>4, <1>5, <1>6 DEF SysInv, SysTypeOK, OwnStruct
  <1>9. LostOnlyWhenFull'
    <2>1. \A t \in Struct : Lost(t)' <=> Lost(t)
      BY <1>1, <1>2, <1>4, <1>5, <1>6 DEF Lost
    <2> QED
      BY <2>1, LostIsRefused DEF SysInv, LostOnlyWhenFull, Named, Lost
  <1>10. PositionInReach'
    <2>1. heap'[s].pos = 0 /\ heap'[s].file = f
      BY <1>4
    <2> QED
      BY <2>1, <1>5, LengthIsNat DEF SysInv, PositionInReach
  <1> QED
    BY <1>7, <1>8, <1>9, <1>10 DEF SysInv

LEMMA OpenRefusedInv ==
    ASSUME SysInv, NEW f \in CardFile, OpenRefused(f)
    PROVE  SysInv'
  <1> PICK s \in Struct :
        /\ mb_fopen(f, s)
        /\ sys_ret' = -1
        /\ refused' = refused \cup {s}
        /\ UNCHANGED file_handles
    BY DEF OpenRefused
  <1>1. heap[s] = NULL /\ heap' = [heap EXCEPT ![s] = [file |-> f, pos |-> 0]]
    BY DEF mb_fopen
  <1>2. \A j \in Handle : file_handles[j] # s
    BY <1>1 DEF SysInv, OwnStruct
  <1>3. heap'[s] = [file |-> f, pos |-> 0] /\ heap'[s] # NULL
    BY <1>1, NewIsFile DEF SysInv, SysTypeOK
  <1>4. \A t \in Struct \ {s} : heap'[t] = heap[t]
    BY <1>1 DEF SysInv, SysTypeOK
  <1>5. SysTypeOK'
    BY <1>1, NewIsFile DEF SysInv, SysTypeOK, VfsFile
  <1>6. OwnStruct'
    BY <1>2, <1>3, <1>4 DEF SysInv, SysTypeOK, OwnStruct
  <1>7. LostOnlyWhenFull'
    <2>1. \A t \in Struct : Lost(t)' <=> Lost(t) \/ t = s
      BY <1>2, <1>3, <1>4 DEF Lost
    <2> QED
      BY <2>1, LostIsRefused DEF SysInv, LostOnlyWhenFull, Named, Lost
  <1>8. PositionInReach'
    <2>1. heap'[s].pos = 0 /\ heap'[s].file = f
      BY <1>3
    <2> QED
      BY <2>1, <1>4, LengthIsNat DEF SysInv, PositionInReach
  <1> QED
    BY <1>5, <1>6, <1>7, <1>8 DEF SysInv

\* a call that moves the position of one open structure, to where it may be
LEMMA MoveInv ==
    ASSUME SysInv, NEW i \in Handle, file_handles[i] # NULL, NEW p \in Int,
           heap' = [heap EXCEPT ![file_handles[i]].pos = p],
           UNCHANGED <<file_handles, refused>>, sys_ret' \in Int,
           p <= FileLen[heap[file_handles[i]].file], p < 0 => ReadsFail
    PROVE  SysInv'
  <1> DEFINE s == file_handles[i]
  <1>1. s \in Struct /\ heap[s] \in VfsFile
    BY OpenHandleIsLive
  <1>2. heap'[s] = [heap[s] EXCEPT !.pos = p]
    BY <1>1 DEF SysInv, SysTypeOK
  <1>3. heap'[s] \in VfsFile /\ heap'[s].pos = p /\ heap'[s].file = heap[s].file
    BY <1>1, <1>2 DEF VfsFile
  <1>4. heap'[s] # NULL
    BY <1>3 DEF VfsFile
  <1>5. \A t \in Struct \ {s} : heap'[t] = heap[t]
    BY <1>1 DEF SysInv, SysTypeOK
  <1>6. \A t \in Struct : heap'[t] # NULL <=> heap[t] # NULL
    BY <1>4, <1>5, OpenHandleIsLive
  <1>7. SysTypeOK'
    <2>1. heap' = [t \in Struct |-> heap'[t]]
      BY DEF SysInv, SysTypeOK
    <2>2. \A t \in Struct : heap'[t] \in VfsFile \cup {NULL}
      BY <1>3, <1>5 DEF SysInv, SysTypeOK, VfsFile
    <2>3. heap' \in [Struct -> VfsFile \cup {NULL}]
      BY <2>1, <2>2
    <2> QED
      BY <2>3 DEF SysInv, SysTypeOK, VfsFile
  <1>8. OwnStruct'
    BY <1>6 DEF SysInv, SysTypeOK, OwnStruct
  <1>9. LostOnlyWhenFull'
    BY <1>6 DEF SysInv, LostOnlyWhenFull, Named
  <1>10. PositionInReach'
    BY <1>1, <1>3, <1>5 DEF SysInv, PositionInReach
  <1> QED
    BY <1>7, <1>8, <1>9, <1>10 DEF SysInv

\* what a read may return, and where it then stands
LEMMA CountsInFile ==
    ASSUME NEW f \in VfsFile, NEW n \in Nat, NEW r \in Counts(f, n),
           f.pos <= FileLen[f.file], f.pos < 0 => ReadsFail
    PROVE  /\ r \in -1 .. n
           /\ r <= FileLen[f.file] - f.pos
           /\ r = n \/ r = FileLen[f.file] - f.pos \/ ReadsFail
           /\ f.pos + r <= FileLen[f.file]
           /\ f.pos + r < 0 => ReadsFail
  <1>1. f.pos \in Int /\ FileLen[f.file] \in Nat
    BY DEF VfsFile
  <1> DEFINE most == Smaller(n, FileLen[f.file] - f.pos)
  <1>2. most \in Nat /\ most <= n /\ most <= FileLen[f.file] - f.pos
        /\ (most = n \/ most = FileLen[f.file] - f.pos)
    BY <1>1 DEF Smaller
  <1>3. CASE f.pos < 0
    <2>1. r = 0
      BY <1>3 DEF Counts
    <2> QED
      BY <1>1, <1>3, <2>1
  <1>4. CASE f.pos >= 0
    <2>1. r = most \/ (ReadsFail /\ r \in -1 .. most)
      BY <1>1, <1>4 DEF Counts
    <2> QED
      BY <1>1, <1>2, <1>4, <2>1
  <1> QED
    BY <1>1, <1>3, <1>4

LEMMA ReadInv ==
    ASSUME SysInv, NEW i \in Handle, NEW n \in 0 .. MaxCount, _read(i, n)
    PROVE  SysInv'
  <1> DEFINE f == heap[file_handles[i]]
  <1> PICK r \in Counts(f, n) :
        /\ heap' = [heap EXCEPT ![file_handles[i]].pos = @ + r]
        /\ sys_ret' = r
    BY DEF _read
  <1>1. f \in VfsFile /\ file_handles[i] \in Struct /\ f # NULL /\ file_handles[i] # NULL
    BY OpenHandleIsLive DEF _read
  <1>2. f.pos <= FileLen[f.file] /\ (f.pos < 0 => ReadsFail)
    BY <1>1 DEF SysInv, PositionInReach
  <1>3. r \in -1 .. n /\ f.pos + r <= FileLen[f.file] /\ (f.pos + r < 0 => ReadsFail)
    BY <1>1, <1>2, CountsInFile
  <1>4. heap' = [heap EXCEPT ![file_handles[i]].pos = f.pos + r]
    BY <1>1
  <1>5. f.pos + r \in Int /\ sys_ret' \in Int
    BY <1>1, <1>3 DEF VfsFile
  <1> QED
    BY <1>1, <1>3, <1>4, <1>5, MoveInv DEF _read

\* where a seek may go
LEMMA ClampInFile ==
    ASSUME NEW len \in Nat, NEW p \in Int
    PROVE  Clamp(p, len) \in 0 .. len
  BY DEF Clamp

\* the position of handle i becomes p
MovedTo(i, p) == heap' = [heap EXCEPT ![file_handles[i]].pos = p]

LEMMA SeekStep ==
    ASSUME SysInv, NEW i \in Handle, NEW o \in -1 .. MaxCount, NEW d \in {"SET", "CUR", "END"},
           _lseek(i, o, d)
    PROVE  /\ file_handles[i] # NULL
           /\ \E p \in 0 .. FileLen[heap[file_handles[i]].file] : MovedTo(i, p)
           /\ sys_ret' = 0
           /\ UNCHANGED <<file_handles, refused>>
  <1> DEFINE f == heap[file_handles[i]]
             to == CASE d = "SET" -> o
                     [] d = "CUR" -> f.pos + o
                     [] d = "END" -> FileLen[f.file] - o
  <1>1. f \in VfsFile
    BY OpenHandleIsLive DEF _lseek
  <1>2. f.pos \in Int /\ f.file \in CardFile /\ FileLen[f.file] \in Nat
    BY <1>1 DEF VfsFile
  <1>3. to \in Int
    <2>1. CASE d = "SET"
      BY <2>1
    <2>2. CASE d = "CUR"
      BY <1>2, <2>2
    <2>3. CASE d = "END"
      BY <1>2, <2>3
    <2> QED
      BY <2>1, <2>2, <2>3
  <1>4. Clamp(to, FileLen[f.file]) \in 0 .. FileLen[f.file]
    BY <1>2, <1>3, ClampInFile
  <1>5. MovedTo(i, Clamp(to, FileLen[f.file]))
    BY DEF _lseek, MovedTo
  <1> QED
    BY <1>4, <1>5 DEF _lseek

LEMMA SeekInv ==
    ASSUME SysInv, NEW i \in Handle, NEW o \in -1 .. MaxCount, NEW d \in {"SET", "CUR", "END"},
           _lseek(i, o, d)
    PROVE  SysInv'
  <1>1. PICK p \in 0 .. FileLen[heap[file_handles[i]].file] : MovedTo(i, p)
    BY SeekStep
  <1>2. file_handles[i] # NULL /\ sys_ret' \in Int /\ UNCHANGED <<file_handles, refused>>
    BY SeekStep
  <1>3. heap[file_handles[i]].file \in CardFile
    BY <1>2, OpenHandleIsLive DEF VfsFile
  <1>4. FileLen[heap[file_handles[i]].file] \in Nat
    BY <1>3
  <1>5. p \in Int /\ p <= FileLen[heap[file_handles[i]].file] /\ ~(p < 0)
    BY <1>4
  <1> QED
    BY <1>1, <1>2, <1>5, MoveInv DEF MovedTo

LEMMA CloseInv ==
    ASSUME SysInv, NEW i \in Handle, _close(i)
    PROVE  SysInv'
  <1> DEFINE s == file_handles[i]
  <1>1. s \in Struct /\ s # NULL /\ \A j \in Handle : file_handles[j] = s => j = i
    BY OpenHandleIsLive DEF _close
  <1>2. heap'[s] = NULL /\ \A t \in Struct \ {s} : heap'[t] = heap[t]
    BY <1>1 DEF SysInv, SysTypeOK, _close
  <1>3. file_handles'[i] = NULL /\ \A j \in Handle \ {i} : file_handles'[j] = file_handles[j]
    BY DEF SysInv, SysTypeOK, _close, ClearHandle
  <1>4. SysTypeOK'
    BY DEF SysInv, SysTypeOK, _close, ClearHandle
  <1>5. OwnStruct'
    BY <1>1, <1>2, <1>3 DEF SysInv, SysTypeOK, OwnStruct
  <1>6. LostOnlyWhenFull'
    <2>1. \A t \in Struct : Lost(t)' <=> Lost(t)
      BY <1>1, <1>2, <1>3 DEF Lost
    <2> QED
      BY <2>1, LostIsRefused DEF SysInv, _close, LostOnlyWhenFull, Named, Lost
  <1>7. PositionInReach'
    BY <1>2 DEF SysInv, PositionInReach
  <1> QED
    BY <1>4, <1>5, <1>6, <1>7 DEF SysInv

\* calls that answer and leave everything as it is
LEMMA AnswerInv ==
    ASSUME SysInv, UNCHANGED <<file_handles, heap, refused>>, sys_ret' \in Int
    PROVE  SysInv'
  <1>1. SysTypeOK'
    BY DEF SysInv, SysTypeOK
  <1>2. OwnStruct'
    BY DEF SysInv, OwnStruct
  <1>3. LostOnlyWhenFull'
    BY DEF SysInv, LostOnlyWhenFull, Named
  <1>4. PositionInReach'
    BY DEF SysInv, PositionInReach
  <1> QED
    BY <1>1, <1>2, <1>3, <1>4 DEF SysInv

\* The invariant on which the properties rest: the properties themselves, with
\* the reach of the positions.
THEOREM SysInvariant == SysSpec => []SysInv
  <1>1. SysInv /\ [SysNext]_sysVars => SysInv'
    <2> SUFFICES ASSUME SysInv, [SysNext]_sysVars PROVE SysInv'
      OBVIOUS
    <2>1. CASE OpenMissing \/ StandardStreams \/ NotOpenHandle
      BY <2>1, AnswerInv DEF OpenMissing, StandardStreams, NotOpenHandle
    <2>2. CASE UNCHANGED sysVars
      BY <2>2, AnswerInv DEF sysVars, SysInv, SysTypeOK
    <2> QED
      BY <2>1, <2>2, OpenInv, OpenRefusedInv, ReadInv, SeekInv, CloseInv DEF SysNext
  <1> QED
    BY SysInitInv, <1>1, PTL DEF SysSpec

\* Type correctness of the table of handles and of the structures.
THEOREM SysTypeCorrect == SysSpec => []SysTypeOK
  <1>1. SysInv => SysTypeOK
    BY DEF SysInv
  <1> QED
    BY SysInvariant, <1>1, PTL

\* An open handle has a live structure of its own, for any number of handles
\* and structures.
THEOREM OwnStructHolds == SysSpec => []OwnStruct
  <1>1. SysInv => OwnStruct
    BY DEF SysInv
  <1> QED
    BY SysInvariant, <1>1, PTL

\* Only what was opened when no handle was free is lost.
THEOREM LostOnlyWhenFullHolds == SysSpec => []LostOnlyWhenFull
  <1>1. SysInv => LostOnlyWhenFull
    BY DEF SysInv
  <1> QED
    BY SysInvariant, <1>1, PTL

-----------------------------------------------------------------------------
(* The table of descriptors *)

\* what handle i has open
Entry(i) == IF file_handles[i] = NULL THEN NULL ELSE heap[file_handles[i]]

LEMMA FreeIsFree ==
    ASSUME SysInv
    PROVE  Table!Free = FreeHandles
  BY OpenHandleIsLive DEF Table!Free, FreeHandles

LEMMA OpenImplements ==
    ASSUME SysInv, NEW f \in CardFile, _open(f)
    PROVE  Table!Open(f)
  <1> PICK s \in Struct, i \in Handle :
        /\ mb_fopen(f, s)
        /\ FirstFree(i)
        /\ file_handles' = [file_handles EXCEPT ![i] = s]
        /\ sys_ret' = i
    BY DEF _open
  <1>1. i \in FreeHandles /\ \A j \in FreeHandles : i <= j
    BY DEF FirstFree
  <1>2. heap[s] = NULL /\ heap'[s] = [file |-> f, pos |-> 0]
        /\ \A t \in Struct \ {s} : heap'[t] = heap[t]
    BY DEF mb_fopen, SysInv, SysTypeOK
  <1>3. Entry(i)' = [file |-> f, pos |-> 0]
    BY <1>2 DEF Entry, SysInv, SysTypeOK
  <1>4. \A j \in Handle \ {i} : Entry(j)' = Entry(j)
    BY <1>2, OpenHandleIsLive DEF Entry, SysInv, SysTypeOK
  <1>5. [j \in Handle |-> Entry(j)]' = [[j \in Handle |-> Entry(j)] EXCEPT ![i] = Table!Opened(f)]
    BY <1>3, <1>4 DEF Table!Opened
  <1> QED
    BY <1>1, <1>5, FreeIsFree DEF Table!Open, Entry

\* a step that changes the position of one open structure alone
LEMMA MoveIsSeen ==
    ASSUME SysInv, NEW i \in Handle, file_handles[i] # NULL, NEW p \in Int,
           heap' = [heap EXCEPT ![file_handles[i]].pos = p],
           UNCHANGED file_handles
    PROVE  [j \in Handle |-> Entry(j)]' = [[j \in Handle |-> Entry(j)] EXCEPT ![i].pos = p]
  <1> DEFINE s == file_handles[i]
  <1>1. s \in Struct /\ \A j \in Handle : file_handles[j] = s => j = i
    BY OpenHandleIsLive
  <1>2. heap'[s] = [heap[s] EXCEPT !.pos = p] /\ \A t \in Struct \ {s} : heap'[t] = heap[t]
    BY <1>1 DEF SysInv, SysTypeOK
  <1>3. Entry(i)' = [Entry(i) EXCEPT !.pos = p]
    BY <1>2 DEF Entry
  <1>4. \A j \in Handle \ {i} : Entry(j)' = Entry(j)
    BY <1>1, <1>2 DEF Entry, SysInv, SysTypeOK
  <1> QED
    BY <1>3, <1>4

LEMMA ReadImplements ==
    ASSUME SysInv, NEW i \in Handle, NEW n \in 0 .. MaxCount, _read(i, n)
    PROVE  Table!Read(i, n)
  <1> DEFINE f == heap[file_handles[i]]
             T == [j \in Handle |-> Entry(j)]
  <1> PICK r \in Counts(f, n) :
        /\ heap' = [heap EXCEPT ![file_handles[i]].pos = @ + r]
        /\ sys_ret' = r
    BY DEF _read
  <1>1. f \in VfsFile /\ file_handles[i] \in Struct /\ f # NULL /\ file_handles[i] # NULL
    BY OpenHandleIsLive DEF _read
  <1>2. f.pos <= FileLen[f.file] /\ (f.pos < 0 => ReadsFail)
    BY <1>1 DEF SysInv, PositionInReach
  <1>3. /\ r \in -1 .. n
        /\ r <= FileLen[f.file] - f.pos
        /\ r = n \/ r = FileLen[f.file] - f.pos \/ ReadsFail
    BY <1>1, <1>2, CountsInFile
  <1>4. f.pos + r \in Int
    BY <1>1, <1>3 DEF VfsFile
  <1>5. T[i] = f /\ T[i] # NULL
    BY <1>1 DEF Entry
  <1>6. T' = [T EXCEPT ![i].pos = f.pos + r]
    BY <1>1, <1>4, MoveIsSeen DEF _read
  <1>7. T' = [T EXCEPT ![i].pos = @ + r]
    BY <1>5, <1>6
  <1> QED
    BY <1>3, <1>5, <1>7 DEF Table!Read, Entry

LEMMA SeekImplements ==
    ASSUME SysInv, NEW i \in Handle, NEW o \in -1 .. MaxCount, NEW d \in {"SET", "CUR", "END"},
           _lseek(i, o, d)
    PROVE  Table!Seek(i)
  <1> DEFINE f == heap[file_handles[i]]
             T == [j \in Handle |-> Entry(j)]
  <1>1. PICK p \in 0 .. FileLen[f.file] : MovedTo(i, p)
    BY SeekStep
  <1>2. file_handles[i] # NULL /\ sys_ret' = 0 /\ UNCHANGED file_handles
    BY SeekStep
  <1>3. f # NULL /\ f.file \in CardFile
    BY <1>2, OpenHandleIsLive DEF VfsFile
  <1>4. p \in Int
    OBVIOUS
  <1>5. T[i] = f /\ T[i] # NULL
    BY <1>2, <1>3 DEF Entry
  <1>6. T' = [T EXCEPT ![i].pos = p]
    BY <1>1, <1>2, <1>4, MoveIsSeen DEF MovedTo
  <1>7. \E q \in 0 .. FileLen[T[i].file] : T' = [T EXCEPT ![i].pos = q]
    BY <1>5, <1>6
  <1> QED
    BY <1>2, <1>5, <1>7 DEF Table!Seek, Entry

LEMMA CloseImplements ==
    ASSUME SysInv, NEW i \in Handle, _close(i)
    PROVE  Table!Close(i)
  <1> DEFINE s == file_handles[i]
             T == [j \in Handle |-> Entry(j)]
  <1>1. s \in Struct /\ s # NULL /\ heap[s] # NULL
        /\ \A j \in Handle : file_handles[j] = s => j = i
    BY OpenHandleIsLive DEF _close
  <1>2. \A t \in Struct \ {s} : heap'[t] = heap[t]
    BY <1>1 DEF SysInv, SysTypeOK, _close
  <1>3. file_handles'[i] = NULL /\ \A j \in Handle \ {i} : file_handles'[j] = file_handles[j]
    BY DEF SysInv, SysTypeOK, _close, ClearHandle
  <1>4. Entry(i)' = NULL /\ \A j \in Handle \ {i} : Entry(j)' = Entry(j)
    BY <1>1, <1>2, <1>3 DEF Entry, SysInv, SysTypeOK
  <1>5. T' = [T EXCEPT ![i] = NULL]
    BY <1>4
  <1>6. T[i] # NULL
    BY <1>1 DEF Entry
  <1> QED
    BY <1>5, <1>6 DEF Table!Close, Entry, _close

\* a call that answers, and an open that is refused: nothing that is open has
\* changed
LEMMA AnswerImplements ==
    ASSUME SysInv, OpenMissing \/ StandardStreams \/ NotOpenHandle \/ \E f \in CardFile : OpenRefused(f)
    PROVE  Table!Replies
  <1>1. sys_ret' \in -1 .. MaxCount
    BY DEF OpenMissing, StandardStreams, NotOpenHandle, OpenRefused
  <1>2. \A j \in Handle : Entry(j)' = Entry(j)
    <2>1. UNCHANGED file_handles
      BY DEF OpenMissing, StandardStreams, NotOpenHandle, OpenRefused
    <2>2. \A t \in Struct : heap[t] # NULL => heap'[t] = heap[t]
      BY DEF OpenMissing, StandardStreams, NotOpenHandle, OpenRefused, mb_fopen, SysInv, SysTypeOK
    <2> QED
      BY <2>1, <2>2, OpenHandleIsLive DEF Entry
  <1> QED
    BY <1>1, <1>2 DEF Table!Replies, Entry

\* The pointers of syscalls.c to structures that come and go implement the
\* table of descriptors of Descriptors: no call changes what another handle has
\* open, and each moves within its file.
THEOREM SysCallsImplementDescriptors == SysSpec => IsDescriptorTable
  <1>1. SysInit => Table!TableInit
    BY DEF SysInit, Table!TableInit
  <1>2. SysInv /\ [SysNext]_sysVars => [Table!TableNext]_(Table!tableVars)
    <2> SUFFICES ASSUME SysInv, [SysNext]_sysVars PROVE [Table!TableNext]_(Table!tableVars)
      OBVIOUS
    <2>1. CASE UNCHANGED sysVars
      BY <2>1 DEF sysVars, Table!tableVars
    <2>2. CASE OpenMissing \/ StandardStreams \/ NotOpenHandle \/ \E f \in CardFile : OpenRefused(f)
      BY <2>2, AnswerImplements DEF Table!TableNext
    <2>3. ASSUME NEW f \in CardFile, _open(f) PROVE Table!TableNext
      BY <2>3, OpenImplements DEF Table!TableNext
    <2>4. ASSUME NEW i \in Handle, NEW n \in 0 .. MaxCount, _read(i, n) PROVE Table!TableNext
      BY <2>4, ReadImplements DEF Table!TableNext
    <2>5. ASSUME NEW i \in Handle, NEW o \in -1 .. MaxCount, NEW d \in {"SET", "CUR", "END"},
                 _lseek(i, o, d)
          PROVE  Table!TableNext
      BY <2>5, SeekImplements DEF Table!TableNext
    <2>6. ASSUME NEW i \in Handle, _close(i) PROVE Table!TableNext
      BY <2>6, CloseImplements DEF Table!TableNext
    <2> QED
      BY <2>1, <2>2, <2>3, <2>4, <2>5, <2>6 DEF SysNext
  <1> QED
    BY <1>1, <1>2, SysInvariant, PTL DEF SysSpec, IsDescriptorTable, Table!TableSpec

HIDE SysAssumption

-----------------------------------------------------------------------------
(* Packages *)

USE PackageAssumption

-----------------------------------------------------------------------------
(* Packages: which package leads to which *)

WantsOf(rq, p) == {rq[p][i] : i \in DOMAIN rq[p]} \ {Missing}

\* one more step from the packages in a set
AlsoFrom(rq, set) == set \cup UNION {WantsOf(rq, q) : q \in set}

ReachOf(rq) ==
    CHOOSE f : f = [n \in 0 .. MaxDepth |->
                      IF n = 0 THEN [p \in Package |-> WantsOf(rq, p)]
                      ELSE [p \in Package |-> AlsoFrom(rq, f[n - 1][p])]]

\* what Reach holds now is what it holds for the present requirements
LEMMA ReachIs == Reach = ReachOf(requires)
  BY DEF Reach, ReachOf, Wants, WantsOf, AlsoFrom

\* a package wants packages
LEMMA WantsArePackages ==
    ASSUME NEW rq \in [Package -> Requires], NEW p \in Package
    PROVE  WantsOf(rq, p) \subseteq Package
  BY DEF WantsOf, Requires

\* the recursive function Reach satisfies its equations
LEMMA ReachGrows ==
    ASSUME NEW rq \in [Package -> Requires]
    PROVE  /\ ReachOf(rq)[0] = [p \in Package |-> WantsOf(rq, p)]
           /\ \A n \in 1 .. MaxDepth :
                ReachOf(rq)[n] = [p \in Package |-> AlsoFrom(rq, ReachOf(rq)[n - 1][p])]
  <1> DEFINE D == [Package -> SUBSET Package]
             c == [p \in Package |-> WantsOf(rq, p)]
             Step(x) == [p \in Package |-> AlsoFrom(rq, x[p])]
             H == [y \in (1 .. MaxDepth) \X D |-> Step(y[2])]
             R(f) == [n \in 0 .. MaxDepth |-> IF n = 0 THEN c ELSE Step(f[n - 1])]
  <1>1. c \in D
    BY WantsArePackages
  <1>2. ASSUME NEW x \in D PROVE Step(x) \in D
    <2>1. ASSUME NEW p \in Package PROVE AlsoFrom(rq, x[p]) \subseteq Package
      <3>1. x[p] \subseteq Package
        OBVIOUS
      <3>2. \A q \in x[p] : WantsOf(rq, q) \subseteq Package
        BY <3>1, WantsArePackages
      <3> QED
        BY <3>1, <3>2 DEF AlsoFrom
    <2> QED
      BY <2>1
  <1> HIDE DEF D, c, Step
  <1>3. \A n \in 0 + 1 .. MaxDepth, x \in D : H[<<n, x>>] = Step(x)
    OBVIOUS
  <1>4. \A n \in 0 + 1 .. MaxDepth, x \in D : H[<<n, x>>] \in D
    BY <1>2, <1>3
  <1>5. MaxDepth \in Int /\ 0 \in Int
    OBVIOUS
  <1> HIDE DEF H
  <1>6. PICK f \in [0 .. MaxDepth -> D] : IsRecursive(0, MaxDepth, c, H, f)
    BY <1>1, <1>4, <1>5, RecursionExists
  <1>7. f = R(f)
    <2>1. ASSUME NEW n \in 0 .. MaxDepth PROVE f[n] = R(f)[n]
      <3>1. CASE n = 0
        BY <1>6, <3>1 DEF IsRecursive
      <3>2. CASE n # 0
        <4>1. n \in 0 + 1 .. MaxDepth /\ n - 1 \in 0 .. MaxDepth
          BY <3>2
        <4>2. f[n] = H[<<n, f[n - 1]>>]
          BY <1>6, <3>2 DEF IsRecursive
        <4> QED
          BY <1>3, <3>2, <4>1, <4>2
      <3> QED
        BY <3>1, <3>2
    <2>2. f = [n \in 0 .. MaxDepth |-> f[n]]
      OBVIOUS
    <2> QED
      BY <2>1, <2>2
  <1>8. ReachOf(rq) = CHOOSE g : g = R(g)
    BY DEF ReachOf, c, Step
  <1>9. ReachOf(rq) = R(ReachOf(rq))
    <2> HIDE DEF R
    <2> QED
      BY <1>7, <1>8
  <1> DEFINE g == ReachOf(rq)
  <1>10. g = R(g)
    BY <1>9
  <1> HIDE DEF g
  <1>11. g[0] = c /\ \A n \in 1 .. MaxDepth : g[n] = Step(g[n - 1])
    <2>1. \A n \in 0 .. MaxDepth : g[n] = R(g)[n]
      BY <1>10
    <2>2. \A n \in 0 .. MaxDepth : R(g)[n] = IF n = 0 THEN c ELSE Step(g[n - 1])
      OBVIOUS
    <2> HIDE DEF R
    <2> QED
      BY <2>1, <2>2
  <1> QED
    BY <1>11 DEF g, c, Step

\* what leads to a package in n steps leads to what that one wants in one more
LEMMA ReachStep ==
    ASSUME NEW rq \in [Package -> Requires], NEW n \in 0 .. MaxDepth - 1,
           NEW p \in Package
    PROVE  /\ ReachOf(rq)[n][p] \subseteq ReachOf(rq)[n + 1][p]
           /\ \A q \in ReachOf(rq)[n][p] : WantsOf(rq, q) \subseteq ReachOf(rq)[n + 1][p]
  <1>1. n + 1 \in 1 .. MaxDepth /\ (n + 1) - 1 = n
    OBVIOUS
  <1>2. ReachOf(rq)[n + 1] = [x \in Package |-> AlsoFrom(rq, ReachOf(rq)[(n + 1) - 1][x])]
    BY <1>1, ReachGrows
  <1>3. ReachOf(rq)[n + 1][p] = AlsoFrom(rq, ReachOf(rq)[n][p])
    BY <1>1, <1>2
  <1> QED
    BY <1>3 DEF AlsoFrom

\* more steps lead no less far
LEMMA ReachMonotone ==
    ASSUME NEW rq \in [Package -> Requires], NEW n \in 0 .. MaxDepth, NEW p \in Package
    PROVE  ReachOf(rq)[n][p] \subseteq ReachOf(rq)[MaxDepth][p]
  <1> DEFINE S == {m \in n .. MaxDepth : ReachOf(rq)[n][p] \subseteq ReachOf(rq)[m][p]}
  <1>1. n \in S
    OBVIOUS
  <1>2. ASSUME NEW m \in n .. MaxDepth - 1, m \in S PROVE m + 1 \in S
    BY <1>2, ReachStep
  <1>3. n .. MaxDepth \subseteq S
    <2>1. n \in Int /\ MaxDepth \in Int
      OBVIOUS
    <2> HIDE DEF S
    <2> QED
      BY <1>1, <1>2, <2>1, UpFrom
  <1>4. MaxDepth \in n .. MaxDepth
    OBVIOUS
  <1>5. MaxDepth \in S
    <2> HIDE DEF S
    <2> QED
      BY <1>3, <1>4
  <1> QED
    BY <1>5

-----------------------------------------------------------------------------
(* Packages: the invariant *)

Frames == [of : {Boot(i) : i \in 1 .. Len(BootFile)} \cup {Pack(p) : p \in Package},
           next : Nat \ {0}]

WantedOf(rq, f) == IF f.of.file = "boot" THEN BootFile[f.of.index] ELSE rq[f.of.index]

\* A file of the boot is at the bottom, and every other is the package that the
\* file below it is about to have required.
StackOK(rq, run) ==
    /\ run \in Seq(Frames)
    /\ \A k \in 1 .. Len(run) : run[k].of.file = "boot" <=> k = 1
    /\ \A k \in 1 .. Len(run) - 1 :
         /\ run[k].next <= Len(WantedOf(rq, run[k]))
         /\ run[k + 1].of = Pack(WantedOf(rq, run[k])[run[k].next])

On(run, p) == \E k \in 1 .. Len(run) : run[k].of = Pack(p)

\* A package that was run is recorded or still running, so it is only run again
\* while it runs, when it required itself.
PkgInv ==
    /\ requires \in [Package -> Requires]
    /\ loaded \in [Package -> {Nil, True, Returned}]
    /\ runs \in [Package -> 0 .. 2]
    /\ booted \in Nat
    /\ StackOK(requires, running)
    /\ \A p \in Package : runs[p] # 0 => loaded[p] # Nil \/ On(running, p)
    /\ \A p \in Package : runs[p] = 2 => p \in ReachOf(requires)[MaxDepth][p]

\* a frame is a file of the boot or a package, never both
LEMMA FrameKinds ==
    ASSUME NEW f \in Frames
    PROVE  \/ f.of.file = "boot" /\ f.of.index \in 1 .. Len(BootFile)
              /\ \A p : f.of # Pack(p)
           \/ f.of.file = "package" /\ f.of.index \in Package /\ f.of = Pack(f.of.index)
  BY DEF Frames, Boot, Pack

\* what a file is about to require is a package, if it is in the archive
LEMMA WantedIsPackage ==
    ASSUME NEW rq \in [Package -> Requires], NEW f \in Frames,
           f.next <= Len(WantedOf(rq, f)), WantedOf(rq, f)[f.next] # Missing
    PROVE  WantedOf(rq, f)[f.next] \in Package
  <1>1. f.next \in Nat \ {0}
    BY DEF Frames
  <1>2. WantedOf(rq, f) \in Requires
    BY FrameKinds DEF WantedOf
  <1>3. PICK n \in 0 .. MaxRequires : WantedOf(rq, f) \in [1 .. n -> Package \cup {Missing}]
    BY <1>2 DEF Requires
  <1>4. Len(WantedOf(rq, f)) = n
    BY <1>3
  <1>5. f.next \in 1 .. n
    BY <1>1, <1>4
  <1> QED
    BY <1>3, <1>5

\* the packages above one on the stack are those it leads to
LEMMA AboveIsReached ==
    ASSUME NEW rq \in [Package -> Requires], NEW run, StackOK(rq, run),
           NEW p \in Package, NEW k \in 1 .. Len(run), run[k].of = Pack(p),
           Len(run) < MaxDepth, run[Len(run)].next <= Len(WantedOf(rq, run[Len(run)])),
           NEW q \in Package, q = WantedOf(rq, run[Len(run)])[run[Len(run)].next]
    PROVE  q \in ReachOf(rq)[MaxDepth][p]
  <1> DEFINE n == Len(run)
             wanted(j) == WantedOf(rq, run[j])[run[j].next]
             S == {j \in k .. n : wanted(j) \in ReachOf(rq)[j - k][p]}
  <1>1. n \in Nat /\ n < MaxDepth
    BY DEF StackOK
  <1>2. ASSUME NEW j \in k .. n
        PROVE  /\ run[j] \in Frames /\ run[j].of.file = "package"
               /\ run[j].of.index \in Package /\ run[j].of = Pack(run[j].of.index)
               /\ run[j].next \in 1 .. Len(WantedOf(rq, run[j]))
    <2>1. j \in 1 .. n
      BY <1>1
    <2>2. run[j] \in Frames
      BY <2>1 DEF StackOK
    <2>3. run[k].of.file # "boot"
      BY DEF Pack
    <2>4. k # 1 /\ j # 1
      BY <1>1, <2>3 DEF StackOK
    <2>5. run[j].of.file # "boot"
      BY <2>1, <2>4 DEF StackOK
    <2>6. run[j].next <= Len(WantedOf(rq, run[j]))
      <3>1. CASE j = n
        BY <3>1
      <3>2. CASE j # n
        <4>1. j \in 1 .. n - 1
          BY <1>1, <2>1, <3>2
        <4> QED
          BY <4>1 DEF StackOK
      <3> QED
        BY <3>1, <3>2
    <2>7. run[j].next \in Nat \ {0}
      BY <2>2 DEF Frames
    <2>8. Len(WantedOf(rq, run[j])) \in Nat
      <3>1. rq[run[j].of.index] \in Requires
        BY <2>2, <2>5, FrameKinds
      <3>2. WantedOf(rq, run[j]) \in Requires
        BY <2>5, <3>1 DEF WantedOf
      <3> QED
        BY <3>2 DEF Requires
    <2> QED
      BY <2>2, <2>5, <2>6, <2>7, <2>8, FrameKinds
  <1>3. ASSUME NEW j \in k .. n, wanted(j) \in Package
        PROVE  wanted(j) \in WantsOf(rq, run[j].of.index)
    <2>1. WantedOf(rq, run[j]) = rq[run[j].of.index]
      BY <1>2 DEF WantedOf
    <2>2. rq[run[j].of.index] \in Requires
      BY <1>2
    <2>3. run[j].next \in DOMAIN rq[run[j].of.index]
      <3>1. PICK m \in 0 .. MaxRequires :
              rq[run[j].of.index] \in [1 .. m -> Package \cup {Missing}]
        BY <2>2 DEF Requires
      <3>2. Len(rq[run[j].of.index]) = m
        BY <3>1
      <3> QED
        BY <1>2, <2>1, <3>1, <3>2
    <2>4. wanted(j) # Missing
      BY <1>3
    <2> QED
      BY <2>1, <2>3, <2>4 DEF WantsOf
  <1>4. ASSUME NEW j \in k .. n PROVE wanted(j) \in Package
    <2>1. CASE j = n
      BY <2>1
    <2>2. CASE j # n
      <3>1. j \in 1 .. n - 1 /\ j + 1 \in k .. n
        BY <1>1, <2>2
      <3>2. run[j + 1].of = Pack(wanted(j))
        BY <3>1 DEF StackOK
      <3>3. run[j + 1].of.index \in Package
        BY <1>2, <3>1
      <3> QED
        BY <3>2, <3>3 DEF Pack
    <2> QED
      BY <2>1, <2>2
  <1>5. k \in k .. n
    BY <1>1
  <1>6. k \in S
    <2>1. run[k].of.index = p
      BY DEF Pack
    <2>2. wanted(k) \in WantsOf(rq, p)
      BY <1>3, <1>4, <1>5, <2>1
    <2>3. ReachOf(rq)[0][p] = WantsOf(rq, p)
      BY ReachGrows
    <2> QED
      BY <1>5, <2>2, <2>3
  <1>7. ASSUME NEW j \in k .. n - 1, j \in S PROVE j + 1 \in S
    <2>1. j \in k .. n /\ j + 1 \in k .. n /\ j \in 1 .. n - 1
          /\ j - k \in 0 .. MaxDepth - 1 /\ (j + 1) - k = (j - k) + 1
      <3>1. k \in 1 .. n /\ n \in Nat /\ MaxDepth \in Nat /\ n < MaxDepth
        BY <1>1
      <3> HIDE PackageAssumption
      <3> HIDE DEF S, wanted
      <3>2. j \in Nat /\ k \in Nat /\ 1 <= k /\ k <= j /\ j < n
        BY <3>1
      <3>3. j \in k .. n /\ j + 1 \in k .. n /\ j \in 1 .. n - 1
        BY <3>1, <3>2
      <3>4. j - k \in 0 .. MaxDepth - 1
        BY <3>1, <3>2
      <3> QED
        BY <3>2, <3>3, <3>4
    <2>2. run[j + 1].of = Pack(wanted(j))
      BY <2>1 DEF StackOK
    <2>3. run[j + 1].of.index = wanted(j)
      BY <2>2 DEF Pack
    <2>4. wanted(j + 1) \in WantsOf(rq, wanted(j))
      BY <1>3, <1>4, <2>1, <2>3
    <2>5. wanted(j) \in ReachOf(rq)[j - k][p]
      BY <1>7
    <2> HIDE DEF wanted
    <2>6. wanted(j + 1) \in ReachOf(rq)[(j - k) + 1][p]
      BY <2>1, <2>4, <2>5, ReachStep
    <2> QED
      BY <2>1, <2>6
  <1>8. n \in S
    <2>1. k \in Int /\ n \in Int /\ n \in k .. n
      BY <1>1
    <2>2. \A j \in k .. n - 1 : j \in S => j + 1 \in S
      BY <1>7
    <2> HIDE DEF S, n
    <2>3. k .. n \subseteq S
      BY <1>6, <2>1, <2>2, UpFrom
    <2> QED
      BY <2>1, <2>3
  <1>9. q \in ReachOf(rq)[n - k][p]
    BY <1>8
  <1>10. n - k \in 0 .. MaxDepth
    BY <1>1
  <1> QED
    BY <1>9, <1>10, ReachMonotone

-----------------------------------------------------------------------------
(* Packages: the steps *)

Bump(run, k) == [run EXCEPT ![k].next = @ + 1]

\* the caller of the file that runs now goes on
Resumed(run) == Bump(SubSeq(run, 1, Len(run) - 1), Len(run) - 1)

\* moving a frame on leaves every other frame, and what each of them runs
LEMMA BumpIs ==
    ASSUME NEW run \in Seq(Frames), NEW k \in 1 .. Len(run)
    PROVE  /\ Bump(run, k) \in Seq(Frames)
           /\ Len(Bump(run, k)) = Len(run)
           /\ \A j \in 1 .. Len(run) : /\ Bump(run, k)[j].of = run[j].of
                                       /\ j # k => Bump(run, k)[j] = run[j]
  <1> DEFINE f == [run[k] EXCEPT !.next = @ + 1]
  <1>1. f \in Frames /\ f.of = run[k].of
    <2>1. run[k] \in Frames
      OBVIOUS
    <2> DEFINE o == {Boot(i) : i \in 1 .. Len(BootFile)} \cup {Pack(p) : p \in Package}
               g == run[k]
    <2>2. g \in [of : o, next : Nat \ {0}] /\ f = [g EXCEPT !.next = @ + 1]
      BY <2>1 DEF Frames
    <2> HIDE DEF f, o, g
    <2>3. f \in [of : o, next : Nat \ {0}] /\ f.of = g.of
      BY <2>2
    <2> QED
      BY <2>3 DEF Frames, o, g
  <1>2. Bump(run, k) = [run EXCEPT ![k] = f]
    BY DEF Bump
  <1> HIDE DEF f
  <1> QED
    BY <1>1, <1>2

\* taking off the innermost frame leaves the frames below it
LEMMA PopIs ==
    ASSUME NEW run \in Seq(Frames), Len(run) > 0
    PROVE  /\ SubSeq(run, 1, Len(run) - 1) \in Seq(Frames)
           /\ Len(SubSeq(run, 1, Len(run) - 1)) = Len(run) - 1
           /\ \A j \in 1 .. Len(run) - 1 : SubSeq(run, 1, Len(run) - 1)[j] = run[j]
  <1> DEFINE n == Len(run)
             low == [j \in 1 .. n - 1 |-> run[j]]
  <1>1. n \in Nat /\ n - 1 \in Nat
    OBVIOUS
  <1>2. SubSeq(run, 1, n - 1) = low
    BY <1>1
  <1>3. low \in Seq(Frames) /\ Len(low) = n - 1
    <2>1. \A j \in 1 .. n - 1 : run[j] \in Frames
      OBVIOUS
    <2>2. low \in [1 .. n - 1 -> Frames]
      BY <2>1
    <2> QED
      BY <1>1, <2>2
  <1> QED
    BY <1>2, <1>3

\* the innermost file goes on
LEMMA GoOnStack ==
    ASSUME NEW rq, NEW run, StackOK(rq, run), Len(run) > 0
    PROVE  /\ StackOK(rq, Bump(run, Len(run)))
           /\ \A p : On(run, p) => On(Bump(run, Len(run)), p)
  <1> DEFINE n == Len(run)
             b == Bump(run, n)
  <1>1. run \in Seq(Frames) /\ n \in Nat /\ n \in 1 .. n
    BY DEF StackOK
  <1>2. /\ b \in Seq(Frames) /\ Len(b) = n
        /\ \A j \in 1 .. n : b[j].of = run[j].of
        /\ \A j \in 1 .. n : j # n => b[j] = run[j]
    BY <1>1, BumpIs
  <1> HIDE DEF b
  <1>3. \A k \in 1 .. n : b[k].of.file = "boot" <=> k = 1
    BY <1>2 DEF StackOK
  <1>4. ASSUME NEW k \in 1 .. n - 1
        PROVE  /\ b[k].next <= Len(WantedOf(rq, b[k]))
               /\ b[k + 1].of = Pack(WantedOf(rq, b[k])[b[k].next])
    <2>1. k \in 1 .. n /\ k + 1 \in 1 .. n /\ k # n
      BY <1>1
    <2>2. b[k] = run[k] /\ b[k + 1].of = run[k + 1].of
      BY <1>2, <2>1
    <2> QED
      BY <2>2 DEF StackOK
  <1>5. StackOK(rq, b)
    BY <1>2, <1>3, <1>4 DEF StackOK
  <1>6. \A p : On(run, p) => On(b, p)
    BY <1>2 DEF On
  <1> QED
    BY <1>5, <1>6 DEF b

\* the innermost file is through
LEMMA PopStack ==
    ASSUME NEW rq, NEW run, StackOK(rq, run), Len(run) > 1
    PROVE  /\ StackOK(rq, Resumed(run))
           /\ \A p : On(run, p) => On(Resumed(run), p) \/ run[Len(run)].of = Pack(p)
  <1> DEFINE n == Len(run)
             low == SubSeq(run, 1, n - 1)
  <1>1. run \in Seq(Frames) /\ n \in Nat
    BY DEF StackOK
  <1>2. low \in Seq(Frames) /\ Len(low) = n - 1 /\ \A j \in 1 .. n - 1 : low[j] = run[j]
    BY <1>1, PopIs
  <1> HIDE DEF low
  <1>3. StackOK(rq, low)
    <2>1. \A k \in 1 .. Len(low) : low[k].of.file = "boot" <=> k = 1
      BY <1>1, <1>2 DEF StackOK
    <2>2. ASSUME NEW k \in 1 .. Len(low) - 1
          PROVE  /\ low[k].next <= Len(WantedOf(rq, low[k]))
                 /\ low[k + 1].of = Pack(WantedOf(rq, low[k])[low[k].next])
      <3>1. k \in 1 .. n - 1 /\ k + 1 \in 1 .. n - 1
        BY <1>1, <1>2
      <3>2. low[k] = run[k] /\ low[k + 1] = run[k + 1]
        BY <1>2, <3>1
      <3> QED
        BY <3>1, <3>2 DEF StackOK
    <2> QED
      BY <1>2, <2>1, <2>2 DEF StackOK
  <1>4. StackOK(rq, Bump(low, Len(low))) /\ \A p : On(low, p) => On(Bump(low, Len(low)), p)
    BY <1>1, <1>2, <1>3, GoOnStack
  <1>5. Resumed(run) = Bump(low, Len(low))
    BY <1>2 DEF Resumed, low
  <1>6. ASSUME NEW p, On(run, p) PROVE On(low, p) \/ run[n].of = Pack(p)
    <2>1. PICK k \in 1 .. n : run[k].of = Pack(p)
      BY <1>6 DEF On
    <2>2. k = n \/ k \in 1 .. n - 1
      BY <1>1
    <2> QED
      BY <1>2, <2>1, <2>2 DEF On
  <1> QED
    BY <1>4, <1>5, <1>6

\* a package that the innermost file wants is run
LEMMA PushStack ==
    ASSUME NEW rq, NEW run, StackOK(rq, run), Len(run) > 0, NEW p \in Package,
           run[Len(run)].next <= Len(WantedOf(rq, run[Len(run)])),
           WantedOf(rq, run[Len(run)])[run[Len(run)].next] = p
    PROVE  /\ StackOK(rq, Append(run, Frame(Pack(p))))
           /\ \A q : On(run, q) => On(Append(run, Frame(Pack(p))), q)
           /\ On(Append(run, Frame(Pack(p))), p)
  <1> DEFINE n == Len(run)
             a == Append(run, Frame(Pack(p)))
  <1>1. run \in Seq(Frames) /\ n \in Nat /\ n > 0
    BY DEF StackOK
  <1>2. Frame(Pack(p)) \in Frames /\ Frame(Pack(p)).of = Pack(p)
    BY DEF Frame, Frames
  <1>3. /\ a \in Seq(Frames) /\ Len(a) = n + 1
        /\ \A j \in 1 .. n : a[j] = run[j]
        /\ a[n + 1] = Frame(Pack(p))
    BY <1>1, <1>2
  <1> HIDE DEF a
  <1>4. ASSUME NEW k \in 1 .. n + 1 PROVE a[k].of.file = "boot" <=> k = 1
    <2>1. CASE k \in 1 .. n
      BY <1>3, <2>1 DEF StackOK
    <2>2. CASE k = n + 1
      BY <1>1, <1>2, <1>3, <2>2 DEF Pack
    <2> QED
      BY <1>1, <2>1, <2>2
  <1>5. ASSUME NEW k \in 1 .. n
        PROVE  /\ a[k].next <= Len(WantedOf(rq, a[k]))
               /\ a[k + 1].of = Pack(WantedOf(rq, a[k])[a[k].next])
    <2>1. CASE k = n
      BY <1>2, <1>3, <2>1
    <2>2. CASE k # n
      <3>1. k \in 1 .. n - 1 /\ k + 1 \in 1 .. n
        BY <1>1, <2>2
      <3>2. a[k] = run[k] /\ a[k + 1] = run[k + 1]
        BY <1>3, <3>1
      <3> QED
        BY <3>1, <3>2 DEF StackOK
    <2> QED
      BY <2>1, <2>2
  <1>6. StackOK(rq, a)
    BY <1>1, <1>3, <1>4, <1>5 DEF StackOK
  <1>7. ASSUME NEW q, On(run, q) PROVE On(a, q)
    <2>1. PICK k \in 1 .. n : run[k].of = Pack(q)
      BY <1>7 DEF On
    <2>2. k \in 1 .. n + 1
      BY <1>1
    <2> QED
      BY <1>3, <2>1, <2>2 DEF On
  <1>8. On(a, p)
    <2>1. n + 1 \in 1 .. n + 1
      BY <1>1
    <2> QED
      BY <1>2, <1>3, <2>1 DEF On
  <1> QED
    BY <1>6, <1>7, <1>8 DEF a

\* nothing has run at the start
LEMMA PkgInitInv == PkgInit => PkgInv
  <1> SUFFICES ASSUME PkgInit PROVE PkgInv
    OBVIOUS
  <1>1. StackOK(requires, running)
    BY DEF PkgInit, StackOK
  <1> QED
    BY <1>1 DEF PkgInit, PkgInv

\* the invariant depends on the stack only through what is on it
LEMMA InvStep ==
    ASSUME PkgInv, requires' = requires, StackOK(requires, running'),
           loaded' \in [Package -> {Nil, True, Returned}],
           runs' \in [Package -> 0 .. 2], booted' \in Nat,
           \A p \in Package : runs'[p] # 0 => loaded'[p] # Nil \/ On(running', p),
           \A p \in Package : runs'[p] = 2 => p \in ReachOf(requires)[MaxDepth][p]
    PROVE  PkgInv'
  BY DEF PkgInv

\* a file of the boot is all that is on the stack
LEMMA BootNextInv == PkgInv /\ BootNext => PkgInv'
  <1> SUFFICES ASSUME PkgInv, BootNext PROVE PkgInv'
    OBVIOUS
  <1> DEFINE f == Frame(Boot(booted + 1))
  <1>1. running' = <<f>> /\ running = <<>> /\ UNCHANGED <<requires, loaded, booted, runs>>
    BY DEF BootNext
  <1>2. f \in Frames /\ f.of.file = "boot"
    <2>1. booted + 1 \in 1 .. Len(BootFile)
      BY DEF BootNext, PkgInv
    <2>2. Boot(booted + 1).file = "boot"
      BY DEF Boot
    <2> QED
      BY <2>1, <2>2 DEF Frame, Frames
  <1> HIDE DEF f
  <1>3. StackOK(requires, running')
    BY <1>1, <1>2 DEF StackOK
  <1>4. \A p : ~On(running, p)
    BY <1>1 DEF On
  <1> QED
    BY <1>1, <1>3, <1>4, InvStep DEF PkgInv

\* the innermost file is through, with or without an error
LEMMA LeaveInv ==
    ASSUME PkgInv, running # <<>>, NEW value \in {Nil, Returned}, Leave(value),
           requires' = requires, runs' = runs
    PROVE  PkgInv'
  <1> DEFINE n == Len(running)
  <1>1. /\ running \in Seq(Frames) /\ n \in Nat /\ n > 0 /\ n \in 1 .. n
        /\ StackOK(requires, running)
    BY DEF PkgInv, StackOK
  <1>2. n = 1 \/ (n # 1 /\ n > 1)
    <2>1. n \in Nat /\ n > 0
      BY <1>1
    <2> HIDE DEF n
    <2> QED
      BY <2>1
  <1>3. Top = running[n] /\ Top \in Frames
    BY <1>1 DEF Top
  <1>4. Top.of.file = "boot" <=> n = 1
    BY <1>1, <1>3 DEF StackOK
  <1>5. CASE n = 1
    <2>1. running' = SubSeq(running, 1, n - 1) /\ booted' = booted + 1 /\ loaded' = loaded
      BY <1>3, <1>4, <1>5 DEF Leave
    <2>2. running' = <<>>
      BY <1>1, <1>5, <2>1
    <2>3. StackOK(requires, running')
      BY <2>2 DEF StackOK
    <2>4. \A p : ~On(running, p)
      BY <1>3, <1>4, <1>5 DEF On, Pack
    <2> QED
      BY <2>1, <2>3, <2>4, InvStep DEF PkgInv
  <1>6. CASE n # 1 /\ n > 1
    <2> DEFINE p == Top.of.index
    <2>1. p \in Package /\ Top.of = Pack(p)
      BY <1>3, <1>4, <1>6, FrameKinds
    <2>2. Top.of.file # "boot"
      BY <1>4, <1>6
    <2>3. /\ loaded' = Record(p, value)
          /\ running' = [SubSeq(running, 1, n - 1) EXCEPT ![Len(SubSeq(running, 1, n - 1))].next = @ + 1]
          /\ booted' = booted
      BY <2>2 DEF Leave
    <2>4. Len(SubSeq(running, 1, n - 1)) = n - 1
      BY <1>1, PopIs
    <2>5. running' = Resumed(running)
      BY <2>3, <2>4 DEF Resumed, Bump
    <2>6. /\ StackOK(requires, running')
          /\ \A q : On(running, q) => On(running', q) \/ running[n].of = Pack(q)
      BY <1>1, <1>6, <2>5, PopStack
    <2> HIDE DEF p
    <2>7. /\ loaded' \in [Package -> {Nil, True, Returned}]
          /\ loaded'[p] # Nil
          /\ \A q \in Package : q # p => loaded'[q] = loaded[q]
      BY <2>1, <2>3 DEF Record, PkgInv, Nil, True, Returned
    <2>8. ASSUME NEW q \in Package, runs[q] # 0 PROVE loaded'[q] # Nil \/ On(running', q)
      <3>1. loaded[q] # Nil \/ On(running, q)
        BY <2>8 DEF PkgInv
      <3>2. CASE q = p
        BY <2>7, <3>2
      <3>3. CASE q # p
        <4>1. running[n].of # Pack(q)
          BY <1>3, <2>1, <3>3 DEF Pack
        <4> QED
          BY <2>6, <2>7, <3>1, <3>3, <4>1
      <3> QED
        BY <3>2, <3>3
    <2> QED
      BY <2>3, <2>6, <2>7, <2>8, InvStep DEF PkgInv
  <1> QED
    BY <1>2, <1>5, <1>6

\* going past what was required disturbs nothing
LEMMA GoOnInv ==
    ASSUME PkgInv, Wanting, GoOn, UNCHANGED <<requires, loaded, booted, runs>>
    PROVE  PkgInv'
  <1>1. running' = Bump(running, Len(running))
    BY DEF GoOn, Bump
  <1>2. StackOK(requires, running) /\ Len(running) > 0
    BY DEF PkgInv, StackOK, Wanting
  <1>3. /\ StackOK(requires, running')
        /\ \A p : On(running, p) => On(running', p)
    BY <1>1, <1>2, GoOnStack
  <1> QED
    BY <1>3, InvStep DEF PkgInv

\* a package that was run before is run again only if it is on the stack
LEMMA RunPackageInv == PkgInv /\ RunPackage => PkgInv'
  <1> SUFFICES ASSUME PkgInv, RunPackage PROVE PkgInv'
    OBVIOUS
  <1> DEFINE n == Len(running)
             p == Wanted
  <1>1. /\ running \in Seq(Frames) /\ n \in Nat /\ n > 0 /\ n \in 1 .. n
        /\ StackOK(requires, running)
    <2>1. StackOK(requires, running)
      BY DEF PkgInv
    <2>2. running \in Seq(Frames)
      BY <2>1 DEF StackOK
    <2>3. running # <<>>
      BY DEF RunPackage, Wanting
    <2> QED
      BY <2>1, <2>2, <2>3
  <1>2. Top = running[n] /\ Top \in Frames /\ WantedBy(Top) = WantedOf(requires, running[n])
    BY <1>1 DEF Top, WantedBy, WantedOf
  <1>3. /\ running[n].next <= Len(WantedOf(requires, running[n]))
        /\ WantedOf(requires, running[n])[running[n].next] = p
        /\ p # Missing
    BY <1>2 DEF RunPackage, Wanting, Wanted
  <1>4. p \in Package
    <2>1. requires \in [Package -> Requires]
      BY DEF PkgInv
    <2> DEFINE f == running[n]
    <2>2. f \in Frames /\ f.next <= Len(WantedOf(requires, f))
          /\ WantedOf(requires, f)[f.next] = p /\ p # Missing
      BY <1>1, <1>3
    <2> HIDE DEF f, p
    <2> QED
      BY <2>1, <2>2, WantedIsPackage
  <1>5. /\ running' = Append(running, Frame(Pack(p)))
        /\ runs' = [runs EXCEPT ![p] = IF @ = 2 THEN 2 ELSE @ + 1]
        /\ loaded[p] = Nil /\ n < MaxDepth
        /\ UNCHANGED <<requires, loaded, booted>>
    BY DEF RunPackage
  <1> HIDE DEF p
  <1>6. /\ StackOK(requires, running')
        /\ \A q : On(running, q) => On(running', q)
        /\ On(running', p)
    BY <1>1, <1>3, <1>4, <1>5, PushStack
  <1>7. /\ runs' \in [Package -> 0 .. 2]
        /\ \A q \in Package : q # p => runs'[q] = runs[q]
    BY <1>4, <1>5 DEF PkgInv
  <1>8. ASSUME NEW q \in Package, runs'[q] # 0 PROVE loaded'[q] # Nil \/ On(running', q)
    BY <1>5, <1>6, <1>7, <1>8 DEF PkgInv
  <1>9. ASSUME NEW q \in Package, runs'[q] = 2
        PROVE  q \in ReachOf(requires)[MaxDepth][q]
    <2>1. CASE q # p
      BY <1>7, <1>9, <2>1 DEF PkgInv
    <2>2. CASE q = p
      <3>1. runs[p] # 0
        BY <1>4, <1>5, <1>9, <2>2 DEF PkgInv
      <3>2. On(running, p)
        BY <1>4, <1>5, <3>1 DEF PkgInv
      <3>3. PICK k \in 1 .. n : running[k].of = Pack(p)
        BY <3>2 DEF On
      <3>4. p \in ReachOf(requires)[MaxDepth][p]
        BY <1>1, <1>3, <1>4, <1>5, <3>3, AboveIsReached DEF PkgInv
      <3> QED
        BY <2>2, <3>4
    <2> QED
      BY <2>1, <2>2
  <1> QED
    BY <1>5, <1>6, <1>7, <1>8, <1>9, InvStep DEF PkgInv

\* the prompt disturbs nothing
LEMMA PkgStutterInv ==
    ASSUME PkgInv, UNCHANGED <<requires, loaded, running, booted, runs>>
    PROVE  PkgInv'
  BY DEF PkgInv

\* A package that was run and is not recorded is on the stack, in every state.
THEOREM PackagesInvariant == PkgSpec => []PkgInv
  <1>1. PkgInit => PkgInv
    BY PkgInitInv
  <1>2. PkgInv /\ [PkgNext]_pkgVars => PkgInv'
    <2> SUFFICES ASSUME PkgInv, [PkgNext]_pkgVars PROVE PkgInv'
      OBVIOUS
    <2>1. CASE BootNext
      BY <2>1, BootNextInv
    <2>2. CASE Return
      BY <2>2, LeaveInv DEF Return
    <2>3. CASE Error
      BY <2>3, LeaveInv DEF Error, Caught
    <2>4. CASE RequireLoaded
      BY <2>4, GoOnInv DEF RequireLoaded
    <2>5. CASE NotFound
      BY <2>5, GoOnInv DEF NotFound
    <2>6. CASE RunPackage
      BY <2>6, RunPackageInv
    <2>7. CASE StackOverflow
      BY <2>7, LeaveInv DEF StackOverflow, Caught, Wanting
    <2>8. CASE Prompt
      BY <2>8, PkgStutterInv DEF Prompt
    <2>9. CASE UNCHANGED pkgVars
      BY <2>9, PkgStutterInv DEF pkgVars
    <2> QED
      BY <2>1, <2>2, <2>3, <2>4, <2>5, <2>6, <2>7, <2>8, <2>9 DEF PkgNext
  <1> QED
    BY <1>1, <1>2, PTL DEF PkgSpec

\* A package that does not lead back to itself is run at most once: require of
\* lua/zip_require.lua records every package it ran, whatever that returned and
\* however it failed, before its caller goes on.
THEOREM RunOnceHolds == PkgSpec => []RunOnce
  <1>1. PkgInv => RunOnce
    <2> SUFFICES ASSUME PkgInv, NEW p \in Package, p \notin Cyclic PROVE runs[p] <= 1
      BY DEF RunOnce
    <2>1. p \notin ReachOf(requires)[MaxDepth][p]
      BY ReachIs DEF Cyclic
    <2>2. runs[p] \in 0 .. 2 /\ runs[p] # 2
      BY <2>1 DEF PkgInv
    <2> QED
      BY <2>2
  <1>2. PkgSpec => []PkgInv
    BY PackagesInvariant
  <1> QED
    BY <1>1, <1>2, PTL

HIDE PackageAssumption

-----------------------------------------------------------------------------
(* Property tags: where a list stands *)

\* the words of a tag are its header and at most 64 words of value
LEMMA TagWordsAre ==
    ASSUME NEW t \in Known
    PROVE  /\ Size[t] \div 4 \in 1 .. 64 /\ Size[t] = 4 * (Size[t] \div 4)
           /\ TagWords(t) = T_OVALUE + Size[t] \div 4 /\ TagWords(t) \in Nat /\ TagWords(t) > 3
           /\ t \in Int /\ t # 0
  <1>1. PICK n \in 1 .. 64 : Size[t] = 4 * n
    BY TagAssumption
  <1>2. Size[t] \div 4 = n
    BY <1>1
  <1>3. t \in Int /\ t # 0
    BY TagAssumption
  <1> QED
    BY <1>1, <1>2, <1>3 DEF TagWords, T_OVALUE

\* the beginnings of the tags are a recursion over the list
LEMMA StartsAre ==
    ASSUME NEW tags \in Seq(Known)
    PROVE  /\ StartsAt(tags) \in [1 .. Len(tags) + 1 -> Nat]
           /\ StartsAt(tags)[1] = 2
           /\ \A n \in 1 .. Len(tags) : StartsAt(tags)[n + 1] = StartsAt(tags)[n] + TagWords(tags[n])
  <1> DEFINE N == Len(tags) + 1
             Step(n, x) == x + TagWords(tags[n - 1])
             H == [y \in (2 .. N) \X Nat |-> Step(y[1], y[2])]
             R(f) == [n \in 1 .. N |-> IF n = 1 THEN 2 ELSE f[n - 1] + TagWords(tags[n - 1])]
  <1>1. \A n \in 2 .. N, x \in Nat : Step(n, x) \in Nat
    <2> SUFFICES ASSUME NEW n \in 2 .. N, NEW x \in Nat PROVE Step(n, x) \in Nat
      OBVIOUS
    <2>1. n - 1 \in 1 .. Len(tags)
      OBVIOUS
    <2>2. TagWords(tags[n - 1]) \in Nat
      BY <2>1, TagWordsAre
    <2> QED
      BY <2>2
  <1> HIDE DEF Step
  <1>2. ASSUME NEW n \in 1 + 1 .. N, NEW x \in Nat PROVE H[<<n, x>>] = Step(n, x)
    <2>1. n \in 2 .. N
      OBVIOUS
    <2>2. <<n, x>> \in (2 .. N) \X Nat /\ <<n, x>>[1] = n /\ <<n, x>>[2] = x
      BY <2>1
    <2> QED
      BY <2>2
  <1>3. \A n \in 1 + 1 .. N, x \in Nat : H[<<n, x>>] \in Nat
    <2>1. 1 + 1 = 2
      OBVIOUS
    <2> QED
      BY <1>1, <1>2, <2>1
  <1> HIDE DEF H
  <1>4. PICK f \in [1 .. N -> Nat] : IsRecursive(1, N, 2, H, f)
    <2>1. N \in Int /\ 1 \in Int /\ 2 \in Nat
      OBVIOUS
    <2> HIDE DEF N
    <2> QED
      BY <1>3, <2>1, RecursionExists
  <1>5. f = R(f)
    <2>1. ASSUME NEW n \in 1 .. N PROVE f[n] = R(f)[n]
      <3>1. CASE n = 1
        BY <1>4, <3>1 DEF IsRecursive
      <3>2. CASE n # 1
        <4>1. n \in 1 + 1 .. N /\ n - 1 \in 1 .. N /\ f[n - 1] \in Nat
          BY <3>2
        <4>2. f[n] = H[<<n, f[n - 1]>>]
          BY <1>4, <3>2 DEF IsRecursive
        <4>3. f[n] = Step(n, f[n - 1])
          BY <1>2, <4>1, <4>2
        <4> QED
          BY <3>2, <4>3 DEF Step
      <3> QED
        BY <3>1, <3>2
    <2> QED
      BY <2>1
  <1>6. StartsAt(tags) = CHOOSE g : g = R(g)
    BY DEF StartsAt
  <1> DEFINE s == StartsAt(tags)
  <1>7. s = R(s)
    BY <1>5, <1>6
  <1> HIDE DEF s
  <1>8. ASSUME NEW n \in 1 .. N PROVE s[n] = IF n = 1 THEN 2 ELSE s[n - 1] + TagWords(tags[n - 1])
    BY <1>7
  <1>9. \A n \in 1 .. Len(tags) : s[n + 1] = s[n] + TagWords(tags[n])
    <2> SUFFICES ASSUME NEW n \in 1 .. Len(tags) PROVE s[n + 1] = s[n] + TagWords(tags[n])
      OBVIOUS
    <2>1. n + 1 \in 1 .. N /\ n + 1 # 1 /\ (n + 1) - 1 = n
      OBVIOUS
    <2> QED
      BY <1>8, <2>1
  <1>10. s[1] = 2
    BY <1>8
  <1>11. s \in [1 .. N -> Nat]
    <2> DEFINE S == {n \in 1 .. N : s[n] \in Nat}
    <2>1. 1 \in S
      BY <1>10
    <2>2. ASSUME NEW n \in 1 .. N - 1, n \in S PROVE n + 1 \in S
      <3>0. n \in 1 .. Len(tags)
        OBVIOUS
      <3>1. TagWords(tags[n]) \in Nat
        BY <3>0, TagWordsAre
      <3> QED
        BY <1>9, <2>2, <3>1
    <2>3. 1 .. N \subseteq S
      <3>1. N \in Int /\ 1 \in Int
        OBVIOUS
      <3> HIDE DEF S, N
      <3> QED
        BY <2>1, <2>2, <3>1, UpFrom
    <2>4. DOMAIN s = 1 .. N /\ s = [n \in 1 .. N |-> s[n]]
      BY <1>7
    <2> QED
      BY <2>3, <2>4
  <1> QED
    BY <1>9, <1>10, <1>11 DEF s

\* a tag ends before the next one begins
LEMMA StartsGrow ==
    ASSUME NEW tags \in Seq(Known), NEW m \in 1 .. Len(tags), NEW n \in m + 1 .. Len(tags) + 1
    PROVE  StartsAt(tags)[m] + TagWords(tags[m]) <= StartsAt(tags)[n]
  <1> DEFINE s == StartsAt(tags)
             L == Len(tags)
             S == {k \in m + 1 .. L + 1 : s[m] + TagWords(tags[m]) <= s[k]}
  <1>0. \A k \in 1 .. L : TagWords(tags[k]) \in Nat
    <2> SUFFICES ASSUME NEW k \in 1 .. L PROVE TagWords(tags[k]) \in Nat
      OBVIOUS
    <2>1. tags[k] \in Known
      OBVIOUS
    <2> QED
      BY <2>1, TagWordsAre
  <1>1. /\ s \in [1 .. L + 1 -> Nat] /\ L \in Nat
        /\ \A k \in 1 .. L : s[k + 1] = s[k] + TagWords(tags[k]) /\ TagWords(tags[k]) \in Nat
    BY <1>0, StartsAre
  <1> HIDE DEF s, L
  <1>2. m \in 1 .. L /\ n \in m + 1 .. L + 1
    BY DEF L
  <1>3. m + 1 \in S
    BY <1>1, <1>2
  <1>4. ASSUME NEW k \in m + 1 .. (L + 1) - 1, k \in S PROVE k + 1 \in S
    <2>1. k \in 1 .. L /\ k + 1 \in m + 1 .. L + 1 /\ k \in 1 .. L + 1 /\ m \in 1 .. L + 1
      BY <1>1, <1>2
    <2>2. s[k] \in Nat /\ s[m] \in Nat /\ s[k + 1] = s[k] + TagWords(tags[k])
          /\ TagWords(tags[k]) \in Nat /\ TagWords(tags[m]) \in Nat
      BY <1>1, <1>2, <2>1
    <2> QED
      BY <1>4, <2>1, <2>2
  <1>5. m + 1 .. L + 1 \subseteq S
    <2>1. m + 1 \in Int /\ L + 1 \in Int
      BY <1>1, <1>2
    <2> HIDE DEF S
    <2> QED
      BY <2>1, <1>3, <1>4, UpFrom
  <1> QED
    BY <1>2, <1>5 DEF s

\* every list fits pt
LEMMA StartsFit ==
    ASSUME NEW tags \in Seq(Known), Len(tags) <= MaxTags, NEW n \in 1 .. Len(tags) + 1
    PROVE  StartsAt(tags)[n] \in n + 1 .. PtWords - 2
  <1> DEFINE s == StartsAt(tags)
             L == Len(tags)
  <1>1. PICK w \in 1 .. 64 : /\ \A t \in Known : Size[t] <= 4 * w
                             /\ 4 + MaxTags * (T_OVALUE + w) <= PtWords
    BY TagAssumption
  <1> DEFINE u == T_OVALUE + w
             S == {k \in 1 .. L + 1 : s[k] \in k + 1 .. 2 + (k - 1) * u}
  <1>2. /\ s \in [1 .. L + 1 -> Nat] /\ L \in Nat /\ s[1] = 2
        /\ \A k \in 1 .. L : s[k + 1] = s[k] + TagWords(tags[k])
    BY StartsAre
  <1>3. \A k \in 1 .. L : TagWords(tags[k]) \in 1 .. u
    <2> SUFFICES ASSUME NEW k \in 1 .. L PROVE TagWords(tags[k]) \in 1 .. u
      OBVIOUS
    <2>1. tags[k] \in Known
      OBVIOUS
    <2> DEFINE x == Size[tags[k]]
               z == x \div 4
    <2>2. x <= 4 * w /\ z \in 1 .. 64 /\ x = 4 * z /\ TagWords(tags[k]) = T_OVALUE + z
      BY <1>1, <2>1, TagWordsAre
    <2> HIDE DEF x, z
    <2>3. z \in 1 .. w
      BY <2>2
    <2> QED
      BY <2>2, <2>3 DEF T_OVALUE
  <1>0. MaxTags \in Nat /\ PtWords \in Nat
    BY TagAssumption
  <1>4. /\ u \in Nat /\ L <= MaxTags /\ 4 + MaxTags * u <= PtWords
        /\ MaxTags \in Nat /\ PtWords \in Nat
    BY <1>0, <1>1 DEF T_OVALUE
  <1>5. n \in 1 .. L + 1
    OBVIOUS
  <1> HIDE DEF s, L, u
  <1>6. 1 \in S
    <2>1. (1 - 1) * u = 0
      BY <1>4
    <2> QED
      BY <1>2, <2>1
  <1>7. ASSUME NEW k \in 1 .. (L + 1) - 1, k \in S PROVE k + 1 \in S
    <2> DEFINE a == (k - 1) * u
               b == ((k + 1) - 1) * u
               t == TagWords(tags[k])
    <2>1. b = a + u /\ a \in Int
      <3>1. k - 1 \in Nat
        BY <1>2
      <3>2. ((k - 1) + 1) * u = (k - 1) * u + u
        BY <1>4, <3>1
      <3>3. (k + 1) - 1 = (k - 1) + 1
        BY <1>2
      <3> QED
        BY <1>4, <3>1, <3>2, <3>3
    <2>2. t \in 1 .. u /\ s[k + 1] = s[k] + t /\ s[k] \in k + 1 .. 2 + a /\ k + 1 \in 1 .. L + 1
      BY <1>2, <1>3, <1>7
    <2> DEFINE x == s[k]
               y == s[k + 1]
    <2> HIDE DEF a, b, t
    <2>4. y = x + t /\ x \in k + 1 .. 2 + a
      BY <2>2
    <2> HIDE DEF x, y
    <2>5. y \in (k + 1) + 1 .. 2 + b
      BY <1>4, <2>1, <2>2, <2>4
    <2>3. s[k + 1] \in (k + 1) + 1 .. 2 + b
      BY <2>5 DEF y
    <2> QED
      BY <2>2, <2>3 DEF b
  <1>8. 1 .. L + 1 \subseteq S
    <2>1. 1 \in Int /\ L + 1 \in Int
      BY <1>2
    <2> HIDE DEF S
    <2> QED
      BY <2>1, <1>6, <1>7, UpFrom
  <1>9. s[n] \in n + 1 .. 2 + (n - 1) * u
    BY <1>5, <1>8
  <1>10. (n - 1) * u <= MaxTags * u
    <2> DEFINE c == MaxTags - (n - 1)
    <2>1. c \in Nat /\ n - 1 \in Nat /\ MaxTags = (n - 1) + c
      BY <1>2, <1>4, <1>5
    <2> HIDE DEF c
    <2>2. ((n - 1) + c) * u = (n - 1) * u + c * u /\ c * u \in Nat /\ (n - 1) * u \in Nat
      BY <1>4, <2>1
    <2> QED
      BY <2>1, <2>2
  <1> DEFINE x == (n - 1) * u
             y == MaxTags * u
             z == s[n]
  <1>11. x \in Int /\ y \in Int
    BY <1>4, <1>5
  <1>12. x <= y /\ 4 + y <= PtWords /\ z \in n + 1 .. 2 + x
    BY <1>4, <1>9, <1>10
  <1> HIDE DEF x, y, z
  <1>13. z \in n + 1 .. PtWords - 2
    BY <1>4, <1>11, <1>12
  <1> QED
    BY <1>13 DEF z, s

\* another tag behind a list leaves the others where they are
LEMMA StartsAppend ==
    ASSUME NEW tags \in Seq(Known), NEW t \in Known, NEW n \in 1 .. Len(tags) + 1
    PROVE  StartsAt(Append(tags, t))[n] = StartsAt(tags)[n]
  <1> DEFINE s == StartsAt(tags)
             r == StartsAt(Append(tags, t))
             L == Len(tags)
             S == {k \in 1 .. L + 1 : r[k] = s[k]}
  <1>1. /\ L \in Nat /\ s[1] = 2
        /\ \A k \in 1 .. L : s[k + 1] = s[k] + TagWords(tags[k])
    BY StartsAre
  <1>2. /\ Append(tags, t) \in Seq(Known) /\ Len(Append(tags, t)) = L + 1
        /\ \A k \in 1 .. L : Append(tags, t)[k] = tags[k]
    OBVIOUS
  <1>3. r[1] = 2 /\ \A k \in 1 .. L + 1 : r[k + 1] = r[k] + TagWords(Append(tags, t)[k])
    BY <1>2, StartsAre
  <1>4. n \in 1 .. L + 1
    OBVIOUS
  <1> HIDE DEF s, r, L
  <1>5. 1 \in S
    BY <1>1, <1>3
  <1>6. ASSUME NEW k \in 1 .. (L + 1) - 1, k \in S PROVE k + 1 \in S
    <2>1. k \in 1 .. L /\ k \in 1 .. L + 1 /\ k + 1 \in 1 .. L + 1
      BY <1>1
    <2>2. r[k + 1] = s[k + 1]
      BY <1>1, <1>2, <1>3, <1>6, <2>1
    <2> QED
      BY <2>1, <2>2
  <1>7. 1 .. L + 1 \subseteq S
    <2>1. 1 \in Int /\ L + 1 \in Int
      BY <1>1
    <2> HIDE DEF S
    <2> QED
      BY <2>1, <1>5, <1>6, UpFrom
  <1> QED
    BY <1>4, <1>7 DEF r, s

Words == [0 .. PtWords - 1 -> Int]

ListEnd(tags) == StartsAt(tags)[Len(tags) + 1]

\* a list stands in pt, with the sizes of its tags
ListIn(words, tags) ==
    \A n \in 1 .. Len(tags) :
        /\ words[StartsAt(tags)[n]] = tags[n]
        /\ words[StartsAt(tags)[n] + T_OVALUE_SIZE] = Size[tags[n]]

\* the answers of the GPU stand behind the headers of their tags
AnswersIn(words, tags, given) ==
    /\ given \in Seq(Seq(Answer)) /\ Len(given) = Len(tags)
    /\ \A n \in 1 .. Len(tags) :
        /\ Len(given[n]) <= Size[tags[n]] \div 4
        /\ words[StartsAt(tags)[n] + T_ORESPONSE] = Response(4 * Len(given[n]))
        /\ \A k \in 1 .. Len(given[n]) :
             words[StartsAt(tags)[n] + T_ORESPONSE + k] = given[n][k]

\* the answers of the GPU that have not been read
Ours(box) == {i \in 1 .. Len(box) : box[i] = MB0_TAGS_ARM_TO_VC}

\* the inductive invariant
TagInv ==
    /\ pt \in Words
    /\ listed \in Seq(Known) /\ Len(listed) <= MaxTags
    /\ pt_index = ListEnd(listed)
    /\ phase \in {"list", "sent", "done"}
    /\ mailbox \in Seq({MB0_TAGS_ARM_TO_VC, Other})
    /\ ListIn(pt, listed)
    /\ phase # "list" => pt[PT_OSIZE] = 4 * (pt_index + 1)
    /\ phase = "done" \/ Ours(mailbox) # {} => AnswersIn(pt, listed, answers)
    /\ Ours(mailbox) # {} => phase = "sent"
    /\ \A i, j \in Ours(mailbox) : i = j

\* where a list stands
LEMMA ListPlaces ==
    ASSUME NEW tags \in Seq(Known), Len(tags) <= MaxTags, NEW n \in 1 .. Len(tags)
    PROVE  /\ PtWords \in Nat
           /\ StartsAt(tags)[n] \in n + 1 .. PtWords - 2
           /\ ListEnd(tags) \in Len(tags) + 2 .. PtWords - 2
           /\ Size[tags[n]] \div 4 \in 1 .. 64 /\ Size[tags[n]] = 4 * (Size[tags[n]] \div 4)
           /\ StartsAt(tags)[n + 1] = StartsAt(tags)[n] + 3 + Size[tags[n]] \div 4
           /\ StartsAt(tags)[n] + 3 + Size[tags[n]] \div 4 <= ListEnd(tags)
           /\ tags[n] \in Int
  <1>1. /\ n \in 1 .. Len(tags) + 1 /\ Len(tags) + 1 \in n + 1 .. Len(tags) + 1
        /\ Len(tags) + 1 \in 1 .. Len(tags) + 1 /\ tags[n] \in Known
    OBVIOUS
  <1>2. TagWords(tags[n]) = 3 + Size[tags[n]] \div 4
    BY <1>1, TagWordsAre DEF T_OVALUE
  <1>3. /\ Size[tags[n]] \div 4 \in 1 .. 64 /\ Size[tags[n]] = 4 * (Size[tags[n]] \div 4)
        /\ tags[n] \in Int
    BY <1>1, TagWordsAre
  <1>4. StartsAt(tags)[n + 1] = StartsAt(tags)[n] + TagWords(tags[n])
    BY StartsAre
  <1>5. StartsAt(tags)[n] + TagWords(tags[n]) <= ListEnd(tags)
    BY <1>1, StartsGrow DEF ListEnd
  <1>6. StartsAt(tags)[n] \in n + 1 .. PtWords - 2
    BY <1>1, StartsFit
  <1>7. ListEnd(tags) \in Len(tags) + 2 .. PtWords - 2
    <2>1. ListEnd(tags) \in (Len(tags) + 1) + 1 .. PtWords - 2
      BY <1>1, StartsFit DEF ListEnd
    <2> QED
      BY <2>1
  <1>8. PtWords \in Nat
    BY TagAssumption
  <1> DEFINE a == StartsAt(tags)[n]
             z == Size[tags[n]] \div 4
             w == TagWords(tags[n])
             e == ListEnd(tags)
             b == StartsAt(tags)[n + 1]
  <1>9. a \in Int /\ z \in Int /\ w = 3 + z /\ b = a + w /\ a + w <= e /\ e \in Int
    <2>1. Len(tags) \in Nat
      OBVIOUS
    <2>2. a \in Int
      BY <1>1, <1>6, <1>8
    <2>3. e \in Int
      BY <1>7, <1>8, <2>1
    <2>4. z \in Int
      <3>1. z \in 1 .. 64
        BY <1>3
      <3> HIDE DEF z
      <3> QED
        BY <3>1
    <2>5. w = 3 + z
      BY <1>2
    <2>6. b = a + w /\ a + w <= e
      BY <1>4, <1>5
    <2> QED
      BY <2>2, <2>3, <2>4, <2>5, <2>6
  <1>10. b = a + 3 + z /\ a + 3 + z <= e
    <2> HIDE DEF a, b, e, w, z
    <2> QED
      BY <1>9
  <1> QED
    BY <1>3, <1>6, <1>7, <1>8, <1>10

\* a list stays in pt if nothing is written where it stands
LEMMA ListKept ==
    ASSUME NEW tags \in Seq(Known), Len(tags) <= MaxTags, NEW words, NEW other,
           ListIn(words, tags), \A i \in 2 .. ListEnd(tags) - 1 : other[i] = words[i]
    PROVE  ListIn(other, tags)
  <1> SUFFICES ASSUME NEW n \in 1 .. Len(tags)
               PROVE  /\ other[StartsAt(tags)[n]] = words[StartsAt(tags)[n]]
                      /\ other[StartsAt(tags)[n] + 1] = words[StartsAt(tags)[n] + 1]
    BY DEF ListIn, T_OVALUE_SIZE
  <1> DEFINE a == StartsAt(tags)[n]
             e == ListEnd(tags)
             z == Size[tags[n]] \div 4
  <1>1. a \in n + 1 .. PtWords - 2 /\ e \in Int /\ z \in 1 .. 64 /\ a + 3 + z <= e /\ PtWords \in Nat
    <2> DEFINE l == Len(tags)
    <2>1. /\ a \in n + 1 .. PtWords - 2 /\ e \in l + 2 .. PtWords - 2 /\ z \in 1 .. 64
          /\ a + 3 + z <= e /\ PtWords \in Nat
      BY ListPlaces
    <2>2. l \in Nat
      OBVIOUS
    <2> HIDE DEF a, e, z, l
    <2> QED
      BY <2>1, <2>2
  <1>2. \A i \in 2 .. e - 1 : other[i] = words[i]
    OBVIOUS
  <1> HIDE DEF a, e, z
  <1>3. a \in 2 .. e - 1 /\ a + 1 \in 2 .. e - 1
    BY <1>1
  <1> QED
    BY <1>2, <1>3 DEF a

-----------------------------------------------------------------------------
(* Property tags: the search *)

\* the turns of the loop are a recursion over their number
LEMMA IndexIs ==
    ASSUME pt \in Words, pt[PT_OSIZE] \div 4 < PtWords, PtWords \in Nat, 0 < PtWords, NEW tag
    PROVE  /\ IndexAfter(tag)[0] = 2
           /\ \A n \in 0 .. PtWords - 1 :
                IndexAfter(tag)[n + 1] = IF WalkEnds(IndexAfter(tag)[n], tag)
                                         THEN IndexAfter(tag)[n] ELSE After(IndexAfter(tag)[n])
  <1> DEFINE N == PtWords
             Step(x) == IF WalkEnds(x, tag) THEN x ELSE After(x)
             H == [y \in (1 .. N) \X Int |-> Step(y[2])]
             R(f) == [n \in 0 .. N |-> IF n = 0 THEN 2 ELSE Step(f[n - 1])]
  <1>1. \A x \in Int : Step(x) \in Int
    <2> SUFFICES ASSUME NEW x \in Int, ~WalkEnds(x, tag) PROVE After(x) \in Int
      OBVIOUS
    <2> DEFINE e == pt[PT_OSIZE] \div 4
    <2>1. e \in Int /\ e < PtWords
      BY DEF Words, PT_OSIZE
    <2>2. x >= 0 /\ x < e
      BY <2>1 DEF WalkEnds
    <2> HIDE DEF e
    <2>3. x + 1 \in 0 .. PtWords - 1
      BY <2>1, <2>2
    <2>4. pt[x + 1] \in Int
      BY <2>3 DEF Words
    <2> QED
      BY <2>4 DEF After, T_OVALUE_SIZE, T_OVALUE
  <1> HIDE DEF Step
  <1>2. ASSUME NEW n \in 0 + 1 .. N, NEW x \in Int PROVE H[<<n, x>>] = Step(x)
    <2>1. n \in 1 .. N
      OBVIOUS
    <2>2. <<n, x>> \in (1 .. N) \X Int /\ <<n, x>>[2] = x
      BY <2>1
    <2> QED
      BY <2>2
  <1>3. \A n \in 0 + 1 .. N, x \in Int : H[<<n, x>>] \in Int
    BY <1>1, <1>2
  <1> HIDE DEF H
  <1>4. PICK f \in [0 .. N -> Int] : IsRecursive(0, N, 2, H, f)
    <2>1. N \in Int /\ 0 \in Int /\ 2 \in Int
      OBVIOUS
    <2> HIDE DEF N
    <2> QED
      BY <1>3, <2>1, RecursionExists
  <1>5. f = R(f)
    <2>1. ASSUME NEW n \in 0 .. N PROVE f[n] = R(f)[n]
      <3>1. CASE n = 0
        BY <1>4, <3>1 DEF IsRecursive
      <3>2. CASE n # 0
        <4>1. n \in 0 + 1 .. N /\ n - 1 \in 0 .. N /\ f[n - 1] \in Int
          BY <3>2
        <4>2. f[n] = H[<<n, f[n - 1]>>]
          BY <1>4, <3>2 DEF IsRecursive
        <4>3. f[n] = Step(f[n - 1])
          BY <1>2, <4>1, <4>2
        <4> QED
          BY <3>2, <4>3
      <3> QED
        BY <3>1, <3>2
    <2> QED
      BY <2>1
  <1>6. IndexAfter(tag) = CHOOSE g : g = R(g)
    BY DEF IndexAfter, Step
  <1> DEFINE s == IndexAfter(tag)
  <1>7. s = R(s)
    BY <1>5, <1>6
  <1> HIDE DEF s
  <1>8. \A n \in 0 .. N : s[n] = IF n = 0 THEN 2 ELSE Step(s[n - 1])
    BY <1>7
  <1>9. ASSUME NEW n \in 0 .. N - 1 PROVE s[n + 1] = Step(s[n])
    <2>1. n + 1 \in 0 .. N /\ n + 1 # 0 /\ (n + 1) - 1 = n
      OBVIOUS
    <2> QED
      BY <1>8, <2>1
  <1>10. s[0] = 2
    BY <1>8
  <1> QED
    BY <1>9, <1>10 DEF s, Step

\* from tag to tag the loop comes to the first one that is the one looked for
LEMMA SearchFinds ==
    ASSUME TagInv, phase # "list", NEW f \in 1 .. Len(listed), NEW tag, listed[f] = tag,
           \A m \in 1 .. f - 1 : listed[m] # tag
    PROVE  rpi_property_get(tag) = StartsAt(listed)[f]
  <1> DEFINE s == StartsAt(listed)
             w == IndexAfter(tag)
             L == Len(listed)
             e == ListEnd(listed)
             N == PtWords
  <1>1. /\ listed \in Seq(Known) /\ L <= MaxTags /\ L \in Nat /\ ListIn(pt, listed) /\ pt \in Words
        /\ pt_index = e /\ pt[PT_OSIZE] = 4 * (pt_index + 1)
    BY DEF TagInv
  <1>2. \A n \in 1 .. L :
           /\ s[n] \in n + 1 .. N - 2 /\ e \in L + 2 .. N - 2 /\ N \in Nat
           /\ s[n + 1] = s[n] + 3 + Size[listed[n]] \div 4
           /\ Size[listed[n]] \div 4 \in 1 .. 64
           /\ s[n] + 3 + Size[listed[n]] \div 4 <= e
    BY <1>1, ListPlaces
  <1>3. f \in 1 .. L /\ e \in L + 2 .. N - 2 /\ N \in Nat /\ s[1] = 2
    BY <1>1, <1>2, StartsAre
  <1>4. pt[PT_OSIZE] \div 4 = e + 1 /\ e + 1 < N
    BY <1>1, <1>3
  <1>5. /\ w[0] = 2
        /\ \A n \in 0 .. N - 1 : w[n + 1] = IF WalkEnds(w[n], tag) THEN w[n] ELSE After(w[n])
    BY <1>1, <1>3, <1>4, IndexIs
  <1>6. ASSUME NEW n \in 1 .. L
        PROVE  /\ s[n] > 0 /\ s[n] < e + 1 /\ pt[s[n]] = listed[n]
               /\ WalkEnds(s[n], tag) <=> listed[n] = tag
               /\ After(s[n]) = s[n + 1]
    <2>1. pt[s[n]] = listed[n] /\ pt[s[n] + T_OVALUE_SIZE] = Size[listed[n]]
      BY <1>1 DEF ListIn
    <2> DEFINE a == s[n]
               b == s[n + 1]
               z == Size[listed[n]] \div 4
    <2>2. a \in n + 1 .. N - 2 /\ e \in Int /\ b = a + 3 + z /\ z \in 1 .. 64 /\ a + 3 + z <= e
      BY <1>2, <1>3
    <2>3. After(a) = a + z + 3
      BY <2>1 DEF After, T_OVALUE
    <2> HIDE DEF a, b, z, e
    <2>4. a > 0 /\ a < e + 1 /\ ~(a < 0) /\ ~(a >= e + 1) /\ a + z + 3 = b
      BY <2>2, <1>3
    <2>5. WalkEnds(a, tag) <=> pt[a] = tag
      BY <1>4, <2>4 DEF WalkEnds
    <2> QED
      BY <2>1, <2>3, <2>4, <2>5 DEF a, b
  <1> HIDE DEF s, w, L, e, N
  <1> DEFINE S == {n \in 1 .. f : w[n - 1] = s[n]}
             T == {n \in f - 1 .. N : w[n] = s[f]}
  <1>7. 1 \in S
    BY <1>3, <1>5
  <1>8. ASSUME NEW n \in 1 .. f - 1, n \in S PROVE n + 1 \in S
    <2>1. n \in 1 .. L /\ n - 1 \in 0 .. N - 1 /\ n + 1 \in 1 .. f /\ (n - 1) + 1 = n /\ (n + 1) - 1 = n
      BY <1>1, <1>3
    <2>2. w[n - 1] = s[n] /\ listed[n] # tag
      BY <1>8
    <2>3. ~WalkEnds(s[n], tag) /\ After(s[n]) = s[n + 1]
      BY <1>6, <2>1, <2>2
    <2>4. w[n] = After(s[n])
      BY <1>5, <2>1, <2>2, <2>3
    <2> QED
      BY <2>1, <2>3, <2>4
  <1>9. f \in S
    <2>1. f \in Int /\ 1 \in Int /\ f \in 1 .. f
      BY <1>3
    <2>2. 1 .. f \subseteq S
      <3> HIDE DEF S
      <3> QED
        BY <2>1, <1>7, <1>8, UpFrom
    <2> QED
      BY <2>1, <2>2
  <1>10. f - 1 \in T
    BY <1>1, <1>3, <1>9
  <1>11. ASSUME NEW n \in f - 1 .. N - 1, n \in T PROVE n + 1 \in T
    <2>1. n \in 0 .. N - 1 /\ n + 1 \in f - 1 .. N
      BY <1>3
    <2>2. w[n] = s[f] /\ WalkEnds(s[f], tag)
      BY <1>3, <1>6, <1>11
    <2> QED
      BY <1>5, <2>1, <2>2
  <1>12. w[N] = s[f]
    <2>1. f - 1 \in Int /\ N \in Int /\ N \in f - 1 .. N
      BY <1>1, <1>3
    <2>2. f - 1 .. N \subseteq T
      <3> HIDE DEF T
      <3> QED
        BY <2>1, <1>10, <1>11, UpFrom
    <2> QED
      BY <2>1, <2>2
  <1>13. /\ s[f] > 0 /\ s[f] < e + 1 /\ pt[s[f]] = tag /\ WalkEnds(s[f], tag)
    BY <1>3, <1>6
  <1> DEFINE a == s[f]
  <1>14. a \in Int /\ e \in Int
    BY <1>2, <1>3
  <1> HIDE DEF a
  <1>15. ~(a < 0) /\ ~(a >= e + 1) /\ a >= 0 /\ a < e + 1 /\ pt[a] = tag /\ WalkEnds(a, tag)
    BY <1>13, <1>14 DEF a
  <1>16. IndexAfter(tag)[PtWords] = a
    BY <1>12 DEF a, w, N
  <1>17. pt[PT_OSIZE] \div 4 = e + 1
    BY <1>4
  <1>18. rpi_property_get(tag) = a
    BY <1>15, <1>16, <1>17 DEF rpi_property_get
  <1> QED
    BY <1>18 DEF a, s

\* what is found is what the GPU answered
LEMMA AnswerFound ==
    ASSUME NEW tags \in Seq(Known), Len(tags) <= MaxTags, AnswersIn(pt, tags, answers),
           NEW n \in 1 .. Len(tags)
    PROVE  AnswerAt(StartsAt(tags)[n]) = answers[n]
  <1> DEFINE i == StartsAt(tags)[n]
             g == answers[n]
             l == Len(g)
  <1>1. g \in Seq(Answer) /\ l \in Nat
    BY DEF AnswersIn
  <1>2. Size[tags[n]] \div 4 \in 1 .. 64
    BY ListPlaces
  <1>3. /\ l <= Size[tags[n]] \div 4
        /\ pt[i + T_ORESPONSE] = Response(4 * l)
        /\ \A k \in 1 .. l : pt[i + T_ORESPONSE + k] = g[k]
    BY DEF AnswersIn
  <1>4. l \in 0 .. 64
    <2> DEFINE z == Size[tags[n]] \div 4
    <2>1. z \in 1 .. 64 /\ l <= z
      BY <1>2, <1>3
    <2> HIDE DEF z, l
    <2> QED
      BY <1>1, <2>1
  <1>5. g = [k \in 1 .. l |-> g[k]]
    BY <1>1
  <1> HIDE DEF i, g, l
  <1>6. (pt[i + T_ORESPONSE] % 65536) \div 4 = l
    <2> DEFINE x == 4 * l - 2147483648
    <2>0. x = 4 * l + (-32768) * 65536
      BY <1>4
    <2>3. x % 65536 = 4 * l
      BY <1>4, <2>0
    <2>1. Response(4 * l) = x /\ (x % 65536) \div 4 = l
      BY <1>4, <2>3 DEF Response
    <2>2. pt[i + T_ORESPONSE] = Response(4 * l)
      BY <1>3
    <2> QED
      BY <2>1, <2>2
  <1>7. AnswerAt(i) = [k \in 1 .. l |-> pt[i + T_ORESPONSE + k]]
    BY <1>6 DEF AnswerAt
  <1>8. [k \in 1 .. l |-> pt[i + T_ORESPONSE + k]] = [k \in 1 .. l |-> g[k]]
    BY <1>3
  <1>9. AnswerAt(i) = g
    BY <1>5, <1>7, <1>8
  <1> QED
    BY <1>9 DEF i, g

\* a tag of the list is first somewhere
LEMMA FirstIs ==
    ASSUME listed \in Seq(Known), NEW n \in 1 .. Len(listed)
    PROVE  LET f == First(listed[n])
           IN  /\ f \in 1 .. Len(listed) /\ listed[f] = listed[n]
               /\ \A m \in 1 .. f - 1 : listed[m] # listed[n]
  <1> DEFINE tag == listed[n]
             S == {m \in 1 .. Len(listed) : listed[m] = tag}
  <1>1. S \subseteq Nat /\ n \in S
    OBVIOUS
  <1>2. PICK f \in S : \A m \in S : f <= m
    BY <1>1, LeastExists
  <1>3. f \in 1 .. Len(listed) /\ listed[f] = tag /\ \A m \in 1 .. f - 1 : listed[m] # tag
    BY <1>2
  <1> HIDE DEF tag
  <1>4. /\ First(tag) \in 1 .. Len(listed) /\ listed[First(tag)] = tag
        /\ \A m \in 1 .. First(tag) - 1 : listed[m] # tag
    BY <1>3 DEF First
  <1> QED
    BY <1>4 DEF tag

\* what is found of a tag is what was answered to it
LEMMA InvAnswers == TagInv => GetReturnsAnswer
  <1> SUFFICES ASSUME TagInv, phase = "done", NEW n \in 1 .. Len(listed)
               PROVE  LET i == rpi_property_get(listed[n])
                      IN  i > 0 /\ answers # <<>> /\ AnswerAt(i) = answers[First(listed[n])]
    <2>1. DOMAIN listed = 1 .. Len(listed)
      BY DEF TagInv
    <2> QED
      BY <2>1 DEF GetReturnsAnswer
  <1> DEFINE f == First(listed[n])
  <1>1. listed \in Seq(Known) /\ Len(listed) <= MaxTags /\ AnswersIn(pt, listed, answers)
    BY DEF TagInv
  <1>2. f \in 1 .. Len(listed) /\ listed[f] = listed[n] /\ \A m \in 1 .. f - 1 : listed[m] # listed[n]
    BY <1>1, FirstIs
  <1> HIDE DEF f
  <1>3. rpi_property_get(listed[n]) = StartsAt(listed)[f]
    BY <1>2, SearchFinds
  <1>4. AnswerAt(StartsAt(listed)[f]) = answers[f]
    BY <1>1, <1>2, AnswerFound
  <1>5. StartsAt(listed)[f] > 0
    <2>1. StartsAt(listed)[f] \in f + 1 .. PtWords - 2 /\ PtWords \in Nat
      BY <1>1, <1>2, ListPlaces
    <2> QED
      BY <1>1, <1>2, <2>1
  <1>6. answers # <<>>
    <2>1. Len(answers) = Len(listed) /\ Len(listed) > 0
      BY <1>1, <1>2 DEF AnswersIn
    <2> QED
      BY <2>1
  <1> QED
    BY <1>3, <1>4, <1>5, <1>6 DEF f

----

\* the words of a tag and of its answer are those of no other tag
LEMMA HolderIs ==
    ASSUME NEW tags \in Seq(Known), Len(tags) <= MaxTags, NEW a \in AnswersTo(tags),
           NEW n \in 1 .. Len(tags), NEW o \in 0 .. 2 + Len(a[n])
    PROVE  /\ {m \in 1 .. Len(tags) : StartsAt(tags)[n] + o \in
                 StartsAt(tags)[m] .. StartsAt(tags)[m] + T_OVALUE + Len(a[m]) - 1} = {n}
           /\ StartsAt(tags)[n] + o \in 2 .. PtWords - 1
  <1> DEFINE s == StartsAt(tags)
             L == Len(tags)
             l(m) == Len(a[m])
             z(m) == Size[tags[m]] \div 4
  <1>1. \A m \in 1 .. L : l(m) \in Nat /\ l(m) <= z(m)
    <2> SUFFICES ASSUME NEW m \in 1 .. L PROVE l(m) \in Nat /\ l(m) <= z(m)
      OBVIOUS
    <2> DEFINE K == UNION {1 .. Size[t] \div 4 : t \in Known}
               Repeated(k, w) == [i \in 1 .. k |-> w]
               A == {Repeated(k, w) : k \in K, w \in Answer}
    <2>0. a \in [1 .. Len(tags) -> A] /\ Len(a[m]) <= Size[tags[m]] \div 4
      BY DEF AnswersTo
    <2>1. a[m] \in A
      <3> HIDE DEF A
      <3>1. m \in 1 .. Len(tags)
        OBVIOUS
      <3>2. a \in [1 .. Len(tags) -> A]
        BY <2>0
      <3> QED
        BY <3>1, <3>2
    <2>2. PICK k \in K, w \in Answer : a[m] = Repeated(k, w)
      <3> HIDE DEF K, Repeated
      <3> QED
        BY <2>1
    <2>3. PICK t \in Known : k \in 1 .. Size[t] \div 4
      BY <2>2
    <2>4. k \in Nat
      BY <2>3, TagWordsAre
    <2>5. Len(a[m]) = k
      BY <2>2, <2>4
    <2> QED
      BY <2>0, <2>4, <2>5
  <1>2. \A m \in 1 .. L :
           /\ s[m] \in m + 1 .. PtWords - 2 /\ PtWords \in Nat
           /\ z(m) \in 1 .. 64 /\ s[m] + 3 + z(m) <= ListEnd(tags) /\ ListEnd(tags) \in Int
           /\ ListEnd(tags) <= PtWords - 2
    <2> SUFFICES ASSUME NEW m \in 1 .. L
                 PROVE  /\ s[m] \in m + 1 .. PtWords - 2 /\ PtWords \in Nat
                        /\ z(m) \in 1 .. 64 /\ s[m] + 3 + z(m) <= ListEnd(tags) /\ ListEnd(tags) \in Int
                        /\ ListEnd(tags) <= PtWords - 2
      OBVIOUS
    <2>1. /\ s[m] \in m + 1 .. PtWords - 2 /\ PtWords \in Nat
          /\ z(m) \in 1 .. 64 /\ s[m] + 3 + z(m) <= ListEnd(tags)
          /\ ListEnd(tags) \in Len(tags) + 2 .. PtWords - 2
      BY ListPlaces
    <2> QED
      BY <2>1
  <1>3. \A m \in 1 .. L, k \in 1 .. L : m < k => s[m] + 3 + z(m) <= s[k]
    <2> SUFFICES ASSUME NEW m \in 1 .. L, NEW k \in 1 .. L, m < k PROVE s[m] + 3 + z(m) <= s[k]
      OBVIOUS
    <2>1. k \in m + 1 .. L + 1 /\ tags[m] \in Known
      OBVIOUS
    <2>2. s[m] + TagWords(tags[m]) <= s[k]
      BY <2>1, StartsGrow
    <2>3. TagWords(tags[m]) = 3 + z(m)
      BY <2>1, TagWordsAre DEF T_OVALUE
    <2> DEFINE x == z(m)
    <2>6. s[m] \in m + 1 .. PtWords - 2 /\ s[k] \in k + 1 .. PtWords - 2 /\ PtWords \in Nat /\ x \in 1 .. 64
      BY <1>2
    <2>7. s[m] + (3 + x) <= s[k]
      BY <2>2, <2>3
    <2>4. s[m] \in Int /\ s[k] \in Int /\ x \in Int /\ s[m] + (3 + x) <= s[k]
      <3> HIDE DEF x, s
      <3> QED
        BY <2>6, <2>7
    <2> HIDE DEF x, s
    <2>5. s[m] + 3 + x <= s[k]
      BY <2>4
    <2> QED
      BY <2>5 DEF x, s
  <1>4. n \in 1 .. L /\ o \in 0 .. 2 + l(n)
    OBVIOUS
  <1> HIDE DEF s, L, l, z
  <1>5. ASSUME NEW m \in 1 .. L
        PROVE  (s[n] + o \in s[m] .. s[m] + T_OVALUE + l(m) - 1) <=> m = n
    <2> DEFINE sm == s[m]
               sn == s[n]
               lm == l(m)
               ln == l(n)
               zm == z(m)
               zn == z(n)
    <2>7. /\ sm \in m + 1 .. PtWords - 2 /\ sn \in n + 1 .. PtWords - 2 /\ PtWords \in Nat
          /\ zm \in 1 .. 64 /\ zn \in 1 .. 64
      BY <1>2, <1>4
    <2>8. lm \in Nat /\ ln \in Nat /\ lm <= zm /\ ln <= zn
      BY <1>1, <1>4
    <2>1. sm \in Int /\ sn \in Int /\ lm \in Nat /\ ln \in Nat /\ lm <= zm /\ ln <= zn /\ zm \in Int /\ zn \in Int
      <3>1. m \in Int /\ n \in Int
        BY <1>4
      <3> HIDE DEF sm, sn, lm, ln, zm, zn
      <3> QED
        BY <2>7, <2>8, <3>1
    <2>2. m < n => sm + 3 + zm <= sn
      BY <1>3, <1>4
    <2>3. n < m => sn + 3 + zn <= sm
      BY <1>3, <1>4
    <2>4. o \in 0 .. 2 + ln /\ m \in Int /\ n \in Int
      BY <1>4
    <2>6. m = n => sm = sn /\ lm = ln
      OBVIOUS
    <2> HIDE DEF sm, sn, lm, ln, zm, zn
    <2>5. (sn + o \in sm .. sm + 3 + lm - 1) <=> m = n
      BY <2>1, <2>2, <2>3, <2>4, <2>6
    <2> QED
      BY <2>5 DEF sm, sn, lm, T_OVALUE
  <1>6. {m \in 1 .. L : s[n] + o \in s[m] .. s[m] + T_OVALUE + l(m) - 1} = {n}
    BY <1>4, <1>5
  <1>7. s[n] + o \in 2 .. PtWords - 1
    <2> DEFINE sn == s[n]
               ln == l(n)
               zn == z(n)
               e == ListEnd(tags)
    <2>3. /\ sn \in n + 1 .. PtWords - 2 /\ PtWords \in Nat /\ zn \in 1 .. 64
          /\ sn + 3 + zn <= e /\ e <= PtWords - 2 /\ e \in Int
      BY <1>2, <1>4
    <2>4. ln \in Nat /\ ln <= zn
      BY <1>1, <1>4
    <2>1. sn \in n + 1 .. PtWords - 2 /\ ln \in Nat /\ ln <= zn /\ zn \in Int /\ PtWords \in Nat
          /\ sn + 3 + zn <= e /\ e <= PtWords - 2 /\ e \in Int /\ o \in 0 .. 2 + ln /\ n \in 1 .. L
      <3> HIDE DEF sn, zn, e
      <3> QED
        BY <1>4, <2>3, <2>4
    <2> HIDE DEF sn, ln, zn, e
    <2>2. sn + o \in 2 .. PtWords - 1
      BY <2>1
    <2> QED
      BY <2>2 DEF sn
  <1> QED
    BY <1>6, <1>7 DEF s, L, l

\* the GPU leaves the header of each tag and its own answer behind it
LEMMA FilledIs ==
    ASSUME TagInv, NEW a \in AnswersTo(listed)
    PROVE  /\ Filled(a) \in Words
           /\ Filled(a)[PT_OSIZE] = pt[PT_OSIZE]
           /\ ListIn(Filled(a), listed)
           /\ AnswersIn(Filled(a), listed, a)
  <1> DEFINE s == StartsAt(listed)
             L == Len(listed)
             F == Filled(a)
             Holder(i) == {m \in 1 .. L : i \in s[m] .. s[m] + T_OVALUE + Len(a[m]) - 1}
             Repeated(k, w) == [i \in 1 .. k |-> w]
             K == UNION {1 .. Size[t] \div 4 : t \in Known}
             A == {Repeated(k, w) : k \in K, w \in Answer}
             At(i, n) == IF i - s[n] < T_ORESPONSE THEN pt[i]
                         ELSE IF i - s[n] = T_ORESPONSE THEN Response(4 * Len(a[n]))
                         ELSE a[n][i - s[n] - T_ORESPONSE]
  <1>1. listed \in Seq(Known) /\ L <= MaxTags /\ pt \in Words /\ ListIn(pt, listed) /\ L \in Nat
    BY DEF TagInv
  <1>2. a \in [1 .. L -> A] /\ \A n \in 1 .. L : Len(a[n]) <= Size[listed[n]] \div 4
    BY DEF AnswersTo
  <1>3. ASSUME NEW n \in 1 .. L
        PROVE  /\ a[n] \in Seq(Answer) /\ Len(a[n]) \in Nat
               /\ \A k \in 1 .. Len(a[n]) : a[n][k] \in Int
    <2>1. a[n] \in A
      BY <1>2
    <2>2. PICK k \in K, w \in Answer : a[n] = Repeated(k, w)
      <3> HIDE DEF K, Repeated
      <3> QED
        BY <2>1
    <2>3. PICK t \in Known : k \in 1 .. Size[t] \div 4
      BY <2>2
    <2>4. k \in Nat /\ w \in Int /\ w \in Answer
      BY <2>2, <2>3, TagWordsAre, TagAssumption
    <2>5. a[n] = [i \in 1 .. k |-> w]
      BY <2>2
    <2> QED
      BY <2>4, <2>5
  <1>4. a \in Seq(Seq(Answer)) /\ Len(a) = L
    <2> HIDE DEF A
    <2>1. a = [n \in 1 .. L |-> a[n]]
      BY <1>2
    <2>2. a \in [1 .. L -> Seq(Answer)]
      BY <1>3, <2>1
    <2> QED
      BY <1>1, <2>2
  <1> HIDE DEF A, K
  <1>5. ASSUME NEW i \in 0 .. PtWords - 1
        PROVE  F[i] = IF i = PT_OREQUEST_OR_RESPONSE THEN Response(0)
                      ELSE IF Holder(i) = {} THEN pt[i]
                      ELSE At(i, CHOOSE n \in Holder(i) : TRUE)
    BY <1>1 DEF Filled, Words
  <1>6. DOMAIN F = 0 .. PtWords - 1 /\ F = [i \in 0 .. PtWords - 1 |-> F[i]]
    BY <1>1 DEF Filled, Words
  <1>7. PtWords \in Nat /\ \A n \in 1 .. L : s[n] \in n + 1 .. PtWords - 2
    BY <1>1, ListPlaces, TagAssumption
  <1>8. ASSUME NEW n \in 1 .. L, NEW o \in 0 .. 2 + Len(a[n]) PROVE F[s[n] + o] = At(s[n] + o, n)
    <2> DEFINE i == s[n] + o
    <2>1. Holder(i) = {n} /\ i \in 2 .. PtWords - 1
      BY <1>1, HolderIs
    <2> HIDE DEF i
    <2>2. i \in 0 .. PtWords - 1 /\ i # PT_OREQUEST_OR_RESPONSE
      BY <2>1 DEF PT_OREQUEST_OR_RESPONSE
    <2>3. Holder(i) # {} /\ (CHOOSE m \in Holder(i) : TRUE) = n
      <3> HIDE DEF Holder
      <3> QED
        BY <2>1
    <2> HIDE DEF Holder, F, At
    <2>4. F[i] = At(i, n)
      BY <1>5, <2>2, <2>3
    <2> QED
      BY <2>4 DEF i
  <1>9. ASSUME NEW n \in 1 .. L
        PROVE  /\ F[s[n]] = pt[s[n]] /\ F[s[n] + 1] = pt[s[n] + 1]
               /\ F[s[n] + T_ORESPONSE] = Response(4 * Len(a[n]))
               /\ \A k \in 1 .. Len(a[n]) : F[s[n] + T_ORESPONSE + k] = a[n][k]
    <2> DEFINE x == s[n]
               l == Len(a[n])
    <2>1. x \in Int /\ l \in Nat
      <3>1. x \in n + 1 .. PtWords - 2
        BY <1>7
      <3> HIDE DEF x
      <3> QED
        BY <1>1, <1>3, <1>7, <3>1
    <2>2. \A o \in 0 .. 2 + l : F[x + o] = At(x + o, n)
      BY <1>8
    <2>3. \A i : At(i, n) = IF i - x < 2 THEN pt[i] ELSE IF i - x = 2 THEN Response(4 * l) ELSE a[n][i - x - 2]
      BY DEF T_ORESPONSE
    <2> HIDE DEF F, At, x, l
    <2>4. F[x + 0] = pt[x + 0] /\ F[x + 1] = pt[x + 1] /\ F[x + 2] = Response(4 * l)
      <3>1. 0 \in 0 .. 2 + l /\ 1 \in 0 .. 2 + l /\ 2 \in 0 .. 2 + l
        BY <2>1
      <3>2. (x + 0) - x = 0 /\ (x + 1) - x = 1 /\ (x + 2) - x = 2
        BY <2>1
      <3> QED
        BY <2>2, <2>3, <3>1, <3>2
    <2>5. ASSUME NEW k \in 1 .. l PROVE F[x + 2 + k] = a[n][k]
      <3> DEFINE o == 2 + k
      <3>1. o \in 0 .. 2 + l /\ x + o = x + 2 + k /\ (x + o) - x = 2 + k /\ ~(2 + k < 2) /\ 2 + k # 2
            /\ (x + o) - x - 2 = k
        BY <2>1
      <3> HIDE DEF o
      <3>2. F[x + o] = At(x + o, n)
        BY <2>2, <3>1
      <3>3. At(x + o, n) = a[n][k]
        BY <2>3, <3>1
      <3> QED
        BY <3>1, <3>2, <3>3
    <2>6. x + 0 = x
      BY <2>1
    <2> QED
      BY <2>4, <2>5, <2>6 DEF x, l, T_ORESPONSE
  <1>10. ListIn(F, listed)
    <2> HIDE DEF F
    <2> QED
      BY <1>1, <1>9 DEF ListIn, T_OVALUE_SIZE
  <1>11. AnswersIn(F, listed, a)
    <2> HIDE DEF F
    <2> QED
      BY <1>2, <1>4, <1>9 DEF AnswersIn
  <1>12. F[PT_OSIZE] = pt[PT_OSIZE]
    <2>1. Holder(0) = {}
      <3> SUFFICES ASSUME NEW m \in 1 .. L PROVE ~(0 \in s[m] .. s[m] + T_OVALUE + Len(a[m]) - 1)
        OBVIOUS
      <3> DEFINE x == s[m]
      <3>1. x \in m + 1 .. PtWords - 2
        BY <1>7
      <3> HIDE DEF x
      <3>2. x \in Int /\ x > 0
        BY <1>1, <1>7, <3>1
      <3>3. \A y : ~(0 \in x .. y)
        BY <3>2
      <3> QED
        BY <3>3 DEF x
    <2>2. 0 \in 0 .. PtWords - 1 /\ 0 # PT_OREQUEST_OR_RESPONSE
      <3>1. PtWords > 0
        BY TagAssumption DEF T_OVALUE
      <3> QED
        BY <1>7, <3>1 DEF PT_OREQUEST_OR_RESPONSE
    <2> HIDE DEF F, Holder, At
    <2>3. F[0] = pt[0]
      BY <1>5, <2>1, <2>2
    <2> QED
      BY <2>3 DEF PT_OSIZE
  <1>13. F \in Words
    <2> SUFFICES ASSUME NEW i \in 0 .. PtWords - 1 PROVE F[i] \in Int
      BY <1>6 DEF Words
    <2>1. pt[i] \in Int
      BY <1>1 DEF Words
    <2>2. Response(0) \in Int
      BY DEF Response
    <2>3. ASSUME NEW n \in Holder(i) PROVE At(i, n) \in Int
      <3>1. n \in 1 .. L /\ i \in s[n] .. s[n] + 3 + Len(a[n]) - 1
        BY <2>3 DEF T_OVALUE
      <3> DEFINE x == s[n]
                 l == Len(a[n])
      <3>2. l \in Nat /\ x \in n + 1 .. PtWords - 2
        BY <1>3, <1>7, <3>1
      <3>3. i \in x .. x + 3 + l - 1
        BY <3>1
      <3> HIDE DEF x, l
      <3>4. x \in Int
        BY <1>1, <1>7, <3>1, <3>2
      <3>5. Response(4 * l) \in Int
        BY <3>2 DEF Response
      <3>6. i - x > 2 => i - x - 2 \in 1 .. l
        BY <1>7, <3>2, <3>3, <3>4
      <3>7. i - x - 2 \in 1 .. l => a[n][i - x - 2] \in Int
        BY <1>3, <3>1 DEF l
      <3>8. i - x < 2 \/ i - x = 2 \/ i - x > 2
        BY <1>7, <3>4
      <3>9. At(i, n) = IF i - x < 2 THEN pt[i] ELSE IF i - x = 2 THEN Response(4 * l) ELSE a[n][i - x - 2]
        BY DEF T_ORESPONSE, x, l
      <3> HIDE DEF At
      <3> QED
        BY <2>1, <3>5, <3>6, <3>7, <3>8, <3>9
    <2> HIDE DEF F, Holder, At
    <2> QED
      BY <1>5, <2>1, <2>2, <2>3
  <1> QED
    BY <1>10, <1>11, <1>12, <1>13

-----------------------------------------------------------------------------
(* Property tags: the steps *)

\* there is room for the header of pt and for a list of no tags
LEMMA Room == PtWords \in Nat /\ MaxTags \in Nat /\ PtWords >= 4
  <1>1. PICK w \in 1 .. 64 : 4 + MaxTags * (T_OVALUE + w) <= PtWords
    BY TagAssumption
  <1>2. PtWords \in Nat /\ MaxTags \in Nat
    BY TagAssumption
  <1>3. MaxTags * (T_OVALUE + w) \in Nat
    BY <1>2 DEF T_OVALUE
  <1> QED
    BY <1>1, <1>2, <1>3

\* a list of no tags stands anywhere
LEMMA EmptyList ==
    /\ <<>> \in Seq(Known) /\ ListEnd(<<>>) = 2
    /\ \A words : ListIn(words, <<>>)
  <1>1. <<>> \in Seq(Known) /\ Len(<<>>) = 0
    OBVIOUS
  <1>2. StartsAt(<<>>)[1] = 2
    BY <1>1, StartsAre
  <1> QED
    BY <1>1, <1>2 DEF ListEnd, ListIn

\* rpi_property_init sets three words
LEMMA EmptiedIs ==
    ASSUME NEW words \in Words PROVE Emptied(words) \in Words
  BY Room DEF Words, Emptied, PT_OSIZE, PT_OREQUEST_OR_RESPONSE

\* a word of pt is set
LEMMA WordSet ==
    ASSUME NEW words \in Words, NEW i \in 0 .. PtWords - 1
    PROVE  LET set == [words EXCEPT ![i] = 0]
           IN  set \in Words /\ \A j \in 0 .. PtWords - 1 : j # i => set[j] = words[j]
  BY DEF Words

\* rpi_property_init: the first list
LEMMA TagInitInv == TagInit => TagInv
  <1> SUFFICES ASSUME TagInit PROVE TagInv
    OBVIOUS
  <1>1. pt \in Words
    <2>1. [i \in 0 .. PtWords - 1 |-> 0] \in Words
      BY DEF Words
    <2> QED
      BY <2>1, EmptiedIs DEF TagInit
  <1>2. Ours(mailbox) = {} /\ mailbox \in Seq({MB0_TAGS_ARM_TO_VC, Other})
    BY DEF TagInit, Ours
  <1> QED
    BY <1>1, <1>2, EmptyList, Room DEF TagInit, TagInv

\* rpi_property_init: another list over the last one
LEMMA InitListInv == TagInv /\ rpi_property_init => TagInv'
  <1> SUFFICES ASSUME TagInv, rpi_property_init PROVE TagInv'
    OBVIOUS
  <1>1. pt' \in Words
    BY EmptiedIs DEF TagInv, rpi_property_init
  <1>2. Ours(mailbox) = {} /\ mailbox' = mailbox /\ Ours(mailbox') = Ours(mailbox)
    BY DEF TagInv, rpi_property_init
  <1>3. /\ listed' = <<>> /\ answers' = <<>> /\ phase' = "list" /\ pt_index' = 2
        /\ mailbox \in Seq({MB0_TAGS_ARM_TO_VC, Other})
    BY DEF TagInv, rpi_property_init
  <1> QED
    BY <1>1, <1>2, <1>3, EmptyList, Room DEF TagInv

\* the new tag comes to stand behind the others
LEMMA TaggedIs ==
    ASSUME TagInv, NEW tag \in Known, Len(listed) < MaxTags, NEW args \in Nat
    PROVE  LET more == Append(listed, tag)
           IN  /\ more \in Seq(Known) /\ Len(more) <= MaxTags
               /\ ListEnd(more) = pt_index + TagWords(tag)
               /\ Tagged(tag, args) \in Words
               /\ ListIn(Tagged(tag, args), more)
  <1> DEFINE more == Append(listed, tag)
             L == Len(listed)
             x == pt_index
             w == Size[tag] \div 4
             T == Tagged(tag, args)
             e == x + 3 + w
  <1>1. /\ listed \in Seq(Known) /\ L \in Nat /\ L <= MaxTags /\ L < MaxTags
        /\ pt \in Words /\ x = StartsAt(listed)[L + 1] /\ ListIn(pt, listed)
    BY DEF TagInv, ListEnd
  <1>2. /\ more \in Seq(Known) /\ Len(more) = L + 1 /\ Len(more) <= MaxTags
        /\ \A n \in 1 .. L : more[n] = listed[n]
        /\ more[L + 1] = tag
    BY <1>1, Room
  <1>3. \A n \in 1 .. L + 1 : StartsAt(more)[n] = StartsAt(listed)[n]
    BY <1>1, StartsAppend
  <1>4. w \in 1 .. 64 /\ TagWords(tag) = 3 + w /\ tag \in Int /\ Size[tag] \in Int
    <2>1. Size[tag] = 4 * w /\ w \in 1 .. 64 /\ TagWords(tag) = 3 + w /\ tag \in Int
      BY TagWordsAre DEF T_OVALUE
    <2> HIDE DEF w
    <2> QED
      BY <2>1
  <1>5. x \in L + 2 .. PtWords - 2
    <2>1. L + 1 \in 1 .. Len(listed) + 1
      BY <1>1
    <2>2. x \in (L + 1) + 1 .. PtWords - 2
      BY <1>1, <2>1, StartsFit
    <2> QED
      BY <1>1, <2>2
  <1>6. ListEnd(more) = x + TagWords(tag)
    <2>1. L + 1 \in 1 .. Len(more) /\ L + 1 \in 1 .. L + 1
      BY <1>1, <1>2
    <2>2. StartsAt(more)[(L + 1) + 1] = StartsAt(more)[L + 1] + TagWords(more[L + 1])
      BY <1>2, <2>1, StartsAre
    <2> QED
      BY <1>1, <1>2, <1>3, <2>1, <2>2 DEF ListEnd
  <1>7. e \in Int /\ e <= PtWords - 2
    <2>1. Len(more) + 1 \in 1 .. Len(more) + 1
      BY <1>1, <1>2
    <2>2. ListEnd(more) \in (Len(more) + 1) + 1 .. PtWords - 2
      BY <1>2, <2>1, StartsFit DEF ListEnd
    <2>3. ListEnd(more) = e
      <3>1. x \in Int
        BY <1>1, <1>5, Room
      <3> HIDE DEF x, w
      <3> QED
        BY <1>4, <1>6, <3>1
    <2> QED
      BY <1>1, <1>2, <2>2, <2>3, Room
  <1>8. ASSUME NEW i \in 0 .. PtWords - 1
        PROVE  T[i] = CASE i = x -> tag
                        [] i = x + 1 -> Size[tag]
                        [] i \in {x + 2, x + 3 + w} -> 0
                        [] i \in x + 3 .. x + 3 + w - 1 -> IF i - (x + 3) < args THEN 0 ELSE pt[i]
                        [] OTHER -> pt[i]
    <2> DEFINE At(j) == CASE j = x -> tag
                          [] j = x + 1 -> Size[tag]
                          [] j \in {x + 2, x + 3 + w} -> 0
                          [] j \in x + 3 .. x + 3 + w - 1 -> IF j - (x + 3) < args THEN 0 ELSE pt[j]
                          [] OTHER -> pt[j]
    <2>1. T = [j \in DOMAIN pt |-> At(j)]
      BY DEF Tagged, T_OVALUE, T_OVALUE_SIZE, T_ORESPONSE
    <2>2. i \in DOMAIN pt
      BY <1>1 DEF Words
    <2> HIDE DEF T, At
    <2>3. T[i] = At(i)
      BY <2>1, <2>2
    <2> QED
      BY <2>3 DEF At
  <1>9. DOMAIN T = 0 .. PtWords - 1 /\ T = [i \in 0 .. PtWords - 1 |-> T[i]]
    BY <1>1 DEF Tagged, Words
  <1>10. \A i \in 0 .. PtWords - 1 : pt[i] \in Int
    BY <1>1 DEF Words
  <1>11. x \in Int /\ w \in Nat /\ PtWords \in Nat
    <2>1. w \in 1 .. 64 /\ L \in Nat /\ PtWords \in Nat /\ x \in L + 2 .. PtWords - 2
      BY <1>1, <1>4, <1>5, Room
    <2> HIDE DEF x, w, L
    <2> QED
      BY <2>1
  <1> DEFINE sz == Size[tag]
  <1> HIDE DEF T, x, w, e, sz, L
  <1>12. T[x] = tag /\ T[x + 1] = sz
    <2>1. x \in 0 .. PtWords - 1 /\ x + 1 \in 0 .. PtWords - 1
      BY <1>1, <1>5, <1>11
    <2>2. T[x] = tag
      BY <1>8, <1>11, <2>1
    <2>3. T[x + 1] = sz
      <3>1. x + 1 # x /\ x + 1 \notin {x + 2, x + 3 + w} /\ x + 1 \notin x + 3 .. x + 3 + w - 1
        BY <1>11
      <3> QED
        BY <1>8, <2>1, <3>1 DEF sz
    <2> QED
      BY <2>2, <2>3
  <1>13. \A i \in 2 .. x - 1 : T[i] = pt[i]
    <2> SUFFICES ASSUME NEW i \in 2 .. x - 1 PROVE T[i] = pt[i]
      OBVIOUS
    <2>1. i \in 0 .. PtWords - 1
      BY <1>1, <1>5, <1>11
    <2>2. i # x /\ i # x + 1 /\ i \notin {x + 2, x + 3 + w} /\ i \notin x + 3 .. x + 3 + w - 1
      BY <1>11
    <2> QED
      BY <1>8, <2>1, <2>2
  <1>14. T \in Words
    <2> SUFFICES ASSUME NEW i \in 0 .. PtWords - 1 PROVE T[i] \in Int
      BY <1>9 DEF Words
    <2>1. \/ i = x \/ i = x + 1 \/ i \in {x + 2, x + 3 + w} \/ i \in x + 3 .. x + 3 + w - 1
          \/ (i # x /\ i # x + 1 /\ i \notin {x + 2, x + 3 + w} /\ i \notin x + 3 .. x + 3 + w - 1)
      OBVIOUS
    <2>2. tag \in Int /\ sz \in Int /\ pt[i] \in Int
      BY <1>4, <1>10 DEF sz
    <2>3. CASE i = x \/ i = x + 1
      BY <1>12, <2>2, <2>3
    <2>4. CASE i \in {x + 2, x + 3 + w}
      <3>1. i # x /\ i # x + 1 /\ i \notin x + 3 .. x + 3 + w - 1
        BY <1>11, <2>4
      <3> QED
        BY <1>8, <2>4, <3>1
    <2>5. CASE i \in x + 3 .. x + 3 + w - 1
      <3>1. i # x /\ i # x + 1 /\ i \notin {x + 2, x + 3 + w}
        BY <1>11, <2>5
      <3> QED
        BY <1>8, <2>2, <2>5, <3>1
    <2>6. CASE i # x /\ i # x + 1 /\ i \notin {x + 2, x + 3 + w} /\ i \notin x + 3 .. x + 3 + w - 1
      BY <1>8, <2>2, <2>6
    <2> QED
      BY <2>1, <2>3, <2>4, <2>5, <2>6
  <1>15. ListIn(T, listed)
    <2>1. ListEnd(listed) = x
      BY <1>1 DEF ListEnd, L
    <2>2. Len(listed) <= MaxTags
      BY <1>1 DEF L
    <2> QED
      BY <1>1, <1>13, <2>1, <2>2, ListKept
  <1>16. ListIn(T, more)
    <2> SUFFICES ASSUME NEW n \in 1 .. L + 1
                 PROVE  /\ T[StartsAt(more)[n]] = more[n]
                        /\ T[StartsAt(more)[n] + T_OVALUE_SIZE] = Size[more[n]]
      BY <1>2 DEF ListIn
    <2>1. CASE n \in 1 .. L
      BY <1>2, <1>3, <1>15, <2>1 DEF ListIn, L
    <2>2. CASE n = L + 1
      BY <1>1, <1>2, <1>3, <1>12, <2>2 DEF T_OVALUE_SIZE, sz
    <2>3. n \in 1 .. L \/ n = L + 1
      BY <1>1
    <2> QED
      BY <2>1, <2>2, <2>3
  <1> QED
    BY <1>2, <1>6, <1>14, <1>16 DEF T, x, L

\* rpi_property_add_tag
LEMMA AddTagInv ==
    ASSUME TagInv, NEW tag \in Known \cup Foreign, rpi_property_add_tag(tag)
    PROVE  TagInv'
  <1>1. /\ phase = "list" /\ Len(listed) < MaxTags
        /\ UNCHANGED <<phase, mailbox, answers>>
    BY DEF rpi_property_add_tag
  <1>2. Ours(mailbox) = {} /\ Ours(mailbox') = Ours(mailbox)
    BY <1>1 DEF TagInv
  <1>3. mailbox' \in Seq({MB0_TAGS_ARM_TO_VC, Other})
    BY <1>1 DEF TagInv
  <1>4. CASE tag \in Known
    <2>1. Size[tag] \div 4 \in Nat
      <3> DEFINE z == Size[tag] \div 4
      <3>1. z \in 1 .. 64
        BY <1>4, TagWordsAre
      <3> HIDE DEF z
      <3>2. z \in Nat
        BY <3>1
      <3> QED
        BY <3>2 DEF z
    <2>2. /\ \E args \in {0, Size[tag] \div 4} : pt' = Tagged(tag, args)
          /\ pt_index' = pt_index + TagWords(tag)
          /\ listed' = Append(listed, tag)
      BY <1>4 DEF rpi_property_add_tag
    <2>3. PICK args \in Nat : pt' = Tagged(tag, args)
      <3> DEFINE z == Size[tag] \div 4
      <3>1. z \in Nat /\ \E args \in {0, z} : pt' = Tagged(tag, args)
        BY <2>1, <2>2
      <3> HIDE DEF z
      <3> QED
        BY <3>1
    <2>4. /\ listed' \in Seq(Known) /\ Len(listed') <= MaxTags
          /\ pt_index' = ListEnd(listed')
          /\ pt' \in Words /\ ListIn(pt', listed')
      BY <1>1, <1>4, <2>2, <2>3, TaggedIs
    <2> QED
      BY <1>1, <1>2, <1>3, <2>4 DEF TagInv
  <1>5. CASE tag \notin Known
    <2>1. pt' = [pt EXCEPT ![pt_index] = 0] /\ UNCHANGED <<pt_index, listed>>
      BY <1>5 DEF rpi_property_add_tag, DropForeign
    <2>2. pt' \in Words /\ \A i \in 2 .. ListEnd(listed) - 1 : pt'[i] = pt[i]
      <3>1. pt \in Words /\ pt_index = ListEnd(listed)
        BY DEF TagInv
      <3> DEFINE e == ListEnd(listed)
      <3>2. e \in 2 .. PtWords - 2
        <4>1. listed \in Seq(Known) /\ Len(listed) + 1 \in 1 .. Len(listed) + 1 /\ Len(listed) <= MaxTags
          BY DEF TagInv
        <4>2. e \in (Len(listed) + 1) + 1 .. PtWords - 2
          BY <4>1, StartsFit DEF ListEnd
        <4>3. Len(listed) \in Nat
          BY <4>1
        <4> HIDE DEF e
        <4> QED
          BY <4>2, <4>3, Room
      <3>3. pt' = [pt EXCEPT ![e] = 0]
        BY <2>1, <3>1
      <3> HIDE DEF e
      <3>4. /\ pt' \in Words /\ \A i \in 0 .. PtWords - 1 : i # e => pt'[i] = pt[i]
        <4>1. e \in 0 .. PtWords - 1
          BY <3>2, Room
        <4> QED
          BY <3>1, <3>3, <4>1, WordSet
      <3>5. \A i \in 2 .. e - 1 : i \in 0 .. PtWords - 1 /\ i # e
        BY <3>2, Room
      <3> QED
        BY <3>4, <3>5 DEF e
    <2>3. ListIn(pt', listed)
      BY <2>2, ListKept DEF TagInv
    <2>4. listed' = listed /\ pt_index' = pt_index /\ ListEnd(listed') = ListEnd(listed)
      BY <2>1
    <2> QED
      BY <1>1, <1>2, <1>3, <2>2, <2>3, <2>4 DEF TagInv
  <1> QED
    BY <1>4, <1>5

\* rpi_property_process
LEMMA ProcessInv == TagInv /\ Process => TagInv'
  <1> SUFFICES ASSUME TagInv, Process PROVE TagInv'
    OBVIOUS
  <1>1. /\ phase = "list" /\ phase' = "sent" /\ UNCHANGED <<pt_index, mailbox, listed, answers>>
        /\ pt' = [pt EXCEPT ![PT_OSIZE] = 4 * (pt_index + 1), ![PT_OREQUEST_OR_RESPONSE] = 0]
    BY DEF Process
  <1>2. /\ listed \in Seq(Known) /\ Len(listed) <= MaxTags /\ pt_index = ListEnd(listed)
        /\ pt \in Words /\ ListIn(pt, listed)
        /\ mailbox \in Seq({MB0_TAGS_ARM_TO_VC, Other}) /\ Ours(mailbox) = {}
    BY <1>1 DEF TagInv
  <1>3. pt_index \in Int
    <2>1. Len(listed) + 1 \in 1 .. Len(listed) + 1 /\ Len(listed) \in Nat
      BY <1>2
    <2>2. pt_index \in (Len(listed) + 1) + 1 .. PtWords - 2
      BY <1>2, <2>1, StartsFit DEF ListEnd
    <2> QED
      BY <2>1, <2>2, Room
  <1> DEFINE x == 4 * (pt_index + 1)
  <1>4. x \in Int /\ pt' = [pt EXCEPT ![0] = x, ![1] = 0]
    BY <1>1, <1>3 DEF PT_OSIZE, PT_OREQUEST_OR_RESPONSE
  <1> HIDE DEF x
  <1>5. pt' \in Words /\ pt'[0] = x /\ \A i \in 2 .. PtWords - 1 : pt'[i] = pt[i]
    BY <1>2, <1>4, Room DEF Words
  <1>6. \A i \in 2 .. ListEnd(listed) - 1 : pt'[i] = pt[i]
    <2>1. Len(listed) + 1 \in 1 .. Len(listed) + 1 /\ Len(listed) \in Nat
      BY <1>2
    <2>2. ListEnd(listed) \in (Len(listed) + 1) + 1 .. PtWords - 2
      BY <1>2, <2>1, StartsFit DEF ListEnd
    <2> DEFINE e == ListEnd(listed)
    <2> HIDE DEF e
    <2>3. e \in (Len(listed) + 1) + 1 .. PtWords - 2
      BY <2>2 DEF e
    <2>4. \A i \in 2 .. e - 1 : i \in 2 .. PtWords - 1
      BY <2>1, <2>3, Room
    <2> QED
      BY <1>5, <2>4 DEF e
  <1>7. ListIn(pt', listed)
    BY <1>2, <1>6, ListKept
  <1>8. pt'[PT_OSIZE] = 4 * (pt_index + 1)
    BY <1>5 DEF x, PT_OSIZE
  <1> QED
    BY <1>1, <1>2, <1>5, <1>7, <1>8 DEF TagInv

\* the GPU answers
LEMMA GpuInv == TagInv /\ Gpu => TagInv'
  <1> SUFFICES ASSUME TagInv, Gpu PROVE TagInv'
    OBVIOUS
  <1>1. PICK a \in AnswersTo(listed) : pt' = Filled(a) /\ answers' = a
    BY DEF Gpu
  <1>2. /\ phase = "sent" /\ mailbox' = Append(mailbox, MB0_TAGS_ARM_TO_VC)
        /\ UNCHANGED <<pt_index, phase, listed>>
        /\ MB0_TAGS_ARM_TO_VC \notin {mailbox[i] : i \in DOMAIN mailbox}
    BY DEF Gpu
  <1>3. /\ pt' \in Words /\ pt'[PT_OSIZE] = pt[PT_OSIZE] /\ ListIn(pt', listed)
        /\ AnswersIn(pt', listed, answers')
    BY <1>1, FilledIs
  <1>4. /\ mailbox' \in Seq({MB0_TAGS_ARM_TO_VC, Other})
        /\ \A i, j \in Ours(mailbox') : i = j
    <2>1. mailbox \in Seq({MB0_TAGS_ARM_TO_VC, Other})
      BY DEF TagInv
    <2>2. \A i \in 1 .. Len(mailbox) : mailbox[i] # MB0_TAGS_ARM_TO_VC
      BY <1>2, <2>1
    <2>3. /\ mailbox' \in Seq({MB0_TAGS_ARM_TO_VC, Other}) /\ Len(mailbox') = Len(mailbox) + 1
          /\ \A i \in 1 .. Len(mailbox) : mailbox'[i] = mailbox[i]
      BY <1>2, <2>1
    <2>4. \A i \in Ours(mailbox') : i = Len(mailbox) + 1
      BY <2>1, <2>2, <2>3 DEF Ours
    <2> QED
      BY <2>3, <2>4
  <1> QED
    BY <1>2, <1>3, <1>4 DEF TagInv

\* a message of another channel
LEMMA OtherMessageInv == TagInv /\ OtherMessage => TagInv'
  <1> SUFFICES ASSUME TagInv, OtherMessage PROVE TagInv'
    OBVIOUS
  <1>1. mailbox' = Append(mailbox, Other) /\ UNCHANGED <<pt, pt_index, phase, listed, answers>>
    BY DEF OtherMessage
  <1>2. mailbox \in Seq({MB0_TAGS_ARM_TO_VC, Other})
    BY DEF TagInv
  <1>3. /\ mailbox' \in Seq({MB0_TAGS_ARM_TO_VC, Other}) /\ Len(mailbox') = Len(mailbox) + 1
        /\ \A i \in 1 .. Len(mailbox) : mailbox'[i] = mailbox[i]
        /\ mailbox'[Len(mailbox) + 1] = Other
    BY <1>1, <1>2
  <1>4. Ours(mailbox') = Ours(mailbox)
    <2>1. Other # MB0_TAGS_ARM_TO_VC
      BY DEF Other, MB0_TAGS_ARM_TO_VC
    <2> QED
      BY <1>2, <1>3, <2>1 DEF Ours
  <1> QED
    BY <1>1, <1>3, <1>4 DEF TagInv

\* rpi_mbox_read
LEMMA MailReadInv == TagInv /\ rpi_mbox_read => TagInv'
  <1> SUFFICES ASSUME TagInv, rpi_mbox_read PROVE TagInv'
    OBVIOUS
  <1>1. /\ phase = "sent" /\ mailbox # <<>> /\ mailbox' = Tail(mailbox)
        /\ phase' = IF Head(mailbox) = MB0_TAGS_ARM_TO_VC THEN "done" ELSE "sent"
        /\ UNCHANGED <<pt, pt_index, listed, answers>>
    BY DEF rpi_mbox_read, Desired
  <1>2. mailbox \in Seq({MB0_TAGS_ARM_TO_VC, Other}) /\ \A i, j \in Ours(mailbox) : i = j
    BY DEF TagInv
  <1>3. /\ mailbox' \in Seq({MB0_TAGS_ARM_TO_VC, Other}) /\ Len(mailbox') = Len(mailbox) - 1
        /\ \A i \in 1 .. Len(mailbox) - 1 : mailbox'[i] = mailbox[i + 1]
        /\ Head(mailbox) = mailbox[1] /\ Len(mailbox) \in Nat /\ Len(mailbox) > 0
    BY <1>1, <1>2
  <1>4. \A i \in Ours(mailbox') : i + 1 \in Ours(mailbox) /\ i \in Nat /\ i > 0
    BY <1>3 DEF Ours
  <1>5. \A i, j \in Ours(mailbox') : i = j
    BY <1>2, <1>4
  <1>6. Ours(mailbox') # {} => Ours(mailbox) # {}
    BY <1>4
  <1>7. CASE Head(mailbox) = MB0_TAGS_ARM_TO_VC
    <2>1. 1 \in Ours(mailbox)
      BY <1>3, <1>7 DEF Ours
    <2>2. Ours(mailbox') = {}
      BY <1>2, <1>4, <2>1
    <2>3. AnswersIn(pt, listed, answers)
      BY <2>1 DEF TagInv
    <2> QED
      BY <1>1, <1>3, <1>7, <2>2, <2>3 DEF TagInv
  <1>8. CASE Head(mailbox) # MB0_TAGS_ARM_TO_VC
    BY <1>1, <1>3, <1>5, <1>6, <1>8 DEF TagInv
  <1> QED
    BY <1>7, <1>8

\* nothing changes
LEMMA TagStutterInv == TagInv /\ UNCHANGED tagVars => TagInv'
  <1> SUFFICES ASSUME TagInv, UNCHANGED tagVars PROVE TagInv'
    OBVIOUS
  <1>1. UNCHANGED <<pt, pt_index, phase, mailbox, listed, answers>>
    BY DEF tagVars
  <1> QED
    BY <1>1 DEF TagInv

\* The list in pt is the one that was built, and once the GPU has answered its
\* answers stand in it: rpi_property_init, rpi_property_add_tag and
\* rpi_property_process with the reads of the mailbox between them.
THEOREM TagInvariant == TagSpec => []TagInv
  <1>1. TagInv /\ [TagNext]_tagVars => TagInv'
    <2> SUFFICES ASSUME TagInv, [TagNext]_tagVars PROVE TagInv'
      OBVIOUS
    <2>1. CASE rpi_property_init
      BY <2>1, InitListInv
    <2>2. ASSUME NEW tag \in Known \cup Foreign, rpi_property_add_tag(tag) PROVE TagInv'
      BY <2>2, AddTagInv
    <2>3. CASE Process
      BY <2>3, ProcessInv
    <2>4. CASE Gpu
      BY <2>4, GpuInv
    <2>5. CASE OtherMessage
      BY <2>5, OtherMessageInv
    <2>6. CASE rpi_mbox_read
      BY <2>6, MailReadInv
    <2>7. CASE UNCHANGED tagVars
      BY <2>7, TagStutterInv
    <2> QED
      BY <2>1, <2>2, <2>3, <2>4, <2>5, <2>6, <2>7 DEF TagNext, TagCall
  <1> QED
    BY <1>1, TagInitInv, PTL DEF TagSpec

\* A tag of the list that was processed is found with the answer the GPU gave:
\* rpi_property_get after rpi_property_process, whatever pt holds of earlier
\* lists and whatever messages of other channels came before the answer.
THEOREM GetReturnsAnswerHolds == TagSpec => []GetReturnsAnswer
  <1> QED
    BY TagInvariant, InvAnswers, PTL

-----------------------------------------------------------------------------
(* Serial boot loader: the invariant *)

\* states that leave the segment alone whatever digits come
Quiet == {0} \cup (14 .. 21)

\* the state in which the n-th character of a line that came whole so far is taken
StateAt(r, n) ==
    IF n <= 9 THEN n - 1
    ELSE CASE r.type = 0 -> 14 + ((n - 10) % 8)
           [] r.type = 2 -> IF n <= 14 THEN n - 1 ELSE 0
           [] r.type \notin {0, 2} -> 0

\* what x has of the address a, of the segment of the bytes b and c, and of the
\* type t, when the n-th character comes
AddressRead(x, a, base, n) ==
    /\ n = 5 => x % 16 = a \div 4096
    /\ n = 6 => x % 256 = a \div 256
    /\ n = 7 => x % 4096 = a \div 16
    /\ n \in 8 .. 9 => x = base + a

SegmentRead(x, b, c, n) ==
    /\ n = 11 => x % 16 = b \div 16
    /\ n = 12 => x % 256 = b
    /\ n = 13 => x % 4096 = 16 * b + c \div 16
    /\ n = 14 => x = 256 * b + c
    /\ n > 14 => x = 16 * (256 * b + c)

TypeRead(x, t, n) == n = 9 => x % 16 = t \div 16

\* the words that have been read, and the one that is being read
DataRead(i, n) ==
    LET q == (n - 10) \div 8
    IN  /\ hex.address = WordAddress(i, q, history.base)
        /\ (n - 10) % 8 # 0 => hex.data = SubSeq(Texts[i], 10 + 8 * q, n - 1)
        /\ \A k \in 0 .. q - 1 :
             LET a == WordAddress(i, k, history.base)
             IN  a \in DOMAIN memory /\ memory[a] = WordOf(i, k)

\* a line that came whole so far
Parsed(i, r, n) ==
    /\ hex.state = StateAt(r, n)
    /\ TypeRead(hex.record_type, r.type, n)
    /\ r.type = 2 => SegmentRead(hex.segment, r.bytes[1], r.bytes[2], n)
    /\ history.base # Unknown /\ r.type # 2 => AddressRead(hex.address, r.address, history.base, n)
    /\ history.base # Unknown /\ r.type = 0 /\ n >= 10 => DataRead(i, n)

\* what the variables can be
Numbers == Seq(Int)
States  == 0 .. 21
Locals  == [state : States, address : Int, record_type : Int, segment : Int, data : Numbers]

Places    == [transfer : Nat \ {0}, line : 1 .. Len(HexFile) + 1, at : Nat \ {0}]
Histories == [missed : Nat, base : Int, ended : 0 .. Len(HexFile)]

HexTypeOK ==
    /\ hex \in Locals
    /\ sender \in Places
    /\ history \in Histories
    /\ lost \in Nat

\* the segment is the one that the lines so far say
SegmentKept ==
    LET told == sender.at = 1 \/ (HexFile[sender.line].type # 2 /\ history.missed \notin 2 .. 9)
    IN  told /\ history.base # Unknown =>
            /\ hex.segment = history.base
            /\ sender.at = 1 \/ history.missed # 0 => hex.state \in Quiet

\* the sender is in the file or behind it
PlaceOK == IF Sending THEN sender.at <= Len(Texts[sender.line]) ELSE sender.at = 1

\* a segment that is known is on a boundary
BaseOK == history.base # Unknown => Aligned(history.base)

\* what came of this line so far is in the locals and in memory
LineParsed ==
    Sending /\ sender.at > 1 /\ history.missed = 0 =>
        Parsed(sender.line, HexFile[sender.line], sender.at)

\* the inductive invariant
HexInv == HexTypeOK /\ PlaceOK /\ BaseOK /\ LineParsed /\ SegmentKept /\ WholeLineIsStored

\* the addresses of the first m words of a line, and those of the lines before i
HexWords(i, m) == {WordAddress(i, k, BaseAt(i)) : k \in 0 .. m - 1}
WordsBefore(i) == UNION {HexWords(j, WordsOf(j)) : j \in {h \in 1 .. i - 1 : Loads(h)}}

\* the words of a line that have come whole before its n-th character
WholeWords(n) == (n - 10) \div 8

\* the addresses that have been stored to when the n-th character of line i comes
WordsRead(i, n) ==
    WordsBefore(i) \cup (IF i <= Len(HexFile) /\ Loads(i) THEN HexWords(i, WholeWords(n)) ELSE {})

\* the file up to the n-th character of line i is in memory
LoadedUpTo(i, n) ==
    /\ history.missed = 0
    /\ history.base = BaseAt(i - 1) /\ history.base # Unknown
    /\ \A j \in 1 .. i - 1 : Loads(j) => Stored(j, BaseAt(j))
    /\ DOMAIN memory = WordsRead(i, n)

\* the words of the lines before, and of this one so far
ImageInv == sender.transfer = 1 /\ lost = 0 => LoadedUpTo(sender.line, sender.at)

-----------------------------------------------------------------------------
(* Serial boot loader: the lines of the file *)

\* the records of the file
LEMMA RecordIs ==
    ASSUME NEW i \in 1 .. Len(HexFile)
    PROVE  LET r == HexFile[i] IN
           /\ r.type \in Byte /\ r.address \in Short /\ r.check \in Byte
           /\ r.bytes \in Seq(Byte) /\ Len(r.bytes) \in Nat /\ Len(r.bytes) < 256
           /\ r.type = 2 => /\ Len(r.bytes) = 2 /\ r.bytes[1] \in Byte /\ r.bytes[2] \in Byte
                            /\ Aligned(SegmentOf(r))
  <1> DEFINE r == HexFile[i]
  <1>1. r.type \in Byte /\ r.address \in Short /\ r.bytes \in Bytes /\ r.check \in Byte
    <2>1. r \in HexRecord
      BY HexAssumption
    <2> QED
      BY <2>1 DEF HexRecord
  <1>2. Len(r.bytes) <= 255 /\ (r.type = 2 => Len(r.bytes) = 2 /\ Aligned(SegmentOf(r)))
    BY HexAssumption
  <1>3. r.bytes \in Seq(Byte) /\ Len(r.bytes) \in Nat /\ Len(r.bytes) < 256
    BY <1>1, <1>2 DEF Bytes
  <1>4. r.type = 2 => r.bytes[1] \in Byte /\ r.bytes[2] \in Byte
    BY <1>2, <1>3
  <1> QED
    BY <1>1, <1>2, <1>3, <1>4

\* a byte is two digits
LEMMA ByteIs ==
    ASSUME NEW b \in Byte
    PROVE  b \in Nat /\ b < 256 /\ b \div 16 \in 0 .. 15 /\ b % 16 \in 0 .. 15
  BY DEF Byte

\* one sequence behind another
LEMMA JoinedIs ==
    ASSUME NEW S, NEW u \in Seq(S), NEW w \in Seq(S)
    PROVE  /\ u \o w \in Seq(S) /\ Len(u \o w) = Len(u) + Len(w)
           /\ \A k \in 1 .. Len(u) + Len(w) :
                (u \o w)[k] = IF k <= Len(u) THEN u[k] ELSE w[k - Len(u)]
  OBVIOUS

\* the characters of a line
LEMMA TextIs ==
    ASSUME NEW i \in 1 .. Len(HexFile)
    PROVE  LET r == HexFile[i]
               t == Texts[i]
               last == 12 + 2 * Len(r.bytes)
           IN  /\ t \in Seq(Int) /\ Len(t) = last /\ last >= 12 /\ last \in Int
               /\ t[1] = Colon /\ t[last] = NewLine
               /\ \A n \in 2 .. last - 1 : t[n] \in 0 .. 15
               /\ t[4] = (r.address \div 256) \div 16 /\ t[5] = (r.address \div 256) % 16
               /\ t[6] = (r.address % 256) \div 16 /\ t[7] = (r.address % 256) % 16
               /\ t[8] = r.type \div 16 /\ t[9] = r.type % 16
               /\ r.type = 2 => /\ last = 16
                                /\ t[10] = r.bytes[1] \div 16 /\ t[11] = r.bytes[1] % 16
                                /\ t[12] = r.bytes[2] \div 16 /\ t[13] = r.bytes[2] % 16
  <1> DEFINE r == HexFile[i]
             t == Texts[i]
             L == Len(r.bytes)
             h == <<L, r.address \div 256, r.address % 256, r.type>>
             b == h \o r.bytes \o <<r.check>>
             last == 2 * Len(b) + 2
             Hex(n) == IF n % 2 = 0 THEN b[n \div 2] \div 16 ELSE b[n \div 2] % 16
  <1>1. /\ r.type \in Byte /\ r.address \in Short /\ r.check \in Byte
        /\ r.bytes \in Seq(Byte) /\ L \in Nat /\ L \in Byte
        /\ r.type = 2 => L = 2
    BY RecordIs DEF Byte
  <1>2. h \in Seq(Byte) /\ Len(h) = 4
    <2>1. r.address \div 256 \in Byte /\ r.address % 256 \in Byte
      BY <1>1 DEF Byte, Short
    <2> QED
      BY <1>1, <2>1
  <1>3. b \in Seq(Byte) /\ Len(b) = L + 5
    BY <1>1, <1>2
  <1>4. \A k \in 1 .. L + 5 : b[k] = IF k <= 4 THEN h[k] ELSE IF k <= L + 4 THEN r.bytes[k - 4] ELSE r.check
    <2> DEFINE m == r.bytes
               c == <<r.check>>
    <2>1. m \in Seq(Byte) /\ Len(m) = L /\ c \in Seq(Byte) /\ Len(c) = 1 /\ c[1] = r.check
      BY <1>1
    <2> HIDE DEF h, m, c
    <2>2. /\ h \o m \in Seq(Byte) /\ Len(h \o m) = L + 4
          /\ \A k \in 1 .. L + 4 : (h \o m)[k] = IF k <= 4 THEN h[k] ELSE m[k - 4]
      <3>1. /\ h \o m \in Seq(Byte) /\ Len(h \o m) = Len(h) + Len(m)
            /\ \A k \in 1 .. Len(h) + Len(m) : (h \o m)[k] = IF k <= Len(h) THEN h[k] ELSE m[k - Len(h)]
        <4>1. h \in Seq(Byte) /\ m \in Seq(Byte)
          BY <1>2, <2>1
        <4> QED
          BY <4>1, JoinedIs
      <3>2. Len(h) = 4 /\ Len(m) = L /\ 4 + L = L + 4
        BY <1>1, <1>2, <2>1
      <3> QED
        BY <3>1, <3>2
    <2>3. \A k \in 1 .. L + 5 : ((h \o m) \o c)[k] = IF k <= L + 4 THEN (h \o m)[k] ELSE c[k - (L + 4)]
      <3> DEFINE u == h \o m
      <3>1. \A k \in 1 .. Len(u) + Len(c) : (u \o c)[k] = IF k <= Len(u) THEN u[k] ELSE c[k - Len(u)]
        <4>1. u \in Seq(Byte) /\ c \in Seq(Byte)
          BY <2>1, <2>2
        <4> HIDE DEF u
        <4> QED
          BY <4>1, JoinedIs
      <3>2. Len(u) = L + 4 /\ Len(c) = 1 /\ (L + 4) + 1 = L + 5
        BY <1>1, <2>1, <2>2
      <3> HIDE DEF u
      <3>3. \A k \in 1 .. L + 5 : (u \o c)[k] = IF k <= L + 4 THEN u[k] ELSE c[k - (L + 4)]
        BY <3>1, <3>2
      <3> QED
        BY <3>3 DEF u
    <2>4. b = (h \o m) \o c
      BY DEF m, c
    <2> HIDE DEF b
    <2> SUFFICES ASSUME NEW k \in 1 .. L + 5
                 PROVE  b[k] = IF k <= 4 THEN h[k] ELSE IF k <= L + 4 THEN m[k - 4] ELSE r.check
      BY DEF m
    <2>5. CASE k <= L + 4
      <3>1. k \in 1 .. L + 4
        BY <1>1, <2>5
      <3> QED
        BY <2>2, <2>3, <2>4, <2>5, <3>1
    <2>6. CASE ~(k <= L + 4)
      <3>1. k - (L + 4) = 1 /\ ~(k <= 4)
        BY <1>1, <2>6
      <3> QED
        BY <2>1, <2>3, <2>4, <2>6, <3>1
    <2> QED
      BY <2>5, <2>6
  <1>5. b[2] = r.address \div 256 /\ b[3] = r.address % 256 /\ b[4] = r.type
    <2>1. h[2] = r.address \div 256 /\ h[3] = r.address % 256 /\ h[4] = r.type
      OBVIOUS
    <2> HIDE DEF b, h
    <2> QED
      BY <1>1, <1>4, <2>1
  <1>6. r.type = 2 => b[5] = r.bytes[1] /\ b[6] = r.bytes[2]
    <2> DEFINE m == r.bytes
               c == r.check
    <2> HIDE DEF b, h, m, c
    <2>1. \A k \in 1 .. L + 5 : b[k] = IF k <= 4 THEN h[k] ELSE IF k <= L + 4 THEN m[k - 4] ELSE c
      BY <1>4 DEF m, c
    <2>2. L = 2 => b[5] = m[1] /\ b[6] = m[2]
      <3> HIDE DEF L
      <3> QED
        BY <2>1
    <2> QED
      BY <1>1, <2>2 DEF m
  <1>7. t = [n \in 1 .. last |-> IF n = 1 THEN Colon ELSE IF n = last THEN NewLine ELSE Hex(n)]
    BY DEF Texts, Text
  <1>8. last = 12 + 2 * L
    BY <1>1, <1>3
  <1> HIDE DEF b, last, t, L
  <1>9. \A n \in 2 .. last - 1 : t[n] = Hex(n) /\ n \div 2 \in 1 .. L + 5
    <2>1. last \in Int /\ last >= 12
      BY <1>1, <1>8
    <2> SUFFICES ASSUME NEW n \in 2 .. last - 1 PROVE t[n] = Hex(n) /\ n \div 2 \in 1 .. L + 5
      OBVIOUS
    <2>2. n \in 1 .. last /\ n # 1 /\ n # last
      BY <2>1
    <2>3. n \div 2 \in 1 .. L + 5
      BY <1>1, <1>8
    <2> HIDE DEF Hex
    <2>4. t[n] = Hex(n)
      BY <1>7, <2>2
    <2> QED
      BY <2>3, <2>4
  <1>10. \A n \in 2 .. last - 1 : t[n] \in 0 .. 15
    <2> SUFFICES ASSUME NEW n \in 2 .. last - 1 PROVE t[n] \in 0 .. 15
      OBVIOUS
    <2> DEFINE x == b[n \div 2]
    <2>1. x \in Byte
      BY <1>3, <1>9
    <2>2. t[n] = IF n % 2 = 0 THEN x \div 16 ELSE x % 16
      BY <1>9
    <2> HIDE DEF x
    <2> QED
      BY <2>1, <2>2, ByteIs
  <1>11. t[1] = Colon /\ t[last] = NewLine /\ last >= 12 /\ last \in Int
    <2>1. last \in Int /\ last >= 12 /\ 1 \in 1 .. last /\ last \in 1 .. last /\ last # 1
      BY <1>1, <1>8
    <2> QED
      BY <1>7, <2>1
  <1>12. t \in Seq(Int) /\ Len(t) = last
    <2>1. \A n \in 1 .. last : t[n] \in Int
      <3>1. \A n \in 1 .. last : n = 1 \/ n = last \/ n \in 2 .. last - 1
        BY <1>11
      <3>2. t[1] \in Int /\ t[last] \in Int
        BY <1>11 DEF Colon, NewLine
      <3>3. \A n \in 2 .. last - 1 : t[n] \in Int
        BY <1>10
      <3> QED
        BY <3>1, <3>2, <3>3
    <2>2. DOMAIN t = 1 .. last /\ t = [n \in 1 .. last |-> t[n]] /\ last \in Nat
      BY <1>7, <1>11
    <2> QED
      BY <2>1, <2>2
  <1>13. /\ t[4] = b[2] \div 16 /\ t[5] = b[2] % 16 /\ t[6] = b[3] \div 16 /\ t[7] = b[3] % 16
         /\ t[8] = b[4] \div 16 /\ t[9] = b[4] % 16
         /\ t[10] = b[5] \div 16 /\ t[11] = b[5] % 16
    BY <1>9, <1>11
  <1>14. last = 16 => t[12] = b[6] \div 16 /\ t[13] = b[6] % 16
    BY <1>9
  <1>15. last = 12 + 2 * Len(r.bytes) /\ (r.type = 2 => last = 16)
    <2>1. last = 12 + 2 * L /\ (r.type = 2 => L = 2)
      BY <1>1, <1>8
    <2>2. L = Len(r.bytes)
      BY DEF L
    <2>3. last = 12 + 2 * L /\ (r.type = 2 => last = 16)
      BY <2>1
    <2> QED
      BY <2>2, <2>3
  <1>16. /\ t[4] = (r.address \div 256) \div 16 /\ t[5] = (r.address \div 256) % 16
         /\ t[6] = (r.address % 256) \div 16 /\ t[7] = (r.address % 256) % 16
         /\ t[8] = r.type \div 16 /\ t[9] = r.type % 16
    BY <1>5, <1>13
  <1>17. r.type = 2 => /\ t[10] = r.bytes[1] \div 16 /\ t[11] = r.bytes[1] % 16
                       /\ t[12] = r.bytes[2] \div 16 /\ t[13] = r.bytes[2] % 16
    BY <1>6, <1>13, <1>14, <1>15
  <1> QED
    BY <1>10, <1>11, <1>12, <1>15, <1>16, <1>17, Zenon DEF t

\* the length of a line
LEMMA LengthIs ==
    ASSUME NEW i \in 1 .. Len(HexFile)
    PROVE  /\ Texts[i] \in Seq(Int) /\ Len(Texts[i]) \in Int /\ Len(Texts[i]) >= 12
           /\ HexFile[i].type = 2 => Len(Texts[i]) = 16
  <1> DEFINE r == HexFile[i]
             last == 12 + 2 * Len(r.bytes)
  <1>1. /\ Texts[i] \in Seq(Int) /\ Len(Texts[i]) = last /\ last \in Int /\ last >= 12
        /\ r.type = 2 => last = 16
    BY TextIs
  <1> HIDE DEF last
  <1> QED
    BY <1>1

\* what or does where the segment has none of the lower bits
LEMMA OrIs ==
    ASSUME NEW address \in Int, NEW segment \in Int
    PROVE  /\ Or(address, segment) \in Int
           /\ Aligned(segment) => Or(address, segment) = address + segment
  <1> DEFINE N == 16
             low == segment % 65536
             c == address + (segment - low)
             Lacks(n) == (low \div Bits[n]) % 2 > (address \div Bits[n]) % 2
             Step(n, x) == IF Lacks(n) THEN x + Bits[n] ELSE x
             H == [y \in (1 .. N) \X Int |-> Step(y[1], y[2])]
             R(f) == [n \in 0 .. 16 |-> IF n = 0 THEN c
                                        ELSE IF Lacks(n) THEN f[n - 1] + Bits[n] ELSE f[n - 1]]
  <1>1. low \in Int /\ c \in Int
    OBVIOUS
  <1>2. \A n \in 1 .. 16 : Bits[n] \in Nat \ {0}
    BY DEF Bits
  <1>3. \A n \in 1 .. 16, x \in Int : Step(n, x) \in Int
    <2> HIDE DEF Lacks
    <2> QED
      BY <1>2
  <1> HIDE DEF Step
  <1>4. ASSUME NEW n \in 0 + 1 .. N, NEW x \in Int PROVE H[<<n, x>>] = Step(n, x) /\ Step(n, x) \in Int
    <2>1. n \in 1 .. 16 /\ <<n, x>> \in (1 .. N) \X Int /\ <<n, x>>[1] = n /\ <<n, x>>[2] = x
      OBVIOUS
    <2>2. H[<<n, x>>] = Step(n, x)
      BY <2>1
    <2> QED
      BY <1>3, <2>1, <2>2
  <1> HIDE DEF H, Lacks, c
  <1>5. \A n \in 0 + 1 .. N, x \in Int : H[<<n, x>>] \in Int
    BY <1>4
  <1>6. PICK f \in [0 .. N -> Int] : IsRecursive(0, N, c, H, f)
    <2>1. N \in Int /\ 0 \in Int /\ c \in Int
      BY <1>1
    <2> HIDE DEF N
    <2> QED
      BY <1>5, <2>1, RecursionExists
  <1>7. f = R(f)
    <2>1. ASSUME NEW n \in 0 .. 16 PROVE f[n] = R(f)[n]
      <3>1. CASE n = 0
        BY <1>6, <3>1 DEF IsRecursive
      <3>2. CASE n # 0
        <4>1. n \in 0 + 1 .. 16 /\ n - 1 \in 0 .. 16 /\ f[n - 1] \in Int
          BY <3>2
        <4>2. f[n] = H[<<n, f[n - 1]>>]
          BY <1>6, <3>2 DEF IsRecursive
        <4>3. f[n] = Step(n, f[n - 1])
          BY <1>4, <4>1, <4>2
        <4> QED
          BY <3>2, <4>3 DEF Step
      <3> QED
        BY <3>1, <3>2
    <2> QED
      BY <2>1
  <1> DEFINE s == CHOOSE g : g = R(g)
  <1>8. s = R(s)
    <2> HIDE DEF R
    <2> QED
      BY <1>7
  <1>9. Or(address, segment) = s[16]
    BY DEF Or, Lacks, c
  <1> HIDE DEF s
  <1>10. \A n \in 0 .. 16 : s[n] = IF n = 0 THEN c ELSE IF Lacks(n) THEN s[n - 1] + Bits[n] ELSE s[n - 1]
    BY <1>8
  <1> DEFINE A == {n \in 0 .. 16 : s[n] \in Int}
             B == {n \in 0 .. 16 : s[n] = c}
  <1>11. 0 \in A /\ 0 \in B
    BY <1>1, <1>10
  <1>12. ASSUME NEW n \in 0 .. 15
         PROVE  s[n + 1] = IF Lacks(n + 1) THEN s[n] + Bits[n + 1] ELSE s[n]
    <2>1. n + 1 \in 0 .. 16 /\ n + 1 # 0 /\ (n + 1) - 1 = n
      OBVIOUS
    <2> QED
      BY <1>10, <2>1
  <1>13. s[16] \in Int
    <2>1. ASSUME NEW n \in 0 .. 16 - 1, n \in A PROVE n + 1 \in A
      <3>1. n \in 0 .. 15 /\ n + 1 \in 0 .. 16 /\ n + 1 \in 1 .. 16
        OBVIOUS
      <3>2. s[n] \in Int /\ Bits[n + 1] \in Int
        BY <1>2, <2>1, <3>1
      <3> QED
        BY <1>12, <3>1, <3>2
    <2>2. 0 .. 16 \subseteq A
      <3> HIDE DEF A
      <3> QED
        BY <1>11, <2>1, UpFrom
    <2> QED
      BY <2>2
  <1>14. ASSUME low = 0 PROVE s[16] = address + segment
    <2>1. ASSUME NEW n \in 1 .. 16 PROVE ~Lacks(n)
      <3> DEFINE p == Bits[n]
      <3>1. p \in Nat \ {0}
        BY <1>2
      <3> HIDE DEF p
      <3>2. 0 \div p = 0
        BY <3>1
      <3>3. (0 \div p) % 2 = 0
        BY <3>2
      <3> DEFINE z == address \div p
      <3>4. z \in Int
        BY <3>1
      <3> HIDE DEF z
      <3>5. z % 2 \in 0 .. 1
        BY <3>4
      <3>6. ~((0 \div p) % 2 > z % 2)
        BY <3>3, <3>5
      <3> QED
        BY <1>14, <3>6 DEF Lacks, p, z
    <2>2. ASSUME NEW n \in 0 .. 16 - 1, n \in B PROVE n + 1 \in B
      <3>1. n \in 0 .. 15 /\ n + 1 \in 0 .. 16 /\ n + 1 \in 1 .. 16
        OBVIOUS
      <3> QED
        BY <1>12, <2>1, <2>2, <3>1
    <2>3. 0 .. 16 \subseteq B
      <3> HIDE DEF B
      <3> QED
        BY <1>11, <2>2, UpFrom
    <2>4. s[16] = c
      BY <2>3
    <2> QED
      BY <1>14, <2>4 DEF c
  <1> QED
    BY <1>9, <1>13, <1>14 DEF Aligned

-----------------------------------------------------------------------------
(* Serial boot loader: one digit *)

\* a number of 16 bits
LEMMA Shifted16Is ==
    ASSUME NEW x \in Int, NEW d \in 0 .. 15
    PROVE  Shifted16(x, d) \in Int
  BY DEF Shifted16

\* the locals one by one
LEMMA LocalsAre ==
    ASSUME NEW h \in Locals
    PROVE  /\ h.state \in 0 .. 21 /\ h.address \in Int /\ h.record_type \in Int
           /\ h.segment \in Int /\ h.data \in Seq(Int)
  BY DEF Locals, Numbers, States

\* one digit, by the state it is taken in
LEMMA DigitIs ==
    ASSUME NEW d \in 0 .. 15, hex \in Locals, Digit(d)
    PROVE  /\ hex.state = 0 => hex' = hex /\ memory' = memory
           /\ hex.state \in 1 .. 2 => hex' = [hex EXCEPT !.state = @ + 1] /\ memory' = memory
           /\ hex.state \in 3 .. 6 => AddressDigit(d) /\ memory' = memory
           /\ hex.state \in 7 .. 8 => TypeDigit(d) /\ memory' = memory
           /\ hex.state \in 9 .. 12 => SegmentDigit(d) /\ memory' = memory
           /\ hex.state = 13 => ScaleSegment /\ memory' = memory
           /\ hex.state \in 14 .. 21 => DataDigit(d)
  <1> DEFINE s == hex.state
  <1>1. s \in 0 .. 21
    BY LocalsAre
  <1> HIDE DEF s
  <1> QED
    BY <1>1 DEF Digit, s

\* the locals after a digit that is one of the header
LEMMA HeaderDigit ==
    ASSUME NEW d \in 0 .. 15, hex \in Locals, Digit(d), hex.state \in 1 .. 8
    PROVE  /\ hex' \in Locals /\ memory' = memory /\ hex'.segment = hex.segment
           /\ hex.state < 8 => hex'.state = hex.state + 1
           /\ hex.state \in 3 .. 6 => hex'.address = Or(Shifted16(hex.address, d), hex.segment)
           /\ hex.state \notin 3 .. 6 => hex'.address = hex.address
           /\ hex.state \in 7 .. 8 => hex'.record_type = Shifted8(hex.record_type, d)
           /\ hex.state = 8 => hex'.state = StateOfType(Shifted8(hex.record_type, d))
  <1> DEFINE s == hex.state
  <1>1. s \in 0 .. 21 /\ hex.address \in Int /\ hex.record_type \in Int /\ hex.segment \in Int
    BY LocalsAre
  <1>2. CASE s \in 1 .. 2
    <2>1. hex' = [hex EXCEPT !.state = @ + 1] /\ memory' = memory
      BY <1>2, DigitIs
    <2>2. s + 1 \in States
      BY <1>2 DEF States
    <2> QED
      BY <1>2, <2>1, <2>2 DEF Locals
  <1>3. CASE s \in 3 .. 6
    <2> DEFINE a == Or(Shifted16(hex.address, d), hex.segment)
    <2>1. hex' = [hex EXCEPT !.address = a, !.state = @ + 1] /\ memory' = memory
      <3>1. AddressDigit(d) /\ memory' = memory
        BY <1>3, DigitIs
      <3> QED
        BY <3>1 DEF AddressDigit
    <2>2. s + 1 \in States
      BY <1>3 DEF States
    <2>4. a \in Int
      <3> DEFINE low == Shifted16(hex.address, d)
                 g   == hex.segment
      <3>1. Or(low, g) \in Int
        <4>1. low \in Int /\ g \in Int
          BY <1>1, Shifted16Is
        <4>2. \A x, y \in Int : Or(x, y) \in Int
          BY OrIs
        <4> HIDE DEF low, g
        <4> QED
          BY <4>1, <4>2, SMT
      <3> QED
        BY <3>1, SMT
    <2> HIDE DEF a
    <2>3. hex' \in Locals /\ hex'.segment = hex.segment /\ hex'.state = s + 1 /\ hex'.address = a
      BY <2>1, <2>2, <2>4 DEF Locals
    <2> QED
      BY <1>3, <2>1, <2>3 DEF a
  <1>4. CASE s \in 7 .. 8
    <2> DEFINE t == Shifted8(hex.record_type, d)
               n == IF s = 7 THEN 8 ELSE StateOfType(t)
    <2>1. hex' = [hex EXCEPT !.record_type = t, !.state = n] /\ memory' = memory
      <3>1. TypeDigit(d) /\ memory' = memory
        BY <1>4, DigitIs
      <3> QED
        BY <3>1 DEF TypeDigit
    <2>2. t \in Int
      BY <1>1 DEF Shifted8
    <2>3. n \in States /\ (s = 7 => n = s + 1) /\ (s = 8 => n = StateOfType(t))
      <3> HIDE DEF t
      <3>1. t = 0 \/ t = 2 \/ t \notin {0, 2}
        OBVIOUS
      <3>2. StateOfType(t) \in States /\ 8 \in States
        BY <3>1 DEF StateOfType, States
      <3> QED
        BY <3>2
    <2> HIDE DEF t, n
    <2>4. hex' \in Locals /\ hex'.segment = hex.segment /\ hex'.state = n /\ hex'.address = hex.address
          /\ hex'.record_type = t
      BY <2>1, <2>2, <2>3 DEF Locals
    <2> QED
      BY <1>4, <2>1, <2>3, <2>4 DEF t
  <1> QED
    BY <1>1, <1>2, <1>3, <1>4

\* the locals after a digit of a segment record
LEMMA SegmentDigitIs ==
    ASSUME NEW d \in 0 .. 15, hex \in Locals, Digit(d), hex.state \in 9 .. 13
    PROVE  /\ hex' \in Locals /\ memory' = memory
           /\ hex.state < 13 => /\ hex'.state = hex.state + 1
                                /\ hex'.segment = Shifted16(hex.segment, d)
           /\ hex.state = 13 => hex'.state = 0 /\ hex'.segment = hex.segment * 16
  <1> DEFINE s == hex.state
  <1>1. s \in 0 .. 21 /\ hex.segment \in Int
    BY LocalsAre
  <1>2. CASE s \in 9 .. 12
    <2> DEFINE g == Shifted16(hex.segment, d)
    <2>1. hex' = [hex EXCEPT !.segment = g, !.state = @ + 1] /\ memory' = memory
      <3>1. SegmentDigit(d) /\ memory' = memory
        BY <1>2, DigitIs
      <3> QED
        BY <3>1 DEF SegmentDigit
    <2>2. s + 1 \in States
      BY <1>2 DEF States
    <2>4. g \in Int
      BY <1>1, Shifted16Is
    <2> HIDE DEF g
    <2>3. hex' \in Locals /\ hex'.segment = g /\ hex'.state = s + 1
      BY <2>1, <2>2, <2>4 DEF Locals
    <2> QED
      BY <1>2, <2>1, <2>3 DEF g
  <1>3. CASE s = 13
    <2>1. hex' = [hex EXCEPT !.segment = @ * 16, !.state = 0] /\ memory' = memory
      BY <1>3, DigitIs DEF ScaleSegment
    <2>2. hex.segment * 16 \in Int /\ 0 \in States
      BY <1>1 DEF States
    <2> DEFINE g == hex.segment * 16
    <2>3. hex' = [hex EXCEPT !.segment = g, !.state = 0] /\ g \in Int
      BY <2>1, <2>2
    <2> HIDE DEF g
    <2>4. hex' \in Locals /\ hex'.state = 0 /\ hex'.segment = g
      BY <2>2, <2>3 DEF Locals
    <2> QED
      BY <1>3, <2>1, <2>4 DEF g
  <1> QED
    BY <1>1, <1>2, <1>3

\* the locals and the memory after a digit of data
LEMMA DataDigitIs ==
    ASSUME NEW d \in 0 .. 15, hex \in Locals, Digit(d), hex.state \in 14 .. 21
    PROVE  LET word == IF hex.state = 14 THEN <<d>> ELSE Append(hex.data, d) IN
           /\ hex' \in Locals /\ hex'.segment = hex.segment
           /\ hex.state < 21 => /\ hex'.state = hex.state + 1 /\ hex'.address = hex.address
                                /\ hex'.data = word /\ memory' = memory
           /\ hex.state = 21 => /\ hex'.state = 14 /\ hex'.address = hex.address + 4
                                /\ DOMAIN memory' = DOMAIN memory \cup {hex.address}
                                /\ memory'[hex.address] = word
                                /\ \A a \in DOMAIN memory : a # hex.address => memory'[a] = memory[a]
  <1> DEFINE s == hex.state
             word == IF s = 14 THEN <<d>> ELSE Append(hex.data, d)
  <1>1. s \in 0 .. 21 /\ hex.segment \in Int /\ hex.address \in Int /\ hex.data \in Seq(Int)
    BY LocalsAre
  <1>2. word \in Numbers
    <2>1. <<d>> \in Seq(Int) /\ Append(hex.data, d) \in Seq(Int)
      BY <1>1
    <2> QED
      BY <2>1 DEF Numbers
  <1>3. CASE s \in 14 .. 20
    <2>1. hex' = [hex EXCEPT !.data = word, !.state = @ + 1] /\ memory' = memory
      <3>1. DataDigit(d) /\ s # 21
        BY <1>3, DigitIs
      <3> QED
        BY <3>1 DEF DataDigit
    <2>2. s + 1 \in States
      BY <1>3 DEF States
    <2> HIDE DEF word
    <2>3. hex' \in Locals /\ hex'.segment = hex.segment /\ hex'.state = s + 1 /\ hex'.address = hex.address
          /\ hex'.data = word
      BY <1>2, <2>1, <2>2 DEF Locals
    <2> QED
      BY <1>3, <2>1, <2>3 DEF word
  <1>4. CASE s = 21
    <2>1. /\ memory' = [a \in DOMAIN memory \cup {hex.address} |-> IF a = hex.address THEN word ELSE memory[a]]
          /\ hex' = [hex EXCEPT !.data = <<>>, !.address = @ + 4, !.state = 14]
      <3>1. DataDigit(d)
        BY <1>4, DigitIs
      <3> QED
        BY <1>4, <3>1 DEF DataDigit
    <2>2. <<>> \in Numbers /\ hex.address + 4 \in Int /\ 14 \in States
      BY <1>1 DEF Numbers, States
    <2> HIDE DEF word
    <2>3. hex' \in Locals /\ hex'.segment = hex.segment /\ hex'.state = 14 /\ hex'.address = hex.address + 4
      BY <2>1, <2>2 DEF Locals
    <2>4. /\ DOMAIN memory' = DOMAIN memory \cup {hex.address}
          /\ memory'[hex.address] = word
          /\ \A a \in DOMAIN memory : a # hex.address => memory'[a] = memory[a]
      BY <2>1
    <2> QED
      BY <1>4, <2>3, <2>4 DEF word
  <1> QED
    BY <1>1, <1>3, <1>4

-----------------------------------------------------------------------------
(* Serial boot loader: the numbers of a line, digit by digit *)

\* what the n-th character of a line is
AddressDigitAt(d, a, n) ==
    /\ n = 4 => d = (a \div 256) \div 16
    /\ n = 5 => d = (a \div 256) % 16
    /\ n = 6 => d = (a % 256) \div 16
    /\ n = 7 => d = (a % 256) % 16

TypeDigitAt(d, t, n) ==
    /\ n = 8 => d = t \div 16
    /\ n = 9 => d = t % 16

SegmentDigitAt(d, b, c, n) ==
    /\ n = 10 => d = b \div 16
    /\ n = 11 => d = b % 16
    /\ n = 12 => d = c \div 16
    /\ n = 13 => d = c % 16

\* a line by its characters
LEMMA CharIs ==
    ASSUME NEW i \in 1 .. Len(HexFile), NEW n \in 2 .. Len(Texts[i]) - 1
    PROVE  LET r == HexFile[i]
               d == Texts[i][n]
           IN  /\ d \in 0 .. 15 /\ AddressDigitAt(d, r.address, n) /\ TypeDigitAt(d, r.type, n)
               /\ r.type = 2 => SegmentDigitAt(d, r.bytes[1], r.bytes[2], n)
  <1> DEFINE r == HexFile[i]
             t == Texts[i]
             d == t[n]
             a == r.address
             ty == r.type
             b == r.bytes[1]
             c == r.bytes[2]
             last == 12 + 2 * Len(r.bytes)
  <1>1. /\ Len(t) = last
        /\ \A m \in 2 .. last - 1 : t[m] \in 0 .. 15
        /\ t[4] = (a \div 256) \div 16 /\ t[5] = (a \div 256) % 16
        /\ t[6] = (a % 256) \div 16 /\ t[7] = (a % 256) % 16
        /\ t[8] = ty \div 16 /\ t[9] = ty % 16
        /\ ty = 2 => /\ t[10] = b \div 16 /\ t[11] = b % 16
                     /\ t[12] = c \div 16 /\ t[13] = c % 16
    BY TextIs
  <1> DEFINE a1 == (a \div 256) \div 16
             a2 == (a \div 256) % 16
             a3 == (a % 256) \div 16
             a4 == (a % 256) % 16
             t1 == ty \div 16
             t2 == ty % 16
             b1 == b \div 16
             b2 == b % 16
             c1 == c \div 16
             c2 == c % 16
  <1>2. d \in 0 .. 15
    <2>1. Len(t) = last /\ \A m \in 2 .. last - 1 : t[m] \in 0 .. 15
      BY <1>1
    <2> HIDE DEF last, t
    <2>2. n \in 2 .. last - 1
      BY <2>1 DEF t
    <2> QED
      BY <2>1, <2>2
  <1>3. /\ t[4] = a1 /\ t[5] = a2 /\ t[6] = a3 /\ t[7] = a4 /\ t[8] = t1 /\ t[9] = t2
        /\ ty = 2 => t[10] = b1 /\ t[11] = b2 /\ t[12] = c1 /\ t[13] = c2
    BY <1>1, SMT
  <1> HIDE DEF a1, a2, a3, a4, t1, t2, b1, b2, c1, c2, t
  <1>4. /\ n = 4 => d = a1
        /\ n = 5 => d = a2
        /\ n = 6 => d = a3
        /\ n = 7 => d = a4
        /\ n = 8 => d = t1
        /\ n = 9 => d = t2
        /\ ty = 2 => /\ n = 10 => d = b1
                     /\ n = 11 => d = b2
                     /\ n = 12 => d = c1
                     /\ n = 13 => d = c2
    <2> HIDE DEF ty
    <2> QED
      BY <1>3
  <1> QED
    BY <1>2, <1>4, SMT DEF AddressDigitAt, TypeDigitAt, SegmentDigitAt,
       a1, a2, a3, a4, t1, t2, b1, b2, c1, c2, t

\* numbers with the same lower bits, and the lower bits after a digit
SameLow(y, z) == z % 16 = y % 16 /\ z % 256 = y % 256 /\ z % 4096 = y % 4096

LowOf(x, d, y) ==
    /\ y % 16 = d
    /\ y % 256 = (x % 16) * 16 + d
    /\ y % 4096 = (x % 256) * 16 + d
    /\ y = (x % 4096) * 16 + d

\* a boundary changes nothing of the lower bits
LEMMA LowBits ==
    ASSUME NEW y \in Int, NEW base \in Int, Aligned(base)
    PROVE  SameLow(y, y + base)
  <1> DEFINE q == base \div 65536
  <1>1. q \in Int /\ base = 65536 * q
    BY DEF Aligned
  <1> HIDE DEF q
  <1>2. (y + base) % 16 = y % 16
    BY <1>1
  <1>3. (y + base) % 256 = y % 256
    BY <1>1
  <1>4. (y + base) % 4096 = y % 4096
    BY <1>1
  <1> QED
    BY <1>2, <1>3, <1>4 DEF SameLow

\* one more digit of a number
LEMMA Shifted16Has ==
    ASSUME NEW x \in Int, NEW d \in 0 .. 15
    PROVE  LowOf(x, d, Shifted16(x, d))
  <1> DEFINE y == Shifted16(x, d)
             q == (x * 16 + d) \div 65536
  <1>1. y \in Int /\ 0 <= y /\ y < 65536 /\ q \in Int /\ x * 16 + d = 65536 * q + y
    BY DEF Shifted16
  <1> HIDE DEF q, y
  <1>2. y % 16 = d
    BY <1>1
  <1>3. y % 256 = (x % 16) * 16 + d
    <2> DEFINE w == x % 16
               k == x \div 16
    <2>1. x = 16 * k + w /\ w \in 0 .. 15 /\ k \in Int
      OBVIOUS
    <2> HIDE DEF w, k
    <2>2. y = 256 * (k - 256 * q) + (w * 16 + d) /\ w * 16 + d \in 0 .. 255
      BY <1>1, <2>1
    <2>3. y % 256 = w * 16 + d
      BY <1>1, <2>1, <2>2
    <2> QED
      BY <2>3 DEF w
  <1>4. y % 4096 = (x % 256) * 16 + d
    <2> DEFINE w == x % 256
               k == x \div 256
    <2>1. x = 256 * k + w /\ w \in 0 .. 255 /\ k \in Int
      OBVIOUS
    <2> HIDE DEF w, k
    <2>2. y = 4096 * (k - 16 * q) + (w * 16 + d) /\ w * 16 + d \in 0 .. 4095
      BY <1>1, <2>1
    <2>3. y % 4096 = w * 16 + d
      BY <1>1, <2>1, <2>2
    <2> QED
      BY <2>3 DEF w
  <1>5. y = (x % 4096) * 16 + d
    BY <1>1
  <1> QED
    BY <1>2, <1>3, <1>4, <1>5, SMT DEF LowOf, y

\* the segment after one more digit
LEMMA NextSegment ==
    ASSUME NEW x \in Int, NEW b \in Byte, NEW c \in Byte, NEW n \in 10 .. 13,
           NEW d \in 0 .. 15, SegmentDigitAt(d, b, c, n), SegmentRead(x, b, c, n)
    PROVE  SegmentRead(Shifted16(x, d), b, c, n + 1)
  <1> DEFINE y == Shifted16(x, d)
  <1>1. y % 16 = d /\ y % 256 = (x % 16) * 16 + d /\ y % 4096 = (x % 256) * 16 + d /\ y = (x % 4096) * 16 + d
    <2>1. LowOf(x, d, y)
      BY Shifted16Has
    <2> HIDE DEF y
    <2> QED
      BY <2>1, SMT DEF LowOf
  <1> HIDE DEF y
  <1>2. b \in Nat /\ c \in Nat
    BY ByteIs
  <1>3. n = 10 => y % 16 = b \div 16
    BY <1>1 DEF SegmentDigitAt
  <1>4. n = 11 => y % 256 = b
    BY <1>1, <1>2 DEF SegmentDigitAt, SegmentRead
  <1>5. n = 12 => y % 4096 = 16 * b + c \div 16
    BY <1>1, <1>2 DEF SegmentDigitAt, SegmentRead
  <1>6. n = 13 => y = 256 * b + c
    BY <1>1, <1>2 DEF SegmentDigitAt, SegmentRead
  <1> QED
    BY <1>3, <1>4, <1>5, <1>6 DEF SegmentRead, y

\* the type after one more digit
LEMMA NextType ==
    ASSUME NEW x \in Int, NEW t \in Byte, NEW n \in 8 .. 9,
           NEW d \in 0 .. 15, TypeDigitAt(d, t, n), TypeRead(x, t, n)
    PROVE  TypeRead(Shifted8(x, d), t, n + 1) /\ (n = 9 => Shifted8(x, d) = t)
  <1>1. t \in Nat /\ t < 256
    BY ByteIs
  <1>2. n = 8 => ((x * 16 + d) % 256) % 16 = t \div 16
    BY <1>1 DEF TypeDigitAt
  <1>3. n = 9 => (x * 16 + d) % 256 = t
    <2>1. (x * 16 + d) % 256 = (x % 16) * 16 + d
      OBVIOUS
    <2> QED
      BY <1>1, <2>1 DEF TypeDigitAt, TypeRead
  <1> QED
    BY <1>2, <1>3 DEF TypeRead, Shifted8

\* the address after one more digit
LEMMA NextAddress ==
    ASSUME NEW x \in Int, NEW a \in Short, NEW base \in Int, Aligned(base), NEW n \in 4 .. 7,
           NEW d \in 0 .. 15, AddressDigitAt(d, a, n), AddressRead(x, a, base, n)
    PROVE  AddressRead(Or(Shifted16(x, d), base), a, base, n + 1)
  <1> DEFINE y == Shifted16(x, d)
             z == Or(y, base)
  <1>1. y % 16 = d /\ y % 256 = (x % 16) * 16 + d /\ y % 4096 = (x % 256) * 16 + d /\ y = (x % 4096) * 16 + d
    <2>1. LowOf(x, d, y)
      BY Shifted16Has
    <2> HIDE DEF y
    <2> QED
      BY <2>1, SMT DEF LowOf
  <1>2. z = y + base /\ y \in Int
    <2>1. y \in Int
      BY Shifted16Is
    <2> HIDE DEF y
    <2> QED
      BY <2>1, OrIs
  <1>3. z % 16 = y % 16 /\ z % 256 = y % 256 /\ z % 4096 = y % 4096
    <2> HIDE DEF y
    <2>1. SameLow(y, y + base)
      BY <1>2, LowBits
    <2> HIDE DEF z
    <2>2. SameLow(y, z)
      BY <1>2, <2>1
    <2> QED
      BY <2>2, SMT DEF SameLow
  <1> HIDE DEF y, z
  <1>4. n = 4 => z % 16 = a \div 4096
    <2>1. (a \div 256) \div 16 = a \div 4096
      BY DEF Short
    <2> QED
      BY <1>1, <1>3, <2>1 DEF AddressDigitAt
  <1>5. n = 5 => z % 256 = a \div 256
    <2> DEFINE u == a \div 4096
               val == (a \div 256) % 16
               w == a \div 256
               p == x % 16
    <2>1. u * 16 + val = w
      BY DEF Short
    <2>2. z % 256 = p * 16 + d
      BY <1>1, <1>3
    <2>3. n = 5 => p = u /\ d = val
      BY DEF AddressDigitAt, AddressRead
    <2>4. u \in Int /\ val \in Int
      BY DEF Short
    <2> HIDE DEF u, val, w, p
    <2>5. n = 5 => z % 256 = w
      BY <2>1, <2>2, <2>3, <2>4
    <2> QED
      BY <2>5 DEF w
  <1>6. n = 6 => z % 4096 = a \div 16
    <2>1. (a \div 256) * 16 + (a % 256) \div 16 = a \div 16
      BY DEF Short
    <2> QED
      BY <1>1, <1>3, <2>1 DEF AddressDigitAt, AddressRead
  <1>7. n = 7 => z = base + a
    <2>1. (a \div 16) * 16 + ((a % 256) % 16) = a
      BY DEF Short
    <2> QED
      BY <1>1, <1>2, <2>1 DEF AddressDigitAt, AddressRead
  <1> QED
    BY <1>4, <1>5, <1>6, <1>7 DEF AddressRead, y, z

\* what is known of a line that is being read
LineKnown(i, n) ==
    /\ hex \in Locals /\ history.base \in Int /\ history'.base = history.base
    /\ history.base # Unknown => Aligned(history.base)
    /\ HexFile[i].type # 2 /\ history.base # Unknown => hex.segment = history.base
    /\ Parsed(i, HexFile[i], n) /\ Digit(Texts[i][n])

\* the type and the address, when a digit of the header comes
LEMMA HeaderStep ==
    ASSUME NEW i \in 1 .. Len(HexFile), NEW n \in 2 .. 9, LineKnown(i, n)
    PROVE  /\ Parsed(i, HexFile[i], n + 1)' /\ hex' \in Locals /\ memory' = memory
           /\ hex'.segment = hex.segment
  <1> DEFINE r == HexFile[i]
             d == Texts[i][n]
             s == hex.state
             x == hex.address
             g == hex.segment
             m == hex.record_type
             m1 == Shifted8(m, d)
             a == r.address
             ty == r.type
             b == r.bytes[1]
             c == r.bytes[2]
             base == history.base
             known == base # Unknown /\ ty # 2
  <1>1. /\ hex \in Locals /\ base \in Int /\ history'.base = base
        /\ base # Unknown => Aligned(base)
        /\ known => g = base
        /\ Parsed(i, r, n) /\ Digit(d)
    BY DEF LineKnown
  <1>2. d \in 0 .. 15 /\ AddressDigitAt(d, a, n) /\ TypeDigitAt(d, ty, n)
    <2>1. n \in 2 .. Len(Texts[i]) - 1
      <3>1. Len(Texts[i]) >= 12 /\ Len(Texts[i]) \in Int
        BY LengthIs
      <3> QED
        BY <3>1
    <2> QED
      BY <2>1, CharIs
  <1>3. a \in Short /\ ty \in Byte
    BY RecordIs
  <1>4. /\ s = n - 1
        /\ TypeRead(m, ty, n)
        /\ known => AddressRead(x, a, base, n)
    BY <1>1 DEF Parsed, StateAt
  <1>5. x \in Int /\ m \in Int /\ g \in Int
    BY <1>1, LocalsAre
  <1>6. /\ hex' \in Locals /\ memory' = memory /\ hex'.segment = g
        /\ s < 8 => hex'.state = s + 1
        /\ s \in 3 .. 6 => hex'.address = Or(Shifted16(x, d), g)
        /\ s \notin 3 .. 6 => hex'.address = x
        /\ s \in 7 .. 8 => hex'.record_type = m1
        /\ s = 8 => hex'.state = StateOfType(m1)
    <2>1. s \in 1 .. 8
      BY <1>4
    <2> HIDE DEF d
    <2> QED
      BY <1>1, <1>2, <2>1, HeaderDigit
  <1>7. n \in 8 .. 9 => TypeRead(m1, ty, n + 1) /\ (n = 9 => m1 = ty)
    <2> HIDE DEF d, m, ty
    <2> QED
      BY <1>2, <1>3, <1>4, <1>5, NextType
  <1>8. known /\ n \in 4 .. 7 => AddressRead(Or(Shifted16(x, d), base), a, base, n + 1)
    <2> HIDE DEF d, x, a, base
    <2> QED
      BY <1>1, <1>2, <1>3, <1>4, <1>5, NextAddress
  <1> DEFINE h == hex'
             x1 == h.address
             y1 == h.record_type
  <1> HIDE DEF r, d, s, x, g, m, m1, a, ty, b, c, base, h, x1, y1
  <1>9. h.state = IF n + 1 <= 9 THEN n ELSE StateOfType(ty)
    BY <1>4, <1>6, <1>7 DEF h
  <1>10. StateAt(r, n + 1) = IF n + 1 <= 9 THEN n ELSE StateOfType(ty)
    <2>1. n + 1 <= 9 => StateAt(r, n + 1) = n
      BY DEF StateAt
    <2>2. n = 9 => StateAt(r, n + 1) = StateOfType(ty)
      BY <1>3 DEF StateAt, StateOfType, ty, Byte
    <2> QED
      BY <2>1, <2>2
  <1>11. TypeRead(y1, ty, n + 1)
    <2>1. n \notin 8 .. 9 => TypeRead(y1, ty, n + 1)
      BY DEF TypeRead
    <2>2. n \in 8 .. 9 => y1 = m1
      BY <1>4, <1>6 DEF h, y1
    <2> QED
      BY <1>7, <2>1, <2>2
  <1>12. known => AddressRead(x1, a, base, n + 1)
    <2>1. n \in 4 .. 7 => x1 = Or(Shifted16(x, d), g)
      BY <1>4, <1>6 DEF h, x1
    <2>2. n \in 2 .. 3 => AddressRead(x1, a, base, n + 1)
      BY DEF AddressRead
    <2>3. n = 8 /\ known => AddressRead(x1, a, base, n + 1)
      <3>1. n = 8 => x1 = x
        BY <1>4, <1>6 DEF h, x1
      <3> QED
        BY <1>4, <3>1 DEF AddressRead
    <2>4. n = 9 => AddressRead(x1, a, base, n + 1)
      BY DEF AddressRead
    <2>5. n \in 4 .. 7 /\ known => AddressRead(x1, a, base, n + 1)
      BY <1>1, <1>8, <2>1
    <2> QED
      BY <2>2, <2>3, <2>4, <2>5
  <1>13. ty = 2 => SegmentRead(h.segment, b, c, n + 1)
    BY DEF SegmentRead
  <1>14. known /\ ty = 0 /\ n + 1 >= 10 => DataRead(i, n + 1)'
    <2> SUFFICES ASSUME known, ty = 0, n = 9 PROVE DataRead(i, 10)'
      OBVIOUS
    <2>1. x1 = base + a
      <3>1. x1 = x
        BY <1>4, <1>6 DEF h, x1
      <3> QED
        BY <1>4, <3>1 DEF AddressRead
    <2>2. (10 - 10) \div 8 = 0 /\ (10 - 10) % 8 = 0
      OBVIOUS
    <2>3. WordAddress(i, 0, base) = base + a
      BY <1>1, <1>3 DEF WordAddress, a, r, Short
    <2>4. 0 .. 0 - 1 = {}
      OBVIOUS
    <2> QED
      BY <1>1, <2>1, <2>2, <2>3, <2>4 DEF DataRead, base, h, x1
  <1>15. Parsed(i, r, n + 1)'
    <2>1. /\ h.state = StateAt(r, n + 1)
          /\ TypeRead(h.record_type, r.type, n + 1)
          /\ r.type = 2 => SegmentRead(h.segment, r.bytes[1], r.bytes[2], n + 1)
          /\ base # Unknown /\ r.type # 2 => AddressRead(h.address, r.address, base, n + 1)
      BY <1>9, <1>10, <1>11, <1>12, <1>13 DEF a, ty, b, c, x1, y1
    <2>2. base # Unknown /\ r.type = 0 /\ n + 1 >= 10 => DataRead(i, n + 1)'
      BY <1>14 DEF ty
    <2> QED
      BY <1>1, <2>1, <2>2 DEF Parsed, base, h, r
  <1> QED
    BY <1>6, <1>15 DEF r, g, h

\* a part of a sequence grows at its end
LEMMA PartGrows ==
    ASSUME NEW S, NEW t \in Seq(S), NEW m \in 1 .. Len(t), NEW n \in m .. Len(t)
    PROVE  SubSeq(t, m, n) = IF n = m THEN <<t[n]>> ELSE Append(SubSeq(t, m, n - 1), t[n])
  <1> DEFINE u == SubSeq(t, m, n)
             val == SubSeq(t, m, n - 1)
             w == IF n = m THEN <<t[n]>> ELSE Append(val, t[n])
  <1>1. Len(t) \in Nat /\ m \in Int /\ n \in Int /\ 1 <= m /\ m <= n /\ n <= Len(t) /\ t[n] \in S
    OBVIOUS
  <1>2. u \in Seq(S) /\ Len(u) = n - m + 1 /\ \A k \in 1 .. n - m + 1 : u[k] = t[m + k - 1]
    BY <1>1
  <1>3. w \in Seq(S) /\ Len(w) = n - m + 1 /\ \A k \in 1 .. n - m + 1 : w[k] = t[m + k - 1]
    <2>1. CASE n = m
      <3>1. <<t[n]>> \in Seq(S) /\ Len(<<t[n]>>) = 1 /\ <<t[n]>>[1] = t[n]
        BY <1>1
      <3>2. n - m + 1 = 1 /\ \A k \in 1 .. n - m + 1 : k = 1 /\ m + k - 1 = n
        BY <1>1, <2>1
      <3> QED
        BY <2>1, <3>1, <3>2
    <2>2. CASE n # m
      <3>1. val \in Seq(S) /\ Len(val) = n - m /\ \A k \in 1 .. n - m : val[k] = t[m + k - 1]
        BY <1>1, <2>2
      <3> DEFINE x == Append(val, t[n])
      <3> HIDE DEF val
      <3>2. x \in Seq(S) /\ Len(x) = n - m + 1
        BY <1>1, <3>1
      <3>3. ASSUME NEW k \in 1 .. n - m + 1 PROVE x[k] = t[m + k - 1]
        <4>1. k <= n - m => x[k] = val[k] /\ k \in 1 .. n - m
          BY <1>1, <3>1
        <4>2. ~(k <= n - m) => k = Len(val) + 1 /\ m + k - 1 = n
          <5>1. Len(val) = n - m
            BY <3>1
          <5>2. ~(k <= n - m) => k = (n - m) + 1
            BY <1>1
          <5> QED
            BY <1>1, <5>1, <5>2
        <4>3. x[Len(val) + 1] = t[n]
          <5>1. val \in Seq(S) /\ t[n] \in S
            BY <1>1, <3>1
          <5> QED
            BY <5>1
        <4> QED
          BY <3>1, <4>1, <4>2, <4>3
      <3> HIDE DEF x
      <3> QED
        BY <2>2, <3>2, <3>3 DEF x
    <2> QED
      BY <2>1, <2>2
  <1> HIDE DEF u, w
  <1>4. u = w
    <2>1. \A k \in 1 .. Len(u) : u[k] = w[k]
      BY <1>2, <1>3
    <2> QED
      BY <1>2, <1>3, <2>1, SeqEqual
  <1> QED
    BY <1>4 DEF u, w

\* the place of the next digit in its word
LEMMA NextPlace ==
    ASSUME NEW n \in Nat, n >= 10
    PROVE  LET q == (n - 10) \div 8
               e == (n - 10) % 8
           IN  /\ q \in Nat /\ e \in 0 .. 7 /\ n = 10 + 8 * q + e
               /\ e < 7 => (n + 1 - 10) \div 8 = q /\ (n + 1 - 10) % 8 = e + 1
               /\ e = 7 => (n + 1 - 10) \div 8 = q + 1 /\ (n + 1 - 10) % 8 = 0
  OBVIOUS

\* one more digit of the data
LEMMA DataStep ==
    ASSUME NEW i \in 1 .. Len(HexFile), NEW n \in 10 .. Len(Texts[i]) - 1, LineKnown(i, n),
           HexFile[i].type = 0
    PROVE  /\ Parsed(i, HexFile[i], n + 1)' /\ hex' \in Locals /\ hex'.segment = hex.segment
  <1> DEFINE r == HexFile[i]
             t == Texts[i]
             d == t[n]
             base == history.base
             q == (n - 10) \div 8
             e == (n - 10) % 8
             s == hex.state
             word == IF s = 14 THEN <<d>> ELSE Append(hex.data, d)
             A(k) == WordAddress(i, k, base)
             W(k) == WordOf(i, k)
             P(m, k) == SubSeq(t, 10 + 8 * k, m)
  <1>1. /\ hex \in Locals /\ base \in Int /\ history'.base = base
        /\ Parsed(i, r, n) /\ Digit(d)
    BY DEF LineKnown
  <1>2. d \in 0 .. 15 /\ t \in Seq(Int) /\ Len(t) \in Int /\ r.address \in Int
    <2>1. n \in 2 .. Len(t) - 1
      BY LengthIs
    <2>2. r.address \in Int
      BY RecordIs DEF Short
    <2> QED
      BY <2>1, <2>2, LengthIs, CharIs
  <1>3. /\ n \in Nat /\ q \in Nat /\ e \in 0 .. 7 /\ n = 10 + 8 * q + e
        /\ e < 7 => (n + 1 - 10) \div 8 = q /\ (n + 1 - 10) % 8 = e + 1
        /\ e = 7 => (n + 1 - 10) \div 8 = q + 1 /\ (n + 1 - 10) % 8 = 0
    <2>1. n \in Nat /\ n >= 10
      BY <1>2
    <2> HIDE DEF q, e
    <2> QED
      BY <2>1, NextPlace DEF q, e
  <1>4. s = 14 + e /\ (base # Unknown => DataRead(i, n))
    BY <1>1, <1>3 DEF Parsed, StateAt
  <1>10. n + 1 > 10 /\ StateAt(r, n + 1) = 14 + ((n + 1 - 10) % 8)
    <2> DEFINE m == n + 1
    <2>1. m \in Int /\ m > 10
      BY <1>3
    <2> HIDE DEF m
    <2>2. StateAt(r, m) = 14 + ((m - 10) % 8)
      BY <2>1 DEF StateAt
    <2> QED
      BY <2>1, <2>2 DEF m
  <1> HIDE DEF q, e
  <1>5. /\ hex' \in Locals /\ hex'.segment = hex.segment
        /\ s < 21 => /\ hex'.state = s + 1 /\ hex'.address = hex.address
                     /\ hex'.data = word /\ memory' = memory
        /\ s = 21 => /\ hex'.state = 14 /\ hex'.address = hex.address + 4
                     /\ DOMAIN memory' = DOMAIN memory \cup {hex.address}
                     /\ memory'[hex.address] = word
                     /\ \A a \in DOMAIN memory : a # hex.address => memory'[a] = memory[a]
    <2>1. s \in 14 .. 21
      BY <1>3, <1>4
    <2> HIDE DEF d
    <2> QED
      BY <1>1, <1>2, <2>1, DataDigitIs
  <1>6. StateAt(r, n + 1) = hex'.state
    <2> DEFINE e1 == (n + 1 - 10) % 8
               h == hex'.state
    <2>2. (e < 7 => e1 = e + 1) /\ (e = 7 => e1 = 0) /\ e \in 0 .. 7 /\ s = 14 + e
      BY <1>3, <1>4
    <2>3. (s < 21 => h = s + 1) /\ (s = 21 => h = 14)
      BY <1>5
    <2> HIDE DEF e1, s, h
    <2>4. 14 + e1 = h
      BY <2>2, <2>3
    <2> QED
      BY <1>10, <2>4 DEF e1, h
  <1>7. ASSUME base # Unknown PROVE DataRead(i, n + 1)'
    <2>1. /\ hex.address = A(q)
          /\ e # 0 => hex.data = P(n - 1, q)
          /\ \A k \in 0 .. q - 1 : A(k) \in DOMAIN memory /\ memory[A(k)] = W(k)
      BY <1>4, <1>7 DEF DataRead, q, e
    <2>2. word = P(n, q)
      <3> DEFINE m == 10 + 8 * q
                 last == Len(t)
      <3>1. m \in 1 .. last /\ n \in m .. last
        <4>1. last \in Int /\ n <= last /\ q \in Nat /\ e \in 0 .. 7 /\ n = 10 + 8 * q + e
          BY <1>2, <1>3
        <4> HIDE DEF last
        <4> QED
          BY <4>1
      <3>2. SubSeq(t, m, n) = IF n = m THEN <<t[n]>> ELSE Append(SubSeq(t, m, n - 1), t[n])
        <4>1. t \in Seq(Int)
          BY <1>2
        <4> HIDE DEF m, t
        <4> QED
          BY <3>1, <4>1, PartGrows
      <3>3. (n = m) <=> (e = 0)
        BY <1>3
      <3>4. (s = 14) <=> (e = 0)
        BY <1>3, <1>4
      <3>5. e # 0 => hex.data = SubSeq(t, m, n - 1)
        BY <2>1
      <3> HIDE DEF s, t, m
      <3>6. word = SubSeq(t, m, n)
        BY <3>2, <3>3, <3>4, <3>5
      <3> QED
        BY <3>6 DEF m
    <2>3. \A k \in Int : A(k) \in Int /\ (k # q => A(k) # A(q)) /\ A(q + 1) = A(q) + 4
      <3> DEFINE z == base + r.address
      <3>1. z \in Int /\ q \in Int /\ \A k \in Int : A(k) = z + 4 * k
        BY <1>1, <1>2, <1>3 DEF WordAddress
      <3> HIDE DEF z, A
      <3>2. A(q + 1) = A(q) + 4
        <4>1. q + 1 \in Int /\ A(q) = z + 4 * q
          BY <3>1
        <4>2. A(q + 1) = z + 4 * (q + 1)
          BY <3>1, <4>1
        <4> QED
          BY <3>1, <4>1, <4>2
      <3>3. ASSUME NEW k \in Int PROVE A(k) \in Int /\ (k # q => A(k) # A(q))
        <4>1. A(k) = z + 4 * k /\ A(q) = z + 4 * q
          BY <3>1
        <4> QED
          BY <3>1, <4>1
      <3> QED
        BY <3>2, <3>3
    <2> DEFINE h == hex'
               mem == memory'
    <2> HIDE DEF word, A, W, P, s, h, mem
    <2>4. CASE e < 7
      <3>1. /\ h.address = A(q) /\ h.data = word /\ mem = memory
        BY <1>3, <1>4, <1>5, <2>1, <2>4 DEF h, mem
      <3>2. (n + 1 - 10) \div 8 = q /\ n + 1 - 1 = n
        BY <1>3, <2>4
      <3>3. /\ h.address = A(q) /\ h.data = P(n + 1 - 1, q)
            /\ \A k \in 0 .. q - 1 : A(k) \in DOMAIN mem /\ mem[A(k)] = W(k)
        BY <2>1, <2>2, <3>1, <3>2
      <3> DEFINE q1 == (n + 1 - 10) \div 8
      <3>4. q1 = q
        BY <3>2
      <3> HIDE DEF q1
      <3>5. /\ h.address = A(q1) /\ h.data = P(n + 1 - 1, q1)
            /\ \A k \in 0 .. q1 - 1 : A(k) \in DOMAIN mem /\ mem[A(k)] = W(k)
        BY <3>3, <3>4
      <3> QED
        BY <1>1, <3>5 DEF DataRead, A, W, P, h, mem, base, t, q1
    <2>5. CASE e = 7
      <3>1. /\ h.address = A(q) + 4
            /\ DOMAIN mem = DOMAIN memory \cup {A(q)}
            /\ mem[A(q)] = word
            /\ \A a \in DOMAIN memory : a # A(q) => mem[a] = memory[a]
        BY <1>3, <1>4, <1>5, <2>1, <2>5 DEF h, mem
      <3>2. (n + 1 - 10) \div 8 = q + 1 /\ (n + 1 - 10) % 8 = 0 /\ n = 17 + 8 * q
        BY <1>3, <2>5
      <3>3. W(q) = word
        BY <2>2, <3>2 DEF W, P, WordOf
      <3>4. ASSUME NEW k \in 0 .. (q + 1) - 1 PROVE A(k) \in DOMAIN mem /\ mem[A(k)] = W(k)
        <4>1. k = q \/ (k \in 0 .. q - 1 /\ k # q)
          BY <1>3
        <4>2. k # q => A(k) # A(q)
          BY <2>3
        <4>3. k \in 0 .. q - 1 => A(k) \in DOMAIN memory /\ memory[A(k)] = W(k)
          BY <2>1
        <4> QED
          BY <3>1, <3>3, <4>1, <4>2, <4>3
      <3>5. h.address = A(q + 1)
        BY <1>3, <2>3, <3>1
      <3> QED
        BY <1>1, <3>2, <3>4, <3>5 DEF DataRead, A, W, h, mem, base
    <2> QED
      BY <1>3, <2>4, <2>5
  <1>8. TypeRead(hex'.record_type, r.type, n + 1)
    BY <1>3 DEF TypeRead
  <1>9. AddressRead(hex'.address, r.address, base, n + 1)
    BY <1>3 DEF AddressRead
  <1> QED
    BY <1>1, <1>5, <1>6, <1>7, <1>8, <1>9 DEF Parsed

\* one more digit of a segment record
LEMMA SegmentStep ==
    ASSUME NEW i \in 1 .. Len(HexFile), NEW n \in 10 .. 15, LineKnown(i, n), HexFile[i].type = 2
    PROVE  Parsed(i, HexFile[i], n + 1)' /\ hex' \in Locals
  <1> DEFINE r == HexFile[i]
             d == Texts[i][n]
             s == hex.state
             g == hex.segment
             b == r.bytes[1]
             c == r.bytes[2]
             h == hex'
  <1>1. hex \in Locals /\ Parsed(i, r, n) /\ Digit(d) /\ r.type = 2
    BY DEF LineKnown
  <1>2. d \in 0 .. 15 /\ SegmentDigitAt(d, b, c, n) /\ b \in Byte /\ c \in Byte
    <2>1. n \in 2 .. Len(Texts[i]) - 1
      <3>1. Len(Texts[i]) = 16
        BY LengthIs
      <3> QED
        BY <3>1
    <2>2. b \in Byte /\ c \in Byte
      BY RecordIs
    <2> QED
      BY <2>1, <2>2, CharIs
  <1>3. s = StateAt(r, n) /\ SegmentRead(g, b, c, n) /\ g \in Int
    BY <1>1, LocalsAre DEF Parsed
  <1>4. (n <= 14 => s = n - 1) /\ (n = 15 => s = 0)
    BY <1>1, <1>3 DEF StateAt
  <1>5. StateAt(r, n + 1) = IF n <= 13 THEN n ELSE 0
    BY <1>1 DEF StateAt
  <1> HIDE DEF d, s, g, b, c, h
  <1>6. h \in Locals /\ h.state = StateAt(r, n + 1) /\ SegmentRead(h.segment, b, c, n + 1)
    <2>1. CASE n \in 10 .. 13
      <3>1. s \in 9 .. 12
        BY <1>4, <2>1
      <3>2. h \in Locals /\ h.state = s + 1 /\ h.segment = Shifted16(g, d)
        <4>1. hex.state \in 9 .. 13 /\ hex.state < 13
          BY <3>1 DEF s
        <4>2. /\ hex' \in Locals
              /\ hex.state < 13 => /\ hex'.state = hex.state + 1
                                   /\ hex'.segment = Shifted16(hex.segment, d)
          BY <1>1, <1>2, <4>1, SegmentDigitIs
        <4> QED
          BY <4>1, <4>2 DEF s, g, h
      <3>3. SegmentRead(Shifted16(g, d), b, c, n + 1)
        BY <1>2, <1>3, <2>1, NextSegment
      <3> QED
        BY <1>4, <1>5, <2>1, <3>2, <3>3
    <2>2. CASE n = 14
      <3>1. s = 13
        BY <1>4, <2>2
      <3>2. h \in Locals /\ h.state = 0 /\ h.segment = g * 16
        <4>1. hex.state \in 9 .. 13 /\ hex.state = 13
          BY <3>1 DEF s
        <4>2. /\ hex' \in Locals
              /\ hex.state = 13 => hex'.state = 0 /\ hex'.segment = hex.segment * 16
          BY <1>1, <1>2, <4>1, SegmentDigitIs
        <4> QED
          BY <4>1, <4>2 DEF s, g, h
      <3>3. b \in Int /\ c \in Int
        BY <1>2, ByteIs
      <3>4. g = 256 * b + c
        BY <1>3, <2>2 DEF SegmentRead
      <3>5. SegmentRead(h.segment, b, c, n + 1)
        BY <2>2, <3>2, <3>3, <3>4 DEF SegmentRead
      <3> QED
        BY <1>5, <2>2, <3>2, <3>5
    <2>3. CASE n = 15
      <3>1. h = hex
        BY <1>1, <1>2, <1>4, <2>3, DigitIs DEF s, h
      <3>2. SegmentRead(g, b, c, n + 1)
        BY <1>3, <2>3 DEF SegmentRead
      <3>3. h \in Locals /\ h.state = s /\ h.segment = g
        BY <1>1, <3>1 DEF s, g
      <3> QED
        BY <1>4, <1>5, <2>3, <3>2, <3>3
    <2> QED
      BY <2>1, <2>2, <2>3
  <1>7. TypeRead(h.record_type, r.type, n + 1)
    BY DEF TypeRead
  <1>8. r.type # 0
    BY <1>1
  <1> QED
    BY <1>1, <1>6, <1>7, <1>8 DEF Parsed, b, c, h

\* one more digit of another record
LEMMA OtherStep ==
    ASSUME NEW i \in 1 .. Len(HexFile), NEW n \in 10 .. Len(Texts[i]) - 1, LineKnown(i, n),
           HexFile[i].type \notin {0, 2}
    PROVE  Parsed(i, HexFile[i], n + 1)' /\ hex' = hex /\ memory' = memory
  <1> DEFINE r == HexFile[i]
             d == Texts[i][n]
             m == n + 1
  <1>1. hex \in Locals /\ Parsed(i, r, n) /\ Digit(d) /\ r.type # 0 /\ r.type # 2
    BY DEF LineKnown
  <1>2. n \in Int /\ n >= 10 /\ m \in Int /\ m > 10
    BY LengthIs
  <1>3. d \in 0 .. 15
    <2>1. n \in 2 .. Len(Texts[i]) - 1
      BY LengthIs
    <2> QED
      BY <2>1, CharIs
  <1>4. hex.state = 0
    <2>1. StateAt(r, n) = 0
      BY <1>1, <1>2 DEF StateAt
    <2> QED
      BY <1>1, <2>1 DEF Parsed
  <1> HIDE DEF d, m
  <1>5. hex' = hex /\ memory' = memory
    BY <1>1, <1>3, <1>4, DigitIs
  <1>6. Parsed(i, r, m)'
    <2>1. StateAt(r, m) = 0
      BY <1>1, <1>2 DEF StateAt
    <2>2. TypeRead(hex'.record_type, r.type, m)
      BY <1>2 DEF TypeRead
    <2>3. AddressRead(hex'.address, r.address, history'.base, m)
      BY <1>2 DEF AddressRead
    <2> QED
      BY <1>1, <1>4, <1>5, <2>1, <2>2, <2>3 DEF Parsed
  <1> QED
    BY <1>5, <1>6 DEF m

\* a digit of a line
LEMMA DigitStep ==
    ASSUME NEW i \in 1 .. Len(HexFile), NEW n \in 2 .. Len(Texts[i]) - 1, LineKnown(i, n)
    PROVE  /\ Parsed(i, HexFile[i], n + 1)' /\ hex' \in Locals
           /\ HexFile[i].type # 2 => hex'.segment = hex.segment
  <1> DEFINE r == HexFile[i]
             last == Len(Texts[i])
  <1>1. last \in Int /\ (r.type = 2 => last = 16) /\ hex \in Locals
    BY LengthIs DEF LineKnown
  <1> HIDE DEF last
  <1>2. n \in 2 .. last - 1
    BY DEF last
  <1>3. CASE n \in 2 .. 9
    BY <1>3, HeaderStep
  <1>4. CASE n \notin 2 .. 9 /\ r.type = 0
    <2>1. n \in 10 .. last - 1
      BY <1>1, <1>2, <1>4
    <2> QED
      BY <1>4, <2>1, DataStep DEF last
  <1>5. CASE n \notin 2 .. 9 /\ r.type = 2
    <2>1. n \in 10 .. 15
      BY <1>1, <1>2, <1>5
    <2> QED
      BY <1>5, <2>1, SegmentStep
  <1>6. CASE n \notin 2 .. 9 /\ r.type \notin {0, 2}
    <2>1. n \in 10 .. last - 1
      BY <1>1, <1>2, <1>6
    <2> QED
      BY <1>1, <1>6, <2>1, OtherStep DEF last
  <1> QED
    BY <1>3, <1>4, <1>5, <1>6

\* the number of lines
LEMMA LinesAre == Len(HexFile) \in Nat
  BY HexAssumption

\* where the sender is
LEMMA PlaceIs ==
    ASSUME HexTypeOK, PlaceOK, Sending
    PROVE  /\ sender.line \in 1 .. Len(HexFile) /\ sender.at \in 1 .. Len(Texts[sender.line])
           /\ Len(Texts[sender.line]) \in Int /\ Len(Texts[sender.line]) >= 12
           /\ sender.transfer \in Nat \ {0}
           /\ history.missed \in Nat /\ history.base \in Int /\ hex \in Locals
  <1>1. /\ sender.transfer \in Nat \ {0} /\ sender.line \in 1 .. Len(HexFile) + 1 /\ sender.at \in Nat \ {0}
        /\ history.missed \in Nat /\ history.base \in Int /\ hex \in Locals
    BY DEF HexTypeOK, Places, Histories
  <1>2. sender.line \in 1 .. Len(HexFile)
    BY <1>1, LinesAre DEF Sending
  <1>3. Len(Texts[sender.line]) \in Int /\ Len(Texts[sender.line]) >= 12
    BY <1>2, LengthIs
  <1>4. sender.at <= Len(Texts[sender.line])
    BY DEF PlaceOK
  <1> QED
    BY <1>1, <1>2, <1>3, <1>4

-----------------------------------------------------------------------------
(* Serial boot loader: the sender *)

\* the first character of this line that was missed, before this step and after
\* one that misses a character
MissedBefore == IF sender.at = 1 THEN 0 ELSE history.missed
MissedAfter  == IF MissedBefore = 0 THEN sender.at ELSE MissedBefore

\* what is remembered of the line if m is the first that was missed
Remembers(m) ==
    LET ends == sender.at = Len(Texts[sender.line])
    IN  history' = [missed |-> m,
                    base   |-> IF ends THEN Said(HexFile[sender.line], m) ELSE history.base,
                    ended  |-> IF ends /\ m = 0 THEN sender.line ELSE 0]

\* what the model remembers of a line
LEMMA FollowIs ==
    /\ Follow(TRUE) => Remembers(MissedBefore)
    /\ Follow(FALSE) => Remembers(MissedAfter)
  <1>1. Follow(TRUE) => Remembers(MissedBefore)
    BY DEF Follow, Remembers, MissedBefore
  <1>2. Follow(FALSE) => Remembers(MissedAfter)
    <2>1. CASE MissedBefore = 0
      BY <2>1 DEF Follow, Remembers, MissedAfter, MissedBefore
    <2>2. CASE MissedBefore # 0
      BY <2>2 DEF Follow, Remembers, MissedAfter, MissedBefore
    <2> QED
      BY <2>1, <2>2
  <1> QED
    BY <1>1, <1>2

\* the next character, and what is remembered of the line
LEMMA NextIs ==
    ASSUME HexTypeOK, PlaceOK, Sending, NextChar, NEW m \in Nat, Remembers(m)
    PROVE  LET i == sender.line
               n == sender.at
           IN  /\ sender' \in Places /\ history' \in Histories /\ PlaceOK'
               /\ history'.missed = m /\ sender'.transfer = sender.transfer
               /\ n < Len(Texts[i]) => /\ sender'.line = i /\ sender'.at = n + 1
                                       /\ history'.base = history.base /\ history'.ended = 0
               /\ n = Len(Texts[i]) => /\ sender'.line = i + 1 /\ sender'.at = 1
                                       /\ history'.base = Said(HexFile[i], m)
                                       /\ history'.ended = (IF m = 0 THEN i ELSE 0)
  <1> DEFINE i == sender.line
             n == sender.at
             last == Len(Texts[i])
  <1>1. /\ i \in 1 .. Len(HexFile) /\ n \in 1 .. last /\ last \in Int /\ last >= 12
        /\ sender.transfer \in Nat \ {0} /\ history.missed \in Nat /\ history.base \in Int
    BY PlaceIs
  <1>2. Len(HexFile) \in Nat
    BY LinesAre
  <1>4. Said(HexFile[i], m) \in Int
    <2>1. HexFile[i].type = 2 => SegmentOf(HexFile[i]) \in Int
      <3>1. HexFile[i].type = 2 => HexFile[i].bytes[1] \in Byte /\ HexFile[i].bytes[2] \in Byte
        BY <1>1, RecordIs
      <3> QED
        BY <3>1, ByteIs DEF SegmentOf
    <2> QED
      BY <1>1, <2>1 DEF Said, Unknown
  <1>6. /\ n < last => sender' = [sender EXCEPT !.at = n + 1]
        /\ n = last => sender' = [sender EXCEPT !.line = i + 1, !.at = 1]
    <2>1. sender.at < last => sender' = [sender EXCEPT !.at = @ + 1]
      BY DEF NextChar
    <2>2. ~(sender.at < last) => sender' = [sender EXCEPT !.line = @ + 1, !.at = 1]
      BY DEF NextChar
    <2> QED
      BY <1>1, <2>1, <2>2
  <1>7. sender \in Places
    BY DEF HexTypeOK
  <1> HIDE DEF last
  <1>8. /\ sender' \in Places
        /\ n < last => sender'.line = i /\ sender'.at = n + 1
        /\ n = last => sender'.line = i + 1 /\ sender'.at = 1
        /\ sender'.transfer = sender.transfer
    <2>1. CASE n < last
      <3>1. n + 1 \in Nat \ {0} /\ n # last
        BY <1>1, <2>1
      <3> QED
        BY <1>6, <1>7, <2>1, <3>1 DEF Places
    <2>2. CASE n = last
      <3>1. i + 1 \in 1 .. Len(HexFile) + 1 /\ 1 \in Nat \ {0} /\ ~(n < last)
        BY <1>1, <1>2, <2>2
      <3> QED
        BY <1>6, <1>7, <2>2, <3>1 DEF Places
    <2> QED
      BY <1>1, <2>1, <2>2
  <1>9. PlaceOK'
    <2>1. CASE n < last
      <3>1. sender'.line = i /\ sender'.at = n + 1 /\ n + 1 <= last /\ i <= Len(HexFile)
        BY <1>1, <1>2, <1>8, <2>1
      <3> QED
        BY <3>1 DEF PlaceOK, Sending, last
    <2>2. CASE n = last
      <3>1. sender'.at = 1 /\ sender'.line = i + 1
        BY <1>8, <2>2
      <3>2. i + 1 <= Len(HexFile) => 1 <= Len(Texts[i + 1])
        <4>1. i + 1 <= Len(HexFile) => i + 1 \in 1 .. Len(HexFile)
          BY <1>1, <1>2
        <4> QED
          BY <4>1, LengthIs
      <3> QED
        BY <3>1, <3>2 DEF PlaceOK, Sending
    <2> QED
      BY <1>1, <2>1, <2>2
  <1>10. /\ history' \in Histories /\ history'.missed = m
         /\ n < last => history'.base = history.base /\ history'.ended = 0
         /\ n = last => /\ history'.base = Said(HexFile[i], m)
                        /\ history'.ended = (IF m = 0 THEN i ELSE 0)
    <2> DEFINE base == IF n = last THEN Said(HexFile[i], m) ELSE history.base
               ended == IF n = last /\ m = 0 THEN i ELSE 0
    <2>1. history' = [missed |-> m, base |-> base, ended |-> ended]
      BY DEF Remembers, last
    <2>2. base \in Int /\ ended \in 0 .. Len(HexFile)
      BY <1>1, <1>2, <1>4
    <2>3. n < last => n # last
      BY <1>1
    <2>4. n < last => base = history.base /\ ended = 0
      BY <2>3
    <2>5. n = last => base = Said(HexFile[i], m) /\ ended = (IF m = 0 THEN i ELSE 0)
      OBVIOUS
    <2> HIDE DEF base, ended, n, i
    <2>6. history' \in Histories /\ history'.missed = m /\ history'.base = base /\ history'.ended = ended
      BY <2>1, <2>2 DEF Histories
    <2> QED
      BY <2>4, <2>5, <2>6
  <1> QED
    BY <1>8, <1>9, <1>10 DEF last

-----------------------------------------------------------------------------
(* Serial boot loader: the steps *)

\* what becomes of the next character
LEMMA CharTaken ==
    ASSUME HexTypeOK, PlaceOK, Sending, uart_recv(Char)
    PROVE  LET n == sender.at
               last == Len(Texts[sender.line])
           IN  /\ n = 1 => hex' = [hex EXCEPT !.state = 1] /\ memory' = memory
               /\ n = last => hex' = [hex EXCEPT !.state = 0] /\ memory' = memory
               /\ n # 1 /\ n # last => /\ n \in 2 .. last - 1
                                       /\ Digit(Texts[sender.line][n])
                                       /\ Texts[sender.line][n] \in 0 .. 15
  <1> DEFINE i == sender.line
             n == sender.at
             t == Texts[i]
             last == Len(t)
             c == t[n]
  <1>1. i \in 1 .. Len(HexFile) /\ n \in 1 .. last /\ last \in Int /\ last >= 12
    BY PlaceIs
  <1>2. t[1] = Colon /\ t[last] = NewLine /\ \A k \in 2 .. last - 1 : t[k] \in 0 .. 15
    <2> DEFINE L == 12 + 2 * Len(HexFile[i].bytes)
    <2>1. /\ Len(t) = L /\ t[1] = Colon /\ t[L] = NewLine
          /\ \A k \in 2 .. L - 1 : t[k] \in 0 .. 15
      <3>1. i \in 1 .. Len(HexFile)
        BY <1>1
      <3> HIDE DEF i, last
      <3>2. /\ Len(Texts[i]) = L /\ Texts[i][1] = Colon /\ Texts[i][L] = NewLine
            /\ \A k \in 2 .. L - 1 : Texts[i][k] \in 0 .. 15
        BY <3>1, TextIs
      <3> QED
        BY <3>2
    <2> HIDE DEF L, t, i
    <2> QED
      BY <2>1
  <1>3. /\ c = Colon => hex' = [hex EXCEPT !.state = 1] /\ memory' = memory
        /\ c = NewLine => hex' = [hex EXCEPT !.state = 0] /\ memory' = memory
        /\ c \in 0 .. 15 => Digit(c)
    <2>1. uart_recv(c)
      BY DEF Char
    <2> HIDE DEF c
    <2>2. Colon # NewLine /\ (c \in 0 .. 15 => c # Colon /\ c # NewLine)
      BY DEF Colon, NewLine
    <2> QED
      BY <2>1, <2>2 DEF uart_recv, NewRecord
  <1> HIDE DEF t, last
  <1>4. n # 1 /\ n # last => n \in 2 .. last - 1
    BY <1>1
  <1>5. n # 1 /\ n # last => c \in 0 .. 15
    BY <1>2, <1>4
  <1>6. (n = 1 => c = Colon) /\ (n = last => c = NewLine)
    BY <1>2
  <1> HIDE DEF c
  <1>7. n # 1 /\ n # last => Digit(c)
    BY <1>3, <1>5
  <1> QED
    BY <1>3, <1>4, <1>5, <1>6, <1>7 DEF t, last, c

\* any digit
LEMMA DigitKeepsTypes ==
    ASSUME NEW d \in 0 .. 15, hex \in Locals, Digit(d)
    PROVE  /\ hex' \in Locals
           /\ hex.state \in Quiet => hex'.state \in Quiet /\ hex'.segment = hex.segment
  <1> DEFINE s == hex.state
  <1>1. s \in 0 .. 21
    BY LocalsAre
  <1>2. CASE s = 0
    BY <1>2, DigitIs
  <1>3. CASE s \in 1 .. 8
    <2>1. hex' \in Locals
      BY <1>3, HeaderDigit
    <2> QED
      BY <1>3, <2>1 DEF Quiet
  <1>4. CASE s \in 9 .. 13
    <2>1. hex' \in Locals
      BY <1>4, SegmentDigitIs
    <2> QED
      BY <1>4, <2>1 DEF Quiet
  <1>5. CASE s \in 14 .. 21
    <2>1. /\ hex' \in Locals /\ hex'.segment = hex.segment
          /\ hex.state < 21 => hex'.state = hex.state + 1
          /\ hex.state = 21 => hex'.state = 14
      BY <1>5, DataDigitIs
    <2>2. hex'.state \in 14 .. 21
      BY <1>5, <2>1
    <2> QED
      BY <2>1, <2>2 DEF Quiet
  <1> QED
    BY <1>1, <1>2, <1>3, <1>4, <1>5

\* the colon
LEMMA FirstStep ==
    ASSUME NEW i \in 1 .. Len(HexFile), hex' = [hex EXCEPT !.state = 1], hex \in Locals
    PROVE  Parsed(i, HexFile[i], 2)' /\ hex' \in Locals /\ hex'.segment = hex.segment
  <1>1. 1 \in States
    BY DEF States
  <1>2. hex' \in Locals /\ hex'.segment = hex.segment /\ hex'.state = 1
    BY <1>1 DEF Locals
  <1>3. StateAt(HexFile[i], 2) = 1
    BY DEF StateAt
  <1> QED
    BY <1>2, <1>3 DEF Parsed, TypeRead, SegmentRead, AddressRead

\* behind the header, a line whose header came whole leaves the segment alone
LEMMA QuietBehindHeader ==
    ASSUME NEW i \in 1 .. Len(HexFile), NEW n \in Int, n >= 10, Parsed(i, HexFile[i], n), HexFile[i].type # 2
    PROVE  hex.state \in Quiet
  <1> DEFINE r == HexFile[i]
  <1>1. hex.state = StateAt(r, n)
    BY DEF Parsed
  <1>2. StateAt(r, n) \in Quiet
    <2>1. CASE r.type = 0
      <3>1. StateAt(r, n) = 14 + ((n - 10) % 8)
        BY <2>1 DEF StateAt
      <3>2. 14 + ((n - 10) % 8) \in 14 .. 21
        OBVIOUS
      <3> QED
        BY <3>1, <3>2 DEF Quiet
    <2>2. CASE r.type # 0
      <3>1. StateAt(r, n) = 0
        BY <2>2 DEF StateAt
      <3> QED
        BY <3>1 DEF Quiet
    <2> QED
      BY <2>1, <2>2
  <1> QED
    BY <1>1, <1>2

\* a line of another kind of which nothing was missed in the header
LEMMA MissKeeps ==
    ASSUME HexInv, Sending, HexFile[sender.line].type # 2, MissedAfter \notin 2 .. 9,
           history.base # Unknown
    PROVE  hex.segment = history.base /\ hex.state \in Quiet
  <1> DEFINE i == sender.line
             n == sender.at
  <1>1. i \in 1 .. Len(HexFile) /\ n \in Int /\ n >= 1 /\ history.missed \in Nat
    BY PlaceIs DEF HexInv
  <1>2. CASE n = 1
    BY <1>2 DEF HexInv, SegmentKept
  <1>3. CASE n # 1 /\ history.missed # 0
    <2>1. history.missed \notin 2 .. 9
      BY <1>3 DEF MissedAfter, MissedBefore
    <2> QED
      BY <1>3, <2>1 DEF HexInv, SegmentKept
  <1>4. CASE n # 1 /\ history.missed = 0
    <2>1. n \notin 2 .. 9
      BY <1>4 DEF MissedAfter, MissedBefore
    <2>2. n >= 10
      BY <1>1, <1>4, <2>1
    <2>3. Parsed(i, HexFile[i], n)
      <3>1. LineParsed /\ n > 1
        BY <1>1, <2>2 DEF HexInv
      <3> QED
        BY <1>4, <3>1 DEF LineParsed
    <2>4. hex.state \in Quiet
      BY <1>1, <2>2, <2>3, QuietBehindHeader
    <2>5. hex.segment = history.base
      BY <1>4 DEF HexInv, SegmentKept
    <2> QED
      BY <2>4, <2>5
  <1> QED
    BY <1>2, <1>3, <1>4

\* a character that is missed
LEMMA MissStep ==
    ASSUME HexInv, Miss
    PROVE  HexInv'
  <1> DEFINE i == sender.line
             n == sender.at
             last == Len(Texts[i])
             m == MissedAfter
             r == HexFile[i]
             base == history.base
  <1>1. /\ Sending /\ NextChar /\ Follow(FALSE) /\ hex' = hex /\ memory' = memory
        /\ lost' = lost + 1
    BY DEF Miss
  <1>2. HexTypeOK /\ PlaceOK
    BY DEF HexInv
  <1>3. /\ i \in 1 .. Len(HexFile) /\ n \in 1 .. last /\ last \in Int /\ last >= 12
        /\ history.missed \in Nat /\ base \in Int /\ hex \in Locals
    BY <1>1, <1>2, PlaceIs
  <1>4. m \in Nat /\ m # 0
    <2> HIDE DEF last
    <2> QED
      BY <1>3 DEF MissedAfter, MissedBefore
  <1>5. /\ sender' \in Places /\ history' \in Histories /\ PlaceOK' /\ history'.missed = m
        /\ n < last => sender'.line = i /\ sender'.at = n + 1
                       /\ history'.base = base /\ history'.ended = 0
        /\ n = last => sender'.line = i + 1 /\ sender'.at = 1
                       /\ history'.base = Said(r, m) /\ history'.ended = (IF m = 0 THEN i ELSE 0)
    <2>1. Remembers(m)
      BY <1>1, FollowIs
    <2> HIDE DEF m
    <2> QED
      BY <1>1, <1>2, <1>4, <2>1, NextIs
  <1>6. r.type # 2 /\ m \notin 2 .. 9 /\ base # Unknown => hex.segment = base /\ hex.state \in Quiet
    BY <1>1, MissKeeps
  <1>7. HexTypeOK'
    <2>1. lost' \in Nat
      BY <1>1, <1>2 DEF HexTypeOK
    <2> QED
      BY <1>1, <1>3, <1>5, <2>1 DEF HexTypeOK
  <1>8. n < last \/ n = last
    BY <1>3
  <1>9. n = last => history'.base = (IF r.type = 2 \/ m \in 2 .. 9 THEN Unknown ELSE base)
    <2> HIDE DEF m
    <2> QED
      BY <1>4, <1>5 DEF Said
  <1> HIDE DEF last, m
  <1>10. BaseOK'
    BY <1>5, <1>8, <1>9 DEF HexInv, BaseOK
  <1>11. LineParsed'
    BY <1>4, <1>5 DEF LineParsed
  <1>12. SegmentKept'
    <2>1. CASE n < last
      <3>1. sender'.line = i /\ sender'.at # 1 /\ history'.base = base /\ history'.missed = m
        BY <1>3, <1>5, <2>1
      <3> QED
        BY <1>1, <1>6, <3>1 DEF SegmentKept
    <2>2. CASE n = last
      <3>1. sender'.at = 1 /\ history'.base = (IF r.type = 2 \/ m \in 2 .. 9 THEN Unknown ELSE base)
        BY <1>5, <1>9, <2>2
      <3> QED
        BY <1>1, <1>6, <3>1 DEF SegmentKept
    <2> QED
      BY <1>8, <2>1, <2>2
  <1>13. WholeLineIsStored'
    BY <1>4, <1>5, <1>8 DEF WholeLineIsStored
  <1> QED
    BY <1>5, <1>7, <1>10, <1>11, <1>12, <1>13 DEF HexInv

\* a character in a line that is received and is not its last one
LEMMA MiddleStep ==
    ASSUME HexInv, Receive, NEW i, NEW n, i = sender.line, n = sender.at, n < Len(Texts[i])
    PROVE  HexInv'
  <1> DEFINE last == Len(Texts[i])
             m == MissedBefore
             r == HexFile[i]
             base == history.base
             t == Texts[i]
  <1>1. Sending /\ NextChar /\ Follow(TRUE) /\ uart_recv(Char) /\ lost' = lost
    BY DEF Receive
  <1>2. HexTypeOK /\ PlaceOK /\ BaseOK /\ LineParsed /\ SegmentKept
    BY DEF HexInv
  <1>3. /\ i \in 1 .. Len(HexFile) /\ n \in 1 .. last /\ last \in Int /\ last >= 12 /\ n < last
        /\ history.missed \in Nat /\ base \in Int /\ hex \in Locals
    BY <1>1, <1>2, PlaceIs
  <1>4. m \in Nat /\ (n = 1 => m = 0) /\ (n # 1 => m = history.missed)
    BY <1>3 DEF MissedBefore
  <1>5. /\ sender' \in Places /\ history' \in Histories /\ PlaceOK' /\ history'.missed = m
        /\ sender'.line = i /\ sender'.at = n + 1 /\ history'.base = base /\ history'.ended = 0
    <2>1. Remembers(m)
      BY <1>1, FollowIs
    <2> HIDE DEF m
    <2> QED
      BY <1>1, <1>2, <1>4, <2>1, NextIs
  <1>6. /\ n = 1 => hex' = [hex EXCEPT !.state = 1]
        /\ n # 1 => n \in 2 .. last - 1 /\ Digit(t[n]) /\ t[n] \in 0 .. 15
    <2>1. n # last
      BY <1>3
    <2> QED
      BY <1>1, <1>2, <2>1, CharTaken
  <1>7. /\ r.type # 2 /\ (n = 1 \/ m \notin 2 .. 9) /\ base # Unknown =>
              hex.segment = base /\ (n = 1 \/ m # 0 => hex.state \in Quiet)
    BY <1>2, <1>4 DEF SegmentKept
  <1>8. n # 1 /\ m = 0 => LineKnown(i, n)
    <2> SUFFICES ASSUME n # 1, m = 0 PROVE LineKnown(i, n)
      OBVIOUS
    <2>1. Parsed(i, r, n)
      <3>1. n > 1
        BY <1>3
      <3> QED
        BY <1>1, <1>2, <1>4, <3>1 DEF LineParsed
    <2>2. m \notin 2 .. 9
      OBVIOUS
    <2> QED
      BY <1>2, <1>3, <1>5, <1>6, <1>7, <2>1, <2>2 DEF LineKnown, BaseOK
  <1>9. n # 1 /\ m = 0 => /\ Parsed(i, r, n + 1)' /\ hex' \in Locals
                          /\ r.type # 2 => hex'.segment = hex.segment
    <2> HIDE DEF m, last
    <2>1. n # 1 => n \in 2 .. Len(Texts[i]) - 1
      BY <1>6 DEF last
    <2> QED
      BY <1>3, <1>8, <2>1, DigitStep
  <1>10. n = 1 => Parsed(i, r, n + 1)' /\ hex' \in Locals /\ hex'.segment = hex.segment
    <2>1. n = 1 => Parsed(i, r, 2)' /\ hex' \in Locals /\ hex'.segment = hex.segment
      BY <1>3, <1>6, FirstStep
    <2>2. n = 1 => n + 1 = 2
      OBVIOUS
    <2> QED
      BY <2>1, <2>2
  <1>11. n # 1 => /\ hex' \in Locals
                  /\ hex.state \in Quiet => hex'.state \in Quiet /\ hex'.segment = hex.segment
    <2> HIDE DEF t
    <2> QED
      BY <1>3, <1>6, DigitKeepsTypes
  <1> HIDE DEF m, last, t
  <1>12. HexTypeOK'
    <2>1. lost' \in Nat
      BY <1>1, <1>2 DEF HexTypeOK
    <2> QED
      BY <1>5, <1>10, <1>11, <2>1 DEF HexTypeOK
  <1>13. BaseOK'
    BY <1>2, <1>5 DEF BaseOK
  <1>14. LineParsed'
    <2>1. m = 0 => Parsed(i, r, n + 1)'
      BY <1>9, <1>10
    <2> QED
      BY <1>5, <2>1 DEF LineParsed
  <1>15. SegmentKept'
    <2>1. n + 1 # 1
      BY <1>3
    <2>2. r.type # 2 /\ m \notin 2 .. 9 /\ base # Unknown =>
              hex'.segment = base /\ (m # 0 => hex'.state \in Quiet)
      BY <1>4, <1>7, <1>9, <1>10, <1>11
    <2> QED
      BY <1>5, <2>1, <2>2 DEF SegmentKept
  <1>16. WholeLineIsStored'
    BY <1>5 DEF WholeLineIsStored
  <1> QED
    BY <1>5, <1>12, <1>13, <1>14, <1>15, <1>16 DEF HexInv

\* the end of a line is received
LEMMA EndStep ==
    ASSUME HexInv, Receive, NEW i, NEW n, i = sender.line, n = sender.at, n = Len(Texts[i]),
           NEW base, base = history.base
    PROVE  HexInv'
  <1> DEFINE last == Len(Texts[i])
             m == MissedBefore
             r == HexFile[i]
  <1>1. Sending /\ NextChar /\ Follow(TRUE) /\ uart_recv(Char) /\ lost' = lost
    BY DEF Receive
  <1>2. HexTypeOK /\ PlaceOK /\ BaseOK /\ LineParsed /\ SegmentKept
    BY DEF HexInv
  <1>3. /\ i \in 1 .. Len(HexFile) /\ n \in 1 .. last /\ last \in Int /\ last >= 12 /\ n = last
        /\ history.missed \in Nat /\ base \in Int /\ hex \in Locals
        /\ r.type = 2 => last = 16
    BY <1>1, <1>2, PlaceIs, LengthIs
  <1>4. m = history.missed /\ m \in Nat /\ n # 1
    <2>1. n # 1
      <3> HIDE DEF last, m
      <3> QED
        BY <1>3
    <2>2. MissedBefore = history.missed
      <3> HIDE DEF last, m
      <3> QED
        BY <2>1 DEF MissedBefore
    <2> QED
      BY <1>3, <2>1, <2>2
  <1>5. /\ sender' \in Places /\ history' \in Histories /\ PlaceOK'
        /\ sender'.line = i + 1 /\ sender'.at = 1
        /\ history'.base = Said(r, m) /\ history'.ended = (IF m = 0 THEN i ELSE 0)
    <2>1. Remembers(m)
      BY <1>1, FollowIs
    <2> HIDE DEF m
    <2> QED
      BY <1>1, <1>2, <1>4, <2>1, NextIs
  <1>6. hex' = [hex EXCEPT !.state = 0] /\ memory' = memory
    BY <1>1, <1>2, CharTaken
  <1>7. hex' \in Locals /\ hex'.state = 0 /\ hex'.segment = hex.segment
    <2>1. 0 \in States
      BY DEF States
    <2> QED
      BY <1>3, <1>6, <2>1 DEF Locals
  <1>8. m = 0 => Parsed(i, r, last)
    <2>1. n > 1
      BY <1>3
    <2> QED
      BY <1>1, <1>2, <1>3, <1>4, <2>1 DEF LineParsed
  <1>9. r.type # 2 /\ m \notin 2 .. 9 /\ base # Unknown => hex.segment = base
    BY <1>2, <1>4 DEF SegmentKept
  <1> HIDE DEF m, last
  <1>10. r.type = 2 /\ m = 0 => hex.segment = SegmentOf(r) /\ Aligned(SegmentOf(r))
    <2> SUFFICES ASSUME r.type = 2, m = 0 PROVE hex.segment = SegmentOf(r) /\ Aligned(SegmentOf(r))
      OBVIOUS
    <2>1. SegmentRead(hex.segment, r.bytes[1], r.bytes[2], last)
      BY <1>8 DEF Parsed
    <2>2. Aligned(SegmentOf(r))
      BY <1>3, RecordIs
    <2> QED
      BY <1>3, <2>1, <2>2 DEF SegmentRead, SegmentOf
  <1>11. /\ r.type = 2 /\ m = 0 => history'.base = SegmentOf(r)
         /\ r.type = 2 /\ m # 0 => history'.base = Unknown
         /\ r.type # 2 => history'.base = (IF m \in 2 .. 9 THEN Unknown ELSE base)
    BY <1>5 DEF Said
  <1>12. HexTypeOK'
    <2>1. lost' \in Nat
      BY <1>1, <1>2 DEF HexTypeOK
    <2> QED
      BY <1>5, <1>7, <2>1 DEF HexTypeOK
  <1>13. history'.base # Unknown => hex'.segment = history'.base /\ Aligned(history'.base)
    BY <1>2, <1>7, <1>9, <1>10, <1>11 DEF BaseOK
  <1>14. BaseOK'
    BY <1>13 DEF BaseOK
  <1>15. LineParsed'
    BY <1>5 DEF LineParsed
  <1>16. SegmentKept'
    BY <1>5, <1>7, <1>13 DEF SegmentKept, Quiet
  <1>17. WholeLineIsStored'
    <2> SUFFICES ASSUME m = 0, base # Unknown, r.type = 0, history'.base = base
                 PROVE  Stored(i, base)'
      <3>1. m = 0 /\ r.type = 0 => history'.base = base
        BY <1>11
      <3>2. Loads(i) <=> r.type = 0
        BY DEF Loads
      <3>3. history'.ended # 0 => m = 0 /\ history'.ended = i
        BY <1>5
      <3> QED
        BY <3>1, <3>2, <3>3 DEF WholeLineIsStored, Stored
    <2>1. DataRead(i, last)
      BY <1>3, <1>8 DEF Parsed
    <2>2. Stored(i, base)
      BY <2>1 DEF DataRead, Stored, WordsOf, last
    <2> QED
      BY <1>6, <2>2 DEF Stored
  <1> QED
    BY <1>5, <1>12, <1>14, <1>15, <1>16, <1>17 DEF HexInv

\* the beginning
LEMMA HexInitially == HexInit => HexInv
  <1> SUFFICES ASSUME HexInit PROVE HexInv
    OBVIOUS
  <1>1. Len(HexFile) \in Nat
    BY LinesAre
  <1>2. HexTypeOK
    <2>1. hex \in Locals
      BY DEF HexInit, Locals, States, Numbers
    <2>2. sender \in Places
      BY <1>1 DEF HexInit, Places
    <2>3. history \in Histories
      BY <1>1 DEF HexInit, Histories
    <2> QED
      BY <2>1, <2>2, <2>3 DEF HexInit, HexTypeOK
  <1>3. PlaceOK
    <2>1. 1 <= Len(HexFile) => 1 <= Len(Texts[1])
      BY <1>1, LengthIs
    <2> QED
      BY <2>1 DEF HexInit, PlaceOK, Sending
  <1>4. BaseOK
    BY DEF HexInit, BaseOK, Aligned
  <1>5. LineParsed /\ WholeLineIsStored
    BY DEF HexInit, LineParsed, WholeLineIsStored
  <1>6. SegmentKept
    BY DEF HexInit, SegmentKept, Quiet
  <1> QED
    BY <1>2, <1>3, <1>4, <1>5, <1>6 DEF HexInv

\* every step keeps the invariant
LEMMA HexStep == HexInv /\ [HexNext]_hexVars => HexInv'
  <1> SUFFICES ASSUME HexInv, [HexNext]_hexVars PROVE HexInv'
    OBVIOUS
  <1>1. CASE Receive
    <2>1. sender.at < Len(Texts[sender.line]) \/ sender.at = Len(Texts[sender.line])
      BY <1>1, PlaceIs DEF Receive, HexInv
    <2>2. CASE sender.at < Len(Texts[sender.line])
      BY <1>1, <2>2, MiddleStep
    <2>3. CASE sender.at = Len(Texts[sender.line])
      BY <1>1, <2>3, EndStep
    <2> QED
      BY <2>1, <2>2, <2>3
  <1>2. CASE Miss
    BY <1>2, MissStep
  <1>3. CASE SendAgain
    <2>1. /\ ~Sending /\ hex' = hex /\ memory' = memory /\ history' = history /\ lost' = lost
          /\ sender' = [transfer |-> sender.transfer + 1, line |-> 1, at |-> 1]
      BY <1>3 DEF SendAgain
    <2>2. sender.at = 1
      BY <2>1 DEF HexInv, PlaceOK
    <2>3. Len(HexFile) \in Nat /\ (1 <= Len(HexFile) => 1 <= Len(Texts[1]))
      BY LinesAre, LengthIs
    <2>4. sender' \in Places /\ sender'.at = 1 /\ sender'.line = 1
      <3>1. sender.transfer \in Nat
        BY DEF HexInv, HexTypeOK, Places
      <3>2. sender.transfer + 1 \in Nat \ {0} /\ 1 \in 1 .. Len(HexFile) + 1
        BY <2>3, <3>1
      <3> QED
        BY <2>1, <3>2 DEF Places
    <2>5. HexTypeOK' /\ PlaceOK'
      BY <2>1, <2>3, <2>4 DEF HexInv, HexTypeOK, PlaceOK, Sending
    <2>6. BaseOK' /\ LineParsed'
      BY <2>1, <2>4 DEF HexInv, BaseOK, LineParsed
    <2>7. SegmentKept'
      BY <2>1, <2>2, <2>4 DEF HexInv, SegmentKept
    <2>8. WholeLineIsStored'
      BY <2>1 DEF HexInv, WholeLineIsStored, Stored
    <2> QED
      BY <2>5, <2>6, <2>7, <2>8 DEF HexInv
  <1>4. CASE Go \/ UNCHANGED hexVars
    <2>1. hex' = hex /\ memory' = memory /\ history' = history /\ lost' = lost /\ sender' = sender
      BY <1>4 DEF Go, hexVars
    <2> QED
      BY <2>1 DEF HexInv, HexTypeOK, PlaceOK, BaseOK, LineParsed, SegmentKept, WholeLineIsStored,
         Sending, Stored, Parsed, DataRead
  <1> QED
    BY <1>1, <1>2, <1>3, <1>4 DEF HexNext

\* The invariant of the loader.
\* Code behaviour: notmain of bootloader07.c.
THEOREM HexInvariant == HexSpec => []HexInv
  BY HexInitially, HexStep, PTL DEF HexSpec

\* A line that came whole is in memory, at the segment the lines before say,
\* whatever was missed earlier: for every file, and any number of characters
\* that are missed and of transfers.
\* Code behaviour: "if(ra==':')" in notmain, in any state.
THEOREM WholeLineIsStoredHolds == HexSpec => []WholeLineIsStored
  BY HexInvariant, PTL DEF HexInv

-----------------------------------------------------------------------------
(* Serial boot loader: the image *)

\* the segment of a line
LEMMA BaseIs ==
    /\ BaseAt(0) = 0
    /\ \A i \in 1 .. Len(HexFile) :
          BaseAt(i) = IF HexFile[i].type = 2 THEN SegmentOf(HexFile[i]) ELSE BaseAt(i - 1)
  <1> DEFINE Segments(i) == {j \in 1 .. i : HexFile[j].type = 2}
  <1>1. BaseAt(0) = 0
    <2>1. Segments(0) = {}
      OBVIOUS
    <2> QED
      BY <2>1 DEF BaseAt
  <1>2. ASSUME NEW i \in 1 .. Len(HexFile)
        PROVE  BaseAt(i) = IF HexFile[i].type = 2 THEN SegmentOf(HexFile[i]) ELSE BaseAt(i - 1)
    <2>1. CASE HexFile[i].type = 2
      <3> DEFINE Greatest(j) == j \in Segments(i) /\ \A k \in Segments(i) : k <= j
      <3>1. i \in Segments(i) /\ Segments(i) \subseteq Int /\ \A k \in Segments(i) : k <= i
        BY <2>1
      <3>2. (CHOOSE j \in Segments(i) : \A k \in Segments(i) : k <= j) = i
        <4> HIDE DEF Segments
        <4>1. Greatest(i)
          BY <3>1
        <4>2. \A j : Greatest(j) => j = i
          BY <3>1
        <4> QED
          BY <4>1, <4>2
      <3>3. Segments(i) # {}
        BY <3>1
      <3> QED
        BY <2>1, <3>2, <3>3 DEF BaseAt
    <2>2. CASE HexFile[i].type # 2
      <3>1. Segments(i) = Segments(i - 1)
        BY <2>2
      <3> DEFINE Of(S) == IF S = {} THEN 0
                          ELSE SegmentOf(HexFile[CHOOSE j \in S : \A k \in S : k <= j])
      <3>2. BaseAt(i) = Of(Segments(i)) /\ BaseAt(i - 1) = Of(Segments(i - 1))
        BY DEF BaseAt
      <3> HIDE DEF Segments, Of
      <3> QED
        BY <2>2, <3>1, <3>2
    <2> QED
      BY <2>1, <2>2
  <1> QED
    BY <1>1, <1>2

\* no segment is unknown
LEMMA SegmentKnown ==
    ASSUME NEW i \in 1 .. Len(HexFile), HexFile[i].type = 2
    PROVE  SegmentOf(HexFile[i]) # Unknown
  <1>1. HexFile[i].bytes[1] \in Nat /\ HexFile[i].bytes[2] \in Nat
    <2>1. HexFile[i].bytes[1] \in Byte /\ HexFile[i].bytes[2] \in Byte
      BY RecordIs
    <2> QED
      BY <2>1 DEF Byte
  <1>2. ASSUME NEW high \in Nat, NEW low \in Nat PROVE 16 * (256 * high + low) # -1
    OBVIOUS
  <1> QED
    BY <1>1, <1>2 DEF SegmentOf, Unknown

\* what a line that came whole says is the segment of the file
LEMMA BaseFollows ==
    ASSUME NEW i \in 1 .. Len(HexFile), history.base = BaseAt(i - 1), history.base # Unknown
    PROVE  Said(HexFile[i], 0) = BaseAt(i) /\ BaseAt(i) # Unknown
  <1>1. CASE HexFile[i].type = 2
    BY <1>1, BaseIs, SegmentKnown DEF Said
  <1>2. CASE HexFile[i].type # 2
    BY <1>2, BaseIs DEF Said
  <1> QED
    BY <1>1, <1>2

\* a digit is stored as the last of a word, and otherwise nothing is
LEMMA DigitStores ==
    ASSUME NEW d, hex \in Locals, Digit(d)
    PROVE  /\ hex.state # 21 => memory' = memory
           /\ hex.state = 21 => /\ DOMAIN memory' = DOMAIN memory \cup {hex.address}
                                /\ \A a \in DOMAIN memory : a # hex.address => memory'[a] = memory[a]
  <1>1. hex.state \in Int
    BY DEF Locals, States
  <1>2. CASE hex.state = 21
    BY <1>2 DEF Digit, DataDigit
  <1>3. CASE hex.state # 21
    BY <1>3 DEF Digit, DataDigit
  <1> QED
    BY <1>2, <1>3

\* the addresses up to the next character
LEMMA WordsGrow ==
    ASSUME NEW i, NEW n \in Int
    PROVE  /\ n < 18 => HexWords(i, WholeWords(n)) = {}
           /\ n >= 10 /\ (n - 10) % 8 = 7 =>
                HexWords(i, WholeWords(n + 1)) =
                    HexWords(i, WholeWords(n)) \cup {WordAddress(i, WholeWords(n), BaseAt(i))}
           /\ n >= 10 /\ (n - 10) % 8 # 7 => HexWords(i, WholeWords(n + 1)) = HexWords(i, WholeWords(n))
  <1> DEFINE q == WholeWords(n)
  <1>1. q \in Int /\ (n < 18 => q <= 0) /\ (n >= 10 => q >= 0)
    BY DEF WholeWords
  <1>2. /\ n >= 10 /\ (n - 10) % 8 = 7 => WholeWords(n + 1) = q + 1
        /\ n >= 10 /\ (n - 10) % 8 # 7 => WholeWords(n + 1) = q
    BY DEF WholeWords
  <1> HIDE DEF q
  <1>3. n < 18 => 0 .. q - 1 = {}
    BY <1>1
  <1>4. n >= 10 => 0 .. (q + 1) - 1 = (0 .. q - 1) \cup {q}
    BY <1>1
  <1>5. n < 18 => HexWords(i, q) = {}
    BY <1>3 DEF HexWords
  <1>6. n >= 10 => HexWords(i, q + 1) = HexWords(i, q) \cup {WordAddress(i, q, BaseAt(i))}
    BY <1>4 DEF HexWords
  <1>7. q = WholeWords(n)
    BY DEF q
  <1> QED
    BY <1>2, <1>5, <1>6, <1>7

\* none of them at the beginning of a line
LEMMA NoWords ==
    ASSUME NEW i
    PROVE  HexWords(i, WholeWords(1)) = {}
  <1>1. 0 .. WholeWords(1) - 1 = {}
    BY DEF WholeWords
  <1> QED
    BY <1>1 DEF HexWords

\* A character of the first transfer, with nothing missed so far.
LEMMA LoadMiddle ==
    ASSUME HexInv, Receive, NEW i, NEW n, i = sender.line, n = sender.at, n < Len(Texts[i]),
           LoadedUpTo(i, n)
    PROVE  LoadedUpTo(i, n + 1)' /\ sender'.line = i /\ sender'.at = n + 1
  <1> DEFINE last == Len(Texts[i])
             t == Texts[i]
             q == WholeWords(n)
             base == BaseAt(i)
  <1>1. Sending /\ NextChar /\ Follow(TRUE) /\ uart_recv(Char)
    BY DEF Receive
  <1>2. HexTypeOK /\ PlaceOK /\ LineParsed
    BY DEF HexInv
  <1>3. /\ i \in 1 .. Len(HexFile) /\ n \in 1 .. last /\ last \in Int /\ last >= 12 /\ n < last
        /\ hex \in Locals /\ history.missed = 0 /\ Len(HexFile) \in Nat
    BY <1>1, <1>2, PlaceIs, LinesAre DEF LoadedUpTo
  <1>4. /\ history'.missed = 0 /\ sender'.line = i /\ sender'.at = n + 1
        /\ history'.base = history.base
    <2>1. MissedBefore = 0
      BY <1>3 DEF MissedBefore
    <2>2. Remembers(0)
      BY <1>1, <2>1, FollowIs
    <2> QED
      BY <1>1, <1>2, <2>2, NextIs
  <1>5. /\ n = 1 => memory' = memory
        /\ n # 1 => n \in 2 .. last - 1 /\ Digit(t[n])
    <2>1. n # last
      BY <1>3
    <2> QED
      BY <1>1, <1>2, <2>1, CharTaken
  <1>6. n # 1 => Parsed(i, HexFile[i], n)
    <2> SUFFICES ASSUME n # 1 PROVE Parsed(i, HexFile[i], n)
      OBVIOUS
    <2>1. n > 1
      BY <1>3
    <2> QED
      BY <1>1, <1>2, <1>3, <2>1 DEF LineParsed
  <1>7. n # 1 => (hex.state = 21 <=> Loads(i) /\ n >= 10 /\ (n - 10) % 8 = 7)
    <2>0. n # 1 => hex.state = StateAt(HexFile[i], n)
      BY <1>6 DEF Parsed
    <2> SUFFICES ASSUME n # 1, hex.state = StateAt(HexFile[i], n)
                 PROVE  hex.state = 21 <=> Loads(i) /\ n >= 10 /\ (n - 10) % 8 = 7
      BY <2>0
    <2>1. n \in Int /\ (n - 10) % 8 \in 0 .. 7
      <3>1. n \in Int
        BY <1>3
      <3> QED
        BY <3>1
    <2>2. CASE n <= 9
      BY <2>1, <2>2 DEF StateAt
    <2>3. CASE n > 9 /\ HexFile[i].type = 0
      <3>1. hex.state = 14 + ((n - 10) % 8)
        BY <2>1, <2>3 DEF StateAt
      <3> QED
        BY <2>1, <2>3, <3>1 DEF Loads
    <2>4. CASE n > 9 /\ HexFile[i].type # 0
      <3>1. hex.state \in {n - 1, 0} /\ (hex.state = n - 1 => n <= 14)
        BY <2>1, <2>4 DEF StateAt
      <3> QED
        BY <2>1, <2>4, <3>1 DEF Loads
    <2> QED
      BY <2>1, <2>2, <2>3, <2>4
  <1>8. base = history.base \/ ~Loads(i)
    BY <1>3, BaseIs DEF Loads, LoadedUpTo
  <1>9. n # 1 /\ hex.state = 21 => hex.address = WordAddress(i, q, base)
    BY <1>6, <1>7, <1>8 DEF Parsed, DataRead, LoadedUpTo, Loads, WholeWords
  <1>10. q \in Int /\ (n # 1 /\ hex.state = 21 => q \in 0 .. WordsOf(i) - 1)
    <2> DEFINE w == (last - 10) \div 8
    <2>1. n \in Int /\ last \in Int /\ n < last
      BY <1>3
    <2>2. WordsOf(i) = w
      BY DEF WordsOf
    <2> HIDE DEF last
    <2>3. q \in Int /\ w \in Int /\ (n >= 10 => q >= 0)
      BY <2>1 DEF WholeWords
    <2>4. (n - 10) % 8 = 7 => last - 10 >= 8 * q + 8
      <3>1. n - 10 = 8 * q + ((n - 10) % 8)
        <4>1. \A x \in Int : x = 8 * (x \div 8) + (x % 8)
          OBVIOUS
        <4>2. q = (n - 10) \div 8 /\ n - 10 \in Int
          BY <2>1 DEF WholeWords
        <4> HIDE DEF q
        <4> QED
          BY <4>1, <4>2
      <3> HIDE DEF q
      <3>2. (n - 10) % 8 = 7 => n - 10 = 8 * q + 7
        BY <3>1
      <3> QED
        BY <2>1, <2>3, <3>2
    <2>5. \A x \in Int : last - 10 >= 8 * x + 8 => x + 1 <= w
      BY <2>1
    <2>6. n >= 10 /\ (n - 10) % 8 = 7 => q + 1 <= w
      BY <2>3, <2>4, <2>5
    <2> HIDE DEF q, w
    <2>7. n >= 10 /\ (n - 10) % 8 = 7 => q \in 0 .. w - 1
      BY <2>3, <2>6
    <2> QED
      BY <1>7, <2>2, <2>3, <2>7
  <1>11. /\ n # 1 /\ hex.state = 21 =>
               /\ DOMAIN memory' = DOMAIN memory \cup {WordAddress(i, q, base)}
               /\ \A a \in DOMAIN memory : a # WordAddress(i, q, base) => memory'[a] = memory[a]
         /\ ~(n # 1 /\ hex.state = 21) => memory' = memory
    BY <1>3, <1>5, <1>9, DigitStores
  <1>12. \A j \in 1 .. i - 1 : Loads(j) => Stored(j, BaseAt(j))'
    <2> SUFFICES ASSUME NEW j \in 1 .. i - 1, Loads(j), NEW k \in 0 .. WordsOf(j) - 1
                 PROVE  LET a == WordAddress(j, k, BaseAt(j))
                        IN  a \in DOMAIN memory' /\ memory'[a] = WordOf(j, k)
      BY DEF Stored
    <2> DEFINE a == WordAddress(j, k, BaseAt(j))
    <2>1. a \in DOMAIN memory /\ memory[a] = WordOf(j, k)
      BY DEF LoadedUpTo, Stored
    <2>2. j \in 1 .. Len(HexFile) /\ j # i
      BY <1>3
    <2>3. n # 1 /\ hex.state = 21 => a # WordAddress(i, q, base)
      BY <1>3, <1>7, <1>10, <2>2, ImageAssumption
    <2> HIDE DEF a
    <2> QED
      BY <1>11, <2>1, <2>3 DEF a
  <1>13. DOMAIN memory' = WordsRead(i, n + 1)
    <2>1. DOMAIN memory = WordsRead(i, n)
      BY DEF LoadedUpTo
    <2>2. n \in Int /\ n + 1 \in Int
      BY <1>3
    <2>3. /\ n < 18 => HexWords(i, WholeWords(n)) = {}
          /\ n + 1 < 18 => HexWords(i, WholeWords(n + 1)) = {}
      BY <2>2, WordsGrow
    <2>4. /\ n >= 10 /\ (n - 10) % 8 = 7 =>
                HexWords(i, WholeWords(n + 1)) =
                    HexWords(i, WholeWords(n)) \cup {WordAddress(i, WholeWords(n), BaseAt(i))}
          /\ n >= 10 /\ (n - 10) % 8 # 7 => HexWords(i, WholeWords(n + 1)) = HexWords(i, WholeWords(n))
      BY <2>2, WordsGrow
    <2>5. CASE n # 1 /\ hex.state = 21
      <3>1. Loads(i) /\ n >= 10 /\ (n - 10) % 8 = 7 /\ i <= Len(HexFile)
        BY <1>3, <1>7, <2>5
      <3>2. HexWords(i, WholeWords(n + 1)) = HexWords(i, WholeWords(n)) \cup {WordAddress(i, q, base)}
        BY <2>4, <3>1
      <3>3. DOMAIN memory' = DOMAIN memory \cup {WordAddress(i, q, base)}
        BY <1>11, <2>5
      <3> HIDE DEF q, base
      <3>4. WordsRead(i, n + 1) = WordsBefore(i) \cup HexWords(i, WholeWords(n + 1))
        BY <3>1 DEF WordsRead
      <3>5. WordsRead(i, n) = WordsBefore(i) \cup HexWords(i, WholeWords(n))
        BY <3>1 DEF WordsRead
      <3> QED
        BY <2>1, <3>2, <3>3, <3>4, <3>5
    <2>6. CASE ~(n # 1 /\ hex.state = 21)
      <3>1. ~Loads(i) \/ n < 10 \/ (n - 10) % 8 # 7
        BY <1>3, <1>7, <2>6
      <3>2. Loads(i) => HexWords(i, WholeWords(n + 1)) = HexWords(i, WholeWords(n))
        <4>1. n < 10 => n < 18 /\ n + 1 < 18
          BY <2>2
        <4>2. n < 10 \/ n >= 10
          BY <2>2
        <4> QED
          BY <2>3, <2>4, <3>1, <4>1, <4>2
      <3>3. WordsRead(i, n + 1) = WordsRead(i, n)
        BY <3>2 DEF WordsRead
      <3>4. memory' = memory
        BY <1>11, <2>6
      <3> QED
        BY <2>1, <3>3, <3>4
    <2> QED
      BY <2>5, <2>6
  <1> QED
    BY <1>4, <1>12, <1>13 DEF LoadedUpTo

\* the end of a line of the first transfer
LEMMA LoadEnd ==
    ASSUME HexInv, HexInv', Receive, NEW i, NEW n, i = sender.line, n = sender.at, n = Len(Texts[i]),
           LoadedUpTo(i, n)
    PROVE  LoadedUpTo(i + 1, 1)' /\ sender'.line = i + 1 /\ sender'.at = 1
  <1>1. Sending /\ NextChar /\ Follow(TRUE) /\ uart_recv(Char)
    BY DEF Receive
  <1>2. HexTypeOK /\ PlaceOK /\ WholeLineIsStored'
    BY DEF HexInv
  <1>3. /\ i \in 1 .. Len(HexFile) /\ n \in Int /\ n >= 12 /\ hex \in Locals
        /\ history.missed = 0 /\ Len(HexFile) \in Nat
    BY <1>1, <1>2, PlaceIs, LinesAre DEF LoadedUpTo
  <1>4. /\ history'.missed = 0 /\ sender'.line = i + 1 /\ sender'.at = 1
        /\ history'.base = Said(HexFile[i], 0) /\ history'.ended = i
    <2>1. MissedBefore = 0
      BY <1>3 DEF MissedBefore
    <2>2. Remembers(0)
      BY <1>1, <2>1, FollowIs
    <2> QED
      BY <1>1, <1>2, <2>2, NextIs
  <1>5. memory' = memory
    BY <1>1, <1>2, CharTaken
  <1>6. history'.base = BaseAt(i) /\ history'.base # Unknown
    BY <1>3, <1>4, BaseFollows DEF LoadedUpTo
  <1>7. \A j \in 1 .. i : Loads(j) => Stored(j, BaseAt(j))'
    <2>1. \A j \in 1 .. i - 1 : Loads(j) => Stored(j, BaseAt(j))'
      BY <1>5 DEF LoadedUpTo, Stored
    <2>2. Loads(i) => Stored(i, BaseAt(i))'
      BY <1>2, <1>3, <1>4, <1>6 DEF WholeLineIsStored, Stored
    <2>3. \A j \in 1 .. i : j \in 1 .. i - 1 \/ j = i
      BY <1>3
    <2> QED
      BY <2>1, <2>2, <2>3
  <1>8. WordsRead(i + 1, 1) = WordsRead(i, n)
    <2>1. HexWords(i + 1, WholeWords(1)) = {}
      BY NoWords
    <2>2. WholeWords(n) = WordsOf(i)
      BY DEF WordsOf, WholeWords
    <2>3. WordsBefore(i + 1) = WordsBefore(i) \cup (IF Loads(i) THEN HexWords(i, WordsOf(i)) ELSE {})
      <3>1. 1 .. (i + 1) - 1 = (1 .. i - 1) \cup {i}
        BY <1>3
      <3> QED
        BY <3>1 DEF WordsBefore
    <2>4. i <= Len(HexFile)
      BY <1>3
    <2> QED
      BY <2>1, <2>2, <2>3, <2>4 DEF WordsRead
  <1> QED
    <2>1. (i + 1) - 1 = i
      BY <1>3
    <2> QED
      BY <1>4, <1>5, <1>6, <1>7, <1>8, <2>1 DEF LoadedUpTo

\* every step keeps the image
LEMMA ImageStep == HexInv /\ HexInv' /\ ImageInv /\ [HexNext]_hexVars => ImageInv'
  <1> SUFFICES ASSUME HexInv, HexInv', ImageInv, [HexNext]_hexVars,
                      sender'.transfer = 1, lost' = 0
               PROVE  LoadedUpTo(sender.line, sender.at)'
    BY DEF ImageInv
  <1>1. sender.transfer \in Nat \ {0} /\ lost \in Nat
    BY DEF HexInv, HexTypeOK, Places
  <1>2. CASE Receive
    <2>1. Sending /\ lost = 0 /\ sender.transfer = 1
      BY <1>2 DEF Receive, NextChar
    <2>2. LoadedUpTo(sender.line, sender.at)
      BY <2>1 DEF ImageInv
    <2>3. sender.at < Len(Texts[sender.line]) \/ sender.at = Len(Texts[sender.line])
      BY <2>1, PlaceIs DEF HexInv
    <2>4. PICK i, n : i = sender.line /\ n = sender.at
      OBVIOUS
    <2>5. CASE n < Len(Texts[i])
      <3>1. LoadedUpTo(i, n + 1)' /\ sender'.line = i /\ sender'.at = n + 1
        BY <1>2, <2>2, <2>4, <2>5, LoadMiddle
      <3> QED
        BY <3>1 DEF LoadedUpTo
    <2>6. CASE n = Len(Texts[i])
      <3>1. LoadedUpTo(i + 1, 1)' /\ sender'.line = i + 1 /\ sender'.at = 1
        BY <1>2, <2>2, <2>4, <2>6, LoadEnd
      <3> QED
        BY <3>1 DEF LoadedUpTo
    <2> QED
      BY <2>3, <2>4, <2>5, <2>6
  <1>3. CASE Miss
    BY <1>1, <1>3 DEF Miss
  <1>4. CASE SendAgain
    BY <1>1, <1>4 DEF SendAgain
  <1>5. CASE Go \/ UNCHANGED hexVars
    <2>1. memory' = memory /\ history' = history /\ lost' = lost /\ sender' = sender
      BY <1>5 DEF Go, hexVars
    <2>2. LoadedUpTo(sender.line, sender.at)
      BY <2>1 DEF ImageInv
    <2> QED
      BY <2>1, <2>2 DEF LoadedUpTo, Stored
  <1> QED
    BY <1>2, <1>3, <1>4, <1>5 DEF HexNext

\* the beginning
LEMMA ImageInitially == HexInit => ImageInv
  <1>0. HexInit => sender.line = 1 /\ sender.at = 1
    BY DEF HexInit
  <1> SUFFICES ASSUME HexInit, sender.line = 1, sender.at = 1 PROVE LoadedUpTo(sender.line, sender.at)
    BY <1>0 DEF ImageInv
  <1>1. WordsRead(1, 1) = {}
    <2>1. HexWords(1, WholeWords(1)) = {}
      BY NoWords
    <2>2. WordsBefore(1) = {}
      BY DEF WordsBefore
    <2> QED
      BY <2>1, <2>2 DEF WordsRead
  <1>2. DOMAIN memory = {}
    BY DEF HexInit
  <1>3. history.missed = 0 /\ history.base = BaseAt(1 - 1) /\ history.base # Unknown
    BY BaseIs DEF HexInit, Unknown
  <1>4. 1 .. 1 - 1 = {}
    OBVIOUS
  <1> QED
    BY <1>1, <1>2, <1>3, <1>4 DEF LoadedUpTo

\* what has been read when the file ends is the image
LEMMA ImageIs == HexInv /\ ImageInv => ImageLoaded
  <1> SUFFICES ASSUME HexInv, ImageInv, sender.transfer = 1, ~Sending, lost = 0
               PROVE  /\ \A i \in 1 .. Len(HexFile) : Loads(i) => Stored(i, BaseAt(i))
                      /\ DOMAIN memory =
                           UNION {{WordAddress(i, k, BaseAt(i)) : k \in 0 .. WordsOf(i) - 1} :
                                      i \in {j \in 1 .. Len(HexFile) : Loads(j)}}
    BY DEF ImageLoaded
  <1> DEFINE last == Len(HexFile)
  <1>1. last \in Nat /\ sender.line = last + 1
    BY LinesAre DEF HexInv, HexTypeOK, Places, Sending
  <1>2. LoadedUpTo(last + 1, sender.at)
    BY <1>1 DEF ImageInv
  <1>3. (last + 1) - 1 = last /\ ~(last + 1 <= last)
    BY <1>1
  <1>4. \A i \in 1 .. last : Loads(i) => Stored(i, BaseAt(i))
    BY <1>2, <1>3 DEF LoadedUpTo
  <1>5. DOMAIN memory = WordsBefore(last + 1)
    BY <1>2, <1>3 DEF LoadedUpTo, WordsRead
  <1>6. WordsBefore(last + 1) = UNION {HexWords(j, WordsOf(j)) : j \in {h \in 1 .. last : Loads(h)}}
    BY <1>3 DEF WordsBefore
  <1> QED
    BY <1>4, <1>5, <1>6 DEF HexWords

\* The image of the first transfer.
\* Code behaviour: notmain.
THEOREM ImageLoadedHolds == HexSpec => []ImageLoaded
  <1>1. HexInit => HexInv /\ ImageInv
    BY HexInitially, ImageInitially
  <1>2. HexInv /\ ImageInv /\ [HexNext]_hexVars => (HexInv /\ ImageInv)'
    BY HexStep, ImageStep
  <1>3. HexInv /\ ImageInv => ImageLoaded
    BY ImageIs
  <1> QED
    BY <1>1, <1>2, <1>3, PTL DEF HexSpec

-----------------------------------------------------------------------------
(* All parts *)

\* Every part keeps its types, for every counter, every sequence of volumes and
\* every directory of files: the declarations in timer.h, ext2.c and syscalls.c.
THEOREM PartsTypeCorrect == TimerSpec /\ Ext2Spec /\ SysSpec => []PartsTypeOK
  <1>1. TimerTypeOK /\ Ext2TypeOK /\ SysTypeOK => PartsTypeOK
    BY DEF PartsTypeOK
  <1> QED
    BY TimerTypeCorrect, Ext2TypeCorrect, SysTypeCorrect, <1>1, PTL
=============================================================================
