---------------------------- MODULE BlockDevice ----------------------------
(***************************************************************************)
(* What the storage stack promises the file systems above it: a device     *)
(* that serves one request at a time and reads back what was last written. *)
(* On a fault it reports an error or stops the machine, but it never       *)
(* returns wrong data as good.  This is the abstract specification that    *)
(* BlockCache implements.                                                  *)
(***************************************************************************)
EXTENDS Naturals

CONSTANTS
    NumBlocks,   \* num_blocks of struct block_device
    Value,       \* the contents a block can have
    Junk,        \* memory that nobody has filled
    MaxRun,      \* bound: the most blocks one request asks for
    Faults       \* the operations of the card that may fail

VARIABLES
    disk,    \* the blocks of the card
    call,    \* the request being served: done of its len blocks are through
    buf,     \* the caller's memory: blocks read so far, or to be written
    result   \* what the last request returned

devVars == <<disk, call, buf, result>>

Block  == 0 .. NumBlocks - 1
Offset == 0 .. MaxRun - 1
Buffer == [Offset -> Value \cup {Junk}]

Idle   == [op |-> "idle",   start |-> 0, len |-> 0, done |-> 0]
Halted == [op |-> "halted", start |-> 0, len |-> 0, done |-> 0]

\* the requests that stay inside the device
Request(op) ==
    {c \in [op : {op}, start : Block, len : 1 .. MaxRun, done : {0}] :
        c.start + c.len <= NumBlocks}

\* the buffers a caller can pass with a write request: full up to its length
Payload(c) ==
    {d \in Buffer : \A i \in Offset : d[i] = Junk <=> i >= c.len}

Empty == [i \in Offset |-> Junk]

\* the block the request has reached
Current == call.start + call.done

\* the caller's memory after the next k blocks of a read have arrived
Delivered(k) ==
    [i \in Offset |-> IF i >= call.done /\ i < call.done + k
                      THEN disk[call.start + i] ELSE buf[i]]

DeviceInit ==
    /\ disk \in [Block -> Value]
    /\ call = Idle
    /\ buf = Empty
    /\ result = "none"

Start(c, d) ==
    /\ call = Idle
    /\ call' = c
    /\ buf' = d
    /\ result' = "none"
    /\ UNCHANGED disk

Deliver(k) ==
    /\ call.op = "read"
    /\ call.done + k <= call.len
    /\ buf' = Delivered(k)
    /\ call' = [call EXCEPT !.done = @ + k]
    /\ UNCHANGED <<disk, result>>

\* the next block of a write reaches the card
Store ==
    /\ call.op = "write"
    /\ call.done < call.len
    /\ disk' = [disk EXCEPT ![Current] = buf[call.done]]
    /\ call' = [call EXCEPT !.done = @ + 1]
    /\ UNCHANGED <<buf, result>>

Finish ==
    /\ call.op \in {"read", "write"}
    /\ call.done = call.len
    /\ result' = "ok"
    /\ call' = Idle
    /\ UNCHANGED <<disk, buf>>

\* a write that was cut short left the old contents in its block, or the new
MaybeStored ==
    \/ UNCHANGED disk
    \/ /\ call.op = "write"
       /\ call.done < call.len
       /\ disk' = [disk EXCEPT ![Current] = buf[call.done]]

\* a fault is reported; blocks of a read that arrived before it are in buf
Fail ==
    /\ call.op \in Faults
    /\ call.done < call.len
    /\ MaybeStored
    /\ \/ UNCHANGED buf
       \/ /\ call.op = "read"
          /\ \E k \in 1 .. call.len - call.done : buf' = Delivered(k)
    /\ result' = "failed"
    /\ call' = Idle

\* a fault of a read stops the machine
Halt ==
    /\ call.op = "read"
    /\ "read" \in Faults
    /\ call.done < call.len
    /\ call' = Halted
    /\ UNCHANGED <<disk, buf, result>>

\* the power goes and comes back, at any moment
PowerCycle ==
    /\ MaybeStored
    /\ call' = Idle
    /\ buf' = Empty
    /\ result' = "none"

DeviceNext ==
    \/ \E c \in Request("read") : Start(c, Empty)
    \/ \E c \in Request("write") : \E d \in Payload(c) : Start(c, d)
    \/ \E k \in 1 .. MaxRun : Deliver(k)
    \/ Store
    \/ Finish
    \/ Fail
    \/ Halt
    \/ PowerCycle

DeviceSpec == DeviceInit /\ [][DeviceNext]_devVars
=============================================================================
