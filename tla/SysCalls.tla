------------------------------ MODULE SysCalls ------------------------------
(***************************************************************************)
(* syscalls.c: the system calls that the C library makes on files, over    *)
(* mb_fopen, mb_fread, mb_fseek and mb_fclose of rboot/vfs.c.  A step is   *)
(* one call.  The files are those a card holds; FileIO says how a read     *)
(* goes, block by block, and what it returns when a block fails.           *)
(*                                                                         *)
(* The vectors of sys_io_table are left out: nothing in the sources sets   *)
(* one.  Nor is the heap ever full.                                        *)
(***************************************************************************)
EXTENDS Integers

CONSTANTS
    MaxHandles,   \* MB_MAX_FILE_HANDLES
    Struct,       \* bound: the structures malloc may hand out
    CardFile,     \* files on the card
    FileLen,      \* their lengths
    NULL,
    MaxCount,     \* bound: the most bytes one call asks for
    ReadsFail     \* blocks may fail to be read

FILE_STDERR == 2

Handle == FILE_STDERR + 1 .. MaxHandles - 1

ASSUME SysAssumption ==
    /\ MaxHandles \in Nat /\ MaxHandles > FILE_STDERR
    /\ NULL \notin Struct
    /\ FileLen \in [CardFile -> Nat]
    /\ MaxCount \in Nat
    /\ ReadsFail \in BOOLEAN
    /\ NULL \notin [file : CardFile, pos : Int]

VARIABLES
    file_handles,   \* handle -> MB_FILE *
    heap,           \* structure -> struct vfs_file, or NULL: not allocated
    sys_ret,        \* what the last call returned
    refused         \* history: the structures of files opened when no handle was free

sysVars == <<file_handles, heap, sys_ret, refused>>

SysInit ==
    /\ file_handles = [i \in Handle |-> NULL]
    /\ heap = [s \in Struct |-> NULL]
    /\ sys_ret = 0
    /\ refused = {}

-----------------------------------------------------------------------------
(* _open *)

FreeHandles == {i \in Handle : file_handles[i] = NULL}

\* a deviation: a handle may be given out twice
AnyHandle(i) == i \in Handle

\* the first that is NULL
FirstFree(i) == i \in FreeHandles /\ \A j \in FreeHandles : i <= j

\* malloc, memset
mb_fopen(f, s) ==
    /\ heap[s] = NULL
    /\ heap' = [heap EXCEPT ![s] = [file |-> f, pos |-> 0]]

_open(f) ==
    \E s \in Struct, i \in Handle :
        /\ mb_fopen(f, s)
        /\ FirstFree(i)
        /\ file_handles' = [file_handles EXCEPT ![i] = s]
        /\ sys_ret' = i
        /\ UNCHANGED refused

\* the file is open, and nobody will close it
OpenRefused(f) ==
    \E s \in Struct :
        /\ mb_fopen(f, s)
        /\ FreeHandles = {}
        /\ sys_ret' = -1
        /\ refused' = refused \cup {s}
        /\ UNCHANGED file_handles

\* no such file
OpenMissing == sys_ret' = -1 /\ UNCHANGED <<file_handles, heap, refused>>

-----------------------------------------------------------------------------
(* The calls on a handle *)

Smaller(a, b) == IF a < b THEN a ELSE b

\* what mb_fread returns; the position moves by it, and before the file there
\* is no block
Counts(f, n) ==
    LET most == Smaller(n, FileLen[f.file] - f.pos)
    IN  IF f.pos < 0 THEN {0}
        ELSE {most} \cup (IF ReadsFail /\ most > 0 THEN -1 .. most ELSE {})

_read(i, n) ==
    /\ file_handles[i] # NULL
    /\ \E r \in Counts(heap[file_handles[i]], n) :
        /\ heap' = [heap EXCEPT ![file_handles[i]].pos = @ + r]
        /\ sys_ret' = r
    /\ UNCHANGED <<file_handles, refused>>

Clamp(p, len) == IF p < 0 THEN 0 ELSE IF p > len THEN len ELSE p

\* SEEK_END counts backwards from the end; the answer is always 0
_lseek(i, ptr, dir) ==
    /\ file_handles[i] # NULL
    /\ LET f == heap[file_handles[i]]
           to == CASE dir = "SET" -> ptr
                   [] dir = "CUR" -> f.pos + ptr
                   [] dir = "END" -> FileLen[f.file] - ptr
       IN  heap' = [heap EXCEPT ![file_handles[i]].pos = Clamp(to, FileLen[f.file])]
    /\ sys_ret' = 0
    /\ UNCHANGED <<file_handles, refused>>

\* a deviation: the structure is freed and the handle kept
KeepHandle(i) == file_handles

ClearHandle(i) == [file_handles EXCEPT ![i] = NULL]

_close(i) ==
    /\ file_handles[i] # NULL
    /\ heap' = [heap EXCEPT ![file_handles[i]] = NULL]
    /\ file_handles' = ClearHandle(i)
    /\ sys_ret' = 0
    /\ UNCHANGED refused

\* the serial line, for whatever handle; reading it waits for all the bytes
StandardStreams ==
    /\ sys_ret' \in 0 .. MaxCount
    /\ UNCHANGED <<file_handles, heap, refused>>

\* a handle that is not open, the standard ones with _close
NotOpenHandle == sys_ret' = -1 /\ UNCHANGED <<file_handles, heap, refused>>

SysNext ==
    \/ \E f \in CardFile : _open(f) \/ OpenRefused(f)
    \/ OpenMissing
    \/ \E i \in Handle : (\E n \in 0 .. MaxCount : _read(i, n)) \/ _close(i)
    \/ \E i \in Handle, o \in -1 .. MaxCount, d \in {"SET", "CUR", "END"} : _lseek(i, o, d)
    \/ StandardStreams \/ NotOpenHandle

SysSpec == SysInit /\ [][SysNext]_sysVars

-----------------------------------------------------------------------------
(* Properties *)

SysTypeOK ==
    /\ file_handles \in [Handle -> Struct \cup {NULL}]
    /\ heap \in [Struct -> [file : CardFile, pos : Int] \cup {NULL}]
    /\ sys_ret \in Int
    /\ refused \subseteq Struct

\* An open handle has a live structure of its own, whatever was closed and
\* opened before: no call works on a structure that was freed, and none moves
\* the position of another handle.  Code behaviour: the search of _open, and
\* file_handles[file] = NULL in _close.
OwnStruct ==
    \A i \in Handle : file_handles[i] # NULL =>
        /\ heap[file_handles[i]] # NULL
        /\ \A j \in Handle : file_handles[j] = file_handles[i] => j = i

Named == {file_handles[i] : i \in Handle}

\* What is open and cannot be closed any more was opened when every handle was
\* in use; nothing else is ever lost, and nothing that was lost comes back.
\* Code behaviour: "if(i==MB_MAX_FILE_HANDLES) return -1" in _open.
LostOnlyWhenFull == {s \in Struct : heap[s] # NULL /\ s \notin Named} = refused

\* The table of pointers to structures that come and go is a table of
\* descriptors, each with a file and a position.  Code behaviour: _open,
\* _read, _lseek and _close.
Table == INSTANCE Descriptors WITH
    Descriptor <- Handle,
    File       <- CardFile,
    Length     <- FileLen,
    Closed     <- NULL,
    MayFail    <- ReadsFail,
    table      <- [i \in Handle |-> IF file_handles[i] = NULL THEN NULL
                                    ELSE heap[file_handles[i]]],
    result     <- sys_ret
IsDescriptorTable == Table!TableSpec
=============================================================================
