---------------------------- MODULE Descriptors ----------------------------
(***************************************************************************)
(* What the system calls on files promise: a table of descriptors, each    *)
(* with a file and a position of its own, so that a call through one       *)
(* descriptor touches no other.  This is the abstract specification that   *)
(* SysCalls implements.  Of a seek it asks less than the C library does,   *)
(* as _lseek returns 0 and not the position it has come to.                *)
(***************************************************************************)
EXTENDS Integers

CONSTANTS
    Descriptor,   \* descriptors that open may return
    File,
    Length,       \* file -> its length
    Closed,       \* a descriptor not in use
    MaxCount,     \* bound: the most bytes one call asks for
    MayFail       \* blocks may fail to be read

VARIABLES
    table,   \* descriptor -> what is open, and where
    result   \* what the last call returned

tableVars == <<table, result>>

Opened(f) == [file |-> f, pos |-> 0]

Free == {d \in Descriptor : table[d] = Closed}

TableInit == table = [d \in Descriptor |-> Closed] /\ result = 0

\* the lowest descriptor that is free
Open(f) ==
    \E d \in Free :
        /\ \A e \in Free : d <= e
        /\ table' = [table EXCEPT ![d] = Opened(f)]
        /\ result' = d

\* calls that open, move and close nothing
Replies == result' \in -1 .. MaxCount /\ UNCHANGED table

\* the position moves by what is returned; a failure may return less, and an
\* error is counted as a byte before
Read(d, n) ==
    /\ table[d] # Closed
    /\ \E r \in -1 .. n :
        LET rest == Length[table[d].file] - table[d].pos
        IN  /\ r <= rest
            /\ r = n \/ r = rest \/ MayFail
            /\ table' = [table EXCEPT ![d].pos = @ + r]
            /\ result' = r

\* to some position in the file; the answer is 0, wherever that is
Seek(d) ==
    /\ table[d] # Closed
    /\ \E p \in 0 .. Length[table[d].file] : table' = [table EXCEPT ![d].pos = p]
    /\ result' = 0

Close(d) ==
    /\ table[d] # Closed
    /\ table' = [table EXCEPT ![d] = Closed]
    /\ result' = 0

TableNext ==
    \/ \E f \in File : Open(f)
    \/ \E d \in Descriptor, n \in 0 .. MaxCount : Read(d, n)
    \/ \E d \in Descriptor : Seek(d) \/ Close(d)
    \/ Replies

TableSpec == TableInit /\ [][TableNext]_tableVars
=============================================================================
