------------------------------ MODULE HexLoader ------------------------------
(***************************************************************************)
(* bootloader/bootloader07.c: the loader that receives a kernel image over *)
(* the serial line, as the text of an Intel hex file, and starts it.  A    *)
(* step is one character.  The line has no flow control, so the loader may *)
(* miss a character; the sender may send the file again.                   *)
(*                                                                         *)
(* A digit is its value.  The bytes of a word that is stored are kept as   *)
(* the digits the file has for them: the loader swaps them around so that  *)
(* they lie in memory in that order.  The sum, the LED and the output are  *)
(* left out: nothing depends on them.                                      *)
(***************************************************************************)
EXTENDS Integers, Sequences

CONSTANTS
    HexFile,        \* sequence of records
    MaxLost,        \* bound: characters that are missed
    MaxTransfers    \* bound: times the file is sent

Colon   == 16
NewLine == 17

Unknown == -1

Byte   == {n \in Nat : n < 256}
Short  == {n \in Nat : n < 65536}
Bytes  == Seq(Byte)
HexRecord == [type : Byte, address : Short, bytes : Bytes, check : Byte]

\* the segment that a record of type 2 sets: its bytes are the number of a paragraph
SegmentOf(r) == 16 * (256 * r.bytes[1] + r.bytes[2])

\* on a boundary of 64 KiB
Aligned(segment) == segment % 65536 = 0

\* As objcopy writes them the segments are boundaries of 64 KiB.  With others the
\* loader, which ors the segment into each digit, does not find the addresses.
ASSUME HexAssumption ==
    /\ HexFile \in Seq(HexRecord)
    /\ \A i \in 1 .. Len(HexFile) :
          /\ Len(HexFile[i].bytes) <= 255
          /\ HexFile[i].type = 2 => Len(HexFile[i].bytes) = 2 /\ Aligned(SegmentOf(HexFile[i]))
    /\ MaxLost \in Nat /\ MaxTransfers \in Nat

VARIABLES
    hex,      \* the locals of notmain
    memory,   \* address -> the word stored there, for the words that were
    started,  \* BRANCHTO(0x8000) has been called
    sender,   \* [transfer, line, at]: the next character of the file
    lost,     \* characters missed so far
    history   \* [missed, base, ended]: the first character of this line that was
              \* missed, or 0; the segment that the lines so far say; the line
              \* that came whole and has ended just now, or 0

hexVars == <<hex, memory, started, sender, lost, history>>

HexInit ==
    /\ hex = [state |-> 0, address |-> 0, record_type |-> 0, segment |-> 0, data |-> <<>>]
    /\ memory = [a \in {} |-> <<>>]
    /\ started = FALSE
    /\ sender = [transfer |-> 1, line |-> 1, at |-> 1]
    /\ lost = 0
    /\ history = [missed |-> 0, base |-> 0, ended |-> 0]

-----------------------------------------------------------------------------
(* The file *)

\* what a record is in the file: its bytes with two digits each; the checksum is
\* any byte, since the loader does not look at it
Text(r) ==
    LET body  == <<Len(r.bytes), r.address \div 256, r.address % 256, r.type>> \o r.bytes \o <<r.check>>
        last  == 2 * Len(body) + 2
        Hex(n) == IF n % 2 = 0 THEN body[n \div 2] \div 16 ELSE body[n \div 2] % 16
    IN  [n \in 1 .. last |-> IF n = 1 THEN Colon ELSE IF n = last THEN NewLine ELSE Hex(n)]

Texts == [i \in 1 .. Len(HexFile) |-> Text(HexFile[i])]

Char == Texts[sender.line][sender.at]

Sending == sender.line <= Len(HexFile)

NextChar ==
    sender' = IF sender.at < Len(Texts[sender.line])
              THEN [sender EXCEPT !.at = @ + 1]
              ELSE [sender EXCEPT !.line = @ + 1, !.at = 1]

-----------------------------------------------------------------------------
(* notmain *)

Bits == <<1, 2, 4, 8, 16, 32, 64, 128, 256, 512, 1024, 2048, 4096, 8192, 16384, 32768>>

\* address | segment, for an address of 16 bits: the bits it lacks are added
Or(address, segment) ==
    LET low == segment % 65536
        or[n \in 0 .. 16] ==
          IF n = 0 THEN address + (segment - low)
          ELSE IF (low \div Bits[n]) % 2 > (address \div Bits[n]) % 2
               THEN or[n - 1] + Bits[n] ELSE or[n - 1]
    IN  or[16]

\* another digit of a number of 8 or of 16 bits
Shifted8(x, d) == (x * 16 + d) % 256
Shifted16(x, d) == (x * 16 + d) % 65536

AddressDigit(d) ==
    hex' = [hex EXCEPT !.address = Or(Shifted16(@, d), hex.segment), !.state = @ + 1]

\* the state after the type of a record
StateOfType(t) == CASE t = 0 -> 14 [] t = 2 -> 9 [] OTHER -> 0

TypeDigit(d) ==
    LET t == Shifted8(hex.record_type, d)
    IN  hex' = [hex EXCEPT !.record_type = t,
                           !.state = IF hex.state = 7 THEN 8 ELSE StateOfType(t)]

SegmentDigit(d) ==
    hex' = [hex EXCEPT !.segment = Shifted16(@, d), !.state = @ + 1]

\* a deviation: the segment is not scaled
KeepSegment == hex' = [hex EXCEPT !.state = 0]

\* a paragraph has 16 bytes; this is done when the checksum begins
ScaleSegment == hex' = [hex EXCEPT !.segment = @ * 16, !.state = 0]

\* the word, and those after it, until the line ends
DataDigit(d) ==
    LET data == IF hex.state = 14 THEN <<d>> ELSE Append(hex.data, d)
    IN  \/ /\ hex.state = 21
           /\ memory' = [a \in DOMAIN memory \cup {hex.address} |->
                            IF a = hex.address THEN data ELSE memory[a]]
           /\ hex' = [hex EXCEPT !.data = <<>>, !.address = @ + 4, !.state = 14]
        \/ /\ hex.state # 21
           /\ hex' = [hex EXCEPT !.data = data, !.state = @ + 1]
           /\ UNCHANGED memory

\* a deviation: a line that is not complete is continued
StateAfterColon == IF hex.state = 0 THEN 1 ELSE hex.state

NewRecord == 1

Digit(d) ==
    \/ hex.state = 0 /\ UNCHANGED <<hex, memory>>
    \/ hex.state \in 1 .. 2 /\ hex' = [hex EXCEPT !.state = @ + 1] /\ UNCHANGED memory
    \/ hex.state \in 3 .. 6 /\ AddressDigit(d) /\ UNCHANGED memory
    \/ hex.state \in 7 .. 8 /\ TypeDigit(d) /\ UNCHANGED memory
    \/ hex.state \in 9 .. 12 /\ SegmentDigit(d) /\ UNCHANGED memory
    \/ hex.state = 13 /\ ScaleSegment /\ UNCHANGED memory
    \/ hex.state \in 14 .. 21 /\ DataDigit(d)

uart_recv(c) ==
    \/ c = Colon /\ hex' = [hex EXCEPT !.state = NewRecord] /\ UNCHANGED memory
    \/ c = NewLine /\ hex' = [hex EXCEPT !.state = 0] /\ UNCHANGED memory
    \/ c \notin {Colon, NewLine} /\ Digit(c)

\* what a line says of the segment; a header that is damaged may say anything
Said(r, missed) ==
    CASE r.type = 2 /\ missed = 0 -> SegmentOf(r)
      [] r.type = 2 /\ missed # 0 -> Unknown
      [] r.type # 2 -> IF missed \in 2 .. 9 THEN Unknown ELSE history.base

Follow(arrived) ==
    LET line   == sender.line
        before == IF sender.at = 1 THEN 0 ELSE history.missed
        missed == IF before = 0 /\ ~arrived THEN sender.at ELSE before
        ends   == sender.at = Len(Texts[line])
    IN  history' = [missed |-> missed,
                    base   |-> IF ends THEN Said(HexFile[line], missed) ELSE history.base,
                    ended  |-> IF ends /\ missed = 0 THEN line ELSE 0]

Receive ==
    /\ ~started /\ Sending
    /\ uart_recv(Char)
    /\ NextChar /\ Follow(TRUE)
    /\ UNCHANGED <<started, lost>>

\* the next character comes before this one has been taken
Miss ==
    /\ ~started /\ Sending
    /\ lost < MaxLost
    /\ lost' = lost + 1
    /\ NextChar /\ Follow(FALSE)
    /\ UNCHANGED <<hex, memory, started>>

SendAgain ==
    /\ ~started /\ ~Sending
    /\ sender.transfer < MaxTransfers
    /\ sender' = [transfer |-> sender.transfer + 1, line |-> 1, at |-> 1]
    /\ UNCHANGED <<hex, memory, started, lost, history>>

\* 'g' in any state
Go ==
    /\ ~started /\ ~Sending
    /\ started' = TRUE
    /\ UNCHANGED <<hex, memory, sender, lost, history>>

HexNext == Receive \/ Miss \/ SendAgain \/ Go

HexSpec == HexInit /\ [][HexNext]_hexVars

-----------------------------------------------------------------------------
(* Properties *)

\* the words a line fills, with the digits that follow each byte of it; the
\* last one may take in the checksum
WordsOf(i) == (Len(Texts[i]) - 10) \div 8
WordOf(i, k) == SubSeq(Texts[i], 10 + 8 * k, 17 + 8 * k)

Loads(i) == HexFile[i].type = 0

WordAddress(i, k, base) == base + HexFile[i].address + 4 * k

Stored(i, base) ==
    \A k \in 0 .. WordsOf(i) - 1 :
        LET a == WordAddress(i, k, base)
        IN  a \in DOMAIN memory /\ memory[a] = WordOf(i, k)

\* A line that came whole is in memory, where the lines before it say, whatever
\* was missed earlier: the loader finds its way back at the next colon.  What it
\* cannot find again before the next segment record is the segment, if one of
\* these or the header of another line was damaged.
\* Code behaviour: "if(ra==':')" in notmain, in any state.
WholeLineIsStored ==
    LET i == history.ended
    IN  i # 0 /\ history.base # Unknown /\ Loads(i) => Stored(i, history.base)

\* the segment that line i has in the file: that of the last record of one
BaseAt(i) ==
    LET Segments == {j \in 1 .. i : HexFile[j].type = 2}
    IN  IF Segments = {} THEN 0
        ELSE SegmentOf(HexFile[CHOOSE j \in Segments : \A k \in Segments : k <= j])

\* the words of an image have places of their own
ASSUME ImageAssumption ==
    \A i, j \in 1 .. Len(HexFile) : Loads(i) /\ Loads(j) /\ i # j =>
        \A k \in 0 .. WordsOf(i) - 1, n \in 0 .. WordsOf(j) - 1 :
            WordAddress(i, k, BaseAt(i)) # WordAddress(j, n, BaseAt(j))

\* If nothing was missed in the first transfer, the image is in memory when it
\* ends, and nothing else is.  Code behaviour: notmain.
ImageLoaded ==
    sender.transfer = 1 /\ ~Sending /\ lost = 0 =>
        /\ \A i \in 1 .. Len(HexFile) : Loads(i) => Stored(i, BaseAt(i))
        /\ DOMAIN memory =
             UNION {{WordAddress(i, k, BaseAt(i)) : k \in 0 .. WordsOf(i) - 1} :
                        i \in {j \in 1 .. Len(HexFile) : Loads(j)}}
=============================================================================
