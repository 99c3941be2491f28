--------------------------- MODULE LineEditProofs ---------------------------
(***************************************************************************)
(* Proofs about LineEdit: the line is always ended where its length says,  *)
(* and stepping through the history changes only the entry that is shown,  *)
(* for a buffer of any size and lines of any length in the history, if the *)
(* completions offered fit the buffer.                                     *)
(***************************************************************************)
EXTENDS LineEdit, Induction

USE LineAssumption

Byte   == Char \cup {NUL, Junk}
Place  == 0 .. BufLen
Buffer == [Place -> Byte]
Mode   == {"idle", "edit", "complete", "escape"}

\* what the callback offers is shorter than the buffer
CompletionsFit == \A list \in Completions : \A i \in 1 .. Len(list) : Len(list[i]) < BufLen

\* a line of l characters and the byte that ends it
Ended(b, l) ==
    /\ b \in Buffer /\ l \in Place
    /\ b[l] = NUL
    /\ \A k \in 0 .. l - 1 : b[k] \in Input

LineOK == Ended(buf, len) /\ pos \in 0 .. len

HistoryOK ==
    /\ history \in Seq(Seq(Char))
    /\ max_len \in MaxLens /\ Len(history) <= max_len
    /\ index \in 0 .. (IF history = <<>> THEN 0 ELSE Len(history) - 1)
    /\ IF mode = "idle" THEN index = 0 ELSE history # <<>>

CompletionOK ==
    /\ mode \in Mode
    /\ by \in {"key", "recalled", "completed"}
    /\ comp.i \in 0 .. Len(comp.list)
    /\ comp.list = <<>> \/ comp.list \in Completions
    /\ comp = [list |-> comp.list, i |-> comp.i]

\* line s as far as the buffer can hold it
Holds(b, l, s) == l = Least(Len(s), BufLen - 1) /\ \A k \in 0 .. l - 1 : b[k] = s[k + 1]

\* until a key changes it the line is the entry it was recalled from
Shown == mode # "idle" /\ by = "recalled" => Holds(buf, len, history[Entry(index)])

Inv == LineOK /\ HistoryOK /\ CompletionOK /\ Shown

-----------------------------------------------------------------------------
(* The C library on a line *)

\* strlen and strdup of a line that is ended: a 0 byte typed in it ends it there
LEMMA StrLenOfLine ==
    ASSUME NEW b, NEW l, Ended(b, l)
    PROVE  /\ StrLen(b) \in 0 .. l
           /\ Text(b) \in Seq(Char) /\ Len(Text(b)) = StrLen(b)
           /\ \A k \in 1 .. StrLen(b) : Text(b)[k] = b[k - 1]
           /\ b[StrLen(b)] = NUL
  <1>1. l \in Nat /\ l <= BufLen /\ b[l] = NUL /\ \A k \in 0 .. l - 1 : b[k] \in Input
    BY DEF Ended, Place
  <1> DEFINE IsEnd(n) == b[n] = NUL /\ \A k \in 0 .. n - 1 : b[k] # NUL
             z == StrLen(b)
  <1>2. z \in 0 .. l /\ IsEnd(z)
    <2> DEFINE S == {n \in 0 .. l : b[n] = NUL}
    <2>1. S \subseteq Nat /\ S # {}
      BY <1>1
    <2>2. PICK m \in S : \A n \in S : m <= n
      <3> HIDE DEF S
      <3> QED
        BY <2>1, LeastExists
    <2>3. m \in 0 .. BufLen /\ m <= l /\ IsEnd(m)
      <3>1. m \in 0 .. l /\ b[m] = NUL
        BY <2>2
      <3>2. ASSUME NEW k \in 0 .. m - 1, b[k] = NUL PROVE FALSE
        <4>1. k \in S /\ k < m
          BY <1>1, <3>1, <3>2
        <4> QED
          BY <2>2, <3>1, <4>1
      <3> QED
        BY <1>1, <3>1, <3>2
    <2>4. ASSUME NEW n \in 0 .. BufLen, IsEnd(n) PROVE n = m
      <3>1. ~(n < m)
        BY <2>3, <2>4
      <3>2. ~(m < n)
        BY <2>3, <2>4
      <3> QED
        BY <2>3, <3>1, <3>2
    <2>5. z = CHOOSE n \in 0 .. BufLen : IsEnd(n)
      BY <2>3 DEF StrLen
    <2> HIDE DEF IsEnd, z
    <2>6. z \in 0 .. BufLen /\ IsEnd(z)
      BY <2>3, <2>5
    <2>7. z = m
      BY <2>4, <2>6
    <2> QED
      BY <1>1, <2>3, <2>7
  <1>3. Text(b) = [k \in 1 .. z |-> b[k - 1]]
    BY DEF Text
  <1> HIDE DEF z
  <1>4. ASSUME NEW k \in 1 .. z PROVE b[k - 1] \in Char
    <2>1. k - 1 \in 0 .. l - 1 /\ k - 1 \in 0 .. z - 1
      BY <1>1, <1>2
    <2> QED
      BY <1>1, <1>2, <2>1 DEF Input
  <1>5. Text(b) \in [1 .. z -> Char] /\ z \in Nat
    BY <1>1, <1>2, <1>3, <1>4
  <1> QED
    BY <1>2, <1>3, <1>5 DEF z

\* a line of characters only is all of its text
LEMMA TextOfLine ==
    ASSUME NEW b, NEW l, Ended(b, l), \A k \in 0 .. l - 1 : b[k] \in Char
    PROVE  /\ StrLen(b) = l
           /\ Text(b) \in Seq(Char) /\ Len(Text(b)) = l
           /\ \A k \in 1 .. l : Text(b)[k] = b[k - 1]
  <1>1. /\ StrLen(b) \in 0 .. l /\ b[StrLen(b)] = NUL /\ l \in Nat
        /\ Text(b) \in Seq(Char) /\ Len(Text(b)) = StrLen(b)
        /\ \A k \in 1 .. StrLen(b) : Text(b)[k] = b[k - 1]
    BY StrLenOfLine DEF Ended, Place
  <1>2. StrLen(b) = l
    BY <1>1
  <1> QED
    BY <1>1, <1>2

\* strncpy of an entry, cut to the buffer
LEMMA CopyOfEntry ==
    ASSUME NEW b \in Buffer, NEW s \in Seq(Char),
           NEW c, c = [strncpy(b, s, BufLen) EXCEPT ![BufLen - 1] = NUL]
    PROVE  /\ Ended(c, Least(Len(s), BufLen - 1))
           /\ Holds(c, Least(Len(s), BufLen - 1), s)
           /\ \A k \in 0 .. Least(Len(s), BufLen - 1) - 1 : c[k] \in Char
  <1> DEFINE l == Least(Len(s), BufLen - 1)
  <1>1. l \in Nat /\ l <= BufLen - 1 /\ l <= Len(s) /\ (l = Len(s) \/ l = BufLen - 1)
    BY DEF Least
  <1>2. strncpy(b, s, BufLen) = [k \in Place |->
            IF k >= BufLen THEN b[k] ELSE IF k < Len(s) THEN s[k + 1] ELSE NUL]
    BY DEF strncpy, Place
  <1>3. \A k \in Place : c[k] = IF k = BufLen - 1 THEN NUL
                                ELSE IF k >= BufLen THEN b[k] ELSE IF k < Len(s) THEN s[k + 1] ELSE NUL
    BY <1>2 DEF Place
  <1>4. c = [k \in Place |-> c[k]]
    BY <1>2 DEF Place
  <1>5. \A k \in Place : k < Len(s) => s[k + 1] \in Char
    BY DEF Place
  <1>6. c \in Buffer
    <2>1. \A k \in Place : c[k] \in Byte
      BY <1>3, <1>5 DEF Buffer, Byte
    <2> QED
      BY <1>4, <2>1 DEF Buffer
  <1> HIDE DEF l
  <1>7. \A k \in 0 .. l - 1 : c[k] = s[k + 1] /\ c[k] \in Char
    BY <1>1, <1>3, <1>5 DEF Place
  <1>8. c[l] = NUL /\ l \in Place
    BY <1>1, <1>3 DEF Place
  <1> QED
    BY <1>6, <1>7, <1>8 DEF Ended, Holds, Input, l

-----------------------------------------------------------------------------
(* The history *)

LEMMA AddedEntry ==
    ASSUME HistoryOK, NEW line \in Seq(Char)
    PROVE  LET h == HistoryAdd(history, line)
           IN  /\ h \in Seq(Seq(Char)) /\ Len(h) \in 1 .. max_len
               /\ h[Len(h)] = line
               /\ Len(h) >= Len(history)
  <1> DEFINE kept == IF Len(history) = max_len THEN Tail(history) ELSE history
  <1>1. history \in Seq(Seq(Char)) /\ max_len \in Nat \ {0} /\ Len(history) \in Nat /\ Len(history) <= max_len
    BY DEF HistoryOK
  <1>2. CASE history # <<>> /\ history[Len(history)] = line
    <2>1. HistoryAdd(history, line) = history
      BY <1>2 DEF HistoryAdd
    <2>2. Len(history) >= 1
      BY <1>1, <1>2
    <2> QED
      BY <1>1, <1>2, <2>1, <2>2
  <1>3. CASE ~(history # <<>> /\ history[Len(history)] = line)
    <2>1. HistoryAdd(history, line) = Append(kept, line)
      BY <1>3 DEF HistoryAdd
    <2>2. Len(history) = max_len => history # <<>>
      BY <1>1
    <2>3. kept \in Seq(Seq(Char)) /\ Len(kept) < max_len /\ Len(kept) + 1 >= Len(history)
      BY <1>1, <2>2
    <2> HIDE DEF kept
    <2> QED
      BY <1>1, <2>1, <2>3
  <1> QED
    BY <1>2, <1>3

\* the entry the index names is one of the history
LEMMA EntryInHistory ==
    ASSUME HistoryOK, history # <<>>
    PROVE  /\ Entry(index) \in 1 .. Len(history)
           /\ history[Entry(index)] \in Seq(Char)
           /\ index \in 0 .. Len(history) - 1
  BY DEF HistoryOK, Entry

LEMMA IdleInv ==
    ASSUME LineOK', CompletionOK', mode' = "idle", index' = 0,
           history' \in Seq(Seq(Char)), max_len' \in MaxLens, Len(history') <= max_len'
    PROVE  Inv'
  BY DEF Inv, HistoryOK, Shown

LEMMA BlankIsEnded == Ended(Blank, 0)
  BY DEF Ended, Blank, Buffer, Place, Byte

-----------------------------------------------------------------------------
(* Between two edits *)

LEMMA HistoryAddInv ==
    ASSUME Inv, linenoiseHistoryAdd
    PROVE  Inv'
  <1>1. PICK line \in LuaLines : history' = HistoryAdd(history, line)
    BY DEF linenoiseHistoryAdd
  <1>2. mode = "idle" /\ UNCHANGED <<buf, len, pos, max_len, index, mode, comp, by>>
    BY DEF linenoiseHistoryAdd
  <1>3. HistoryOK
    BY DEF Inv
  <1>4. /\ history' \in Seq(Seq(Char)) /\ Len(history') \in 1 .. max_len
        /\ Len(history') >= Len(history)
    BY <1>1, <1>3, AddedEntry
  <1>5. HistoryOK'
    BY <1>2, <1>3, <1>4 DEF HistoryOK
  <1>6. LineOK' /\ CompletionOK' /\ Shown'
    BY <1>2 DEF Inv, LineOK, CompletionOK, Shown
  <1> QED
    BY <1>5, <1>6 DEF Inv

LEMMA HistorySetMaxLenInv ==
    ASSUME Inv, linenoiseHistorySetMaxLen
    PROVE  Inv'
  <1> DEFINE n == Least(Len(history), max_len')
  <1>1. /\ mode = "idle" /\ max_len' \in MaxLens
        /\ history' = SubSeq(history, Len(history) - n + 1, Len(history))
        /\ UNCHANGED <<buf, len, pos, index, mode, comp, by>>
    BY DEF linenoiseHistorySetMaxLen
  <1>2. HistoryOK /\ history \in Seq(Seq(Char)) /\ index = 0
    BY <1>1 DEF Inv, HistoryOK
  <1>3. max_len' \in Nat /\ n \in 0 .. Len(history) /\ n <= max_len'
    BY <1>1, <1>2 DEF Least
  <1> HIDE DEF n
  <1>4. history' \in Seq(Seq(Char)) /\ Len(history') = n
    BY <1>1, <1>2, <1>3
  <1>5. LineOK' /\ CompletionOK'
    BY <1>1 DEF Inv, LineOK, CompletionOK
  <1> QED
    BY <1>1, <1>2, <1>3, <1>4, <1>5, IdleInv

LEMMA EditInv ==
    ASSUME Inv, linenoiseEdit
    PROVE  Inv'
  <1>1. /\ buf' = Blank /\ len' = 0 /\ pos' = 0
        /\ history' = HistoryAdd(history, <<>>)
        /\ index' = 0 /\ mode' = "edit" /\ by' = "recalled"
        /\ UNCHANGED <<max_len, comp>>
    BY DEF linenoiseEdit
  <1>2. /\ history' \in Seq(Seq(Char)) /\ Len(history') \in 1 .. max_len
        /\ history'[Len(history')] = <<>>
    <2>1. HistoryOK /\ <<>> \in Seq(Char)
      BY DEF Inv
    <2> QED
      BY <1>1, <2>1, AddedEntry
  <1>3. LineOK'
    BY <1>1, BlankIsEnded DEF LineOK
  <1>4. HistoryOK'
    BY <1>1, <1>2 DEF Inv, HistoryOK
  <1>5. CompletionOK'
    BY <1>1 DEF Inv, CompletionOK, Mode
  <1>6. Shown'
    <2>1. history'[Len(history') - index'] = <<>>
      BY <1>1, <1>2
    <2> QED
      BY <1>1, <2>1 DEF Shown, Holds, Entry, Least
  <1> QED
    BY <1>3, <1>4, <1>5, <1>6 DEF Inv

LEMMA ReturnInv ==
    ASSUME Inv, mode = "edit", Return, PopHistory \/ UNCHANGED history
    PROVE  Inv'
  <1>1. /\ buf' = Blank /\ len' = 0 /\ pos' = 0
        /\ index' = 0 /\ mode' = "idle" /\ by' = "recalled"
        /\ UNCHANGED <<max_len, comp>>
    BY DEF Return
  <1>2. history \in Seq(Seq(Char)) /\ history # <<>> /\ max_len \in MaxLens /\ Len(history) <= max_len
    BY DEF Inv, HistoryOK
  <1>3. max_len \in Nat
    BY <1>2
  <1>4. history' \in Seq(Seq(Char)) /\ Len(history') <= max_len
    <2>1. CASE UNCHANGED history
      BY <1>2, <2>1
    <2>2. CASE PopHistory
      <3>1. history' = SubSeq(history, 1, Len(history) - 1)
        BY <2>2 DEF PopHistory
      <3>2. Len(history) \in Nat /\ Len(history) >= 1
        BY <1>2
      <3> QED
        BY <1>2, <1>3, <3>1, <3>2
    <2> QED
      BY <2>1, <2>2
  <1>5. LineOK'
    BY <1>1, BlankIsEnded DEF LineOK
  <1>6. CompletionOK'
    BY <1>1 DEF Inv, CompletionOK, Mode
  <1> QED
    BY <1>1, <1>2, <1>4, <1>5, <1>6, IdleInv

-----------------------------------------------------------------------------
(* Keys *)

\* a key that changes the line, which is then nobody's entry
LEMMA EditedInv ==
    ASSUME Inv, mode # "idle", mode' = "edit", UNCHANGED <<history, max_len, index, comp>>,
           NEW b, NEW l, NEW p, Edited(b, l, p), Ended(b, l), p \in 0 .. l
    PROVE  Inv'
  <1>1. buf' = b /\ len' = l /\ pos' = p /\ by' = "key"
    BY DEF Edited
  <1>2. LineOK'
    BY <1>1 DEF LineOK
  <1>3. HistoryOK' /\ CompletionOK' /\ Shown'
    BY <1>1 DEF Inv, HistoryOK, CompletionOK, Shown, Mode
  <1> QED
    BY <1>2, <1>3 DEF Inv

\* a key that leaves the line alone, and moves the cursor at most
LEMMA MovedInv ==
    ASSUME Inv, mode # "idle", mode' \in Mode \ {"idle"},
           UNCHANGED <<buf, len, history, max_len, index, by>>,
           pos' \in 0 .. len, CompletionOK'
    PROVE  Inv'
  <1>1. LineOK'
    BY DEF Inv, LineOK
  <1>2. HistoryOK' /\ Shown'
    BY DEF Inv, HistoryOK, Shown, Holds, Entry
  <1> QED
    BY <1>1, <1>2 DEF Inv

LEMMA KeyInv ==
    ASSUME Inv, Key,
           \/ Same
           \/ \E b, l, p : Edited(b, l, p) /\ Ended(b, l) /\ p \in 0 .. l
    PROVE  Inv'
  <1>1. mode = "edit" /\ UNCHANGED <<mode, history, max_len, index, comp>>
    BY DEF Key
  <1>2. CASE Same
    <2>1. CompletionOK' /\ pos' \in 0 .. len
      BY <1>1, <1>2 DEF Inv, CompletionOK, LineOK, Same
    <2> QED
      BY <1>1, <1>2, <2>1, MovedInv DEF Same, Mode
  <1>3. CASE \E b, l, p : Edited(b, l, p) /\ Ended(b, l) /\ p \in 0 .. l
    BY <1>1, <1>3, EditedInv
  <1> QED
    BY <1>2, <1>3

LEMMA LineFacts ==
    ASSUME Inv
    PROVE  /\ Ended(buf, len) /\ buf \in Buffer
           /\ len \in Place /\ len \in Nat /\ pos \in 0 .. len
           /\ buf[len] = NUL /\ \A k \in 0 .. len - 1 : buf[k] \in Input
  BY DEF Inv, LineOK, Ended, Place

\* bytes moved within the buffer
LEMMA Moved ==
    ASSUME NEW b \in Buffer, NEW to \in Place, NEW from \in Place, NEW n \in Nat,
           to + n <= BufLen + 1, from + n <= BufLen + 1
    PROVE  /\ memmove(b, to, from, n) \in Buffer
           /\ \A k \in Place : memmove(b, to, from, n)[k] =
                  IF k >= to /\ k < to + n THEN b[from + k - to] ELSE b[k]
  <1>1. memmove(b, to, from, n) =
          [k \in Place |-> IF k >= to /\ k < to + n THEN b[from + k - to] ELSE b[k]]
    BY DEF memmove, Place
  <1>2. \A k \in Place : k >= to /\ k < to + n => from + k - to \in Place
    BY DEF Place
  <1> QED
    BY <1>1, <1>2 DEF Buffer

\* what the keys leave in the buffer
WithInserted(c) == [memmove(buf, pos + 1, pos, len - pos) EXCEPT ![pos] = c, ![len + 1] = NUL]

LEMMA InsertBytes ==
    ASSUME Inv, NEW c \in Input, len < BufLen, NEW b, b = WithInserted(c)
    PROVE  /\ b \in Buffer /\ b[pos] = c /\ b[len + 1] = NUL
           /\ \A k \in 0 .. pos - 1 : b[k] = buf[k]
           /\ \A k \in pos + 1 .. len : b[k] = buf[k - 1]
  <1> DEFINE m == memmove(buf, pos + 1, pos, len - pos)
  <1>1. len \in Nat /\ pos \in 0 .. len
    BY LineFacts
  <1>2. /\ m \in Buffer
        /\ \A k \in Place : m[k] = IF k >= pos + 1 /\ k < pos + 1 + (len - pos)
                                   THEN buf[pos + k - (pos + 1)] ELSE buf[k]
    <2>1. /\ pos + 1 \in Place /\ pos \in Place /\ len - pos \in Nat
          /\ pos + 1 + (len - pos) <= BufLen + 1 /\ pos + (len - pos) <= BufLen + 1
      BY <1>1 DEF Place
    <2> QED
      BY <2>1, LineFacts, Moved
  <1>3. b = [m EXCEPT ![pos] = c, ![len + 1] = NUL]
    BY DEF WithInserted
  <1> HIDE DEF m
  <1>4. /\ b \in Buffer
        /\ \A k \in Place : b[k] = IF k = len + 1 THEN NUL ELSE IF k = pos THEN c ELSE m[k]
    BY <1>1, <1>2, <1>3 DEF Buffer, Place, Byte, Input
  <1>5. b[pos] = c /\ b[len + 1] = NUL
    BY <1>1, <1>4 DEF Place
  <1>6. ASSUME NEW k \in 0 .. pos - 1 PROVE b[k] = buf[k]
    BY <1>1, <1>2, <1>4 DEF Place
  <1>7. ASSUME NEW k \in pos + 1 .. len PROVE b[k] = buf[k - 1]
    BY <1>1, <1>2, <1>4 DEF Place
  <1> QED
    BY <1>4, <1>5, <1>6, <1>7

LEMMA InsertInv ==
    ASSUME Inv, NEW c \in Input, Insert(c)
    PROVE  Inv'
  <1>1. Key
    BY DEF Insert
  <1>2. CASE ~HasRoom(len)
    BY <1>1, <1>2, KeyInv DEF Insert
  <1>3. CASE HasRoom(len)
    <2> DEFINE b == WithInserted(c)
    <2>1. Edited(b, len + 1, pos + 1)
      BY <1>3 DEF Insert, WithInserted
    <2>2. len < BufLen /\ len \in Nat /\ pos \in 0 .. len
      BY <1>3, LineFacts DEF HasRoom
    <2>3. /\ b \in Buffer /\ b[pos] = c /\ b[len + 1] = NUL
          /\ \A k \in 0 .. pos - 1 : b[k] = buf[k]
          /\ \A k \in pos + 1 .. len : b[k] = buf[k - 1]
      BY <2>2, InsertBytes
    <2> HIDE DEF b
    <2>4. \A k \in 0 .. len : b[k] \in Input
      BY <2>2, <2>3, LineFacts
    <2>5. Ended(b, len + 1)
      BY <2>2, <2>3, <2>4 DEF Ended, Place
    <2> QED
      BY <1>1, <2>1, <2>2, <2>5, KeyInv
  <1> QED
    BY <1>2, <1>3

LEMMA BackspaceBytes ==
    ASSUME Inv, pos > 0, len > 0,
           NEW b, b = [memmove(buf, pos - 1, pos, len - pos) EXCEPT ![len - 1] = NUL]
    PROVE  /\ b \in Buffer /\ b[len - 1] = NUL
           /\ \A k \in 0 .. pos - 2 : b[k] = buf[k]
           /\ \A k \in pos - 1 .. len - 2 : b[k] = buf[k + 1]
  <1> DEFINE m == memmove(buf, pos - 1, pos, len - pos)
  <1>1. len \in Nat /\ pos \in 0 .. len /\ len <= BufLen
    BY LineFacts DEF Place
  <1>2. /\ m \in Buffer
        /\ \A k \in Place : m[k] = IF k >= pos - 1 /\ k < pos - 1 + (len - pos)
                                   THEN buf[pos + k - (pos - 1)] ELSE buf[k]
    <2>1. /\ pos - 1 \in Place /\ pos \in Place /\ len - pos \in Nat
          /\ pos - 1 + (len - pos) <= BufLen + 1 /\ pos + (len - pos) <= BufLen + 1
      BY <1>1 DEF Place
    <2> QED
      BY <2>1, LineFacts, Moved
  <1>3. b = [m EXCEPT ![len - 1] = NUL]
    OBVIOUS
  <1> HIDE DEF m
  <1>4. b \in Buffer /\ \A k \in Place : b[k] = IF k = len - 1 THEN NUL ELSE m[k]
    BY <1>1, <1>2, <1>3 DEF Buffer, Place, Byte
  <1>5. b[len - 1] = NUL
    BY <1>1, <1>4 DEF Place
  <1>6. ASSUME NEW k \in 0 .. pos - 2 PROVE b[k] = buf[k]
    BY <1>1, <1>2, <1>4 DEF Place
  <1>7. ASSUME NEW k \in pos - 1 .. len - 2 PROVE b[k] = buf[k + 1]
    BY <1>1, <1>2, <1>4 DEF Place
  <1> QED
    BY <1>4, <1>5, <1>6, <1>7

LEMMA BackspaceInv ==
    ASSUME Inv, Backspace
    PROVE  Inv'
  <1>1. Key
    BY DEF Backspace
  <1>2. CASE ~(pos > 0 /\ len > 0)
    BY <1>1, <1>2, KeyInv DEF Backspace
  <1>3. CASE pos > 0 /\ len > 0
    <2> DEFINE b == [memmove(buf, pos - 1, pos, len - pos) EXCEPT ![len - 1] = NUL]
    <2>1. Edited(b, len - 1, pos - 1)
      BY <1>3 DEF Backspace
    <2>2. /\ b \in Buffer /\ b[len - 1] = NUL
          /\ \A k \in 0 .. pos - 2 : b[k] = buf[k]
          /\ \A k \in pos - 1 .. len - 2 : b[k] = buf[k + 1]
      BY <1>3, BackspaceBytes
    <2> HIDE DEF b
    <2>3. \A k \in 0 .. len - 2 : b[k] \in Input
      BY <1>3, <2>2, LineFacts
    <2>4. Ended(b, len - 1)
      BY <1>3, <2>2, <2>3, LineFacts DEF Ended, Place
    <2>5. pos - 1 \in 0 .. len - 1
      BY <1>3, LineFacts
    <2> QED
      BY <1>1, <2>1, <2>4, <2>5, KeyInv
  <1> QED
    BY <1>2, <1>3

LEMMA TransposeInv ==
    ASSUME Inv, Transpose
    PROVE  Inv'
  <1>1. Key
    BY DEF Transpose
  <1>2. CASE ~(pos > 0 /\ pos < len)
    BY <1>1, <1>2, KeyInv DEF Transpose
  <1>3. CASE pos > 0 /\ pos < len
    <2> DEFINE b == [buf EXCEPT ![pos - 1] = buf[pos], ![pos] = buf[pos - 1]]
    <2>1. Edited(b, len, MovesOn(pos))
      BY <1>3 DEF Transpose
    <2>2. pos - 1 \in Place /\ pos \in Place /\ buf[pos] \in Input /\ buf[pos - 1] \in Input
      BY <1>3, LineFacts DEF Place
    <2>3. b \in Buffer /\ \A k \in Place : b[k] = IF k = pos THEN buf[pos - 1]
                                           ELSE IF k = pos - 1 THEN buf[pos] ELSE buf[k]
      BY <2>2, LineFacts DEF Buffer, Byte
    <2> HIDE DEF b
    <2>4. Ended(b, len)
      BY <1>3, <2>2, <2>3, LineFacts DEF Ended, Place
    <2>5. MovesOn(pos) \in 0 .. len
      BY <1>3, LineFacts DEF MovesOn
    <2> QED
      BY <1>1, <2>1, <2>4, <2>5, KeyInv
  <1> QED
    BY <1>2, <1>3

LEMMA KillInv ==
    ASSUME Inv, KillLine \/ KillToEnd
    PROVE  Inv'
  <1>1. PICK n \in {0, pos} : Key /\ Edited([buf EXCEPT ![n] = NUL], n, n)
    BY DEF KillLine, KillToEnd
  <1>2. n \in 0 .. len /\ n \in Place
    BY LineFacts DEF Place
  <1>3. Ended([buf EXCEPT ![n] = NUL], n)
    BY <1>2, LineFacts DEF Ended, Place, Buffer, Byte
  <1>4. n \in 0 .. n
    BY <1>2
  <1> QED
    BY <1>1, <1>3, <1>4, KeyInv

LEMMA DeleteBytes ==
    ASSUME Inv, pos < len,
           NEW b, b = [memmove(buf, pos, pos + 1, len - pos - 1) EXCEPT ![len - 1] = NUL]
    PROVE  /\ b \in Buffer /\ b[len - 1] = NUL
           /\ \A k \in 0 .. pos - 1 : b[k] = buf[k]
           /\ \A k \in pos .. len - 2 : b[k] = buf[k + 1]
  <1> DEFINE m == memmove(buf, pos, pos + 1, len - pos - 1)
  <1>1. len \in Nat /\ pos \in 0 .. len /\ len <= BufLen
    BY LineFacts DEF Place
  <1>2. /\ m \in Buffer
        /\ \A k \in Place : m[k] = IF k >= pos /\ k < pos + (len - pos - 1)
                                   THEN buf[pos + 1 + k - pos] ELSE buf[k]
    <2>1. /\ pos \in Place /\ pos + 1 \in Place /\ len - pos - 1 \in Nat
          /\ pos + (len - pos - 1) <= BufLen + 1 /\ pos + 1 + (len - pos - 1) <= BufLen + 1
      BY <1>1 DEF Place
    <2> QED
      BY <2>1, LineFacts, Moved
  <1>3. b = [m EXCEPT ![len - 1] = NUL]
    OBVIOUS
  <1> HIDE DEF m
  <1>4. b \in Buffer /\ \A k \in Place : b[k] = IF k = len - 1 THEN NUL ELSE m[k]
    BY <1>1, <1>2, <1>3 DEF Buffer, Place, Byte
  <1>5. b[len - 1] = NUL
    BY <1>1, <1>4 DEF Place
  <1>6. ASSUME NEW k \in 0 .. pos - 1 PROVE b[k] = buf[k]
    BY <1>1, <1>2, <1>4 DEF Place
  <1>7. ASSUME NEW k \in pos .. len - 2 PROVE b[k] = buf[k + 1]
    BY <1>1, <1>2, <1>4 DEF Place
  <1> QED
    BY <1>4, <1>5, <1>6, <1>7

LEMMA DeleteInv ==
    ASSUME Inv, Delete
    PROVE  Inv'
  <1>1. mode # "idle" /\ mode' = "edit" /\ UNCHANGED <<history, max_len, index, comp>>
    BY DEF Delete, EscKey
  <1>2. CASE ~(pos < len)
    <2>1. Same
      BY <1>2 DEF Delete
    <2>2. CompletionOK' /\ pos' \in 0 .. len
      BY <1>1, <2>1 DEF Inv, CompletionOK, LineOK, Same, Mode
    <2> QED
      BY <1>1, <2>1, <2>2, MovedInv DEF Same, Mode
  <1>3. CASE pos < len
    <2> DEFINE b == [memmove(buf, pos, pos + 1, len - pos - 1) EXCEPT ![len - 1] = NUL]
    <2>1. Edited(b, len - 1, pos)
      BY <1>3 DEF Delete
    <2>2. /\ b \in Buffer /\ b[len - 1] = NUL
          /\ \A k \in 0 .. pos - 1 : b[k] = buf[k]
          /\ \A k \in pos .. len - 2 : b[k] = buf[k + 1]
      BY <1>3, DeleteBytes
    <2> HIDE DEF b
    <2>3. \A k \in 0 .. len - 2 : b[k] \in Input
      BY <1>3, <2>2, LineFacts
    <2>4. Ended(b, len - 1)
      BY <1>3, <2>2, <2>3, LineFacts DEF Ended, Place
    <2>5. pos \in 0 .. len - 1
      BY <1>3, LineFacts
    <2> QED
      BY <1>1, <2>1, <2>4, <2>5, EditedInv
  <1> QED
    BY <1>2, <1>3

\* the loops that look for the word before the cursor end
LEMMA WordFound ==
    ASSUME Inv
    PROVE  /\ WordEnd \in 0 .. pos /\ (WordEnd = 0 \/ buf[WordEnd - 1] # Space)
           /\ \A k \in WordEnd .. pos - 1 : buf[k] = Space
           /\ WordStart \in 0 .. WordEnd /\ (WordStart = 0 \/ buf[WordStart - 1] = Space)
           /\ \A k \in WordStart .. WordEnd - 1 : buf[k] # Space
  <1>1. pos \in Nat
    BY LineFacts
  <1>2. /\ WordEnd \in 0 .. pos /\ (WordEnd = 0 \/ buf[WordEnd - 1] # Space)
        /\ \A k \in WordEnd .. pos - 1 : buf[k] = Space
    <2> DEFINE T == {p \in 0 .. pos : \A k \in p .. pos - 1 : buf[k] = Space}
    <2>1. T \subseteq Nat /\ pos \in T
      BY <1>1
    <2>2. PICK x \in T : \A y \in T : x <= y
      BY <2>1, LeastExists
    <2>3. x = 0 \/ buf[x - 1] # Space
      <3> SUFFICES ASSUME x # 0, buf[x - 1] = Space PROVE FALSE
        OBVIOUS
      <3>1. x - 1 \in T
        BY <1>1
      <3> QED
        BY <1>1, <2>2, <3>1
    <2> QED
      BY <2>3 DEF WordEnd
  <1>3. /\ WordStart \in 0 .. WordEnd /\ (WordStart = 0 \/ buf[WordStart - 1] = Space)
        /\ \A k \in WordStart .. WordEnd - 1 : buf[k] # Space
    <2> DEFINE T == {p \in 0 .. WordEnd : \A k \in p .. WordEnd - 1 : buf[k] # Space}
    <2>1. T \subseteq Nat /\ WordEnd \in T /\ WordEnd \in Nat
      BY <1>1, <1>2
    <2>2. PICK x \in T : \A y \in T : x <= y
      BY <2>1, LeastExists
    <2>3. x = 0 \/ buf[x - 1] = Space
      <3> SUFFICES ASSUME x # 0, buf[x - 1] # Space PROVE FALSE
        OBVIOUS
      <3>1. x - 1 \in T
        BY <2>1
      <3> QED
        BY <2>1, <2>2, <3>1
    <2> QED
      BY <2>3 DEF WordStart
  <1> QED
    BY <1>2, <1>3

LEMMA DeletePrevWordBytes ==
    ASSUME Inv, NEW w \in 0 .. pos, NEW b, b = memmove(buf, w, pos, RestAndNul)
    PROVE  /\ b \in Buffer /\ b[len - (pos - w)] = NUL
           /\ \A k \in 0 .. w - 1 : b[k] = buf[k]
           /\ \A k \in w .. len - (pos - w) - 1 : b[k] = buf[k + (pos - w)]
  <1>1. len \in Nat /\ pos \in 0 .. len /\ len <= BufLen /\ buf[len] = NUL
    BY LineFacts DEF Place
  <1>2. /\ b \in Buffer
        /\ \A k \in Place : b[k] = IF k >= w /\ k < w + (len - pos + 1)
                                   THEN buf[pos + k - w] ELSE buf[k]
    <2> DEFINE n == len - pos + 1
    <2>1. /\ w \in Place /\ pos \in Place /\ n \in Nat
          /\ w + n <= BufLen + 1 /\ pos + n <= BufLen + 1
      BY <1>1 DEF Place
    <2>2. buf \in Buffer
      BY LineFacts
    <2>3. b = memmove(buf, w, pos, n)
      BY DEF RestAndNul
    <2> HIDE DEF n
    <2>4. /\ memmove(buf, w, pos, n) \in Buffer
          /\ \A k \in Place : memmove(buf, w, pos, n)[k] =
                 IF k >= w /\ k < w + n THEN buf[pos + k - w] ELSE buf[k]
      BY <2>1, <2>2, Moved
    <2> QED
      BY <2>3, <2>4 DEF n
  <1>3. b[len - (pos - w)] = NUL
    <2>1. /\ len - (pos - w) \in Place /\ len - (pos - w) >= w
          /\ len - (pos - w) < w + (len - pos + 1) /\ pos + (len - (pos - w)) - w = len
      BY <1>1 DEF Place
    <2> QED
      BY <1>1, <1>2, <2>1
  <1>4. ASSUME NEW k \in 0 .. w - 1 PROVE b[k] = buf[k]
    BY <1>1, <1>2 DEF Place
  <1>5. ASSUME NEW k \in w .. len - (pos - w) - 1 PROVE b[k] = buf[k + (pos - w)]
    <2>1. k \in Place /\ k >= w /\ k < w + (len - pos + 1) /\ pos + k - w = k + (pos - w)
      BY <1>1 DEF Place
    <2> QED
      BY <1>2, <2>1
  <1> QED
    BY <1>2, <1>3, <1>4, <1>5

LEMMA DeletePrevWordInv ==
    ASSUME Inv, DeletePrevWord
    PROVE  Inv'
  <1> DEFINE w == WordStart
             b == memmove(buf, w, pos, RestAndNul)
             l == len - (pos - w)
  <1>1. Key /\ Edited(b, l, w)
    BY DEF DeletePrevWord
  <1>2. w \in 0 .. pos
    BY WordFound, LineFacts
  <1> HIDE DEF w
  <1>3. /\ b \in Buffer /\ b[l] = NUL
        /\ \A k \in 0 .. w - 1 : b[k] = buf[k]
        /\ \A k \in w .. l - 1 : b[k] = buf[k + (pos - w)]
    BY <1>2, DeletePrevWordBytes
  <1> HIDE DEF b
  <1>4. l \in Place /\ w \in 0 .. l
    BY <1>2, LineFacts DEF Place
  <1>5. \A k \in 0 .. l - 1 : b[k] \in Input
    <2>1. ASSUME NEW k \in 0 .. w - 1 PROVE b[k] \in Input
      BY <1>2, <1>3, LineFacts
    <2>2. ASSUME NEW k \in w .. l - 1 PROVE b[k] \in Input
      <3>1. k + (pos - w) \in 0 .. len - 1
        BY <1>2, LineFacts
      <3> QED
        BY <1>3, <3>1, LineFacts
    <2> QED
      BY <1>2, <1>4, <2>1, <2>2, LineFacts
  <1>6. Ended(b, l)
    BY <1>3, <1>4, <1>5 DEF Ended
  <1> QED
    BY <1>1, <1>4, <1>6, KeyInv

LEMMA MoveInv ==
    ASSUME Inv, Move \/ OtherSequence
    PROVE  Inv'
  <1>1. /\ mode # "idle" /\ mode' = "edit"
        /\ UNCHANGED <<buf, len, history, max_len, index, comp, by>>
    BY DEF Move, OtherSequence, EscKey, MovedTo, Same
  <1>2. pos' \in 0 .. len
    BY LineFacts DEF Move, OtherSequence, MovedTo, Same
  <1>3. CompletionOK'
    BY <1>1 DEF Inv, CompletionOK, Mode
  <1> QED
    BY <1>1, <1>2, <1>3, MovedInv DEF Mode

-----------------------------------------------------------------------------
(* Stepping through the history *)

\* what was recalled from an entry holds no 0 byte
LEMMA RecalledLine ==
    ASSUME Inv, mode # "idle", by = "recalled"
    PROVE  /\ Text(buf) \in Seq(Char) /\ Len(Text(buf)) = len
           /\ \A k \in 1 .. len : Text(buf)[k] = buf[k - 1]
  <1> DEFINE s == history[Entry(index)]
  <1>1. s \in Seq(Char)
    BY EntryInHistory DEF Inv, HistoryOK
  <1>2. Holds(buf, len, s)
    BY DEF Inv, Shown
  <1> HIDE DEF s
  <1>3. len \in Nat /\ len <= Len(s)
    BY <1>1, <1>2, LineFacts DEF Holds, Least
  <1>4. ASSUME NEW k \in 0 .. len - 1 PROVE buf[k] \in Char
    <2>1. k + 1 \in 1 .. Len(s)
      BY <1>1, <1>3
    <2>2. s[k + 1] \in Char
      BY <1>1, <2>1
    <2>3. buf[k] = s[k + 1]
      BY <1>2 DEF Holds
    <2> QED
      BY <2>2, <2>3
  <1> QED
    BY <1>4, LineFacts, TextOfLine

\* the entry shown becomes the text of the line, which it was if no key changed it
LEMMA EntryKept ==
    ASSUME Inv, mode # "idle",
           history' = [history EXCEPT ![Entry(index)] = Text(buf)]
    PROVE  /\ history' \in Seq(Seq(Char)) /\ Len(history') = Len(history)
           /\ history'[Entry(index)] = Text(buf)
           /\ \A k \in 1 .. Len(history) : k # Entry(index) => history'[k] = history[k]
  <1>1. history \in Seq(Seq(Char)) /\ Entry(index) \in 1 .. Len(history)
    BY EntryInHistory DEF Inv, HistoryOK
  <1>2. Text(buf) \in Seq(Char)
    BY LineFacts, StrLenOfLine
  <1> QED
    BY <1>1, <1>2

LEMMA HistoryNextInv ==
    ASSUME Inv, NEW step \in {1, -1}, HistoryNext(step)
    PROVE  Inv'
  <1>1. mode # "idle" /\ mode' = "edit" /\ UNCHANGED <<max_len, comp>>
    BY DEF HistoryNext, EscKey
  <1>2. CompletionOK' \/ ~(by' \in {"key", "recalled", "completed"})
    BY <1>1 DEF Inv, CompletionOK, Mode
  <1>3. HistoryOK /\ history # <<>> /\ by \in {"key", "recalled", "completed"}
    BY <1>1 DEF Inv, HistoryOK, CompletionOK
  <1>4. CASE Len(history) <= 1
    <2>1. Same /\ UNCHANGED <<history, index>>
      BY <1>4 DEF HistoryNext
    <2>2. CompletionOK' /\ pos' \in 0 .. len
      BY <1>2, <1>3, <2>1, LineFacts DEF Same
    <2> QED
      BY <1>1, <2>1, <2>2, MovedInv DEF Same, Mode
  <1>5. CASE ~(Len(history) <= 1)
    <2>1. history' = [history EXCEPT ![Entry(index)] = Text(buf)]
      BY <1>5 DEF HistoryNext
    <2>2. /\ history' \in Seq(Seq(Char)) /\ Len(history') = Len(history)
          /\ history'[Entry(index)] = Text(buf)
      BY <1>1, <2>1, EntryKept
    <2>3. history' # <<>> /\ Len(history) \in Nat
      BY <1>3, <1>5, <2>2 DEF HistoryOK
    <2>4. CASE index + step \in 0 .. Len(history) - 1
      <3>1. /\ index' = index + step
            /\ buf' = [strncpy(buf, history'[Entry(index')], BufLen) EXCEPT ![BufLen - 1] = NUL]
            /\ len' = StrLen(buf') /\ pos' = len' /\ by' = "recalled"
        BY <1>5, <2>4 DEF HistoryNext
      <3>2. Entry(index') \in 1 .. Len(history)
        BY <1>3, <2>3, <2>4, <3>1 DEF Entry
      <3>3. history'[Entry(index')] \in Seq(Char)
        BY <2>2, <3>2
      <3>4. /\ Ended(buf', Least(Len(history'[Entry(index')]), BufLen - 1))
            /\ Holds(buf', Least(Len(history'[Entry(index')]), BufLen - 1), history'[Entry(index')])
            /\ \A k \in 0 .. Least(Len(history'[Entry(index')]), BufLen - 1) - 1 : buf'[k] \in Char
        BY <3>1, <3>3, LineFacts, CopyOfEntry
      <3>5. len' = Least(Len(history'[Entry(index')]), BufLen - 1)
        <4> DEFINE b == buf'
                   l == Least(Len(history'[Entry(index')]), BufLen - 1)
        <4>1. len' = StrLen(b) /\ Ended(b, l) /\ \A k \in 0 .. l - 1 : b[k] \in Char
          BY <3>1, <3>4
        <4> HIDE DEF b, l
        <4>2. StrLen(b) = l
          BY <4>1, TextOfLine
        <4> QED
          BY <4>1, <4>2 DEF l
      <3>6. LineOK'
        <4>1. Ended(buf', len')
          BY <3>4, <3>5
        <4>2. len' \in Nat
          BY <4>1 DEF Ended, Place
        <4> QED
          BY <3>1, <4>1, <4>2 DEF LineOK
      <3>7. HistoryOK'
        BY <1>1, <1>3, <2>2, <2>3, <2>4, <3>1 DEF HistoryOK
      <3>8. Shown'
        BY <2>2, <3>4, <3>5 DEF Shown, Entry
      <3>9. CompletionOK'
        BY <1>2, <3>1
      <3> QED
        BY <3>6, <3>7, <3>8, <3>9 DEF Inv
    <2>5. CASE ~(index + step \in 0 .. Len(history) - 1)
      <3>1. index' = index /\ UNCHANGED <<buf, len, pos, by>>
        BY <1>5, <2>5 DEF HistoryNext, Same
      <3>2. LineOK'
        BY <3>1 DEF Inv, LineOK
      <3>3. HistoryOK'
        BY <1>1, <1>3, <2>2, <2>3, <3>1 DEF HistoryOK
      <3>4. CompletionOK'
        BY <1>2, <1>3, <3>1
      <3>5. Shown'
        <4> SUFFICES ASSUME by = "recalled"
                     PROVE  Holds(buf, len, Text(buf))
          BY <2>2, <3>1 DEF Shown, Entry
        <4>1. len = Least(Len(history[Entry(index)]), BufLen - 1)
          BY <1>1 DEF Inv, Shown, Holds
        <4>2. len <= BufLen - 1 /\ len \in Nat
          <5>1. Len(history[Entry(index)]) \in Nat
            BY <1>3, EntryInHistory
          <5> QED
            BY <4>1, <5>1, LineFacts DEF Least
        <4>3. /\ Len(Text(buf)) = len
              /\ \A k \in 1 .. len : Text(buf)[k] = buf[k - 1]
          BY <1>1, RecalledLine DEF Inv
        <4>4. \A k \in 0 .. len - 1 : buf[k] = Text(buf)[k + 1]
          BY <4>2, <4>3
        <4> QED
          BY <4>2, <4>3, <4>4 DEF Holds, Least
      <3> QED
        BY <3>2, <3>3, <3>4, <3>5 DEF Inv
    <2> QED
      BY <2>4, <2>5
  <1> QED
    BY <1>4, <1>5

-----------------------------------------------------------------------------
(* Completion *)

LEMMA CompletingInv ==
    ASSUME Inv, Tab \/ CompleteTab \/ CompleteEscape
    PROVE  Inv'
  <1>1. /\ mode # "idle" /\ mode' \in Mode \ {"idle"}
        /\ UNCHANGED <<buf, len, pos, history, max_len, index, by>>
    BY DEF Tab, CompleteTab, CompleteEscape, Same, Mode
  <1>2. by' \in {"key", "recalled", "completed"} /\ mode' \in Mode
    BY <1>1 DEF Inv, CompletionOK
  <1>3. comp'.i \in 0 .. Len(comp'.list) /\ (comp'.list = <<>> \/ comp'.list \in Completions)
        /\ comp' = [list |-> comp'.list, i |-> comp'.i]
    <2>1. CASE Tab
      BY <2>1 DEF Tab
    <2>2. CASE CompleteTab
      <3>1. /\ comp = [list |-> comp.list, i |-> comp.i]
            /\ comp.i \in 0 .. Len(comp.list)
            /\ comp.list = <<>> \/ comp.list \in Completions
        BY DEF Inv, CompletionOK
      <3>2. comp' = [comp EXCEPT !.i = (@ + 1) % (Len(comp.list) + 1)]
        BY <2>2 DEF CompleteTab
      <3>3. comp'.list = comp.list /\ comp'.i = (comp.i + 1) % (Len(comp.list) + 1)
        BY <3>1, <3>2
      <3>4. Len(comp.list) \in Nat
        BY <3>1
      <3>5. (comp.i + 1) % (Len(comp.list) + 1) \in 0 .. Len(comp.list)
        BY <3>1, <3>4
      <3>6. comp' = [list |-> comp'.list, i |-> comp'.i]
        BY <3>1, <3>2
      <3> QED
        BY <3>1, <3>3, <3>5, <3>6
    <2>3. CASE CompleteEscape
      BY <2>3 DEF CompleteEscape, NoComp
    <2> QED
      BY <2>1, <2>2, <2>3
  <1>4. CompletionOK' /\ pos' \in 0 .. len
    BY <1>1, <1>2, <1>3, LineFacts DEF CompletionOK
  <1> QED
    BY <1>1, <1>4, MovedInv

LEMMA CompleteTakeInv ==
    ASSUME CompletionsFit, Inv, CompleteTake
    PROVE  Inv'
  <1>1. /\ mode # "idle" /\ mode' = "edit" /\ comp' = NoComp
        /\ UNCHANGED <<history, max_len, index>>
    BY DEF CompleteTake
  <1>2. HistoryOK'
    BY <1>1 DEF Inv, HistoryOK
  <1>3. CASE ~(comp.i < Len(comp.list))
    <2>1. Same
      BY <1>3 DEF CompleteTake
    <2>2. CompletionOK' /\ pos' \in 0 .. len
      BY <1>1, <2>1, LineFacts DEF Inv, CompletionOK, Same, Mode, NoComp
    <2> QED
      BY <1>1, <2>1, <2>2, MovedInv DEF Same, Mode
  <1>4. CASE comp.i < Len(comp.list)
    <2> DEFINE line == comp.list[comp.i + 1]
    <2>1. buf' = snprintf(buf, line, BufLen) /\ len' = Len(line) /\ pos' = Len(line) /\ by' = "completed"
      BY <1>4 DEF CompleteTake
    <2>2. line \in Seq(Char) /\ Len(line) < BufLen
      <3>1. comp.list \in Completions /\ comp.i + 1 \in 1 .. Len(comp.list)
        BY <1>4 DEF Inv, CompletionOK
      <3>2. comp.list \in Seq(Seq(Char))
        BY <3>1
      <3> QED
        BY <3>1, <3>2 DEF CompletionsFit
    <2> HIDE DEF line
    <2>3. Least(Len(line), BufLen - 1) = Len(line) /\ Len(line) \in Nat
      BY <2>2 DEF Least
    <2>4. buf' = [k \in Place |-> IF k < Len(line) THEN line[k + 1] ELSE IF k = Len(line) THEN NUL ELSE buf[k]]
      BY <2>1, <2>3 DEF snprintf, Place
    <2>5. Ended(buf', Len(line))
      <3>1. \A k \in Place : k < Len(line) => line[k + 1] \in Char
        BY <2>2, <2>3 DEF Place
      <3>2. buf' \in Buffer
        BY <2>4, <3>1, LineFacts DEF Buffer, Byte
      <3>3. Len(line) \in Place /\ \A k \in 0 .. Len(line) - 1 : k \in Place /\ k < Len(line)
        BY <2>2, <2>3 DEF Place
      <3> QED
        BY <2>4, <3>1, <3>2, <3>3 DEF Ended, Input
    <2>6. LineOK'
      BY <2>1, <2>3, <2>5 DEF LineOK
    <2>7. CompletionOK' /\ Shown'
      BY <1>1, <2>1 DEF CompletionOK, Shown, NoComp, Mode
    <2> QED
      BY <1>2, <2>6, <2>7 DEF Inv
  <1> QED
    BY <1>3, <1>4

-----------------------------------------------------------------------------
(* The theorems *)

LEMMA InitInv ==
    ASSUME Init
    PROVE  Inv
  <1>1. LineOK
    BY BlankIsEnded DEF Init, LineOK
  <1>2. max_len \in Nat \ {0} /\ history = <<>>
    BY DEF Init
  <1>3. HistoryOK
    BY <1>2 DEF Init, HistoryOK
  <1>4. CompletionOK /\ Shown
    BY DEF Init, CompletionOK, Shown, NoComp, Mode
  <1> QED
    BY <1>1, <1>3, <1>4 DEF Inv

LEMMA StepInv ==
    ASSUME CompletionsFit, Inv, [Next]_vars
    PROVE  Inv'
  <1>1. CASE linenoiseEdit
    BY <1>1, EditInv
  <1>2. CASE Enter \/ EndOfFile \/ CtrlC
    BY <1>2, ReturnInv DEF Enter, EndOfFile, CtrlC
  <1>3. CASE linenoiseHistoryAdd
    BY <1>3, HistoryAddInv
  <1>4. CASE linenoiseHistorySetMaxLen
    BY <1>4, HistorySetMaxLenInv
  <1>5. CASE \E c \in Input : Insert(c)
    BY <1>5, InsertInv
  <1>6. CASE Backspace
    BY <1>6, BackspaceInv
  <1>7. CASE Delete
    BY <1>7, DeleteInv
  <1>8. CASE Transpose
    BY <1>8, TransposeInv
  <1>9. CASE KillLine \/ KillToEnd
    BY <1>9, KillInv
  <1>10. CASE DeletePrevWord
    BY <1>10, DeletePrevWordInv
  <1>11. CASE Move \/ OtherSequence
    BY <1>11, MoveInv
  <1>12. CASE HistoryNext(1) \/ HistoryNext(-1)
    BY <1>12, HistoryNextInv
  <1>13. CASE Tab \/ CompleteTab \/ CompleteEscape
    BY <1>13, CompletingInv
  <1>14. CASE CompleteTake
    BY <1>14, CompleteTakeInv
  <1>15. CASE UNCHANGED vars
    BY <1>15 DEF Inv, vars, LineOK, HistoryOK, CompletionOK, Shown, Entry
  <1> QED
    BY <1>1, <1>2, <1>3, <1>4, <1>5, <1>6, <1>7, <1>8, <1>9, <1>10, <1>11, <1>12,
       <1>13, <1>14, <1>15 DEF Next

\* In every state the buffer holds a line of len characters and its NUL, and,
\* until a key changes it, that line is the history entry it was recalled from,
\* if completion only offers lines shorter than the buffer.  Code behaviour:
\* linenoiseEdit and the functions of its keys.
THEOREM LineInvariant ==
    ASSUME CompletionsFit
    PROVE  Spec => []Inv
  <1>1. Init => Inv
    BY InitInv
  <1>2. Inv /\ [Next]_vars => Inv'
    BY StepInv
  <1> QED
    BY <1>1, <1>2, PTL DEF Spec

\* The line ends where len says, whatever keys are pressed and lines recalled.
\* Code behaviour: "Make sure there is always space for the nulterm".
THEOREM NulAfterLineHolds ==
    ASSUME CompletionsFit
    PROVE  Spec => []NulAfterLine
  <1>1. Inv => NulAfterLine
    BY LineFacts DEF NulAfterLine, Place
  <1> QED
    BY <1>1, LineInvariant, PTL

\* Lengths, cursor, history and its index keep their types: no index ever
\* leaves the history.  Code behaviour: linenoiseEdit and the history functions.
THEOREM LineTypeCorrect ==
    ASSUME CompletionsFit
    PROVE  Spec => []TypeOK
  <1>1. Inv => TypeOK
    BY DEF Inv, TypeOK, LineOK, Ended, HistoryOK, CompletionOK, Place, Buffer, Byte, Mode
  <1> QED
    BY <1>1, LineInvariant, PTL

LEMMA StepHistory ==
    ASSUME Inv, NEW step \in {1, -1}, HistoryNext(step)
    PROVE  /\ Len(history') = Len(history)
           /\ \A k \in 1 .. Len(history) : history'[k] # history[k] =>
                /\ k = Len(history) - index
                /\ history'[k] = Text(buf)
                /\ by = "recalled" => Len(history[k]) >= BufLen
  <1>1. CASE Len(history) <= 1
    BY <1>1 DEF HistoryNext
  <1>2. CASE ~(Len(history) <= 1)
    <2>1. mode # "idle" /\ history' = [history EXCEPT ![Entry(index)] = Text(buf)]
      BY <1>2 DEF HistoryNext, EscKey
    <2>2. /\ Len(history') = Len(history)
          /\ history'[Entry(index)] = Text(buf)
          /\ \A k \in 1 .. Len(history) : k # Entry(index) => history'[k] = history[k]
      BY <2>1, EntryKept
    <2> DEFINE s == history[Entry(index)]
    <2>3. s \in Seq(Char)
      BY <2>1, EntryInHistory DEF Inv, HistoryOK
    <2>4. by = "recalled" => Len(s) >= BufLen \/ Text(buf) = s
      <3> SUFFICES ASSUME by = "recalled", ~(Len(s) >= BufLen) PROVE Text(buf) = s
        OBVIOUS
      <3>1. Holds(buf, len, s)
        BY <2>1 DEF Inv, Shown
      <3>2. Text(buf) \in Seq(Char) /\ Len(Text(buf)) = len /\ \A k \in 1 .. len : Text(buf)[k] = buf[k - 1]
        BY <2>1, RecalledLine
      <3> HIDE DEF s
      <3>3. len = Len(s)
        BY <2>3, <3>1 DEF Holds, Least
      <3>4. \A k \in 1 .. len : buf[k - 1] = s[k]
        <4>1. ASSUME NEW k \in 1 .. len PROVE buf[k - 1] = s[k]
          <5>1. k - 1 \in 0 .. len - 1 /\ (k - 1) + 1 = k
            BY LineFacts
          <5> QED
            BY <3>1, <5>1 DEF Holds
        <4> QED
          BY <4>1
      <3> QED
        BY <2>3, <3>2, <3>3, <3>4
    <2> QED
      BY <2>2, <2>4 DEF Entry
  <1> QED
    BY <1>1, <1>2

\* Stepping through the history changes the entry that was shown and no other,
\* and that one only if a key changed its line or the buffer could not hold it.
\* Code behaviour: linenoiseEditHistoryNext.
THEOREM OnlyShownEntryChangesHolds ==
    ASSUME CompletionsFit
    PROVE  Spec => OnlyShownEntryChanges
  <1> DEFINE Kept == mode # "idle" /\ mode' # "idle" =>
         /\ Len(history') = Len(history)
         /\ \A k \in 1 .. Len(history) : history'[k] # history[k] =>
              /\ k = Len(history) - index
              /\ history'[k] = Text(buf)
              /\ by = "recalled" => Len(history[k]) >= BufLen
  <1>1. Inv /\ [Next]_vars => [Kept]_vars
    <2> SUFFICES ASSUME Inv, Next, mode # "idle", mode' # "idle"
                 PROVE  Kept
      OBVIOUS
    <2>1. CASE HistoryNext(1) \/ HistoryNext(-1)
      BY <2>1, StepHistory
    <2>2. CASE UNCHANGED history
      BY <2>2
    <2>3. UNCHANGED history \/ HistoryNext(1) \/ HistoryNext(-1)
      BY DEF Next, linenoiseEdit, Enter, EndOfFile, CtrlC, Return, linenoiseHistoryAdd,
             linenoiseHistorySetMaxLen, Insert, Backspace, Delete, Transpose, KillLine,
             KillToEnd, DeletePrevWord, Move, OtherSequence, Tab, CompleteTab,
             CompleteEscape, CompleteTake, Key
    <2> QED
      BY <2>1, <2>2, <2>3
  <1>2. Spec => [][Next]_vars
    BY DEF Spec
  <1> QED
    BY <1>1, <1>2, LineInvariant, PTL DEF OnlyShownEntryChanges

-----------------------------------------------------------------------------
(* The buffer implements a text with a cursor *)

Left(b, p)     == [k \in 1 .. p |-> b[k - 1]]
Right(b, l, p) == [k \in 1 .. l - p |-> b[p + k - 1]]

LEMMA LeftOf ==
    ASSUME NEW b, NEW l, Ended(b, l), NEW p \in 0 .. l,
           NEW s, s = Left(b, p)
    PROVE  s \in Seq(Input) /\ Len(s) = p /\ \A k \in 1 .. p : s[k] = b[k - 1]
  <1>1. l \in Nat /\ \A k \in 0 .. l - 1 : b[k] \in Input
    BY DEF Ended, Place
  <1>2. \A k \in 1 .. p : b[k - 1] \in Input
    BY <1>1
  <1> QED
    BY <1>1, <1>2 DEF Left

LEMMA RightOf ==
    ASSUME NEW b, NEW l, Ended(b, l), NEW p \in 0 .. l,
           NEW s, s = Right(b, l, p)
    PROVE  s \in Seq(Input) /\ Len(s) = l - p /\ \A k \in 1 .. l - p : s[k] = b[p + k - 1]
  <1>1. l \in Nat /\ \A k \in 0 .. l - 1 : b[k] \in Input
    BY DEF Ended, Place
  <1>2. \A k \in 1 .. l - p : b[p + k - 1] \in Input
    BY <1>1
  <1> QED
    BY <1>1, <1>2 DEF Right

LEMMA SameText ==
    ASSUME NEW s \in Seq(Input), NEW t \in Seq(Input), Len(s) = Len(t),
           \A k \in 1 .. Len(s) : s[k] = t[k]
    PROVE  s = t
  OBVIOUS

LEMMA AppendedText ==
    ASSUME NEW s \in Seq(Input), NEW t \in Seq(Input), NEW c \in Input,
           Len(t) = Len(s) + 1, t[Len(s) + 1] = c, \A k \in 1 .. Len(s) : t[k] = s[k]
    PROVE  t = Append(s, c)
  <1>1. Append(s, c) \in Seq(Input) /\ Len(Append(s, c)) = Len(t)
    OBVIOUS
  <1>2. ASSUME NEW k \in 1 .. Len(t) PROVE t[k] = Append(s, c)[k]
    OBVIOUS
  <1> QED
    BY <1>1, <1>2, SameText

\* the text of a state, as left and right of Editor
TextIs(L, R, b, l, p) ==
    /\ L \in Seq(Input) /\ Len(L) = p /\ \A k \in 1 .. p : L[k] = b[k - 1]
    /\ R \in Seq(Input) /\ Len(R) = l - p /\ \A k \in 1 .. l - p : R[k] = b[p + k - 1]

LEMMA TextOf ==
    ASSUME NEW b, NEW l, Ended(b, l), NEW p \in 0 .. l
    PROVE  TextIs(Left(b, p), Right(b, l, p), b, l, p)
  BY LeftOf, RightOf DEF TextIs

LEMMA PrefixText ==
    ASSUME NEW s \in Seq(Input), NEW t \in Seq(Input), Len(t) <= Len(s),
           \A k \in 1 .. Len(t) : t[k] = s[k]
    PROVE  t = SubSeq(s, 1, Len(t))
  <1>1. SubSeq(s, 1, Len(t)) \in Seq(Input) /\ Len(SubSeq(s, 1, Len(t))) = Len(t)
    OBVIOUS
  <1>2. ASSUME NEW k \in 1 .. Len(t) PROVE t[k] = SubSeq(s, 1, Len(t))[k]
    OBVIOUS
  <1> QED
    BY <1>1, <1>2, SameText

LEMMA SuffixText ==
    ASSUME NEW s \in Seq(Input), NEW t \in Seq(Input), NEW n \in 0 .. Len(s),
           Len(t) = Len(s) - n, \A k \in 1 .. Len(t) : t[k] = s[n + k]
    PROVE  t = SubSeq(s, n + 1, Len(s))
  <1>1. SubSeq(s, n + 1, Len(s)) \in Seq(Input) /\ Len(SubSeq(s, n + 1, Len(s))) = Len(t)
    OBVIOUS
  <1>2. ASSUME NEW k \in 1 .. Len(t) PROVE t[k] = SubSeq(s, n + 1, Len(s))[k]
    OBVIOUS
  <1> QED
    BY <1>1, <1>2, SameText

LEMMA JoinedText ==
    ASSUME NEW s \in Seq(Input), NEW t \in Seq(Input)
    PROVE  /\ s \o t \in Seq(Input) /\ Len(s \o t) = Len(s) + Len(t)
           /\ \A k \in 1 .. Len(s) : (s \o t)[k] = s[k]
           /\ \A k \in 1 .. Len(t) : (s \o t)[Len(s) + k] = t[k]
  <1>1. s \o t \in Seq(Input) /\ Len(s \o t) = Len(s) + Len(t)
    OBVIOUS
  <1>2. ASSUME NEW k \in 1 .. Len(s) PROVE (s \o t)[k] = s[k]
    OBVIOUS
  <1>3. ASSUME NEW k \in 1 .. Len(t) PROVE (s \o t)[Len(s) + k] = t[k]
    OBVIOUS
  <1> QED
    BY <1>1, <1>2, <1>3

LEMMA TailText ==
    ASSUME NEW s \in Seq(Input), NEW t \in Seq(Input), s # <<>>,
           Len(t) = Len(s) - 1, \A k \in 1 .. Len(t) : t[k] = s[k + 1]
    PROVE  t = Tail(s)
  <1>1. Tail(s) \in Seq(Input) /\ Len(Tail(s)) = Len(t)
    OBVIOUS
  <1>2. ASSUME NEW k \in 1 .. Len(t) PROVE t[k] = Tail(s)[k]
    OBVIOUS
  <1> QED
    BY <1>1, <1>2, SameText

LeftText  == Left(buf, pos)
RightText == Right(buf, len, pos)

LEMMA TextBefore ==
    ASSUME Inv
    PROVE  TextIs(LeftText, RightText, buf, len, pos)
  BY LineFacts, TextOf DEF LeftText, RightText

LEMMA TextAfter ==
    ASSUME Inv'
    PROVE  TextIs(LeftText', RightText', buf', len', pos')
  <1>1. Ended(buf', len') /\ pos' \in 0 .. len'
    BY DEF Inv, LineOK
  <1> QED
    BY <1>1, TextOf DEF LeftText, RightText


LEMMA InsertImplements ==
    ASSUME Inv, Inv', NEW c \in Input, Insert(c), HasRoom(len)
    PROVE  Editor!Insert
  <1> DEFINE L == LeftText
             R == RightText
             M == LeftText'
             S == RightText'
  <1>1. /\ buf' = WithInserted(c)
        /\ len' = len + 1 /\ pos' = pos + 1 /\ by' = "key"
    BY DEF Insert, Edited, WithInserted
  <1>2. len < BufLen /\ len \in Nat /\ pos \in 0 .. len
    BY LineFacts DEF HasRoom
  <1>3. /\ buf'[pos] = c
        /\ \A k \in 0 .. pos - 1 : buf'[k] = buf[k]
        /\ \A k \in pos + 1 .. len : buf'[k] = buf[k - 1]
    BY <1>1, <1>2, InsertBytes
  <1>4. TextIs(L, R, buf, len, pos)
    BY TextBefore
  <1>5. TextIs(M, S, buf', len', pos')
    BY TextAfter
  <1> HIDE DEF L, R, M, S
  <1>6. M = Append(L, c)
    <2>1. L \in Seq(Input) /\ M \in Seq(Input) /\ Len(L) = pos /\ Len(M) = pos + 1
      BY <1>1, <1>4, <1>5 DEF TextIs
    <2>2. \A k \in 1 .. pos + 1 : M[k] = buf'[k - 1]
      BY <1>1, <1>5 DEF TextIs
    <2>3. M[pos + 1] = c
      BY <1>2, <1>3, <2>2
    <2>4. ASSUME NEW k \in 1 .. pos PROVE M[k] = L[k]
      <3>1. L[k] = buf[k - 1]
        BY <1>4 DEF TextIs
      <3> QED
        BY <1>2, <1>3, <2>2, <3>1
    <2> QED
      BY <2>1, <2>3, <2>4, AppendedText
  <1>7. S = R
    <2>1. /\ S \in Seq(Input) /\ R \in Seq(Input) /\ Len(S) = len - pos /\ Len(R) = len - pos
      BY <1>1, <1>2, <1>4, <1>5 DEF TextIs
    <2>2. ASSUME NEW k \in 1 .. len - pos PROVE S[k] = R[k]
      <3>1. S[k] = buf'[pos + k] /\ R[k] = buf[pos + k - 1]
        BY <1>1, <1>2, <1>4, <1>5 DEF TextIs
      <3> QED
        BY <1>2, <1>3, <3>1
    <2> QED
      BY <2>1, <2>2, SameText
  <1>8. Len(L) + Len(R) < BufLen
    BY <1>2, <1>4 DEF TextIs
  <1> QED
    BY <1>1, <1>6, <1>7, <1>8 DEF L, R, M, S, LeftText, RightText, Left, Right, Editor!Insert, Editor!Typed

LEMMA BackspaceImplements ==
    ASSUME Inv, Inv', Backspace, pos > 0, len > 0
    PROVE  Editor!Backspace
  <1> DEFINE L == LeftText
             R == RightText
             M == LeftText'
             S == RightText'
  <1>1. /\ buf' = [memmove(buf, pos - 1, pos, len - pos) EXCEPT ![len - 1] = NUL]
        /\ len' = len - 1 /\ pos' = pos - 1 /\ by' = "key"
    BY DEF Backspace, Edited
  <1>2. len \in Nat /\ pos \in 0 .. len
    BY LineFacts
  <1>3. /\ \A k \in 0 .. pos - 2 : buf'[k] = buf[k]
        /\ \A k \in pos - 1 .. len - 2 : buf'[k] = buf[k + 1]
    BY <1>1, BackspaceBytes
  <1>4. TextIs(L, R, buf, len, pos)
    BY TextBefore
  <1>5. TextIs(M, S, buf', len - 1, pos - 1)
    BY <1>1, TextAfter
  <1> HIDE DEF L, R, M, S
  <1>6. /\ L \in Seq(Input) /\ M \in Seq(Input) /\ Len(L) = pos /\ Len(M) = pos - 1
        /\ R \in Seq(Input) /\ S \in Seq(Input) /\ Len(R) = len - pos /\ Len(S) = len - pos
    BY <1>2, <1>4, <1>5 DEF TextIs
  <1>7. M = SubSeq(L, 1, Len(L) - 1)
    <2>1. ASSUME NEW k \in 1 .. pos - 1 PROVE M[k] = L[k]
      <3>1. M[k] = buf'[k - 1] /\ L[k] = buf[k - 1]
        BY <1>2, <1>4, <1>5 DEF TextIs
      <3> QED
        BY <1>2, <1>3, <3>1
    <2> QED
      BY <1>2, <1>6, <2>1, PrefixText
  <1>8. S = R
    <2>1. ASSUME NEW k \in 1 .. len - pos PROVE S[k] = R[k]
      <3>1. S[k] = buf'[pos + k - 2] /\ R[k] = buf[pos + k - 1]
        BY <1>2, <1>4, <1>5 DEF TextIs
      <3> QED
        BY <1>2, <1>3, <3>1
    <2> QED
      BY <1>6, <2>1, SameText
  <1>9. L # <<>>
    BY <1>2, <1>6
  <1> QED
    BY <1>1, <1>7, <1>8, <1>9
       DEF L, R, M, S, LeftText, RightText, Left, Right, Editor!Backspace, Editor!Typed, Editor!Keep

LEMMA DeleteImplements ==
    ASSUME Inv, Inv', Delete, pos < len
    PROVE  Editor!Delete
  <1> DEFINE L == LeftText
             R == RightText
             M == LeftText'
             S == RightText'
  <1>1. /\ buf' = [memmove(buf, pos, pos + 1, len - pos - 1) EXCEPT ![len - 1] = NUL]
        /\ len' = len - 1 /\ pos' = pos /\ by' = "key"
    BY DEF Delete, Edited
  <1>2. len \in Nat /\ pos \in 0 .. len
    BY LineFacts
  <1>3. /\ \A k \in 0 .. pos - 1 : buf'[k] = buf[k]
        /\ \A k \in pos .. len - 2 : buf'[k] = buf[k + 1]
    BY <1>1, DeleteBytes
  <1>4. TextIs(L, R, buf, len, pos)
    BY TextBefore
  <1>5. TextIs(M, S, buf', len - 1, pos)
    BY <1>1, TextAfter
  <1> HIDE DEF L, R, M, S
  <1>6. /\ L \in Seq(Input) /\ M \in Seq(Input) /\ Len(L) = pos /\ Len(M) = pos
        /\ R \in Seq(Input) /\ S \in Seq(Input) /\ Len(R) = len - pos /\ Len(S) = len - pos - 1
    BY <1>2, <1>4, <1>5 DEF TextIs
  <1>7. M = L
    <2>1. ASSUME NEW k \in 1 .. pos PROVE M[k] = L[k]
      <3>1. M[k] = buf'[k - 1] /\ L[k] = buf[k - 1]
        BY <1>2, <1>4, <1>5 DEF TextIs
      <3> QED
        BY <1>2, <1>3, <3>1
    <2> QED
      BY <1>6, <2>1, SameText
  <1>8. R # <<>>
    BY <1>2, <1>6
  <1>9. S = Tail(R)
    <2>1. ASSUME NEW k \in 1 .. len - pos - 1 PROVE S[k] = R[k + 1]
      <3>1. S[k] = buf'[pos + k - 1] /\ R[k + 1] = buf[pos + k]
        BY <1>2, <1>4, <1>5 DEF TextIs
      <3> QED
        BY <1>2, <1>3, <3>1
    <2> QED
      BY <1>6, <1>8, <2>1, TailText
  <1> QED
    BY <1>1, <1>7, <1>8, <1>9
       DEF L, R, M, S, LeftText, RightText, Left, Right, Editor!Delete, Editor!Typed

LEMMA TransposeImplements ==
    ASSUME Inv, Inv', Transpose, pos > 0, pos < len
    PROVE  Editor!Transpose
  <1> DEFINE L == LeftText
             R == RightText
             M == LeftText'
             S == RightText'
             swapped == Append(SubSeq(L, 1, Len(L) - 1), Head(R))
  <1>1. /\ buf' = [buf EXCEPT ![pos - 1] = buf[pos], ![pos] = buf[pos - 1]]
        /\ len' = len /\ pos' = MovesOn(pos) /\ by' = "key"
    BY DEF Transpose, Edited
  <1>2. len \in Nat /\ pos \in 1 .. len - 1 /\ pos - 1 \in Place /\ pos \in Place /\ buf \in Buffer
    BY LineFacts DEF Place
  <1>3. /\ buf'[pos - 1] = buf[pos] /\ buf'[pos] = buf[pos - 1]
        /\ \A k \in 0 .. len - 1 : k # pos /\ k # pos - 1 => buf'[k] = buf[k]
    BY <1>1, <1>2, LineFacts DEF Buffer, Place
  <1>4. TextIs(L, R, buf, len, pos)
    BY TextBefore
  <1>5. TextIs(M, S, buf', len, pos')
    BY <1>1, TextAfter
  <1> HIDE DEF L, R, M, S
  <1>6. /\ L \in Seq(Input) /\ Len(L) = pos /\ R \in Seq(Input) /\ Len(R) = len - pos
        /\ L[pos] = buf[pos - 1] /\ R[1] = buf[pos] /\ Head(R) = buf[pos] /\ Head(R) \in Input
        /\ L # <<>> /\ R # <<>> /\ L[pos] \in Input
    BY <1>2, <1>4, LineFacts DEF TextIs
  <1>7. /\ swapped \in Seq(Input) /\ Len(swapped) = pos
        /\ \A k \in 1 .. pos - 1 : swapped[k] = L[k]
        /\ swapped[pos] = buf[pos]
    BY <1>2, <1>6
  <1> HIDE DEF swapped
  <1>8. \A k \in 1 .. pos : swapped[k] = buf'[k - 1]
    <2>1. ASSUME NEW k \in 1 .. pos - 1 PROVE swapped[k] = buf'[k - 1]
      <3>1. swapped[k] = buf[k - 1]
        BY <1>2, <1>4, <1>7 DEF TextIs
      <3> QED
        BY <1>2, <1>3, <3>1
    <2> QED
      BY <1>2, <1>3, <1>7, <2>1
  <1>9. CASE pos = len - 1
    <2>1. pos' = pos
      BY <1>1, <1>9 DEF MovesOn
    <2>2. /\ M \in Seq(Input) /\ Len(M) = pos /\ \A k \in 1 .. pos : M[k] = buf'[k - 1]
          /\ S \in Seq(Input) /\ Len(S) = 1 /\ S[1] = buf'[pos]
      BY <1>2, <1>5, <1>9, <2>1 DEF TextIs
    <2>3. M = swapped
      BY <1>7, <1>8, <2>2, SameText
    <2>4. S = <<L[Len(L)]>> /\ Len(R) = 1
      BY <1>2, <1>3, <1>6, <1>9, <2>2
    <2> QED
      BY <1>1, <1>6, <2>3, <2>4
         DEF L, R, M, S, swapped, LeftText, RightText, Left, Right, Editor!Transpose,
             Editor!Typed, Editor!Keep, Editor!Last
  <1>10. CASE pos # len - 1
    <2>1. pos' = pos + 1
      BY <1>1, <1>10 DEF MovesOn
    <2>2. /\ M \in Seq(Input) /\ Len(M) = pos + 1
          /\ S \in Seq(Input) /\ Len(S) = len - pos - 1
      BY <1>2, <1>5, <2>1 DEF TextIs
    <2>3. \A k \in 1 .. pos + 1 : M[k] = buf'[k - 1]
      BY <1>5, <2>1 DEF TextIs
    <2>4. M = Append(swapped, L[Len(L)])
      <3>1. M[pos + 1] = L[Len(L)]
        BY <1>2, <1>3, <1>6, <2>3
      <3>2. \A k \in 1 .. pos : M[k] = swapped[k]
        BY <1>2, <1>8, <2>3
      <3> QED
        BY <1>6, <1>7, <2>2, <3>1, <3>2, AppendedText
    <2>5. S = Tail(R)
      <3>1. ASSUME NEW k \in 1 .. len - pos - 1 PROVE S[k] = R[k + 1]
        <4>1. S[k] = buf'[pos + k]
          <5>1. \A j \in 1 .. len - pos' : S[j] = buf'[pos' + j - 1]
            BY <1>5 DEF TextIs
          <5>2. k \in 1 .. len - pos' /\ pos' + k - 1 = pos + k
            BY <1>2, <2>1
          <5>3. S[k] = buf'[pos' + k - 1]
            BY <5>1, <5>2
          <5> QED
            BY <5>2, <5>3
        <4>2. R[k + 1] = buf[pos + k]
          <5>1. k + 1 \in 1 .. len - pos /\ pos + (k + 1) - 1 = pos + k
            BY <1>2
          <5>2. R[k + 1] = buf[pos + (k + 1) - 1]
            BY <1>4, <5>1 DEF TextIs
          <5> QED
            BY <5>1, <5>2
        <4> QED
          BY <1>2, <1>3, <4>1, <4>2
      <3> QED
        BY <1>6, <2>2, <3>1, TailText
    <2>6. Len(R) # 1
      BY <1>2, <1>6, <1>10
    <2> QED
      BY <1>1, <1>6, <2>4, <2>5, <2>6
         DEF L, R, M, S, swapped, LeftText, RightText, Left, Right, Editor!Transpose,
             Editor!Typed, Editor!Keep, Editor!Last
  <1> QED
    BY <1>9, <1>10

LEMMA KillImplements ==
    ASSUME Inv, Inv', KillLine \/ KillToEnd
    PROVE  Editor!KillLine \/ Editor!KillToEnd
  <1>1. CASE KillLine
    <2>1. len' = 0 /\ pos' = 0 /\ by' = "key"
      BY <1>1 DEF KillLine, Edited
    <2>2. LeftText' = <<>> /\ RightText' = <<>>
      BY <2>1, TextAfter DEF TextIs
    <2> QED
      BY <2>1, <2>2 DEF LeftText, RightText, Left, Right, Editor!KillLine, Editor!Typed
  <1>2. CASE KillToEnd
    <2> DEFINE L == LeftText
               M == LeftText'
               S == RightText'
    <2>1. buf' = [buf EXCEPT ![pos] = NUL] /\ len' = pos /\ pos' = pos /\ by' = "key"
      BY <1>2 DEF KillToEnd, Edited
    <2>2. /\ L \in Seq(Input) /\ Len(L) = pos /\ \A k \in 1 .. pos : L[k] = buf[k - 1]
      BY TextBefore DEF TextIs
    <2>3. /\ M \in Seq(Input) /\ Len(M) = pos /\ \A k \in 1 .. pos : M[k] = buf'[k - 1]
          /\ S \in Seq(Input) /\ Len(S) = pos - pos
      BY <2>1, TextAfter DEF TextIs
    <2> HIDE DEF L, M, S
    <2>4. pos \in Place /\ buf \in Buffer /\ pos \in Nat
      BY LineFacts DEF Place
    <2>5. \A k \in 0 .. pos - 1 : buf'[k] = buf[k]
      BY <2>1, <2>4 DEF Buffer, Place
    <2>6. M = L
      <3>1. ASSUME NEW k \in 1 .. pos PROVE M[k] = L[k]
        BY <2>2, <2>3, <2>4, <2>5
      <3> QED
        BY <2>2, <2>3, <3>1, SameText
    <2>7. S = <<>>
      BY <2>3, <2>4
    <2> QED
      BY <2>1, <2>6, <2>7
         DEF L, M, S, LeftText, RightText, Left, Right, Editor!KillToEnd, Editor!Typed
  <1> QED
    BY <1>1, <1>2

LEMMA ShowImplements ==
    ASSUME Inv', pos' = len', by' \in {"recalled", "completed"}
    PROVE  Editor!Show
  <1>1. TextIs(LeftText', RightText', buf', len', pos')
    BY TextAfter
  <1>2. len' \in 0 .. BufLen /\ pos' \in 0 .. BufLen
    BY DEF Inv, LineOK, Ended, Place
  <1>3. RightText' = <<>>
    BY <1>1, <1>2 DEF TextIs
  <1>4. LeftText' \in [1 .. pos' -> Input]
    <2>1. LeftText' \in Seq(Input) /\ Len(LeftText') = pos'
      BY <1>1 DEF TextIs
    <2> QED
      BY <2>1
  <1>5. LeftText' \in UNION {[1 .. n -> Input] : n \in 0 .. BufLen}
    BY <1>2, <1>4
  <1> QED
    BY <1>3, <1>5 DEF LeftText, RightText, Left, Right, Editor!Show, Editor!Texts

\* the cursor put to place n
LEMMA MovedToImplements ==
    ASSUME Inv, NEW n \in 0 .. len, MovedTo(n)
    PROVE  Editor!MoveTo(n)
  <1> DEFINE L == LeftText
             R == RightText
             M == Left(buf, n)
             S == Right(buf, len, n)
             text == L \o R
  <1>1. UNCHANGED <<buf, len, by>> /\ pos' = n
    BY DEF MovedTo
  <1>2. len \in Nat /\ pos \in 0 .. len
    BY LineFacts
  <1>3. TextIs(L, R, buf, len, pos) /\ TextIs(M, S, buf, len, n)
    BY LineFacts, TextBefore, TextOf
  <1> HIDE DEF L, R, M, S
  <1>4. /\ L \in Seq(Input) /\ R \in Seq(Input) /\ Len(L) = pos /\ Len(R) = len - pos
        /\ M \in Seq(Input) /\ S \in Seq(Input) /\ Len(M) = n /\ Len(S) = len - n
    BY <1>3 DEF TextIs
  <1>5. /\ text \in Seq(Input) /\ Len(text) = Len(L) + Len(R)
        /\ \A k \in 1 .. Len(L) : text[k] = L[k]
        /\ \A k \in 1 .. Len(R) : text[Len(L) + k] = R[k]
    BY <1>4, JoinedText
  <1> HIDE DEF text
  <1>6. Len(text) = len /\ \A k \in 1 .. len : text[k] = buf[k - 1]
    <2>1. ASSUME NEW k \in 1 .. pos PROVE text[k] = buf[k - 1]
      <3>1. text[k] = L[k]
        BY <1>4, <1>5
      <3> QED
        BY <1>3, <3>1 DEF TextIs
    <2>2. ASSUME NEW k \in pos + 1 .. len PROVE text[k] = buf[k - 1]
      <3>1. k - pos \in 1 .. len - pos /\ pos + (k - pos) - 1 = k - 1
        BY <1>2
      <3>2. text[k] = R[k - pos]
        <4>1. k - pos \in 1 .. Len(R)
          BY <1>4, <3>1
        <4>2. text[Len(L) + (k - pos)] = R[k - pos]
          BY <1>5, <4>1
        <4>3. Len(L) + (k - pos) = k
          BY <1>2, <1>4
        <4> QED
          BY <4>2, <4>3
      <3>3. R[k - pos] = buf[pos + (k - pos) - 1]
        BY <1>3, <3>1 DEF TextIs
      <3> QED
        BY <3>1, <3>2, <3>3
    <2>3. Len(text) = len
      BY <1>2, <1>4, <1>5
    <2> QED
      BY <1>2, <2>1, <2>2, <2>3
  <1>7. M = SubSeq(text, 1, n)
    <2>1. ASSUME NEW k \in 1 .. n PROVE M[k] = text[k]
      <3>1. M[k] = buf[k - 1] /\ k \in 1 .. len
        BY <1>2, <1>3 DEF TextIs
      <3> QED
        BY <1>6, <3>1
    <2> QED
      BY <1>2, <1>4, <1>5, <1>6, <2>1, PrefixText
  <1>8. S = SubSeq(text, n + 1, Len(text))
    <2>1. ASSUME NEW k \in 1 .. len - n PROVE S[k] = text[n + k]
      <3>1. S[k] = buf[n + k - 1] /\ n + k \in 1 .. len
        BY <1>2, <1>3 DEF TextIs
      <3> QED
        BY <1>6, <3>1
    <2> QED
      BY <1>2, <1>4, <1>5, <1>6, <2>1, SuffixText
  <1> QED
    BY <1>1, <1>7, <1>8 DEF L, R, M, S, text, LeftText, RightText, Left, Right, Editor!MoveTo

\* the word the loops find is the last one, and the spaces behind it
LEMMA DeletePrevWordImplements ==
    ASSUME Inv, Inv', DeletePrevWord
    PROVE  Editor!DeleteWord
  <1> DEFINE L == LeftText
             R == RightText
             M == LeftText'
             S == RightText'
             w == WordStart
             e == WordEnd
             IsWord(n) == \E m \in n .. Len(L) :
                             /\ \A k \in n + 1 .. m : L[k] # Space
                             /\ \A k \in m + 1 .. Len(L) : L[k] = Space
  <1>1. /\ buf' = memmove(buf, w, pos, RestAndNul)
        /\ len' = len - (pos - w) /\ pos' = w /\ by' = "key"
    BY DEF DeletePrevWord, Edited
  <1>2. /\ e \in 0 .. pos /\ (e = 0 \/ buf[e - 1] # Space)
        /\ \A k \in e .. pos - 1 : buf[k] = Space
        /\ w \in 0 .. e /\ (w = 0 \/ buf[w - 1] = Space)
        /\ \A k \in w .. e - 1 : buf[k] # Space
    BY WordFound
  <1> HIDE DEF w, e
  <1>3. len \in Nat /\ pos \in 0 .. len /\ w \in 0 .. pos
    BY <1>2, LineFacts
  <1>4. /\ \A k \in 0 .. w - 1 : buf'[k] = buf[k]
        /\ \A k \in w .. len - (pos - w) - 1 : buf'[k] = buf[k + (pos - w)]
    BY <1>1, <1>3, DeletePrevWordBytes
  <1>5. TextIs(L, R, buf, len, pos)
    BY TextBefore
  <1>6. TextIs(M, S, buf', len - (pos - w), w)
    BY <1>1, TextAfter
  <1> HIDE DEF L, R, M, S
  <1>7. /\ L \in Seq(Input) /\ M \in Seq(Input) /\ Len(L) = pos /\ Len(M) = w
        /\ R \in Seq(Input) /\ S \in Seq(Input) /\ Len(R) = len - pos /\ Len(S) = len - pos
    BY <1>3, <1>5, <1>6 DEF TextIs
  <1>8. \A k \in 1 .. pos : L[k] = buf[k - 1]
    BY <1>5 DEF TextIs
  <1>9. M = SubSeq(L, 1, w)
    <2>1. ASSUME NEW k \in 1 .. w PROVE M[k] = L[k]
      <3>1. M[k] = buf'[k - 1]
        BY <1>6 DEF TextIs
      <3> QED
        BY <1>3, <1>4, <1>8, <3>1
    <2> QED
      BY <1>3, <1>7, <2>1, PrefixText
  <1>10. S = R
    <2>1. ASSUME NEW k \in 1 .. len - pos PROVE S[k] = R[k]
      <3>1. S[k] = buf'[w + k - 1] /\ R[k] = buf[pos + k - 1]
        BY <1>3, <1>5, <1>6 DEF TextIs
      <3>2. w + k - 1 \in w .. len - (pos - w) - 1 /\ (w + k - 1) + (pos - w) = pos + k - 1
        BY <1>3
      <3> QED
        BY <1>4, <3>1, <3>2
    <2> QED
      BY <1>7, <2>1, SameText
  <1>11. IsWord(w)
    <2>1. ASSUME NEW k \in w + 1 .. e PROVE L[k] # Space
      <3>1. k - 1 \in w .. e - 1 /\ k \in 1 .. pos
        BY <1>2, <1>3
      <3> QED
        BY <1>2, <1>8, <3>1
    <2>2. ASSUME NEW k \in e + 1 .. pos PROVE L[k] = Space
      <3>1. k - 1 \in e .. pos - 1 /\ k \in 1 .. pos
        BY <1>2, <1>3
      <3> QED
        BY <1>2, <1>8, <3>1
    <2>3. e \in w .. Len(L)
      BY <1>2, <1>3, <1>7
    <2> QED
      BY <1>7, <2>1, <2>2, <2>3
  <1>12. ASSUME NEW n \in 0 .. w - 1 PROVE ~IsWord(n)
    <2> SUFFICES ASSUME NEW m \in n .. Len(L),
                        \A k \in n + 1 .. m : L[k] # Space,
                        \A k \in m + 1 .. Len(L) : L[k] = Space
                 PROVE  FALSE
      OBVIOUS
    <2>1. w \in n + 1 .. pos /\ L[w] = Space
      <3>1. w \in n + 1 .. pos /\ w \in 1 .. pos
        BY <1>3
      <3> QED
        BY <1>2, <1>8, <3>1
    <2>2. m < w
      BY <1>3, <1>7, <2>1
    <2>3. CASE e = w
      <3>1. L[e] # Space
        BY <1>2, <1>3, <1>8, <2>1, <2>3
      <3> QED
        BY <2>1, <2>3, <3>1
    <2>4. CASE e > w
      <3>1. w \in w .. e - 1 /\ w + 1 \in 1 .. pos /\ w + 1 \in m + 1 .. Len(L)
        BY <1>2, <1>3, <1>7, <2>2, <2>4
      <3>2. L[w + 1] = Space
        BY <3>1
      <3>3. L[w + 1] = buf[w]
        BY <1>3, <1>8, <3>1
      <3> QED
        BY <1>2, <3>1, <3>2, <3>3
    <2> QED
      BY <1>2, <2>3, <2>4
  <1>13. w \in 0 .. Len(L)
    BY <1>3, <1>7
  <1> QED
    BY <1>1, <1>9, <1>10, <1>11, <1>12, <1>13
       DEF L, R, M, S, LeftText, RightText, Left, Right,
           Editor!DeleteWord, Editor!IsWordFrom, Editor!Typed, Editor!Keep

LEMMA Stutters ==
    ASSUME UNCHANGED <<buf, len, pos, by>>
    PROVE  UNCHANGED Editor!vars
  BY DEF Editor!vars

LEMMA StepImplements ==
    ASSUME Inv, Inv', [Next]_vars
    PROVE  [Editor!Next]_Editor!vars
  <1>1. CASE linenoiseEdit \/ Enter \/ EndOfFile \/ CtrlC
    <2>1. pos' = len' /\ by' = "recalled"
      BY <1>1 DEF linenoiseEdit, Enter, EndOfFile, CtrlC, Return
    <2> QED
      BY <2>1, ShowImplements DEF Editor!Next
  <1>2. CASE linenoiseHistoryAdd \/ linenoiseHistorySetMaxLen
    BY <1>2, Stutters DEF linenoiseHistoryAdd, linenoiseHistorySetMaxLen
  <1>3. ASSUME NEW c \in Input, Insert(c) PROVE [Editor!Next]_Editor!vars
    <2>1. CASE HasRoom(len)
      BY <1>3, <2>1, InsertImplements DEF Editor!Next
    <2>2. CASE ~HasRoom(len)
      BY <1>3, <2>2, Stutters DEF Insert, Same
    <2> QED
      BY <2>1, <2>2
  <1>4. CASE Backspace
    <2>1. CASE pos > 0 /\ len > 0
      BY <1>4, <2>1, BackspaceImplements DEF Editor!Next
    <2>2. CASE ~(pos > 0 /\ len > 0)
      BY <1>4, <2>2, Stutters DEF Backspace, Same
    <2> QED
      BY <2>1, <2>2
  <1>5. CASE Delete
    <2>1. CASE pos < len
      BY <1>5, <2>1, DeleteImplements DEF Editor!Next
    <2>2. CASE ~(pos < len)
      BY <1>5, <2>2, Stutters DEF Delete, Same
    <2> QED
      BY <2>1, <2>2
  <1>6. CASE Transpose
    <2>1. CASE pos > 0 /\ pos < len
      BY <1>6, <2>1, TransposeImplements DEF Editor!Next
    <2>2. CASE ~(pos > 0 /\ pos < len)
      BY <1>6, <2>2, Stutters DEF Transpose, Same
    <2> QED
      BY <2>1, <2>2
  <1>7. CASE KillLine \/ KillToEnd
    BY <1>7, KillImplements DEF Editor!Next
  <1>8. CASE DeletePrevWord
    BY <1>8, DeletePrevWordImplements DEF Editor!Next
  <1>9. CASE Move
    <2>1. len \in Nat /\ pos \in 0 .. len
      BY LineFacts
    <2>2. CASE UNCHANGED <<buf, len, pos, by>>
      BY <2>2, Stutters
    <2> DEFINE L == LeftText
               R == RightText
    <2>3. \A n \in 0 .. len : MovedTo(n) => Editor!MoveTo(n)
      BY MovedToImplements
    <2>4. /\ Len(L) = pos /\ Len(R) = len - pos
          /\ L \in Seq(Input) /\ R \in Seq(Input)
      BY TextBefore DEF TextIs
    <2>5. /\ L # <<>> /\ Editor!MoveTo(Len(L) - 1) => Editor!Move
          /\ R # <<>> /\ Editor!MoveTo(Len(L) + 1) => Editor!Move
          /\ Editor!MoveTo(0) => Editor!Move
          /\ Editor!MoveTo(Len(L) + Len(R)) => Editor!Move
      BY DEF LeftText, Left, RightText, Right, Editor!Move
    <2> HIDE DEF L, R
    <2>6. CASE pos > 0 /\ MovedTo(pos - 1)
      <3>1. pos - 1 \in 0 .. len /\ L # <<>> /\ Len(L) - 1 = pos - 1
        BY <2>1, <2>6, <2>4
      <3>2. Editor!MoveTo(pos - 1)
        BY <2>6, <2>3, <3>1 DEF MovedTo, Editor!MoveTo
      <3> QED
        BY <2>5, <3>1, <3>2 DEF Editor!MoveTo, Editor!Next
    <2>7. CASE pos # len /\ MovedTo(pos + 1)
      <3>1. pos + 1 \in 0 .. len /\ R # <<>> /\ Len(L) + 1 = pos + 1
        BY <2>1, <2>7, <2>4
      <3>2. Editor!MoveTo(pos + 1)
        BY <2>7, <2>3, <3>1 DEF MovedTo, Editor!MoveTo
      <3> QED
        BY <2>5, <3>1, <3>2 DEF Editor!MoveTo, Editor!Next
    <2>8. CASE MovedTo(0)
      <3>1. Editor!MoveTo(0)
        BY <2>1, <2>8, <2>3
      <3> QED
        BY <2>5, <3>1 DEF Editor!Next
    <2>9. CASE MovedTo(len)
      <3>1. len \in 0 .. len /\ Len(L) + Len(R) = len
        BY <2>1, <2>4
      <3>2. Editor!MoveTo(len)
        BY <2>9, <2>3, <3>1 DEF MovedTo, Editor!MoveTo
      <3> QED
        BY <2>5, <3>1, <3>2 DEF Editor!MoveTo, Editor!Next
    <2>10. \/ UNCHANGED <<buf, len, pos, by>>
           \/ pos > 0 /\ MovedTo(pos - 1)
           \/ pos # len /\ MovedTo(pos + 1)
           \/ MovedTo(0) \/ MovedTo(len)
      BY <1>9, <2>1 DEF Move, MovedTo
    <2> QED
      BY <2>2, <2>6, <2>7, <2>8, <2>9, <2>10
  <1>10. CASE OtherSequence \/ Tab \/ CompleteTab \/ CompleteEscape
    BY <1>10, Stutters DEF OtherSequence, Tab, CompleteTab, CompleteEscape, Same
  <1>11. CASE HistoryNext(1) \/ HistoryNext(-1)
    <2>1. CASE pos' = len' /\ by' = "recalled"
      BY <2>1, ShowImplements DEF Editor!Next
    <2>2. CASE UNCHANGED <<buf, len, pos, by>>
      BY <2>2, Stutters
    <2> QED
      BY <1>11, <2>1, <2>2 DEF HistoryNext, Same
  <1>12. CASE CompleteTake
    <2>1. CASE pos' = len' /\ by' = "completed"
      BY <2>1, ShowImplements DEF Editor!Next
    <2>2. CASE UNCHANGED <<buf, len, pos, by>>
      BY <2>2, Stutters
    <2> QED
      BY <1>12, <2>1, <2>2 DEF CompleteTake, Same
  <1>13. CASE UNCHANGED vars
    BY <1>13, Stutters DEF vars
  <1> QED
    BY <1>1, <1>2, <1>3, <1>4, <1>5, <1>6, <1>7, <1>8, <1>9, <1>10, <1>11, <1>12, <1>13
       DEF Next

LEMMA InitImplements ==
    ASSUME Init
    PROVE  Editor!Init
  <1>1. len = 0 /\ pos = 0 /\ by = "recalled"
    BY DEF Init
  <1>2. LeftText = <<>> /\ RightText = <<>>
    BY <1>1, InitInv, TextBefore DEF TextIs
  <1> QED
    BY <1>1, <1>2 DEF LeftText, RightText, Left, Right, Editor!Init

\* Moving bytes about in the buffer is editing a text with a cursor, for a
\* buffer of any size, if completion only offers lines shorter than the buffer.
\* Code behaviour: the linenoiseEdit* functions.
THEOREM LineImplementsEditor ==
    ASSUME CompletionsFit
    PROVE  Spec => IsEditor
  <1>1. Init => Editor!Init
    BY InitImplements
  <1>2. Inv /\ Inv' /\ [Next]_vars => [Editor!Next]_Editor!vars
    BY StepImplements
  <1> QED
    BY <1>1, <1>2, LineInvariant, PTL DEF Spec, IsEditor, Editor!Spec
=============================================================================
