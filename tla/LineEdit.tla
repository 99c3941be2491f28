------------------------------ MODULE LineEdit ------------------------------
(***************************************************************************)
(* linenoise/linenoise.c, the line editor of the prompt: linenoiseEdit key *)
(* by key on its buffer of bytes, completeLine, and the history, which     *)
(* outlives the calls and the Lua states that make them.                   *)
(*                                                                         *)
(* A step is one key, or one call of the history functions between two     *)
(* edits.  What is drawn on the terminal is left out; mlmode is 0 and      *)
(* there is no hints callback.                                             *)
(***************************************************************************)
EXTENDS Integers, Sequences

CONSTANTS
    Char,          \* characters: any byte but 0 that is no command
    Space,
    NUL,
    Junk,          \* a byte of the stack that nobody has written
    BufLen,        \* l.buflen, the size of the buffer less one
    LuaLines,      \* lines that Lua adds to the history
    Completions,   \* lists of lines that the callback may offer
    MaxLens        \* values of history_max_len

ASSUME LineAssumption ==
    /\ Space \in Char /\ NUL \notin Char /\ Junk \notin Char /\ Junk # NUL
    /\ BufLen \in Nat /\ BufLen >= 2
    /\ LuaLines \subseteq Seq(Char)
    /\ Completions \subseteq Seq(Seq(Char))
    /\ MaxLens \subseteq Nat \ {0}

VARIABLES
    buf, len, pos,      \* the line, byte by byte, and the cursor
    history, max_len,   \* history[1] is the oldest
    index,              \* history_index, counted from the newest
    mode,               \* "idle", "edit", "complete"; "escape": ESC was read
    comp,               \* completions offered, and the one shown
    by                  \* history: what made the line, as in LineEditor

vars == <<buf, len, pos, history, max_len, index, mode, comp, by>>

\* a 0 byte is typed like any other, though it ends a line for strdup
Input == Char \cup {NUL}

NoComp == [list |-> <<>>, i |-> 0]

Blank == [k \in 0 .. BufLen |-> IF k = 0 THEN NUL ELSE Junk]

Init ==
    /\ buf = Blank /\ len = 0 /\ pos = 0
    /\ history = <<>> /\ max_len \in MaxLens
    /\ index = 0 /\ mode = "idle" /\ comp = NoComp /\ by = "recalled"

-----------------------------------------------------------------------------
(* The C library on a buffer *)

StrLen(b) ==
    IF \E n \in 0 .. BufLen : b[n] = NUL
    THEN CHOOSE n \in 0 .. BufLen : b[n] = NUL /\ \A k \in 0 .. n - 1 : b[k] # NUL
    ELSE BufLen + 1

\* strdup
Text(b) == [k \in 1 .. StrLen(b) |-> b[k - 1]]

memmove(b, to, from, n) ==
    [k \in 0 .. BufLen |-> IF k >= to /\ k < to + n THEN b[from + k - to] ELSE b[k]]

\* strncpy pads with NUL
strncpy(b, s, n) ==
    [k \in 0 .. BufLen |->
        IF k >= n THEN b[k] ELSE IF k < Len(s) THEN s[k + 1] ELSE NUL]

Least(a, b) == IF a < b THEN a ELSE b

\* snprintf of "%s" into n bytes
snprintf(b, s, n) ==
    LET m == Least(Len(s), n - 1)
    IN  [k \in 0 .. BufLen |->
            IF k < m THEN s[k + 1] ELSE IF k = m THEN NUL ELSE b[k]]

-----------------------------------------------------------------------------
(* History *)

\* the oldest line makes room
HistoryAdd(h, line) ==
    IF h # <<>> /\ h[Len(h)] = line THEN h
    ELSE Append(IF Len(h) = max_len THEN Tail(h) ELSE h, line)

linenoiseHistoryAdd ==
    /\ mode = "idle"
    /\ \E line \in LuaLines : history' = HistoryAdd(history, line)
    /\ UNCHANGED <<buf, len, pos, max_len, index, mode, comp, by>>

linenoiseHistorySetMaxLen ==
    /\ mode = "idle"
    /\ max_len' \in MaxLens
    /\ LET n == Least(Len(history), max_len')
       IN  history' = SubSeq(history, Len(history) - n + 1, Len(history))
    /\ UNCHANGED <<buf, len, pos, index, mode, comp, by>>

-----------------------------------------------------------------------------
(* One edit *)

\* the newest history entry is the line that is edited
linenoiseEdit ==
    /\ mode = "idle"
    /\ buf' = Blank /\ len' = 0 /\ pos' = 0
    /\ history' = HistoryAdd(history, <<>>)
    /\ index' = 0 /\ mode' = "edit" /\ by' = "recalled"
    /\ UNCHANGED <<max_len, comp>>

\* the buffer is on the stack of linenoise()
Return ==
    /\ buf' = Blank /\ len' = 0 /\ pos' = 0
    /\ index' = 0 /\ mode' = "idle" /\ by' = "recalled"
    /\ UNCHANGED <<max_len, comp>>

PopHistory == history' = SubSeq(history, 1, Len(history) - 1)

Enter == mode = "edit" /\ PopHistory /\ Return

EndOfFile == mode = "edit" /\ len = 0 /\ PopHistory /\ Return

\* the entry of the line given up stays in the history
CtrlC == mode = "edit" /\ UNCHANGED history /\ Return

-----------------------------------------------------------------------------
(* Keys: those a terminal sends as an escape sequence also follow an ESC *)

Key == mode = "edit" /\ UNCHANGED <<mode, history, max_len, index, comp>>
EscKey == mode \in {"edit", "escape"} /\ mode' = "edit" /\ UNCHANGED <<max_len, comp>>

Edited(b, l, p) == buf' = b /\ len' = l /\ pos' = p /\ by' = "key"
Same == UNCHANGED <<buf, len, pos, by>>
MovedTo(p) == pos' = p /\ UNCHANGED <<buf, len, by>>

\* a deviation: the place of the NUL is given away
HasRoomForAll(n) == n <= BufLen

HasRoom(n) == n < BufLen

Insert(c) ==
    /\ Key
    /\ IF ~HasRoom(len) THEN Same
       ELSE Edited([memmove(buf, pos + 1, pos, len - pos) EXCEPT ![pos] = c, ![len + 1] = NUL],
                   len + 1, pos + 1)

Backspace ==
    /\ Key
    /\ IF pos > 0 /\ len > 0
       THEN Edited([memmove(buf, pos - 1, pos, len - pos) EXCEPT ![len - 1] = NUL],
                   len - 1, pos - 1)
       ELSE Same

Delete ==
    /\ EscKey
    /\ IF pos < len
       THEN Edited([memmove(buf, pos, pos + 1, len - pos - 1) EXCEPT ![len - 1] = NUL],
                   len - 1, pos)
       ELSE Same
    /\ UNCHANGED <<history, index>>

\* a deviation: the cursor may move behind the last character
MovesOnAlways(p) == p + 1

MovesOn(p) == IF p # len - 1 THEN p + 1 ELSE p

Transpose ==
    /\ Key
    /\ IF pos > 0 /\ pos < len
       THEN Edited([buf EXCEPT ![pos - 1] = buf[pos], ![pos] = buf[pos - 1]], len, MovesOn(pos))
       ELSE Same

KillLine == Key /\ Edited([buf EXCEPT ![0] = NUL], 0, 0)

KillToEnd == Key /\ Edited([buf EXCEPT ![pos] = NUL], pos, pos)

\* where the word before the cursor begins: behind the spaces, then the rest
WordEnd ==
    CHOOSE p \in 0 .. pos : (p = 0 \/ buf[p - 1] # Space) /\ \A k \in p .. pos - 1 : buf[k] = Space
WordStart ==
    CHOOSE p \in 0 .. WordEnd :
        (p = 0 \/ buf[p - 1] = Space) /\ \A k \in p .. WordEnd - 1 : buf[k] # Space

\* a deviation: the NUL is left behind
RestOfLine == len - pos

RestAndNul == len - pos + 1

DeletePrevWord ==
    /\ Key
    /\ Edited(memmove(buf, WordStart, pos, RestAndNul), len - (pos - WordStart), WordStart)

Move ==
    /\ EscKey
    /\ \/ MovedTo(IF pos > 0 THEN pos - 1 ELSE 0)
       \/ MovedTo(IF pos # len THEN pos + 1 ELSE pos)
       \/ MovedTo(0)
       \/ MovedTo(len)
    /\ UNCHANGED <<history, index>>

\* the rest of an escape sequence that is none of these
OtherSequence == EscKey /\ Same /\ UNCHANGED <<history, index>>

\* a deviation: an entry counted from the oldest
EntryFromOldest(i) == i + 1

Entry(i) == Len(history) - i

\* the line shown is kept in its entry, then the next one is shown
HistoryNext(step) ==
    /\ EscKey
    /\ IF Len(history) <= 1 THEN Same /\ UNCHANGED <<history, index>>
       ELSE /\ history' = [history EXCEPT ![Entry(index)] = Text(buf)]
            /\ IF index + step \in 0 .. Len(history) - 1
               THEN /\ index' = index + step
                    /\ buf' = [strncpy(buf, history'[Entry(index')], BufLen)
                                  EXCEPT ![BufLen - 1] = NUL]
                    /\ len' = StrLen(buf') /\ pos' = len'
                    /\ by' = "recalled"
               ELSE index' = index /\ Same

-----------------------------------------------------------------------------
(* completeLine: the callback's lines are shown in turn in place of the line *)

Tab ==
    /\ mode = "edit"
    /\ \E list \in Completions :
         /\ list # <<>>
         /\ comp' = [list |-> list, i |-> 0]
    /\ mode' = "complete"
    /\ UNCHANGED <<history, max_len, index>> /\ Same

CompleteTab ==
    /\ mode = "complete"
    /\ comp' = [comp EXCEPT !.i = (@ + 1) % (Len(comp.list) + 1)]
    /\ UNCHANGED <<mode, history, max_len, index>> /\ Same

\* the ESC is then handled as the beginning of a sequence
CompleteEscape ==
    /\ mode = "complete"
    /\ mode' = "escape" /\ comp' = NoComp
    /\ UNCHANGED <<history, max_len, index>> /\ Same

\* any other key takes the line shown, and is then handled as ever
CompleteTake ==
    /\ mode = "complete"
    /\ IF comp.i < Len(comp.list)
       THEN LET line == comp.list[comp.i + 1]
            IN  /\ buf' = snprintf(buf, line, BufLen)
                /\ len' = Len(line) /\ pos' = Len(line)
                /\ by' = "completed"
       ELSE Same
    /\ mode' = "edit" /\ comp' = NoComp
    /\ UNCHANGED <<history, max_len, index>>

Next ==
    \/ linenoiseEdit \/ Enter \/ EndOfFile \/ CtrlC
    \/ linenoiseHistoryAdd \/ linenoiseHistorySetMaxLen
    \/ \E c \in Input : Insert(c)
    \/ Backspace \/ Delete \/ Transpose \/ KillLine \/ KillToEnd \/ DeletePrevWord
    \/ Move \/ OtherSequence
    \/ HistoryNext(1) \/ HistoryNext(-1)
    \/ Tab \/ CompleteTab \/ CompleteEscape \/ CompleteTake

Spec == Init /\ [][Next]_vars

-----------------------------------------------------------------------------
(* Properties *)

TypeOK ==
    /\ buf \in [0 .. BufLen -> Char \cup {NUL, Junk}]
    /\ len \in 0 .. BufLen /\ pos \in 0 .. len
    /\ history \in Seq(Seq(Char)) /\ max_len \in MaxLens /\ Len(history) <= max_len
    /\ index \in 0 .. (IF history = <<>> THEN 0 ELSE Len(history) - 1)
    /\ mode \in {"idle", "edit", "complete", "escape"}
    /\ mode # "idle" => history # <<>>
    /\ comp.i \in 0 .. Len(comp.list)
    /\ by \in {"key", "recalled", "completed"}

\* The line ends where len says, at the latest, in every state of an edit: the
\* strdup of the result and of the history, and the memmoves, all rest on it.
\* Only a 0 byte that was typed ends it before.  Code behaviour:
\* "Make sure there is always space for the nulterm" in linenoiseEdit.
NulAfterLine ==
    /\ len <= BufLen
    /\ buf[len] = NUL
    /\ \A k \in 0 .. len - 1 : buf[k] \in Input

\* Moving bytes about in the buffer does what each key is for: the buffer
\* implements a text with a cursor.  Code behaviour: the linenoiseEdit* functions.
Editor == INSTANCE LineEditor WITH
    left  <- [k \in 1 .. pos |-> buf[k - 1]],
    right <- [k \in 1 .. len - pos |-> buf[pos + k - 1]],
    Char  <- Input,
    Room  <- BufLen
IsEditor == Editor!Spec

\* Stepping through the history changes no entry but the one that is shown, and
\* that one only into what it was edited to: a line that was only looked at
\* stays as it was, if the buffer can hold it.  Code behaviour: "Update the
\* current history entry before to overwrite it with the next one".
OnlyShownEntryChanges ==
    [][mode # "idle" /\ mode' # "idle" =>
         /\ Len(history') = Len(history)
         /\ \A k \in 1 .. Len(history) : history'[k] # history[k] =>
              /\ k = Len(history) - index
              /\ history'[k] = Text(buf)
              /\ by = "recalled" => Len(history[k]) >= BufLen]_vars

=============================================================================
