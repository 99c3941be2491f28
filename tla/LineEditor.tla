----------------------------- MODULE LineEditor -----------------------------
(***************************************************************************)
(* What a line editor promises: a text with a cursor in it, as the         *)
(* characters to the left and to the right of the cursor.  Every key does  *)
(* one thing to them; a line that is recalled or completed takes their     *)
(* place.                                                                  *)
(***************************************************************************)
EXTENDS Integers, Sequences

CONSTANTS
    Char,    \* characters
    Space,   \* the one that separates words
    Room     \* the longest line

VARIABLES
    left, right,   \* the text before and behind the cursor
    by             \* where it is from: "key", "recalled", "completed"

vars == <<left, right, by>>

Texts == UNION {[1 .. n -> Char] : n \in 0 .. Room}

Init == left = <<>> /\ right = <<>> /\ by = "recalled"

Keep(n) == SubSeq(left, 1, n)
Last == left[Len(left)]

Typed(l, r) == left' = l /\ right' = r /\ by' = "key"

Insert == \E c \in Char : Len(left) + Len(right) < Room /\ Typed(Append(left, c), right)

Backspace == left # <<>> /\ Typed(Keep(Len(left) - 1), right)

Delete == right # <<>> /\ Typed(left, Tail(right))

\* the last word before the cursor, and the spaces behind it
IsWordFrom(n) ==
    \E m \in n .. Len(left) :
        /\ \A k \in n + 1 .. m : left[k] # Space
        /\ \A k \in m + 1 .. Len(left) : left[k] = Space

DeleteWord ==
    \E n \in 0 .. Len(left) :
        /\ IsWordFrom(n)
        /\ \A k \in 0 .. n - 1 : ~IsWordFrom(k)
        /\ Typed(Keep(n), right)

\* the cursor moves on, but not behind the last character
Transpose ==
    /\ left # <<>> /\ right # <<>>
    /\ LET swapped == Append(Keep(Len(left) - 1), Head(right))
       IN  IF Len(right) = 1 THEN Typed(swapped, <<Last>>)
                             ELSE Typed(Append(swapped, Last), Tail(right))

KillLine == Typed(<<>>, <<>>)

KillToEnd == Typed(left, <<>>)

MoveTo(n) ==
    LET text == left \o right
    IN  left' = SubSeq(text, 1, n) /\ right' = SubSeq(text, n + 1, Len(text)) /\ UNCHANGED by

Move ==
    \/ left # <<>> /\ MoveTo(Len(left) - 1)
    \/ right # <<>> /\ MoveTo(Len(left) + 1)
    \/ MoveTo(0)
    \/ MoveTo(Len(left) + Len(right))

Show == left' \in Texts /\ right' = <<>> /\ by' \in {"recalled", "completed"}

Next == \/ Insert \/ Backspace \/ Delete \/ DeleteWord \/ Transpose
        \/ KillLine \/ KillToEnd \/ Move \/ Show

Spec == Init /\ [][Next]_vars
=============================================================================
