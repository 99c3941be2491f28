------------------------------ MODULE Console ------------------------------
(***************************************************************************)
(* rboot/console.c: text on the frame buffer.  The frame buffer is looked  *)
(* at as rows of pixels, each divided into the columns of characters: what *)
(* a row has in a column is a row of some glyph, nothing, or whatever the  *)
(* memory of the GPU held when the frame buffer was set up.                *)
(*                                                                         *)
(* The height of the screen need not be a multiple of the height of a      *)
(* character.                                                              *)
(***************************************************************************)
EXTENDS Integers

CONSTANTS
    Columns,   \* fb_get_width() / CHAR_W
    Rows,      \* fb_get_height() / CHAR_H
    CharH,     \* CHAR_H
    Below,     \* fb_get_height() % CHAR_H
    Glyph      \* the characters that are written

Height == Rows * CharH + Below

ASSUME ConsoleAssumption ==
    /\ Columns \in Nat \ {0} /\ Rows \in Nat \ {0} /\ CharH \in Nat \ {0}
    /\ Below \in 0 .. CharH - 1
    /\ "none" \notin Glyph

Dark    == [glyph |-> "none", row |-> 0]
Leftover == [glyph |-> "leftover", row |-> 0]
Lit(c, r) == [glyph |-> c, row |-> r]

VARIABLES
    fb,             \* row of pixels -> column -> what is there
    cur_x, cur_y,   \* the cursor, in characters
    text,           \* history: the characters since the last clear, row -> column
    cleared         \* history: clear() has been called

consoleVars == <<fb, cur_x, cur_y, text, cleared>>

Column == 0 .. Columns - 1
NoText == [x \in Column |-> "none"]

ConsoleInit ==
    /\ fb = [p \in 0 .. Height - 1 |-> [x \in Column |-> Leftover]]
    /\ cur_x = 0 /\ cur_y = 0
    /\ text = [y \in 0 .. Rows - 1 |-> NoText]
    /\ cleared = FALSE

clear ==
    /\ fb' = [p \in 0 .. Height - 1 |-> [x \in Column |-> Dark]]
    /\ cur_x' = 0 /\ cur_y' = 0
    /\ text' = [y \in 0 .. Rows - 1 |-> NoText]
    /\ cleared' = TRUE

\* the eight rows of a glyph, from its font
draw_char(c, x, y) ==
    [p \in 0 .. Height - 1 |->
        IF p \div CharH = y THEN [fb[p] EXCEPT ![x] = Lit(c, p % CharH)] ELSE fb[p]]

\* a deviation: the rows that come free are not blanked
MovedOnly(pixels) == [p \in 0 .. Height - 1 |->
    IF p < Height - CharH THEN pixels[p + CharH] ELSE pixels[p]]

\* up by one character, the rows below the last character with the others
Scrolled(pixels) == [p \in 0 .. Height - 1 |->
    IF p < Height - CharH THEN pixels[p + CharH] ELSE [x \in Column |-> Dark]]

newline(pixels, chars) ==
    /\ cur_x' = 0
    /\ IF cur_y + 1 = Rows
       THEN /\ fb' = Scrolled(pixels)
            /\ text' = [y \in 0 .. Rows - 1 |-> IF y < Rows - 1 THEN chars[y + 1] ELSE NoText]
            /\ UNCHANGED cur_y
       ELSE fb' = pixels /\ text' = chars /\ cur_y' = cur_y + 1

\* a character other than a newline; after the last of a line there is one
Write(c) ==
    LET pixels == draw_char(c, cur_x, cur_y)
        chars  == [text EXCEPT ![cur_y][cur_x] = c]
    IN  /\ IF cur_x + 1 = Columns THEN newline(pixels, chars)
           ELSE fb' = pixels /\ text' = chars /\ cur_x' = cur_x + 1 /\ UNCHANGED cur_y
        /\ UNCHANGED cleared

ConsoleNext ==
    \/ clear
    \/ \E c \in Glyph : Write(c)
    \/ newline(fb, text) /\ UNCHANGED cleared

ConsoleSpec == ConsoleInit /\ [][ConsoleNext]_consoleVars

-----------------------------------------------------------------------------
(* Properties *)

\* What is on the screen is the text, scrolled: each character with all its
\* rows, and nothing where nothing was written, after any number of lines and
\* whatever the height of the screen.  Before the screen is first cleared what
\* the memory held may show between the characters.  Code behaviour: newline
\* and draw_char.
ShowsText ==
    \A y \in 0 .. Rows - 1, x \in Column, r \in 0 .. CharH - 1 :
        LET seen == fb[y * CharH + r][x]
        IN  IF text[y][x] # "none" THEN seen = Lit(text[y][x], r)
            ELSE seen = Dark \/ (~cleared /\ seen = Leftover)
=============================================================================
