------------------------------- MODULE Screen -------------------------------
(***************************************************************************)
(* The text screen of src/src/drivers/screen.c: what a call does to the    *)
(* video memory and to the position, when nothing interrupts it.  The      *)
(* screen is a record of the cells fb, screen_col and screen_row; a cell   *)
(* is a character, its colour is left out.                                 *)
(***************************************************************************)
EXTENDS Integers, Sequences, FiniteSets

CONSTANTS
  SCREEN_WIDTH,
  SCREEN_HEIGHT,
  TAB,            \* 8 in the code
  ROWS            \* rows of the video memory, more than are shown

NUL       == "NUL"
Newline   == "newline"
Backspace == "backspace"
Tab       == "tab"
Return    == "return"
Space     == "space"

Cells == 0 .. ROWS * SCREEN_WIDTH - 1

(* The offset of a cell, in cells.                                         *)
offset(x, y) == y * SCREEN_WIDTH + x

(* screen_init and screen_clear: the rows below SCREEN_HEIGHT are written, *)
(* the one after them, which is the last one shown, keeps what it held.    *)
Cleared(before) ==
  [ fb |-> [p \in Cells |-> IF p < offset(0, SCREEN_HEIGHT) THEN Space ELSE before[p]],
    col |-> 0, row |-> 0 ]

Scrolls(x, y) == offset(x, y) > offset(0, SCREEN_HEIGHT)

(* memcpyk of row i to row i - 1.                                          *)
RowCopied(fb, i) ==
  [p \in Cells |-> IF p \div SCREEN_WIDTH = i - 1 THEN fb[p + SCREEN_WIDTH] ELSE fb[p]]

LastLineCleared(fb) ==
  [p \in Cells |-> IF p \div SCREEN_WIDTH = SCREEN_HEIGHT THEN NUL ELSE fb[p]]

(* The copies of the loop, from row 1 on.                                  *)
RowsCopied(fb) ==
  LET upTo[i \in 0 .. SCREEN_HEIGHT - 1] ==
        IF i = 0 THEN fb ELSE RowCopied(upTo[i - 1], i)
  IN  upTo[SCREEN_HEIGHT - 1]

(* Fault: the position does not move up with the text.                     *)
FaultRowKept(s, c, x, y) ==
  LET written == [s EXCEPT !.fb[offset(x, y)] = c]
  IN  IF Scrolls(x, y) THEN [written EXCEPT !.fb = LastLineCleared(RowsCopied(written.fb))]
      ELSE written

(* The test for scrolling follows the write.                               *)
screen_write_at(s, c, x, y) ==
  LET written == [s EXCEPT !.fb[offset(x, y)] = c]
  IN  IF Scrolls(x, y)
      THEN [written EXCEPT !.fb = LastLineCleared(RowsCopied(written.fb)), !.row = @ - 1]
      ELSE written

(* Fault: a full line is begun again.                                      *)
FaultWrapInPlace(s) ==
  IF s.col + 1 = SCREEN_WIDTH THEN [s EXCEPT !.col = 0] ELSE [s EXCEPT !.col = @ + 1]

(* Past a character.                                                       *)
Advanced(s) ==
  IF s.col + 1 = SCREEN_WIDTH THEN [s EXCEPT !.col = 0, !.row = @ + 1] ELSE [s EXCEPT !.col = @ + 1]

(* A backspace in the first column is written like any other character.    *)
screen_write(s, c) ==
  CASE c = Newline -> [s EXCEPT !.col = 0, !.row = @ + 1]
    [] c = Backspace /\ s.col > 0 -> screen_write_at([s EXCEPT !.col = @ - 1], NUL, s.col - 1, s.row)
    [] c = Tab -> [s EXCEPT !.col = @ + TAB - (@ % TAB)]
    [] c = Return -> [s EXCEPT !.col = 0]
    [] OTHER -> Advanced(screen_write_at(s, c, s.col, s.row))

screen_print(s, str) ==
  LET upTo[n \in 0 .. Len(str)] == IF n = 0 THEN s ELSE screen_write(upTo[n - 1], str[n])
  IN  upTo[Len(str)]

(* What screen_write passes to move_cursor.                                *)
Position(s) == offset(s.col, s.row)
=============================================================================
