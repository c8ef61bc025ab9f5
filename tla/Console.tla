------------------------------ MODULE Console ------------------------------
(***************************************************************************)
(* The screen as kmain and keyboard_callback share it.  Before             *)
(* keyboard_init only kmain prints, and a call of screen_write is one      *)
(* step.  After it a key may interrupt kmain between any two accesses of   *)
(* screen_write to screen_col, screen_row, the video memory or the ports;  *)
(* the handler itself runs to its end (IrqNesting of module Interrupts).   *)
(*                                                                         *)
(* The two variables are not volatile.  An increment is a read and a       *)
(* write, the two arguments of screen_write_at are read in either order,   *)
(* and between two points where it must forget what it holds the compiler  *)
(* may read a variable early, keep the value it read or wrote, or read it  *)
(* again.  It must forget after a write through framebuffer, a char *, and *)
(* after a call of another file.  Writes keep the order of the source.     *)
(***************************************************************************)
EXTENDS Screen

CONSTANTS
  BYTE,        \* values of a byte (256 in the code)
  SCANCODE_MAX,
  Scancodes,   \* what the keyboard may send
  PREFIX,      \* length of "Received scancode: "
  MAX_EARLY, MAX_TEXT, MAX_KEYS  \* bounds on what is printed and pressed

(* The code has 80 columns, 24 rows and the one after them, tab stops of 8 *)
(* and a report of 20 or 21 characters.                                    *)
ASSUME ScreenAssumption ==
  /\ SCREEN_WIDTH \in Nat /\ SCREEN_WIDTH >= 3
  /\ SCREEN_HEIGHT \in Nat \ {0}
  /\ TAB \in Nat \ {0}

(* The 32 KiB of video memory hold 204 rows.                               *)
ASSUME RowsAssumption == ROWS \in Nat /\ ROWS > SCREEN_HEIGHT

ASSUME ReportAssumption == PREFIX \in Nat \ {0} /\ PREFIX + 2 <= SCREEN_WIDTH

(* The position fits the two bytes of the cursor.                          *)
ASSUME CursorAssumption ==
  BYTE \in Nat \ {0} /\ (SCREEN_HEIGHT + 5) * SCREEN_WIDTH <= BYTE * BYTE

ASSUME ScancodeAssumption == Scancodes \subseteq Nat /\ SCANCODE_MAX \in Nat

VARIABLES
  s,        \* fb, screen_col and screen_row
  crt,      \* the controller: its index register and the cursor's two bytes
  k,        \* kmain: pc in screen_write; x, y: column and row it holds; row i to copy; pos
  enabled,  \* keyboard_init has been called
  count,    \* characters before and after keyboard_init, and keys, so far
  line,     \* history: characters of kmain's line, -1 after an empty line, -2 after a tab
  put,      \* history: characters written, or -1 once cells were moved or reused
  hits,     \* history: keys that interrupted a screen_write
  clean     \* history: none interrupted the last one

vars == << s, crt, k, enabled, count, line, put, hits, clean >>

-----------------------------------------------------------------------------
(* The controller (external): the index port selects which byte of the     *)
(* cursor the data port writes.                                            *)
HIGH == 14
LOW  == 15

Select(r, index) == [r EXCEPT !.index = index]

Data(r, byte) == IF r.index = HIGH THEN [r EXCEPT !.high = byte] ELSE [r EXCEPT !.low = byte]

Cursor == crt.high * BYTE + crt.low

(* Fault: the low byte is left selected by the write before.               *)
FaultNoSelect(r, n, pos) ==
  CASE n = 1 -> Select(r, HIGH)
    [] n = 2 -> Data(r, (pos \div BYTE) % BYTE)
    [] n = 3 -> r
    [] n = 4 -> Data(r, pos % BYTE)

(* The four port writes of move_cursor(pos).                               *)
PortWrite(r, n, pos) ==
  CASE n = 1 -> Select(r, HIGH)
    [] n = 2 -> Data(r, (pos \div BYTE) % BYTE)
    [] n = 3 -> Select(r, LOW)
    [] n = 4 -> Data(r, pos % BYTE)

move_cursor(r, pos) ==
  PortWrite(PortWrite(PortWrite(PortWrite(r, 1, pos), 2, pos), 3, pos), 4, pos)

-----------------------------------------------------------------------------
None == -1

Idle == [pc |-> "idle", x |-> None, y |-> None, i |-> 0, pos |-> 0]

Init ==
  /\ s = Cleared([p \in Cells |-> "old"])
  /\ crt = [index |-> LOW, high |-> 0, low |-> 0]
  /\ k = Idle
  /\ enabled = FALSE
  /\ count = [early |-> 0, text |-> 0, keys |-> 0]
  /\ line = 0 /\ put = 0 /\ hits = 0 /\ clean = TRUE

(* What kmain prints: lines of two characters or more, and never two empty *)
(* lines in a row.                                                         *)
LineGoesOn == line' = IF line = -1 THEN 1 ELSE line + 1

LineEnds == (line = 0 \/ line >= 2) /\ line' = IF line = 0 THEN -1 ELSE 0

Written(n, moved) == put' = IF moved \/ put < 0 THEN -1 ELSE put + n

(* A screen_write before keyboard_init.  No text of the kernel holds a     *)
(* tab; one that has no stop left on its line would leave the column past  *)
(* the width for good, and tabs before every character would let the row   *)
(* grow without bound, so a newline follows one after three characters.    *)
EarlyWrite(ch) ==
  /\ k.pc = "idle" /\ ~ enabled
  /\ count.early < MAX_EARLY
  /\ CASE ch = Newline -> LineEnds
       [] ch = "a" -> LineGoesOn
       [] ch = Tab -> line' = -2
       [] OTHER -> UNCHANGED line
  /\ ch = Tab => screen_write(s, ch).col < SCREEN_WIDTH
  /\ s' = screen_write(s, ch)
  /\ crt' = move_cursor(crt, Position(s'))
  /\ count' = [count EXCEPT !.early = @ + 1]
  /\ Written(IF ch = "a" THEN 1 ELSE 0, ch \notin {"a", Newline} \/ Scrolls(s.col, s.row))
  /\ UNCHANGED << k, enabled, hits, clean >>

keyboard_init ==
  /\ k.pc = "idle" /\ ~ enabled
  /\ enabled' = TRUE
  /\ UNCHANGED << s, crt, k, count, line, put, hits, clean >>

-----------------------------------------------------------------------------
(* screen_write after keyboard_init, one access to the shared state a step.*)
At(pc) == enabled /\ k.pc = pc

Goto(pc) == k' = [k EXCEPT !.pc = pc]

Began == /\ count.text < MAX_TEXT
         /\ count' = [count EXCEPT !.text = @ + 1]
         /\ clean' = TRUE

(* The first access of a screen_write: its column, or a row read early.    *)
BeginNewline ==
  /\ At("idle") /\ Began
  /\ LineEnds
  /\ \/ s' = [s EXCEPT !.col = 0] /\ k' = [k EXCEPT !.pc = "down", !.x = 0]
     \/ k' = [k EXCEPT !.pc = "wrap", !.y = s.row] /\ UNCHANGED s
  /\ UNCHANGED << crt, enabled, put, hits >>

BeginChar ==
  /\ At("idle") /\ Began
  /\ LineGoesOn
  /\ \/ k' = [k EXCEPT !.pc = "args", !.x = s.col]
     \/ k' = [k EXCEPT !.pc = "args", !.y = s.row]
  /\ UNCHANGED << s, crt, enabled, put, hits >>

(* A read, wherever the value may still be used.                           *)
ReadColumn ==
  /\ enabled /\ k.pc \in {"args", "count", "test", "cursor"}
  /\ k' = [k EXCEPT !.x = s.col]
  /\ UNCHANGED << s, crt, enabled, count, line, put, hits, clean >>

ReadRow ==
  /\ enabled /\ k.pc \in {"args", "rowup", "count", "test", "wrap", "down", "cursor"}
  /\ k' = [k EXCEPT !.y = s.row]
  /\ UNCHANGED << s, crt, enabled, count, line, put, hits, clean >>

StoreCell ==
  /\ At("args") /\ k.x # None /\ k.y # None
  /\ s' = [s EXCEPT !.fb[offset(k.x, k.y)] = "a"]
  /\ k' = IF Scrolls(k.x, k.y) THEN [Idle EXCEPT !.pc = "scroll", !.i = 1]
          ELSE [Idle EXCEPT !.pc = "count"]
  /\ Written(1, Scrolls(k.x, k.y))
  /\ UNCHANGED << crt, enabled, count, line, hits, clean >>

ScrollRow ==
  /\ At("scroll") /\ k.i < SCREEN_HEIGHT
  /\ s' = [s EXCEPT !.fb = RowCopied(@, k.i)]
  /\ k' = [k EXCEPT !.i = @ + 1]
  /\ UNCHANGED << crt, enabled, count, line, put, hits, clean >>

ScrollEnd ==
  /\ At("scroll") /\ k.i = SCREEN_HEIGHT
  /\ s' = [s EXCEPT !.fb = LastLineCleared(@)]
  /\ Goto("rowup")
  /\ UNCHANGED << crt, enabled, count, line, put, hits, clean >>

(* screen_row--, from the row that was read.                               *)
WriteRowUp ==
  /\ At("rowup") /\ k.y # None
  /\ s' = [s EXCEPT !.row = k.y - 1]
  /\ k' = [k EXCEPT !.pc = "count", !.y = @ - 1]
  /\ UNCHANGED << crt, enabled, count, line, put, hits, clean >>

(* screen_col++, and the test of what it wrote or what is read again.      *)
WriteColumn ==
  /\ At("count") /\ k.x # None
  /\ s' = [s EXCEPT !.col = k.x + 1]
  /\ k' = [k EXCEPT !.pc = "test", !.x = @ + 1]
  /\ UNCHANGED << crt, enabled, count, line, put, hits, clean >>

TestColumn ==
  /\ At("test")
  /\ Goto(IF k.x = SCREEN_WIDTH THEN "wrap" ELSE "cursor")
  /\ UNCHANGED << s, crt, enabled, count, line, put, hits, clean >>

ZeroColumn ==
  /\ At("wrap")
  /\ s' = [s EXCEPT !.col = 0]
  /\ k' = [k EXCEPT !.pc = "down", !.x = 0]
  /\ UNCHANGED << crt, enabled, count, line, put, hits, clean >>

(* screen_row++, from the row that was read.                               *)
WriteRowDown ==
  /\ At("down") /\ k.y # None
  /\ s' = [s EXCEPT !.row = k.y + 1]
  /\ k' = [k EXCEPT !.pc = "cursor", !.y = @ + 1]
  /\ UNCHANGED << crt, enabled, count, line, put, hits, clean >>

(* The argument of move_cursor, from what is held, then its port writes.   *)
CallMoveCursor ==
  /\ At("cursor") /\ k.x # None /\ k.y # None
  /\ k' = [Idle EXCEPT !.pc = "out", !.i = 1, !.pos = offset(k.x, k.y)]
  /\ UNCHANGED << s, crt, enabled, count, line, put, hits, clean >>

MoveCursor ==
  /\ At("out")
  /\ crt' = PortWrite(crt, k.i, k.pos)
  /\ k' = IF k.i < 4 THEN [k EXCEPT !.i = @ + 1] ELSE Idle
  /\ UNCHANGED << s, enabled, count, line, put, hits, clean >>

Write ==
  \/ BeginNewline \/ BeginChar \/ ReadColumn \/ ReadRow
  \/ StoreCell \/ ScrollRow \/ ScrollEnd \/ WriteRowUp
  \/ WriteColumn \/ TestColumn \/ ZeroColumn \/ WriteRowDown
  \/ CallMoveCursor \/ MoveCursor

-----------------------------------------------------------------------------
(* Fault: the report does not end its line.                                *)
FaultNoNewline(scancode) == [j \in 1 .. PREFIX + (IF scancode < 10 THEN 1 ELSE 2) |-> "k"]

(* "Received scancode: %d\n"                                               *)
Report(scancode) ==
  Append([j \in 1 .. PREFIX + (IF scancode < 10 THEN 1 ELSE 2) |-> "k"], Newline)

(* The interrupt of one key.  Every character of the report ends in a      *)
(* move_cursor; the last one counts.                                       *)
keyboard_callback(scancode) ==
  /\ enabled
  /\ count.keys < MAX_KEYS
  /\ count' = [count EXCEPT !.keys = @ + 1]
  /\ IF scancode > SCANCODE_MAX
     THEN UNCHANGED << s, crt, put, hits, clean >>
     ELSE /\ s' = screen_print(s, Report(scancode))
          /\ crt' = move_cursor(crt, Position(s'))
          /\ Written(Len(Report(scancode)) - 1,
                     Position(s) + Len(Report(scancode)) > offset(0, SCREEN_HEIGHT))
          /\ hits' = IF k.pc = "idle" THEN hits ELSE hits + 1
          /\ clean' = (k.pc = "idle")
  /\ UNCHANGED << k, enabled, line >>

(* kmain sleeps in hlt once everything is printed.                         *)
Asleep == At("idle") /\ UNCHANGED vars

Next ==
  \/ \E ch \in {"a", Newline, Backspace, Tab, Return} : EarlyWrite(ch)
  \/ keyboard_init
  \/ Write
  \/ \E scancode \in Scancodes : keyboard_callback(scancode)
  \/ Asleep

Spec == Init /\ [][Next]_vars

-----------------------------------------------------------------------------
(* Newlines move the row down without a test and every character past the  *)
(* last row moves it up by one: wherever keys interrupt kmain, the row     *)
(* comes to lie no more than two wrapped lines and two newlines past the   *)
(* last one, and never before the first, so that screen_write_at stays     *)
(* inside the video memory.                                                *)
RowBounded == s.row \in 0 .. SCREEN_HEIGHT + 4

(* Between two characters of kmain the column is inside the line, wherever *)
(* keys interrupted it: a report printed while the column is at the width  *)
(* runs past the equality test of screen_write, but ends its line.         *)
ColumnInside == k.pc = "idle" => s.col \in 0 .. SCREEN_WIDTH - 1

(* The cursor is where the next character goes, unless a key interrupted   *)
(* the last screen_write; the report of the next key, or the next          *)
(* character, repairs it.                                                  *)
CursorRight == k.pc = "idle" /\ clean => Cursor = Position(s)

Filled == { p \in Cells : s.fb[p] \in {"a", "k"} }

(* Until cells are moved or used again on purpose, every character that    *)
(* was printed is on the screen, but for one report's worth of characters  *)
(* for each key that interrupted a screen_write.                           *)
LossBounded == put >= 0 => put <= Cardinality(Filled) + hits * (PREFIX + 2)
=============================================================================
