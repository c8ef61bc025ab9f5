--------------------------- MODULE Console_proofs ---------------------------
(***************************************************************************)
(* What holds of the screen that kmain and the keyboard handler share, for *)
(* every width and height, any number of characters printed, in lines that *)
(* LineEnds allows, and of keys pressed, wherever the keys interrupt       *)
(* kmain: the row stays within four of the last one, the column inside the *)
(* line, the cursor is where the next character goes, and until the screen *)
(* scrolls no more characters are lost than a report holds for every key   *)
(* that interrupts a screen_write.                                         *)
(***************************************************************************)
EXTENDS Console, WellFoundedInduction, FiniteSetTheorems, TLAPS

USE ScreenAssumption

-----------------------------------------------------------------------------
(* The screen as a record.  What its cells hold plays no part below.       *)
IsScreen(t) == t \in [fb : {t.fb}, col : Int, row : Int]

(* A row further down begins at least a width later.                       *)
LEMMA RowsApart ==
  ASSUME NEW a \in Int, NEW b \in Int, a <= b
  PROVE  a * SCREEN_WIDTH <= b * SCREEN_WIDTH
OBVIOUS

LEMMA RowStarts == ASSUME NEW a \in Nat PROVE a * SCREEN_WIDTH \in Nat
OBVIOUS

(* screen_write_at scrolls below the last row, and in it past the first    *)
(* column.                                                                 *)
LEMMA ScrollsInside ==
  ASSUME NEW x \in 0 .. SCREEN_WIDTH - 1, NEW y \in Int
  PROVE  Scrolls(x, y) <=> (y > SCREEN_HEIGHT \/ (y = SCREEN_HEIGHT /\ x > 0))
<1>1. CASE y > SCREEN_HEIGHT
  <2>1. (SCREEN_HEIGHT + 1) * SCREEN_WIDTH <= y * SCREEN_WIDTH
    BY <1>1, RowsApart
  <2>2. (SCREEN_HEIGHT + 1) * SCREEN_WIDTH = SCREEN_HEIGHT * SCREEN_WIDTH + SCREEN_WIDTH
    OBVIOUS
  <2> QED BY <1>1, <2>1, <2>2 DEF Scrolls, offset
<1>2. CASE y = SCREEN_HEIGHT
  BY <1>2 DEF Scrolls, offset
<1>3. CASE y < SCREEN_HEIGHT
  <2>1. (y + 1) * SCREEN_WIDTH <= SCREEN_HEIGHT * SCREEN_WIDTH
    BY <1>3, RowsApart
  <2>2. (y + 1) * SCREEN_WIDTH = y * SCREEN_WIDTH + SCREEN_WIDTH
    OBVIOUS
  <2> QED BY <1>3, <2>1, <2>2 DEF Scrolls, offset
<1> QED BY <1>1, <1>2, <1>3

(* Past the width a cell is the one a width before it in the next row.     *)
LEMMA ScrollsPast ==
  ASSUME NEW x \in SCREEN_WIDTH .. 2 * SCREEN_WIDTH - 1, NEW y \in Int
  PROVE  Scrolls(x, y) <=> (y >= SCREEN_HEIGHT \/ (y = SCREEN_HEIGHT - 1 /\ x > SCREEN_WIDTH))
<1>1. x - SCREEN_WIDTH \in 0 .. SCREEN_WIDTH - 1
  OBVIOUS
<1>2. offset(x, y) = offset(x - SCREEN_WIDTH, y + 1)
  BY DEF offset
<1>3. Scrolls(x, y) <=> Scrolls(x - SCREEN_WIDTH, y + 1)
  BY <1>2 DEF Scrolls
<1> QED BY <1>1, <1>3, ScrollsInside

(* screen_write_at leaves the column alone and moves the row up by one     *)
(* when it scrolls.                                                        *)
LEMMA WriteAt ==
  ASSUME NEW t, IsScreen(t), NEW c, NEW x, NEW y
  PROVE  /\ IsScreen(screen_write_at(t, c, x, y))
         /\ screen_write_at(t, c, x, y).col = t.col
         /\ screen_write_at(t, c, x, y).row = IF Scrolls(x, y) THEN t.row - 1 ELSE t.row
<1> DEFINE written == [t EXCEPT !.fb[offset(x, y)] = c]
<1>1. IsScreen(written) /\ written.col = t.col /\ written.row = t.row
  BY DEF IsScreen
<1> HIDE DEF written
<1>2. CASE Scrolls(x, y)
  <2> DEFINE fb == LastLineCleared(RowsCopied(written.fb))
  <2>1. screen_write_at(t, c, x, y) = [written EXCEPT !.fb = fb, !.row = @ - 1]
    BY <1>2 DEF screen_write_at, written
  <2> HIDE DEF fb
  <2>2. screen_write_at(t, c, x, y) = [fb |-> fb, col |-> written.col, row |-> written.row - 1]
    BY <1>1, <2>1, Zenon DEF IsScreen
  <2>3. written.row \in Int /\ written.col \in Int
    BY <1>1 DEF IsScreen
  <2> QED BY <1>1, <1>2, <2>2, <2>3 DEF IsScreen
<1>3. CASE ~ Scrolls(x, y)
  <2>1. screen_write_at(t, c, x, y) = written
    BY <1>3 DEF screen_write_at, written
  <2> QED BY <1>1, <1>3, <2>1
<1> QED BY <1>2, <1>3

(* A character that is none of the four special ones.                      *)
LEMMA CharWritten ==
  ASSUME NEW t, IsScreen(t), NEW c,
         c = Backspace => t.col <= 0, c \notin {Newline, Tab, Return}
  PROVE  /\ IsScreen(screen_write(t, c))
         /\ screen_write(t, c).col = IF t.col + 1 = SCREEN_WIDTH THEN 0 ELSE t.col + 1
         /\ screen_write(t, c).row =
              (IF Scrolls(t.col, t.row) THEN t.row - 1 ELSE t.row)
              + (IF t.col + 1 = SCREEN_WIDTH THEN 1 ELSE 0)
<1> DEFINE u == screen_write_at(t, c, t.col, t.row)
<1>1. /\ IsScreen(u)
      /\ u.col = t.col
      /\ u.row = IF Scrolls(t.col, t.row) THEN t.row - 1 ELSE t.row
  BY WriteAt
<1>2. t.col \in Int /\ t.row \in Int /\ u.col \in Int /\ u.row \in Int
  BY <1>1 DEF IsScreen
<1>3. screen_write(t, c) = Advanced(u)
  BY <1>2 DEF screen_write
<1> HIDE DEF u
<1>4. CASE t.col + 1 = SCREEN_WIDTH
  <2>1. Advanced(u) = [fb |-> u.fb, col |-> 0, row |-> u.row + 1]
    BY <1>1, <1>4, Zenon DEF Advanced, IsScreen
  <2> QED BY <1>1, <1>2, <1>3, <1>4, <2>1 DEF IsScreen
<1>5. CASE t.col + 1 # SCREEN_WIDTH
  <2>1. Advanced(u) = [fb |-> u.fb, col |-> u.col + 1, row |-> u.row]
    BY <1>1, <1>5 DEF Advanced, IsScreen
  <2> QED BY <1>1, <1>2, <1>3, <1>5, <2>1 DEF IsScreen
<1> QED BY <1>4, <1>5

(* A newline moves the row down without a test.                            *)
LEMMA NewlineWritten ==
  ASSUME NEW t, IsScreen(t)
  PROVE  /\ IsScreen(screen_write(t, Newline))
         /\ screen_write(t, Newline).col = 0
         /\ screen_write(t, Newline).row = t.row + 1
<1>1. screen_write(t, Newline) = [fb |-> t.fb, col |-> 0, row |-> t.row + 1]
  <2>1. screen_write(t, Newline) = [t EXCEPT !.col = 0, !.row = @ + 1]
    BY DEF screen_write, Newline, Backspace, Tab, Return
  <2> QED BY <2>1, Zenon DEF IsScreen
<1> QED BY <1>1 DEF IsScreen

(* A tab and a return change the column only.                              *)
LEMMA TabWritten ==
  ASSUME NEW t, IsScreen(t)
  PROVE  /\ IsScreen(screen_write(t, Tab))
         /\ screen_write(t, Tab).col >= t.col
         /\ screen_write(t, Tab).row = t.row
<1>1. screen_write(t, Tab) = [fb |-> t.fb, col |-> t.col + TAB - (t.col % TAB), row |-> t.row]
  <2>1. screen_write(t, Tab) = [t EXCEPT !.col = @ + TAB - (@ % TAB)]
    BY DEF screen_write, Newline, Backspace, Tab, Return
  <2> QED BY <2>1 DEF IsScreen
<1>2. t.col % TAB \in 0 .. TAB - 1
  BY DEF IsScreen
<1> QED BY <1>1, <1>2 DEF IsScreen

LEMMA ReturnWritten ==
  ASSUME NEW t, IsScreen(t)
  PROVE  /\ IsScreen(screen_write(t, Return))
         /\ screen_write(t, Return).col = 0
         /\ screen_write(t, Return).row = t.row
<1>1. screen_write(t, Return) = [fb |-> t.fb, col |-> 0, row |-> t.row]
  <2>1. screen_write(t, Return) = [t EXCEPT !.col = 0]
    BY DEF screen_write, Newline, Backspace, Tab, Return
  <2> QED BY <2>1 DEF IsScreen
<1> QED BY <1>1 DEF IsScreen

(* A backspace writes a cell too, and may scroll.                          *)
LEMMA BackspaceWritten ==
  ASSUME NEW t, IsScreen(t), t.col > 0
  PROVE  /\ IsScreen(screen_write(t, Backspace))
         /\ screen_write(t, Backspace).col = t.col - 1
         /\ screen_write(t, Backspace).row =
              IF Scrolls(t.col - 1, t.row) THEN t.row - 1 ELSE t.row
<1> DEFINE u == [t EXCEPT !.col = @ - 1]
<1>1. IsScreen(u) /\ u.col = t.col - 1 /\ u.row = t.row
  BY DEF IsScreen
<1>2. screen_write(t, Backspace) = screen_write_at(u, NUL, t.col - 1, t.row)
  BY DEF screen_write, Newline, Backspace, Tab, Return
<1> HIDE DEF u
<1> QED BY <1>1, <1>2, WriteAt

-----------------------------------------------------------------------------
(* screen_print is one screen_write after the other.                       *)
OneByOne(t, str) ==
  \E g : /\ g[0] = t
         /\ \A n \in 1 .. Len(str) : g[n] = screen_write(g[n - 1], str[n])
         /\ screen_print(t, str) = g[Len(str)]

LEMMA PrintUnfolds == ASSUME NEW t, NEW str, Len(str) \in Nat PROVE OneByOne(t, str)
<1> DEFINE Rec(g, n) ==
      g = [i \in 0 .. n |-> IF i = 0 THEN t ELSE screen_write(g[i - 1], str[i])]
<1> DEFINE Bad == {n \in Nat : ~ \E g : Rec(g, n)}
<1>1. ASSUME Bad # {} PROVE FALSE
  <2>1. PICK n \in Bad : \A m \in Nat : m < n => m \notin Bad
    <3>1. PICK n \in Bad : \A m \in Bad : ~ (<<m, n>> \in OpToRel(<, Nat))
      BY <1>1, NatLessThanWellFounded, WFMin, Zenon
    <3> QED BY <3>1, Zenon DEF OpToRel
  <2>2. n # 0
    <3>1. Rec([i \in {0} |-> t], 0)
      BY 0 .. 0 = {0}
    <3> QED BY <2>1, <3>1, Zenon
  <2>3. PICK g : Rec(g, n - 1)
    BY <2>1, <2>2
  <2> DEFINE h == [i \in 0 .. n |-> IF i = n THEN screen_write(g[n - 1], str[n]) ELSE g[i]]
  <2>4. Rec(h, n)
    <3>1. ASSUME NEW i \in 0 .. n
          PROVE  h[i] = IF i = 0 THEN t ELSE screen_write(h[i - 1], str[i])
      BY <2>1, <2>2, <2>3
    <3> QED BY <3>1
  <2> QED BY <2>1, <2>4, Zenon
<1>2. \E g : Rec(g, Len(str))
  BY <1>1
<1> DEFINE g == CHOOSE g : Rec(g, Len(str))
<1>3. Rec(g, Len(str))
  BY ONLY <1>2, Zenon
<1>4. screen_print(t, str) = g[Len(str)]
  BY DEF screen_print
<1> HIDE DEF g
<1>5. g[0] = t /\ \A n \in 1 .. Len(str) : g[n] = screen_write(g[n - 1], str[n])
  BY <1>3
<1> QED BY <1>4, <1>5 DEF OneByOne

(* The state of the screen after j characters of a report that began in    *)
(* column c and row r: the line is wrapped at most once, unless the report *)
(* began at the width and never wraps.  Each character in or below the     *)
(* last row moves the row up, so that the row is no further down than the  *)
(* last one or than it was.                                                *)
Printing(t, j, c, r) ==
  /\ IsScreen(t)
  /\ \/ c + j < SCREEN_WIDTH /\ t.col = c + j /\ (t.row <= SCREEN_HEIGHT \/ t.row <= r - j)
     \/ /\ c < SCREEN_WIDTH /\ c + j >= SCREEN_WIDTH /\ t.col = c + j - SCREEN_WIDTH
        /\ t.row <= SCREEN_HEIGHT \/ t.row <= r - j + 1
     \/ c = SCREEN_WIDTH /\ t.col = c + j /\ (t.row <= SCREEN_HEIGHT \/ t.row <= r - j)
  /\ c < SCREEN_WIDTH => t.row >= 0 /\ (r >= SCREEN_HEIGHT => t.row >= SCREEN_HEIGHT - 1)
  /\ c = SCREEN_WIDTH => t.row >= -1

LEMMA PrintingKeeps ==
  ASSUME NEW t, NEW j \in 0 .. SCREEN_WIDTH - 1, NEW c \in 0 .. SCREEN_WIDTH, NEW r \in Nat,
         Printing(t, j, c, r)
  PROVE  Printing(screen_write(t, "k"), j + 1, c, r)
<1> DEFINE u == screen_write(t, "k")
<1>1. /\ IsScreen(u)
      /\ u.col = IF t.col + 1 = SCREEN_WIDTH THEN 0 ELSE t.col + 1
      /\ u.row = (IF Scrolls(t.col, t.row) THEN t.row - 1 ELSE t.row)
                 + (IF t.col + 1 = SCREEN_WIDTH THEN 1 ELSE 0)
  BY CharWritten DEF Printing, Newline, Tab, Return, Backspace
<1>2. t.row \in Int /\ t.col \in Int /\ IsScreen(t)
  BY DEF Printing, IsScreen
<1> HIDE DEF u
<1>3. CASE c < SCREEN_WIDTH
  <2>1. t.col \in 0 .. SCREEN_WIDTH - 1
    BY <1>2, <1>3 DEF Printing
  <2>2. Scrolls(t.col, t.row) <=> (t.row > SCREEN_HEIGHT \/ (t.row = SCREEN_HEIGHT /\ t.col > 0))
    BY <1>2, <2>1, ScrollsInside
  <2> QED BY <1>1, <1>2, <1>3, <2>1, <2>2 DEF Printing, u
<1>4. CASE c = SCREEN_WIDTH
  <2>1. t.col \in SCREEN_WIDTH .. 2 * SCREEN_WIDTH - 1
    BY <1>2, <1>4 DEF Printing
  <2>2. Scrolls(t.col, t.row) <=>
          (t.row >= SCREEN_HEIGHT \/ (t.row = SCREEN_HEIGHT - 1 /\ t.col > SCREEN_WIDTH))
    BY <1>2, <2>1, ScrollsPast
  <2> QED BY <1>1, <1>2, <1>4, <2>1, <2>2 DEF Printing, u
<1> QED BY <1>3, <1>4

(* What the report of a key does to the position, from anywhere in a line  *)
(* or from the width, where an interrupted screen_write may leave it.      *)
LEMMA ReportPrinted ==
  ASSUME NEW t, IsScreen(t), t.col \in 0 .. SCREEN_WIDTH, t.row \in Nat,
         NEW scancode \in Nat
  PROVE  LET u == screen_print(t, Report(scancode))
         IN  /\ IsScreen(u)
             /\ u.col = 0
             /\ u.row \in Nat
             /\ u.row <= SCREEN_HEIGHT + 1 \/ u.row <= t.row
             /\ t.col < SCREEN_WIDTH /\ t.row >= SCREEN_HEIGHT => u.row >= SCREEN_HEIGHT
<1> DEFINE n == PREFIX + (IF scancode < 10 THEN 1 ELSE 2)
           str == Report(scancode)
<1>1. n \in 2 .. SCREEN_WIDTH
  BY ReportAssumption
<1>2. /\ Len(str) = n + 1
      /\ \A j \in 1 .. n : str[j] = "k"
      /\ str[n + 1] = Newline
  BY <1>1 DEF Report
<1> HIDE DEF n, str
<1>3. PICK g : /\ g[0] = t
               /\ \A j \in 1 .. n + 1 : g[j] = screen_write(g[j - 1], str[j])
               /\ screen_print(t, str) = g[n + 1]
  <2>1. Len(str) \in Nat
    BY <1>1, <1>2
  <2>2. OneByOne(t, str)
    BY ONLY <2>1, PrintUnfolds
  <2> QED BY ONLY <1>2, <2>2, Zenon DEF OneByOne
<1> DEFINE Bad == {j \in Nat : j <= n /\ ~ Printing(g[j], j, t.col, t.row)}
<1>4. ASSUME Bad # {} PROVE FALSE
  <2>1. PICK j \in Bad : \A m \in Nat : m < j => m \notin Bad
    <3>1. PICK j \in Bad : \A m \in Bad : ~ (<<m, j>> \in OpToRel(<, Nat))
      BY <1>4, NatLessThanWellFounded, WFMin, Zenon
    <3> QED BY <3>1, Zenon DEF OpToRel
  <2>2. j # 0
    BY <1>3, <2>1 DEF Printing, IsScreen
  <2>3. Printing(g[j - 1], j - 1, t.col, t.row)
    BY <1>1, <2>1, <2>2
  <2>4. g[j] = screen_write(g[j - 1], "k")
    <3>1. j \in 1 .. n /\ j \in 1 .. n + 1
      BY ONLY <1>1, <2>1, <2>2
    <3>2. str[j] = "k"
      BY <1>2, <3>1, Zenon
    <3> QED BY <1>3, <3>1, <3>2, Zenon
  <2>5. Printing(screen_write(g[j - 1], "k"), (j - 1) + 1, t.col, t.row)
    BY <1>1, <2>1, <2>2, <2>3, PrintingKeeps
  <2> QED BY <2>1, <2>4, <2>5
<1>5. Printing(g[n], n, t.col, t.row)
  BY <1>1, <1>4
<1>6. g[n + 1] = screen_write(g[n], Newline)
  BY <1>1, <1>2, <1>3
<1>7. /\ IsScreen(g[n + 1])
      /\ g[n + 1].col = 0
      /\ g[n + 1].row = g[n].row + 1
  BY <1>5, <1>6, NewlineWritten DEF Printing
<1>8. g[n].row \in Int
  BY <1>5 DEF Printing, IsScreen
<1>9. /\ g[n].row + 1 \in Nat
      /\ g[n].row + 1 <= SCREEN_HEIGHT + 1 \/ g[n].row + 1 <= t.row
      /\ t.col < SCREEN_WIDTH /\ t.row >= SCREEN_HEIGHT => g[n].row + 1 >= SCREEN_HEIGHT
  BY <1>1, <1>5, <1>8 DEF Printing
<1> QED BY <1>3, <1>7, <1>9 DEF str

-----------------------------------------------------------------------------
(* The inductive invariant.  How far down the row may be between two       *)
(* screen_writes of kmain depends on its line: an empty line puts it four  *)
(* past the last row, the next characters each take it up by one, unless   *)
(* they wrap the line, which none of the first two does.                   *)
Fits(row, col, l) ==
  \/ row <= SCREEN_HEIGHT + 2
  \/ row = SCREEN_HEIGHT + 3 /\ (l <= 0 \/ (l = 1 /\ col < SCREEN_WIDTH - 1))
  \/ row = SCREEN_HEIGHT + 4 /\ (l = -2 \/ (l = -1 /\ col = 0))

(* The same, before the test whether the column has reached the width.     *)
FitsTest(row, col, l) ==
  IF col = SCREEN_WIDTH THEN Fits(row + 1, 0, l) ELSE Fits(row, col, l)

(* What a step will use: the value that is held, or else the one it is yet *)
(* to read.                                                                *)
Held(value, shared) == IF value = None THEN shared ELSE value

Crt == [index : {HIGH, LOW}, high : Nat, low : Nat]

Pcs == {"idle", "args", "scroll", "rowup", "count", "test", "wrap", "down", "cursor", "out"}

HeldColumn == -1 .. SCREEN_WIDTH

HeldRow == Nat \cup {-1}

Kmain == [pc : Pcs, x : HeldColumn, y : HeldRow, i : Nat, pos : Nat]

Typed ==
  /\ IsScreen(s)
  /\ s.row \in Nat
  /\ crt \in Crt
  /\ k \in Kmain
  /\ k.pc \in {"idle", "scroll", "rowup", "out"} => k.x = None
  /\ k.pc \in {"idle", "out"} => k.y = None
  /\ line \in Int /\ line >= -2 /\ (k.pc # "idle" => line # -2)
  /\ enabled \in BOOLEAN
  /\ ~ enabled => k.pc = "idle"

(* Wherever kmain is in screen_write, the row that is shared and the one   *)
(* it holds are such that the rest of it leaves the row within its bounds, *)
(* whichever of the two it counts from.                                    *)
RowOK(pc, row, col, x, y, l) ==
  /\ pc \in {"idle", "cursor", "out"} => Fits(row, col, l)
  /\ pc = "args" =>
       /\ FitsTest(row - 1, col + 1, l)
       /\ Held(y, row) >= SCREEN_HEIGHT => row >= SCREEN_HEIGHT
       /\ Held(y, row) <= SCREEN_HEIGHT => row <= SCREEN_HEIGHT + 1
  /\ pc \in {"scroll", "rowup"} =>
       /\ row >= SCREEN_HEIGHT /\ FitsTest(row - 1, col + 1, l)
       /\ Held(y, row) >= SCREEN_HEIGHT /\ FitsTest(Held(y, row) - 1, col + 1, l)
  /\ pc = "count" =>
       /\ FitsTest(row, col + 1, l) /\ FitsTest(row, Held(x, col) + 1, l)
       /\ FitsTest(Held(y, row), col + 1, l) /\ FitsTest(Held(y, row), Held(x, col) + 1, l)
  /\ pc = "test" =>
       /\ FitsTest(row, col, l) /\ FitsTest(row, Held(x, col), l)
       /\ FitsTest(Held(y, row), col, l) /\ FitsTest(Held(y, row), Held(x, col), l)
  /\ pc \in {"wrap", "down"} => Fits(row + 1, 0, l) /\ Fits(Held(y, row) + 1, 0, l)

(* The column is past the line only until the test, and a key that came    *)
(* since it was read has set it to 0.                                      *)
ColOK(pc, col, x) ==
  /\ col \in 0 .. SCREEN_WIDTH
  /\ pc \notin {"test", "wrap"} => col # SCREEN_WIDTH /\ x # SCREEN_WIDTH
  /\ pc \in {"count", "test"} => col \in {Held(x, col), 0}
  /\ pc = "test" => x # None
  /\ pc = "down" => col = 0

RowInv == RowOK(k.pc, s.row, s.col, k.x, k.y, line)

ColInv == ColOK(k.pc, s.col, k.x)

(* What is held is what is shared, and the port writes of move_cursor are  *)
(* done one by one, unless a key came between.                             *)
CursorInv ==
  /\ clean => k.x \in {None, s.col} /\ k.y \in {None, s.row}
  /\ k.pc = "idle" /\ clean => Cursor = Position(s)
  /\ k.pc = "out" => k.i \in 1 .. 4
  /\ k.pc = "out" /\ clean =>
       /\ k.pos = Position(s)
       /\ k.i = 2 => crt.index = HIGH
       /\ k.i >= 3 => crt.high = k.pos \div BYTE
       /\ k.i = 4 => crt.index = LOW

IInv == Typed /\ RowInv /\ ColInv /\ CursorInv

(* The types that the steps below need.                                    *)
LEMMA Types ==
  ASSUME IInv
  PROVE  /\ IsScreen(s) /\ s.row \in Nat /\ s.col \in 0 .. SCREEN_WIDTH
         /\ k \in Kmain /\ k.x \in -1 .. SCREEN_WIDTH /\ k.y \in Int /\ k.y >= -1 /\ k.i \in Nat
         /\ line \in Int /\ line >= -2 /\ crt \in Crt
<1>1. k \in Kmain /\ ColOK(k.pc, s.col, k.x)
  BY DEF IInv, Typed, ColInv
<1>2. s.col \in 0 .. SCREEN_WIDTH
  BY <1>1 DEF ColOK
<1>3. k.x \in -1 .. SCREEN_WIDTH /\ k.y \in Int /\ k.y >= -1 /\ k.i \in Nat
  BY <1>1 DEF Kmain, HeldColumn, HeldRow
<1> QED BY <1>1, <1>2, <1>3 DEF IInv, Typed

(* What the invariant says of the row at every point.                      *)
LEMMA RowOKBounds ==
  ASSUME NEW pc, NEW row \in Nat, NEW col \in Nat, NEW x \in Int, NEW y \in Int, NEW l \in Int,
         RowOK(pc, row, col, x, y, l), pc # "idle" => l # -2, pc \in Pcs
  PROVE  row <= SCREEN_HEIGHT + 4
<1>1. CASE pc \in {"idle", "cursor", "out"}
  BY <1>1 DEF RowOK, Fits
<1>2. CASE pc \in {"args", "scroll", "rowup"}
  BY <1>2 DEF RowOK, Fits, FitsTest
<1>3. CASE pc \in {"count", "test", "wrap", "down"}
  BY <1>3 DEF RowOK, Fits, FitsTest
<1> QED BY <1>1, <1>2, <1>3 DEF Pcs

LEMMA InvBounds ==
  ASSUME IInv
  PROVE  RowBounded /\ ColumnInside /\ CursorRight
<1>1. /\ s.row \in Nat /\ s.col \in Nat /\ k.x \in Int /\ k.y \in Int /\ line \in Int
      /\ k \in Kmain
  BY Types
<1>2. k.pc \in Pcs /\ (k.pc # "idle" => line # -2)
  BY <1>1 DEF Kmain, IInv, Typed
<1>3. s.row <= SCREEN_HEIGHT + 4
  BY <1>1, <1>2, RowOKBounds, Zenon DEF IInv, RowInv
<1> QED BY <1>1, <1>3 DEF IInv, ColInv, ColOK, CursorInv, RowBounded, ColumnInside, CursorRight

-----------------------------------------------------------------------------
(* The two bytes of a position that fits them.                             *)
LEMMA CursorBytes ==
  ASSUME NEW pos \in 0 .. BYTE * BYTE - 1
  PROVE  /\ pos \div BYTE \in 0 .. BYTE - 1
         /\ pos % BYTE \in 0 .. BYTE - 1
         /\ (pos \div BYTE) % BYTE = pos \div BYTE
         /\ (pos \div BYTE) * BYTE + (pos % BYTE) = pos
<1>1. PICK q \in Int, r \in 0 .. BYTE - 1 :
        q = pos \div BYTE /\ r = pos % BYTE /\ q * BYTE + r = pos
  BY CursorAssumption
<1>2. q >= 0
  <2>1. ASSUME q <= -1 PROVE FALSE
    <3>1. q * BYTE <= (-1) * BYTE
      BY <1>1, <2>1, CursorAssumption
    <3> QED BY <1>1, <3>1, CursorAssumption
  <2> QED BY <1>1, <2>1
<1>3. q <= BYTE - 1
  <2>1. ASSUME q >= BYTE PROVE FALSE
    <3>1. q * BYTE >= BYTE * BYTE
      BY <1>1, <2>1, CursorAssumption
    <3> QED BY <1>1, <3>1, CursorAssumption
  <2> QED BY <1>1, <2>1, CursorAssumption
<1>4. q % BYTE = q
  BY <1>1, <1>2, <1>3, CursorAssumption
<1>5. q \in 0 .. BYTE - 1
  BY <1>1, <1>2, <1>3, CursorAssumption
<1> QED BY <1>1, <1>4, <1>5, Zenon

LEMMA PositionFits ==
  ASSUME NEW t, t.row \in 0 .. SCREEN_HEIGHT + 4, t.col \in 0 .. SCREEN_WIDTH - 1
  PROVE  Position(t) \in 0 .. BYTE * BYTE - 1
<1>1. t.row * SCREEN_WIDTH <= (SCREEN_HEIGHT + 4) * SCREEN_WIDTH
  BY RowsApart
<1>2. 0 * SCREEN_WIDTH <= t.row * SCREEN_WIDTH
  BY RowsApart
<1>3. (SCREEN_HEIGHT + 5) * SCREEN_WIDTH = (SCREEN_HEIGHT + 4) * SCREEN_WIDTH + SCREEN_WIDTH
  OBVIOUS
<1>4. BYTE * BYTE \in Int
  BY CursorAssumption
<1>5. (SCREEN_HEIGHT + 4) * SCREEN_WIDTH \in Int /\ t.row * SCREEN_WIDTH \in Int
  OBVIOUS
<1> DEFINE a == t.row * SCREEN_WIDTH
           b == (SCREEN_HEIGHT + 4) * SCREEN_WIDTH
           m == BYTE * BYTE
<1>6. a \in Int /\ b \in Int /\ m \in Int /\ a <= b /\ 0 <= a /\ b + SCREEN_WIDTH <= m
  BY <1>1, <1>2, <1>3, <1>4, <1>5, CursorAssumption
<1>7. Position(t) = a + t.col
  BY DEF Position, offset
<1> HIDE DEF a, b, m
<1>8. a + t.col \in 0 .. m - 1
  BY <1>6
<1> QED BY <1>7, <1>8 DEF m

(* The four port writes leave the cursor at the position.                  *)
LEMMA MoveCursorMoves ==
  ASSUME NEW r \in Crt, NEW pos \in 0 .. BYTE * BYTE - 1
  PROVE  /\ move_cursor(r, pos) \in Crt
         /\ move_cursor(r, pos).high * BYTE + move_cursor(r, pos).low = pos
<1>1. PICK hi \in Nat, lo \in Nat :
        hi = (pos \div BYTE) % BYTE /\ lo = pos % BYTE /\ hi * BYTE + lo = pos
  <2>1. (pos \div BYTE) % BYTE \in Nat /\ pos % BYTE \in Nat
    BY CursorAssumption
  <2> QED BY <2>1, CursorBytes, Zenon
<1>2. /\ PortWrite(r, 1, pos) = [index |-> HIGH, high |-> r.high, low |-> r.low]
      /\ r.high \in Nat /\ r.low \in Nat
  BY DEF PortWrite, Select, Crt
<1>3. ASSUME NEW q \in Crt
      PROVE  /\ PortWrite(q, 2, pos) = Data(q, hi)
             /\ PortWrite(q, 3, pos) = Select(q, LOW)
             /\ PortWrite(q, 4, pos) = Data(q, lo)
  BY <1>1 DEF PortWrite
<1> DEFINE q1 == PortWrite(r, 1, pos)
           q2 == PortWrite(q1, 2, pos)
           q3 == PortWrite(q2, 3, pos)
           q4 == PortWrite(q3, 4, pos)
<1>4. q1 \in Crt /\ q1.index = HIGH
  BY <1>2 DEF Crt
<1> HIDE DEF q1
<1>5. q2 \in Crt /\ q2.high = hi
  BY <1>1, <1>3, <1>4 DEF Data, Crt, HIGH, LOW
<1> HIDE DEF q2
<1>6. q3 \in Crt /\ q3.index = LOW /\ q3.high = hi
  BY <1>3, <1>5 DEF Select, Crt, HIGH, LOW
<1> HIDE DEF q3
<1>7. q4 \in Crt /\ q4.high = hi /\ q4.low = lo
  BY <1>1, <1>3, <1>6 DEF Data, Crt, HIGH, LOW
<1>8. move_cursor(r, pos) = q4
  BY DEF move_cursor, q1, q2, q3
<1> QED BY <1>1, <1>7, <1>8

-----------------------------------------------------------------------------
LEMMA InitInv == Init => IInv
<1> SUFFICES ASSUME Init PROVE IInv
  OBVIOUS
<1>1. IsScreen(s) /\ s.row = 0 /\ s.col = 0
  BY DEF Init, Cleared, IsScreen
<1>2. k = [pc |-> "idle", x |-> -1, y |-> -1, i |-> 0, pos |-> 0]
  BY DEF Init, Idle, None
<1>3. Typed
  <2>1. crt \in Crt
    BY DEF Init, Crt
  <2>2. line = 0 /\ enabled = FALSE
    BY DEF Init
  <2>3. "idle" \in Pcs /\ -1 \in HeldColumn /\ -1 \in HeldRow
    BY DEF Pcs, HeldColumn, HeldRow
  <2>4. k \in Kmain /\ k.pc = "idle" /\ k.x = None /\ k.y = None
    BY <1>2, <2>3 DEF Kmain, None
  <2>5. s.row \in Nat /\ line \in Int /\ line >= -2
    BY <1>1, <2>2
  <2> QED BY <1>1, <2>1, <2>2, <2>4, <2>5, Zenon DEF Typed
<1>4. RowInv /\ ColInv
  BY <1>1, <1>2 DEF RowInv, ColInv, RowOK, ColOK, Fits
<1>5. CursorInv
  <2>1. crt.high = 0 /\ crt.low = 0
    BY DEF Init
  <2>2. Cursor = 0
    BY <2>1, CursorAssumption DEF Cursor
  <2>3. Position(s) = 0
    BY <1>1 DEF Position, offset
  <2> QED BY <1>2, <2>2, <2>3 DEF CursorInv, None
<1> QED BY <1>3, <1>4, <1>5 DEF IInv

(* A report keeps the row fitting wherever it interrupts kmain: it leaves  *)
(* the row no further down than it was or than one past the last, and the  *)
(* column at 0.  What kmain holds stays as it was.                         *)
LEMMA ReportFits ==
  ASSUME NEW row \in Int, NEW col \in Int, col >= 0, NEW l \in Int, NEW r \in Int,
         r <= SCREEN_HEIGHT + 1 \/ r <= row
  PROVE  /\ Fits(row, col, l) => Fits(r, 0, l)
         /\ Fits(row + 1, 0, l) => Fits(r + 1, 0, l)
         /\ FitsTest(row, col, l) => FitsTest(r, 0, l) /\ FitsTest(r, col, l)
         /\ FitsTest(row, col + 1, l) => FitsTest(r, 1, l) /\ FitsTest(r, col + 1, l)
         /\ FitsTest(row - 1, col + 1, l) => FitsTest(r - 1, 1, l)
  BY DEF Fits, FitsTest

LEMMA ReportRow ==
  ASSUME NEW pc, NEW row \in Nat, NEW col \in 0 .. SCREEN_WIDTH, NEW x \in -1 .. SCREEN_WIDTH,
         NEW y \in Int, NEW l \in Int, NEW r \in Nat,
         RowOK(pc, row, col, x, y, l), ColOK(pc, col, x),
         r <= SCREEN_HEIGHT + 1 \/ r <= row,
         col < SCREEN_WIDTH /\ row >= SCREEN_HEIGHT => r >= SCREEN_HEIGHT
  PROVE  RowOK(pc, r, 0, x, y, l)
<1>1. CASE pc \in {"idle", "cursor", "out"}
  <2>1. Fits(row, col, l)
    BY <1>1 DEF RowOK
  <2>2. Fits(r, 0, l)
    BY <2>1, ReportFits
  <2> QED BY <1>1, <2>2 DEF RowOK
<1>2. CASE pc = "args"
  <2>1. FitsTest(r - 1, 0 + 1, l)
    BY <1>2, ReportFits DEF RowOK
  <2>2. col < SCREEN_WIDTH
    BY <1>2 DEF ColOK
  <2> QED BY <1>2, <2>1, <2>2 DEF RowOK, Held
<1>3. CASE pc \in {"scroll", "rowup"}
  <2>1. FitsTest(r - 1, 0 + 1, l) /\ r >= SCREEN_HEIGHT
    <3>1. FitsTest(row - 1, col + 1, l) /\ row >= SCREEN_HEIGHT /\ col < SCREEN_WIDTH
      BY <1>3 DEF RowOK, ColOK
    <3> QED BY <3>1, ReportFits
  <2>2. y # None => FitsTest(y - 1, 0 + 1, l) /\ y >= SCREEN_HEIGHT
    BY <1>3, ReportFits DEF RowOK, Held
  <2> QED BY <1>3, <2>1, <2>2 DEF RowOK, Held
<1>4. CASE pc = "count"
  <2>1. FitsTest(r, 0 + 1, l) /\ (y # None => FitsTest(y, 0 + 1, l))
    BY <1>4, ReportFits DEF RowOK, Held
  <2>2. x # None => FitsTest(r, x + 1, l) /\ (y # None => FitsTest(y, x + 1, l))
    BY <1>4, ReportFits DEF RowOK, Held, None
  <2> QED BY <1>4, <2>1, <2>2 DEF RowOK, Held
<1>5. CASE pc = "test"
  <2>1. FitsTest(r, 0, l) /\ (y # None => FitsTest(y, 0, l))
    BY <1>5, ReportFits DEF RowOK, Held
  <2>2. x # None => FitsTest(r, x, l) /\ (y # None => FitsTest(y, x, l))
    BY <1>5, ReportFits DEF RowOK, Held, None
  <2> QED BY <1>5, <2>1, <2>2 DEF RowOK, Held
<1>6. CASE pc \in {"wrap", "down"}
  <2>1. Fits(row + 1, 0, l) /\ (y # None => Fits(y + 1, 0, l))
    BY <1>6 DEF RowOK, Held
  <2>2. Fits(r + 1, 0, l)
    BY <2>1 DEF Fits
  <2> QED BY <1>6, <2>1, <2>2 DEF RowOK, Held
<1>7. CASE pc \notin {"idle", "cursor", "out", "args", "scroll", "rowup", "count", "test", "wrap",
                      "down"}
  BY <1>7 DEF RowOK
<1> QED BY <1>1, <1>2, <1>3, <1>4, <1>5, <1>6, <1>7, Zenon

LEMMA KeyKeeps ==
  ASSUME IInv, NEW scancode \in Scancodes, keyboard_callback(scancode)
  PROVE  IInv'
<1>1. /\ IsScreen(s) /\ s.row \in Nat /\ s.col \in 0 .. SCREEN_WIDTH /\ line \in Int
      /\ k.x \in -1 .. SCREEN_WIDTH /\ k.y \in Int /\ crt \in Crt
  BY Types
<1>2. CASE scancode > SCANCODE_MAX
  <2>1. UNCHANGED << s, crt, k, enabled, line, clean >>
    BY <1>2 DEF keyboard_callback
  <2> QED BY <2>1 DEF IInv, Typed, Kmain, RowInv, ColInv, CursorInv, Cursor
<1>3. CASE ~ (scancode > SCANCODE_MAX)
  <2>1. /\ s' = screen_print(s, Report(scancode))
        /\ crt' = move_cursor(crt, Position(s'))
        /\ clean' = (k.pc = "idle")
        /\ UNCHANGED << k, enabled, line >>
    BY <1>3 DEF keyboard_callback
  <2>2. /\ IsScreen(s')
        /\ s'.col = 0
        /\ s'.row \in Nat
        /\ s'.row <= SCREEN_HEIGHT + 1 \/ s'.row <= s.row
        /\ s.col < SCREEN_WIDTH /\ s.row >= SCREEN_HEIGHT => s'.row >= SCREEN_HEIGHT
    BY <1>1, <2>1, ReportPrinted, ScancodeAssumption DEF IInv, Typed, Kmain
  <2>3. s'.row <= SCREEN_HEIGHT + 4
    BY <1>1, <2>2, InvBounds DEF RowBounded
  <2>4. Position(s') \in 0 .. BYTE * BYTE - 1
    BY <2>2, <2>3, PositionFits
  <2>5. crt' \in Crt /\ crt'.high * BYTE + crt'.low = Position(s')
    BY <2>1, <2>4, MoveCursorMoves DEF IInv, Typed, Kmain
  <2>6. Typed'
    BY <2>1, <2>2, <2>5 DEF IInv, Typed, Kmain
  <2>7. ColInv'
    BY <2>1, <2>2 DEF IInv, ColInv, ColOK, Held
  <2>8. RowInv'
    <3>1. RowOK(k.pc, s.row, s.col, k.x, k.y, line) /\ ColOK(k.pc, s.col, k.x)
      BY DEF IInv, RowInv, ColInv
    <3>2. RowOK(k.pc, s'.row, 0, k.x, k.y, line)
      BY <1>1, <2>2, <3>1, ReportRow
    <3> QED BY <2>1, <2>2, <3>2 DEF RowInv
  <2>9. CursorInv'
    BY <2>1, <2>5, Zenon DEF IInv, Typed, CursorInv, Cursor
  <2> QED BY <2>6, <2>7, <2>8, <2>9 DEF IInv
<1> QED BY <1>2, <1>3

(* The characters kmain prints before keyboard_init, each one step.        *)
LEMMA EarlyKeeps ==
  ASSUME IInv, NEW ch \in {"a", Newline, Backspace, Tab, Return}, EarlyWrite(ch)
  PROVE  IInv'
<1>1. /\ IsScreen(s) /\ s.row \in Nat /\ s.col \in 0 .. SCREEN_WIDTH - 1
      /\ line \in Int /\ line >= -2
      /\ k.pc = "idle" /\ k.x = None /\ k.y = None /\ Fits(s.row, s.col, line)
  BY DEF IInv, Typed, ColInv, ColOK, RowInv, RowOK, EarlyWrite
<1>2. /\ s' = screen_write(s, ch)
      /\ crt' = move_cursor(crt, Position(s'))
      /\ UNCHANGED << k, enabled, clean >>
  BY DEF EarlyWrite
<1>3. /\ IsScreen(s') /\ s'.row \in Nat /\ s'.col \in 0 .. SCREEN_WIDTH - 1
      /\ line' \in Int /\ line' >= -2
      /\ Fits(s'.row, s'.col, line')
  <2>1. CASE ch = Newline
    <3>1. IsScreen(s') /\ s'.col = 0 /\ s'.row = s.row + 1
      BY <1>1, <1>2, <2>1, NewlineWritten
    <3>2. (line = 0 \/ line >= 2) /\ line' = IF line = 0 THEN -1 ELSE 0
      BY <2>1 DEF EarlyWrite, LineEnds, Newline, Tab
    <3> QED BY <1>1, <3>1, <3>2 DEF Fits
  <2>2. CASE ch = "a"
    <3>1. /\ IsScreen(s')
          /\ s'.col = IF s.col + 1 = SCREEN_WIDTH THEN 0 ELSE s.col + 1
          /\ s'.row = (IF Scrolls(s.col, s.row) THEN s.row - 1 ELSE s.row)
                      + (IF s.col + 1 = SCREEN_WIDTH THEN 1 ELSE 0)
      BY <1>1, <1>2, <2>2, CharWritten DEF Newline, Backspace, Tab, Return
    <3>2. line' = IF line = -1 THEN 1 ELSE line + 1
      BY <2>2 DEF EarlyWrite, LineGoesOn, Newline, Tab
    <3>3. Scrolls(s.col, s.row) <=> (s.row > SCREEN_HEIGHT \/ (s.row = SCREEN_HEIGHT /\ s.col > 0))
      BY <1>1, ScrollsInside
    <3> QED BY <1>1, <3>1, <3>2, <3>3 DEF Fits
  <2>3. CASE ch = Backspace /\ s.col > 0
    <3>1. /\ IsScreen(s')
          /\ s'.col = s.col - 1
          /\ s'.row = IF Scrolls(s.col - 1, s.row) THEN s.row - 1 ELSE s.row
      BY <1>1, <1>2, <2>3, BackspaceWritten
    <3>2. line' = line
      BY <2>3 DEF EarlyWrite, Newline, Tab, Backspace
    <3>3. Scrolls(s.col - 1, s.row) <=>
            (s.row > SCREEN_HEIGHT \/ (s.row = SCREEN_HEIGHT /\ s.col - 1 > 0))
      BY <1>1, <2>3, ScrollsInside
    <3> QED BY <1>1, <2>3, <3>1, <3>2, <3>3 DEF Fits
  <2>4. CASE ch = Backspace /\ ~ (s.col > 0)
    <3>1. /\ IsScreen(s')
          /\ s'.col = IF s.col + 1 = SCREEN_WIDTH THEN 0 ELSE s.col + 1
          /\ s'.row = (IF Scrolls(s.col, s.row) THEN s.row - 1 ELSE s.row)
                      + (IF s.col + 1 = SCREEN_WIDTH THEN 1 ELSE 0)
      BY <1>1, <1>2, <2>4, CharWritten DEF Newline, Backspace, Tab, Return
    <3>2. line' = line
      BY <2>4 DEF EarlyWrite, Newline, Tab, Backspace
    <3>3. Scrolls(s.col, s.row) <=> (s.row > SCREEN_HEIGHT \/ (s.row = SCREEN_HEIGHT /\ s.col > 0))
      BY <1>1, ScrollsInside
    <3> QED BY <1>1, <2>4, <3>1, <3>2, <3>3 DEF Fits
  <2>5. CASE ch = Tab
    <3>1. IsScreen(s') /\ s'.col >= s.col /\ s'.row = s.row
      BY <1>1, <1>2, <2>5, TabWritten
    <3>2. s'.col < SCREEN_WIDTH /\ line' = -2
      BY <1>2, <2>5 DEF EarlyWrite, Newline, Tab
    <3>3. s'.col \in Int
      BY <3>1 DEF IsScreen
    <3> QED BY <1>1, <3>1, <3>2, <3>3 DEF Fits
  <2>6. CASE ch = Return
    <3>1. IsScreen(s') /\ s'.col = 0 /\ s'.row = s.row
      BY <1>1, <1>2, <2>6, ReturnWritten
    <3>2. line' = line
      BY <2>6 DEF EarlyWrite, Newline, Tab, Return
    <3> QED BY <1>1, <3>1, <3>2 DEF Fits
  <2> QED BY <2>1, <2>2, <2>3, <2>4, <2>5, <2>6
<1>4. s'.row <= SCREEN_HEIGHT + 4
  BY <1>3 DEF Fits
<1>5. Position(s') \in 0 .. BYTE * BYTE - 1
  BY <1>3, <1>4, PositionFits
<1>6. crt' \in Crt /\ crt'.high * BYTE + crt'.low = Position(s')
  BY <1>2, <1>5, MoveCursorMoves DEF IInv, Typed, Kmain
<1>7. Typed'
  BY <1>1, <1>2, <1>3, <1>6 DEF IInv, Typed, Kmain
<1>8. RowInv' /\ ColInv'
  BY <1>1, <1>2, <1>3 DEF RowInv, RowOK, ColInv, ColOK, None
<1>9. CursorInv'
  BY <1>1, <1>2, <1>6 DEF CursorInv, Cursor
<1> QED BY <1>7, <1>8, <1>9 DEF IInv

-----------------------------------------------------------------------------
(* Reading the column or the row again keeps what is said of them.         *)
LEMMA ReadOK ==
  ASSUME NEW pc, NEW row \in Nat, NEW col \in Nat, NEW x \in Int, NEW y \in Int, NEW l \in Int,
         RowOK(pc, row, col, x, y, l), ColOK(pc, col, x)
  PROVE  /\ RowOK(pc, row, col, col, y, l) /\ ColOK(pc, col, col)
         /\ RowOK(pc, row, col, x, row, l)
<1>1. Held(col, col) = col /\ Held(row, row) = row
  BY DEF Held
<1> QED BY <1>1 DEF RowOK, ColOK, None

(* A step inside screen_write keeps the invariant if it keeps what is said *)
(* of the row and the column, and what is held the same as what is shared. *)
LEMMA StepKeeps ==
  ASSUME IInv, enabled, UNCHANGED << crt, enabled >>, line' \in Int, line' >= -1,
         IsScreen(s'), s'.row \in Nat, k' \in Kmain, k'.pc \notin {"idle", "out"},
         k'.pc \in {"scroll", "rowup"} => k'.x = None,
         RowOK(k'.pc, s'.row, s'.col, k'.x, k'.y, line'), ColOK(k'.pc, s'.col, k'.x),
         clean' => k'.x \in {None, s'.col} /\ k'.y \in {None, s'.row}
  PROVE  IInv'
<1>1. crt \in Crt /\ enabled \in BOOLEAN
  BY DEF IInv, Typed
<1>2. Typed'
  BY <1>1 DEF Typed
<1>3. RowInv' /\ ColInv'
  BY DEF RowInv, ColInv
<1>4. CursorInv'
  BY DEF CursorInv
<1> QED BY <1>2, <1>3, <1>4 DEF IInv

(* The steps of screen_write after keyboard_init.                          *)
LEMMA BeginNewlineKeeps == ASSUME IInv, BeginNewline PROVE IInv'
<1>1. /\ IsScreen(s) /\ s.row \in Nat /\ s.col \in 0 .. SCREEN_WIDTH
      /\ k \in Kmain /\ line \in Int /\ line >= -2
  BY Types
<1>2. k.pc = "idle" /\ enabled /\ k.x = None /\ k.y = None
  BY DEF IInv, Typed, BeginNewline, At
<1>3. Fits(s.row, s.col, line) /\ s.col # SCREEN_WIDTH
  BY <1>2 DEF IInv, RowInv, RowOK, ColInv, ColOK
<1>4. (line = 0 \/ line >= 2) /\ line' = IF line = 0 THEN -1 ELSE 0
  BY DEF BeginNewline, LineEnds
<1>5. line' \in Int /\ line' >= -1 /\ Fits(s.row + 1, 0, line')
  BY <1>1, <1>3, <1>4 DEF Fits
<1>6. UNCHANGED << crt, enabled >>
  BY DEF BeginNewline
<1>7. CASE s' = [s EXCEPT !.col = 0] /\ k' = [k EXCEPT !.pc = "down", !.x = 0]
  <2>1. IsScreen(s') /\ s'.col = 0 /\ s'.row = s.row
    BY <1>1, <1>7 DEF IsScreen
  <2>2. k' \in Kmain /\ k'.pc = "down" /\ k'.x = 0 /\ k'.y = None
    <3>1. "down" \in Pcs /\ 0 \in HeldColumn
      BY DEF Pcs, HeldColumn
    <3> QED BY <1>1, <1>2, <1>7, <3>1, Zenon DEF Kmain
  <2>3. RowOK("down", s.row, 0, 0, None, line') /\ ColOK("down", 0, 0)
    BY <1>5 DEF RowOK, ColOK, Held
  <2> QED BY <1>1, <1>2, <1>5, <1>6, <2>1, <2>2, <2>3, StepKeeps
<1>8. CASE k' = [k EXCEPT !.pc = "wrap", !.y = s.row] /\ UNCHANGED s
  <2>1. k' \in Kmain /\ k'.pc = "wrap" /\ k'.x = None /\ k'.y = s.row
    <3>1. "wrap" \in Pcs /\ s.row \in HeldRow
      BY <1>1 DEF Pcs, HeldRow
    <3> QED BY <1>1, <1>2, <1>8, <3>1, Zenon DEF Kmain
  <2>2. RowOK("wrap", s.row, s.col, None, s.row, line') /\ ColOK("wrap", s.col, None)
    BY <1>1, <1>5 DEF RowOK, ColOK, Held
  <2> QED BY <1>1, <1>2, <1>5, <1>6, <1>8, <2>1, <2>2, StepKeeps
<1> QED BY <1>7, <1>8 DEF BeginNewline

LEMMA BeginCharKeeps == ASSUME IInv, BeginChar PROVE IInv'
<1>1. /\ IsScreen(s) /\ s.row \in Nat /\ s.col \in 0 .. SCREEN_WIDTH
      /\ k \in Kmain /\ line \in Int /\ line >= -2
  BY Types
<1>2. k.pc = "idle" /\ enabled /\ k.x = None /\ k.y = None
  BY DEF IInv, Typed, BeginChar, At
<1>3. Fits(s.row, s.col, line) /\ s.col # SCREEN_WIDTH
  BY <1>2 DEF IInv, RowInv, RowOK, ColInv, ColOK
<1>4. line' = IF line = -1 THEN 1 ELSE line + 1
  BY DEF BeginChar, LineGoesOn
<1>5. line' \in Int /\ line' >= -1 /\ FitsTest(s.row - 1, s.col + 1, line')
  BY <1>1, <1>3, <1>4 DEF Fits, FitsTest
<1>6. UNCHANGED << s, crt, enabled >>
  BY DEF BeginChar
<1>7. CASE k' = [k EXCEPT !.pc = "args", !.x = s.col]
  <2>1. k' \in Kmain /\ k'.pc = "args" /\ k'.x = s.col /\ k'.y = None
    <3>1. "args" \in Pcs /\ s.col \in HeldColumn
      BY <1>1 DEF Pcs, HeldColumn
    <3> QED BY <1>1, <1>2, <1>7, <3>1, Zenon DEF Kmain
  <2>2. RowOK("args", s.row, s.col, s.col, None, line') /\ ColOK("args", s.col, s.col)
    BY <1>1, <1>3, <1>5 DEF RowOK, ColOK, Held
  <2> QED BY <1>1, <1>2, <1>5, <1>6, <2>1, <2>2, StepKeeps
<1>8. CASE k' = [k EXCEPT !.pc = "args", !.y = s.row]
  <2>1. k' \in Kmain /\ k'.pc = "args" /\ k'.x = None /\ k'.y = s.row
    <3>1. "args" \in Pcs /\ s.row \in HeldRow
      BY <1>1 DEF Pcs, HeldRow
    <3> QED BY <1>1, <1>2, <1>8, <3>1, Zenon DEF Kmain
  <2>2. RowOK("args", s.row, s.col, None, s.row, line') /\ ColOK("args", s.col, None)
    BY <1>1, <1>3, <1>5 DEF RowOK, ColOK, Held, None
  <2> QED BY <1>1, <1>2, <1>5, <1>6, <2>1, <2>2, StepKeeps
<1> QED BY <1>7, <1>8 DEF BeginChar

LEMMA ReadKeeps == ASSUME IInv, ReadColumn \/ ReadRow PROVE IInv'
<1>1. /\ IsScreen(s) /\ s.row \in Nat /\ s.col \in 0 .. SCREEN_WIDTH
      /\ k \in Kmain /\ k.x \in Int /\ k.y \in Int /\ line \in Int /\ line >= -2
  BY Types
<1>2. /\ k.pc \notin {"idle", "out"} /\ enabled /\ UNCHANGED << s, crt, enabled, line, clean >>
      /\ RowOK(k.pc, s.row, s.col, k.x, k.y, line) /\ ColOK(k.pc, s.col, k.x)
  BY DEF ReadColumn, ReadRow, IInv, RowInv, ColInv
<1>3. line >= -1
  BY <1>1, <1>2 DEF IInv, Typed
<1>4. clean => k.x \in {None, s.col} /\ k.y \in {None, s.row}
  BY DEF IInv, CursorInv
<1>5. /\ RowOK(k.pc, s.row, s.col, s.col, k.y, line) /\ ColOK(k.pc, s.col, s.col)
      /\ RowOK(k.pc, s.row, s.col, k.x, s.row, line)
  <2>1. s.col \in Nat
    BY <1>1
  <2> QED BY <1>1, <1>2, <2>1, ReadOK, Zenon
<1>6. CASE ReadColumn
  <2>1. k' = [k EXCEPT !.x = s.col]
    BY <1>6 DEF ReadColumn
  <2>2. k' \in Kmain /\ k'.pc = k.pc /\ k'.x = s.col /\ k'.y = k.y
    <3>1. s.col \in HeldColumn
      BY <1>1 DEF HeldColumn
    <3> QED BY <1>1, <2>1, <3>1 DEF Kmain
  <2>3. k.pc \notin {"scroll", "rowup"}
    BY <1>6 DEF ReadColumn
  <2> QED BY <1>1, <1>2, <1>3, <1>4, <1>5, <2>2, <2>3, StepKeeps
<1>7. CASE ReadRow
  <2>1. k' = [k EXCEPT !.y = s.row]
    BY <1>7 DEF ReadRow
  <2>2. k' \in Kmain /\ k'.pc = k.pc /\ k'.x = k.x /\ k'.y = s.row
    <3>1. s.row \in HeldRow
      BY <1>1 DEF HeldRow
    <3> QED BY <1>1, <2>1, <3>1 DEF Kmain
  <2>3. k.pc \in {"scroll", "rowup"} => k.x = None
    BY DEF IInv, Typed
  <2> QED BY <1>1, <1>2, <1>3, <1>4, <1>5, <2>2, <2>3, StepKeeps
<1> QED BY <1>6, <1>7

LEMMA StoreCellKeeps == ASSUME IInv, StoreCell PROVE IInv'
<1>1. /\ IsScreen(s) /\ s.row \in Nat /\ s.col \in 0 .. SCREEN_WIDTH
      /\ k \in Kmain /\ k.x \in -1 .. SCREEN_WIDTH /\ k.y \in Int /\ k.y >= -1
      /\ line \in Int /\ line >= -2
  BY Types
<1>2. /\ k.pc = "args" /\ enabled /\ k.x # None /\ k.y # None
      /\ UNCHANGED << crt, enabled, line, clean >>
  BY DEF StoreCell, At
<1>3. IsScreen(s') /\ s'.col = s.col /\ s'.row = s.row
  BY <1>1 DEF StoreCell, IsScreen
<1>4. /\ line >= -1 /\ s.col # SCREEN_WIDTH /\ k.x \in 0 .. SCREEN_WIDTH - 1
      /\ RowOK("args", s.row, s.col, k.x, k.y, line)
  BY <1>1, <1>2 DEF IInv, Typed, RowInv, ColInv, ColOK, None
<1>5. Scrolls(k.x, k.y) <=> (k.y > SCREEN_HEIGHT \/ (k.y = SCREEN_HEIGHT /\ k.x > 0))
  BY <1>1, <1>4, ScrollsInside
<1>6. CASE Scrolls(k.x, k.y)
  <2>1. k' = [Idle EXCEPT !.pc = "scroll", !.i = 1]
    BY <1>6 DEF StoreCell
  <2>2. k' \in Kmain /\ k'.pc = "scroll" /\ k'.x = None /\ k'.y = None
    <3>1. k' = [pc |-> "scroll", x |-> -1, y |-> -1, i |-> 1, pos |-> 0]
      BY <2>1, Zenon DEF Idle, None
    <3>2. "scroll" \in Pcs /\ -1 \in HeldColumn /\ -1 \in HeldRow
      BY DEF Pcs, HeldColumn, HeldRow
    <3> QED BY <3>1, <3>2 DEF Kmain, None
  <2>3. RowOK("scroll", s.row, s.col, None, None, line) /\ ColOK("scroll", s.col, None)
    BY <1>1, <1>2, <1>4, <1>5, <1>6 DEF RowOK, ColOK, Held, None
  <2> QED BY <1>1, <1>2, <1>3, <1>4, <2>2, <2>3, StepKeeps
<1>7. CASE ~ Scrolls(k.x, k.y)
  <2>1. k' = [Idle EXCEPT !.pc = "count"]
    BY <1>7 DEF StoreCell
  <2>2. k' \in Kmain /\ k'.pc = "count" /\ k'.x = None /\ k'.y = None
    <3>1. k' = [pc |-> "count", x |-> -1, y |-> -1, i |-> 0, pos |-> 0]
      BY <2>1 DEF Idle, None
    <3>2. "count" \in Pcs /\ -1 \in HeldColumn /\ -1 \in HeldRow
      BY DEF Pcs, HeldColumn, HeldRow
    <3> QED BY <3>1, <3>2 DEF Kmain, None
  <2>3. s.row <= SCREEN_HEIGHT + 1
    BY <1>1, <1>2, <1>4, <1>5, <1>7 DEF RowOK, Held
  <2>4. RowOK("count", s.row, s.col, None, None, line) /\ ColOK("count", s.col, None)
    <3>1. FitsTest(s.row, s.col + 1, line)
      BY <1>1, <2>3 DEF Fits, FitsTest
    <3>2. Held(None, s.row) = s.row /\ Held(None, s.col) = s.col
      BY Zenon DEF Held
    <3>3. RowOK("count", s.row, s.col, None, None, line)
      BY <3>1, <3>2, Zenon DEF RowOK
    <3>4. ColOK("count", s.col, None)
      BY <1>1, <1>4, <3>2 DEF ColOK, None
    <3> QED BY <3>3, <3>4, Zenon
  <2> QED BY <1>1, <1>2, <1>3, <1>4, <2>2, <2>4, StepKeeps
<1> QED BY <1>6, <1>7

(* The loop that copies the rows, and the row that moves up after it.      *)
LEMMA ScrollKeeps == ASSUME IInv, ScrollRow \/ ScrollEnd PROVE IInv'
<1>1. /\ IsScreen(s) /\ s.row \in Nat /\ s.col \in 0 .. SCREEN_WIDTH
      /\ k \in Kmain /\ k.i \in Nat /\ line \in Int /\ line >= -2
  BY Types
<1>2. k.pc = "scroll" /\ enabled /\ UNCHANGED << crt, enabled, line, clean >>
  BY DEF ScrollRow, ScrollEnd, At
<1>3. IsScreen(s') /\ s'.col = s.col /\ s'.row = s.row
  <2>1. PICK fb : s' = [s EXCEPT !.fb = fb]
    BY DEF ScrollRow, ScrollEnd
  <2> QED BY <1>1, <2>1 DEF IsScreen
<1>4. k' \in Kmain /\ k'.pc \in {"scroll", "rowup"} /\ k'.x = k.x /\ k'.y = k.y
  <2>1. CASE ScrollRow
    BY <1>1, <1>2, <2>1 DEF Kmain, ScrollRow
  <2>2. CASE ScrollEnd
    BY <1>1, <2>2 DEF Kmain, Pcs, ScrollEnd, Goto
  <2> QED BY <2>1, <2>2
<1>5. RowOK(k'.pc, s.row, s.col, k.x, k.y, line) /\ ColOK(k'.pc, s.col, k.x)
  BY <1>2, <1>4 DEF IInv, RowInv, RowOK, ColInv, ColOK
<1>6. /\ line >= -1 /\ (clean => k.x \in {None, s.col} /\ k.y \in {None, s.row})
      /\ k.x = None
  BY <1>1, <1>2 DEF IInv, Typed, CursorInv
<1> QED BY <1>1, <1>2, <1>3, <1>4, <1>5, <1>6, StepKeeps

LEMMA WriteRowUpKeeps == ASSUME IInv, WriteRowUp PROVE IInv'
<1>1. /\ IsScreen(s) /\ s.row \in Nat /\ s.col \in 0 .. SCREEN_WIDTH
      /\ k \in Kmain /\ k.x \in -1 .. SCREEN_WIDTH /\ k.y \in Int /\ k.y >= -1
      /\ line \in Int /\ line >= -2
  BY Types
<1>2. /\ k.pc = "rowup" /\ enabled /\ k.y # None
      /\ s' = [s EXCEPT !.row = k.y - 1] /\ k' = [k EXCEPT !.pc = "count", !.y = @ - 1]
      /\ UNCHANGED << crt, enabled, line, clean >>
  BY DEF WriteRowUp, At
<1>3. /\ k.y >= SCREEN_HEIGHT /\ FitsTest(k.y - 1, s.col + 1, line) /\ s.col # SCREEN_WIDTH
      /\ k.x # SCREEN_WIDTH
  BY <1>2 DEF IInv, RowInv, RowOK, Held, ColInv, ColOK
<1>4. IsScreen(s') /\ s'.col = s.col /\ s'.row = k.y - 1 /\ s'.row \in Nat
  BY <1>1, <1>2, <1>3 DEF IsScreen
<1>5. k' \in Kmain /\ k'.pc = "count" /\ k'.x = k.x /\ k'.y = k.y - 1
  <2>1. "count" \in Pcs /\ k.y - 1 \in HeldRow
    BY <1>1, <1>3 DEF Pcs, HeldRow
  <2> QED BY <1>1, <1>2, <2>1, Zenon DEF Kmain
<1>6. k.x = None
  BY <1>2 DEF IInv, Typed
<1>7. /\ RowOK("count", k.y - 1, s.col, k.x, k.y - 1, line)
      /\ ColOK("count", s.col, k.x)
  BY <1>1, <1>3, <1>6 DEF RowOK, ColOK, Held
<1>8. line >= -1
  BY <1>1, <1>2 DEF IInv, Typed
<1> QED BY <1>1, <1>2, <1>4, <1>5, <1>6, <1>7, <1>8, StepKeeps

(* screen_col++ and the test that follows it.                              *)
LEMMA WriteColumnKeeps == ASSUME IInv, WriteColumn PROVE IInv'
<1>1. /\ IsScreen(s) /\ s.row \in Nat /\ s.col \in 0 .. SCREEN_WIDTH
      /\ k \in Kmain /\ k.x \in -1 .. SCREEN_WIDTH /\ k.y \in Int /\ k.y >= -1
      /\ line \in Int /\ line >= -2
  BY Types
<1>2. /\ k.pc = "count" /\ enabled /\ k.x # None
      /\ s' = [s EXCEPT !.col = k.x + 1] /\ k' = [k EXCEPT !.pc = "test", !.x = @ + 1]
      /\ UNCHANGED << crt, enabled, line, clean >>
  BY DEF WriteColumn, At
<1>3. /\ k.x \in 0 .. SCREEN_WIDTH - 1
      /\ FitsTest(s.row, k.x + 1, line) /\ FitsTest(Held(k.y, s.row), k.x + 1, line)
  BY <1>1, <1>2 DEF IInv, RowInv, RowOK, Held, ColInv, ColOK, None
<1>4. IsScreen(s') /\ s'.col = k.x + 1 /\ s'.row = s.row
  BY <1>1, <1>2 DEF IsScreen
<1>5. k' \in Kmain /\ k'.pc = "test" /\ k'.x = k.x + 1 /\ k'.y = k.y
  <2>1. "test" \in Pcs /\ k.x + 1 \in HeldColumn
    BY <1>3 DEF Pcs, HeldColumn
  <2> QED BY <1>1, <1>2, <2>1, Zenon DEF Kmain
<1>6. /\ RowOK("test", s.row, k.x + 1, k.x + 1, k.y, line)
      /\ ColOK("test", k.x + 1, k.x + 1)
  BY <1>1, <1>3 DEF RowOK, ColOK, Held, None
<1>7. line >= -1 /\ (clean => k.y \in {None, s.row})
  BY <1>1, <1>2 DEF IInv, Typed, CursorInv
<1> QED BY <1>1, <1>2, <1>4, <1>5, <1>6, <1>7, StepKeeps

LEMMA TestColumnKeeps == ASSUME IInv, TestColumn PROVE IInv'
<1>1. /\ IsScreen(s) /\ s.row \in Nat /\ s.col \in 0 .. SCREEN_WIDTH
      /\ k \in Kmain /\ k.x \in -1 .. SCREEN_WIDTH /\ k.y \in Int /\ k.y >= -1
      /\ line \in Int /\ line >= -2
  BY Types
<1>2. /\ k.pc = "test" /\ enabled /\ UNCHANGED << s, crt, enabled, line, clean >>
      /\ k' = [k EXCEPT !.pc = IF k.x = SCREEN_WIDTH THEN "wrap" ELSE "cursor"]
  BY DEF TestColumn, At, Goto
<1>3. /\ k' \in Kmain /\ k'.pc = (IF k.x = SCREEN_WIDTH THEN "wrap" ELSE "cursor")
      /\ k'.x = k.x /\ k'.y = k.y
  BY <1>1, <1>2 DEF Kmain, Pcs
<1>4. RowOK("test", s.row, s.col, k.x, k.y, line) /\ ColOK("test", s.col, k.x)
  BY <1>2 DEF IInv, RowInv, ColInv
<1>5. RowOK(k'.pc, s.row, s.col, k.x, k.y, line) /\ ColOK(k'.pc, s.col, k.x)
  <2>1. CASE k.x = SCREEN_WIDTH
    <3>1. k'.pc = "wrap" /\ Held(k.x, s.col) = SCREEN_WIDTH
      BY <1>3, <2>1 DEF Held, None
    <3>2. FitsTest(s.row, SCREEN_WIDTH, line) /\ FitsTest(Held(k.y, s.row), SCREEN_WIDTH, line)
      BY <1>4, <3>1, Zenon DEF RowOK
    <3>3. Fits(s.row + 1, 0, line) /\ Fits(Held(k.y, s.row) + 1, 0, line)
      BY <3>2, Zenon DEF FitsTest
    <3>4. RowOK("wrap", s.row, s.col, k.x, k.y, line)
      BY <3>3, Zenon DEF RowOK
    <3>5. ColOK("wrap", s.col, k.x)
      BY <1>4, Zenon DEF ColOK
    <3> QED BY <3>1, <3>4, <3>5, Zenon
  <2>2. CASE k.x # SCREEN_WIDTH
    <3>1. k'.pc = "cursor"
      BY <1>3, <2>2
    <3>2. ColOK("cursor", s.col, k.x)
      BY <1>1, <1>4, <2>2 DEF ColOK, Held
    <3>3. FitsTest(s.row, s.col, line)
      BY <1>4, Zenon DEF RowOK
    <3>4. Fits(s.row, s.col, line)
      BY <3>2, <3>3, Zenon DEF FitsTest, ColOK
    <3>5. RowOK("cursor", s.row, s.col, k.x, k.y, line)
      BY <3>4, Zenon DEF RowOK
    <3> QED BY <3>1, <3>2, <3>5, Zenon
  <2> QED BY <2>1, <2>2
<1>6. line >= -1 /\ (clean => k.x \in {None, s.col} /\ k.y \in {None, s.row})
  BY <1>1, <1>2 DEF IInv, Typed, CursorInv
<1> QED BY <1>1, <1>2, <1>3, <1>5, <1>6, StepKeeps

(* The end of a line.                                                      *)
LEMMA ZeroColumnKeeps == ASSUME IInv, ZeroColumn PROVE IInv'
<1>1. /\ IsScreen(s) /\ s.row \in Nat /\ k \in Kmain /\ k.y \in Int
      /\ line \in Int /\ line >= -2
  BY Types
<1>2. /\ k.pc = "wrap" /\ enabled /\ UNCHANGED << crt, enabled, line, clean >>
      /\ s' = [s EXCEPT !.col = 0] /\ k' = [k EXCEPT !.pc = "down", !.x = 0]
  BY DEF ZeroColumn, At
<1>3. IsScreen(s') /\ s'.col = 0 /\ s'.row = s.row
  BY <1>1, <1>2 DEF IsScreen
<1>4. k' \in Kmain /\ k'.pc = "down" /\ k'.x = 0 /\ k'.y = k.y
  <2>1. "down" \in Pcs /\ 0 \in HeldColumn
    BY DEF Pcs, HeldColumn
  <2> QED BY <1>1, <1>2, <2>1, Zenon DEF Kmain
<1>5. RowOK("down", s.row, 0, 0, k.y, line) /\ ColOK("down", 0, 0)
  BY <1>2 DEF IInv, RowInv, RowOK, ColOK
<1>6. line >= -1 /\ (clean => k.y \in {None, s.row})
  BY <1>1, <1>2 DEF IInv, Typed, CursorInv
<1> QED BY <1>1, <1>2, <1>3, <1>4, <1>5, <1>6, StepKeeps

LEMMA WriteRowDownKeeps == ASSUME IInv, WriteRowDown PROVE IInv'
<1>1. /\ IsScreen(s) /\ s.row \in Nat /\ k \in Kmain /\ k.x \in -1 .. SCREEN_WIDTH
      /\ k.y \in Int /\ k.y >= -1 /\ line \in Int /\ line >= -2
  BY Types
<1>2. /\ k.pc = "down" /\ enabled /\ k.y # None /\ UNCHANGED << crt, enabled, line, clean >>
      /\ s' = [s EXCEPT !.row = k.y + 1] /\ k' = [k EXCEPT !.pc = "cursor", !.y = @ + 1]
  BY DEF WriteRowDown, At
<1>3. Fits(k.y + 1, 0, line) /\ s.col = 0 /\ k.x # SCREEN_WIDTH
  BY <1>2 DEF IInv, RowInv, RowOK, Held, ColInv, ColOK
<1>4. IsScreen(s') /\ s'.col = 0 /\ s'.row = k.y + 1 /\ s'.row \in Nat
  BY <1>1, <1>2, <1>3 DEF IsScreen
<1>5. k' \in Kmain /\ k'.pc = "cursor" /\ k'.x = k.x /\ k'.y = k.y + 1
  <2>1. "cursor" \in Pcs /\ k.y + 1 \in HeldRow
    BY ONLY <1>1 DEF Pcs, HeldRow
  <2> QED BY <1>1, <1>2, <2>1, Zenon DEF Kmain
<1>6. RowOK("cursor", k.y + 1, 0, k.x, k.y + 1, line) /\ ColOK("cursor", 0, k.x)
  BY <1>3 DEF RowOK, ColOK
<1>7. line >= -1 /\ (clean => k.x \in {None, 0})
  BY <1>1, <1>2, <1>3 DEF IInv, Typed, CursorInv
<1> QED BY <1>1, <1>2, <1>4, <1>5, <1>6, <1>7, StepKeeps

(* move_cursor.                                                            *)
LEMMA CallMoveCursorKeeps == ASSUME IInv, CallMoveCursor PROVE IInv'
<1>1. /\ k \in Kmain /\ s.col \in 0 .. SCREEN_WIDTH /\ k.x \in -1 .. SCREEN_WIDTH
      /\ k.y \in Int /\ k.y >= -1
  BY Types
<1>2. /\ k.pc = "cursor" /\ enabled /\ k.x # None /\ k.y # None
      /\ k' = [Idle EXCEPT !.pc = "out", !.i = 1, !.pos = offset(k.x, k.y)]
      /\ UNCHANGED << s, crt, enabled, line, clean >>
  BY DEF CallMoveCursor, At
<1>3. offset(k.x, k.y) \in Nat
  <2>1. k.x \in Nat /\ k.y \in Nat
    BY <1>1, <1>2 DEF None
  <2>2. k.y * SCREEN_WIDTH \in Nat
    BY <2>1, RowStarts
  <2> QED BY <2>1, <2>2 DEF offset
<1>4. /\ k' \in Kmain /\ k'.pc = "out" /\ k'.x = None /\ k'.y = None
      /\ k'.i = 1 /\ k'.pos = offset(k.x, k.y)
  <2> DEFINE o == offset(k.x, k.y)
  <2> HIDE DEF o
  <2>1. k' = [pc |-> "out", x |-> -1, y |-> -1, i |-> 1, pos |-> o]
    BY <1>2, Zenon DEF Idle, None, o
  <2>2. "out" \in Pcs /\ -1 \in HeldColumn /\ -1 \in HeldRow
    BY DEF Pcs, HeldColumn, HeldRow
  <2> QED BY <1>3, <2>1, <2>2 DEF Kmain, None, o
<1>5. Typed'
  BY <1>2, <1>4 DEF IInv, Typed
<1>6. RowInv' /\ ColInv'
  BY <1>2, <1>4 DEF IInv, RowInv, RowOK, ColInv, ColOK, None
<1>7. clean => offset(k.x, k.y) = Position(s)
  BY <1>2 DEF IInv, CursorInv, Position
<1>8. CursorInv'
  BY <1>2, <1>4, <1>7 DEF CursorInv
<1> QED BY <1>5, <1>6, <1>8 DEF IInv

LEMMA MoveCursorKeeps ==
  ASSUME IInv, MoveCursor
  PROVE  IInv'
<1>1. /\ k \in Kmain /\ k.pc = "out" /\ enabled = TRUE /\ s.col \in 0 .. SCREEN_WIDTH - 1
      /\ k.i \in 1 .. 4 /\ k.pos \in Nat /\ crt \in Crt /\ k.x = None /\ k.y = None
  BY DEF IInv, MoveCursor, At, Typed, Kmain, ColInv, ColOK, CursorInv
<1>2. /\ crt' = PortWrite(crt, k.i, k.pos)
      /\ k' = IF k.i < 4 THEN [k EXCEPT !.i = @ + 1] ELSE Idle
      /\ UNCHANGED << s, enabled, line, clean >>
  BY DEF MoveCursor
<1>3. PICK hi \in Nat, lo \in Nat : hi = (k.pos \div BYTE) % BYTE /\ lo = k.pos % BYTE
  BY <1>1, CursorAssumption
<1>4. /\ k.i = 1 => crt' = Select(crt, HIGH)
      /\ k.i = 2 => crt' = Data(crt, hi)
      /\ k.i = 3 => crt' = Select(crt, LOW)
      /\ k.i = 4 => crt' = Data(crt, lo)
  BY <1>1, <1>2, <1>3 DEF PortWrite
<1>5. /\ crt' \in Crt
      /\ k.i = 1 => crt'.index = HIGH
      /\ k.i = 2 /\ crt.index = HIGH => crt'.high = hi
      /\ k.i = 3 => crt'.index = LOW /\ crt'.high = crt.high
      /\ k.i = 4 /\ crt.index = LOW => crt'.low = lo /\ crt'.high = crt.high
  BY <1>1, <1>4 DEF Select, Data, Crt, HIGH, LOW
<1>6. clean => /\ k.pos = Position(s)
               /\ hi = k.pos \div BYTE
               /\ hi * BYTE + lo = k.pos
  <2> SUFFICES ASSUME clean
               PROVE  k.pos = Position(s) /\ hi = k.pos \div BYTE /\ hi * BYTE + lo = k.pos
    OBVIOUS
  <2>1. k.pos = Position(s)
    BY <1>1 DEF IInv, CursorInv
  <2>2. s.row \in 0 .. SCREEN_HEIGHT + 4
    BY InvBounds DEF RowBounded
  <2>3. k.pos \in 0 .. BYTE * BYTE - 1
    BY <1>1, <2>1, <2>2, PositionFits
  <2> QED BY <1>3, <2>1, <2>3, CursorBytes, Zenon
<1>7. s' = s /\ Position(s') = Position(s) /\ line' = line
  BY <1>2
<1>8. CASE k.i < 4
  <2>1. /\ k' \in Kmain /\ k'.pc = "out" /\ k'.i = k.i + 1 /\ k'.pos = k.pos
        /\ k'.x = None /\ k'.y = None
    BY <1>1, <1>2, <1>8 DEF Kmain
  <2>2. Typed'
    BY <1>1, <1>2, <1>5, <2>1, Zenon DEF IInv, Typed
  <2>3. RowInv' /\ ColInv'
    BY <1>1, <1>7, <2>1 DEF IInv, RowInv, RowOK, ColInv, ColOK, None
  <2>4. CASE ~ clean
    BY ONLY <1>1, <1>2, <1>8, <2>1, <2>2, <2>3, <2>4 DEF IInv, CursorInv
  <2>5. CASE clean
    <3>1. /\ k.i = 2 => crt.index = HIGH
          /\ k.i >= 3 => crt.high = hi
      BY <1>1, <1>6, <2>5, Zenon DEF IInv, CursorInv
    <3>2. /\ k'.i = 2 => crt'.index = HIGH
          /\ k'.i >= 3 => crt'.high = hi
          /\ k'.i = 4 => crt'.index = LOW
      BY ONLY <1>1, <1>5, <1>8, <2>1, <3>1
    <3>3. k'.i \in 1 .. 4
      BY <1>1, <1>8, <2>1
    <3>4. CursorInv'
      BY <1>6, <1>7, <2>1, <2>5, <3>2, <3>3 DEF CursorInv
    <3> QED BY <2>2, <2>3, <3>4 DEF IInv
  <2> QED BY <2>4, <2>5
<1>9. CASE k.i = 4
  <2>1. k' \in Kmain /\ k'.pc = "idle" /\ k'.x = None /\ k'.y = None
    <3>1. "idle" \in Pcs /\ -1 \in HeldColumn /\ -1 \in HeldRow
      BY DEF Pcs, HeldColumn, HeldRow
    <3> QED BY <1>1, <1>2, <1>9, <3>1 DEF Idle, Kmain, None
  <2>2. Typed'
    BY <1>1, <1>2, <1>5, <2>1, Zenon DEF IInv, Typed
  <2>3. RowInv' /\ ColInv'
    BY <1>1, <1>7, <2>1, Zenon DEF IInv, RowInv, RowOK, ColInv, ColOK, None
  <2>4. clean => crt'.high = hi /\ crt'.low = lo
    BY <1>1, <1>5, <1>6, <1>9 DEF IInv, CursorInv
  <2>5. clean => Cursor' = Position(s)
    BY <1>6, <2>4 DEF Cursor
  <2>6. CursorInv'
    BY <1>2, <1>7, <2>1, <2>5 DEF CursorInv
  <2> QED BY <2>2, <2>3, <2>6 DEF IInv
<1> QED BY <1>1, <1>8, <1>9

-----------------------------------------------------------------------------
LEMMA Inductive == IInv /\ [Next]_vars => IInv'
<1> SUFFICES ASSUME IInv, [Next]_vars PROVE IInv'
  OBVIOUS
<1>1. CASE keyboard_init
  <2>1. UNCHANGED << s, crt, k, line, clean >> /\ enabled' = TRUE
    BY <1>1 DEF keyboard_init
  <2> QED BY <2>1 DEF IInv, Typed, RowInv, ColInv, CursorInv, Cursor
<1>2. CASE Write
  BY <1>2, BeginNewlineKeeps, BeginCharKeeps, ReadKeeps, StoreCellKeeps, ScrollKeeps,
     WriteRowUpKeeps, WriteColumnKeeps, TestColumnKeeps, ZeroColumnKeeps, WriteRowDownKeeps,
     CallMoveCursorKeeps, MoveCursorKeeps DEF Write
<1>3. CASE UNCHANGED vars
  BY <1>3 DEF vars, IInv, Typed, RowInv, ColInv, CursorInv, Cursor
<1> QED BY <1>1, <1>2, <1>3, EarlyKeeps, KeyKeeps DEF Next, Asleep

LEMMA Invariant == Spec => []IInv
  BY InitInv, Inductive, PTL DEF Spec

(* However many lines that LineEnds allows kmain prints and however many   *)
(* keys are pressed, wherever they interrupt screen_write, also between    *)
(* the read and the write of screen_row++ and screen_row--, when the rows  *)
(* that the report moved are lost: the row lies at most four past the last *)
(* one and never before the first.                                         *)
THEOREM RowStaysBounded == Spec => []RowBounded
  BY Invariant, InvBounds, PTL

(* Between two characters of kmain the column is inside the line, though a *)
(* report may begin at the width and run past the test for it.             *)
THEOREM ColumnStaysInside == Spec => []ColumnInside
  BY Invariant, InvBounds, PTL

(* Between two characters the cursor is where the next one goes, unless a  *)
(* key interrupted the last screen_write.                                  *)
THEOREM CursorFollows == Spec => []CursorRight
  BY Invariant, InvBounds, PTL

-----------------------------------------------------------------------------
(* No character is lost but to the keys.  What counts is the number of     *)
(* filled cells before a position.                                         *)
FilledBelow(fb, q) == { p \in Cells : p < q /\ fb[p] \in {"a", "k"} }

Below(fb, q) == Cardinality(FilledBelow(fb, q))

(* What the keys that interrupted a screen_write may have cost.            *)
Allowed == hits * (PREFIX + 2)

(* The characters put on the screen fill as many cells before the place    *)
(* where screen_write, from wherever kmain is in it, lets the next one go: *)
(* by the position that is shared, and by the row that it holds if it may  *)
(* still count from that.  A key that comes before the cell is stored pays *)
(* for the one that is stored over.                                        *)
CellsFilled ==
  /\ s.fb = [p \in Cells |-> s.fb[p]]
  /\ k.pc \notin {"scroll", "rowup"}
  /\ k.pc \in {"idle", "test", "cursor", "out"} =>
       put <= Below(s.fb, Position(s)) + Allowed
  /\ k.pc = "args" =>
       \/ /\ k.x \in {None, s.col} /\ k.y \in {None, s.row}
          /\ put <= Below(s.fb, Position(s)) + Allowed
       \/ put + 1 <= Below(s.fb, Position(s)) + Allowed
  /\ k.pc = "count" =>
       \/ k.x \in {None, s.col} /\ put <= Below(s.fb, Position(s) + 1) + Allowed
       \/ put <= Below(s.fb, Position(s)) + Allowed
  /\ k.pc \in {"wrap", "down"} => put <= Below(s.fb, offset(0, s.row + 1)) + Allowed
  /\ k.pc \in {"count", "test", "wrap", "down"} /\ k.y # None =>
       put <= Below(s.fb, offset(0, k.y + 1)) + Allowed

LossInv == put \in Int /\ hits \in Nat /\ (put >= 0 => CellsFilled)

LEMMA BelowFinite ==
  ASSUME NEW fb, NEW q
  PROVE  IsFiniteSet(FilledBelow(fb, q)) /\ Below(fb, q) \in Nat
<1>1. ROWS * SCREEN_WIDTH - 1 \in Int
  BY RowsAssumption
<1>2. IsFiniteSet(Cells)
  BY <1>1, FS_Interval DEF Cells
<1>3. FilledBelow(fb, q) \in SUBSET Cells
  BY DEF FilledBelow
<1>4. IsFiniteSet(FilledBelow(fb, q))
  BY <1>2, <1>3, FS_Subset
<1> QED BY <1>4, FS_CardinalityType DEF Below

(* More cells, and filled ones that stay so, make no fewer.                *)
LEMMA BelowGrows ==
  ASSUME NEW fb, NEW fb2, NEW q \in Int, NEW q2 \in Int, q <= q2,
         \A p \in Cells : fb[p] \in {"a", "k"} => fb2[p] \in {"a", "k"}
  PROVE  Below(fb, q) <= Below(fb2, q2)
<1>1. FilledBelow(fb, q) \in SUBSET FilledBelow(fb2, q2)
  <2>1. ASSUME NEW p \in Cells, p < q PROVE p < q2
    <3>1. p \in Int
      BY RowsAssumption DEF Cells
    <3> QED BY <2>1, <3>1
  <2> QED BY <2>1 DEF FilledBelow
<1>2. IsFiniteSet(FilledBelow(fb2, q2))
  BY BelowFinite
<1> QED BY <1>1, <1>2, FS_Subset DEF Below

(* One cell further there is at most one more filled.                      *)
LEMMA BelowNext ==
  ASSUME NEW fb, NEW q \in Int
  PROVE  Below(fb, q + 1) <= Below(fb, q) + 1
<1>1. FilledBelow(fb, q + 1) \in SUBSET (FilledBelow(fb, q) \cup {q})
  <2>1. ASSUME NEW p \in Cells, p < q + 1 PROVE p < q \/ p = q
    <3>1. p \in Int
      BY RowsAssumption DEF Cells
    <3> QED BY <2>1, <3>1
  <2> QED BY <2>1 DEF FilledBelow
<1>2. /\ IsFiniteSet(FilledBelow(fb, q) \cup {q})
      /\ Cardinality(FilledBelow(fb, q) \cup {q}) <= Below(fb, q) + 1
  BY BelowFinite, FS_AddElement DEF Below
<1>3. Below(fb, q + 1) <= Cardinality(FilledBelow(fb, q) \cup {q})
  BY <1>1, <1>2, FS_Subset DEF Below
<1>4. Cardinality(FilledBelow(fb, q) \cup {q}) \in Nat
  BY <1>2, FS_CardinalityType
<1> QED BY <1>2, <1>3, <1>4, BelowFinite

(* A run of cells that are filled from q on adds as many.                  *)
LEMMA BelowRun ==
  ASSUME NEW fb, NEW fb2, NEW q \in Nat, NEW n \in Nat \ {0},
         q + n <= ROWS * SCREEN_WIDTH,
         \A p \in Cells : fb[p] \in {"a", "k"} => fb2[p] \in {"a", "k"},
         \A p \in Cells : q <= p /\ p < q + n => fb2[p] \in {"a", "k"}
  PROVE  Below(fb, q) + n <= Below(fb2, q + n)
<1> DEFINE run == q .. q + n - 1
           old == FilledBelow(fb, q)
<1>1. IsFiniteSet(run) /\ Cardinality(run) = n
  <2>1. q + n - 1 \in Int /\ ~ (q > q + n - 1) /\ (q + n - 1) - q + 1 = n
    OBVIOUS
  <2> QED BY ONLY <2>1, FS_Interval
<1>2. old \cap run = {}
  BY DEF FilledBelow
<1>3. IsFiniteSet(old) /\ Cardinality(old) = Below(fb, q)
  BY BelowFinite DEF Below
<1>4. old \cup run \in SUBSET FilledBelow(fb2, q + n)
  <2>1. ASSUME NEW p \in run PROVE p \in FilledBelow(fb2, q + n)
    <3>1. p \in Cells /\ q <= p /\ p < q + n
      BY RowsAssumption DEF Cells
    <3> QED BY <3>1 DEF FilledBelow
  <2>2. ASSUME NEW p \in old PROVE p \in FilledBelow(fb2, q + n)
    <3>1. p \in Cells /\ p < q /\ fb[p] \in {"a", "k"}
      BY DEF FilledBelow
    <3>2. p < q + n
      BY <3>1, RowsAssumption DEF Cells
    <3> QED BY <3>1, <3>2 DEF FilledBelow
  <2> QED BY <2>1, <2>2
<1> HIDE DEF run, old
<1>5. /\ IsFiniteSet(old \cup run)
      /\ Cardinality(old \cup run) = Cardinality(old) + Cardinality(run) - Cardinality({})
  BY ONLY <1>1, <1>2, <1>3, FS_Union
<1>6. Cardinality(old \cup run) <= Below(fb2, q + n)
  BY ONLY <1>4, <1>5, BelowFinite, FS_Subset, Zenon DEF Below
<1> QED BY <1>1, <1>3, <1>5, <1>6, BelowFinite, FS_EmptySet

(* A character that does not scroll is put at the position, which moves on *)
(* to the next cell, whether or not the line is wrapped.                   *)
PutAt(t, u, c) ==
  /\ IsScreen(u)
  /\ u.fb = [t.fb EXCEPT ![Position(t)] = c]
  /\ Position(u) = Position(t) + 1

LEMMA CharPut ==
  ASSUME NEW t, IsScreen(t), NEW c \in {"a", "k"}, ~ Scrolls(t.col, t.row)
  PROVE  PutAt(t, screen_write(t, c), c)
<1> DEFINE u == screen_write(t, c)
           w == [t EXCEPT !.fb[offset(t.col, t.row)] = c]
<1>1. /\ IsScreen(u)
      /\ u.col = IF t.col + 1 = SCREEN_WIDTH THEN 0 ELSE t.col + 1
      /\ u.row = t.row + (IF t.col + 1 = SCREEN_WIDTH THEN 1 ELSE 0)
  BY CharWritten DEF Newline, Tab, Return, Backspace, IsScreen
<1>2. t.col \in Int /\ t.row \in Int
  BY DEF IsScreen
<1>3. Position(u) = Position(t) + 1
  <2>1. (t.row + 1) * SCREEN_WIDTH + 0 = t.row * SCREEN_WIDTH + SCREEN_WIDTH
    BY <1>2
  <2> QED BY <1>1, <1>2, <2>1 DEF Position, offset
<1>4. screen_write(t, c) = Advanced(w)
  BY DEF screen_write, screen_write_at, Newline, Tab, Return, Backspace
<1>5. w.fb = [t.fb EXCEPT ![Position(t)] = c] /\ IsScreen(w)
  BY DEF IsScreen, Position
<1> HIDE DEF w
<1>6. Advanced(w).fb = w.fb
  BY <1>5 DEF Advanced, IsScreen
<1> QED BY <1>1, <1>3, <1>4, <1>5, <1>6 DEF PutAt

LEMMA NewlinePut ==
  ASSUME NEW t, IsScreen(t)
  PROVE  screen_write(t, Newline).fb = t.fb
<1>1. screen_write(t, Newline) = [t EXCEPT !.col = 0, !.row = @ + 1]
  BY DEF screen_write, Newline, Backspace, Tab, Return
<1> QED BY <1>1 DEF IsScreen

(* The cells after j characters of a report that began at the position of  *)
(* t and has not scrolled.                                                 *)
Marked(t, u, j) ==
  /\ IsScreen(u) /\ u.fb = [p \in Cells |-> u.fb[p]]
  /\ Position(u) = Position(t) + j
  /\ t.col < SCREEN_WIDTH => u.col \in 0 .. SCREEN_WIDTH - 1
  /\ t.col = SCREEN_WIDTH => u.row = t.row /\ u.col >= SCREEN_WIDTH
  /\ \A p \in Cells :
       u.fb[p] = IF Position(t) <= p /\ p < Position(t) + j THEN "k" ELSE t.fb[p]

LEMMA MarkedKeeps ==
  ASSUME NEW t, NEW u, NEW j \in Nat, Marked(t, u, j),
         t.col \in 0 .. SCREEN_WIDTH, Position(t) \in Nat,
         Position(t) + j <= offset(0, SCREEN_HEIGHT)
  PROVE  Marked(t, screen_write(u, "k"), j + 1)
<1> DEFINE v == screen_write(u, "k")
<1>1. IsScreen(u) /\ Position(u) = Position(t) + j /\ u.col \in Int /\ u.row \in Int
  BY DEF Marked, IsScreen
<1>2. offset(0, SCREEN_HEIGHT) \in Int
  BY DEF offset
<1>3. ~ Scrolls(u.col, u.row)
  BY <1>1, <1>2 DEF Scrolls, Position
<1>4. PutAt(u, v, "k")
  BY <1>1, <1>3, CharPut
<1>5. /\ v.col = IF u.col + 1 = SCREEN_WIDTH THEN 0 ELSE u.col + 1
      /\ v.row = u.row + (IF u.col + 1 = SCREEN_WIDTH THEN 1 ELSE 0)
  BY <1>1, <1>3, CharWritten DEF Newline, Tab, Return, Backspace
<1> HIDE DEF v
<1>6. v.fb = [u.fb EXCEPT ![Position(t) + j] = "k"] /\ IsScreen(v)
  BY <1>1, <1>4 DEF PutAt
<1>7. Position(v) = Position(t) + (j + 1)
  BY <1>1, <1>4 DEF PutAt
<1>8. /\ t.col < SCREEN_WIDTH => v.col \in 0 .. SCREEN_WIDTH - 1
      /\ t.col = SCREEN_WIDTH => v.row = t.row /\ v.col >= SCREEN_WIDTH
  BY <1>1, <1>5 DEF Marked
<1>9. ASSUME NEW p \in Cells
      PROVE  v.fb[p] = IF Position(t) <= p /\ p < Position(t) + (j + 1) THEN "k" ELSE t.fb[p]
  <2>1. p \in Int
    BY RowsAssumption DEF Cells
  <2>2. u.fb[p] = IF Position(t) <= p /\ p < Position(t) + j THEN "k" ELSE t.fb[p]
    BY DEF Marked
  <2>3. v.fb[p] = IF p = Position(t) + j THEN "k" ELSE u.fb[p]
    BY <1>6 DEF Marked
  <2> QED BY <2>1, <2>2, <2>3
<1>10. v.fb = [p \in Cells |-> v.fb[p]]
  BY <1>6 DEF Marked
<1> QED BY ONLY <1>6, <1>7, <1>8, <1>9, <1>10, Zenon DEF Marked, v

(* What a report of n characters that does not scroll does to the cells:   *)
(* they are filled from the position on, and the position ends up behind   *)
(* them, or where it was if that was the width of a line.                  *)
Reported(t, u, n) ==
  /\ u.fb = [p \in Cells |-> u.fb[p]]
  /\ \A p \in Cells : t.fb[p] \in {"a", "k"} => u.fb[p] \in {"a", "k"}
  /\ Below(t.fb, Position(t)) + n <= Below(u.fb, Position(t) + n)
  /\ t.col < SCREEN_WIDTH => Position(t) + n <= Position(u)
  /\ t.col = SCREEN_WIDTH => Position(u) = Position(t)

LEMMA ReportMarks ==
  ASSUME NEW t, IsScreen(t), t.fb = [p \in Cells |-> t.fb[p]],
         t.col \in 0 .. SCREEN_WIDTH, t.row \in Nat, NEW scancode \in Nat,
         Position(t) + Len(Report(scancode)) <= offset(0, SCREEN_HEIGHT)
  PROVE  /\ Len(Report(scancode)) - 1 \in 1 .. PREFIX + 2
         /\ Reported(t, screen_print(t, Report(scancode)), Len(Report(scancode)) - 1)
<1> DEFINE n == PREFIX + (IF scancode < 10 THEN 1 ELSE 2)
           str == Report(scancode)
<1>1. n \in 2 .. SCREEN_WIDTH /\ n \in 1 .. PREFIX + 2
  BY ReportAssumption
<1>2. /\ Len(str) = n + 1
      /\ \A j \in 1 .. n : str[j] = "k"
      /\ str[n + 1] = Newline
  BY ONLY <1>1 DEF Report
<1> HIDE DEF n, str
<1>3. PICK g : /\ g[0] = t
               /\ \A j \in 1 .. n + 1 : g[j] = screen_write(g[j - 1], str[j])
               /\ screen_print(t, str) = g[n + 1]
  <2>1. Len(str) \in Nat
    BY <1>1, <1>2
  <2>2. OneByOne(t, str)
    BY ONLY <2>1, PrintUnfolds
  <2> QED BY ONLY <1>2, <2>2, Zenon DEF OneByOne
<1>4. Position(t) \in Nat /\ offset(0, SCREEN_HEIGHT) \in Int
  <2>1. t.row * SCREEN_WIDTH \in Nat /\ SCREEN_HEIGHT * SCREEN_WIDTH \in Nat
    BY RowStarts, Zenon
  <2> QED BY <2>1 DEF Position, offset
<1>5. Position(t) + (n + 1) <= offset(0, SCREEN_HEIGHT)
  BY <1>2 DEF str
<1> DEFINE Bad == {j \in Nat : j <= n /\ ~ Marked(t, g[j], j)}
<1>6. ASSUME Bad # {} PROVE FALSE
  <2>1. PICK j \in Bad : \A m \in Nat : m < j => m \notin Bad
    <3>1. PICK j \in Bad : \A m \in Bad : ~ (<<m, j>> \in OpToRel(<, Nat))
      BY <1>6, NatLessThanWellFounded, WFMin, Zenon
    <3> QED BY <3>1, Zenon DEF OpToRel
  <2>2. j # 0
    <3>1. Marked(t, t, 0)
      <4>1. \A p \in Cells : p \in Int
        BY RowsAssumption DEF Cells
      <4>2. /\ Position(t) = Position(t) + 0
            /\ \A p \in Cells :
                 t.fb[p] = IF Position(t) <= p /\ p < Position(t) + 0 THEN "k" ELSE t.fb[p]
        BY ONLY <1>4, <4>1
      <4>3. /\ t.col < SCREEN_WIDTH => t.col \in 0 .. SCREEN_WIDTH - 1
            /\ t.col = SCREEN_WIDTH => t.row = t.row /\ t.col >= SCREEN_WIDTH
        OBVIOUS
      <4> QED BY <4>2, <4>3, Zenon DEF Marked
    <3> QED BY <1>3, <2>1, <3>1
  <2>3. Marked(t, g[j - 1], j - 1)
    BY <1>1, <2>1, <2>2
  <2>4. g[j] = screen_write(g[j - 1], "k")
    <3>1. j \in 1 .. n /\ j \in 1 .. n + 1
      BY ONLY <1>1, <2>1, <2>2
    <3>2. str[j] = "k"
      BY <1>2, <3>1, Zenon
    <3> QED BY <1>3, <3>1, <3>2, Zenon
  <2>5. j - 1 \in Nat /\ Position(t) + (j - 1) <= offset(0, SCREEN_HEIGHT)
    BY ONLY <1>1, <1>4, <1>5, <2>1, <2>2
  <2>6. Marked(t, screen_write(g[j - 1], "k"), (j - 1) + 1)
    BY <1>4, <2>3, <2>5, MarkedKeeps, Zenon
  <2> QED BY <2>1, <2>4, <2>6
<1>7. Marked(t, g[n], n)
  BY ONLY <1>1, <1>6
<1> HIDE DEF Bad
<1> DEFINE v == g[n]
           u == screen_print(t, str)
<1>8. IsScreen(v) /\ v.col \in Int /\ v.row \in Int
  BY ONLY <1>7, Zenon DEF Marked, IsScreen
<1>9. u = screen_write(v, Newline)
  BY ONLY <1>1, <1>2, <1>3
<1>10. u.fb = v.fb /\ u.col = 0 /\ u.row = v.row + 1
  BY ONLY <1>8, <1>9, NewlinePut, NewlineWritten
<1> HIDE DEF u, v
<1>11. Position(u) = v.row * SCREEN_WIDTH + SCREEN_WIDTH
  BY <1>8, <1>10 DEF Position, offset
<1>12. v.row * SCREEN_WIDTH + v.col = Position(t) + n
  BY ONLY <1>7 DEF Marked, Position, offset, v
<1>13. t.col < SCREEN_WIDTH => Position(t) + n <= Position(u)
  <2> SUFFICES ASSUME t.col < SCREEN_WIDTH PROVE Position(t) + n <= Position(u)
    OBVIOUS
  <2>1. v.col < SCREEN_WIDTH
    BY <1>7 DEF Marked, v
  <2>2. v.row * SCREEN_WIDTH \in Int
    BY <1>8
  <2> QED BY <1>8, <1>11, <1>12, <2>1, <2>2
<1>14. t.col = SCREEN_WIDTH => Position(u) = Position(t)
  BY ONLY <1>7, <1>11 DEF Marked, Position, offset, v
<1>15. \A p \in Cells : t.fb[p] \in {"a", "k"} => u.fb[p] \in {"a", "k"}
  BY <1>7, <1>10 DEF Marked, v
<1>16. Below(t.fb, Position(t)) + n <= Below(u.fb, Position(t) + n)
  <2>1. \A p \in Cells : Position(t) <= p /\ p < Position(t) + n => u.fb[p] \in {"a", "k"}
    BY <1>7, <1>10, Zenon DEF Marked, v
  <2>2. Position(t) + n <= ROWS * SCREEN_WIDTH
    <3>1. SCREEN_HEIGHT * SCREEN_WIDTH <= ROWS * SCREEN_WIDTH
      BY RowsApart, RowsAssumption
    <3>2. Position(t) + (n + 1) <= SCREEN_HEIGHT * SCREEN_WIDTH
      BY <1>5 DEF offset
    <3>3. ROWS * SCREEN_WIDTH \in Int /\ SCREEN_HEIGHT * SCREEN_WIDTH \in Int
      BY RowsAssumption
    <3> QED BY ONLY <1>1, <1>4, <3>1, <3>2, <3>3
  <2>3. n \in Nat \ {0}
    BY <1>1
  <2> QED BY ONLY <1>4, <1>15, <2>1, <2>2, <2>3, BelowRun
<1>17. u.fb = [p \in Cells |-> u.fb[p]]
  BY <1>7, <1>10 DEF Marked, v
<1>18. Reported(t, u, n)
  BY <1>13, <1>14, <1>15, <1>16, <1>17 DEF Reported
<1>19. Len(str) - 1 = n
  BY <1>1, <1>2
<1> QED BY ONLY <1>1, <1>18, <1>19 DEF str, u

(* The filled cells before the place where the next character goes, seen   *)
(* from the position, from the cell behind it, from the line below it and  *)
(* from anywhere else.                                                     *)
Pushes(t, u, n) ==
  /\ u.fb = [p \in Cells |-> u.fb[p]]
  /\ t.col < SCREEN_WIDTH => Below(t.fb, Position(t)) + n <= Below(u.fb, Position(u))
  /\ t.col = SCREEN_WIDTH => Below(t.fb, Position(t)) <= Below(u.fb, Position(u))
  /\ Below(t.fb, offset(0, t.row + 1)) <= Below(u.fb, offset(0, u.row + 1))
  /\ \A q \in Int : Below(t.fb, q) <= Below(u.fb, q)
  /\ Below(t.fb, Position(t) + 1) <= Below(t.fb, Position(t)) + 1

(* A report pushes the position before it, over cells that it fills.       *)
LEMMA ReportPushes ==
  ASSUME NEW t, NEW u, NEW n \in Nat, Reported(t, u, n), Position(t) \in Nat,
         t.row \in Nat, t.col \in 0 .. SCREEN_WIDTH, u.row \in Nat, u.col = 0
  PROVE  Pushes(t, u, n)
<1>1. t.row * SCREEN_WIDTH \in Nat /\ u.row * SCREEN_WIDTH \in Nat
  BY RowStarts
<1>2. /\ Position(u) = u.row * SCREEN_WIDTH /\ Position(u) \in Nat
      /\ offset(0, u.row + 1) = u.row * SCREEN_WIDTH + SCREEN_WIDTH
      /\ offset(0, t.row + 1) = t.row * SCREEN_WIDTH + SCREEN_WIDTH
  BY <1>1 DEF Position, offset
<1>3. u.fb = [p \in Cells |-> u.fb[p]] /\ Below(t.fb, Position(t)) + n <= Below(u.fb, Position(t) + n)
  BY Zenon DEF Reported
<1>4. \A p \in Cells : t.fb[p] \in {"a", "k"} => u.fb[p] \in {"a", "k"}
  BY Zenon DEF Reported
<1>5. /\ t.col < SCREEN_WIDTH => Position(t) + n <= Position(u)
      /\ t.col = SCREEN_WIDTH => Position(u) = Position(t)
  BY Zenon DEF Reported
<1>6. ASSUME t.col < SCREEN_WIDTH
      PROVE  Below(t.fb, Position(t)) + n <= Below(u.fb, Position(u))
  <2>1. Below(u.fb, Position(t) + n) <= Below(u.fb, Position(u))
    BY <1>2, <1>5, <1>6, BelowGrows
  <2>2. /\ Below(t.fb, Position(t)) \in Nat /\ Below(u.fb, Position(t) + n) \in Nat
        /\ Below(u.fb, Position(u)) \in Nat
    BY BelowFinite
  <2> QED BY ONLY <1>3, <2>1, <2>2
<1>7. ASSUME t.col = SCREEN_WIDTH
      PROVE  Below(t.fb, Position(t)) <= Below(u.fb, Position(u))
  BY <1>2, <1>4, <1>5, <1>7, BelowGrows
<1>8. Below(t.fb, offset(0, t.row + 1)) <= Below(u.fb, offset(0, u.row + 1))
  <2>1. Position(t) = t.row * SCREEN_WIDTH + t.col
    BY <1>1 DEF Position, offset
  <2>2. offset(0, t.row + 1) \in Int /\ offset(0, u.row + 1) \in Int
        /\ offset(0, t.row + 1) <= offset(0, u.row + 1)
    BY <1>1, <1>2, <1>5, <2>1
  <2> QED BY ONLY <1>4, <2>2, BelowGrows
<1>9. Below(t.fb, Position(t) + 1) <= Below(t.fb, Position(t)) + 1
  BY BelowNext
<1>10. ASSUME NEW q \in Int PROVE Below(t.fb, q) <= Below(u.fb, q)
  BY <1>4, BelowGrows
<1> QED BY <1>3, <1>6, <1>7, <1>8, <1>9, <1>10, Zenon DEF Pushes

-----------------------------------------------------------------------------
(* Once the screen has scrolled nothing is claimed.                        *)
LEMMA Uncounted ==
  ASSUME put' \in Int, hits' \in Nat, ~ (put' >= 0)
  PROVE  LossInv'
  BY DEF LossInv

LEMMA InitLoss == Init => LossInv
<1> SUFFICES ASSUME Init PROVE LossInv
  OBVIOUS
<1>1. put = 0 /\ hits = 0 /\ k.pc = "idle" /\ s = Cleared([p \in Cells |-> "old"])
  BY DEF Init, Idle
<1>2. s.fb = [p \in Cells |-> s.fb[p]]
  BY <1>1 DEF Cleared
<1>3. Allowed = 0
  BY <1>1, ReportAssumption DEF Allowed
<1>4. Below(s.fb, Position(s)) \in Nat
  BY BelowFinite
<1> QED BY ONLY <1>1, <1>2, <1>3, <1>4 DEF LossInv, CellsFilled

(* The types that the steps below need.                                    *)
LEMMA LossTypes ==
  ASSUME IInv, LossInv
  PROVE  /\ IsScreen(s) /\ s.row \in Nat /\ s.col \in 0 .. SCREEN_WIDTH /\ k \in Kmain
         /\ put \in Int /\ hits \in Nat /\ Allowed \in Nat
         /\ Position(s) \in Nat
         /\ offset(0, s.row + 1) = s.row * SCREEN_WIDTH + SCREEN_WIDTH
         /\ offset(0, s.row + 1) \in Int
<1>1. IsScreen(s) /\ s.row \in Nat /\ k \in Kmain /\ put \in Int /\ hits \in Nat
  BY DEF IInv, Typed, LossInv
<1>2. s.col \in 0 .. SCREEN_WIDTH
  BY DEF IInv, ColInv, ColOK
<1>3. 0 * SCREEN_WIDTH <= s.row * SCREEN_WIDTH
  BY <1>1, RowsApart
<1>4. Position(s) \in Nat
  BY <1>1, <1>2, <1>3 DEF Position, offset
<1>5. Allowed \in Nat
  BY <1>1, ReportAssumption DEF Allowed
<1>6. /\ offset(0, s.row + 1) = s.row * SCREEN_WIDTH + SCREEN_WIDTH
      /\ offset(0, s.row + 1) \in Int
  BY <1>1 DEF offset
<1> QED BY <1>1, <1>2, <1>4, <1>5, <1>6

(* A key costs nothing between two characters, and otherwise no more than  *)
(* its report is long.                                                     *)
LEMMA KeyLoss ==
  ASSUME IInv, LossInv, NEW scancode \in Scancodes, keyboard_callback(scancode)
  PROVE  LossInv'
<1>1. /\ IsScreen(s) /\ s.row \in Nat /\ s.col \in 0 .. SCREEN_WIDTH /\ k \in Kmain
      /\ put \in Int /\ hits \in Nat /\ Allowed \in Nat /\ Position(s) \in Nat
      /\ offset(0, s.row + 1) = s.row * SCREEN_WIDTH + SCREEN_WIDTH
      /\ offset(0, s.row + 1) \in Int
  BY LossTypes
<1>2. k' = k
  BY DEF keyboard_callback
<1>3. CASE scancode > SCANCODE_MAX
  <2>1. UNCHANGED << s, put, hits >>
    BY <1>3 DEF keyboard_callback
  <2> QED BY <1>2, <2>1, Zenon DEF LossInv, CellsFilled, Allowed
<1>4. CASE ~ (scancode > SCANCODE_MAX)
  <2> DEFINE n == Len(Report(scancode)) - 1
             moved == Position(s) + Len(Report(scancode)) > offset(0, SCREEN_HEIGHT)
  <2>1. /\ s' = screen_print(s, Report(scancode))
        /\ put' = IF moved \/ put < 0 THEN -1 ELSE put + n
        /\ hits' = IF k.pc = "idle" THEN hits ELSE hits + 1
    BY <1>4 DEF keyboard_callback, Written
  <2>2. hits' \in Nat
    BY <1>1, <2>1
  <2>3. CASE moved \/ put < 0
    <3>1. put' = -1
      BY <2>1, <2>3
    <3> QED BY ONLY <2>2, <3>1, Uncounted
  <2>4. CASE ~ moved /\ ~ (put < 0)
    <3>1. /\ put >= 0 /\ s.fb = [p \in Cells |-> s.fb[p]] /\ scancode \in Nat
      BY <1>1, <2>4, ScancodeAssumption DEF LossInv, CellsFilled
    <3>2. Len(Report(scancode)) \in Int /\ offset(0, SCREEN_HEIGHT) \in Int
      BY <3>1, ReportAssumption DEF Report, offset
    <3>3. n \in 1 .. PREFIX + 2 /\ Reported(s, s', n)
      <4>1. Position(s) + Len(Report(scancode)) <= offset(0, SCREEN_HEIGHT)
        BY <1>1, <2>4, <3>2
      <4> QED BY ONLY <1>1, <2>1, <3>1, <4>1, ReportMarks, Zenon
    <3>4. put' = put + n
      BY <2>1, <2>4
    <3>5. /\ IsScreen(s') /\ s'.col = 0 /\ s'.row \in Nat
      BY ONLY <1>1, <2>1, <3>1, ReportPrinted, Zenon
    <3> HIDE DEF n, moved
    <3>6. n \in Nat /\ n <= PREFIX + 2 /\ PREFIX \in Nat
      BY ONLY <3>3, ReportAssumption
    <3>7. Pushes(s, s', n)
      BY <1>1, <3>3, <3>5, <3>6, ReportPushes
    <3> DEFINE at    == Below(s.fb, Position(s))
               next  == Below(s.fb, Position(s) + 1)
               down  == Below(s.fb, offset(0, s.row + 1))
               held  == Below(s.fb, offset(0, k.y + 1))
               at2   == Below(s'.fb, Position(s'))
               down2 == Below(s'.fb, offset(0, s'.row + 1))
               held2 == Below(s'.fb, offset(0, k.y + 1))
    <3>8. /\ at \in Nat /\ next \in Nat /\ down \in Nat /\ held \in Nat
          /\ at2 \in Nat /\ down2 \in Nat /\ held2 \in Nat
      BY BelowFinite, Zenon
    <3>9. /\ s.col < SCREEN_WIDTH => at + n <= at2
          /\ s.col = SCREEN_WIDTH => at <= at2
          /\ down <= down2 /\ next <= at + 1
      BY <3>7, Zenon DEF Pushes
    <3>10. held <= held2
      <4>1. offset(0, k.y + 1) \in Int
        BY Types DEF offset
      <4> QED BY <3>7, <4>1, Zenon DEF Pushes
    <3>11. s'.fb = [p \in Cells |-> s'.fb[p]]
      BY <3>7 DEF Pushes
    <3>12. /\ k.pc \notin {"scroll", "rowup"}
           /\ k.pc \in {"idle", "test", "cursor", "out"} => put <= at + Allowed
           /\ k.pc = "args" => put <= at + Allowed \/ put + 1 <= at + Allowed
           /\ k.pc = "count" => put <= next + Allowed \/ put <= at + Allowed
           /\ k.pc \in {"wrap", "down"} => put <= down + Allowed
           /\ k.pc \in {"count", "test", "wrap", "down"} /\ k.y # None => put <= held + Allowed
      BY <3>1 DEF LossInv, CellsFilled
    <3>13. k.pc \in {"idle", "args", "count", "cursor", "out"} => s.col < SCREEN_WIDTH
      BY <1>1 DEF IInv, ColInv, ColOK
    <3>14. Allowed' = IF k.pc = "idle" THEN Allowed ELSE Allowed + (PREFIX + 2)
      BY <1>1, <2>1, <3>6 DEF Allowed
    <3>15. put \in Int /\ put' \in Int /\ Allowed \in Nat /\ Allowed' \in Nat
      BY <1>1, <3>4, <3>6, <3>14
    <3> HIDE DEF at, next, down, held, at2, down2, held2
    <3>16. /\ k.pc \in {"idle", "test", "cursor", "out", "count"} => put' <= at2 + Allowed'
           /\ k.pc = "args" => put' + 1 <= at2 + Allowed'
      <4>1. CASE s.col < SCREEN_WIDTH
        <5>1. at + n <= at2
          BY <3>9, <4>1
        <5> QED BY ONLY <3>4, <3>6, <3>8, <3>9, <3>12, <3>14, <3>15, <5>1
      <4>2. CASE s.col = SCREEN_WIDTH
        <5>1. at <= at2
          BY <3>9, <4>2
        <5>2. k.pc \notin {"idle", "args", "count", "cursor", "out"}
          BY <1>1, <3>13, <4>2
        <5> QED BY ONLY <3>4, <3>6, <3>8, <3>12, <3>14, <3>15, <5>1, <5>2
      <4> QED BY <1>1, <4>1, <4>2
    <3>17. /\ k.pc \in {"wrap", "down"} => put' <= down2 + Allowed'
           /\ k.pc \in {"count", "test", "wrap", "down"} /\ k.y # None => put' <= held2 + Allowed'
      BY ONLY <3>4, <3>6, <3>8, <3>9, <3>10, <3>12, <3>14, <3>15
    <3>18. CellsFilled'
      BY ONLY <1>2, <3>11, <3>12, <3>16, <3>17, Zenon DEF CellsFilled, at2, down2, held2
    <3> QED BY <2>2, <3>15, <3>18, Zenon DEF LossInv
  <2> QED BY <2>3, <2>4
<1> QED BY <1>3, <1>4

(* A cell that screen_write_at does not scroll for is one of the memory.   *)
LEMMA ShownCell ==
  ASSUME NEW x, NEW y, NEW q \in Nat, q = offset(x, y), ~ Scrolls(x, y)
  PROVE  q + 1 <= ROWS * SCREEN_WIDTH
<1>1. (SCREEN_HEIGHT + 1) * SCREEN_WIDTH <= ROWS * SCREEN_WIDTH
  BY RowsApart, RowsAssumption
<1>2. SCREEN_HEIGHT * SCREEN_WIDTH \in Int /\ ROWS * SCREEN_WIDTH \in Int
  BY RowsAssumption
<1>3. offset(0, SCREEN_HEIGHT) = SCREEN_HEIGHT * SCREEN_WIDTH
  BY <1>2 DEF offset
<1>4. q <= SCREEN_HEIGHT * SCREEN_WIDTH
  BY <1>2, <1>3 DEF Scrolls
<1>5. (SCREEN_HEIGHT + 1) * SCREEN_WIDTH = SCREEN_HEIGHT * SCREEN_WIDTH + SCREEN_WIDTH
  OBVIOUS
<1> QED BY <1>1, <1>2, <1>4, <1>5

(* A character that kmain prints before keyboard_init fills the next cell. *)
LEMMA EarlyLoss ==
  ASSUME IInv, LossInv, NEW ch \in {"a", Newline, Backspace, Tab, Return}, EarlyWrite(ch)
  PROVE  LossInv'
<1>1. /\ IsScreen(s) /\ s.row \in Nat /\ put \in Int /\ hits \in Nat /\ Allowed \in Nat
      /\ Position(s) \in Nat
  BY LossTypes
<1> DEFINE n == IF ch = "a" THEN 1 ELSE 0
           moved == ch \notin {"a", Newline} \/ Scrolls(s.col, s.row)
<1>2. /\ s' = screen_write(s, ch) /\ k' = k /\ hits' = hits /\ k.pc = "idle"
      /\ put' = IF moved \/ put < 0 THEN -1 ELSE put + n
  BY DEF EarlyWrite, Written
<1>3. Allowed' = Allowed
  BY <1>2, Zenon DEF Allowed
<1>4. CASE moved \/ put < 0
  <2>1. put' = -1
    BY <1>2, <1>4
  <2> QED BY <1>1, <1>2, <2>1, Uncounted
<1>5. CASE ~ moved /\ ~ (put < 0)
  <2>1. /\ put >= 0 /\ s.fb = [p \in Cells |-> s.fb[p]]
        /\ put <= Below(s.fb, Position(s)) + Allowed
    <3>1. put >= 0
      BY <1>1, <1>5
    <3> QED BY <1>2, <3>1, Zenon DEF LossInv, CellsFilled
  <2>2. Below(s.fb, Position(s)) \in Nat /\ Below(s'.fb, Position(s')) \in Nat
    BY BelowFinite
  <2>3. ~ Scrolls(s.col, s.row) /\ s.col \in 0 .. SCREEN_WIDTH - 1
    BY <1>2, <1>5 DEF IInv, ColInv, ColOK
  <2>4. CASE ch = "a"
    <3>1. PutAt(s, s', "a")
      BY <1>1, <1>2, <2>3, <2>4, CharPut
    <3>2. Position(s) + 1 <= ROWS * SCREEN_WIDTH
      <4>1. Position(s) = offset(s.col, s.row)
        BY DEF Position
      <4> QED BY ONLY <1>1, <2>3, <4>1, ShownCell
    <3>3. /\ s'.fb = [p \in Cells |-> s'.fb[p]]
          /\ \A p \in Cells : s'.fb[p] = IF p = Position(s) THEN "a" ELSE s.fb[p]
      BY <2>1, <3>1 DEF PutAt
    <3>4. /\ \A p \in Cells : s.fb[p] \in {"a", "k"} => s'.fb[p] \in {"a", "k"}
          /\ \A p \in Cells : Position(s) <= p /\ p < Position(s) + 1 => s'.fb[p] \in {"a", "k"}
      BY <1>1, <3>3, RowsAssumption DEF Cells
    <3>5. Below(s.fb, Position(s)) + 1 <= Below(s'.fb, Position(s) + 1)
      BY ONLY <1>1, <3>2, <3>4, BelowRun, 1 \in Nat \ {0}
    <3>6. Position(s') = Position(s) + 1 /\ put' = put + 1
      BY <1>2, <1>5, <2>4, <3>1 DEF PutAt
    <3>7. put' <= Below(s'.fb, Position(s')) + Allowed'
      BY <1>1, <1>3, <2>1, <2>2, <3>5, <3>6
    <3>8. put' \in Int /\ hits' \in Nat /\ k'.pc = "idle"
      BY <1>1, <1>2, <3>6
    <3> QED BY ONLY <3>3, <3>7, <3>8 DEF LossInv, CellsFilled
  <2>5. CASE ch = Newline
    <3>1. s'.fb = s.fb /\ s'.col = 0 /\ s'.row = s.row + 1
      BY <1>1, <1>2, <2>5, NewlinePut, NewlineWritten
    <3>2. Position(s') = s.row * SCREEN_WIDTH + SCREEN_WIDTH
      BY <1>1, <3>1 DEF Position, offset
    <3>3. Position(s) <= Position(s') /\ Position(s') \in Int
      BY <1>1, <2>3, <3>2 DEF Position, offset
    <3>4. Below(s.fb, Position(s)) <= Below(s'.fb, Position(s'))
      BY <1>1, <3>1, <3>3, BelowGrows
    <3>5. put' = put
      BY ONLY <1>1, <1>2, <1>5, <2>5 DEF Newline
    <3>6. put' <= Below(s'.fb, Position(s')) + Allowed'
      BY <1>1, <1>3, <2>1, <2>2, <3>4, <3>5
    <3> QED BY ONLY <1>1, <1>2, <2>1, <3>1, <3>5, <3>6, Zenon DEF LossInv, CellsFilled
  <2> QED BY ONLY <1>5, <2>4, <2>5
<1> QED BY <1>4, <1>5

(* kmain's own steps, which no key interrupts.                             *)
LEMMA StoreCellLoss == ASSUME IInv, LossInv, StoreCell PROVE LossInv'
<1>1. /\ IsScreen(s) /\ s.row \in Nat /\ put \in Int /\ hits \in Nat /\ Allowed \in Nat
      /\ Position(s) \in Nat /\ k \in Kmain
  BY LossTypes
<1> DEFINE o == offset(k.x, k.y)
<1>2. /\ k.pc = "args" /\ k.x # None /\ k.y # None /\ s' = [s EXCEPT !.fb[o] = "a"] /\ hits' = hits
      /\ put' = IF Scrolls(k.x, k.y) \/ put < 0 THEN -1 ELSE put + 1
  BY DEF StoreCell, Written, At
<1>3. Allowed' = Allowed
  BY <1>2 DEF Allowed
<1>4. CASE Scrolls(k.x, k.y) \/ put < 0
  <2>1. put' = -1
    BY <1>2, <1>4
  <2> QED BY <1>1, <1>2, <2>1, Uncounted
<1>5. CASE ~ Scrolls(k.x, k.y) /\ ~ (put < 0)
  <2>1. put >= 0 /\ s.fb = [p \in Cells |-> s.fb[p]]
    BY <1>1, <1>5 DEF LossInv, CellsFilled
  <2>2. k' = [Idle EXCEPT !.pc = "count"]
    BY <1>5 DEF StoreCell
  <2>3. k'.pc = "count" /\ k'.x = None /\ k'.y = None /\ put' = put + 1
    BY <1>1, <1>2, <1>5, <2>2 DEF Idle
  <2>4. s'.fb = [s.fb EXCEPT ![o] = "a"] /\ s'.col = s.col /\ s'.row = s.row
    BY <1>1, <1>2 DEF IsScreen
  <2>5. Position(s') = Position(s)
    BY <2>4 DEF Position
  <2>6. /\ s'.fb = [p \in Cells |-> s'.fb[p]]
        /\ \A p \in Cells : s'.fb[p] = IF p = o THEN "a" ELSE s.fb[p]
    BY <2>1, <2>4
  <2>7. \A p \in Cells : s.fb[p] \in {"a", "k"} => s'.fb[p] \in {"a", "k"}
    BY <2>6
  <2> DEFINE before == Below(s.fb, Position(s))
             after == Below(s'.fb, Position(s) + 1)
  <2>8. before \in Nat /\ after \in Nat
    BY BelowFinite
  <2>9. put' <= after + Allowed
    <3>1. CASE put + 1 <= before + Allowed
      <4>1. before <= after
        BY <1>1, <2>7, BelowGrows
      <4> HIDE DEF before, after
      <4> QED BY <1>1, <2>3, <2>8, <3>1, <4>1
    <3>2. CASE o = Position(s) /\ put <= before + Allowed
      <4>1. Position(s) + 1 <= ROWS * SCREEN_WIDTH
        BY ONLY <1>1, <1>5, <3>2, ShownCell
      <4>2. \A p \in Cells : Position(s) <= p /\ p < Position(s) + 1 => s'.fb[p] \in {"a", "k"}
        BY <1>1, <2>6, <3>2, RowsAssumption DEF Cells
      <4>3. before + 1 <= after
        BY ONLY <1>1, <2>7, <4>1, <4>2, BelowRun, 1 \in Nat \ {0}
      <4> HIDE DEF before, after
      <4> QED BY <1>1, <2>3, <2>8, <3>2, <4>3
    <3>3. k.x = s.col /\ k.y = s.row => o = Position(s)
      BY DEF Position
    <3> QED BY <1>2, <2>1, <3>1, <3>2, <3>3 DEF LossInv, CellsFilled
  <2>10. put' <= Below(s'.fb, Position(s') + 1) + Allowed'
    BY <1>3, <2>5, <2>9, Zenon
  <2>11. CellsFilled'
    BY <2>3, <2>6, <2>10, Zenon DEF CellsFilled
  <2> QED BY <1>1, <1>2, <2>3, <2>11 DEF LossInv
<1> QED BY <1>4, <1>5

LEMMA BeginNewlineLoss == ASSUME IInv, LossInv, BeginNewline PROVE LossInv'
<1>1. /\ IsScreen(s) /\ s.row \in Nat /\ put \in Int /\ hits \in Nat /\ Allowed \in Nat
      /\ Position(s) \in Nat /\ k \in Kmain
      /\ offset(0, s.row + 1) = s.row * SCREEN_WIDTH + SCREEN_WIDTH
      /\ offset(0, s.row + 1) \in Int
  BY LossTypes
<1>2. k.pc = "idle" /\ put' = put /\ hits' = hits
  BY DEF BeginNewline, At
<1>3. Allowed' = Allowed
  BY <1>2 DEF Allowed
<1>4. s.col \in 0 .. SCREEN_WIDTH - 1 /\ k.y = None
  BY <1>2 DEF IInv, Typed, ColInv, ColOK
<1>5. Position(s) <= offset(0, s.row + 1)
  BY <1>1, <1>4 DEF Position, offset
<1>6. Below(s.fb, Position(s)) <= Below(s.fb, offset(0, s.row + 1))
  BY <1>1, <1>5, BelowGrows
<1>7. Below(s.fb, Position(s)) \in Nat /\ Below(s.fb, offset(0, s.row + 1)) \in Nat
  BY BelowFinite, Zenon
<1>8. put >= 0 => put <= Below(s.fb, offset(0, s.row + 1)) + Allowed
  BY <1>1, <1>2, <1>6, <1>7 DEF LossInv, CellsFilled
<1>9. CASE s' = [s EXCEPT !.col = 0] /\ k' = [k EXCEPT !.pc = "down", !.x = 0]
  <2>1. s'.fb = s.fb /\ s'.row = s.row
    BY <1>1, <1>9 DEF IsScreen
  <2>2. k'.pc = "down" /\ k'.y = None
    BY <1>1, <1>4, <1>9 DEF Kmain
  <2> QED BY <1>1, <1>2, <1>3, <1>8, <2>1, <2>2, Zenon DEF LossInv, CellsFilled
<1>10. CASE k' = [k EXCEPT !.pc = "wrap", !.y = s.row] /\ UNCHANGED s
  <2>1. k'.pc = "wrap" /\ k'.y = s.row
    BY <1>1, <1>10, Zenon DEF Kmain
  <2> QED BY <1>1, <1>2, <1>3, <1>8, <1>10, <2>1 DEF LossInv, CellsFilled
<1> QED BY <1>9, <1>10 DEF BeginNewline

LEMMA BeginCharLoss == ASSUME IInv, LossInv, BeginChar PROVE LossInv'
<1>1. k \in Kmain /\ put \in Int /\ hits \in Nat
  BY LossTypes
<1>2. k.pc = "idle" /\ s' = s /\ put' = put /\ hits' = hits /\ k.x = None /\ k.y = None
  BY DEF BeginChar, At, IInv, Typed
<1>3. k'.pc = "args" /\ k'.x \in {None, s.col} /\ k'.y \in {None, s.row}
  <2>1. CASE k' = [k EXCEPT !.pc = "args", !.x = s.col]
    BY <1>1, <1>2, <2>1 DEF Kmain
  <2>2. CASE k' = [k EXCEPT !.pc = "args", !.y = s.row]
    BY <1>1, <1>2, <2>2 DEF Kmain
  <2> QED BY <2>1, <2>2 DEF BeginChar
<1>4. Allowed' = Allowed
  BY <1>2 DEF Allowed
<1> QED BY <1>1, <1>2, <1>3, <1>4 DEF LossInv, CellsFilled

(* A row that is read is one below which the cells are filled.             *)
LEMMA ReadLoss == ASSUME IInv, LossInv, ReadColumn \/ ReadRow PROVE LossInv'
<1>1. /\ IsScreen(s) /\ s.row \in Nat /\ s.col \in 0 .. SCREEN_WIDTH
      /\ put \in Int /\ hits \in Nat /\ Allowed \in Nat /\ Position(s) \in Nat /\ k \in Kmain
      /\ offset(0, s.row + 1) = s.row * SCREEN_WIDTH + SCREEN_WIDTH
      /\ offset(0, s.row + 1) \in Int
  BY LossTypes
<1>2. s' = s /\ put' = put /\ hits' = hits
  BY DEF ReadColumn, ReadRow
<1>3. Allowed' = Allowed
  BY <1>2 DEF Allowed
<1>4. CASE ReadColumn
  <2>1. k' = [k EXCEPT !.x = s.col]
    BY <1>4 DEF ReadColumn
  <2>2. k'.pc = k.pc /\ k'.x = s.col /\ k'.y = k.y
    BY <1>1, <2>1 DEF Kmain
  <2> QED BY <1>1, <1>2, <1>3, <2>2, Zenon DEF LossInv, CellsFilled
<1>5. CASE ReadRow
  <2>1. k' = [k EXCEPT !.y = s.row]
    BY <1>5 DEF ReadRow
  <2>2. k'.pc = k.pc /\ k'.x = k.x /\ k'.y = s.row
    BY <1>1, <2>1 DEF Kmain
  <2> DEFINE at   == Below(s.fb, Position(s))
             next == Below(s.fb, Position(s) + 1)
             down == Below(s.fb, offset(0, s.row + 1))
  <2>3. at \in Nat /\ next \in Nat /\ down \in Nat
    BY BelowFinite
  <2>4. at <= down
    <3>1. Position(s) <= offset(0, s.row + 1)
      BY <1>1 DEF Position, offset
    <3> QED BY <1>1, <3>1, BelowGrows
  <2>5. k.pc = "count" => next <= down
    <3> SUFFICES ASSUME k.pc = "count" PROVE next <= down
      OBVIOUS
    <3>1. s.col # SCREEN_WIDTH
      BY DEF IInv, ColInv, ColOK
    <3>2. Position(s) + 1 <= offset(0, s.row + 1)
      BY <1>1, <3>1 DEF Position, offset
    <3> QED BY <1>1, <3>2, BelowGrows
  <2>6. put >= 0 => /\ k.pc = "test" => put <= at + Allowed
                    /\ k.pc = "count" => put <= next + Allowed \/ put <= at + Allowed
                    /\ k.pc \in {"wrap", "down"} => put <= down + Allowed
    BY DEF LossInv, CellsFilled
  <2> HIDE DEF at, next, down
  <2>7. put >= 0 /\ k.pc \in {"count", "test", "wrap", "down"} => put <= down + Allowed
    BY <1>1, <2>3, <2>4, <2>5, <2>6
  <2> QED BY <1>1, <1>2, <1>3, <2>2, <2>7, Zenon DEF LossInv, CellsFilled, down
<1> QED BY <1>4, <1>5

(* Nothing is counted any more once the screen scrolls.                    *)
LEMMA ScrollLoss == ASSUME IInv, LossInv, ScrollRow \/ ScrollEnd \/ WriteRowUp PROVE LossInv'
<1>1. k.pc \in {"scroll", "rowup"} /\ put' = put /\ hits' = hits
  BY DEF ScrollRow, ScrollEnd, WriteRowUp, At
<1>2. put \in Int /\ hits \in Nat /\ ~ (put >= 0)
  BY <1>1 DEF LossInv, CellsFilled
<1> QED BY <1>1, <1>2, Uncounted

LEMMA WriteColumnLoss == ASSUME IInv, LossInv, WriteColumn PROVE LossInv'
<1>1. /\ IsScreen(s) /\ s.row \in Nat /\ put \in Int /\ hits \in Nat /\ Allowed \in Nat
      /\ Position(s) \in Nat /\ k \in Kmain /\ k.x \in -1 .. SCREEN_WIDTH
      /\ s.col \in 0 .. SCREEN_WIDTH
  BY LossTypes, Types
<1>2. /\ k.pc = "count" /\ k.x # None /\ s' = [s EXCEPT !.col = k.x + 1]
      /\ k' = [k EXCEPT !.pc = "test", !.x = @ + 1] /\ put' = put /\ hits' = hits
  BY DEF WriteColumn, At
<1>3. s'.fb = s.fb /\ s'.row = s.row /\ s'.col = k.x + 1 /\ Allowed' = Allowed
  BY <1>1, <1>2 DEF IsScreen, Allowed
<1>4. k'.pc = "test" /\ k'.y = k.y
  BY <1>1, <1>2 DEF Kmain
<1>5. k.x \in Nat /\ s.col \in {k.x, 0}
  BY <1>1, <1>2 DEF IInv, ColInv, ColOK, Held, None
<1>6. /\ Position(s') \in Int /\ Position(s) <= Position(s')
      /\ s.col = k.x => Position(s') = Position(s) + 1
  BY <1>1, <1>3, <1>5 DEF Position, offset
<1>7. Below(s.fb, Position(s)) <= Below(s.fb, Position(s'))
  BY ONLY <1>1, <1>6, BelowGrows
<1>8. Below(s.fb, Position(s)) \in Nat /\ Below(s.fb, Position(s')) \in Nat
  BY BelowFinite
<1>9. put >= 0 => put <= Below(s.fb, Position(s')) + Allowed
  <2> SUFFICES ASSUME put >= 0 PROVE put <= Below(s.fb, Position(s')) + Allowed
    OBVIOUS
  <2>1. CASE s.col = k.x /\ put <= Below(s.fb, Position(s) + 1) + Allowed
    BY <1>6, <2>1
  <2>2. CASE put <= Below(s.fb, Position(s)) + Allowed
    BY <1>1, <1>7, <1>8, <2>2
  <2> QED BY <1>2, <2>1, <2>2 DEF LossInv, CellsFilled
<1> QED BY <1>1, <1>2, <1>3, <1>4, <1>9 DEF LossInv, CellsFilled

LEMMA TestColumnLoss == ASSUME IInv, LossInv, TestColumn PROVE LossInv'
<1>1. /\ IsScreen(s) /\ s.row \in Nat /\ s.col \in 0 .. SCREEN_WIDTH
      /\ put \in Int /\ hits \in Nat /\ Allowed \in Nat /\ Position(s) \in Nat /\ k \in Kmain
      /\ offset(0, s.row + 1) = s.row * SCREEN_WIDTH + SCREEN_WIDTH
      /\ offset(0, s.row + 1) \in Int
  BY LossTypes
<1>2. /\ k.pc = "test" /\ s' = s /\ put' = put /\ hits' = hits
      /\ k' = [k EXCEPT !.pc = IF k.x = SCREEN_WIDTH THEN "wrap" ELSE "cursor"]
  BY DEF TestColumn, At, Goto
<1>3. Allowed' = Allowed
  BY <1>2 DEF Allowed
<1>4. k'.pc \in {"wrap", "cursor"} /\ k'.y = k.y
  BY <1>1, <1>2 DEF Kmain
<1>5. Position(s) <= offset(0, s.row + 1)
  BY <1>1 DEF Position, offset
<1>6. Below(s.fb, Position(s)) <= Below(s.fb, offset(0, s.row + 1))
  BY <1>1, <1>5, BelowGrows
<1>7. Below(s.fb, Position(s)) \in Nat /\ Below(s.fb, offset(0, s.row + 1)) \in Nat
  BY BelowFinite
<1>8. put >= 0 => /\ put <= Below(s.fb, Position(s)) + Allowed
                  /\ k.y # None => put <= Below(s.fb, offset(0, k.y + 1)) + Allowed
  BY <1>2 DEF LossInv, CellsFilled
<1>9. put >= 0 => put <= Below(s.fb, offset(0, s.row + 1)) + Allowed
  BY <1>1, <1>6, <1>7, <1>8
<1> QED BY <1>1, <1>2, <1>3, <1>4, <1>8, <1>9, Zenon DEF LossInv, CellsFilled

LEMMA ZeroColumnLoss == ASSUME IInv, LossInv, ZeroColumn PROVE LossInv'
<1>1. IsScreen(s) /\ s.row \in Nat /\ put \in Int /\ hits \in Nat /\ k \in Kmain
  BY LossTypes
<1>2. /\ k.pc = "wrap" /\ s' = [s EXCEPT !.col = 0] /\ k' = [k EXCEPT !.pc = "down", !.x = 0]
      /\ put' = put /\ hits' = hits
  BY DEF ZeroColumn, At
<1>3. s'.fb = s.fb /\ s'.row = s.row /\ Allowed' = Allowed
  BY <1>1, <1>2 DEF IsScreen, Allowed
<1>4. k'.pc = "down" /\ k'.y = k.y
  BY <1>1, <1>2 DEF Kmain
<1> QED BY <1>1, <1>2, <1>3, <1>4 DEF LossInv, CellsFilled

LEMMA WriteRowDownLoss == ASSUME IInv, LossInv, WriteRowDown PROVE LossInv'
<1>1. IsScreen(s) /\ s.row \in Nat /\ put \in Int /\ hits \in Nat /\ k \in Kmain
  BY LossTypes
<1>2. /\ k.pc = "down" /\ k.y # None /\ s' = [s EXCEPT !.row = k.y + 1]
      /\ k' = [k EXCEPT !.pc = "cursor", !.y = @ + 1] /\ put' = put /\ hits' = hits
  BY DEF WriteRowDown, At
<1>3. s.col = 0
  BY <1>2 DEF IInv, ColInv, ColOK
<1>4. s'.fb = s.fb /\ s'.row = k.y + 1 /\ s'.col = 0 /\ Allowed' = Allowed
  BY <1>1, <1>2, <1>3 DEF IsScreen, Allowed
<1>5. k'.pc = "cursor"
  BY <1>1, <1>2 DEF Kmain
<1>6. Position(s') = offset(0, k.y + 1)
  BY <1>4 DEF Position
<1> QED BY <1>1, <1>2, <1>4, <1>5, <1>6 DEF LossInv, CellsFilled

(* The cursor plays no part.                                               *)
LEMMA CursorLoss == ASSUME IInv, LossInv, CallMoveCursor \/ MoveCursor PROVE LossInv'
<1>1. k \in Kmain /\ put \in Int /\ hits \in Nat
  BY LossTypes
<1>2. k.pc \in {"cursor", "out"} /\ s' = s /\ put' = put /\ hits' = hits
  BY DEF CallMoveCursor, MoveCursor, At
<1>3. k'.pc \in {"out", "idle"}
  <2>1. CASE CallMoveCursor
    <3>1. k' = [Idle EXCEPT !.pc = "out", !.i = 1, !.pos = offset(k.x, k.y)]
      BY <2>1 DEF CallMoveCursor
    <3> QED BY <3>1 DEF Idle
  <2>2. CASE MoveCursor
    <3>1. k.pc = "out" /\ k' = IF k.i < 4 THEN [k EXCEPT !.i = @ + 1] ELSE Idle
      BY <2>2 DEF MoveCursor, At
    <3> QED BY <1>1, <3>1 DEF Kmain, Idle
  <2> QED BY <2>1, <2>2
<1>4. Allowed' = Allowed
  BY <1>2 DEF Allowed
<1> QED BY <1>1, <1>2, <1>3, <1>4, Zenon DEF LossInv, CellsFilled

LEMMA LossInductive == IInv /\ LossInv /\ [Next]_vars => LossInv'
<1> SUFFICES ASSUME IInv, LossInv, [Next]_vars PROVE LossInv'
  BY Zenon
<1>1. CASE keyboard_init \/ UNCHANGED vars
  <2>1. UNCHANGED << s, k, put, hits >>
    BY <1>1 DEF keyboard_init, vars
  <2> QED BY <2>1, Zenon DEF LossInv, CellsFilled, Allowed
<1>2. CASE Write
  BY <1>2, BeginNewlineLoss, BeginCharLoss, ReadLoss, StoreCellLoss, ScrollLoss,
     WriteColumnLoss, TestColumnLoss, ZeroColumnLoss, WriteRowDownLoss, CursorLoss DEF Write
<1> QED BY <1>1, <1>2, EarlyLoss, KeyLoss DEF Next, Asleep

(* However the keys fall, also between the reads of a position and the     *)
(* writes that use it, the characters printed are on the screen until it   *)
(* scrolls, but for a report's worth for each key that interrupted a       *)
(* screen_write.                                                           *)
THEOREM LossStaysBounded == Spec => []LossBounded
<1>1. ASSUME IInv, LossInv PROVE LossBounded
  <2> SUFFICES ASSUME put >= 0 PROVE put <= Cardinality(Filled) + Allowed
    BY DEF LossBounded, Allowed
  <2>1. put \in Int /\ Allowed \in Nat /\ k \in Kmain
    BY <1>1, LossTypes
  <2>2. PICK q : put <= Below(s.fb, q) + Allowed
    <3>1. Below(s.fb, Position(s)) \in Nat
      BY BelowFinite
    <3> QED BY <1>1, <2>1, <3>1 DEF LossInv, CellsFilled, Kmain, Pcs
  <2>3. FilledBelow(s.fb, q) \in SUBSET Filled
    BY DEF FilledBelow, Filled
  <2>4. IsFiniteSet(Filled)
    <3>1. IsFiniteSet(Cells)
      BY FS_Interval, RowsAssumption DEF Cells
    <3> QED BY <3>1, FS_Subset DEF Filled
  <2>5. Below(s.fb, q) <= Cardinality(Filled) /\ Cardinality(Filled) \in Nat
    BY <2>3, <2>4, FS_Subset, FS_CardinalityType, Zenon DEF Below
  <2>6. Below(s.fb, q) \in Nat
    BY BelowFinite
  <2> QED BY <2>1, <2>2, <2>5, <2>6
<1> QED BY <1>1, Invariant, InitLoss, LossInductive, PTL DEF Spec
=============================================================================
