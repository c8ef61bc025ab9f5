------------------------- MODULE PagingTree_proofs -------------------------
(***************************************************************************)
(* Lemmas about the page tables of Paging, for every size of the tables:   *)
(* a page number and its indices, the tree that the tables form, the walks *)
(* of the code and of the processor, which agree on such a tree, what a    *)
(* page is mapped to, and what a new entry of a P1 table changes.          *)
(***************************************************************************)
EXTENDS Paging, TLAPS

(* The indices of a table, and the page with given indices.                *)
Slots == 0 .. PAGE_ENTRIES - 1
Last == PAGE_ENTRIES - 1

Page(a, b, c, d) ==
  ((a * PAGE_ENTRIES + b) * PAGE_ENTRIES + c) * PAGE_ENTRIES + d

Square == PAGE_ENTRIES * PAGE_ENTRIES
Cube == PAGE_ENTRIES * Square

EntryType == [present : BOOLEAN, writable : BOOLEAN, huge : BOOLEAN, frame : Nat]

(* lev tells which frames are tables, and of which level: 3 is the P4      *)
(* table, 0 a P1 table and -1 no table.                                    *)
Levels == [Memory -> -1 .. 3]

(* Entry i of table f leads to a table of the next level.                  *)
Edge(m, lev, f, i) ==
  lev[f] \in 1 .. 3 /\ f # p2_table /\ (f = p4_table => i # Last) /\ m[f][i].present

(* The entries that set_up_page_tables fills are as it left them.          *)
Rooted(m, lev) ==
  /\ lev[p4_table] = 3 /\ lev[p3_table] = 2 /\ lev[p2_table] = 1
  /\ m[p4_table][Last] = Entry(p4_table, FALSE)
  /\ m[p4_table][0] = Entry(p3_table, FALSE)
  /\ m[p3_table][0] = Entry(p2_table, FALSE)
  /\ \A i \in Slots : m[p2_table][i] = Entry(i * PAGE_ENTRIES, TRUE)

Descends(m, lev) ==
  \A f \in Memory, i \in Slots :
    Edge(m, lev, f, i) => m[f][i].frame \in Memory /\ lev[m[f][i].frame] = lev[f] - 1

(* No table is pointed to twice.                                           *)
Unshared(m, lev) ==
  \A f, g \in Memory, i, j \in Slots :
    Edge(m, lev, f, i) /\ Edge(m, lev, g, j) /\ m[f][i].frame = m[g][j].frame => f = g /\ i = j

(* Only p2_table has huge pages, and a P1 table points to frame 0 alone.   *)
Plain(m, lev) ==
  \A f \in Memory, i \in Slots :
    /\ lev[f] \in 1 .. 3 /\ f # p2_table => ~ m[f][i].huge
    /\ lev[f] = 0 => m[f][i].frame = 0

(* The frames that unmap clears, and those not handed out yet, are no      *)
(* tables; the latter are empty.                                           *)
Spare(m, lev, n) ==
  /\ \A f \in Memory : f < 8 => lev[f] = -1
  /\ \A k \in 1 .. MAX_CHUNK :
       k >= n => lev[AllocatedAddress(k)] = -1 /\ m[AllocatedAddress(k)] = EmptyTable

(* The tables form a tree below the P4 table, apart from its last entry.   *)
Tree(m, lev, n) ==
  /\ m \in [Memory -> [Slots -> EntryType]]
  /\ lev \in Levels
  /\ Rooted(m, lev) /\ Descends(m, lev) /\ Unshared(m, lev)
  /\ Plain(m, lev) /\ Spare(m, lev, n)

-----------------------------------------------------------------------------
(* Division with remainder.                                                *)
LEMMA DivMod ==
  ASSUME NEW n \in Nat \ {0}, NEW q \in Nat, NEW r \in 0 .. n - 1
  PROVE  (q * n + r) \div n = q /\ (q * n + r) % n = r
<1> DEFINE x == q * n + r
           k == x \div n
           s == x % n
<1>1. q * n \in Nat /\ x \in Nat
  OBVIOUS
<1>2. k \in Nat /\ s \in 0 .. n - 1 /\ x = k * n + s
  BY <1>1
<1>3. k * n + s = q * n + r
  BY <1>2
<1> HIDE DEF k, s
<1>4. ~ k > q
  <2> SUFFICES ASSUME k > q PROVE FALSE
    OBVIOUS
  <2>1. PICK e \in Nat : k = q + 1 + e
    <3>1. k - q - 1 \in Nat /\ k = q + 1 + (k - q - 1)
      BY <1>2
    <3> QED BY <3>1
  <2>2. k * n = q * n + n + e * n /\ e * n \in Nat
    BY <2>1
  <2> QED BY <1>1, <1>2, <1>3, <2>2
<1>5. ~ q > k
  <2> SUFFICES ASSUME q > k PROVE FALSE
    OBVIOUS
  <2>1. PICK e \in Nat : q = k + 1 + e
    <3>1. q - k - 1 \in Nat /\ q = k + 1 + (q - k - 1)
      BY <1>2
    <3> QED BY <3>1
  <2>2. q * n = k * n + n + e * n /\ e * n \in Nat /\ k * n \in Nat
    BY <1>2, <2>1
  <2> QED BY <1>2, <1>3, <2>2
<1>6. k = q
  BY <1>2, <1>4, <1>5
<1>7. s = r
  BY <1>1, <1>2, <1>3, <1>6
<1> QED BY <1>6, <1>7 DEF k, s

(* The powers that the indices are taken with, as products.                *)
LEMMA Powers ==
  /\ PAGE_ENTRIES \in Nat \ {0} /\ PAGE_ENTRIES >= 3
  /\ PAGE_ENTRIES^0 = 1 /\ PAGE_ENTRIES^1 = PAGE_ENTRIES
  /\ PAGE_ENTRIES^2 = PAGE_ENTRIES * PAGE_ENTRIES
  /\ PAGE_ENTRIES^3 = PAGE_ENTRIES * (PAGE_ENTRIES * PAGE_ENTRIES)
  /\ PAGE_ENTRIES^4 = PAGE_ENTRIES * (PAGE_ENTRIES * (PAGE_ENTRIES * PAGE_ENTRIES))
<1>1. PAGE_ENTRIES \in Nat \ {0} /\ PAGE_ENTRIES >= 3
  BY SizeAssumption
<1>2. /\ PAGE_ENTRIES^(0 + 1) = PAGE_ENTRIES * PAGE_ENTRIES^0
      /\ PAGE_ENTRIES^(1 + 1) = PAGE_ENTRIES * PAGE_ENTRIES^1
      /\ PAGE_ENTRIES^(2 + 1) = PAGE_ENTRIES * PAGE_ENTRIES^2
      /\ PAGE_ENTRIES^(3 + 1) = PAGE_ENTRIES * PAGE_ENTRIES^3
      /\ PAGE_ENTRIES^0 = 1
  <2>1. 0 \in 0 .. 3 /\ 1 \in 0 .. 3 /\ 2 \in 0 .. 3 /\ 3 \in 0 .. 3
    OBVIOUS
  <2> QED BY <2>1, PowerAssumption, Zenon
<1>3. 0 + 1 = 1 /\ 1 + 1 = 2 /\ 2 + 1 = 3 /\ 3 + 1 = 4
  OBVIOUS
<1>4. /\ PAGE_ENTRIES^1 = PAGE_ENTRIES * PAGE_ENTRIES^0
      /\ PAGE_ENTRIES^2 = PAGE_ENTRIES * PAGE_ENTRIES^1
      /\ PAGE_ENTRIES^3 = PAGE_ENTRIES * PAGE_ENTRIES^2
      /\ PAGE_ENTRIES^4 = PAGE_ENTRIES * PAGE_ENTRIES^3
      /\ PAGE_ENTRIES^0 = 1
  BY <1>2, <1>3, Zenon
<1>5. PAGE_ENTRIES * 1 = PAGE_ENTRIES
  BY <1>1
<1> QED BY <1>1, <1>4, <1>5, Zenon

(* Below n rows of p entries each.                                         *)
LEMMA RowBound ==
  ASSUME NEW n \in Nat \ {0}, NEW p \in Nat \ {0}, NEW q \in 0 .. n - 1, NEW r \in 0 .. p - 1
  PROVE  q * p + r \in 0 .. n * p - 1
<1>1. PICK e \in Nat : n = q + 1 + e
  <2>1. n - q - 1 \in Nat /\ n = q + 1 + (n - q - 1)
    OBVIOUS
  <2> QED BY <2>1
<1>2. n * p = q * p + p + e * p /\ e * p \in Nat /\ q * p \in Nat
  BY <1>1
<1> QED BY <1>2

(* The same page, seen from each level.                                    *)
PageForm(a, b, c, d) ==
  /\ Square \in Nat \ {0} /\ Cube \in Nat \ {0} /\ PAGE_ENTRIES * Cube \in Nat \ {0}
  /\ c * PAGE_ENTRIES + d \in 0 .. Square - 1
  /\ b * Square + (c * PAGE_ENTRIES + d) \in 0 .. Cube - 1
  /\ Page(a, b, c, d) \in 0 .. PAGE_ENTRIES * Cube - 1
  /\ Page(a, b, c, d) = a * Cube + (b * Square + (c * PAGE_ENTRIES + d))
  /\ Page(a, b, c, d) = (a * PAGE_ENTRIES + b) * Square + (c * PAGE_ENTRIES + d)
  /\ Page(a, b, c, d) = ((a * PAGE_ENTRIES + b) * PAGE_ENTRIES + c) * PAGE_ENTRIES + d

LEMMA PageForms ==
  ASSUME NEW a \in Slots, NEW b \in Slots, NEW c \in Slots, NEW d \in Slots
  PROVE  PageForm(a, b, c, d)
<1> DEFINE E == PAGE_ENTRIES
           E2 == E * E
           E3 == E * E2
<1>1. E \in Nat \ {0} /\ {a, b, c, d} \subseteq 0 .. E - 1
  BY SizeAssumption DEF Slots
<1> HIDE DEF E
<1>2. E2 \in Nat \ {0}
  BY <1>1
<1>3. E3 \in Nat \ {0}
  <2> HIDE DEF E2
  <2> QED BY <1>1, <1>2
<1>4. E * E3 \in Nat \ {0}
  <2> HIDE DEF E3
  <2> QED BY <1>1, <1>3
<1>5. c * E + d \in 0 .. E2 - 1
  BY <1>1, RowBound
<1>6. b * E2 + (c * E + d) \in 0 .. E3 - 1
  <2> DEFINE r == c * E + d
  <2> HIDE DEF E2, r
  <2>1. r \in 0 .. E2 - 1
    BY <1>5 DEF r
  <2>2. b * E2 + r \in 0 .. E * E2 - 1
    BY <1>1, <1>2, <2>1, RowBound
  <2> QED BY <2>2 DEF r
<1>7. a * E3 + (b * E2 + (c * E + d)) \in 0 .. E * E3 - 1
  <2> DEFINE r == b * E2 + (c * E + d)
  <2>1. r \in 0 .. E3 - 1
    BY <1>6
  <2> HIDE DEF E3, r
  <2>2. a * E3 + r \in 0 .. E * E3 - 1
    BY <1>1, <1>3, <2>1, RowBound, Zenon
  <2> QED BY <2>2 DEF r
<1>8. ((a * E + b) * E + c) * E + d = (a * E + b) * E2 + (c * E + d)
  BY <1>1
<1>9. (a * E + b) * E2 = a * E3 + b * E2
  <2>1. (a * E + b) * E2 = (a * E) * E2 + b * E2
    <3> DEFINE x == a * E
    <3>1. x \in Nat
      BY <1>1
    <3> HIDE DEF x, E2
    <3> QED BY <1>1, <1>2, <3>1
  <2>2. (a * E) * E2 = a * E3
    BY <1>1
  <2> QED BY <2>1, <2>2
<1>10. (a * E + b) * E2 + (c * E + d) = a * E3 + (b * E2 + (c * E + d))
  <2>1. a * E3 \in Nat /\ b * E2 \in Nat /\ c * E + d \in Nat
    <3>1. c * E + d \in Nat
      BY <1>1
    <3>2. b * E2 \in Nat
      <4> HIDE DEF E2
      <4> QED BY <1>1, <1>2
    <3>3. a * E3 \in Nat
      <4> HIDE DEF E3
      <4> QED BY <1>1, <1>3
    <3> QED BY <3>1, <3>2, <3>3
  <2> DEFINE x == a * E3
             y == b * E2
             z == c * E + d
  <2>2. (a * E + b) * E2 = x + y
    BY <1>9
  <2>3. x \in Nat /\ y \in Nat /\ z \in Nat
    BY <2>1
  <2> HIDE DEF x, y, z
  <2>4. (a * E + b) * E2 + z = x + (y + z)
    BY <2>2, <2>3
  <2> QED BY <2>4 DEF x, y, z
<1>11. Page(a, b, c, d) = ((a * E + b) * E + c) * E + d
  BY DEF Page, E
<1> QED BY ONLY <1>2, <1>3, <1>4, <1>5, <1>6, <1>7, <1>8, <1>10, <1>11, Zenon DEF E, Square, Cube, PageForm

(* Index gives back the indices that a page is made of.                    *)
LEMMA PageIndex ==
  ASSUME NEW a \in Slots, NEW b \in Slots, NEW c \in Slots, NEW d \in Slots
  PROVE  /\ Page(a, b, c, d) \in Nat
         /\ Index(Page(a, b, c, d), 3) = a /\ Index(Page(a, b, c, d), 2) = b
         /\ Index(Page(a, b, c, d), 1) = c /\ Index(Page(a, b, c, d), 0) = d
<1> DEFINE E == PAGE_ENTRIES
           E2 == Square
           E3 == Cube
           p == Page(a, b, c, d)
           s == c * E + d
           r == b * E2 + s
           x == a * E + b
           y == x * E + c
<1>1. /\ E \in Nat \ {0} /\ {a, b, c, d} \subseteq 0 .. E - 1
      /\ E^0 = 1 /\ E^1 = E /\ E^2 = E2 /\ E^3 = E3
  BY Powers DEF Slots, Square, Cube
<1>2. /\ E2 \in Nat \ {0} /\ E3 \in Nat \ {0}
      /\ s \in 0 .. E2 - 1 /\ r \in 0 .. E3 - 1 /\ p = a * E3 + r
      /\ p = x * E2 + s /\ p = y * E + d
  <2>1. PageForm(a, b, c, d)
    BY PageForms
  <2> QED BY <2>1, Zenon DEF PageForm
<1>3. x \in Nat /\ y \in Nat /\ x % E = b /\ y % E = c
  <2>1. x \in Nat /\ x % E = b
    <3>1. E \in Nat \ {0} /\ a \in Nat /\ b \in 0 .. E - 1
      BY <1>1
    <3>2. (a * E + b) % E = b
      BY ONLY <3>1, DivMod, Zenon
    <3> QED BY <3>1, <3>2
  <2> HIDE DEF x
  <2>2. E \in Nat \ {0} /\ c \in 0 .. E - 1
    BY <1>1
  <2>3. (x * E + c) % E = c
    BY ONLY <2>1, <2>2, DivMod
  <2> QED BY <2>1, <2>2, <2>3
<1> HIDE DEF E, E2, E3, p, s, r, x, y
<1>4. p \div E3 = a
  BY <1>1, <1>2, DivMod
<1>5. p \div E2 = x
  BY <1>2, <1>3, DivMod, Zenon
<1>6. p \div E = y /\ p % E = d /\ p \in Nat
  <2>1. d \in 0 .. E - 1 /\ y \in Nat /\ E \in Nat \ {0}
    BY <1>1, <1>3
  <2>2. (y * E + d) \div E = y /\ (y * E + d) % E = d
    BY ONLY <2>1, DivMod
  <2>3. y * E + d \in Nat
    BY <2>1
  <2> QED BY <1>2, <2>2, <2>3
<1>7. a % E = a /\ p \div 1 = p
  BY <1>1, <1>6
<1>8. /\ (p \div E^3) % E = a /\ (p \div E^2) % E = b
      /\ (p \div E^1) % E = c /\ (p \div E^0) % E = d
  BY <1>1, <1>3, <1>4, <1>5, <1>6, <1>7, Zenon
<1> QED BY <1>6, <1>8 DEF Index, E, p

(* What next_table_address computes: the indices move up by one level.     *)
LEMMA PageShift ==
  ASSUME NEW a \in Slots, NEW b \in Slots, NEW c \in Slots, NEW d \in Slots, NEW i \in Slots
  PROVE  ((Page(a, b, c, d) * PAGE_ENTRIES) + i) % PAGE_ENTRIES^4 = Page(b, c, d, i)
<1> DEFINE E == PAGE_ENTRIES
           E2 == Square
           E3 == Cube
           E4 == E * E3
           t == b * E2 + (c * E + d)
           q == Page(b, c, d, i)
<1>1. E \in Nat \ {0} /\ {a, b, c, d, i} \subseteq 0 .. E - 1 /\ E^4 = E4
  BY Powers DEF Slots, Square, Cube
<1>2. E3 \in Nat \ {0} /\ t \in 0 .. E3 - 1 /\ Page(a, b, c, d) = a * E3 + t
  <2>1. PageForm(a, b, c, d)
    BY PageForms
  <2> QED BY <2>1, Zenon DEF PageForm
<1>3. q = ((b * E + c) * E + d) * E + i /\ E4 \in Nat \ {0} /\ q \in 0 .. E4 - 1
  <2>1. PageForm(b, c, d, i)
    BY PageForms
  <2> QED BY <2>1, Zenon DEF PageForm
<1>4. t = (b * E + c) * E + d
  <2>1. (b * E + c) * E = b * E2 + c * E
    BY <1>1 DEF Square
  <2>2. b * E2 \in Nat /\ c * E \in Nat
    <3>1. E2 \in Nat
      BY <1>1 DEF Square
    <3> HIDE DEF E2
    <3> QED BY <1>1, <3>1
  <2> DEFINE x == b * E2
             y == c * E
  <2>3. x \in Nat /\ y \in Nat /\ d \in Nat /\ (b * E + c) * E = x + y
    BY <1>1, <2>1, <2>2
  <2> HIDE DEF x, y
  <2>4. (b * E + c) * E + d = x + (y + d)
    BY <2>3
  <2> QED BY <2>4 DEF x, y
<1>5. q = t * E + i
  BY <1>3, <1>4, Zenon
<1>6. (Page(a, b, c, d) * E) + i = a * E4 + q
  <2> HIDE DEF t, q, E3
  <2>1. (a * E3 + t) * E = (a * E3) * E + t * E
    <3> DEFINE x == a * E3
    <3>1. x \in Nat /\ t \in Nat
      BY <1>1, <1>2
    <3>2. E \in Nat
      BY <1>1
    <3> HIDE DEF x, E
    <3>3. (x + t) * E = x * E + t * E
      BY <3>1, <3>2
    <3> QED BY <3>3 DEF x
  <2>2. (a * E3) * E = a * (E * E3) /\ (a * E3) \in Nat
    BY <1>1, <1>2
  <2> DEFINE z == a * (E * E3)
             w == t * E
  <2>3. z \in Nat /\ w \in Nat
    <3>1. E * E3 \in Nat
      BY <1>1, <1>2
    <3>2. a * (E * E3) \in Nat
      <4> DEFINE v == E * E3
      <4> HIDE DEF v
      <4>1. v \in Nat
        BY <3>1 DEF v
      <4>2. a * v \in Nat
        BY <1>1, <4>1
      <4> QED BY <4>2 DEF v
    <3> QED BY <1>1, <1>2, <3>2
  <2>4. (Page(a, b, c, d) * E) = z + w /\ q = w + i
    BY <1>2, <1>5, <2>1, <2>2
  <2> HIDE DEF z, w
  <2>5. (Page(a, b, c, d) * E) + i = z + q
    BY <1>1, <2>3, <2>4
  <2> QED BY <2>5 DEF z
<1> HIDE DEF E, E4, q
<1>7. (a * E4 + q) % E4 = q
  BY <1>1, <1>3, DivMod
<1> QED BY <1>1, <1>6, <1>7 DEF E, q

(* P4_TABLE has the last index at every level, and is not page 0.          *)
LEMMA TopPage == P4_TABLE = Page(Last, Last, Last, Last)
<1> DEFINE E == PAGE_ENTRIES
           E2 == E * E
           E3 == E * E2
<1>1. E \in Nat \ {0} /\ E^4 = E * E3 /\ E2 \in Nat
  BY Powers
<1>2. Page(Last, Last, Last, Last) = ((Last * E + Last) * E + Last) * E + Last
  BY DEF Page
<1>3. Last * E + Last = E2 - 1
  BY <1>1 DEF Last
<1>4. (E2 - 1) * E = E3 - E /\ E3 \in Nat
  <2> HIDE DEF E2
  <2> QED BY <1>1
<1>5. (Last * E + Last) * E + Last = E3 - 1
  <2> HIDE DEF E3
  <2> QED BY <1>1, <1>3, <1>4 DEF Last
<1>6. (E3 - 1) * E = E * E3 - E /\ E * E3 \in Nat
  <2> HIDE DEF E3
  <2> QED BY <1>1, <1>4
<1>7. ((Last * E + Last) * E + Last) * E + Last = E * E3 - 1
  <2> DEFINE z == E * E3
  <2>1. ((Last * E + Last) * E + Last) * E = z - E /\ z \in Nat
    BY <1>5, <1>6
  <2> HIDE DEF z
  <2>2. ((Last * E + Last) * E + Last) * E + Last = z - 1
    BY <1>1, <2>1 DEF Last
  <2> QED BY <2>2 DEF z
<1> QED BY <1>1, <1>2, <1>7 DEF P4_TABLE

(* Pages that begin with the last index are not page 0.                    *)
LEMMA PointerNotNull ==
  ASSUME NEW b \in Slots, NEW c \in Slots, NEW d \in Slots
  PROVE  Page(Last, b, c, d) # 0
<1>1. Last \in Slots /\ Last # 0 /\ 0 \in Slots
  BY SizeAssumption DEF Slots, Last
<1>2. Index(Page(0, 0, 0, 0), 3) = 0 /\ Index(Page(Last, b, c, d), 3) = Last
  BY <1>1, PageIndex
<1>3. Page(0, 0, 0, 0) = 0
  BY SizeAssumption DEF Page
<1> QED BY <1>1, <1>2, <1>3

(* Every page that a frame_t numbers has four indices, the first of which  *)
(* is not that of the recursive entry.                                     *)
LEMMA PageSplit ==
  ASSUME NEW page \in 0 .. FRAME_T - 1
  PROVE  \E a, b, c, d \in Slots : a # Last /\ page = Page(a, b, c, d)
<1> DEFINE E == PAGE_ENTRIES
           E2 == E * E
           E3 == E * E2
<1>1. E \in Nat \ {0} /\ E >= 3 /\ E^3 = E3 /\ E2 \in Nat
  BY Powers
<1>2. FRAME_T \in Nat /\ FRAME_T <= (E - 1) * E3 /\ page \in Nat /\ page < FRAME_T
  BY <1>1, SizeAssumption
<1> DEFINE d == page % E
           y == page \div E
           c == y % E
           x == y \div E
           b == x % E
           a == x \div E
<1>3. y \in Nat /\ d \in 0 .. E - 1 /\ page = y * E + d
  BY <1>1, <1>2
<1>4. x \in Nat /\ c \in 0 .. E - 1 /\ y = x * E + c
  <2> HIDE DEF y
  <2> QED BY <1>1, <1>3
<1>5. a \in Nat /\ b \in 0 .. E - 1 /\ x = a * E + b
  <2> HIDE DEF x
  <2> QED BY <1>1, <1>4
<1>6. page = Page(a, b, c, d)
  <2> HIDE DEF a, b, c, d, x, y
  <2> QED BY <1>3, <1>4, <1>5, Zenon DEF Page
<1>7. a < E - 1
  <2> HIDE DEF a, b, c, d, x, y
  <2> SUFFICES ASSUME a >= E - 1 PROVE FALSE
    BY <1>1, <1>5
  <2>1. x >= (E - 1) * E
    <3>1. PICK e \in Nat : a = (E - 1) + e
      <4>1. a - (E - 1) \in Nat /\ a = (E - 1) + (a - (E - 1))
        BY <1>1, <1>5
      <4> QED BY <4>1
    <3>2. a * E = (E - 1) * E + e * E /\ e * E \in Nat /\ (E - 1) * E \in Nat
      BY <1>1, <3>1
    <3> QED BY <1>1, <1>5, <3>2
  <2> DEFINE v == (E - 1) * E
  <2>2. v \in Nat /\ x >= v
    BY <1>1, <2>1
  <2> HIDE DEF v
  <2>3. y >= v * E
    <3>1. PICK e \in Nat : x = v + e
      <4>1. x - v \in Nat /\ x = v + (x - v)
        BY <1>4, <2>2
      <4> QED BY <4>1
    <3>2. x * E = v * E + e * E /\ e * E \in Nat /\ v * E \in Nat
      BY <1>1, <2>2, <3>1
    <3> QED BY <1>1, <1>4, <3>2
  <2> DEFINE w == v * E
  <2>4. w \in Nat /\ y >= w
    BY <1>1, <2>2, <2>3
  <2> HIDE DEF w
  <2>5. page >= w * E
    <3>1. PICK e \in Nat : y = w + e
      <4>1. y - w \in Nat /\ y = w + (y - w)
        BY <1>3, <2>4
      <4> QED BY <4>1
    <3>2. y * E = w * E + e * E /\ e * E \in Nat /\ w * E \in Nat
      BY <1>1, <2>4, <3>1
    <3> QED BY <1>1, <1>3, <3>2
  <2>6. w * E = (E - 1) * E3
    <3>1. v * E = (E - 1) * E2
      BY <1>1 DEF v
    <3>2. w * E = ((E - 1) * E2) * E
      BY <3>1 DEF w
    <3> HIDE DEF E2
    <3> QED BY <1>1, <3>2
  <2> DEFINE n == (E - 1) * E3
  <2>7. FRAME_T <= n /\ page >= n /\ n \in Nat
    <3>1. w * E \in Nat
      BY <1>1, <2>4
    <3> QED BY <1>2, <2>5, <2>6, <3>1
  <2> HIDE DEF n
  <2> QED BY <1>2, <2>7
<1>8. a \in Slots /\ a # Last /\ b \in Slots /\ c \in Slots /\ d \in Slots
  BY <1>1, <1>3, <1>4, <1>5, <1>7 DEF Slots, Last
<1> QED BY ONLY <1>6, <1>8, Zenon

(* A conversion to frame_t keeps such a page.                              *)
LEMMA SmallIndex ==
  ASSUME NEW page \in 0 .. FRAME_T - 1, NEW level \in 0 .. 3
  PROVE  index(page, level) = Index(page, level)
<1>1. page % FRAME_T = page
  BY SizeAssumption
<1> QED BY <1>1 DEF index

-----------------------------------------------------------------------------
(* Where a walk is while it goes on.                                       *)
Table(w, f) == [kind |-> "table", writable |-> w, frame |-> f]

(* One step of the processor, by the entry it meets.                       *)
LEMMA StepFrom ==
  ASSUME NEW m, NEW page, NEW w, NEW f, NEW level \in 0 .. 3, NEW i, i = Index(page, level)
  PROVE  /\ ~ m[f][i].present => Step(m, page, Table(w, f), level).kind = "fault"
         /\ m[f][i].present /\ m[f][i].huge /\ level = 1 =>
              Step(m, page, Table(w, f), level) =
                [kind |-> "huge", writable |-> m[f][i].writable,
                 frame |-> m[f][i].frame + Index(page, 0)]
         /\ m[f][i].present /\ ~ m[f][i].huge /\ level # 0 =>
              Step(m, page, Table(w, f), level) = Table(m[f][i].writable, m[f][i].frame)
         /\ m[f][i].present /\ level \in 2 .. 3 =>
              Step(m, page, Table(w, f), level) = Table(m[f][i].writable, m[f][i].frame)
         /\ m[f][i].present /\ level = 0 =>
              Step(m, page, Table(w, f), level) =
                [kind |-> "page", writable |-> m[f][i].writable, frame |-> m[f][i].frame]
<1> DEFINE at == Table(w, f)
           e == m[f][i]
<1>1. at.kind = "table" /\ at.frame = f /\ m[at.frame][Index(page, level)] = e
  BY DEF Table
<1>2. [at EXCEPT !.kind = "fault"].kind = "fault"
  BY DEF Table
<1> QED BY <1>1, <1>2 DEF Step, Table

LEMMA StepStops ==
  ASSUME NEW m, NEW page, NEW at, NEW level \in 0 .. 3, at.kind # "table"
  PROVE  Step(m, page, at, level) = at
BY DEF Step

(* The kinds of what a walk returns differ.                                *)
LEMMA Kinds ==
  "page" # "huge" /\ "page" # "fault" /\ "table" # "huge" /\ "table" # "fault"
OBVIOUS

(* A walk that meets three tables, the last two in frames f1 and f0.       *)
Through(m, a, b, c, d, f1, f0) ==
  /\ ToP1(m, Page(a, b, c, d)) = Table(m[f1][c].writable, f0)
  /\ m[f0][d].present =>
       Down(m, Page(a, b, c, d)) =
         [kind |-> "page", writable |-> m[f0][d].writable, frame |-> m[f0][d].frame]
  /\ ~ m[f0][d].present => Down(m, Page(a, b, c, d)).kind = "fault"

LEMMA WalkThrough ==
  ASSUME NEW m, NEW a \in Slots, NEW b \in Slots, NEW c \in Slots, NEW d \in Slots,
         NEW f2, NEW f1, NEW f0,
         m[p4_table][a].present, m[p4_table][a].frame = f2,
         m[f2][b].present, m[f2][b].frame = f1,
         m[f1][c].present, ~ m[f1][c].huge, m[f1][c].frame = f0
  PROVE  Through(m, a, b, c, d, f1, f0)
<1> DEFINE p == Page(a, b, c, d)
<1>1. Index(p, 3) = a /\ Index(p, 2) = b /\ Index(p, 1) = c /\ Index(p, 0) = d
  BY PageIndex
<1> HIDE DEF p
<1>2. Step(m, p, Top, 3) = Table(m[p4_table][a].writable, f2)
  <2>1. Top = Table(TRUE, p4_table)
    BY DEF Top, Table
  <2>2. \A w : Step(m, p, Table(w, p4_table), 3) = Table(m[p4_table][a].writable, f2)
    BY <1>1, StepFrom
  <2> QED BY <2>1, <2>2, Zenon
<1>3. \A w : Step(m, p, Table(w, f2), 2) = Table(m[f2][b].writable, f1)
  BY <1>1, StepFrom
<1>4. \A w : Step(m, p, Table(w, f1), 1) = Table(m[f1][c].writable, f0)
  BY <1>1, StepFrom
<1>5. ToP1(m, p) = Table(m[f1][c].writable, f0)
  BY <1>2, <1>3, <1>4 DEF ToP1
<1>6. \A w : m[f0][d].present =>
        Step(m, p, Table(w, f0), 0) =
          [kind |-> "page", writable |-> m[f0][d].writable, frame |-> m[f0][d].frame]
  BY <1>1, StepFrom
<1>7. \A w : ~ m[f0][d].present => Step(m, p, Table(w, f0), 0).kind = "fault"
  BY <1>1, StepFrom
<1> QED BY <1>5, <1>6, <1>7 DEF Down, p, Through

(* A walk that ends early or at a huge page.                               *)
Ends(m, a, b, c, d, f2, f1) ==
  /\ m[p4_table][a].present /\ m[f2][b].present /\ m[f1][c].present /\ m[f1][c].huge =>
       /\ Down(m, Page(a, b, c, d)) =
            [kind |-> "huge", writable |-> m[f1][c].writable, frame |-> m[f1][c].frame + d]
       /\ ToP1(m, Page(a, b, c, d)).kind = "huge"
  /\ ~ (m[p4_table][a].present /\ m[f2][b].present /\ m[f1][c].present) =>
       /\ Down(m, Page(a, b, c, d)).kind = "fault"
       /\ ToP1(m, Page(a, b, c, d)).kind = "fault"

LEMMA WalkEnds ==
  ASSUME NEW m, NEW a \in Slots, NEW b \in Slots, NEW c \in Slots, NEW d \in Slots,
         NEW f2, NEW f1, m[p4_table][a].frame = f2, m[f2][b].frame = f1
  PROVE  Ends(m, a, b, c, d, f2, f1)
<1> DEFINE p == Page(a, b, c, d)
           s3 == Step(m, p, Top, 3)
           s2 == Step(m, p, s3, 2)
           s1 == Step(m, p, s2, 1)
           s0 == Step(m, p, s1, 0)
<1>1. Index(p, 3) = a /\ Index(p, 2) = b /\ Index(p, 1) = c /\ Index(p, 0) = d
  BY PageIndex
<1>2. ToP1(m, p) = s1 /\ Down(m, p) = s0
  BY DEF ToP1, Down
<1>3. Top = Table(TRUE, p4_table)
  BY DEF Top, Table
<1> HIDE DEF p
<1>4. /\ m[p4_table][a].present => s3 = Table(m[p4_table][a].writable, f2)
      /\ ~ m[p4_table][a].present => s3.kind = "fault"
  <2>1. \A w : /\ m[p4_table][a].present =>
                    Step(m, p, Table(w, p4_table), 3) = Table(m[p4_table][a].writable, f2)
               /\ ~ m[p4_table][a].present => Step(m, p, Table(w, p4_table), 3).kind = "fault"
    BY <1>1, StepFrom
  <2> QED BY <1>3, <2>1, Zenon
<1>5. \A w : /\ m[f2][b].present => Step(m, p, Table(w, f2), 2) = Table(m[f2][b].writable, f1)
             /\ ~ m[f2][b].present => Step(m, p, Table(w, f2), 2).kind = "fault"
  BY <1>1, StepFrom
<1>6. \A w : /\ m[f1][c].present /\ m[f1][c].huge =>
                  Step(m, p, Table(w, f1), 1) =
                    [kind |-> "huge", writable |-> m[f1][c].writable, frame |-> m[f1][c].frame + d]
             /\ ~ m[f1][c].present => Step(m, p, Table(w, f1), 1).kind = "fault"
  BY <1>1, StepFrom
<1>7. /\ s3.kind = "fault" => s2 = s3
      /\ s2.kind = "fault" => s1 = s2
      /\ s1.kind \in {"fault", "huge"} => s0 = s1
  <2> HIDE DEF s3
  <2>1. s3.kind = "fault" => s2 = s3
    BY StepStops
  <2> HIDE DEF s2
  <2>2. s2.kind = "fault" => s1 = s2
    BY StepStops
  <2> HIDE DEF s1
  <2>3. s1.kind \in {"fault", "huge"} => s0 = s1
    BY StepStops
  <2> QED BY <2>1, <2>2, <2>3
<1> HIDE DEF s0
<1>8. ASSUME m[p4_table][a].present, m[f2][b].present
      PROVE  s2 = Table(m[f2][b].writable, f1)
  BY <1>4, <1>5, <1>8, Zenon
<1>9. ~ (m[p4_table][a].present /\ m[f2][b].present) => s2.kind = "fault"
  BY <1>4, <1>5, <1>7, Zenon
<1>10. ASSUME ~ (m[p4_table][a].present /\ m[f2][b].present /\ m[f1][c].present)
       PROVE  s1.kind = "fault"
  BY <1>6, <1>7, <1>8, <1>9, <1>10, Zenon
<1>11. ASSUME m[p4_table][a].present, m[f2][b].present, m[f1][c].present, m[f1][c].huge
       PROVE  s1 = [kind |-> "huge", writable |-> m[f1][c].writable, frame |-> m[f1][c].frame + d]
  BY <1>6, <1>8, <1>11, Zenon
<1> HIDE DEF s1
<1> QED BY <1>2, <1>7, <1>10, <1>11 DEF p, Ends

-----------------------------------------------------------------------------
(* The tables on the way to a page with indices a, b, c.                   *)
T2(m, a) == m[p4_table][a].frame
T1(m, a, b) == m[T2(m, a)][b].frame
T0(m, a, b, c) == m[T1(m, a, b)][c].frame
Has2(m, a) == m[p4_table][a].present
Has1(m, a, b) == Has2(m, a) /\ m[T2(m, a)][b].present
Has0(m, a, b, c) == Has1(m, a, b) /\ m[T1(m, a, b)][c].present /\ ~ m[T1(m, a, b)][c].huge
Huge(m, a, b, c) == Has1(m, a, b) /\ m[T1(m, a, b)][c].present /\ m[T1(m, a, b)][c].huge

(* Each table has its level, and only the kernel's own P2 table has huge   *)
(* pages.                                                                  *)
PathOK(m, lev, a, b, c) ==
  /\ Has2(m, a) => T2(m, a) \in Memory /\ lev[T2(m, a)] = 2 /\ ~ m[p4_table][a].huge
  /\ Has1(m, a, b) => T1(m, a, b) \in Memory /\ lev[T1(m, a, b)] = 1 /\ ~ m[T2(m, a)][b].huge
  /\ Has0(m, a, b, c) =>
       T0(m, a, b, c) \in Memory /\ lev[T0(m, a, b, c)] = 0 /\ T1(m, a, b) # p2_table
  /\ Huge(m, a, b, c) => T1(m, a, b) = p2_table
  /\ Has1(m, a, b) /\ T1(m, a, b) = p2_table => Huge(m, a, b, c)

(* The fields of the entries that set_up_page_tables fills.                *)
LEMMA RootEntries ==
  ASSUME NEW m, NEW lev, Rooted(m, lev)
  PROVE  /\ m[p4_table][Last].present /\ m[p4_table][Last].writable
         /\ ~ m[p4_table][Last].huge /\ m[p4_table][Last].frame = p4_table
         /\ m[p4_table][0].present /\ ~ m[p4_table][0].huge /\ m[p4_table][0].frame = p3_table
         /\ m[p3_table][0].present /\ ~ m[p3_table][0].huge /\ m[p3_table][0].frame = p2_table
         /\ \A i \in Slots : /\ m[p2_table][i].present /\ m[p2_table][i].huge
                             /\ m[p2_table][i].frame = i * PAGE_ENTRIES
<1>1. \A f : /\ Entry(f, FALSE).present /\ Entry(f, FALSE).writable
             /\ ~ Entry(f, FALSE).huge /\ Entry(f, FALSE).frame = f
             /\ Entry(f, TRUE).present /\ Entry(f, TRUE).huge /\ Entry(f, TRUE).frame = f
  BY DEF Entry
<1>2. \A i \in Slots : /\ m[p2_table][i].present /\ m[p2_table][i].huge
                       /\ m[p2_table][i].frame = i * PAGE_ENTRIES
  BY <1>1, ZenonT(30) DEF Rooted
<1>3. /\ m[p4_table][Last].present /\ m[p4_table][Last].writable
      /\ ~ m[p4_table][Last].huge /\ m[p4_table][Last].frame = p4_table
  BY <1>1, ZenonT(30) DEF Rooted
<1>4. m[p4_table][0].present /\ ~ m[p4_table][0].huge /\ m[p4_table][0].frame = p3_table
  BY <1>1, ZenonT(30) DEF Rooted
<1>5. m[p3_table][0].present /\ ~ m[p3_table][0].huge /\ m[p3_table][0].frame = p2_table
  BY <1>1, ZenonT(30) DEF Rooted
<1> QED BY <1>2, <1>3, <1>4, <1>5

LEMMA Path ==
  ASSUME NEW m, NEW lev, NEW n, Tree(m, lev, n),
         NEW a \in Slots, a # Last, NEW b \in Slots, NEW c \in Slots
  PROVE  PathOK(m, lev, a, b, c)
<1>1. Rooted(m, lev) /\ Descends(m, lev) /\ Plain(m, lev)
  BY DEF Tree
<1>2. lev[p4_table] = 3 /\ lev[p2_table] = 1 /\ p4_table \in Memory /\ p2_table \in Memory
  BY <1>1, PagingAssumption, Zenon DEF Rooted
<1>3. p4_table # p2_table
  BY TablesAssumption
<1>4. Has2(m, a) => T2(m, a) \in Memory /\ lev[T2(m, a)] = 2 /\ ~ m[p4_table][a].huge
  BY <1>1, <1>2, <1>3 DEF Has2, T2, Edge, Descends, Plain
<1>5. Has1(m, a, b) => T1(m, a, b) \in Memory /\ lev[T1(m, a, b)] = 1 /\ ~ m[T2(m, a)][b].huge
  <2> SUFFICES ASSUME Has1(m, a, b)
               PROVE  T1(m, a, b) \in Memory /\ lev[T1(m, a, b)] = 1 /\ ~ m[T2(m, a)][b].huge
    OBVIOUS
  <2>1. T2(m, a) \in Memory /\ lev[T2(m, a)] = 2 /\ m[T2(m, a)][b].present
    BY <1>4, Zenon DEF Has1
  <2>2. T2(m, a) # p2_table /\ T2(m, a) # p4_table
    BY <1>2, <2>1
  <2> QED BY <1>1, <2>1, <2>2 DEF T1, Edge, Descends, Plain
<1>6. Has1(m, a, b) /\ T1(m, a, b) = p2_table => Huge(m, a, b, c)
  <2>1. m[p2_table][c].present /\ m[p2_table][c].huge
    BY <1>1, RootEntries
  <2> QED BY <2>1, Zenon DEF Huge
<1>7. Huge(m, a, b, c) => T1(m, a, b) = p2_table
  BY <1>1, <1>5 DEF Huge, Plain
<1>8. Has0(m, a, b, c) =>
        T0(m, a, b, c) \in Memory /\ lev[T0(m, a, b, c)] = 0 /\ T1(m, a, b) # p2_table
  <2> SUFFICES ASSUME Has0(m, a, b, c)
               PROVE  /\ T0(m, a, b, c) \in Memory /\ lev[T0(m, a, b, c)] = 0
                      /\ T1(m, a, b) # p2_table
    OBVIOUS
  <2>1. T1(m, a, b) \in Memory /\ lev[T1(m, a, b)] = 1 /\ m[T1(m, a, b)][c].present
    BY <1>5 DEF Has0
  <2>2. T1(m, a, b) # p2_table /\ T1(m, a, b) # p4_table
    BY <1>2, <1>6, <2>1 DEF Has0, Huge
  <2> QED BY <1>1, <2>1, <2>2 DEF T0, Edge, Descends
<1> QED BY <1>4, <1>5, <1>6, <1>7, <1>8, Zenon DEF PathOK

(* What the processor finds for a page with these indices.                 *)
Walked(m, a, b, c, d) ==
  /\ Has0(m, a, b, c) =>
       /\ ToP1(m, Page(a, b, c, d)) = Table(m[T1(m, a, b)][c].writable, T0(m, a, b, c))
       /\ m[T0(m, a, b, c)][d].present =>
            Down(m, Page(a, b, c, d)) =
              [kind |-> "page", writable |-> m[T0(m, a, b, c)][d].writable,
               frame |-> m[T0(m, a, b, c)][d].frame]
       /\ ~ m[T0(m, a, b, c)][d].present => Down(m, Page(a, b, c, d)).kind = "fault"
  /\ Huge(m, a, b, c) =>
       /\ Down(m, Page(a, b, c, d)) =
            [kind |-> "huge", writable |-> m[T1(m, a, b)][c].writable,
             frame |-> m[T1(m, a, b)][c].frame + d]
       /\ ToP1(m, Page(a, b, c, d)).kind = "huge"
  /\ ~ Has0(m, a, b, c) /\ ~ Huge(m, a, b, c) =>
       Down(m, Page(a, b, c, d)).kind = "fault" /\ ToP1(m, Page(a, b, c, d)).kind = "fault"

LEMMA Walk ==
  ASSUME NEW m, NEW a \in Slots, NEW b \in Slots, NEW c \in Slots, NEW d \in Slots
  PROVE  Walked(m, a, b, c, d)
<1> DEFINE f2 == T2(m, a)
           f1 == T1(m, a, b)
           f0 == T0(m, a, b, c)
<1>1. m[p4_table][a].frame = f2 /\ m[f2][b].frame = f1 /\ m[f1][c].frame = f0
  BY DEF T2, T1, T0
<1>2. /\ Has0(m, a, b, c) = (m[p4_table][a].present /\ m[f2][b].present /\ m[f1][c].present
                              /\ ~ m[f1][c].huge)
      /\ Huge(m, a, b, c) = (m[p4_table][a].present /\ m[f2][b].present /\ m[f1][c].present
                              /\ m[f1][c].huge)
  BY DEF Has0, Huge, Has1, Has2
<1> HIDE DEF f2, f1, f0
<1>3. ASSUME Has0(m, a, b, c) PROVE Through(m, a, b, c, d, f1, f0)
  <2>1. /\ m[p4_table][a].present /\ m[f2][b].present
        /\ m[f1][c].present /\ ~ m[f1][c].huge
    BY <1>2, <1>3, Zenon
  <2> QED BY <1>1, <2>1, WalkThrough
<1>4. Ends(m, a, b, c, d, f2, f1)
  BY <1>1, WalkEnds
<1> QED BY <1>2, <1>3, <1>4, Zenon DEF Through, Ends, Walked, f2, f1, f0

(* The page P4_TABLE is the P4 table itself.                               *)
LEMMA RootPage ==
  ASSUME NEW m, m[p4_table][Last].present, ~ m[p4_table][Last].huge,
         m[p4_table][Last].frame = p4_table
  PROVE  Down(m, P4_TABLE) =
           [kind |-> "page", writable |-> m[p4_table][Last].writable, frame |-> p4_table]
<1>1. Last \in Slots
  BY SizeAssumption DEF Slots, Last
<1>2. Through(m, Last, Last, Last, Last, p4_table, p4_table)
  BY <1>1, WalkThrough
<1> QED BY <1>2, TopPage, Zenon DEF Through

(* A pointer of the code leads to the table it is meant for, through the   *)
(* last entry of the P4 table.                                             *)
PointersOK(m, a, b, c) ==
  /\ Down(m, P4_TABLE).frame = p4_table
  /\ Has2(m, a) => Down(m, Page(Last, Last, Last, a)).frame = T2(m, a)
  /\ Has1(m, a, b) => Down(m, Page(Last, Last, a, b)).frame = T1(m, a, b)
  /\ Has0(m, a, b, c) =>
       Down(m, Page(Last, a, b, c)) =
         [kind |-> "page", writable |-> m[T1(m, a, b)][c].writable, frame |-> T0(m, a, b, c)]

LEMMA Pointers ==
  ASSUME NEW m, NEW lev, NEW n, Tree(m, lev, n),
         NEW a \in Slots, a # Last, NEW b \in Slots, NEW c \in Slots
  PROVE  PointersOK(m, a, b, c)
<1>1. /\ m[p4_table][Last].present /\ ~ m[p4_table][Last].huge
      /\ m[p4_table][Last].frame = p4_table
  BY RootEntries DEF Tree
<1>2. Last \in Slots
  BY SizeAssumption DEF Slots, Last
<1>3. PathOK(m, lev, a, b, c)
  BY Path
<1> DEFINE f2 == T2(m, a)
           f1 == T1(m, a, b)
           f0 == T0(m, a, b, c)
<1>4. m[p4_table][a].frame = f2 /\ m[f2][b].frame = f1 /\ m[f1][c].frame = f0
  BY Zenon DEF T2, T1, T0
<1>5. /\ Has2(m, a) => m[p4_table][a].present /\ ~ m[p4_table][a].huge
      /\ Has1(m, a, b) => Has2(m, a) /\ m[f2][b].present /\ ~ m[f2][b].huge
      /\ Has0(m, a, b, c) => Has1(m, a, b) /\ m[f1][c].present
  BY ONLY <1>3, Zenon DEF PathOK, Has2, Has1, Has0
<1> HIDE DEF f2, f1, f0
<1>6. Down(m, P4_TABLE).frame = p4_table
  <2>1. Down(m, P4_TABLE) =
          [kind |-> "page", writable |-> m[p4_table][Last].writable, frame |-> p4_table]
    BY <1>1, RootPage, Zenon
  <2> QED BY ONLY <2>1
<1>7. ASSUME Has2(m, a) PROVE Down(m, Page(Last, Last, Last, a)).frame = f2
  <2>1. m[p4_table][a].present
    BY <1>5, <1>7
  <2>2. Through(m, Last, Last, Last, a, p4_table, p4_table)
    BY <1>1, <1>2, <2>1, WalkThrough
  <2>3. Down(m, Page(Last, Last, Last, a)) =
          [kind |-> "page", writable |-> m[p4_table][a].writable, frame |-> m[p4_table][a].frame]
    BY ONLY <2>1, <2>2, Zenon DEF Through
  <2> QED BY ONLY <1>4, <2>3
<1>8. ASSUME Has1(m, a, b) PROVE Down(m, Page(Last, Last, a, b)).frame = f1
  <2>1. m[p4_table][a].present /\ ~ m[p4_table][a].huge /\ m[f2][b].present
    BY <1>5, <1>8
  <2>2. Through(m, Last, Last, a, b, p4_table, f2)
    BY <1>1, <1>2, <1>4, <2>1, WalkThrough
  <2>3. Down(m, Page(Last, Last, a, b)) =
          [kind |-> "page", writable |-> m[f2][b].writable, frame |-> m[f2][b].frame]
    BY ONLY <2>1, <2>2, Zenon DEF Through
  <2> QED BY ONLY <1>4, <2>3
<1>9. ASSUME Has0(m, a, b, c)
      PROVE  Down(m, Page(Last, a, b, c)) =
               [kind |-> "page", writable |-> m[f1][c].writable, frame |-> f0]
  <2>1. /\ m[p4_table][a].present /\ m[f2][b].present
        /\ ~ m[f2][b].huge /\ m[f1][c].present
    BY <1>5, <1>9, Zenon
  <2>2. Through(m, Last, a, b, c, f2, f1)
    BY <1>1, <1>2, <1>4, <2>1, WalkThrough
  <2>3. Down(m, Page(Last, a, b, c)) =
          [kind |-> "page", writable |-> m[f1][c].writable, frame |-> m[f1][c].frame]
    BY ONLY <2>1, <2>2, Zenon DEF Through
  <2> QED BY <1>4, <2>3, Zenon
<1> QED BY <1>6, <1>7, <1>8, <1>9, Zenon DEF PointersOK, f2, f1, f0

(* next_table_address finds the pointer to the next table, or null.        *)
AddressesOK(m, a, b, c) ==
  /\ next_table_address(m, P4_TABLE, a) =
       IF Has2(m, a) THEN Page(Last, Last, Last, a) ELSE 0
  /\ Has2(m, a) => next_table_address(m, Page(Last, Last, Last, a), b) =
       IF Has1(m, a, b) THEN Page(Last, Last, a, b) ELSE 0
  /\ Has1(m, a, b) => next_table_address(m, Page(Last, Last, a, b), c) =
       IF Has0(m, a, b, c) THEN Page(Last, a, b, c) ELSE 0

LEMMA Addresses ==
  ASSUME NEW m, NEW lev, NEW n, Tree(m, lev, n),
         NEW a \in Slots, a # Last, NEW b \in Slots, NEW c \in Slots
  PROVE  AddressesOK(m, a, b, c)
<1>1. PathOK(m, lev, a, b, c) /\ PointersOK(m, a, b, c)
  BY Path, Pointers
<1>2. Last \in Slots
  BY SizeAssumption DEF Slots, Last
<1>3. next_table_address(m, P4_TABLE, a) = IF Has2(m, a) THEN Page(Last, Last, Last, a) ELSE 0
  <2>1. At(m, P4_TABLE, a) = m[p4_table][a]
    BY ONLY <1>1, Zenon DEF At, PointersOK
  <2>2. ((P4_TABLE * PAGE_ENTRIES) + a) % PAGE_ENTRIES^4 = Page(Last, Last, Last, a)
    BY <1>2, TopPage, PageShift
  <2>3. Has2(m, a) <=> At(m, P4_TABLE, a).present /\ ~ At(m, P4_TABLE, a).huge
    BY ONLY <1>1, <2>1, Zenon DEF Has2, PathOK
  <2> QED BY <2>2, <2>3, Zenon DEF next_table_address
<1>4. ASSUME Has2(m, a)
      PROVE  next_table_address(m, Page(Last, Last, Last, a), b) =
               IF Has1(m, a, b) THEN Page(Last, Last, a, b) ELSE 0
  <2> DEFINE t == Page(Last, Last, Last, a)
  <2>1. At(m, t, b) = m[T2(m, a)][b]
    BY <1>1, <1>4, Zenon DEF At, PointersOK
  <2>2. ((t * PAGE_ENTRIES) + b) % PAGE_ENTRIES^4 = Page(Last, Last, a, b)
    BY <1>2, PageShift
  <2> HIDE DEF t
  <2>3. Has1(m, a, b) = (At(m, t, b).present /\ ~ At(m, t, b).huge)
    BY <1>1, <1>4, <2>1, Zenon DEF Has1, PathOK
  <2>4. next_table_address(m, t, b) = IF Has1(m, a, b) THEN Page(Last, Last, a, b) ELSE 0
    BY <2>2, <2>3, Zenon DEF next_table_address
  <2> QED BY <2>4 DEF t
<1>5. ASSUME Has1(m, a, b)
      PROVE  next_table_address(m, Page(Last, Last, a, b), c) =
               IF Has0(m, a, b, c) THEN Page(Last, a, b, c) ELSE 0
  <2> DEFINE t == Page(Last, Last, a, b)
  <2>1. At(m, t, c) = m[T1(m, a, b)][c]
    BY <1>1, <1>5, Zenon DEF At, PointersOK
  <2>2. ((t * PAGE_ENTRIES) + c) % PAGE_ENTRIES^4 = Page(Last, a, b, c)
    BY <1>2, PageShift
  <2> HIDE DEF t
  <2>3. Has0(m, a, b, c) = (At(m, t, c).present /\ ~ At(m, t, c).huge)
    BY <1>5, <2>1 DEF Has0
  <2>4. next_table_address(m, t, c) = IF Has0(m, a, b, c) THEN Page(Last, a, b, c) ELSE 0
    BY <2>2, <2>3, Zenon DEF next_table_address
  <2> QED BY <2>4 DEF t
<1> QED BY ONLY <1>3, <1>4, <1>5, Zenon DEF AddressesOK

(* The indices that the code takes of a page.                              *)
LEMMA CodeIndex ==
  ASSUME NEW page \in 0 .. FRAME_T - 1, NEW a \in Slots, NEW b \in Slots, NEW c \in Slots,
         NEW d \in Slots, page = Page(a, b, c, d)
  PROVE  index(page, 3) = a /\ index(page, 2) = b /\ index(page, 1) = c /\ index(page, 0) = d
<1>1. Index(page, 3) = a /\ Index(page, 2) = b /\ Index(page, 1) = c /\ Index(page, 0) = d
  BY PageIndex
<1> QED BY <1>1, SmallIndex

(* p1_table finds the pointer to the P1 table of a page, or null.          *)
LEMMA CodeWalk ==
  ASSUME NEW m, NEW lev, NEW n, Tree(m, lev, n), NEW page \in 0 .. FRAME_T - 1,
         NEW a \in Slots, a # Last, NEW b \in Slots, NEW c \in Slots, NEW d \in Slots,
         page = Page(a, b, c, d)
  PROVE  p1_table(m, page) = IF Has0(m, a, b, c) THEN Page(Last, a, b, c) ELSE 0
<1>1. AddressesOK(m, a, b, c)
  BY Addresses
<1>2. index(page, 3) = a /\ index(page, 2) = b /\ index(page, 1) = c
  BY CodeIndex
<1>3. P4_TABLE # 0 /\ Page(Last, Last, Last, a) # 0 /\ Page(Last, Last, a, b) # 0
  <2>1. Last \in Slots
    BY SizeAssumption DEF Slots, Last
  <2> QED BY <2>1, PointerNotNull, TopPage
<1>4. NextTable(m, page, P4_TABLE, 3) = IF Has2(m, a) THEN Page(Last, Last, Last, a) ELSE 0
  BY ONLY <1>1, <1>2, <1>3, Zenon DEF NextTable, AddressesOK
<1> DEFINE t == NextTable(m, page, P4_TABLE, 3)
           u == NextTable(m, page, t, 2)
           v == NextTable(m, page, u, 1)
<1>5. u = IF Has1(m, a, b) THEN Page(Last, Last, a, b) ELSE 0
  <2> HIDE DEF t
  <2>1. t = IF Has2(m, a) THEN Page(Last, Last, Last, a) ELSE 0
    BY <1>4 DEF t
  <2>2. Has1(m, a, b) => Has2(m, a)
    BY DEF Has1
  <2> QED BY ONLY <1>1, <1>2, <1>3, <2>1, <2>2, Zenon DEF NextTable, AddressesOK
<1>6. v = IF Has0(m, a, b, c) THEN Page(Last, a, b, c) ELSE 0
  <2> HIDE DEF u
  <2>1. Has0(m, a, b, c) => Has1(m, a, b)
    BY DEF Has0
  <2> QED BY <1>1, <1>2, <1>3, <1>5, <2>1, Zenon DEF NextTable, AddressesOK
<1> QED BY <1>6 DEF p1_table

(* translate_page finds frame 0, the only one that map enters.             *)
LEMMA TranslatedPage ==
  ASSUME NEW m, NEW lev, NEW n, Tree(m, lev, n), NEW page \in 0 .. FRAME_T - 1,
         NEW a \in Slots, a # Last, NEW b \in Slots, NEW c \in Slots, NEW d \in Slots,
         page = Page(a, b, c, d)
  PROVE  /\ translate_page(m, page) = 0
         /\ Down(m, page).kind = "page" => Down(m, page).frame = 0
         /\ Has0(m, a, b, c) =>
              At(m, p1_table(m, page), index(page, 0)) = m[T0(m, a, b, c)][d]
<1>1. /\ PathOK(m, lev, a, b, c) /\ PointersOK(m, a, b, c) /\ Walked(m, a, b, c, d)
      /\ p1_table(m, page) = IF Has0(m, a, b, c) THEN Page(Last, a, b, c) ELSE 0
      /\ index(page, 0) = d /\ Page(Last, a, b, c) # 0
  BY Path, Pointers, Walk, CodeWalk, CodeIndex, PointerNotNull
<1>2. Has0(m, a, b, c) => m[T0(m, a, b, c)][d].frame = 0
  BY <1>1, Zenon DEF PathOK, Tree, Plain
<1>3. Has0(m, a, b, c) => At(m, p1_table(m, page), index(page, 0)) = m[T0(m, a, b, c)][d]
  BY <1>1 DEF At, PointersOK
<1>4. 0 % FRAME_T = 0
  BY SizeAssumption
<1>5. translate_page(m, page) = 0
  <2>1. Has0(m, a, b, c) => pointed_frame(m[T0(m, a, b, c)][d]) = 0
    BY <1>2, <1>4 DEF pointed_frame
  <2> QED BY <1>1, <1>3, <2>1 DEF translate_page
<1>6. ASSUME Down(m, page).kind = "page" PROVE Down(m, page).frame = 0
  <2>1. Has0(m, a, b, c)
    <3>1. CASE Huge(m, a, b, c)
      <4>1. Down(m, page) = [kind |-> "huge", writable |-> m[T1(m, a, b)][c].writable,
                             frame |-> m[T1(m, a, b)][c].frame + d]
        BY <1>1, <3>1, Zenon DEF Walked
      <4>2. Down(m, page).kind = "huge"
        BY ONLY <4>1
      <4> QED BY <1>6, <4>2, Kinds, Zenon
    <3>2. CASE ~ Has0(m, a, b, c) /\ ~ Huge(m, a, b, c)
      BY <1>1, <1>6, <3>2, Kinds, Zenon DEF Walked
    <3> QED BY <3>1, <3>2, Zenon
  <2>2. m[T0(m, a, b, c)][d].present
    BY <1>1, <1>6, <2>1, Zenon DEF Walked
  <2>3. Down(m, page) = [kind |-> "page", writable |-> m[T0(m, a, b, c)][d].writable,
                         frame |-> m[T0(m, a, b, c)][d].frame]
    BY <1>1, <2>1, <2>2, Zenon DEF Walked
  <2> QED BY <1>2, <2>1, <2>3
<1> QED BY <1>3, <1>5, <1>6

(* A tree of tables is walked alike by the code and by the processor.      *)
LEMMA TreeWalks ==
  ASSUME NEW lev, NEW n, Tree(mem, lev, n)
  PROVE  WalksAgree
<1> SUFFICES ASSUME NEW page \in Pages
             PROVE  LET p1   == p1_table(mem, page)
                        at   == ToP1(mem, page)
                        down == Step(mem, page, at, 0)
                    IN  /\ (p1 # 0) = (at.kind = "table")
                        /\ p1 # 0 => Translation(mem, p1) = {[at EXCEPT !.kind = "page"]}
                        /\ translate(mem, page * PAGE_SIZE) \div PAGE_SIZE =
                             IF down.kind = "page" THEN down.frame ELSE 0
  BY DEF WalksAgree
<1> DEFINE p1 == p1_table(mem, page)
           at == ToP1(mem, page)
           down == Step(mem, page, at, 0)
<1>1. page \in 0 .. FRAME_T - 1 /\ page \in Nat
  BY PagingAssumption, SizeAssumption
<1>2. PICK a, b, c, d \in Slots : a # Last /\ page = Page(a, b, c, d)
  BY <1>1, PageSplit
<1>3. /\ PointersOK(mem, a, b, c) /\ Walked(mem, a, b, c, d)
      /\ p1 = IF Has0(mem, a, b, c) THEN Page(Last, a, b, c) ELSE 0
      /\ Page(Last, a, b, c) # 0
  BY <1>1, <1>2, Pointers, Walk, CodeWalk, PointerNotNull
<1>4. Has0(mem, a, b, c) =>
        at = Table(mem[T1(mem, a, b)][c].writable, T0(mem, a, b, c))
  BY <1>2, <1>3, Zenon DEF Walked
<1>5. Has0(mem, a, b, c) <=> at.kind = "table"
  <2>1. CASE Has0(mem, a, b, c)
    BY <1>4, <2>1 DEF Table
  <2>2. CASE Huge(mem, a, b, c) /\ ~ Has0(mem, a, b, c)
    BY <1>2, <1>3, <2>2, Zenon DEF Walked
  <2>3. CASE ~ Has0(mem, a, b, c) /\ ~ Huge(mem, a, b, c)
    BY <1>2, <1>3, <2>3, Zenon DEF Walked
  <2> QED BY <2>1, <2>2, <2>3
<1>6. p1 # 0 <=> Has0(mem, a, b, c)
  BY <1>3
<1>7. ASSUME p1 # 0 PROVE Translation(mem, p1) = {[at EXCEPT !.kind = "page"]}
  <2>1. Down(mem, p1) = [kind |-> "page", writable |-> mem[T1(mem, a, b)][c].writable,
                         frame |-> T0(mem, a, b, c)]
    BY <1>3, <1>6, <1>7, Zenon DEF PointersOK
  <2>2. [at EXCEPT !.kind = "page"] = Down(mem, p1)
    BY <1>4, <1>6, <1>7, <2>1 DEF Table
  <2>3. Down(mem, p1).kind = "page"
    BY <2>1
  <2> QED BY <2>2, <2>3 DEF Translation, Mapped
<1>8. /\ translate_page(mem, page) = 0
      /\ Down(mem, page).kind = "page" => Down(mem, page).frame = 0
  BY <1>1, <1>2, TranslatedPage
<1>9. translate(mem, page * PAGE_SIZE) \div PAGE_SIZE = 0
  <2>1. PAGE_SIZE \in Nat \ {0} /\ 0 \in 0 .. PAGE_SIZE - 1
    BY SizeAssumption, TablesAssumption
  <2>2. (page * PAGE_SIZE + 0) \div PAGE_SIZE = page
    BY ONLY <1>1, <2>1, DivMod
  <2>3. (page * PAGE_SIZE) \div PAGE_SIZE = page
    <3>1. page * PAGE_SIZE + 0 = page * PAGE_SIZE
      BY <1>1, <2>1
    <3> QED BY <2>2, <3>1
  <2>4. translate(mem, page * PAGE_SIZE) = page % PAGE_SIZE
    <3>1. translate(mem, page * PAGE_SIZE) = (0 * PAGE_SIZE) + (page % PAGE_SIZE)
      BY <1>8, <2>3, Zenon DEF translate
    <3> QED BY <1>1, <2>1, <3>1
  <2>5. (page % PAGE_SIZE) \in 0 .. PAGE_SIZE - 1
    BY <1>1, <2>1
  <2> DEFINE r == page % PAGE_SIZE
  <2> HIDE DEF r
  <2>6. r \div PAGE_SIZE = 0
    BY <2>1, <2>5 DEF r
  <2> QED BY <2>4, <2>6 DEF r
<1>10. down = Down(mem, page)
  BY DEF Down
<1>11. (IF down.kind = "page" THEN down.frame ELSE 0) = 0
  BY <1>8, <1>10
<1>12. (p1 # 0) = (at.kind = "table")
  BY <1>5, <1>6
<1> QED BY <1>7, <1>9, <1>11, <1>12

-----------------------------------------------------------------------------
(* What the tables say of a page with indices a, b, c, d.                  *)
View(m, a, b, c, d) ==
  IF Has0(m, a, b, c) /\ m[T0(m, a, b, c)][d].present
  THEN {[kind |-> "page", writable |-> m[T0(m, a, b, c)][d].writable,
         frame |-> m[T0(m, a, b, c)][d].frame]}
  ELSE IF Huge(m, a, b, c)
  THEN {[kind |-> "huge", writable |-> m[T1(m, a, b)][c].writable,
         frame |-> m[T1(m, a, b)][c].frame + d]}
  ELSE {}

LEMMA Viewed ==
  ASSUME NEW m, NEW a \in Slots, NEW b \in Slots, NEW c \in Slots, NEW d \in Slots
  PROVE  Translation(m, Page(a, b, c, d)) = View(m, a, b, c, d)
<1> DEFINE p == Page(a, b, c, d)
<1>1. Walked(m, a, b, c, d)
  BY Walk
<1>2. ~ (Has0(m, a, b, c) /\ Huge(m, a, b, c))
  BY DEF Has0, Huge
<1>3. CASE Has0(m, a, b, c) /\ m[T0(m, a, b, c)][d].present
  <2>1. Down(m, p) = [kind |-> "page", writable |-> m[T0(m, a, b, c)][d].writable,
                      frame |-> m[T0(m, a, b, c)][d].frame]
    BY <1>1, <1>3, Zenon DEF Walked
  <2>2. Mapped(m, p)
    BY <2>1 DEF Mapped
  <2> QED BY <1>3, <2>1, <2>2, Zenon DEF View, Translation
<1>4. CASE Has0(m, a, b, c) /\ ~ m[T0(m, a, b, c)][d].present
  <2>1. ~ Mapped(m, p)
    BY <1>1, <1>4, Zenon DEF Walked, Mapped
  <2> QED BY <1>2, <1>4, <2>1, Zenon DEF View, Translation
<1>5. CASE ~ Has0(m, a, b, c) /\ Huge(m, a, b, c)
  <2>1. Down(m, p) = [kind |-> "huge", writable |-> m[T1(m, a, b)][c].writable,
                      frame |-> m[T1(m, a, b)][c].frame + d]
    BY <1>1, <1>5, Zenon DEF Walked
  <2>2. Mapped(m, p)
    BY <2>1 DEF Mapped
  <2> QED BY <1>5, <2>1, <2>2, Zenon DEF View, Translation
<1>6. CASE ~ Has0(m, a, b, c) /\ ~ Huge(m, a, b, c)
  <2>1. ~ Mapped(m, p)
    BY <1>1, <1>6, Zenon DEF Walked, Mapped
  <2> QED BY <1>6, <2>1, Zenon DEF View, Translation
<1> QED BY <1>3, <1>4, <1>5, <1>6

(* The frames that are handed out lie apart from each other and from the   *)
(* first tables.                                                           *)
LEMMA ChunkFrames ==
  ASSUME NEW k \in 1 .. MAX_CHUNK
  PROVE  /\ AllocatedAddress(k) \in Memory /\ AllocatedAddress(k) >= 8
         /\ AllocatedAddress(k) \notin {p4_table, p3_table, p2_table}
         /\ \A j \in 1 .. MAX_CHUNK : AllocatedAddress(j) = AllocatedAddress(k) => j = k
<1>1. PAGE_SIZE \in Nat \ {0} /\ MAX_CHUNK \in Nat /\ p4_table < PAGE_SIZE /\ p3_table < PAGE_SIZE
      /\ p2_table < PAGE_SIZE /\ PAGE_SIZE >= 8 /\ {p4_table, p3_table, p2_table} \subseteq Nat
  BY SizeAssumption, TablesAssumption
<1>2. k * PAGE_SIZE >= PAGE_SIZE
  <2>1. k = (k - 1) + 1 /\ k - 1 \in Nat
    BY <1>1
  <2>2. (k - 1) * PAGE_SIZE \in Nat
    BY <1>1, <2>1
  <2>3. k * PAGE_SIZE = (k - 1) * PAGE_SIZE + PAGE_SIZE
    BY <1>1, <2>1
  <2> QED BY <1>1, <2>2, <2>3
<1>3. k * PAGE_SIZE \in Memory
  BY PagingAssumption
<1>4. ASSUME NEW j \in 1 .. MAX_CHUNK, j * PAGE_SIZE = k * PAGE_SIZE PROVE j = k
  <2>1. 0 \in 0 .. PAGE_SIZE - 1 /\ j \in Nat /\ k \in Nat
    BY <1>1
  <2>2. (j * PAGE_SIZE + 0) \div PAGE_SIZE = j /\ (k * PAGE_SIZE + 0) \div PAGE_SIZE = k
    BY ONLY <1>1, <2>1, DivMod
  <2> QED BY <1>4, <2>2
<1>5. k * PAGE_SIZE \in Nat
  BY <1>1
<1> DEFINE x == k * PAGE_SIZE
<1>6. x >= PAGE_SIZE /\ x \in Nat
  BY <1>2, <1>5
<1> HIDE DEF x
<1>7. x \notin {p4_table, p3_table, p2_table} /\ x >= 8
  BY <1>1, <1>6
<1> QED BY <1>3, <1>4, <1>7 DEF AllocatedAddress, x

(* Frames that are no inner tables may change.                             *)
LEMMA SamePaths ==
  ASSUME NEW m, NEW lev, NEW n, Tree(m, lev, n), NEW m2,
         \A g \in Memory : lev[g] \in 1 .. 3 => m2[g] = m[g],
         NEW a \in Slots, a # Last, NEW b \in Slots, NEW c \in Slots
  PROVE  /\ Has0(m2, a, b, c) <=> Has0(m, a, b, c)
         /\ Huge(m2, a, b, c) <=> Huge(m, a, b, c)
         /\ Has0(m, a, b, c) => T0(m2, a, b, c) = T0(m, a, b, c)
         /\ Huge(m, a, b, c) => m2[T1(m2, a, b)][c] = m[T1(m, a, b)][c]
<1>1. PathOK(m, lev, a, b, c)
  BY Path
<1>2. m2[p4_table] = m[p4_table]
  <2>1. p4_table \in Memory /\ lev[p4_table] \in 1 .. 3
    BY PagingAssumption DEF Tree, Rooted
  <2> QED BY <2>1
<1>3. T2(m2, a) = T2(m, a) /\ (Has2(m2, a) <=> Has2(m, a))
  BY <1>2 DEF T2, Has2
<1>4. Has2(m, a) => m2[T2(m, a)] = m[T2(m, a)]
  BY <1>1 DEF PathOK
<1>5. (Has1(m2, a, b) <=> Has1(m, a, b)) /\ (Has1(m, a, b) => T1(m2, a, b) = T1(m, a, b))
  BY ONLY <1>3, <1>4, Zenon DEF Has1, T1
<1>6. Has1(m, a, b) => m2[T1(m, a, b)] = m[T1(m, a, b)]
  BY <1>1 DEF PathOK
<1> QED BY <1>5, <1>6, Zenon DEF Has0, Huge, T0

LEMMA KeepTree ==
  ASSUME NEW m, NEW lev, NEW n, Tree(m, lev, n), NEW m2,
         m2 \in [Memory -> [Slots -> EntryType]],
         \A g \in Memory : lev[g] \in 1 .. 3 => m2[g] = m[g],
         \A g \in Memory, j \in Slots : lev[g] = 0 => m2[g][j].frame = 0,
         \A k \in 1 .. MAX_CHUNK : k >= n => m2[AllocatedAddress(k)] = EmptyTable
  PROVE  Tree(m2, lev, n)
<1>1. /\ Rooted(m, lev) /\ Descends(m, lev) /\ Unshared(m, lev) /\ Plain(m, lev)
      /\ Spare(m, lev, n) /\ lev \in Levels
  BY DEF Tree
<1>2. Rooted(m2, lev)
  <2>1. \A g \in {p4_table, p3_table, p2_table} : g \in Memory /\ lev[g] \in 1 .. 3
    BY <1>1, PagingAssumption DEF Rooted
  <2>2. m2[p4_table] = m[p4_table] /\ m2[p3_table] = m[p3_table] /\ m2[p2_table] = m[p2_table]
    BY <2>1
  <2> QED BY <1>1, <2>2, Zenon DEF Rooted
<1>3. \A f \in Memory, i \in Slots :
        (Edge(m2, lev, f, i) <=> Edge(m, lev, f, i)) /\ (Edge(m, lev, f, i) => m2[f][i] = m[f][i])
  BY DEF Edge
<1>4. Descends(m2, lev)
  BY <1>1, <1>3 DEF Descends
<1>5. Unshared(m2, lev)
  BY <1>1, <1>3 DEF Unshared
<1>6. Plain(m2, lev)
  BY <1>1 DEF Plain
<1>7. Spare(m2, lev, n)
  BY <1>1 DEF Spare
<1> QED BY <1>1, <1>2, <1>4, <1>5, <1>6, <1>7 DEF Tree

(* The frames below 8 hold no table and may change at will.                *)
LEMMA Elsewhere ==
  ASSUME NEW m, NEW lev, NEW n \in Nat \ {0}, Tree(m, lev, n),
         NEW m2 \in [Memory -> [Slots -> EntryType]],
         \A g \in Memory : g >= 8 => m2[g] = m[g]
  PROVE  /\ Tree(m2, lev, n)
         /\ \A a, b, c, d \in Slots : a # Last => View(m2, a, b, c, d) = View(m, a, b, c, d)
<1>1. lev \in Levels /\ Spare(m, lev, n) /\ Plain(m, lev)
  BY DEF Tree
<1>2. \A g \in Memory : lev[g] # -1 => m2[g] = m[g]
  BY <1>1, PagingAssumption DEF Spare, Levels
<1>3. \A g \in Memory : lev[g] \in 1 .. 3 => m2[g] = m[g]
  BY <1>2
<1>4. \A g \in Memory, j \in Slots : lev[g] = 0 => m2[g][j].frame = 0
  BY <1>1, <1>2 DEF Plain
<1>5. \A k \in 1 .. MAX_CHUNK : k >= n => m2[AllocatedAddress(k)] = EmptyTable
  BY <1>1, ChunkFrames DEF Spare
<1>6. Tree(m2, lev, n)
  BY <1>3, <1>4, <1>5, KeepTree
<1>7. ASSUME NEW a \in Slots, NEW b \in Slots, NEW c \in Slots, NEW d \in Slots, a # Last
      PROVE  View(m2, a, b, c, d) = View(m, a, b, c, d)
  <2>1. /\ Has0(m2, a, b, c) <=> Has0(m, a, b, c)
        /\ Huge(m2, a, b, c) <=> Huge(m, a, b, c)
        /\ Has0(m, a, b, c) => T0(m2, a, b, c) = T0(m, a, b, c)
        /\ Huge(m, a, b, c) => m2[T1(m2, a, b)][c] = m[T1(m, a, b)][c]
    BY <1>3, <1>7, SamePaths
  <2>2. Has0(m, a, b, c) => m2[T0(m, a, b, c)] = m[T0(m, a, b, c)]
    <3>1. PathOK(m, lev, a, b, c)
      BY <1>7, Path
    <3>2. Has0(m, a, b, c) => T0(m, a, b, c) \in Memory /\ lev[T0(m, a, b, c)] = 0
      BY <3>1, Zenon DEF PathOK
    <3> QED BY <1>2, <3>2
  <2>3. CASE Has0(m, a, b, c)
    <3>1. m2[T0(m2, a, b, c)] = m[T0(m, a, b, c)]
      BY <2>1, <2>2, <2>3
    <3>2. ~ Huge(m, a, b, c)
      BY <2>3 DEF Has0, Huge
    <3> QED BY <2>1, <2>3, <3>1, <3>2, Zenon DEF View
  <2>4. CASE ~ Has0(m, a, b, c)
    BY <2>1, <2>4, Zenon DEF View
  <2> QED BY <2>3, <2>4
<1> QED BY <1>6, <1>7

(* Each P1 table is the table of one triple of indices.                    *)
LEMMA OnePath ==
  ASSUME NEW m, NEW lev, NEW n, Tree(m, lev, n),
         NEW a \in Slots, NEW b \in Slots, NEW c \in Slots, a # Last, Has0(m, a, b, c),
         NEW x \in Slots, NEW y \in Slots, NEW z \in Slots, x # Last, Has0(m, x, y, z),
         T0(m, a, b, c) = T0(m, x, y, z)
  PROVE  a = x /\ b = y /\ c = z
<1>1. PathOK(m, lev, a, b, c) /\ PathOK(m, lev, x, y, z)
  BY Path
<1>2. Unshared(m, lev) /\ lev[p4_table] = 3 /\ p4_table \in Memory
  BY PagingAssumption, Zenon DEF Tree, Rooted
<1>3. ASSUME NEW i \in Slots, NEW j \in Slots, NEW k \in Slots, i # Last,
             PathOK(m, lev, i, j, k), Has0(m, i, j, k)
      PROVE  /\ Edge(m, lev, p4_table, i) /\ T2(m, i) \in Memory
             /\ Edge(m, lev, T2(m, i), j) /\ T1(m, i, j) \in Memory
             /\ Edge(m, lev, T1(m, i, j), k)
  <2>1. Has2(m, i) /\ Has1(m, i, j)
    BY <1>3, Zenon DEF Has0, Has1
  <2>2. p4_table # p2_table /\ lev[p2_table] = 1
    BY TablesAssumption, Zenon DEF Tree, Rooted
  <2>3. Edge(m, lev, p4_table, i)
    BY <1>2, <1>3, <2>1, <2>2 DEF Edge, Has2
  <2>4. T2(m, i) \in Memory /\ lev[T2(m, i)] = 2 /\ m[T2(m, i)][j].present
    BY <1>3, <2>1, Zenon DEF PathOK, Has1
  <2>5. T1(m, i, j) \in Memory /\ lev[T1(m, i, j)] = 1 /\ m[T1(m, i, j)][k].present
        /\ T1(m, i, j) # p2_table
    BY <1>3, <2>1, Zenon DEF PathOK, Has0
  <2>6. Edge(m, lev, T2(m, i), j)
    BY <1>2, <2>2, <2>4 DEF Edge
  <2>7. Edge(m, lev, T1(m, i, j), k)
    BY <1>2, <2>5 DEF Edge
  <2> QED BY <2>3, <2>4, <2>5, <2>6, <2>7, Zenon
<1>4. /\ Edge(m, lev, p4_table, a) /\ T2(m, a) \in Memory
      /\ Edge(m, lev, T2(m, a), b) /\ T1(m, a, b) \in Memory
      /\ Edge(m, lev, T1(m, a, b), c)
  BY <1>1, <1>3
<1>5. /\ Edge(m, lev, p4_table, x) /\ T2(m, x) \in Memory
      /\ Edge(m, lev, T2(m, x), y) /\ T1(m, x, y) \in Memory
      /\ Edge(m, lev, T1(m, x, y), z)
  BY <1>1, <1>3
<1>6. T1(m, a, b) = T1(m, x, y) /\ c = z
  <2>1. m[T1(m, a, b)][c].frame = m[T1(m, x, y)][z].frame
    BY DEF T0
  <2> QED BY <1>2, <1>4, <1>5, <2>1, ZenonT(30) DEF Unshared
<1>7. T2(m, a) = T2(m, x) /\ b = y
  <2>1. m[T2(m, a)][b].frame = m[T2(m, x)][y].frame
    BY <1>6 DEF T1
  <2> QED BY <1>2, <1>4, <1>5, <2>1 DEF Unshared
<1>8. a = x
  <2>1. m[p4_table][a].frame = m[p4_table][x].frame
    BY <1>7 DEF T2
  <2> QED BY <1>2, <1>4, <1>5, <2>1, Zenon DEF Unshared
<1> QED BY <1>6, <1>7, <1>8

-----------------------------------------------------------------------------
(* An entry of a P1 table belongs to one page.                             *)
LeafOK(m, lev, n, a, b, c, d, e, m2) ==
  /\ Tree(m2, lev, n)
  /\ Has0(m2, a, b, c) /\ T0(m2, a, b, c) = T0(m, a, b, c)
  /\ m2[T0(m, a, b, c)][d] = e
  /\ \A x, y, z, w \in Slots :
       x # Last /\ Page(x, y, z, w) # Page(a, b, c, d) =>
         View(m2, x, y, z, w) = View(m, x, y, z, w)

LEMMA Leaf ==
  ASSUME NEW m, NEW lev, NEW n \in Nat \ {0}, Tree(m, lev, n),
         NEW a \in Slots, NEW b \in Slots, NEW c \in Slots, NEW d \in Slots,
         a # Last, Has0(m, a, b, c), NEW e \in EntryType, e.frame = 0,
         NEW m2, m2 = [m EXCEPT ![T0(m, a, b, c)] = [m[T0(m, a, b, c)] EXCEPT ![d] = e]]
  PROVE  LeafOK(m, lev, n, a, b, c, d, e, m2)
<1> DEFINE f == T0(m, a, b, c)
<1>1. f \in Memory /\ lev[f] = 0
  BY Path DEF PathOK
<1>2. lev \in Levels /\ m \in [Memory -> [Slots -> EntryType]] /\ Spare(m, lev, n) /\ Plain(m, lev)
  BY DEF Tree
<1> HIDE DEF f
<1>3. m2 = [m EXCEPT ![f] = [m[f] EXCEPT ![d] = e]]
  BY DEF f
<1>4. m2 \in [Memory -> [Slots -> EntryType]]
  <2> DEFINE row == [m[f] EXCEPT ![d] = e]
  <2>1. row \in [Slots -> EntryType]
    BY ONLY <1>1, <1>2, d \in Slots, e \in EntryType
  <2> HIDE DEF row
  <2>2. m2 = [m EXCEPT ![f] = row]
    BY <1>3, Zenon DEF row
  <2> QED BY ONLY <1>1, <1>2, <2>1, <2>2
<1>5. /\ \A g \in Memory : g # f => m2[g] = m[g]
      /\ \A j \in Slots : m2[f][j] = IF j = d THEN e ELSE m[f][j]
  BY <1>1, <1>2, <1>3
<1>6. \A g \in Memory : lev[g] \in 1 .. 3 => m2[g] = m[g]
  BY <1>1, <1>5
<1>7. \A g \in Memory, j \in Slots : lev[g] = 0 => m2[g][j].frame = 0
  BY <1>2, <1>5 DEF Plain
<1>8. \A k \in 1 .. MAX_CHUNK : k >= n => m2[AllocatedAddress(k)] = EmptyTable
  BY <1>1, <1>2, <1>5, ChunkFrames DEF Spare
<1>9. Tree(m2, lev, n)
  BY <1>4, <1>6, <1>7, <1>8, KeepTree, Zenon
<1>10. ASSUME NEW x \in Slots, NEW y \in Slots, NEW z \in Slots, x # Last
       PROVE  /\ Has0(m2, x, y, z) <=> Has0(m, x, y, z)
              /\ Huge(m2, x, y, z) <=> Huge(m, x, y, z)
              /\ Has0(m, x, y, z) => T0(m2, x, y, z) = T0(m, x, y, z)
              /\ Huge(m, x, y, z) => m2[T1(m2, x, y)][z] = m[T1(m, x, y)][z]
  BY ONLY <1>6, <1>10, Tree(m, lev, n), SamePaths
<1>11. ASSUME NEW x \in Slots, NEW y \in Slots, NEW z \in Slots, NEW w \in Slots,
              x # Last, Page(x, y, z, w) # Page(a, b, c, d)
       PROVE  View(m2, x, y, z, w) = View(m, x, y, z, w)
  <2>1. CASE Has0(m, x, y, z)
    <3>1. T0(m, x, y, z) \in Memory /\ T0(m2, x, y, z) = T0(m, x, y, z) /\ Has0(m2, x, y, z)
      <4>1. PathOK(m, lev, x, y, z)
        BY ONLY <1>11, Tree(m, lev, n), Path
      <4> QED BY ONLY <1>10, <1>11, <2>1, <4>1, Zenon DEF PathOK
    <3>2. m2[T0(m, x, y, z)][w] = m[T0(m, x, y, z)][w]
      <4>1. CASE T0(m, x, y, z) = f
        <5>1. x = a /\ y = b /\ z = c
          BY <1>11, <2>1, <4>1, OnePath DEF f
        <5>2. w # d
          BY <1>11, <5>1
        <5> QED BY <1>5, <4>1, <5>2
      <4>2. CASE T0(m, x, y, z) # f
        BY ONLY <1>5, <3>1, <4>2, Zenon
      <4> QED BY <4>1, <4>2
    <3>3. ~ Huge(m, x, y, z) /\ ~ Huge(m2, x, y, z)
      BY <2>1, <3>1 DEF Has0, Huge
    <3> QED BY <2>1, <3>1, <3>2, <3>3, Zenon DEF View
  <2>2. CASE ~ Has0(m, x, y, z)
    <3>1. /\ ~ Has0(m2, x, y, z) /\ (Huge(m2, x, y, z) <=> Huge(m, x, y, z))
          /\ Huge(m, x, y, z) => m2[T1(m2, x, y)][z] = m[T1(m, x, y)][z]
      BY <1>10, <1>11, <2>2, Zenon
    <3> QED BY <2>2, <3>1, Zenon DEF View
  <2> QED BY <2>1, <2>2
<1>12. Has0(m2, a, b, c) /\ T0(m2, a, b, c) = T0(m, a, b, c)
  BY <1>10, ZenonT(40)
<1>13. m2[T0(m, a, b, c)][d] = e
  BY <1>5 DEF f
<1> QED BY ONLY <1>9, <1>11, <1>12, <1>13 DEF LeafOK
=============================================================================
