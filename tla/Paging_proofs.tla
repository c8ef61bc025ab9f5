--------------------------- MODULE Paging_proofs ---------------------------
(***************************************************************************)
(* Proofs about Paging, for every size of the tables, every number of      *)
(* pages and every sequence of map, identity_map and unmap: each change of *)
(* the tables leaves them a tree, and changes no other page.               *)
(***************************************************************************)
EXTENDS PagingTree_proofs, TLAPS

(* A translation that is kept is that of the tables, unless unmap is about *)
(* to flush it or map has changed it.                                      *)
Kept ==
  \A t \in tlb :
    /\ t.page \in Pages
    /\ t.page \notin remapped /\ (pc # "idle" => t.page # target) =>
         Translation(mem, t.page) = {t.down}

IInv ==
  /\ \E lev \in Levels : Tree(mem, lev, next)
  /\ next \in Nat \ {0}
  /\ pc \in {"idle", "deallocate", "flush"}
  /\ pc # "idle" => target \in Pages
  /\ pc = "deallocate" => ToP1(mem, target).kind = "table"
  /\ last.page \in 0 .. FRAME_T - 1
  /\ Kept
  /\ MapTakesEffect

-----------------------------------------------------------------------------
(* A table that next_table_create adds, as an entry of table f: it is      *)
(* empty and of the next level.                                            *)
Grown(m, n, f, i) ==
  [m EXCEPT ![f] = [m[f] EXCEPT ![i] = Entry(AllocatedAddress(n), FALSE)]]

Bare(m, lev, n, f, i) ==
  /\ Tree(m, lev, n) /\ n \in 1 .. MAX_CHUNK
  /\ f \in Memory /\ i \in Slots /\ lev[f] \in 1 .. 3 /\ f # p2_table
  /\ (f = p4_table => i # Last) /\ ~ m[f][i].present

GrowsTo(m, lev, f, i, new, m2) ==
  /\ new \in Memory /\ new # f /\ lev[new] = -1 /\ new >= 8
  /\ new \notin {p4_table, p3_table, p2_table}
  /\ m2 \in [Memory -> [Slots -> EntryType]]
  /\ \A g \in Memory : g # f => m2[g] = m[g]
  /\ \A j \in Slots : j # i => m2[f][j] = m[f][j]
  /\ m2[f][i] = Entry(new, FALSE)
  /\ m2[f][i].present /\ ~ m2[f][i].huge /\ m2[f][i].frame = new
  /\ \A j \in Slots : ~ m2[new][j].present /\ ~ m2[new][j].huge /\ m2[new][j].frame = 0

LEMMA GrowFacts ==
  ASSUME NEW m, NEW lev, NEW n, NEW f, NEW i, Bare(m, lev, n, f, i),
         NEW m2, m2 = Grown(m, n, f, i), NEW new, new = AllocatedAddress(n)
  PROVE  GrowsTo(m, lev, f, i, new, m2)
<1>1. /\ m \in [Memory -> [Slots -> EntryType]] /\ lev \in Levels /\ Spare(m, lev, n)
      /\ f \in Memory /\ i \in Slots /\ lev[f] \in 1 .. 3 /\ n \in 1 .. MAX_CHUNK
  BY DEF Tree, Bare
<1>2. n \in Nat /\ MAX_CHUNK \in Nat
  BY <1>1, SizeAssumption
<1>3. new \in Memory /\ new >= 8 /\ new \notin {p4_table, p3_table, p2_table}
  BY <1>1, ChunkFrames
<1>4. lev[new] = -1 /\ m[new] = EmptyTable
  BY <1>1, <1>2 DEF Spare
<1>5. new # f
  BY <1>1, <1>4
<1> DEFINE e == Entry(new, FALSE)
           row == [m[f] EXCEPT ![i] = e]
<1>6. e.present /\ ~ e.huge /\ e.frame = new /\ e \in EntryType
  BY <1>3, PagingAssumption DEF Entry, EntryType
<1> HIDE DEF e
<1>7. row \in [Slots -> EntryType] /\ row[i] = e /\ \A j \in Slots : j # i => row[j] = m[f][j]
  BY ONLY <1>1, <1>6
<1>8. m2 = [m EXCEPT ![f] = row]
  BY DEF Grown, e
<1> HIDE DEF row
<1>9. /\ m2 \in [Memory -> [Slots -> EntryType]] /\ m2[f] = row
      /\ \A g \in Memory : g # f => m2[g] = m[g]
  BY ONLY <1>1, <1>7, <1>8
<1>10. \A j \in Slots : ~ m2[new][j].present /\ ~ m2[new][j].huge /\ m2[new][j].frame = 0
  <2>1. m2[new] = EmptyTable
    BY ONLY <1>3, <1>4, <1>5, <1>9
  <2>2. \A j \in Slots : EmptyTable[j] = NoEntry
    BY DEF EmptyTable, Slots
  <2>3. ~ NoEntry.present /\ ~ NoEntry.huge /\ NoEntry.frame = 0
    BY DEF NoEntry
  <2> QED BY ONLY <2>1, <2>2, <2>3
<1>11. m2[f][i] = e /\ m2[f][i].present /\ ~ m2[f][i].huge /\ m2[f][i].frame = new
  BY ONLY <1>6, <1>7, <1>9
<1>12. \A j \in Slots : j # i => m2[f][j] = m[f][j]
  BY ONLY <1>7, <1>9
<1>13. m2[f][i] = Entry(new, FALSE)
  BY ONLY <1>11 DEF e
<1> QED BY ONLY <1>3, <1>4, <1>5, <1>9, <1>10, <1>11, <1>12, <1>13, Zenon DEF GrowsTo

LEMMA GrowTree ==
  ASSUME NEW m, NEW lev, NEW n, NEW f, NEW i, Bare(m, lev, n, f, i)
  PROVE  Tree(Grown(m, n, f, i), [lev EXCEPT ![AllocatedAddress(n)] = lev[f] - 1], n + 1)
<1> DEFINE new == AllocatedAddress(n)
           m2 == Grown(m, n, f, i)
           lev2 == [lev EXCEPT ![new] = lev[f] - 1]
<1>1. /\ new \in Memory /\ new # f /\ lev[new] = -1 /\ new >= 8
      /\ new \notin {p4_table, p3_table, p2_table}
      /\ m2 \in [Memory -> [Slots -> EntryType]]
      /\ \A g \in Memory : g # f => m2[g] = m[g]
      /\ \A j \in Slots : j # i => m2[f][j] = m[f][j]
      /\ m2[f][i] = Entry(new, FALSE)
      /\ m2[f][i].present /\ ~ m2[f][i].huge /\ m2[f][i].frame = new
      /\ \A j \in Slots : ~ m2[new][j].present /\ ~ m2[new][j].huge /\ m2[new][j].frame = 0
  <2>1. GrowsTo(m, lev, f, i, new, m2)
    BY GrowFacts
  <2> QED BY ONLY <2>1, Zenon DEF GrowsTo
<1>2. /\ Rooted(m, lev) /\ Descends(m, lev) /\ Unshared(m, lev) /\ Plain(m, lev)
      /\ Spare(m, lev, n) /\ lev \in Levels /\ n \in 1 .. MAX_CHUNK
      /\ f \in Memory /\ i \in Slots /\ lev[f] \in 1 .. 3 /\ f # p2_table
      /\ (f = p4_table => i # Last) /\ ~ m[f][i].present
  BY Zenon DEF Tree, Bare
<1>3. lev2 \in Levels /\ lev2[new] = lev[f] - 1 /\ \A g \in Memory : g # new => lev2[g] = lev[g]
  BY ONLY <1>1, <1>2 DEF Levels
<1> HIDE DEF new, m2, lev2
<1>4. Rooted(m2, lev2)
  <2>1. {p4_table, p3_table, p2_table} \subseteq Memory /\ 0 \in Slots /\ Last \in Slots
    BY PagingAssumption, SizeAssumption DEF Slots, Last
  <2>2. m[p4_table][Last].present /\ m[p4_table][0].present /\ m[p3_table][0].present
    BY <1>2, RootEntries, Zenon
  <2>3. /\ m2[p4_table][Last] = m[p4_table][Last] /\ m2[p4_table][0] = m[p4_table][0]
        /\ m2[p3_table][0] = m[p3_table][0] /\ m2[p2_table] = m[p2_table]
    BY ONLY <1>1, <1>2, <2>1, <2>2
  <2>4. /\ lev2[p4_table] = lev[p4_table] /\ lev2[p3_table] = lev[p3_table]
        /\ lev2[p2_table] = lev[p2_table]
    BY ONLY <1>1, <1>3, <2>1
  <2> QED BY ONLY <1>2, <2>3, <2>4, Zenon DEF Rooted
<1>5. \A g \in Memory, j \in Slots :
        /\ Edge(m2, lev2, g, j) => Edge(m, lev, g, j) \/ (g = f /\ j = i)
        /\ Edge(m, lev, g, j) => g # new /\ m2[g][j] = m[g][j] /\ lev2[g] = lev[g]
        /\ Edge(m2, lev2, g, j) => g # new
  <2> SUFFICES ASSUME NEW g \in Memory, NEW j \in Slots
               PROVE  /\ Edge(m2, lev2, g, j) => Edge(m, lev, g, j) \/ (g = f /\ j = i)
                      /\ Edge(m, lev, g, j) => g # new /\ m2[g][j] = m[g][j] /\ lev2[g] = lev[g]
                      /\ Edge(m2, lev2, g, j) => g # new
    OBVIOUS
  <2>1. CASE g = new
    BY ONLY <1>1, <2>1, j \in Slots DEF Edge
  <2>2. CASE g # new /\ g = f /\ j = i
    BY ONLY <1>2, <2>2, Zenon DEF Edge
  <2>3. CASE g # new /\ ~ (g = f /\ j = i)
    <3>1. m2[g][j] = m[g][j] /\ lev2[g] = lev[g]
      BY ONLY <1>1, <1>3, <2>3, g \in Memory, j \in Slots
    <3> QED BY ONLY <2>3, <3>1 DEF Edge
  <2> QED BY ONLY <2>1, <2>2, <2>3
<1>6. Descends(m2, lev2)
  <2> SUFFICES ASSUME NEW g \in Memory, NEW j \in Slots, Edge(m2, lev2, g, j)
               PROVE  m2[g][j].frame \in Memory /\ lev2[m2[g][j].frame] = lev2[g] - 1
    BY Zenon DEF Descends
  <2>1. CASE g = f /\ j = i
    BY ONLY <1>1, <1>2, <1>3, <2>1, Zenon
  <2>2. CASE Edge(m, lev, g, j)
    <3>1. m2[g][j] = m[g][j] /\ lev2[g] = lev[g] /\ lev[g] \in 1 .. 3
      BY ONLY <1>5, <2>2, g \in Memory, j \in Slots DEF Edge
    <3>2. m[g][j].frame \in Memory /\ lev[m[g][j].frame] = lev[g] - 1
      BY ONLY <1>2, <2>2, g \in Memory, j \in Slots, Zenon DEF Descends
    <3>3. m[g][j].frame # new
      BY ONLY <1>1, <3>1, <3>2
    <3> QED BY ONLY <1>3, <3>1, <3>2, <3>3
  <2> QED BY ONLY <1>5, <2>1, <2>2, Edge(m2, lev2, g, j), g \in Memory, j \in Slots
<1>7. Unshared(m2, lev2)
  <2>1. ASSUME NEW g \in Memory, NEW j \in Slots, Edge(m, lev, g, j)
        PROVE  m2[g][j] = m[g][j] /\ m[g][j].frame # new
    <3>1. lev[m[g][j].frame] = lev[g] - 1 /\ lev[g] \in 1 .. 3
      BY ONLY <1>2, <2>1, Zenon DEF Descends, Edge
    <3> QED BY ONLY <1>1, <1>5, <2>1, <3>1
  <2> SUFFICES ASSUME NEW g \in Memory, NEW h \in Memory, NEW j \in Slots, NEW k \in Slots,
                      Edge(m2, lev2, g, j), Edge(m2, lev2, h, k),
                      m2[g][j].frame = m2[h][k].frame
               PROVE  g = h /\ j = k
    BY DEF Unshared
  <2>2. /\ Edge(m, lev, g, j) \/ (g = f /\ j = i)
        /\ Edge(m, lev, h, k) \/ (h = f /\ k = i)
    BY ONLY <1>5, g \in Memory, h \in Memory, j \in Slots, k \in Slots,
            Edge(m2, lev2, g, j), Edge(m2, lev2, h, k)
  <2>3. CASE Edge(m, lev, g, j) /\ Edge(m, lev, h, k)
    <3>1. m[g][j].frame = m[h][k].frame
      BY <2>1, <2>3
    <3> QED BY ONLY <1>2, <2>3, <3>1, g \in Memory, h \in Memory, j \in Slots, k \in Slots
            DEF Unshared
  <2>4. CASE Edge(m, lev, g, j) /\ h = f /\ k = i
    <3>1. m2[g][j].frame # new
      BY <2>1, <2>4
    <3>2. m2[h][k].frame = new
      BY ONLY <1>1, <2>4, Zenon
    <3> QED BY <3>1, <3>2
  <2>5. CASE g = f /\ j = i /\ Edge(m, lev, h, k)
    <3>1. m2[h][k].frame # new
      BY <2>1, <2>5
    <3>2. m2[g][j].frame = new
      BY ONLY <1>1, <2>5, Zenon
    <3> QED BY <3>1, <3>2
  <2> QED BY ONLY <2>2, <2>3, <2>4, <2>5
<1>8. Plain(m2, lev2)
  <2> SUFFICES ASSUME NEW g \in Memory, NEW j \in Slots
               PROVE  /\ lev2[g] \in 1 .. 3 /\ g # p2_table => ~ m2[g][j].huge
                      /\ lev2[g] = 0 => m2[g][j].frame = 0
    BY DEF Plain
  <2>1. CASE g = new
    BY ONLY <1>1, <2>1, j \in Slots
  <2>2. CASE g # new /\ g = f /\ j = i
    <3>1. lev2[g] \in 1 .. 3
      BY ONLY <1>2, <1>3, <2>2
    <3>2. ~ m2[g][j].huge
      BY ONLY <1>1, <2>2, Zenon
    <3> QED BY ONLY <3>1, <3>2
  <2>3. CASE g # new /\ ~ (g = f /\ j = i)
    <3>1. m2[g][j] = m[g][j] /\ lev2[g] = lev[g]
      BY ONLY <1>1, <1>3, <2>3, g \in Memory, j \in Slots
    <3> QED BY ONLY <1>2, <3>1, g \in Memory, j \in Slots DEF Plain
  <2> QED BY ONLY <2>1, <2>2, <2>3
<1>9. Spare(m2, lev2, n + 1)
  <2>1. \A g \in Memory : g < 8 => lev2[g] = -1
    <3>1. \A g \in Memory : g < 8 => g # new /\ lev[g] = -1
      BY <1>1, <1>2, PagingAssumption DEF Spare
    <3> QED BY ONLY <1>3, <3>1
  <2>2. ASSUME NEW k \in 1 .. MAX_CHUNK, k >= n + 1
        PROVE  lev2[AllocatedAddress(k)] = -1 /\ m2[AllocatedAddress(k)] = EmptyTable
    <3>1. k # n /\ k >= n
      BY <1>2, <2>2
    <3>2. AllocatedAddress(k) \in Memory /\ AllocatedAddress(k) # new
      BY <1>2, <3>1, ChunkFrames DEF new
    <3>3. lev[AllocatedAddress(k)] = -1 /\ m[AllocatedAddress(k)] = EmptyTable
      BY <1>2, <3>1 DEF Spare
    <3>4. AllocatedAddress(k) # f
      BY <1>2, <3>3
    <3> QED BY ONLY <1>1, <1>3, <3>2, <3>3, <3>4
  <2> QED BY ONLY <2>1, <2>2 DEF Spare
<1>10. Tree(m2, lev2, n + 1)
  BY ONLY <1>1, <1>3, <1>4, <1>6, <1>7, <1>8, <1>9, Zenon DEF Tree
<1> QED BY <1>10 DEF new, m2, lev2

(* A new table adds no page: it is empty.                                  *)
LEMMA GrowView ==
  ASSUME NEW m, NEW lev, NEW n, NEW f, NEW i, Bare(m, lev, n, f, i),
         NEW a \in Slots, NEW b \in Slots, NEW c \in Slots, NEW d \in Slots, a # Last
  PROVE  View(Grown(m, n, f, i), a, b, c, d) = View(m, a, b, c, d)
<1> DEFINE new == AllocatedAddress(n)
           m2 == Grown(m, n, f, i)
           t2 == T2(m, a)
           t1 == T1(m, a, b)
           t0 == T0(m, a, b, c)
<1>1. /\ new \in Memory /\ new # f
      /\ \A g \in Memory : g # f => m2[g] = m[g]
      /\ \A j \in Slots : j # i => m2[f][j] = m[f][j]
      /\ m2[f][i].present /\ ~ m2[f][i].huge /\ m2[f][i].frame = new
      /\ \A j \in Slots : ~ m2[new][j].present
  <2>1. GrowsTo(m, lev, f, i, new, m2)
    BY GrowFacts
  <2> QED BY ONLY <2>1, Zenon DEF GrowsTo
<1>2. /\ f \in Memory /\ i \in Slots /\ lev[f] \in 1 .. 3 /\ f # p2_table /\ ~ m[f][i].present
      /\ Tree(m, lev, n) /\ p4_table \in Memory
  BY PagingAssumption DEF Bare
<1>3. PathOK(m, lev, a, b, c)
  BY <1>2, Path
<1>4. \A g \in Memory, j \in Slots : ~ (g = f /\ j = i) => m2[g][j] = m[g][j]
  BY ONLY <1>1, <1>2, Zenon
<1> HIDE DEF new, m2
<1>5. View(m2, a, b, c, d) = View(m, a, b, c, d)
  <2>1. CASE f = p4_table /\ i = a
    <3>1. ~ Has0(m, a, b, c) /\ ~ Huge(m, a, b, c)
      BY <1>2, <2>1, Zenon DEF Has0, Huge, Has1, Has2
    <3>2. T2(m2, a) = new
      BY ONLY <1>1, <2>1, Zenon DEF T2
    <3>3. ~ Has0(m2, a, b, c) /\ ~ Huge(m2, a, b, c)
      BY ONLY <1>1, <3>2, Zenon DEF Has0, Huge, Has1
    <3> QED BY <3>1, <3>3, Zenon DEF View
  <2>2. CASE ~ (f = p4_table /\ i = a) /\ ~ Has2(m, a)
    <3>1. m2[p4_table][a] = m[p4_table][a]
      BY <1>2, <1>4, <2>2, Zenon
    <3> QED BY <2>2, <3>1, Zenon DEF View, Has0, Huge, Has1, Has2
  <2>3. CASE ~ (f = p4_table /\ i = a) /\ Has2(m, a)
    <3>1. m2[p4_table][a] = m[p4_table][a]
      BY <1>2, <1>4, <2>3
    <3>2. T2(m2, a) = t2 /\ Has2(m2, a) /\ t2 \in Memory
      BY <1>3, <2>3, <3>1, Zenon DEF T2, Has2, PathOK
    <3>3. CASE f = t2 /\ i = b
      <4>1. ~ Has0(m, a, b, c) /\ ~ Huge(m, a, b, c)
        BY <1>2, <3>3, Zenon DEF Has0, Huge, Has1
      <4>2. T1(m2, a, b) = new
        BY ONLY <1>1, <3>2, <3>3 DEF T1
      <4>3. ~ Has0(m2, a, b, c) /\ ~ Huge(m2, a, b, c)
        BY <1>1, <4>2 DEF Has0, Huge
      <4> QED BY <4>1, <4>3, Zenon DEF View
    <3>4. CASE ~ (f = t2 /\ i = b)
      <4>1. m2[t2][b] = m[t2][b]
        BY <1>4, <3>2, <3>4
      <4>2. T1(m2, a, b) = t1 /\ (Has1(m2, a, b) <=> Has1(m, a, b))
        BY ONLY <2>3, <3>2, <4>1 DEF T1, Has1
      <4>3. CASE ~ Has1(m, a, b)
        BY <4>2, <4>3, Zenon DEF View, Has0, Huge
      <4>4. CASE Has1(m, a, b) /\ f = t1 /\ i = c
        <5>1. ~ Has0(m, a, b, c) /\ ~ Huge(m, a, b, c)
          BY <1>2, <4>4, Zenon DEF Has0, Huge
        <5>2. T0(m2, a, b, c) = new /\ ~ Huge(m2, a, b, c)
          BY ONLY <1>1, <4>2, <4>4, Zenon DEF T0, Huge
        <5>3. ~ m2[T0(m2, a, b, c)][d].present
          BY <1>1, <5>2
        <5> QED BY <5>1, <5>2, <5>3, Zenon DEF View
      <4>5. CASE Has1(m, a, b) /\ ~ (f = t1 /\ i = c)
        <5>1. m2[t1][c] = m[t1][c]
          BY <1>3, <1>4, <4>5, Zenon DEF PathOK
        <5>2. /\ T0(m2, a, b, c) = t0 /\ (Has0(m2, a, b, c) <=> Has0(m, a, b, c))
              /\ (Huge(m2, a, b, c) <=> Huge(m, a, b, c))
          BY ONLY <4>2, <4>5, <5>1 DEF T0, Has0, Huge
        <5>3. Has0(m, a, b, c) => m2[t0] = m[t0]
          BY <1>1, <1>2, <1>3 DEF PathOK
        <5>4. Has0(m, a, b, c) => m2[T0(m2, a, b, c)] = m[T0(m, a, b, c)]
          BY <5>2, <5>3
        <5>5. m2[T1(m2, a, b)][c] = m[T1(m, a, b)][c]
          BY <4>2, <5>1
        <5>6. CASE Has0(m, a, b, c)
          <6>1. m2[T0(m2, a, b, c)] = m[T0(m, a, b, c)] /\ Has0(m2, a, b, c)
                /\ ~ Huge(m, a, b, c) /\ ~ Huge(m2, a, b, c)
            BY <5>2, <5>4, <5>6 DEF Has0, Huge
          <6> QED BY <5>6, <6>1, Zenon DEF View
        <5>7. CASE ~ Has0(m, a, b, c)
          BY <5>2, <5>5, <5>7, Zenon DEF View
        <5> QED BY <5>6, <5>7
      <4> QED BY ONLY <4>3, <4>4, <4>5, Zenon
    <3> QED BY <3>3, <3>4
  <2> QED BY <2>1, <2>2, <2>3
<1> QED BY <1>5 DEF m2

-----------------------------------------------------------------------------
(* map, table by table.                                                    *)
LEMMA Later ==
  ASSUME NEW m, NEW lev, NEW n \in Nat, NEW k \in Nat, k >= n, Tree(m, lev, n)
  PROVE  Tree(m, lev, k)
<1>1. Spare(m, lev, k)
  <2>1. \A j \in 1 .. MAX_CHUNK : j >= k => j >= n
    BY SizeAssumption
  <2> QED BY <2>1 DEF Tree, Spare
<1> QED BY <1>1 DEF Tree

SameViews(m, m2) ==
  \A a, b, c, d \in Slots : a # Last => View(m2, a, b, c, d) = View(m, a, b, c, d)

Sound(m, n) == \E lev \in Levels : Tree(m, lev, n)

(* Entry i of table f, and no other, was made present.                     *)
Provided(m, m2, f, i) ==
  /\ \A g \in Memory, j \in Slots : ~ (g = f /\ j = i) => m2[g][j] = m[g][j]
  /\ m[f][i].present => m2 = m
  /\ m2[f][i].present /\ SameViews(m, m2)

(* An assignment through a pointer changes one entry of the frame that the *)
(* pointer leads to.                                                       *)
LEMMA WriteIs ==
  ASSUME NEW m, NEW n, NEW table, NEW i, NEW e, NEW f, Down(m, table).frame = f
  PROVE  Write([mem |-> m, next |-> n], table, i, e) =
           [mem |-> [m EXCEPT ![f] = [m[f] EXCEPT ![i] = e]], next |-> n]
BY DEF Write

(* What next_table_create makes of an entry.                               *)
LEMMA NewEntry ==
  ASSUME NEW x \in EntryType, ~ x.huge, NEW addr
  PROVE  [set_addr_mask(x, addr) EXCEPT !.present = TRUE, !.writable = TRUE] = Entry(addr, FALSE)
<1>1. PICK p, w, h, f : x = [present |-> p, writable |-> w, huge |-> h, frame |-> f]
  <2>1. x = [present |-> x.present, writable |-> x.writable, huge |-> x.huge, frame |-> x.frame]
    BY DEF EntryType
  <2> QED BY ONLY <2>1, Zenon
<1>2. h = FALSE
  <2>1. h = x.huge
    BY ONLY <1>1
  <2>2. x.huge \in BOOLEAN
    BY DEF EntryType
  <2> QED BY <2>1, <2>2
<1>3. ASSUME NEW t
      PROVE  [set_addr_mask(x, addr) EXCEPT !.present = t, !.writable = t] =
               [present |-> t, writable |-> t, huge |-> h, frame |-> addr]
  <2>1. set_addr_mask(x, addr) = [present |-> p, writable |-> w, huge |-> h, frame |-> addr]
    BY ONLY <1>1 DEF set_addr_mask
  <2> DEFINE y == [present |-> p, writable |-> w, huge |-> h, frame |-> addr]
             z == [y EXCEPT !.present = t, !.writable = t]
  <2>2. DOMAIN z = {"present", "writable", "huge", "frame"}
    OBVIOUS
  <2>3. z["present"] = t /\ z["writable"] = t /\ z["huge"] = h /\ z["frame"] = addr
    OBVIOUS
  <2>4. z = [j \in {"present", "writable", "huge", "frame"} |-> z[j]]
    BY Zenon
  <2>5. z = [present |-> t, writable |-> t, huge |-> h, frame |-> addr]
    <3> HIDE DEF z
    <3> QED BY ONLY <2>2, <2>3, <2>4
  <2> QED BY ONLY <2>1, <2>5, Zenon
<1> QED BY <1>2, <1>3, Zenon DEF Entry

LEMMA CreateStep ==
  ASSUME NEW m, NEW lev, NEW n \in 1 .. MAX_CHUNK, Tree(m, lev, n),
         NEW f \in Memory, NEW i \in Slots, lev[f] \in 1 .. 3, f = p4_table => i # Last,
         NEW table, Down(m, table).frame = f
  PROVE  \E m2, n2 : /\ next_table_create([mem |-> m, next |-> n], table, i) =
                          [mem |-> m2, next |-> n2]
                     /\ n2 \in n .. n + 1 /\ Sound(m2, n2) /\ Provided(m, m2, f, i)
<1> DEFINE st == [mem |-> m, next |-> n]
<1>1. st.mem = m /\ st.next = n /\ At(m, table, i) = m[f][i]
  BY Zenon DEF At
<1>2. n \in Nat /\ MAX_CHUNK \in Nat /\ lev \in Levels
  BY SizeAssumption DEF Tree
<1>3. CASE m[f][i].present
  <2>1. next_table_create(st, table, i) = st
    BY <1>1, <1>3 DEF next_table_create
  <2>2. Sound(m, n) /\ n \in n .. n + 1
    BY <1>2 DEF Sound
  <2>3. Provided(m, m, f, i)
    BY <1>3 DEF Provided, SameViews
  <2> QED BY <2>1, <2>2, <2>3
<1>4. CASE ~ m[f][i].present
  <2> DEFINE e == [set_addr_mask(m[f][i], AllocatedAddress(n))
                     EXCEPT !.present = TRUE, !.writable = TRUE]
             m2 == Grown(m, n, f, i)
  <2>1. f # p2_table
    <3>1. m[p2_table][i].present
      BY RootEntries, Zenon DEF Tree
    <3> QED BY <1>4, <3>1
  <2>2. Bare(m, lev, n, f, i)
    BY <1>4, <2>1 DEF Bare
  <2>3. e = Entry(AllocatedAddress(n), FALSE)
    <3>1. m[f][i] \in EntryType /\ ~ m[f][i].huge
      BY <2>1 DEF Tree, Plain
    <3> QED BY <3>1, NewEntry, Zenon
  <2>4. [st EXCEPT !.next = @ + 1] = [mem |-> m, next |-> n + 1]
    OBVIOUS
  <2>5. next_table_create(st, table, i) = Write([mem |-> m, next |-> n + 1], table, i, e)
    BY <1>1, <1>4, <2>4, Zenon DEF next_table_create
  <2> HIDE DEF e
  <2>6. next_table_create(st, table, i) = [mem |-> m2, next |-> n + 1]
    <3>1. Write([mem |-> m, next |-> n + 1], table, i, e) =
            [mem |-> [m EXCEPT ![f] = [m[f] EXCEPT ![i] = e]], next |-> n + 1]
      BY WriteIs
    <3> QED BY <2>3, <2>5, <3>1, Zenon DEF Grown
  <2>7. Sound(m2, n + 1)
    <3>1. Tree(m2, [lev EXCEPT ![AllocatedAddress(n)] = lev[f] - 1], n + 1)
      BY <2>2, GrowTree, Zenon
    <3>2. [lev EXCEPT ![AllocatedAddress(n)] = lev[f] - 1] \in Levels
      BY <3>1 DEF Tree
    <3> QED BY <3>1, <3>2 DEF Sound
  <2>8. Provided(m, m2, f, i)
    <3>1. GrowsTo(m, lev, f, i, AllocatedAddress(n), m2)
      BY <2>2, GrowFacts
    <3>2. SameViews(m, m2)
      BY <2>2, GrowView DEF SameViews
    <3> HIDE DEF m2
    <3>3. \A g \in Memory, j \in Slots : ~ (g = f /\ j = i) => m2[g][j] = m[g][j]
      BY ONLY <3>1 DEF GrowsTo
    <3>4. m2[f][i].present
      BY <3>1 DEF GrowsTo
    <3> QED BY ONLY <1>4, <3>2, <3>3, <3>4, Zenon DEF Provided
  <2>9. n + 1 \in n .. n + 1
    BY <1>2
  <2> QED BY <2>6, <2>7, <2>8, <2>9, Zenon
<1> QED BY <1>3, <1>4, Zenon

(* The tables of a page are there after TablesCreated, and no page has     *)
(* changed.                                                                *)
Creates(m, n, page, a, b, c, m2, n2) ==
  /\ TablesCreated([mem |-> m, next |-> n], page) =
       [st |-> [mem |-> m2, next |-> n2],
        table |-> IF Has0(m2, a, b, c) THEN Page(Last, a, b, c) ELSE 0]
  /\ n2 \in Nat \ {0} /\ Sound(m2, n2) /\ SameViews(m, m2)
  /\ Has0(m2, a, b, c) \/ Huge(m2, a, b, c)

LEMMA CreateAll ==
  ASSUME NEW m, NEW lev, NEW n \in 1 .. MAX_CHUNK, n + 2 <= MAX_CHUNK, Tree(m, lev, n),
         NEW page \in 0 .. FRAME_T - 1, NEW a \in Slots, a # Last, NEW b \in Slots,
         NEW c \in Slots, NEW d \in Slots, page = Page(a, b, c, d)
  PROVE  \E m2, n2 : Creates(m, n, page, a, b, c, m2, n2)
<1>1. index(page, 3) = a /\ index(page, 2) = b /\ index(page, 1) = c
  BY CodeIndex
<1>2. MAX_CHUNK \in Nat /\ p4_table \in Memory /\ lev[p4_table] = 3
  BY SizeAssumption, PagingAssumption DEF Tree, Rooted
<1>3. PICK m1, n1 : /\ next_table_create([mem |-> m, next |-> n], P4_TABLE, a) =
                         [mem |-> m1, next |-> n1]
                    /\ n1 \in n .. n + 1 /\ Sound(m1, n1) /\ Provided(m, m1, p4_table, a)
  <2>1. Down(m, P4_TABLE).frame = p4_table
    BY Pointers, Zenon DEF PointersOK
  <2> QED BY <1>2, <2>1, CreateStep
<1>4. PICK lev1 \in Levels : Tree(m1, lev1, n1)
  BY <1>3 DEF Sound
<1>5. Has2(m1, a) /\ n1 \in 1 .. MAX_CHUNK /\ n1 + 1 <= MAX_CHUNK
  BY <1>2, <1>3 DEF Provided, Has2
<1> DEFINE f2 == T2(m1, a)
           p3 == Page(Last, Last, Last, a)
<1>6. next_table_address(m1, P4_TABLE, a) = p3 /\ Down(m1, p3).frame = f2
      /\ f2 \in Memory /\ lev1[f2] = 2
  <2>1. AddressesOK(m1, a, b, c) /\ PointersOK(m1, a, b, c) /\ PathOK(m1, lev1, a, b, c)
    BY <1>4, Addresses, Pointers, Path
  <2> QED BY <1>5, <2>1, Zenon DEF AddressesOK, PointersOK, PathOK
<1>7. f2 # p4_table
  BY ONLY <1>4, <1>6 DEF Tree, Rooted
<1>8. PICK m2, n2 : /\ next_table_create([mem |-> m1, next |-> n1], p3, b) =
                         [mem |-> m2, next |-> n2]
                    /\ n2 \in n1 .. n1 + 1 /\ Sound(m2, n2) /\ Provided(m1, m2, f2, b)
  <2> HIDE DEF f2, p3
  <2>1. lev1[f2] \in 1 .. 3 /\ (f2 = p4_table => b # Last)
    BY <1>6, <1>7
  <2> QED BY ONLY <1>4, <1>5, <1>6, <2>1, b \in Slots, CreateStep, Zenon
<1>9. PICK lev2 \in Levels : Tree(m2, lev2, n2)
  BY <1>8 DEF Sound
<1>10. Has1(m2, a, b) /\ Has2(m2, a) /\ n2 \in 1 .. MAX_CHUNK
  <2>1. m2[p4_table][a] = m1[p4_table][a]
    BY <1>2, <1>7, <1>8, Zenon DEF Provided
  <2>2. T2(m2, a) = f2 /\ Has2(m2, a)
    BY <1>5, <2>1 DEF T2, Has2
  <2>3. m2[T2(m2, a)][b].present
    BY <1>8, <2>2, Zenon DEF Provided
  <2>4. n2 \in 1 .. MAX_CHUNK
    BY <1>2, <1>5, <1>8
  <2> QED BY ONLY <2>2, <2>3, <2>4 DEF Has1
<1> DEFINE f1 == T1(m2, a, b)
           p2 == Page(Last, Last, a, b)
<1>11. next_table_address(m2, p3, b) = p2 /\ Down(m2, p2).frame = f1
       /\ f1 \in Memory /\ lev2[f1] = 1 /\ T2(m2, a) \in Memory /\ lev2[T2(m2, a)] = 2
  <2>1. AddressesOK(m2, a, b, c) /\ PointersOK(m2, a, b, c) /\ PathOK(m2, lev2, a, b, c)
    BY <1>9, Addresses, Pointers, Path
  <2> QED BY <1>10, <2>1, Zenon DEF AddressesOK, PointersOK, PathOK
<1>12. f1 # p4_table /\ f1 # T2(m2, a)
  BY ONLY <1>9, <1>11 DEF Tree, Rooted
<1>13. PICK m3, n3 : /\ next_table_create([mem |-> m2, next |-> n2], p2, c) =
                          [mem |-> m3, next |-> n3]
                     /\ n3 \in n2 .. n2 + 1 /\ Sound(m3, n3) /\ Provided(m2, m3, f1, c)
  <2> HIDE DEF f1, p2
  <2>1. lev2[f1] \in 1 .. 3 /\ (f1 = p4_table => c # Last)
    BY <1>11, <1>12
  <2> QED BY ONLY <1>9, <1>10, <1>11, <2>1, c \in Slots, CreateStep, Zenon
<1>14. PICK lev3 \in Levels : Tree(m3, lev3, n3)
  BY <1>13 DEF Sound
<1>15. Has1(m3, a, b) /\ (Has0(m3, a, b, c) \/ Huge(m3, a, b, c)) /\ n3 \in Nat \ {0}
  <2>1. m3[p4_table][a] = m2[p4_table][a] /\ m3[T2(m2, a)][b] = m2[T2(m2, a)][b]
    BY ONLY <1>2, <1>11, <1>12, <1>13 DEF Provided
  <2>2. T2(m3, a) = T2(m2, a) /\ Has2(m3, a)
    BY <1>10, <2>1, Zenon DEF T2, Has2
  <2>3. T1(m3, a, b) = f1 /\ Has1(m3, a, b)
    BY <1>10, <2>1, <2>2, Zenon DEF T1, Has1
  <2>4. m3[T1(m3, a, b)][c].present
    BY <1>13, <2>3, Zenon DEF Provided
  <2>5. n3 \in Nat \ {0}
    BY <1>10, <1>13
  <2> QED BY ONLY <2>3, <2>4, <2>5 DEF Has0, Huge
<1>16. next_table_address(m3, p2, c) = IF Has0(m3, a, b, c) THEN Page(Last, a, b, c) ELSE 0
  <2>1. AddressesOK(m3, a, b, c)
    BY <1>14, Addresses
  <2> QED BY ONLY <1>15, <2>1, Zenon DEF AddressesOK
<1>17. SameViews(m, m3)
  <2>1. SameViews(m, m1) /\ SameViews(m1, m2) /\ SameViews(m2, m3)
    BY ONLY <1>3, <1>8, <1>13, Zenon DEF Provided
  <2> QED BY ONLY <2>1 DEF SameViews
<1> HIDE DEF p2, p3
<1>18. Created([st |-> [mem |-> m, next |-> n], table |-> P4_TABLE], page, 3) =
         [st |-> [mem |-> m1, next |-> n1], table |-> p3]
  BY <1>1, <1>3, <1>6 DEF Created
<1>19. Created([st |-> [mem |-> m1, next |-> n1], table |-> p3], page, 2) =
         [st |-> [mem |-> m2, next |-> n2], table |-> p2]
  BY <1>1, <1>8, <1>11 DEF Created
<1>20. Created([st |-> [mem |-> m2, next |-> n2], table |-> p2], page, 1) =
         [st |-> [mem |-> m3, next |-> n3],
          table |-> IF Has0(m3, a, b, c) THEN Page(Last, a, b, c) ELSE 0]
  BY <1>1, <1>13, <1>16 DEF Created
<1>21. TablesCreated([mem |-> m, next |-> n], page) =
         [st |-> [mem |-> m3, next |-> n3],
          table |-> IF Has0(m3, a, b, c) THEN Page(Last, a, b, c) ELSE 0]
  BY <1>18, <1>19, <1>20, Zenon DEF TablesCreated
<1> QED BY ONLY <1>13, <1>15, <1>17, <1>21, Zenon DEF Creates

(* The first pages are those of the first huge page: a null pointer leads  *)
(* to frame 0.                                                             *)
LEMMA LowPages ==
  ASSUME NEW m, NEW lev, NEW n, Tree(m, lev, n), NEW v \in 0 .. 7
  PROVE  Down(m, v).frame = v
<1> DEFINE E == PAGE_ENTRIES
           c == v \div E
           d == v % E
<1>1. E \in Nat \ {0} /\ E >= 3
  BY SizeAssumption
<1>2. c \in Nat /\ d \in 0 .. E - 1 /\ v = c * E + d
  BY <1>1
<1>3. c < E
  <2> HIDE DEF c, d
  <2> SUFFICES ASSUME c >= E PROVE FALSE
    BY <1>1, <1>2
  <2>1. PICK x \in Nat, y \in Nat : E = 3 + x /\ c = 3 + y
    <3>1. E - 3 \in Nat /\ c - 3 \in Nat /\ E = 3 + (E - 3) /\ c = 3 + (c - 3)
      BY <1>1, <1>2
    <3> QED BY <3>1
  <2>2. c * E = 9 + 3 * x + 3 * y + x * y /\ x * y \in Nat
    BY <2>1
  <2> QED BY <1>2, <2>2
<1>4. c \in Slots /\ d \in Slots /\ 0 \in Slots /\ 0 # Last
  BY <1>1, <1>2, <1>3 DEF Slots, Last
<1>5. v = Page(0, 0, c, d)
  <2> HIDE DEF c, d
  <2>1. (0 * E + 0) * E + c = c
    BY <1>1, <1>2
  <2> QED BY <1>2, <2>1 DEF Page
<1> HIDE DEF c, d
<1>6. Rooted(m, lev)
  BY DEF Tree
<1>7. T2(m, 0) = p3_table /\ T1(m, 0, 0) = p2_table /\ Has1(m, 0, 0)
  BY <1>6, RootEntries, Zenon DEF T2, T1, Has1, Has2
<1>8. Huge(m, 0, 0, c) /\ m[T1(m, 0, 0)][c].frame = c * E
  BY <1>4, <1>6, <1>7, RootEntries DEF Huge
<1>9. Walked(m, 0, 0, c, d)
  BY <1>4, Walk
<1>10. Down(m, v) = [kind |-> "huge", writable |-> m[T1(m, 0, 0)][c].writable,
                     frame |-> m[T1(m, 0, 0)][c].frame + d]
  BY <1>5, <1>8, <1>9, Zenon DEF Walked
<1>11. Down(m, v).frame = m[T1(m, 0, 0)][c].frame + d
  BY <1>10
<1> QED BY <1>2, <1>8, <1>11, Zenon

(* Pages of a frame_t whose views are the same have the same translation.  *)
LEMMA ViewsTranslate ==
  ASSUME NEW m, NEW m2, SameViews(m, m2), NEW page \in 0 .. FRAME_T - 1
  PROVE  Translation(m2, page) = Translation(m, page)
<1>1. PICK a, b, c, d \in Slots : a # Last /\ page = Page(a, b, c, d)
  BY PageSplit
<1>2. View(m2, a, b, c, d) = View(m, a, b, c, d)
  BY <1>1 DEF SameViews
<1> QED BY <1>1, <1>2, Viewed

(* map_page_to_frame keeps the tree and every other page, and its page has *)
(* the flags given, unless it lies in a huge page.                         *)
MapsOK(m, n, page, frame, flags, m2, n2) ==
  /\ map_page_to_frame([mem |-> m, next |-> n], page, frame, flags) = [mem |-> m2, next |-> n2]
  /\ n2 \in Nat \ {0} /\ Sound(m2, n2)
  /\ \A q \in 0 .. FRAME_T - 1 : q # page => Translation(m2, q) = Translation(m, q)
  /\ \/ Down(m2, page).kind = "huge"
     \/ Down(m2, page).kind = "page" /\ Down(m2, page).writable = flags.writable

LEMMA MappedEntry ==
  ASSUME NEW w
  PROVE  [NoEntry EXCEPT !.present = TRUE, !.writable = w] =
           [present |-> TRUE, writable |-> w, huge |-> FALSE, frame |-> 0]
<1>1. ASSUME NEW t, NEW h
      PROVE  [[present |-> h, writable |-> h, huge |-> h, frame |-> 0]
                EXCEPT !.present = t, !.writable = w] =
             [present |-> t, writable |-> w, huge |-> h, frame |-> 0]
  <2> DEFINE y == [present |-> h, writable |-> h, huge |-> h, frame |-> 0]
             z == [y EXCEPT !.present = t, !.writable = w]
  <2>1. DOMAIN z = {"present", "writable", "huge", "frame"}
    OBVIOUS
  <2>2. z["present"] = t /\ z["writable"] = w /\ z["huge"] = h /\ z["frame"] = 0
    OBVIOUS
  <2>3. z = [j \in {"present", "writable", "huge", "frame"} |-> z[j]]
    BY Zenon
  <2>4. z = [present |-> t, writable |-> w, huge |-> h, frame |-> 0]
    <3> HIDE DEF z
    <3> QED BY ONLY <2>1, <2>2, <2>3
  <2> QED BY <2>4, Zenon
<1> QED BY <1>1, Zenon DEF NoEntry

LEMMA MapStep ==
  ASSUME NEW m, NEW n \in 1 .. MAX_CHUNK, n + 2 <= MAX_CHUNK, Sound(m, n),
         NEW page \in 0 .. FRAME_T - 1, NEW frame, NEW flags \in Flags
  PROVE  \E m2, n2 : MapsOK(m, n, page, frame, flags, m2, n2)
<1>1. PICK lev \in Levels : Tree(m, lev, n)
  BY DEF Sound
<1>2. PICK a, b, c, d \in Slots : a # Last /\ page = Page(a, b, c, d)
  BY PageSplit
<1>3. PICK m1, n1 :
        /\ TablesCreated([mem |-> m, next |-> n], page) =
             [st |-> [mem |-> m1, next |-> n1],
              table |-> IF Has0(m1, a, b, c) THEN Page(Last, a, b, c) ELSE 0]
        /\ n1 \in Nat \ {0} /\ Sound(m1, n1) /\ SameViews(m, m1)
        /\ Has0(m1, a, b, c) \/ Huge(m1, a, b, c)
  <2>1. \E m1, n1 : Creates(m, n, page, a, b, c, m1, n1)
    BY <1>1, <1>2, CreateAll
  <2> QED BY ONLY <2>1, Zenon DEF Creates
<1>4. PICK lev1 \in Levels : Tree(m1, lev1, n1)
  BY <1>3 DEF Sound
<1> DEFINE e == [NoEntry EXCEPT !.present = TRUE, !.writable = flags.writable]
           table == IF Has0(m1, a, b, c) THEN Page(Last, a, b, c) ELSE 0
<1>5. e = [present |-> TRUE, writable |-> flags.writable, huge |-> FALSE, frame |-> 0]
  BY MappedEntry, Zenon
<1>6. e \in EntryType /\ e.frame = 0 /\ e.present /\ e.writable = flags.writable
  <2>1. flags.writable \in BOOLEAN
    BY PagingAssumption
  <2> HIDE DEF e
  <2>2. e \in EntryType
    BY ONLY <1>5, <2>1, Zenon DEF EntryType
  <2> QED BY ONLY <1>5, <2>2
<1>7. map_page_to_frame([mem |-> m, next |-> n], page, frame, flags) =
        Write([mem |-> m1, next |-> n1], table, d, e)
  <2>1. index(page, 0) = d
    BY <1>2, CodeIndex
  <2> QED BY <1>3, <2>1 DEF map_page_to_frame
<1> HIDE DEF e, table
<1>8. CASE Has0(m1, a, b, c)
  <2> DEFINE f == T0(m1, a, b, c)
             m2 == [m1 EXCEPT ![f] = [m1[f] EXCEPT ![d] = e]]
  <2>1. Down(m1, table).frame = f
    <3>1. PointersOK(m1, a, b, c)
      BY <1>2, <1>4, Pointers
    <3> QED BY <1>8, <3>1 DEF PointersOK, table
  <2>2. Write([mem |-> m1, next |-> n1], table, d, e) = [mem |-> m2, next |-> n1]
    BY <2>1, WriteIs
  <2>3. /\ Tree(m2, lev1, n1)
        /\ Has0(m2, a, b, c) /\ T0(m2, a, b, c) = f /\ m2[f][d] = e
        /\ \A x, y, z, w \in Slots :
             x # Last /\ Page(x, y, z, w) # Page(a, b, c, d) =>
               View(m2, x, y, z, w) = View(m1, x, y, z, w)
    <3>1. LeafOK(m1, lev1, n1, a, b, c, d, e, m2)
      BY <1>2, <1>3, <1>4, <1>6, <1>8, Leaf, Zenon
    <3> QED BY ONLY <3>1, Zenon DEF LeafOK
  <2> HIDE DEF m2
  <2>4. ASSUME NEW q \in 0 .. FRAME_T - 1, q # page
        PROVE  Translation(m2, q) = Translation(m, q)
    <3>1. PICK x, y, z, w \in Slots : x # Last /\ q = Page(x, y, z, w)
      BY ONLY PageSplit, Zenon
    <3>2. View(m2, x, y, z, w) = View(m1, x, y, z, w)
      BY <1>2, <2>3, <2>4, <3>1
    <3>3. Translation(m2, q) = Translation(m1, q)
      BY <3>1, <3>2, Viewed
    <3>4. Translation(m1, q) = Translation(m, q)
      BY <1>3, ViewsTranslate
    <3> QED BY <3>3, <3>4
  <2>5. Down(m2, page).kind = "page" /\ Down(m2, page).writable = flags.writable
    <3>1. Walked(m2, a, b, c, d)
      BY Walk
    <3>2. m2[T0(m2, a, b, c)][d] = e
      BY <2>3
    <3>3. Down(m2, page) = [kind |-> "page", writable |-> e.writable, frame |-> e.frame]
      BY <1>2, <1>6, <2>3, <3>1, <3>2, Zenon DEF Walked
    <3>4. Down(m2, page).kind = "page" /\ Down(m2, page).writable = e.writable
      BY ONLY <3>3
    <3> QED BY <1>6, <3>4, Zenon
  <2>6. Sound(m2, n1)
    BY <1>4, <2>3 DEF Sound
  <2>7. MapsOK(m, n, page, frame, flags, m2, n1)
    BY <1>3, <1>7, <2>2, <2>4, <2>5, <2>6, Zenon DEF MapsOK
  <2> QED BY <2>7
<1>9. CASE ~ Has0(m1, a, b, c)
  <2> DEFINE m2 == [m1 EXCEPT ![0] = [m1[0] EXCEPT ![d] = e]]
  <2>1. Down(m1, table).frame = 0
    BY <1>4, <1>9, LowPages DEF table
  <2>2. Write([mem |-> m1, next |-> n1], table, d, e) = [mem |-> m2, next |-> n1]
    BY <2>1, WriteIs
  <2>3. m2 \in [Memory -> [Slots -> EntryType]] /\ \A g \in Memory : g >= 8 => m2[g] = m1[g]
    <3> DEFINE row == [m1[0] EXCEPT ![d] = e]
    <3>1. m1 \in [Memory -> [Slots -> EntryType]] /\ 0 \in Memory
      BY <1>4, PagingAssumption DEF Tree
    <3>2. row \in [Slots -> EntryType]
      BY ONLY <1>6, <3>1, d \in Slots
    <3> HIDE DEF row
    <3>3. m2 = [m1 EXCEPT ![0] = row]
      BY DEF row
    <3> QED BY ONLY <3>1, <3>2, <3>3
  <2> HIDE DEF m2
  <2>4. /\ Tree(m2, lev1, n1)
        /\ \A x, y, z, w \in Slots : x # Last => View(m2, x, y, z, w) = View(m1, x, y, z, w)
    BY ONLY <1>3, <1>4, <2>3, Elsewhere
  <2>5. SameViews(m, m2)
    BY <1>3, <2>4 DEF SameViews
  <2>6. \A q \in 0 .. FRAME_T - 1 : Translation(m2, q) = Translation(m, q)
    BY <2>5, ViewsTranslate
  <2>7. Down(m2, page).kind = "huge"
    <3>1. /\ \A g \in Memory : lev1[g] \in 1 .. 3 => m2[g] = m1[g]
      <4>1. \A g \in Memory : g < 8 => lev1[g] = -1
        BY <1>4 DEF Tree, Spare
      <4>2. \A g \in Memory : lev1[g] \in 1 .. 3 => g >= 8
        BY ONLY <4>1, PagingAssumption
      <4> QED BY ONLY <2>3, <4>2
    <3>2. Huge(m2, a, b, c) <=> Huge(m1, a, b, c)
      BY ONLY <1>2, <1>4, <3>1, SamePaths
    <3>3. Walked(m2, a, b, c, d)
      BY Walk
    <3>4. Huge(m2, a, b, c)
      BY <1>3, <1>9, <3>2
    <3>5. Down(m2, page) = [kind |-> "huge", writable |-> m2[T1(m2, a, b)][c].writable,
                            frame |-> m2[T1(m2, a, b)][c].frame + d]
      BY <1>2, <3>3, <3>4, Zenon DEF Walked
    <3> QED BY <3>5
  <2>8. Sound(m2, n1)
    BY <1>4, <2>4 DEF Sound
  <2>9. MapsOK(m, n, page, frame, flags, m2, n1)
    BY <1>3, <1>7, <2>2, <2>6, <2>7, <2>8, Zenon DEF MapsOK
  <2> QED BY <2>9
<1> QED BY <1>8, <1>9

-----------------------------------------------------------------------------
(* unmap.                                                                  *)

(* An entry keeps its frame when it is cleared or set.                     *)
LEMMA PresentBit ==
  ASSUME NEW x \in EntryType, NEW t \in BOOLEAN
  PROVE  /\ [x EXCEPT !.present = t] \in EntryType
         /\ [x EXCEPT !.present = t].frame = x.frame
         /\ [x EXCEPT !.present = t].present = t
BY DEF EntryType

(* A page with a P1 table, as ToP1 shows it.                               *)
LEMMA HasTable ==
  ASSUME NEW m, NEW a \in Slots, NEW b \in Slots, NEW c \in Slots, NEW d \in Slots
  PROVE  /\ Has0(m, a, b, c) <=> ToP1(m, Page(a, b, c, d)).kind = "table"
         /\ Down(m, Page(a, b, c, d)).kind = "page" => Has0(m, a, b, c)
<1>1. Walked(m, a, b, c, d)
  BY Walk
<1>2. CASE Has0(m, a, b, c)
  <2>1. ToP1(m, Page(a, b, c, d)) = Table(m[T1(m, a, b)][c].writable, T0(m, a, b, c))
    BY <1>1, <1>2, Zenon DEF Walked
  <2>2. ToP1(m, Page(a, b, c, d)).kind = "table"
    BY ONLY <2>1 DEF Table
  <2> QED BY <1>2, <2>2, Zenon
<1>3. CASE ~ Has0(m, a, b, c) /\ Huge(m, a, b, c)
  <2>1. /\ Down(m, Page(a, b, c, d)) =
             [kind |-> "huge", writable |-> m[T1(m, a, b)][c].writable,
              frame |-> m[T1(m, a, b)][c].frame + d]
        /\ ToP1(m, Page(a, b, c, d)).kind = "huge"
    BY <1>1, <1>3, Zenon DEF Walked
  <2>2. Down(m, Page(a, b, c, d)).kind = "huge"
    BY ONLY <2>1
  <2> QED BY <1>3, <2>1, <2>2, Kinds, Zenon
<1>4. CASE ~ Has0(m, a, b, c) /\ ~ Huge(m, a, b, c)
  BY <1>1, <1>4, Zenon DEF Walked
<1> QED BY <1>2, <1>3, <1>4

LEMMA UnmapStep ==
  ASSUME NEW m, NEW n \in Nat \ {0}, Sound(m, n), NEW page \in 0 .. FRAME_T - 1,
         Down(m, page).kind = "page", NEW m2,
         m2 = Write([mem |-> m, next |-> n], p1_table(m, page), index(page, 0),
                    [At(m, p1_table(m, page), index(page, 0)) EXCEPT !.present = FALSE]).mem
  PROVE  /\ Sound(m2, n) /\ ToP1(m2, page).kind = "table"
         /\ \A q \in 0 .. FRAME_T - 1 : q # page => Translation(m2, q) = Translation(m, q)
<1>1. PICK lev \in Levels : Tree(m, lev, n)
  BY DEF Sound
<1>2. PICK a, b, c, d \in Slots : a # Last /\ page = Page(a, b, c, d)
  BY PageSplit
<1>3. Has0(m, a, b, c)
  BY <1>2, HasTable
<1> DEFINE f == T0(m, a, b, c)
           x == m[f][d]
           e == [x EXCEPT !.present = FALSE]
           p1 == p1_table(m, page)
<1>4. index(page, 0) = d /\ At(m, p1, d) = x
  BY <1>1, <1>2, <1>3, CodeIndex, TranslatedPage
<1>5. Down(m, p1).frame = f
  <2>1. p1 = Page(Last, a, b, c)
    BY <1>1, <1>2, <1>3, CodeWalk
  <2>2. PointersOK(m, a, b, c)
    BY <1>1, <1>2, Pointers
  <2> QED BY <1>3, <2>1, <2>2 DEF PointersOK
<1>6. e \in EntryType /\ e.frame = 0
  <2>1. f \in Memory /\ lev[f] = 0
    BY <1>1, <1>2, <1>3, Path DEF PathOK
  <2>2. x \in EntryType /\ x.frame = 0
    BY <1>1, <2>1 DEF Tree, Plain
  <2> QED BY <2>2, PresentBit, Zenon
<1> HIDE DEF e, p1
<1>7. m2 = [m EXCEPT ![f] = [m[f] EXCEPT ![d] = e]]
  <2>1. m2 = Write([mem |-> m, next |-> n], p1, d, e).mem
    BY <1>4, Zenon DEF e, p1
  <2>2. Write([mem |-> m, next |-> n], p1, d, e) =
          [mem |-> [m EXCEPT ![f] = [m[f] EXCEPT ![d] = e]], next |-> n]
    BY <1>5, WriteIs
  <2>3. \A g : [mem |-> g, next |-> n].mem = g
    OBVIOUS
  <2> QED BY ONLY <2>1, <2>2, <2>3, Zenon
<1>8. LeafOK(m, lev, n, a, b, c, d, e, m2)
  BY ONLY <1>1, <1>2, <1>3, <1>6, <1>7, n \in Nat \ {0}, Leaf, Zenon
<1>9. /\ Tree(m2, lev, n) /\ Has0(m2, a, b, c)
      /\ \A x1, y, z, w \in Slots :
           x1 # Last /\ Page(x1, y, z, w) # Page(a, b, c, d) =>
             View(m2, x1, y, z, w) = View(m, x1, y, z, w)
  BY ONLY <1>8, Zenon DEF LeafOK
<1>10. ASSUME NEW q \in 0 .. FRAME_T - 1, q # page
       PROVE  Translation(m2, q) = Translation(m, q)
  <2>1. PICK x1, y, z, w \in Slots : x1 # Last /\ q = Page(x1, y, z, w)
    BY ONLY PageSplit, Zenon
  <2>2. View(m2, x1, y, z, w) = View(m, x1, y, z, w)
    BY ONLY <1>2, <1>9, <1>10, <2>1
  <2>3. /\ Translation(m2, q) = View(m2, x1, y, z, w)
        /\ Translation(m, q) = View(m, x1, y, z, w)
    BY ONLY <2>1, Viewed
  <2> QED BY ONLY <2>2, <2>3
<1>11. ToP1(m2, page).kind = "table"
  BY ONLY <1>2, <1>9, HasTable
<1>12. Sound(m2, n)
  BY ONLY <1>1, <1>9 DEF Sound
<1> QED BY ONLY <1>10, <1>11, <1>12

(* Clearing frame 0 touches no table.                                      *)
LEMMA DeallocateStep ==
  ASSUME NEW m, NEW n \in Nat \ {0}, Sound(m, n), NEW page \in 0 .. FRAME_T - 1,
         ToP1(m, page).kind = "table", NEW m2,
         m2 = mmap_deallocate_frame(m, pointed_frame(
                [At(m, p1_table(m, page), index(page, 0)) EXCEPT !.present = TRUE]))
  PROVE  Sound(m2, n) /\ \A q \in 0 .. FRAME_T - 1 : Translation(m2, q) = Translation(m, q)
<1>1. PICK lev \in Levels : Tree(m, lev, n)
  BY DEF Sound
<1>2. PICK a, b, c, d \in Slots : a # Last /\ page = Page(a, b, c, d)
  BY PageSplit
<1>3. Has0(m, a, b, c)
  BY <1>2, HasTable
<1> DEFINE x == At(m, p1_table(m, page), index(page, 0))
<1>4. x \in EntryType /\ x.frame = 0
  <2>1. T0(m, a, b, c) \in Memory /\ lev[T0(m, a, b, c)] = 0
    BY <1>1, <1>2, <1>3, Path DEF PathOK
  <2>2. x = m[T0(m, a, b, c)][d]
    BY <1>1, <1>2, <1>3, TranslatedPage
  <2> QED BY <1>1, <2>1, <2>2 DEF Tree, Plain
<1> HIDE DEF x
<1>5. pointed_frame([x EXCEPT !.present = TRUE]) = 0
  <2>1. 0 % FRAME_T = 0
    BY SizeAssumption
  <2>2. [x EXCEPT !.present = TRUE].frame = 0
    BY <1>4, PresentBit
  <2> QED BY <2>1, <2>2 DEF pointed_frame
<1>6. m2 = mmap_deallocate_frame(m, 0)
  BY <1>5 DEF x
<1>7. page_containing_address(frame_starting_address(0)) = 0
  BY SizeAssumption, TablesAssumption DEF page_containing_address, frame_starting_address
<1> DEFINE wiped == { Down(m, v).frame : v \in 0 .. 0 + 7 }
<1>8. wiped \subseteq 0 .. 7
  BY <1>1, LowPages
<1>9. m2 = [g \in Memory |-> IF g \in wiped THEN EmptyTable ELSE m[g]]
  BY <1>6, <1>7, Zenon DEF mmap_deallocate_frame
<1> HIDE DEF wiped
<1>10. m2 \in [Memory -> [Slots -> EntryType]] /\ \A g \in Memory : g >= 8 => m2[g] = m[g]
  <2>1. NoEntry \in EntryType
    BY DEF NoEntry, EntryType
  <2>2. EmptyTable \in [Slots -> EntryType]
    BY <2>1 DEF EmptyTable, Slots
  <2>3. m \in [Memory -> [Slots -> EntryType]]
    BY <1>1 DEF Tree
  <2>4. m2 \in [Memory -> [Slots -> EntryType]]
    BY ONLY <1>9, <2>2, <2>3
  <2>5. \A g \in Memory : g >= 8 => g \notin wiped
    BY <1>8, PagingAssumption
  <2> QED BY ONLY <1>9, <2>4, <2>5
<1>11. /\ Tree(m2, lev, n)
       /\ \A x1, y, z, w \in Slots : x1 # Last => View(m2, x1, y, z, w) = View(m, x1, y, z, w)
  BY ONLY <1>1, <1>10, n \in Nat \ {0}, Elsewhere
<1>12. Sound(m2, n) /\ SameViews(m, m2)
  BY ONLY <1>1, <1>11, Zenon DEF Sound, SameViews
<1> QED BY ONLY <1>12, ViewsTranslate

-----------------------------------------------------------------------------
(* The invariant.                                                          *)
LEMMA InitTree == ASSUME Init PROVE Sound(mem, next)
<1> DEFINE lev == [f \in Memory |-> IF f = p4_table THEN 3 ELSE IF f = p3_table THEN 2
                                    ELSE IF f = p2_table THEN 1 ELSE -1]
           first == {p4_table, p3_table, p2_table}
<1>1. /\ first \subseteq Memory /\ Memory \subseteq Nat /\ first \subseteq 8 .. PAGE_SIZE - 1
      /\ p4_table # p3_table /\ p4_table # p2_table /\ p3_table # p2_table
      /\ PAGE_ENTRIES \in Nat /\ PAGE_ENTRIES >= 3 /\ PAGE_SIZE \in Nat
  BY PagingAssumption, TablesAssumption, SizeAssumption
<1>2. /\ lev \in Levels
      /\ lev[p4_table] = 3 /\ lev[p3_table] = 2 /\ lev[p2_table] = 1
      /\ \A g \in Memory : g \notin first => lev[g] = -1
  BY <1>1 DEF Levels
<1> HIDE DEF lev
<1>3. 0 \in Slots /\ Last \in Slots /\ Last # 0
  BY <1>1 DEF Slots, Last
<1>4. NoEntry \in EntryType /\ EmptyTable \in [Slots -> EntryType]
      /\ \A j \in Slots : EmptyTable[j] = NoEntry
  BY DEF NoEntry, EntryType, EmptyTable, Slots
<1>5. \A f \in Nat : Entry(f, FALSE) \in EntryType /\ Entry(f, TRUE) \in EntryType
  BY DEF Entry, EntryType
<1> DEFINE r4 == [EmptyTable EXCEPT ![0] = Entry(p3_table, FALSE), ![Last] = Entry(p4_table, FALSE)]
           r3 == [EmptyTable EXCEPT ![0] = Entry(p2_table, FALSE)]
           r2 == [i \in Slots |-> Entry(i * PAGE_ENTRIES, TRUE)]
<1>6. /\ r4 \in [Slots -> EntryType] /\ r4[0] = Entry(p3_table, FALSE)
      /\ r4[Last] = Entry(p4_table, FALSE)
      /\ \A j \in Slots : j # 0 /\ j # Last => r4[j] = NoEntry
  <2>1. Entry(p3_table, FALSE) \in EntryType /\ Entry(p4_table, FALSE) \in EntryType
    BY <1>1, <1>5, Zenon
  <2> QED BY ONLY <1>3, <1>4, <2>1, Zenon
<1>7. /\ r3 \in [Slots -> EntryType] /\ r3[0] = Entry(p2_table, FALSE)
      /\ \A j \in Slots : j # 0 => r3[j] = NoEntry
  <2>1. Entry(p2_table, FALSE) \in EntryType
    BY <1>1, <1>5, Zenon
  <2> QED BY ONLY <1>3, <1>4, <2>1, Zenon
<1>8. r2 \in [Slots -> EntryType] /\ \A j \in Slots : r2[j] = Entry(j * PAGE_ENTRIES, TRUE)
  <2>1. \A j \in Slots : j * PAGE_ENTRIES \in Nat
    BY <1>1 DEF Slots
  <2> QED BY ONLY <1>5, <2>1, Zenon
<1>9. /\ mem \in [Memory -> [Slots -> EntryType]]
      /\ mem[p4_table] = r4 /\ mem[p3_table] = r3 /\ mem[p2_table] = r2
      /\ \A g \in Memory : g \notin first => mem[g] = EmptyTable
  <2>1. mem = [f \in Memory |-> CASE f = p4_table -> r4 [] f = p3_table -> r3
                                  [] f = p2_table -> r2 [] OTHER -> EmptyTable]
    BY Zenon DEF Init, set_up_page_tables, Slots, Last
  <2> HIDE DEF r4, r3, r2
  <2>2. /\ mem[p4_table] = r4 /\ mem[p3_table] = r3 /\ mem[p2_table] = r2
        /\ \A g \in Memory : g \notin first => mem[g] = EmptyTable
    BY ONLY <1>1, <2>1
  <2>3. \A g \in Memory : mem[g] \in [Slots -> EntryType]
    BY ONLY <1>4, <1>6, <1>7, <1>8, <2>2
  <2>4. mem = [g \in Memory |-> mem[g]]
    BY ONLY <2>1
  <2> QED BY ONLY <2>2, <2>3, <2>4
<1> HIDE DEF r4, r3, r2, first
<1>10. Rooted(mem, lev)
  BY ONLY <1>2, <1>6, <1>7, <1>8, <1>9, Zenon DEF Rooted
<1>11. \A f \in Memory, i \in Slots :
         Edge(mem, lev, f, i) => (f = p4_table /\ i = 0) \/ (f = p3_table /\ i = 0)
  <2>1. ~ NoEntry.present
    BY DEF NoEntry
  <2> SUFFICES ASSUME NEW f \in Memory, NEW i \in Slots, Edge(mem, lev, f, i)
               PROVE  (f = p4_table /\ i = 0) \/ (f = p3_table /\ i = 0)
    OBVIOUS
  <2>2. lev[f] \in 1 .. 3 /\ f # p2_table /\ (f = p4_table => i # Last) /\ mem[f][i].present
    BY DEF Edge
  <2>3. f \in {p4_table, p3_table}
    BY ONLY <1>2, <2>2, f \in Memory DEF first
  <2> QED BY ONLY <1>6, <1>7, <1>9, <2>1, <2>2, <2>3, i \in Slots
<1>12. /\ mem[p4_table][0].frame = p3_table /\ mem[p3_table][0].frame = p2_table
  BY ONLY <1>10, RootEntries, Zenon
<1>13. Descends(mem, lev)
  BY ONLY <1>1, <1>2, <1>11, <1>12 DEF Descends, first
<1>14. Unshared(mem, lev)
  BY ONLY <1>1, <1>11, <1>12 DEF Unshared
<1>15. Plain(mem, lev)
  <2>1. ~ NoEntry.huge /\ \A f : ~ Entry(f, FALSE).huge
    BY DEF NoEntry, Entry
  <2> SUFFICES ASSUME NEW f \in Memory, NEW i \in Slots
               PROVE  /\ lev[f] \in 1 .. 3 /\ f # p2_table => ~ mem[f][i].huge
                      /\ lev[f] = 0 => mem[f][i].frame = 0
    BY DEF Plain
  <2>2. lev[f] # 0
    BY ONLY <1>2, f \in Memory DEF first
  <2>3. ASSUME lev[f] \in 1 .. 3, f # p2_table PROVE ~ mem[f][i].huge
    <3>1. f \in {p4_table, p3_table}
      BY ONLY <1>2, <2>3, f \in Memory DEF first
    <3> QED BY ONLY <1>6, <1>7, <1>9, <2>1, <3>1, i \in Slots, Zenon
  <2> QED BY ONLY <2>2, <2>3
<1>16. Spare(mem, lev, next)
  <2>1. \A f \in Memory : f < 8 => lev[f] = -1
    BY ONLY <1>1, <1>2 DEF first
  <2>2. \A k \in 1 .. MAX_CHUNK : AllocatedAddress(k) \in Memory /\ AllocatedAddress(k) \notin first
    BY ChunkFrames DEF first
  <2> QED BY ONLY <1>2, <1>9, <2>1, <2>2 DEF Spare
<1> QED BY ONLY <1>2, <1>9, <1>10, <1>13, <1>14, <1>15, <1>16 DEF Tree, Sound

LEMMA InitInv == Init => IInv
<1> SUFFICES ASSUME Init PROVE IInv
  OBVIOUS
<1>1. Sound(mem, next)
  BY InitTree
<1>2. 0 \in 0 .. FRAME_T - 1
  BY SizeAssumption
<1> QED BY <1>1, <1>2 DEF Init, IInv, Sound, Kept, MapTakesEffect

(* The pages that OthersUntouched is about.                                *)
Untouched(m, m2, page) ==
  \A q \in (Pages \cup {0, P4_TABLE}) \ {page} : Translation(m2, q) = Translation(m, q)

LEMMA TopTranslation ==
  ASSUME NEW m, NEW n, Sound(m, n)
  PROVE  Translation(m, P4_TABLE) =
           {[kind |-> "page", writable |-> Entry(p4_table, FALSE).writable, frame |-> p4_table]}
<1>1. PICK lev \in Levels : Tree(m, lev, n)
  BY DEF Sound
<1>2. /\ m[p4_table][Last].present /\ ~ m[p4_table][Last].huge
      /\ m[p4_table][Last].frame = p4_table
  BY <1>1, RootEntries, Zenon DEF Tree
<1>3. Down(m, P4_TABLE) =
        [kind |-> "page", writable |-> m[p4_table][Last].writable, frame |-> p4_table]
  BY <1>2, RootPage, Zenon
<1>4. Down(m, P4_TABLE) =
        [kind |-> "page", writable |-> Entry(p4_table, FALSE).writable, frame |-> p4_table]
  <2>1. m[p4_table][Last].writable = Entry(p4_table, FALSE).writable
    BY <1>1 DEF Tree, Rooted
  <2> QED BY <1>3, <2>1, Zenon
<1>5. Mapped(m, P4_TABLE)
  <2>1. Down(m, P4_TABLE).kind = "page"
    BY ONLY <1>4
  <2> QED BY <2>1 DEF Mapped
<1> QED BY <1>4, <1>5, Zenon DEF Translation

LEMMA SmallPages == \A q \in Pages \cup {0} : q \in 0 .. FRAME_T - 1
BY PagingAssumption, SizeAssumption

LEMMA AllUntouched ==
  ASSUME NEW m, NEW n, Sound(m, n), NEW m2, NEW n2, Sound(m2, n2), NEW page,
         \A q \in 0 .. FRAME_T - 1 : q # page => Translation(m2, q) = Translation(m, q)
  PROVE  Untouched(m, m2, page)
<1>1. Translation(m2, P4_TABLE) = Translation(m, P4_TABLE)
  BY TopTranslation, Zenon
<1> QED BY <1>1, SmallPages DEF Untouched

(* What the invariant says of the operations: IInv in terms of Sound.      *)
LEMMA InvParts ==
  IInv <=> /\ Sound(mem, next) /\ next \in Nat \ {0}
           /\ pc \in {"idle", "deallocate", "flush"}
           /\ (pc # "idle" => target \in Pages)
           /\ (pc = "deallocate" => ToP1(mem, target).kind = "table")
           /\ last.page \in 0 .. FRAME_T - 1 /\ Kept /\ MapTakesEffect
BY DEF IInv, Sound

LEMMA MapsKeeps ==
  ASSUME IInv, NEW n \in {next, next + 1}, NEW page \in 0 .. FRAME_T - 1, NEW frame,
         NEW flags \in Flags, Maps([mem |-> mem, next |-> n], page, frame, flags)
  PROVE  IInv' /\ Untouched(mem, mem', last'.page)
<1> DEFINE st == [mem |-> mem, next |-> n]
<1>1. /\ pc = "idle" /\ n + 2 <= MAX_CHUNK
      /\ mem' = map_page_to_frame(st, page, frame, flags).mem
      /\ next' = map_page_to_frame(st, page, frame, flags).next
      /\ remapped' = remapped \cup { t.page : t \in { kept \in tlb : kept.page = page } }
      /\ last' = [op |-> "map", page |-> page, writable |-> flags.writable]
      /\ tlb' = tlb /\ pc' = pc /\ target' = target
  BY Zenon DEF Maps
<1>2. next \in Nat \ {0} /\ n \in 1 .. MAX_CHUNK /\ MAX_CHUNK \in Nat
  BY <1>1, SizeAssumption DEF IInv
<1>3. Sound(mem, n)
  BY <1>2, Later DEF IInv, Sound
<1>4. PICK m2, n2 : MapsOK(mem, n, page, frame, flags, m2, n2)
  BY <1>1, <1>2, <1>3, MapStep, Zenon
<1>5. mem' = m2 /\ next' = n2
  <2>1. map_page_to_frame(st, page, frame, flags) = [mem |-> m2, next |-> n2]
    BY ONLY <1>4, Zenon DEF MapsOK
  <2> QED BY ONLY <1>1, <2>1
<1>6. /\ next' \in Nat \ {0} /\ Sound(mem', next')
      /\ \A q \in 0 .. FRAME_T - 1 : q # page => Translation(mem', q) = Translation(mem, q)
      /\ \/ Down(mem', page).kind = "huge"
         \/ Down(mem', page).kind = "page" /\ Down(mem', page).writable = flags.writable
  BY ONLY <1>4, <1>5, Zenon DEF MapsOK
<1>7. last'.page = page /\ last'.writable = flags.writable
  BY ONLY <1>1, Zenon
<1>8. MapTakesEffect'
  BY ONLY <1>6, <1>7 DEF MapTakesEffect
<1>9. Kept'
  <2> SUFFICES ASSUME NEW t \in tlb
               PROVE  /\ t.page \in Pages
                      /\ t.page \notin remapped' => Translation(mem', t.page) = {t.down}
    <3>1. tlb' = tlb /\ ~ (pc' # "idle")
      BY ONLY <1>1, Zenon
    <3> QED BY <3>1 DEF Kept
  <2>1. t.page \in Pages /\ (t.page \notin remapped => Translation(mem, t.page) = {t.down})
    BY <1>1, Zenon DEF IInv, Kept
  <2>2. t.page \in 0 .. FRAME_T - 1
    BY <2>1, SmallPages
  <2>3. ASSUME t.page \notin remapped' PROVE t.page \notin remapped /\ t.page # page
    BY ONLY <1>1, <2>3, t \in tlb
  <2> QED BY ONLY <1>6, <2>1, <2>2, <2>3
<1>10. IInv'
  <2>1. /\ pc' = "idle" /\ last'.page \in 0 .. FRAME_T - 1
    BY ONLY <1>1, <1>7, page \in 0 .. FRAME_T - 1, Zenon
  <2> QED BY ONLY <1>6, <1>8, <1>9, <2>1, Zenon DEF IInv, Sound
<1>11. Untouched(mem, mem', last'.page)
  BY ONLY <1>3, <1>6, <1>7, AllUntouched, Zenon
<1> QED BY <1>10, <1>11

(* identity_map wraps at the width of frame_t, and stays among the pages.  *)
LEMMA IdentityPage ==
  ASSUME NEW frame \in Pages
  PROVE  page_containing_address(frame_starting_address(frame)) \in 0 .. FRAME_T - 1
<1>1. frame \in Nat /\ PAGE_SIZE \in Nat \ {0} /\ FRAME_T \in Nat \ {0}
  BY PagingAssumption, SizeAssumption, TablesAssumption
<1> DEFINE y == frame * PAGE_SIZE
           x == y % FRAME_T
<1>2. y \in Nat
  BY <1>1
<1> HIDE DEF y
<1>3. x \in 0 .. FRAME_T - 1
  BY <1>1, <1>2
<1> HIDE DEF x
<1>4. x \div PAGE_SIZE \in Nat /\ x \div PAGE_SIZE <= x
  <2> DEFINE q == x \div PAGE_SIZE
             r == x % PAGE_SIZE
  <2>1. q \in Nat /\ r \in Nat /\ x = q * PAGE_SIZE + r
    BY <1>1, <1>3
  <2>2. PICK e \in Nat : PAGE_SIZE = 1 + e
    <3>1. PAGE_SIZE - 1 \in Nat /\ PAGE_SIZE = 1 + (PAGE_SIZE - 1)
      BY <1>1
    <3> QED BY <3>1, Zenon
  <2> HIDE DEF q, r
  <2>3. q * PAGE_SIZE = q + q * e /\ q * e \in Nat
    BY <2>1, <2>2
  <2>4. q <= x
    BY <1>3, <2>1, <2>3
  <2> QED BY <2>1, <2>4 DEF q
<1>5. x \div PAGE_SIZE \in 0 .. FRAME_T - 1
  BY <1>1, <1>3, <1>4
<1> QED BY <1>5 DEF page_containing_address, frame_starting_address, x, y

LEMMA UnmapEntryKeeps ==
  ASSUME IInv, NEW page \in Pages, UnmapEntry(page)
  PROVE  IInv' /\ Untouched(mem, mem', last'.page)
<1>1. /\ pc = "idle" /\ Down(mem, page).kind = "page"
      /\ pc' = "deallocate" /\ target' = page
      /\ last' = [op |-> "unmap", page |-> page, writable |-> FALSE]
      /\ next' = next /\ tlb' = tlb /\ remapped' = remapped
      /\ mem' = Write([mem |-> mem, next |-> next], p1_table(mem, page), index(page, 0),
                      [At(mem, p1_table(mem, page), index(page, 0)) EXCEPT !.present = FALSE]).mem
  BY DEF UnmapEntry, State
<1>2. Sound(mem, next) /\ next \in Nat \ {0} /\ page \in 0 .. FRAME_T - 1
  BY InvParts, SmallPages
<1>3. /\ Sound(mem', next) /\ ToP1(mem', page).kind = "table"
      /\ \A q \in 0 .. FRAME_T - 1 : q # page => Translation(mem', q) = Translation(mem, q)
  BY ONLY <1>1, <1>2, UnmapStep
<1>4. last'.page = page /\ last'.op = "unmap"
  BY ONLY <1>1
<1>5. MapTakesEffect'
  BY ONLY <1>4 DEF MapTakesEffect
<1>6. Kept'
  <2> SUFFICES ASSUME NEW t \in tlb
               PROVE  /\ t.page \in Pages
                      /\ t.page \notin remapped /\ t.page # page =>
                           Translation(mem', t.page) = {t.down}
    <3>1. tlb' = tlb /\ pc' # "idle" /\ remapped' = remapped /\ target' = page
      BY ONLY <1>1
    <3> QED BY <3>1 DEF Kept
  <2>1. t.page \in Pages /\ (t.page \notin remapped => Translation(mem, t.page) = {t.down})
    BY <1>1 DEF IInv, Kept
  <2>2. t.page \in 0 .. FRAME_T - 1
    BY <2>1, SmallPages
  <2> QED BY ONLY <1>3, <2>1, <2>2
<1>7. IInv'
  <2>1. /\ pc' \in {"idle", "deallocate", "flush"} /\ target' \in Pages
        /\ ToP1(mem', target').kind = "table" /\ next' \in Nat \ {0} /\ Sound(mem', next')
        /\ last'.page \in 0 .. FRAME_T - 1
    BY ONLY <1>1, <1>2, <1>3, <1>4, page \in Pages
  <2> QED BY ONLY <1>5, <1>6, <2>1 DEF IInv, Sound
<1>8. Untouched(mem, mem', last'.page)
  BY ONLY <1>2, <1>3, <1>4, AllUntouched
<1> QED BY <1>7, <1>8

LEMMA UnmapAbsentKeeps ==
  ASSUME IInv, NEW page \in Pages, UnmapAbsent(page)
  PROVE  IInv' /\ Untouched(mem, mem', last'.page)
<1>1. /\ last' = [op |-> "unmap", page |-> page, writable |-> FALSE]
      /\ mem' = mem /\ next' = next /\ tlb' = tlb /\ pc' = pc /\ target' = target
      /\ remapped' = remapped
  BY DEF UnmapAbsent
<1>2. last'.page = page /\ last'.op = "unmap"
  BY ONLY <1>1
<1>3. MapTakesEffect'
  BY ONLY <1>2 DEF MapTakesEffect
<1>4. last'.page \in 0 .. FRAME_T - 1
  BY <1>2, SmallPages
<1>5. Kept'
  BY <1>1, Zenon DEF IInv, Kept
<1>6. IInv'
  BY <1>1, <1>3, <1>4, <1>5 DEF IInv
<1> QED BY <1>1, <1>6 DEF Untouched

LEMMA UnmapDeallocateKeeps ==
  ASSUME IInv, UnmapDeallocate
  PROVE  IInv' /\ Untouched(mem, mem', last'.page)
<1>1. /\ pc = "deallocate" /\ pc' = "flush"
      /\ next' = next /\ tlb' = tlb /\ target' = target /\ remapped' = remapped /\ last' = last
      /\ mem' = mmap_deallocate_frame(mem, pointed_frame(
                  [At(mem, p1_table(mem, target), index(target, 0)) EXCEPT !.present = TRUE]))
  BY DEF UnmapDeallocate
<1>2. /\ Sound(mem, next) /\ next \in Nat \ {0} /\ target \in Pages
      /\ ToP1(mem, target).kind = "table" /\ last.page \in 0 .. FRAME_T - 1
      /\ target \in 0 .. FRAME_T - 1
  BY <1>1, SmallPages DEF IInv, Sound
<1>3. /\ Sound(mem', next)
      /\ \A q \in 0 .. FRAME_T - 1 : Translation(mem', q) = Translation(mem, q)
  BY ONLY <1>1, <1>2, DeallocateStep
<1>4. MapTakesEffect'
  <2> SUFFICES ASSUME last.op = "map"
               PROVE  \/ Down(mem', last.page).kind = "huge"
                      \/ /\ Down(mem', last.page).kind = "page"
                         /\ Down(mem', last.page).writable = last.writable
    BY <1>1 DEF MapTakesEffect
  <2>1. \/ Down(mem, last.page).kind = "huge"
        \/ /\ Down(mem, last.page).kind = "page"
           /\ Down(mem, last.page).writable = last.writable
    BY Zenon DEF IInv, MapTakesEffect
  <2>2. Mapped(mem, last.page)
    BY ONLY <2>1 DEF Mapped
  <2>3. Translation(mem', last.page) = {Down(mem, last.page)}
    BY ONLY <1>2, <1>3, <2>2, Zenon DEF Translation
  <2>4. Down(mem', last.page) = Down(mem, last.page)
    BY ONLY <2>3 DEF Translation
  <2> QED BY ONLY <2>1, <2>4
<1>5. Kept'
  <2> SUFFICES ASSUME NEW t \in tlb
               PROVE  /\ t.page \in Pages
                      /\ t.page \notin remapped /\ t.page # target =>
                           Translation(mem', t.page) = {t.down}
    <3>1. tlb' = tlb /\ pc' # "idle" /\ remapped' = remapped /\ target' = target
      BY ONLY <1>1
    <3> QED BY <3>1 DEF Kept
  <2>1. /\ t.page \in Pages
        /\ t.page \notin remapped /\ t.page # target => Translation(mem, t.page) = {t.down}
    BY <1>1 DEF IInv, Kept
  <2>2. t.page \in 0 .. FRAME_T - 1
    BY <2>1, SmallPages
  <2> QED BY ONLY <1>3, <2>1, <2>2
<1>6. IInv'
  <2>1. /\ pc' = "flush" /\ target' \in Pages /\ next' \in Nat \ {0} /\ Sound(mem', next')
        /\ last'.page \in 0 .. FRAME_T - 1
    BY ONLY <1>1, <1>2, <1>3
  <2> QED BY ONLY <1>4, <1>5, <2>1 DEF IInv, Sound
<1>7. Untouched(mem, mem', last'.page)
  BY ONLY <1>2, <1>3, AllUntouched
<1> QED BY <1>6, <1>7

(* The flush removes the translation that unmap has made stale.            *)
LEMMA UnmapFlushKeeps ==
  ASSUME IInv, UnmapFlush
  PROVE  IInv' /\ Untouched(mem, mem', last'.page)
<1>1. /\ pc = "flush" /\ pc' = "idle" /\ tlb' = { t \in tlb : t.page # target }
      /\ remapped' = remapped \ {target} /\ mem' = mem /\ next' = next /\ last' = last
  BY DEF UnmapFlush
<1>2. Kept'
  <2> SUFFICES ASSUME NEW t \in tlb, t.page # target
               PROVE  /\ t.page \in Pages
                      /\ t.page \notin remapped => Translation(mem, t.page) = {t.down}
    BY <1>1 DEF Kept
  <2> QED BY DEF IInv, Kept
<1>3. MapTakesEffect'
  BY <1>1, Zenon DEF IInv, MapTakesEffect
<1>4. IInv'
  BY <1>1, <1>2, <1>3 DEF IInv
<1> QED BY <1>1, <1>4 DEF Untouched

LEMMA AccessKeeps ==
  ASSUME IInv, NEW page \in Accessed, Access(page)
  PROVE  IInv' /\ Untouched(mem, mem', last'.page)
<1>1. /\ Mapped(mem, page) /\ tlb' = tlb \cup {[page |-> page, down |-> Down(mem, page)]}
      /\ mem' = mem /\ next' = next /\ pc' = pc /\ target' = target /\ remapped' = remapped
      /\ last' = last
  BY DEF Access
<1>2. page \in Pages
  BY PagingAssumption
<1>3. Translation(mem, page) = {Down(mem, page)}
  BY <1>1 DEF Translation
<1>4. Kept'
  <2> SUFFICES ASSUME NEW t \in tlb'
               PROVE  /\ t.page \in Pages
                      /\ t.page \notin remapped /\ (pc # "idle" => t.page # target) =>
                           Translation(mem, t.page) = {t.down}
    BY <1>1, Zenon DEF Kept
  <2>1. CASE t \in tlb
    BY <2>1 DEF IInv, Kept
  <2>2. CASE t = [page |-> page, down |-> Down(mem, page)]
    <3>1. t.page = page /\ t.down = Down(mem, page)
      BY ONLY <2>2
    <3> QED BY ONLY <1>2, <1>3, <3>1
  <2> QED BY ONLY <1>1, <2>1, <2>2, Zenon
<1>5. MapTakesEffect'
  BY <1>1, Zenon DEF IInv, MapTakesEffect
<1>6. IInv'
  BY <1>1, <1>4, <1>5 DEF IInv
<1> QED BY <1>1, <1>6 DEF Untouched

(* Every step keeps the invariant, and every page but the one it is about. *)
LEMMA StepKeeps ==
  ASSUME IInv, Next
  PROVE  IInv' /\ Untouched(mem, mem', last'.page)
<1>1. ASSUME NEW page \in Pages, NEW flags \in Flags, map(page, flags)
      PROVE  IInv' /\ Untouched(mem, mem', last'.page)
  <2>1. [State EXCEPT !.next = @ + 1] = [mem |-> mem, next |-> next + 1]
    BY DEF State
  <2>2. Maps([mem |-> mem, next |-> next + 1], page, next, flags)
    BY <1>1, <2>1 DEF map
  <2>3. page \in 0 .. FRAME_T - 1 /\ next + 1 \in {next, next + 1}
    BY SmallPages
  <2> QED BY <1>1, <2>2, <2>3, MapsKeeps
<1>2. ASSUME NEW page \in Pages, NEW flags \in Flags, identity_map(page, flags)
      PROVE  IInv' /\ Untouched(mem, mem', last'.page)
  <2> DEFINE q == page_containing_address(frame_starting_address(page))
  <2>1. Maps([mem |-> mem, next |-> next], q, page, flags)
    BY <1>2 DEF identity_map, State
  <2>2. q \in 0 .. FRAME_T - 1 /\ next \in {next, next + 1}
    BY IdentityPage
  <2> HIDE DEF q
  <2> QED BY <1>2, <2>1, <2>2, MapsKeeps
<1> QED BY <1>1, <1>2, UnmapEntryKeeps, UnmapAbsentKeeps, UnmapDeallocateKeeps,
           UnmapFlushKeeps, AccessKeeps DEF Next

LEMMA StutterKeeps == ASSUME IInv, UNCHANGED vars PROVE IInv'
<1>1. /\ mem' = mem /\ next' = next /\ tlb' = tlb /\ pc' = pc /\ target' = target
      /\ remapped' = remapped /\ last' = last
  BY DEF vars
<1>2. Kept' /\ MapTakesEffect'
  BY <1>1, Zenon DEF IInv, Kept, MapTakesEffect
<1> QED BY <1>1, <1>2 DEF IInv

(* The tables stay a tree below the P4 table, whatever is mapped and       *)
(* unmapped.                                                               *)
LEMMA Invariance == Spec => []IInv
<1>1. ASSUME IInv, [Next]_vars PROVE IInv'
  BY <1>1, StepKeeps, StutterKeeps
<1> QED BY <1>1, InitInv, PTL DEF Spec

-----------------------------------------------------------------------------
(* The walk of the code through the recursive entry always finds the P1    *)
(* table that the processor uses, or null when there is none.              *)
THEOREM RecursiveWalk == Spec => []WalksAgree
<1>1. IInv => WalksAgree
  BY TreeWalks DEF IInv
<1> QED BY <1>1, Invariance, PTL

(* Outside unmap no translation is kept that the tables do not give, apart *)
(* from pages that were mapped again.                                      *)
THEOREM NoStaleTranslation == Spec => []TlbFresh
<1>1. IInv => TlbFresh
  BY Zenon DEF IInv, Kept, TlbFresh
<1> QED BY <1>1, Invariance, PTL

(* A page that map was called for is accessible, with its flags.           *)
THEOREM MappingTakesEffect == Spec => []MapTakesEffect
<1>1. IInv => MapTakesEffect
  BY DEF IInv
<1> QED BY <1>1, Invariance, PTL

(* map, identity_map and unmap change the translation of their own page    *)
(* alone.                                                                  *)
THEOREM OthersKept == Spec => OthersUntouched
<1>1. ASSUME IInv, [Next]_vars
      PROVE  [\A page \in (Pages \cup {0, P4_TABLE}) \ {last'.page} :
                Translation(mem', page) = Translation(mem, page)]_vars
  BY <1>1, StepKeeps DEF Untouched
<1> QED BY <1>1, Invariance, PTL DEF Spec, OthersUntouched
=============================================================================
