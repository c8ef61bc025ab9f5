--------------------------- MODULE Readers_proofs ---------------------------
(***************************************************************************)
(* Proofs about the routines that read what another party has left:        *)
(* mmap_read reads the memory map of the boot loader (MmapRead),           *)
(* cmos_read_rtc the registers of the running clock (Rtc) and their        *)
(* formats (RtcConvert).                                                   *)
(*                                                                         *)
(* The loops of mmap_read cannot run past the request, and they return     *)
(* what the operator mmap_read says, for every map, page size, request and *)
(* mode.                                                                   *)
(***************************************************************************)
EXTENDS MmapRead, Rtc, RtcConvert, SequenceTheorems, WellFoundedInduction, TLAPS

IInv == cur_num \in Nat /\ request \in Nat /\ RequestAhead

(* cur_num grows by one on every chunk; it does so on the chunk asked for  *)
(* only when that chunk is reserved, and then request grows with it.       *)
LEMMA StepKeeps == ASSUME IInv, Next PROVE IInv'
<1> USE DEF IInv, RequestAhead
<1>1. CASE SkipReserved
  <2>1. /\ cur_num' = cur_num + 1 /\ mode' = mode
        /\ request' = IF Wanted THEN request + 1 ELSE request
    BY <1>1 DEF SkipReserved, NextChunk
  <2>2. CASE Wanted
    BY <2>1, <2>2 DEF Wanted
  <2>3. CASE ~ Wanted
    BY <2>1, <2>3 DEF Wanted
  <2> QED BY <2>2, <2>3
<1>2. CASE Advance
  BY <1>2 DEF Advance, NextChunk, Wanted
<1>3. CASE UNCHANGED << cur_num, request, mode >>
  BY <1>3
<1> QED
  BY <1>1, <1>2, <1>3
  DEF Next, InvalidMode, ValidMode, EnterEntry, EndOfMap, LeaveEntry, ReturnNum, ReturnAddr, Return

(* The equality test cur_num == request of mmap_read is never jumped over, *)
(* whatever reserved chunks lie on the way.                                *)
THEOREM NeverPastRequest == Spec => []RequestAhead
<1>1. Init => IInv
  BY RequestsAssumption DEF Init, IInv, RequestAhead
<1>2. IInv /\ [Next]_vars => IInv'
  <2>1. IInv /\ UNCHANGED vars => IInv'
    BY DEF IInv, RequestAhead, vars
  <2> QED BY <2>1, StepKeeps
<1>3. IInv => RequestAhead
  BY DEF IInv
<1> QED BY <1>1, <1>2, <1>3, PTL DEF Spec

-----------------------------------------------------------------------------
EntryType == [addr : Nat, len : Nat, type : Nat]
ChunkType == [addr : Nat, type : Nat]

(* The chunks of the first n entries, for every n: the function by which   *)
(* Chunks is defined.                                                      *)
UpTo(map) ==
  LET upTo[n \in 0 .. Len(map)] ==
        IF n = 0 THEN << >> ELSE upTo[n - 1] \o EntryChunks(map[n])
  IN  upTo

LEMMA UpToUnfolds ==
  ASSUME NEW map, Len(map) \in Nat
  PROVE  /\ UpTo(map)[0] = << >>
         /\ \A n \in 1 .. Len(map) : UpTo(map)[n] = UpTo(map)[n - 1] \o EntryChunks(map[n])
         /\ Chunks(map) = UpTo(map)[Len(map)]
<1> DEFINE Rec(g, n) ==
      g = [k \in 0 .. n |-> IF k = 0 THEN << >> ELSE g[k - 1] \o EntryChunks(map[k])]
<1> DEFINE Bad == {n \in Nat : ~ \E g : Rec(g, n)}
<1>1. ASSUME Bad # {} PROVE FALSE
  <2>1. PICK n \in Bad : \A m \in Nat : m < n => m \notin Bad
    <3>1. PICK n \in Bad : \A m \in Bad : ~ (<<m, n>> \in OpToRel(<, Nat))
      BY <1>1, NatLessThanWellFounded, WFMin, Zenon
    <3> QED BY <3>1, Zenon DEF OpToRel
  <2>2. n # 0
    <3>1. Rec([k \in {0} |-> << >>], 0)
      BY 0 .. 0 = {0}
    <3> QED BY <2>1, <3>1, Zenon
  <2>3. PICK g : Rec(g, n - 1)
    <3>1. n - 1 \in Nat /\ n - 1 < n
      BY <2>1, <2>2
    <3>2. n - 1 \notin Bad
      BY <2>1, <3>1, Zenon
    <3> QED BY <3>1, <3>2, Zenon
  <2> DEFINE h == [k \in 0 .. n |-> IF k = n THEN g[n - 1] \o EntryChunks(map[n]) ELSE g[k]]
  <2>4. Rec(h, n)
    <3>1. ASSUME NEW k \in 0 .. n
          PROVE  h[k] = IF k = 0 THEN << >> ELSE h[k - 1] \o EntryChunks(map[k])
      BY <2>1, <2>2, <2>3
    <3> QED BY <3>1, Zenon
  <2> QED BY <2>1, <2>4, Zenon
<1>2. \E g : Rec(g, Len(map))
  BY <1>1, Zenon
<1> DEFINE g == CHOOSE g : Rec(g, Len(map))
<1>3. Rec(g, Len(map))
  BY <1>2, Zenon
<1>4. Chunks(map) = g[Len(map)] /\ UpTo(map) = g
  BY DEF Chunks, UpTo
<1> HIDE DEF g
<1> QED BY <1>3, <1>4

(* How many chunks an entry has: the iterations of the inner loop.         *)
Count(e) == Len(EntryChunks(e))

(* The test of the inner loop, in chunk j of an entry, and what the chunk  *)
(* is.                                                                     *)
LEMMA EntryLayout ==
  ASSUME NEW e \in EntryType
  PROVE  /\ EntryChunks(e) \in Seq(ChunkType) /\ Count(e) \in Nat
         /\ \A j \in 1 .. Count(e) :
              EntryChunks(e)[j] = [addr |-> e.addr + (j - 1) * PAGE_SIZE, type |-> e.type]
         /\ \A j \in Nat : e.addr + j * PAGE_SIZE + PAGE_SIZE < e.addr + e.len <=> j < Count(e)
<1> DEFINE q == (e.len - 1) \div PAGE_SIZE
           m == IF q < 0 THEN 0 ELSE q
<1>1. e.addr \in Nat /\ e.len \in Nat /\ e.type \in Nat /\ PAGE_SIZE \in Nat \ {0}
  BY PageSizeAssumption DEF EntryType
<1>2. PICK d \in Int, r \in 0 .. PAGE_SIZE - 1 : d = q /\ e.len - 1 = PAGE_SIZE * d + r
  <2>1. q \in Int /\ (e.len - 1) % PAGE_SIZE \in 0 .. PAGE_SIZE - 1
    BY <1>1
  <2>2. e.len - 1 = PAGE_SIZE * q + ((e.len - 1) % PAGE_SIZE)
    BY <1>1
  <2> QED BY <2>1, <2>2, Zenon
<1> HIDE DEF q
<1>3. m \in Nat /\ 1 .. q = 1 .. m
  BY <1>2
<1>4. EntryChunks(e) = [j \in 1 .. m |-> [addr |-> e.addr + (j - 1) * PAGE_SIZE, type |-> e.type]]
  BY <1>3 DEF EntryChunks, q
<1>5. ASSUME NEW j \in 1 .. m PROVE e.addr + (j - 1) * PAGE_SIZE \in Nat
  <2>1. (j - 1) * PAGE_SIZE \in Nat
    BY <1>1, <1>3
  <2> QED BY <1>1, <2>1
<1>6. EntryChunks(e) \in [1 .. m -> ChunkType]
  BY <1>1, <1>4, <1>5 DEF ChunkType
<1>7. EntryChunks(e) \in Seq(ChunkType) /\ Count(e) = m
  BY <1>3, <1>6 DEF Count
<1>8. ASSUME NEW j \in Nat PROVE j * PAGE_SIZE + PAGE_SIZE < e.len <=> j < m
  <2>1. j * PAGE_SIZE + PAGE_SIZE = PAGE_SIZE * (j + 1)
    BY <1>1
  <2>2. CASE j < m
    <3>1. j + 1 <= d
      BY <1>2, <2>2
    <3>2. PAGE_SIZE * (j + 1) <= PAGE_SIZE * d
      BY <1>1, <1>2, <3>1
    <3> QED BY <1>1, <1>2, <2>1, <2>2, <3>2
  <2>3. CASE ~ (j < m)
    <3>1. d + 1 <= j + 1
      BY <1>2, <1>3, <2>3
    <3>2. PAGE_SIZE * (d + 1) <= PAGE_SIZE * (j + 1)
      BY <1>1, <1>2, <3>1
    <3>3. PAGE_SIZE * (d + 1) = PAGE_SIZE * d + PAGE_SIZE
      BY <1>1, <1>2
    <3> QED BY <1>1, <1>2, <2>1, <2>3, <3>2, <3>3
  <2> QED BY <2>2, <2>3
<1>9. ASSUME NEW j \in Nat
      PROVE  e.addr + j * PAGE_SIZE + PAGE_SIZE < e.addr + e.len <=> j < m
  <2>1. j * PAGE_SIZE \in Nat
    BY <1>1
  <2> QED BY <1>1, <1>8, <2>1
<1>10. \A j \in 1 .. m :
         EntryChunks(e)[j] = [addr |-> e.addr + (j - 1) * PAGE_SIZE, type |-> e.type]
  BY <1>4
<1> HIDE DEF m
<1> QED BY <1>3, <1>7, <1>9, <1>10, Zenon

LEMMA Joined ==
  ASSUME NEW S, NEW u \in Seq(S), NEW c \in Seq(S), NEW v, v = u \o c
  PROVE  /\ v \in Seq(S) /\ Len(u) \in Nat /\ Len(c) \in Nat /\ Len(v) = Len(u) + Len(c)
         /\ \A k \in 1 .. Len(u) : v[k] = u[k]
         /\ \A k \in 1 .. Len(c) : v[Len(u) + k] = c[k]
<1>1. /\ v \in Seq(S) /\ Len(v) = Len(u) + Len(c)
      /\ \A k \in 1 .. Len(u) + Len(c) : v[k] = IF k <= Len(u) THEN u[k] ELSE c[k - Len(u)]
  BY ConcatProperties
<1>2. Len(u) \in Nat /\ Len(c) \in Nat
  OBVIOUS
<1>3. ASSUME NEW k \in 1 .. Len(u) PROVE v[k] = u[k]
  BY <1>1, <1>2
<1>4. ASSUME NEW k \in 1 .. Len(c) PROVE v[Len(u) + k] = c[k]
  <2>1. /\ Len(u) + k \in 1 .. Len(u) + Len(c) /\ ~ (Len(u) + k <= Len(u))
        /\ (Len(u) + k) - Len(u) = k
    BY <1>2
  <2> QED BY <1>1, <2>1
<1> QED BY <1>1, <1>2, <1>3, <1>4

(* The chunks of the first entries are a prefix of those of more entries.  *)
Prefix(map, m) ==
  /\ UpTo(map)[m] \in Seq(ChunkType)
  /\ \A n \in 0 .. m :
       /\ UpTo(map)[n] \in Seq(ChunkType)
       /\ Len(UpTo(map)[n]) <= Len(UpTo(map)[m])
       /\ \A k \in 1 .. Len(UpTo(map)[n]) : UpTo(map)[m][k] = UpTo(map)[n][k]

LEMMA PrefixGrows ==
  ASSUME NEW map \in Seq(EntryType), NEW m \in 1 .. Len(map), Prefix(map, m - 1)
  PROVE  Prefix(map, m)
<1> DEFINE u == UpTo(map)[m - 1]
           v == UpTo(map)[m]
           c == EntryChunks(map[m])
<1>1. Len(map) \in Nat /\ map[m] \in EntryType
  BY ElementOfSeq
<1>2. u \in Seq(ChunkType) /\ c \in Seq(ChunkType) /\ v = u \o c
  BY <1>1, UpToUnfolds, EntryLayout, Zenon DEF Prefix
<1>3. /\ v \in Seq(ChunkType) /\ Len(v) = Len(u) + Len(c) /\ Len(u) \in Nat /\ Len(c) \in Nat
      /\ \A k \in 1 .. Len(u) : v[k] = u[k]
  <2> HIDE DEF u, v, c
  <2> QED BY <1>2, Joined
<1>4. ASSUME NEW n \in 0 .. m
      PROVE  /\ UpTo(map)[n] \in Seq(ChunkType)
             /\ Len(UpTo(map)[n]) <= Len(v)
             /\ \A k \in 1 .. Len(UpTo(map)[n]) : v[k] = UpTo(map)[n][k]
  <2>1. CASE n = m
    <3>1. UpTo(map)[n] = v
      BY <2>1
    <3> HIDE DEF u, v, c
    <3> QED BY <1>3, <3>1
  <2>2. CASE n # m
    <3>1. n \in 0 .. m - 1
      BY <1>1, <2>2
    <3>2. /\ UpTo(map)[n] \in Seq(ChunkType) /\ Len(UpTo(map)[n]) <= Len(u)
          /\ \A k \in 1 .. Len(UpTo(map)[n]) : u[k] = UpTo(map)[n][k]
      BY <3>1 DEF Prefix
    <3>3. Len(UpTo(map)[n]) \in Nat
      BY <3>2
    <3> HIDE DEF u, v, c
    <3> QED BY <1>3, <3>2, <3>3
  <2> QED BY <2>1, <2>2
<1> QED BY <1>3, <1>4, Zenon DEF Prefix

LEMMA PrefixAlways ==
  ASSUME NEW map \in Seq(EntryType), NEW m \in 0 .. Len(map)
  PROVE  Prefix(map, m)
<1> DEFINE Bad == {n \in Nat : n <= Len(map) /\ ~ Prefix(map, n)}
<1>1. Len(map) \in Nat
  OBVIOUS
<1>2. ASSUME Bad # {} PROVE FALSE
  <2>1. PICK n \in Bad : \A k \in Nat : k < n => k \notin Bad
    <3>1. PICK n \in Bad : \A k \in Bad : ~ (<<k, n>> \in OpToRel(<, Nat))
      BY <1>2, NatLessThanWellFounded, WFMin, Zenon
    <3> QED BY <3>1, Zenon DEF OpToRel
  <2>2. n # 0
    <3>1. UpTo(map)[0] = << >>
      BY <1>1, UpToUnfolds, Zenon
    <3>2. << >> \in Seq(ChunkType) /\ Len(<< >>) = 0 /\ 0 .. 0 = {0}
      OBVIOUS
    <3>3. \A k \in 0 .. 0 : UpTo(map)[k] = << >>
      BY <3>1, <3>2
    <3>4. Prefix(map, 0)
      <4>1. 0 <= 0 /\ 1 .. 0 = {}
        OBVIOUS
      <4> QED BY <3>1, <3>2, <3>3, <4>1, Zenon DEF Prefix
    <3> QED BY <2>1, <3>4
  <2>3. n \in 1 .. Len(map) /\ n - 1 \in Nat /\ n - 1 < n /\ n - 1 <= Len(map)
    BY <1>1, <2>1, <2>2
  <2>4. Prefix(map, n - 1)
    <3>1. n - 1 \notin Bad
      BY <2>1, <2>3, Zenon
    <3> QED BY <2>3, <3>1, Zenon
  <2> QED BY <2>1, <2>3, <2>4, PrefixGrows
<1> HIDE DEF Prefix
<1> QED BY <1>1, <1>2

(* Where the chunks of an entry lie among those of the map.                *)
LEMMA MapLayout ==
  ASSUME NEW map \in Seq(EntryType), NEW n \in 1 .. Len(map)
  PROVE  /\ Len(UpTo(map)[n - 1]) \in Nat
         /\ Len(UpTo(map)[n]) = Len(UpTo(map)[n - 1]) + Count(map[n])
         /\ \A j \in Nat : j < Count(map[n]) =>
              /\ Len(UpTo(map)[n - 1]) + j \in Numbers(Chunks(map))
              /\ Chunks(map)[Len(UpTo(map)[n - 1]) + j + 1]
                   = [addr |-> map[n].addr + j * PAGE_SIZE, type |-> map[n].type]
<1> DEFINE u == UpTo(map)[n - 1]
           v == UpTo(map)[n]
           c == EntryChunks(map[n])
           w == Chunks(map)
<1>1. Len(map) \in Nat /\ map[n] \in EntryType /\ n - 1 \in 0 .. Len(map) /\ n \in 0 .. Len(map)
  BY ElementOfSeq
<1>2. /\ v = u \o c /\ u \in Seq(ChunkType) /\ c \in Seq(ChunkType) /\ w = UpTo(map)[Len(map)]
      /\ \A j \in 1 .. Len(c) : c[j] = [addr |-> map[n].addr + (j - 1) * PAGE_SIZE, type |-> map[n].type]
  BY <1>1, UpToUnfolds, EntryLayout, PrefixAlways, Zenon DEF Prefix, Count
<1>3. /\ v \in Seq(ChunkType) /\ w \in Seq(ChunkType) /\ Len(v) <= Len(w)
      /\ \A k \in 1 .. Len(v) : w[k] = v[k]
  <2>1. Prefix(map, Len(map)) /\ Prefix(map, n)
    BY <1>1, PrefixAlways
  <2> QED BY <1>1, <1>2, <2>1, Zenon DEF Prefix
<1>4. Len(u) \in Nat /\ Len(c) \in Nat /\ Len(v) = Len(u) + Len(c)
      /\ \A k \in 1 .. Len(c) : v[Len(u) + k] = c[k]
  <2> HIDE DEF u, v, c
  <2> QED BY <1>2, Joined
<1>5. ASSUME NEW j \in Nat, j < Len(c)
      PROVE  /\ Len(u) + j \in Numbers(w)
             /\ w[Len(u) + j + 1] = [addr |-> map[n].addr + j * PAGE_SIZE, type |-> map[n].type]
  <2>1. j + 1 \in 1 .. Len(c) /\ Len(u) + j + 1 \in 1 .. Len(v) /\ (j + 1) - 1 = j
        /\ Len(u) + (j + 1) = Len(u) + j + 1 /\ Len(w) \in Nat
    <3>1. Len(w) \in Nat
      BY <1>3
    <3> HIDE DEF u, v, w, c
    <3> QED BY <1>4, <1>5, <3>1
  <2>2. w[Len(u) + j + 1] = c[j + 1]
    <3> HIDE DEF u, v, w, c
    <3>1. w[Len(u) + j + 1] = v[Len(u) + j + 1]
      BY <1>3, <2>1
    <3>2. v[Len(u) + (j + 1)] = c[j + 1]
      BY <1>4, <2>1
    <3> QED BY <2>1, <3>1, <3>2, Zenon
  <2>3. c[j + 1] = [addr |-> map[n].addr + ((j + 1) - 1) * PAGE_SIZE, type |-> map[n].type]
    BY <1>2, <2>1, Zenon
  <2>4. Len(u) + j \in Numbers(w)
    <3> HIDE DEF u, v, w, c
    <3> QED BY <1>3, <1>4, <1>5, <2>1 DEF Numbers
  <2> QED BY <2>1, <2>2, <2>3, <2>4, Zenon
<1> QED BY <1>4, <1>5 DEF Count

-----------------------------------------------------------------------------
(* The loops are at chunk j of an entry: that is chunk cur_num of the map. *)
AtChunk(j) ==
  /\ cur_num = Len(UpTo(entries)[entry - 1]) + j
  /\ i = entries[entry].addr + j * PAGE_SIZE

(* What the call looks for among the chunks.                               *)
Matches ==
  IF mode = MMAP_GET_NUM THEN Holding(Chunks(entries), asked)
  ELSE UsableFrom(Chunks(entries), asked)

(* No chunk before cur_num is one; a request that has met a reserved chunk *)
(* has moved with cur_num ever since.                                      *)
Searching ==
  /\ mode \in {MMAP_GET_NUM, MMAP_GET_ADDR}
  /\ request = IF mode = MMAP_GET_ADDR /\ cur_num > asked THEN cur_num ELSE asked
  /\ \A k \in Matches : k >= cur_num

LInv ==
  /\ entries \in Seq(EntryType) /\ asked \in Nat /\ cur_num \in Nat
  /\ pc \in {"start", "outer", "inner", "returned"}
  /\ pc = "start" => cur_num = 0 /\ entry = 1 /\ request = asked
  /\ pc \in {"outer", "inner"} => Searching
  /\ pc = "outer" =>
       entry \in 1 .. Len(entries) + 1 /\ cur_num = Len(UpTo(entries)[entry - 1])
  /\ pc = "inner" =>
       entry \in 1 .. Len(entries) /\ \E j \in 0 .. Count(entries[entry]) : AtChunk(j)
  /\ ReturnsMmapRead

LEMMA LeastIsMin ==
  ASSUME NEW S, NEW m \in S, \A y \in S : y \in Nat /\ m <= y
  PROVE  Min(S) = m
<1> DEFINE P(x) == \A y \in S : x =< y
<1>1. P(m) /\ \A x \in S : P(x) => x = m
  OBVIOUS
<1> QED BY <1>1 DEF Min

(* A chunk that matches, with none before it, is what mmap_read returns;   *)
(* without any it returns 0.                                               *)
LEMMA Answer ==
  ASSUME NEW chunks, NEW req, NEW k \in Nat
  PROVE  /\ k \in Holding(chunks, req) /\ (\A m \in Holding(chunks, req) : m \in Nat /\ m >= k)
              => mmap_read(chunks, req, MMAP_GET_NUM) = k + 1
         /\ k \in UsableFrom(chunks, req) /\ (\A m \in UsableFrom(chunks, req) : m \in Nat /\ m >= k)
              => mmap_read(chunks, req, MMAP_GET_ADDR) = Addr(chunks, k)
         /\ Holding(chunks, req) = {} => mmap_read(chunks, req, MMAP_GET_NUM) = 0
         /\ UsableFrom(chunks, req) = {} => mmap_read(chunks, req, MMAP_GET_ADDR) = 0
<1>1. /\ mmap_read(chunks, req, MMAP_GET_NUM) = GetNum(chunks, req)
      /\ mmap_read(chunks, req, MMAP_GET_ADDR) = GetAddr(chunks, req)
  BY DEF mmap_read, MMAP_GET_NUM, MMAP_GET_ADDR
<1>2. ASSUME k \in Holding(chunks, req), \A m \in Holding(chunks, req) : m \in Nat /\ m >= k
      PROVE  GetNum(chunks, req) = k + 1
  <2>1. Min(Holding(chunks, req)) = k
    BY <1>2, LeastIsMin, Zenon
  <2> QED BY <1>2, <2>1 DEF GetNum
<1>3. ASSUME k \in UsableFrom(chunks, req), \A m \in UsableFrom(chunks, req) : m \in Nat /\ m >= k
      PROVE  GetAddr(chunks, req) = Addr(chunks, k)
  <2>1. Min(UsableFrom(chunks, req)) = k
    BY <1>3, LeastIsMin, Zenon
  <2> QED BY <1>3, <2>1 DEF GetAddr
<1> QED BY <1>1, <1>2, <1>3 DEF GetNum, GetAddr

(* What the inner loop sees at an iteration.                               *)
LEMMA ChunkHere ==
  ASSUME LInv, InsideEntry
  PROVE  /\ cur_num \in Numbers(Chunks(entries))
         /\ Addr(Chunks(entries), cur_num) = i /\ i \in Nat
         /\ Usable(Chunks(entries), cur_num) <=> ~ ReservedChunk
         /\ \E j \in 0 .. Count(entries[entry]) - 1 : AtChunk(j)
<1>1. PICK j \in 0 .. Count(entries[entry]) : AtChunk(j)
  BY DEF LInv, InsideEntry
<1>2. /\ entries \in Seq(EntryType) /\ entry \in 1 .. Len(entries) /\ cur_num \in Nat
      /\ i + PAGE_SIZE < entry_end
  BY DEF LInv, InsideEntry
<1>3. entries[entry] \in EntryType /\ PAGE_SIZE \in Nat \ {0}
  BY <1>2, ElementOfSeq, PageSizeAssumption
<1>4. Count(entries[entry]) \in Nat /\ j \in Nat
  BY <1>3, EntryLayout
<1>5. j < Count(entries[entry])
  <2>1. entries[entry].addr + j * PAGE_SIZE + PAGE_SIZE < entries[entry].addr + entries[entry].len
          <=> j < Count(entries[entry])
    BY <1>3, <1>4, EntryLayout, Zenon
  <2> QED BY <1>1, <1>2, <2>1 DEF AtChunk, entry_end
<1>6. /\ cur_num \in Numbers(Chunks(entries))
      /\ Chunks(entries)[cur_num + 1] = [addr |-> i, type |-> entries[entry].type]
  BY <1>1, <1>2, <1>4, <1>5, MapLayout DEF AtChunk
<1>7. i \in Nat
  <2>1. j * PAGE_SIZE \in Nat
    BY <1>3, <1>4
  <2> QED BY <1>1, <1>3, <2>1 DEF AtChunk, EntryType
<1>8. j \in 0 .. Count(entries[entry]) - 1
  BY <1>4, <1>5
<1> QED BY <1>1, <1>6, <1>7, <1>8 DEF Addr, Usable, ReservedChunk

(* A step that returns the answer.                                         *)
LEMMA ReturnKeeps ==
  ASSUME LInv, NEW value, Return(value), value = mmap_read(Chunks(entries), asked, mode)
  PROVE  LInv'
BY DEF LInv, Return, ReturnsMmapRead

LEMMA MatchesType == ASSUME NEW k \in Matches PROVE k \in Nat
BY DEF Matches, Holding, UsableFrom, Numbers

LEMMA StartKeeps == ASSUME LInv, InvalidMode \/ ValidMode PROVE LInv'
<1>1. CASE InvalidMode
  <2>1. mmap_read(Chunks(entries), asked, mode) = 0
    BY <1>1 DEF InvalidMode, mmap_read
  <2> QED BY <1>1, <2>1, ReturnKeeps DEF InvalidMode
<1>2. CASE ValidMode
  <2>1. /\ cur_num = 0 /\ entry = 1 /\ request = asked /\ asked \in Nat
        /\ entries \in Seq(EntryType) /\ mode \in {MMAP_GET_NUM, MMAP_GET_ADDR}
        /\ UNCHANGED << entries, mode, request, entry, i, cur_num, result, asked >>
        /\ pc' = "outer"
    BY <1>2 DEF LInv, ValidMode
  <2>2. Searching
    BY <2>1, MatchesType DEF Searching
  <2>3. 1 \in 1 .. Len(entries) + 1 /\ Len(entries) \in Nat /\ 1 - 1 = 0
    BY <2>1
  <2>4. Len(UpTo(entries)[0]) = 0
    <3>1. UpTo(entries)[0] = << >>
      BY <2>3, UpToUnfolds, Zenon
    <3> QED BY <3>1
  <2>5. Searching'
    BY <2>1, <2>2 DEF Searching, Matches
  <2>6. entry' \in 1 .. Len(entries') + 1 /\ cur_num' = Len(UpTo(entries')[entry' - 1])
    BY <2>1, <2>3, <2>4
  <2> QED BY <2>1, <2>5, <2>6 DEF LInv, ReturnsMmapRead
<1> QED BY <1>1, <1>2

LEMMA EnterKeeps == ASSUME LInv, EnterEntry PROVE LInv'
<1>1. /\ entries \in Seq(EntryType) /\ entry \in 1 .. Len(entries) + 1 /\ entry <= Len(entries)
      /\ cur_num = Len(UpTo(entries)[entry - 1]) /\ Searching
      /\ i' = entries[entry].addr /\ pc' = "inner"
      /\ UNCHANGED << entries, mode, request, entry, cur_num, result, asked >>
  BY DEF LInv, EnterEntry
<1>2. Len(entries) \in Nat /\ entry \in 1 .. Len(entries)
  BY <1>1
<1>3. entries[entry] \in EntryType
  BY <1>1, <1>2, ElementOfSeq
<1>4. entries[entry].addr \in Nat /\ PAGE_SIZE \in Nat /\ Count(entries[entry]) \in Nat
  BY <1>3, PageSizeAssumption, EntryLayout, Zenon DEF EntryType
<1>5. 0 \in 0 .. Count(entries[entry]) /\ 0 * PAGE_SIZE = 0
      /\ entries[entry].addr + 0 = entries[entry].addr
  BY <1>4
<1>6. cur_num + 0 = cur_num
  BY DEF LInv
<1>7. AtChunk(0)'
  BY <1>1, <1>5, <1>6 DEF AtChunk
<1>8. Searching'
  BY <1>1 DEF Searching, Matches
<1>9. 0 \in 0 .. Count(entries'[entry'])
  BY <1>1, <1>5
<1> QED BY <1>1, <1>2, <1>7, <1>8, <1>9 DEF LInv, ReturnsMmapRead

LEMMA EndKeeps == ASSUME LInv, EndOfMap PROVE LInv'
<1>1. /\ entries \in Seq(EntryType) /\ entry \in 1 .. Len(entries) + 1 /\ entry > Len(entries)
      /\ cur_num = Len(UpTo(entries)[entry - 1]) /\ Searching /\ Return(0)
  BY DEF LInv, EndOfMap
<1>2. Len(entries) \in Nat /\ entry - 1 = Len(entries)
  BY <1>1
<1>3. cur_num = Len(Chunks(entries)) /\ cur_num \in Nat
  BY <1>1, <1>2, UpToUnfolds, Zenon DEF LInv
<1>4. \A k \in Matches : k < cur_num /\ k >= cur_num /\ k \in Nat
  BY <1>1, <1>3, MatchesType DEF Searching, Matches, Holding, UsableFrom, Numbers
<1>5. Matches = {}
  BY <1>3, <1>4
<1>6. mmap_read(Chunks(entries), asked, mode) = 0
  BY <1>1, <1>3, <1>5, Answer DEF Searching, Matches
<1> QED BY <1>1, <1>6, ReturnKeeps

LEMMA LeaveKeeps == ASSUME LInv, LeaveEntry PROVE LInv'
<1>1. /\ entries \in Seq(EntryType) /\ entry \in 1 .. Len(entries) /\ Searching
      /\ ~ (i + PAGE_SIZE < entry_end) /\ entry' = entry + 1 /\ pc' = "outer"
      /\ UNCHANGED << entries, mode, request, i, cur_num, result, asked >>
  BY DEF LInv, LeaveEntry, InsideEntry
<1>2. PICK j \in 0 .. Count(entries[entry]) : AtChunk(j)
  BY DEF LInv, LeaveEntry
<1>3. entries[entry] \in EntryType
  BY <1>1, ElementOfSeq
<1>4. Count(entries[entry]) \in Nat /\ j \in Nat
  BY <1>3, EntryLayout
<1>5. ~ (j < Count(entries[entry]))
  <2>1. entries[entry].addr + j * PAGE_SIZE + PAGE_SIZE < entries[entry].addr + entries[entry].len
          <=> j < Count(entries[entry])
    BY <1>3, <1>4, EntryLayout
  <2> QED BY <1>1, <1>2, <2>1 DEF AtChunk, entry_end
<1>6. j = Count(entries[entry])
  BY <1>4, <1>5
<1>7. cur_num = Len(UpTo(entries)[entry])
  BY <1>1, <1>2, <1>6, MapLayout, Zenon DEF AtChunk
<1>8. Len(entries) \in Nat /\ (entry + 1) - 1 = entry /\ entry + 1 \in 1 .. Len(entries) + 1
  BY <1>1
<1>9. Searching'
  BY <1>1 DEF Searching, Matches
<1>10. entry' \in 1 .. Len(entries') + 1 /\ cur_num' = Len(UpTo(entries')[entry' - 1])
  BY <1>1, <1>7, <1>8
<1> QED BY <1>1, <1>9, <1>10 DEF LInv, ReturnsMmapRead

LEMMA FoundKeeps == ASSUME LInv, ReturnNum \/ ReturnAddr PROVE LInv'
<1> DEFINE C == Chunks(entries)
<1>1. /\ InsideEntry /\ Searching /\ asked \in Nat /\ cur_num \in Nat
      /\ PAGE_SIZE \in Nat
  BY PageSizeAssumption DEF LInv, ReturnNum, ReturnAddr, InsideEntry
<1>2. /\ cur_num \in Numbers(C) /\ Addr(C, cur_num) = i /\ i \in Nat
      /\ Usable(C, cur_num) <=> ~ ReservedChunk
  BY <1>1, ChunkHere
<1>3. \A k \in Matches : k \in Nat /\ k >= cur_num
  BY <1>1, MatchesType DEF Searching
<1> HIDE DEF C
<1>4. CASE ReturnNum
  <2>1. mode = MMAP_GET_NUM /\ request >= i /\ request <= i + PAGE_SIZE /\ Return(cur_num + 1)
    BY <1>4 DEF ReturnNum, FoundNum
  <2>2. request = asked
    BY <1>1, <2>1 DEF Searching, MMAP_GET_NUM, MMAP_GET_ADDR
  <2>3. Matches = Holding(C, asked)
    BY <2>1 DEF Matches, C
  <2>4. cur_num \in Holding(C, asked)
    BY <1>2, <2>1, <2>2 DEF Holding
  <2>5. mmap_read(C, asked, mode) = cur_num + 1
    BY <1>1, <1>3, <2>1, <2>3, <2>4, Answer
  <2> QED BY <2>1, <2>5, ReturnKeeps DEF C
<1>5. CASE ReturnAddr
  <2>1. mode = MMAP_GET_ADDR /\ cur_num = request /\ ~ ReservedChunk /\ Return(i)
    BY <1>5 DEF ReturnAddr, Wanted
  <2>2. cur_num >= asked
    BY <1>1, <2>1 DEF Searching
  <2>3. Matches = UsableFrom(C, asked)
    BY <2>1 DEF Matches, C, MMAP_GET_NUM, MMAP_GET_ADDR
  <2>4. cur_num \in UsableFrom(C, asked)
    BY <1>2, <2>1, <2>2 DEF UsableFrom
  <2>5. mmap_read(C, asked, mode) = i
    BY <1>1, <1>2, <1>3, <2>1, <2>3, <2>4, Answer
  <2> QED BY <2>1, <2>5, ReturnKeeps DEF C
<1> QED BY <1>4, <1>5

LEMMA GoOnKeeps == ASSUME LInv, SkipReserved \/ Advance PROVE LInv'
<1> DEFINE C == Chunks(entries)
<1>1. /\ InsideEntry /\ Searching /\ asked \in Nat /\ cur_num \in Nat /\ ~ FoundNum
      /\ PAGE_SIZE \in Nat \ {0} /\ entries \in Seq(EntryType) /\ entry \in 1 .. Len(entries)
      /\ pc = "inner"
  BY PageSizeAssumption DEF LInv, SkipReserved, Advance, InsideEntry
<1>2. /\ cur_num \in Numbers(C) /\ Addr(C, cur_num) = i /\ i \in Nat
      /\ Usable(C, cur_num) <=> ~ ReservedChunk
  BY <1>1, ChunkHere
<1>3. PICK j \in 0 .. Count(entries[entry]) - 1 : AtChunk(j)
  BY <1>1, ChunkHere
<1>4. /\ i' = i + PAGE_SIZE /\ cur_num' = cur_num + 1
      /\ entries' = entries /\ mode' = mode /\ entry' = entry /\ pc' = pc
      /\ result' = result /\ asked' = asked
  BY DEF SkipReserved, Advance, NextChunk
<1>5. AtChunk(j + 1)' /\ j + 1 \in 0 .. Count(entries[entry])
  <2>1. entries[entry] \in EntryType
    BY <1>1, ElementOfSeq
  <2>2. Count(entries[entry]) \in Nat /\ entries[entry].addr \in Nat
        /\ Len(UpTo(entries)[entry - 1]) \in Nat
    BY <1>1, <2>1, EntryLayout, MapLayout DEF EntryType
  <2>3. j \in Nat /\ j + 1 \in 0 .. Count(entries[entry])
    BY <2>2
  <2>4. PICK p \in Nat : p = j * PAGE_SIZE /\ (j + 1) * PAGE_SIZE = p + PAGE_SIZE
    <3>1. j * PAGE_SIZE \in Nat /\ (j + 1) * PAGE_SIZE = j * PAGE_SIZE + PAGE_SIZE
      BY <1>1, <2>3
    <3> QED BY <3>1, Zenon
  <2>5. i = entries[entry].addr + p
    BY <1>3, <2>4, Zenon DEF AtChunk
  <2>6. i + PAGE_SIZE = entries[entry].addr + (p + PAGE_SIZE)
    <3>1. PICK a \in Nat, b \in Nat : a = entries[entry].addr /\ b = PAGE_SIZE
      BY <1>1, <2>2
    <3>2. (a + p) + b = a + (p + b)
      OBVIOUS
    <3> QED BY <2>5, <3>1, <3>2, Zenon
  <2>7. cur_num + 1 = Len(UpTo(entries)[entry - 1]) + (j + 1)
    <3>1. cur_num = Len(UpTo(entries)[entry - 1]) + j
      BY <1>3 DEF AtChunk
    <3>2. PICK n \in Nat : n = Len(UpTo(entries)[entry - 1])
      BY <2>2
    <3>3. (n + j) + 1 = n + (j + 1)
      BY <2>3
    <3> QED BY <3>1, <3>2, <3>3, Zenon
  <2>8. i + PAGE_SIZE = entries[entry].addr + (j + 1) * PAGE_SIZE
    BY <2>4, <2>6, Zenon
  <2> QED BY <1>4, <2>3, <2>7, <2>8, Zenon DEF AtChunk
<1>6. mode \in {MMAP_GET_NUM, MMAP_GET_ADDR} /\ MMAP_GET_NUM # MMAP_GET_ADDR
  BY <1>1 DEF Searching, MMAP_GET_NUM, MMAP_GET_ADDR
<1>7. request' = IF mode = MMAP_GET_ADDR /\ cur_num + 1 > asked THEN cur_num + 1 ELSE asked
  <2>1. CASE SkipReserved
    BY <1>1, <2>1 DEF SkipReserved, NextChunk, Wanted, Searching
  <2>2. CASE Advance
    BY <1>1, <2>2 DEF Advance, NextChunk, Wanted, Searching
  <2> QED BY <2>1, <2>2
<1>8. cur_num \notin Matches
  <2>1. CASE mode = MMAP_GET_NUM
    <3>1. request = asked
      BY <1>1, <1>6, <2>1 DEF Searching
    <3>2. cur_num \notin Holding(C, asked)
      BY <1>1, <1>2, <2>1, <3>1 DEF FoundNum, Holding
    <3> QED BY <2>1, <3>2 DEF Matches
  <2>2. CASE mode = MMAP_GET_ADDR
    <3>1. ReservedChunk \/ cur_num # request
      BY <2>2 DEF SkipReserved, Advance, Wanted
    <3>2. cur_num # request => cur_num < asked
      BY <1>1, <2>2 DEF Searching
    <3>3. cur_num \notin UsableFrom(C, asked)
      BY <1>1, <1>2, <3>1, <3>2 DEF UsableFrom
    <3> QED BY <1>6, <2>2, <3>3 DEF Matches
  <2> QED BY <1>6, <2>1, <2>2
<1>9. \A k \in Matches : k >= cur_num + 1
  BY <1>1, <1>8, MatchesType DEF Searching
<1>10. Searching'
  <2>1. Matches' = Matches
    BY <1>4 DEF Matches
  <2> QED BY <1>4, <1>6, <1>7, <1>9, <2>1 DEF Searching
<1>11. \E m \in 0 .. Count(entries'[entry']) : AtChunk(m)'
  BY <1>4, <1>5
<1>12. cur_num' \in Nat /\ pc' = "inner"
  BY <1>1, <1>4
<1> QED BY <1>1, <1>4, <1>10, <1>11, <1>12 DEF LInv, ReturnsMmapRead

LEMMA LoopInvariant == Spec => []LInv
<1>1. Init => LInv
  BY RequestsAssumption, EntriesAssumption DEF Init, LInv, EntryType, ReturnsMmapRead
<1>2. LInv /\ [Next]_vars => LInv'
  <2> SUFFICES ASSUME LInv, [Next]_vars PROVE LInv'
    OBVIOUS
  <2>1. CASE Next
    BY <2>1, StartKeeps, EnterKeeps, EndKeeps, LeaveKeeps, FoundKeeps, GoOnKeeps DEF Next
  <2>2. CASE UNCHANGED vars
    <3>1. /\ entries' = entries /\ mode' = mode /\ request' = request /\ entry' = entry
          /\ i' = i /\ cur_num' = cur_num /\ pc' = pc /\ result' = result /\ asked' = asked
      BY <2>2 DEF vars
    <3> QED BY <3>1 DEF LInv, Searching, Matches, AtChunk, ReturnsMmapRead
  <2> QED BY <2>1, <2>2
<1> QED BY <1>1, <1>2, PTL DEF Spec

(* The nested loops of mmap_read return what the operator mmap_read says   *)
(* that the frame allocator gets, for every memory map, request and mode.  *)
THEOREM LoopsCompute == Spec => []ReturnsMmapRead
<1>1. LInv => ReturnsMmapRead
  BY DEF LInv
<1> QED BY <1>1, LoopInvariant, PTL

-----------------------------------------------------------------------------
(* The clock (module Rtc), for every clock whose registers do not repeat a *)
(* value within Period updates, and every number of updates.               *)

(* While the flag is clear all registers agree; an update changes each by  *)
(* one.  The readings compared span fewer than Period updates.             *)
Clock ==
  /\ \A f \in Fields : updates[f] \in time .. time + 1
  /\ ~ uip => \A f \in Fields : updates[f] = time
  /\ uip => time < MaxTime /\ time + 1 - laststart < Period
  /\ time - laststart < Period

HasRead(f) ==
  \/ step \in {"copy", "compare"}
  \/ step = "read" /\ \E n \in 1 .. reg - 1 : f = Order[n]

(* What the current round has read, it read after the flag was clear.      *)
Current ==
  \A f \in Fields : HasRead(f) => \E j \in start .. updates[f] : rtc[f] = Register(f, j)

(* What the previous round has read, it read between its start and the     *)
(* start of the current round.                                             *)
Previous ==
  ~ first => \A f \in Fields :
    /\ step = "wait" => \E n \in start .. updates[f] : last[f] = Register(f, n)
    /\ step \in {"read", "compare"} => \E n \in laststart .. start : last[f] = Register(f, n)

RtcInv ==
  TypeOK /\ Clock /\ Current /\ Previous /\ (step = "compare" => ~ first) /\ Consistent

(* Eight registers are read.                                               *)
LEMMA OrderFacts ==
  /\ Len(Order) = 8
  /\ \A n \in 1 .. 8 : Order[n] \in Fields
  /\ \A f \in Fields : \E n \in 1 .. 8 : f = Order[n]
<1>1. Len(Order) = 8
  BY DEF Order
<1> QED
  BY <1>1 DEF Order, Fields

LEMMA RtcInitInv == ASSUME RtcInit PROVE RtcInv
<1>1. TypeOK
  <2>1. uip \in BOOLEAN /\ first \in BOOLEAN
    BY Zenon DEF RtcInit
  <2>2. /\ time \in 0 .. MaxTime
        /\ updates \in [Fields -> 0 .. MaxTime]
        /\ step \in {"wait", "read", "copy", "compare", "done"}
        /\ reg \in 1 .. Len(Order) + 1 /\ (step = "read" => reg <= Len(Order))
        /\ rtc = [f \in Fields |-> rtc[f]] /\ last = [f \in Fields |-> last[f]]
        /\ start \in 0 .. time /\ laststart \in 0 .. start
    BY OrderFacts, PeriodAssumption, MaxTimeAssumption DEF RtcInit, Uninitialized
  <2> QED BY <2>1, <2>2 DEF TypeOK
<1>2. Clock
  BY PeriodAssumption, MaxTimeAssumption DEF RtcInit, Clock
<1>3. Current /\ Previous /\ (step = "compare" => ~ first) /\ Consistent
  BY DEF RtcInit, Current, HasRead, Previous, Consistent
<1> QED BY <1>1, <1>2, <1>3 DEF RtcInv

(* The device: a reading made before an update is still one made before.   *)
LEMMA UpdateKeeps == ASSUME RtcInv, Update PROVE RtcInv'
<1>1. UNCHANGED call
  BY DEF Update, UpdateBegin, UpdateRegister, UpdateEnd
<1>2. /\ time \in 0 .. MaxTime /\ start \in 0 .. time /\ laststart \in 0 .. start
      /\ updates \in [Fields -> 0 .. MaxTime]
  BY DEF RtcInv, TypeOK
<1>3. TypeOK'
  <2>1. CASE UpdateBegin
    BY <2>1 DEF UpdateBegin, RtcInv, TypeOK, call
  <2>2. ASSUME NEW f \in Fields, UpdateRegister(f) PROVE TypeOK'
    BY <1>2, <2>2, PeriodAssumption, MaxTimeAssumption DEF UpdateRegister, RtcInv, TypeOK, Clock, call
  <2>3. CASE UpdateEnd
    <3>1. time' \in 0 .. MaxTime /\ start' \in 0 .. time' /\ laststart' \in 0 .. start'
      BY <1>2, <2>3, PeriodAssumption, MaxTimeAssumption DEF UpdateEnd, RtcInv, Clock, call
    <3>2. uip' \in BOOLEAN
      BY <2>3, Zenon DEF UpdateEnd
    <3> QED
      BY <2>3, <3>1, <3>2 DEF UpdateEnd, RtcInv, TypeOK, call
  <2> QED BY <2>1, <2>2, <2>3 DEF Update
<1>4. Clock'
  <2>1. CASE UpdateBegin
    BY <1>1, <1>2, <2>1 DEF UpdateBegin, RtcInv, Clock, call
  <2>2. ASSUME NEW f \in Fields, UpdateRegister(f) PROVE Clock'
    BY <1>1, <1>2, <2>2, PeriodAssumption, MaxTimeAssumption DEF UpdateRegister, RtcInv, Clock, call
  <2>3. CASE UpdateEnd
    BY <1>1, <1>2, <2>3, PeriodAssumption, MaxTimeAssumption DEF UpdateEnd, RtcInv, Clock, call
  <2> QED BY <2>1, <2>2, <2>3 DEF Update
<1>5. \A f \in Fields : updates'[f] \in Int /\ updates[f] \in Int /\ updates[f] <= updates'[f]
  BY <1>2, PeriodAssumption, MaxTimeAssumption DEF Update, UpdateBegin, UpdateRegister, UpdateEnd
<1>6. \A f \in Fields : \A n \in start .. updates[f] : n \in start .. updates'[f]
  BY <1>2, <1>5
<1>7. Current'
  BY <1>1, <1>6 DEF RtcInv, Current, HasRead, call
<1>8. Previous'
  BY <1>1, <1>6 DEF RtcInv, Previous, call
<1>9. (step = "compare" => ~ first)' /\ Consistent'
  BY <1>1 DEF RtcInv, Consistent, call
<1> QED BY <1>3, <1>4, <1>7, <1>8, <1>9 DEF RtcInv

(* A round begins with all registers at the same update.                   *)
LEMMA WaitKeeps == ASSUME RtcInv, Wait PROVE RtcInv'
<1>1. /\ step = "wait" /\ ~ uip /\ step' = "read" /\ reg' = 1
      /\ laststart' = start /\ start' = time
      /\ UNCHANGED << time, uip, updates, first, rtc, last >>
  BY DEF Wait, clock, update_in_progress
<1>2. /\ time \in 0 .. MaxTime /\ start \in 0 .. time /\ laststart \in 0 .. start
  BY DEF RtcInv, TypeOK
<1>3. TypeOK'
  BY <1>1, <1>2, OrderFacts, PeriodAssumption, MaxTimeAssumption DEF RtcInv, TypeOK
<1>4. Clock'
  BY <1>1, <1>2, PeriodAssumption, MaxTimeAssumption DEF RtcInv, Clock
<1>5. Current'
  BY <1>1 DEF Current, HasRead
<1>6. Previous'
  BY <1>1 DEF RtcInv, Clock, Previous
<1>7. (step = "compare" => ~ first)' /\ Consistent'
  BY <1>1 DEF Consistent
<1> QED BY <1>3, <1>4, <1>5, <1>6, <1>7 DEF RtcInv

(* A read adds one register to the round.                                  *)
LEMMA ReadKeeps == ASSUME RtcInv, Read PROVE RtcInv'
<1> DEFINE g == Order[reg]
<1>1. /\ step = "read" /\ reg' = reg + 1
      /\ rtc' = [rtc EXCEPT ![g] = Register(g, updates[g])]
      /\ step' = IF reg < 8 THEN "read" ELSE IF first THEN "copy" ELSE "compare"
      /\ UNCHANGED << time, uip, updates, first, last, start, laststart >>
  BY OrderFacts DEF Read, ReadOne, clock, read_register
<1>2. /\ time \in 0 .. MaxTime /\ start \in 0 .. time /\ reg \in 1 .. 8
      /\ updates \in [Fields -> 0 .. MaxTime]
  BY <1>1, OrderFacts DEF RtcInv, TypeOK
<1>3. TypeOK'
  BY <1>1, <1>2, OrderFacts DEF RtcInv, TypeOK
<1>4. Clock'
  BY <1>1 DEF RtcInv, Clock
<1>5. Current'
  <2> SUFFICES ASSUME NEW f \in Fields, HasRead(f)'
               PROVE  \E j \in start .. updates[f] : rtc'[f] = Register(f, j)
    BY <1>1 DEF Current
  <2>1. f = g \/ \E n \in 1 .. reg - 1 : f = Order[n]
    <3>1. \E n \in 1 .. reg : f = Order[n]
      BY <1>1, <1>2, OrderFacts DEF HasRead
    <3> QED BY <1>2, <3>1
  <2>2. CASE f = g
    <3>1. updates[f] \in start .. updates[f]
      BY <1>2, PeriodAssumption, MaxTimeAssumption DEF RtcInv, Clock
    <3>2. rtc'[f] = Register(f, updates[f])
      BY <1>1, <2>2 DEF RtcInv, TypeOK
    <3> QED BY <3>1, <3>2
  <2>3. CASE f # g
    <3>1. rtc'[f] = rtc[f] /\ HasRead(f)
      BY <1>1, <2>1, <2>3 DEF HasRead
    <3> QED BY <3>1 DEF RtcInv, Current
  <2> QED BY <2>2, <2>3
<1>6. Previous'
  BY <1>1 DEF RtcInv, Previous
<1>7. (step = "compare" => ~ first)' /\ Consistent'
  BY <1>1 DEF Consistent
<1> QED BY <1>3, <1>4, <1>5, <1>6, <1>7 DEF RtcInv

(* What was read in this round is what the next one is compared with.      *)
LEMMA CopyKeeps == ASSUME RtcInv, Copy PROVE RtcInv'
<1>1. /\ step = "copy" /\ step' = "wait" /\ last' = rtc /\ first' = FALSE
      /\ UNCHANGED << time, uip, updates, reg, rtc, start, laststart >>
  BY DEF Copy, clock
<1>2. TypeOK'
  BY <1>1, Zenon DEF RtcInv, TypeOK
<1>3. Clock'
  BY <1>1 DEF RtcInv, Clock
<1>4. Current' /\ Previous'
  BY <1>1 DEF RtcInv, Current, Previous, HasRead
<1>5. (step = "compare" => ~ first)' /\ Consistent'
  BY <1>1 DEF Consistent
<1> QED BY <1>2, <1>3, <1>4, <1>5 DEF RtcInv

(* Two equal rounds have read what the registers were between them.        *)
LEMMA CompareKeeps == ASSUME RtcInv, Compare PROVE RtcInv'
<1>1. /\ step = "compare"
      /\ step' = IF \E f \in Fields : rtc[f] # last[f] THEN "copy" ELSE "done"
      /\ UNCHANGED << time, uip, updates, first, reg, rtc, last, start, laststart >>
  BY DEF Compare, clock, rtc_values_are_not_equal
<1>2. /\ time \in 0 .. MaxTime /\ start \in 0 .. time /\ laststart \in 0 .. start
      /\ updates \in [Fields -> 0 .. MaxTime]
  BY DEF RtcInv, TypeOK
<1>3. TypeOK'
  BY <1>1 DEF RtcInv, TypeOK
<1>4. Clock'
  BY <1>1 DEF RtcInv, Clock
<1>5. Current' /\ Previous' /\ (step = "compare" => ~ first)'
  BY <1>1 DEF RtcInv, Current, Previous, HasRead
<1>6. Consistent'
  <2> SUFFICES ASSUME step' = "done", NEW f \in Fields
               PROVE  rtc[f] = Register(f, start)
    BY <1>1 DEF Consistent
  <2>1. rtc[f] = last[f]
    BY <1>1
  <2>2. PICK n \in laststart .. start : last[f] = Register(f, n)
    BY <1>1 DEF RtcInv, Previous
  <2>3. PICK j \in start .. updates[f] : rtc[f] = Register(f, j)
    BY <1>1 DEF RtcInv, Current, HasRead
  <2>4. j - n < Period
    BY <1>2, PeriodAssumption, MaxTimeAssumption DEF RtcInv, Clock
  <2>5. n \in 0 .. MaxTime + 1 /\ start \in 0 .. MaxTime + 1 /\ j \in 0 .. MaxTime + 1
    BY <1>2, PeriodAssumption, MaxTimeAssumption
  <2>6. n <= start /\ start <= j
    BY <1>2, <2>5
  <2> QED
    BY <2>1, <2>2, <2>3, <2>4, <2>5, <2>6, RegisterAssumption
<1> QED BY <1>3, <1>4, <1>5, <1>6 DEF RtcInv

(* The invariant is inductive.                                             *)
LEMMA Inductive == RtcSpec => []RtcInv
<1>1. ASSUME RtcInv, [RtcNext]_rtcvars PROVE RtcInv'
  <2>1. CASE UNCHANGED rtcvars
    BY <1>1, <2>1
    DEF rtcvars, clock, call, RtcInv, TypeOK, Clock, Current, HasRead, Previous, Consistent
  <2> QED
    BY <1>1, <2>1, UpdateKeeps, WaitKeeps, ReadKeeps, CopyKeeps, CompareKeeps
    DEF RtcNext, cmos_read_rtc, Done
<1> QED BY <1>1, RtcInitInv, PTL DEF RtcSpec

(* The clock and the call keep their types.                                *)
THEOREM TypeCorrect == RtcSpec => []TypeOK
BY Inductive, PTL DEF RtcInv

(* cmos_read_rtc returns what the clock showed at one instant, however     *)
(* its reads are interleaved with updates.                                 *)
THEOREM NeverTorn == RtcSpec => []Consistent
BY Inductive, PTL DEF RtcInv

(* The loop implements an atomic read: its steps before the last change    *)
(* nothing the caller sees, and the last one returns a state the clock was *)
(* in since the call.                                                      *)
THEOREM ImplementsAtomicRead == RtcSpec => ReadsAtomically
<1> DEFINE reading == IF step = "done" THEN rtc ELSE Nothing
<1>1. RtcInit => Atomic!Init
  BY DEF RtcInit, Atomic!Init
<1>2. ASSUME RtcInv, RtcInv', [RtcNext]_rtcvars PROVE [Atomic!Next]_<< time, reading >>
  <2>1. CASE UpdateEnd
    <3>1. time' = time + 1 /\ reading' = reading
      BY <2>1 DEF UpdateEnd, call
    <3> QED BY <3>1 DEF Atomic!Next, Atomic!Tick
  <2>2. CASE Compare
    <3>1. CASE step' = "done"
      <4>1. reading = Nothing /\ reading' = rtc' /\ UNCHANGED time
        BY <2>2, <3>1 DEF Compare, clock
      <4>2. rtc' = [f \in Fields |-> Register(f, start')]
        BY <1>2, <3>1 DEF RtcInv, TypeOK, Consistent
      <4>3. start' \in 0 .. time
        BY <1>2, <4>1 DEF RtcInv, TypeOK
      <4> QED
        BY <4>1, <4>2, <4>3 DEF Atomic!Next, Atomic!Return, Atomic!At
    <3>2. CASE step' # "done"
      BY <2>2, <3>2 DEF Compare, clock
    <3> QED BY <3>1, <3>2
  <2>3. CASE \/ UpdateBegin \/ (\E f \in Fields : UpdateRegister(f))
             \/ Wait \/ Read \/ Copy \/ UNCHANGED rtcvars
    <3>1. time' = time /\ reading' = reading
      BY <2>3 DEF UpdateBegin, UpdateRegister, Wait, Read, ReadOne, Copy, rtcvars, clock, call
    <3> QED BY <3>1
  <2> QED
    BY <1>2, <2>1, <2>2, <2>3 DEF RtcNext, Update, cmos_read_rtc, Done
<1> QED
  BY <1>1, <1>2, Inductive, PTL DEF RtcSpec, ReadsAtomically, Atomic!Spec

-----------------------------------------------------------------------------
(* The conversion that follows the reading (module RtcConvert), for every  *)
(* time of the clock and every format; Times is any set of such times.     *)

Time == { t \in [Fields -> 0 .. 99] : t.hours < 24 }
Formats == [binary : BOOLEAN, hours24 : BOOLEAN]

(* Two decimal digits survive the way to a byte and back.                  *)
LEMMA BcdRoundTrip == ASSUME NEW v \in 0 .. 99 PROVE FromBcd(Bcd(v)) = v /\ Bcd(v) \in Nat
<1>1. PICK q \in 0 .. 9, r \in 0 .. 9 : v = 10 * q + r
  <2>1. v \div 10 \in 0 .. 9 /\ v % 10 \in 0 .. 9 /\ v = 10 * (v \div 10) + (v % 10)
    OBVIOUS
  <2> QED BY <2>1
<1>2. v \div 10 = q /\ v % 10 = r
  BY <1>1
<1>3. Bcd(v) = 16 * q + r
  BY <1>2 DEF Bcd
<1>4. (16 * q + r) % 16 = r /\ (16 * q + r) \div 16 = q
  OBVIOUS
<1> QED BY <1>1, <1>3, <1>4 DEF FromBcd

(* Bit 7 of the hours goes through the conversion beside the digits.       *)
LEMMA HoursRoundTrip ==
  ASSUME NEW v \in 1 .. 12, NEW pm \in {0, 128}
  PROVE  HoursFromBcd(Bcd(v) + pm) = v + pm
<1>1. Bcd(v) \in 0 .. 18 /\ FromBcd(Bcd(v)) = v
  BY BcdRoundTrip DEF Bcd
<1> DEFINE b == Bcd(v)
<1> HIDE DEF b
<1>2. b \in 0 .. 18 => (b + pm) % 128 = b /\ 128 * ((b + pm) \div 128) = pm
  OBVIOUS
<1> QED BY <1>1, <1>2 DEF HoursFromBcd, b

-----------------------------------------------------------------------------
(* The hours of a clock in binary format.                                  *)
BinaryHours(h, b) ==
  IF b.hours24 THEN h ELSE (IF h % 12 = 0 THEN 12 ELSE h % 12) + (IF h >= 12 THEN 128 ELSE 0)

(* The hours that the conversion gets right.                               *)
Right == reg_b.hours24 \/ showing.hours \notin {0, 12}

(* After each stage the fields that it has dealt with have their value.    *)
ConvertInv ==
  /\ showing \in Time /\ reg_b \in Formats
  /\ rtc \in [Fields -> Nat]
  /\ step \in {"bcd", "hours", "year", "done"}
  /\ step = "bcd" =>
       \A f \in Fields : rtc[f] = IF f = "hours" THEN ShowHours(showing[f], reg_b)
                                  ELSE Show(showing[f], reg_b)
  /\ step = "hours" =>
       \A f \in Fields : rtc[f] = IF f = "hours" THEN BinaryHours(showing[f], reg_b) ELSE showing[f]
  /\ step = "year" /\ Right => \A f \in Fields : rtc[f] = showing[f]
  /\ step = "done" /\ Right =>
       \A f \in Fields : rtc[f] = IF f = "year" THEN showing.century * 100 + showing.year ELSE showing[f]

(* What the clock shows are natural numbers.                               *)
LEMMA ShownType ==
  ASSUME NEW t \in Time, NEW b \in Formats
  PROVE  Shown(t, b) \in [Fields -> Nat]
<1>1. ASSUME NEW v \in 0 .. 99 PROVE Show(v, b) \in Nat
  BY BcdRoundTrip DEF Show
<1>2. ShowHours(t["hours"], b) \in Nat
  <2>1. t["hours"] \in 0 .. 99 /\ t["hours"] % 12 \in 0 .. 99 /\ 12 \in 0 .. 99
    BY DEF Time, Fields
  <2> QED BY <1>1, <2>1 DEF ShowHours
<1>3. DOMAIN t = Fields /\ \A f \in Fields : t[f] \in 0 .. 99
  BY DEF Time
<1> QED BY <1>1, <1>2, <1>3 DEF Shown

LEMMA ConvertInitInv == ASSUME ConvertInit PROVE ConvertInv
<1>1. showing \in Time /\ reg_b \in Formats /\ rtc = Shown(showing, reg_b) /\ step = "bcd"
  BY TimesAssumption DEF ConvertInit, Time, Formats
<1>2. rtc \in [Fields -> Nat]
  BY <1>1, ShownType
<1>3. DOMAIN showing = Fields
  BY <1>1 DEF Time
<1> QED BY <1>1, <1>2, <1>3 DEF ConvertInv, Shown

(* Decode turns every field to binary.                                     *)
LEMMA DecodeKeeps == ASSUME ConvertInv, Decode PROVE ConvertInv'
<1>1. /\ showing \in Time /\ reg_b \in Formats /\ showing' = showing /\ reg_b' = reg_b
      /\ step' = "hours" /\ rtc \in [Fields -> Nat]
  BY DEF ConvertInv, Decode
<1>2. /\ rtc["hours"] = ShowHours(showing["hours"], reg_b)
      /\ \A f \in Fields : f # "hours" => rtc[f] = Show(showing[f], reg_b)
  BY DEF ConvertInv, Decode, Fields
<1>3. \A f \in Fields : showing[f] \in 0 .. 99
  BY <1>1 DEF Time
<1>4. showing["hours"] \in 0 .. 23 /\ "hours" \in Fields
  BY <1>1 DEF Time, Fields
<1> DEFINE h == showing["hours"]
           face == IF h % 12 = 0 THEN 12 ELSE h % 12
           pm == IF h >= 12 THEN 128 ELSE 0
<1>5. face \in 1 .. 12 /\ pm \in {0, 128} /\ h \in 0 .. 99
  BY <1>4
<1>6. CASE reg_b.binary
  <2>1. rtc' = rtc
    BY <1>6 DEF Decode
  <2>2. \A f \in Fields : rtc[f] = IF f = "hours" THEN BinaryHours(showing[f], reg_b) ELSE showing[f]
    BY <1>2, <1>6 DEF Show, ShowHours, BinaryHours
  <2> QED BY <1>1, <2>1, <2>2 DEF ConvertInv
<1>7. CASE ~ reg_b.binary
  <2>1. rtc' = [f \in Fields |-> IF f = "hours" THEN HoursFromBcd(rtc[f])
                                   ELSE FromBcd(rtc[f])]
    BY <1>1, <1>7 DEF Decode
  <2>2. \A f \in Fields : f # "hours" => rtc'[f] = showing[f]
    BY <1>2, <1>3, <1>7, <2>1, BcdRoundTrip DEF Show
  <2>3. rtc'["hours"] = HoursFromBcd(rtc["hours"])
    BY <1>4, <2>1
  <2>4. ASSUME reg_b.hours24 PROVE rtc'["hours"] = BinaryHours(h, reg_b)
    <3> DEFINE b == Bcd(h)
    <3>1. rtc["hours"] = b
      BY <1>2, <1>7, <2>4 DEF ShowHours, Show
    <3>2. b \in 0 .. 127 /\ FromBcd(b) = h
      BY <1>4, <1>5, BcdRoundTrip DEF Bcd
    <3> HIDE DEF b
    <3>3. b % 128 = b /\ b \div 128 = 0
      BY <3>2
    <3>4. HoursFromBcd(b) = h
      BY <1>4, <3>2, <3>3 DEF HoursFromBcd
    <3> QED BY <2>3, <2>4, <3>1, <3>4 DEF BinaryHours
  <2>5. ASSUME ~ reg_b.hours24 PROVE rtc'["hours"] = BinaryHours(h, reg_b)
    <3>1. rtc["hours"] = Bcd(face) + pm
      BY <1>2, <1>7, <2>5 DEF ShowHours, Show
    <3>2. HoursFromBcd(Bcd(face) + pm) = face + pm
      BY <1>5, HoursRoundTrip
    <3>3. BinaryHours(h, reg_b) = face + pm
      BY <2>5 DEF BinaryHours
    <3> QED BY <2>3, <3>1, <3>2, <3>3
  <2>6. rtc'["hours"] = BinaryHours(h, reg_b) /\ BinaryHours(h, reg_b) \in Nat
    <3>1. BinaryHours(h, reg_b) \in Nat
      BY <1>4, <1>5 DEF BinaryHours
    <3> QED BY <2>4, <2>5, <3>1
  <2>7. rtc' \in [Fields -> Nat]
    <3>1. DOMAIN rtc' = Fields /\ rtc' = [f \in Fields |-> rtc'[f]]
      BY <2>1
    <3>2. \A f \in Fields : rtc'[f] \in Nat
      BY <1>3, <2>2, <2>6
    <3> QED BY <3>1, <3>2
  <2>8. \A f \in Fields : rtc'[f] = IF f = "hours" THEN BinaryHours(showing[f], reg_b) ELSE showing[f]
    BY <2>2, <2>6
  <2> QED BY <1>1, <2>7, <2>8 DEF ConvertInv
<1> QED BY <1>6, <1>7

(* To24Hours drops bit 7; noon and midnight are the exception.             *)
LEMMA To24HoursKeeps == ASSUME ConvertInv, To24Hours PROVE ConvertInv'
<1>1. /\ showing \in Time /\ reg_b \in Formats /\ showing' = showing /\ reg_b' = reg_b
      /\ step' = "year" /\ rtc \in [Fields -> Nat]
  BY DEF ConvertInv, To24Hours
<1>2. \A f \in Fields : rtc[f] = IF f = "hours" THEN BinaryHours(showing[f], reg_b) ELSE showing[f]
  BY DEF ConvertInv, To24Hours
<1> DEFINE h == showing["hours"]
           old == rtc["hours"]
<1>3. h \in 0 .. 23 /\ "hours" \in Fields /\ old \in Nat /\ old = BinaryHours(h, reg_b)
  BY <1>1, <1>2 DEF Time, Fields
<1>4. rtc' = [rtc EXCEPT !["hours"] = IF ~ reg_b.hours24 /\ old >= 128
                                      THEN ((old % 128) + 12) % 24 ELSE old]
  BY <1>1, <1>3, Zenon DEF To24Hours
<1>5. rtc' \in [Fields -> Nat]
  BY <1>1, <1>3, <1>4
<1>6. Right => rtc'["hours"] = h
  <2>1. CASE reg_b.hours24
    BY <1>1, <1>3, <1>4, <2>1 DEF BinaryHours
  <2>2. CASE ~ reg_b.hours24 /\ h < 12
    BY <1>1, <1>3, <1>4, <2>2 DEF BinaryHours, Right
  <2>3. CASE ~ reg_b.hours24 /\ h >= 12
    <3>1. h % 12 = h - 12
      BY <1>3, <2>3
    <3>2. h # 12 => old = (h - 12) + 128
      BY <1>3, <2>3, <3>1 DEF BinaryHours
    <3>3. h # 12 => ((old % 128) + 12) % 24 = h
      BY <1>3, <2>3, <3>2
    <3>4. Right => h # 12
      BY <2>3 DEF Right
    <3> QED BY <1>1, <1>3, <1>4, <2>3, <3>2, <3>3, <3>4
  <2> QED BY <1>3, <2>1, <2>2, <2>3
<1>7. \A f \in Fields : f # "hours" => rtc'[f] = showing[f]
  BY <1>1, <1>2, <1>4
<1> QED BY <1>1, <1>5, <1>6, <1>7 DEF ConvertInv, Right

(* The year is kept in 16 bits.                                            *)
Width == 2^16

(* A year of four digits fits them.                                        *)
LEMMA YearFits ==
  ASSUME NEW y \in 0 .. 99, NEW c \in 0 .. 99
  PROVE  Width \in Nat \ {0} /\ (y + c * 100) % Width = c * 100 + y
<1> DEFINE n == c * 100 + y
<1>1. Width = 65536
  BY DEF Width
<1>2. n \in Nat /\ n < Width /\ Width \in Nat /\ y + c * 100 = n
  BY <1>1
<1> HIDE DEF n
<1>3. n % Width = n
  BY ONLY <1>2
<1> QED BY ONLY <1>2, <1>3 DEF n

(* FullYear adds the century; the sum fits 16 bits.                        *)
LEMMA FullYearKeeps == ASSUME ConvertInv, FullYear PROVE ConvertInv'
<1>1. /\ showing \in Time /\ reg_b \in Formats /\ showing' = showing /\ reg_b' = reg_b
      /\ step' = "done" /\ rtc \in [Fields -> Nat]
      /\ rtc' = [rtc EXCEPT !.year = (rtc.year + rtc.century * 100) % Width]
  BY DEF ConvertInv, FullYear, Width
<1>2. Right => \A f \in Fields : rtc[f] = showing[f]
  BY DEF ConvertInv, FullYear
<1>3. showing.year \in 0 .. 99 /\ showing.century \in 0 .. 99
  <2>1. showing \in [Fields -> 0 .. 99]
    BY ONLY <1>1 DEF Time
  <2> QED BY ONLY <2>1 DEF Fields
<1>4. /\ Width \in Nat \ {0}
      /\ (showing.year + showing.century * 100) % Width = showing.century * 100 + showing.year
  BY ONLY <1>3, YearFits, Zenon
<1>5. rtc' \in [Fields -> Nat]
  <2>1. (rtc.year + rtc.century * 100) % Width \in Nat
    BY ONLY <1>1, <1>4 DEF Fields
  <2> QED BY ONLY <1>1, <2>1
<1>6. Right => \A f \in Fields :
        rtc'[f] = IF f = "year" THEN showing.century * 100 + showing.year ELSE showing[f]
  BY ONLY <1>1, <1>2, <1>4 DEF Fields
<1> QED BY <1>1, <1>5, <1>6 DEF ConvertInv, Right

(* Every time of the clock, in every format, is converted back to itself,  *)
(* with its full year; the hours after noon and midnight of a 12 hour      *)
(* clock are the only exception.                                           *)
THEOREM ConversionExact == ConvertSpec => []ConvertsBack
<1>1. ASSUME ConvertInv, [ConvertNext]_convertvars PROVE ConvertInv'
  <2>1. ASSUME Converted \/ UNCHANGED convertvars PROVE ConvertInv'
    BY <1>1, <2>1 DEF Converted, convertvars, ConvertInv, Right
  <2> QED BY <1>1, <2>1, DecodeKeeps, To24HoursKeeps, FullYearKeeps DEF ConvertNext
<1>2. ASSUME ConvertInv PROVE ConvertsBack
  <2> SUFFICES ASSUME step = "done", Right PROVE rtc = Meant
    BY DEF ConvertsBack, Right
  <2>1. Meant = [showing EXCEPT !["year"] = showing.century * 100 + showing.year]
    BY DEF Meant
  <2>2. \A f \in Fields :
          rtc[f] = IF f = "year" THEN showing.century * 100 + showing.year ELSE showing[f]
    BY <1>2 DEF ConvertInv
  <2>3. rtc \in [Fields -> Nat] /\ showing \in [Fields -> 0 .. 99]
    BY <1>2 DEF ConvertInv, Time
  <2> QED BY <2>1, <2>2, <2>3
<1>3. ConvertInit => ConvertInv
  BY ConvertInitInv
<1> QED BY <1>1, <1>2, <1>3, PTL DEF ConvertSpec
=============================================================================
