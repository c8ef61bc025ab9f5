-------------------------- MODULE BootMemory_proofs --------------------------
(***************************************************************************)
(* Proofs about the walks over the multiboot structure, as kmain makes     *)
(* them on the way to the frame allocator: for every structure that GRUB   *)
(* may leave, with any number of tags and sections in any order.           *)
(***************************************************************************)
EXTENDS BootMemory, WellFoundedInduction, TLAPS

(* The rounding of the code is the rounding of GRUB.                       *)
LEMMA AlignedIsRoundUp ==
  ASSUME NEW s \in Nat
  PROVE  Aligned(s) = RoundUp(s) /\ RoundUp(s) \in Nat /\ RoundUp(s) >= s
<1> DEFINE a == (s + 7) - ((s + 7) % 8)
<1>1. PICK q \in Nat, r \in 0 .. 7 : s + 7 = 8 * q + r /\ (s + 7) % 8 = r
  <2>1. (s + 7) \div 8 \in Nat /\ (s + 7) % 8 \in 0 .. 7 /\ s + 7 = 8 * ((s + 7) \div 8) + ((s + 7) % 8)
    OBVIOUS
  <2> QED BY <2>1
<1>2. a = 8 * q /\ a \in s .. s + 7
  BY <1>1
<1>3. a % 8 = 0
  BY <1>2
<1>4. \A m \in s .. s + 7 : m % 8 = 0 => m = a
  <2> SUFFICES ASSUME NEW m \in s .. s + 7, m % 8 = 0 PROVE m = a
    OBVIOUS
  <2>1. m \in Nat /\ m = 8 * (m \div 8) /\ m \div 8 \in Nat
    OBVIOUS
  <2> DEFINE p == m \div 8
  <2> HIDE DEF p, a
  <2>2. m = 8 * p /\ p \in Nat
    BY <2>1 DEF p
  <2>3. p = q
    BY <1>1, <2>2
  <2> QED BY <1>2, <2>2, <2>3
<1> HIDE DEF a
<1>5. RoundUp(s) = a
  BY <1>2, <1>3, <1>4 DEF RoundUp
<1>6. Aligned(s) = a
  BY DEF Aligned, a
<1> QED BY <1>2, <1>5, <1>6

(* Tags do not overlap: their addresses grow with their number.            *)
LEMMA Increasing ==
  ASSUME NEW mbi \in Infos, NEW m \in 1 .. Len(mbi.tags), NEW n \in 1 .. Len(mbi.tags), m < n
  PROVE  mbi.at[m] < mbi.at[n]
<1> DEFINE L == Len(mbi.tags)
           Bad == { k \in Nat : \E i \in 1 .. L : k >= 1 /\ i + k <= L /\ ~ (mbi.at[i] < mbi.at[i + k]) }
<1>1. L \in Nat /\ LaidOut(mbi)
  BY InfosAssumption
<1>2. \A i \in 1 .. L : mbi.at[i] \in Nat /\ (i + 1 <= L => mbi.at[i] < mbi.at[i + 1])
  <2> SUFFICES ASSUME NEW i \in 1 .. L
               PROVE  mbi.at[i] \in Nat /\ (i + 1 <= L => mbi.at[i] < mbi.at[i + 1])
    OBVIOUS
  <2>1. /\ mbi.tags[i].size \in Nat /\ mbi.tags[i].size >= 8 /\ mbi.at[i] \in Nat
        /\ mbi.at[i + 1] = mbi.at[i] + RoundUp(mbi.tags[i].size)
    BY <1>1 DEF LaidOut
  <2>2. RoundUp(mbi.tags[i].size) \in Nat /\ RoundUp(mbi.tags[i].size) >= mbi.tags[i].size
    BY <2>1, AlignedIsRoundUp
  <2> QED BY <2>1, <2>2
<1> HIDE DEF L
<1>3. ASSUME Bad # {} PROVE FALSE
  <2> DEFINE R == OpToRel(<, Nat)
  <2>1. IsWellFoundedOn(R, Nat)
    BY NatLessThanWellFounded
  <2>2. Bad \subseteq Nat
    OBVIOUS
  <2>3. \E k \in Bad : \A x \in Bad : ~ (<<x, k>> \in R)
    BY <1>3, <2>1, <2>2, WFMin
  <2>4. PICK k \in Bad : \A x \in Bad : ~ (x < k)
    BY <2>2, <2>3 DEF OpToRel
  <2>5. PICK i \in 1 .. L : k \in Nat /\ k >= 1 /\ i + k <= L /\ ~ (mbi.at[i] < mbi.at[i + k])
    BY <2>4
  <2>6. k # 1
    BY <1>2, <2>5
  <2>7. k - 1 \in Nat /\ k - 1 >= 1 /\ i + (k - 1) <= L /\ i + (k - 1) \in 1 .. L
    BY <1>1, <2>5, <2>6
  <2>8. k - 1 \notin Bad
    <3> HIDE DEF Bad
    <3>1. k - 1 < k
      BY <2>5
    <3> QED BY <2>4, <3>1, Zenon
  <2>9. mbi.at[i] < mbi.at[i + (k - 1)]
    BY <2>7, <2>8
  <2>10. (i + (k - 1)) + 1 = i + k /\ i + k \in 1 .. L
    BY <1>1, <2>5
  <2>11. mbi.at[i + (k - 1)] < mbi.at[i + k]
    BY <1>2, <2>7, <2>10
  <2> QED BY <1>2, <2>5, <2>7, <2>9, <2>10, <2>11
<1>4. m + (n - m) = n /\ n - m \in Nat /\ n - m >= 1 /\ n <= L /\ m \in 1 .. L
  BY <1>1 DEF L
<1>5. ASSUME ~ (mbi.at[m] < mbi.at[n]) PROVE n - m \in Bad
  <2> DEFINE k == n - m
  <2>1. k \in Nat /\ k >= 1 /\ m + k <= L /\ ~ (mbi.at[m] < mbi.at[m + k]) /\ m \in 1 .. L
    BY <1>4, <1>5
  <2> HIDE DEF k
  <2>2. k \in Bad
    BY <2>1
  <2> QED BY <2>2 DEF k
<1> QED BY <1>3, <1>5, Zenon

(* There is one tag at the address of a tag.                               *)
LEMMA OneTag ==
  ASSUME NEW mbi \in Infos, NEW n \in 1 .. Len(mbi.tags)
  PROVE  (CHOOSE k \in TagsAt(mbi, mbi.at[n]) : TRUE) = n /\ n \in TagsAt(mbi, mbi.at[n])
<1>1. n \in TagsAt(mbi, mbi.at[n])
  BY DEF TagsAt
<1>2. ASSUME NEW k \in TagsAt(mbi, mbi.at[n]) PROVE k = n
  <2>1. k \in 1 .. Len(mbi.tags) /\ mbi.at[k] = mbi.at[n]
    BY DEF TagsAt
  <2>2. Len(mbi.tags) \in Nat /\ \A i \in 1 .. Len(mbi.tags) : mbi.at[i] \in Nat
    BY InfosAssumption DEF LaidOut
  <2>3. ~ (k < n) /\ ~ (n < k)
    BY <2>1, <2>2, Increasing
  <2> QED BY <2>1, <2>2, <2>3
<1> QED BY <1>1, <1>2

-----------------------------------------------------------------------------
(* The loaded sections the walk has met when it is at section i of tag n.  *)
Met(mbi, n, i) ==
  { s \in Loaded(mbi) :
      \E m \in 1 .. Len(mbi.tags) : \E j \in 1 .. Len(mbi.tags[m].sections) :
        /\ IsElf(mbi, m) /\ s = mbi.tags[m].sections[j]
        /\ m < n \/ (m = n /\ j < i) }

Areas == [kernel_start : Nat, kernel_end : Nat, multiboot_start : Nat, multiboot_end : Nat]

(* The kernel's area is the least one that holds the sections S.           *)
Fits(areas, S) ==
  /\ areas \in Areas
  /\ \A s \in S : areas.kernel_start <= s.addr /\ s.addr + s.size <= areas.kernel_end
  /\ areas.kernel_start = UINT64_MAX \/ \E s \in S : areas.kernel_start = s.addr
  /\ areas.kernel_end = 0 \/ \E s \in S : areas.kernel_end = s.addr + s.size

(* A section is counted once it is behind the walk.                        *)
LEMMA MetSteps ==
  ASSUME NEW mbi \in Infos, NEW n \in 1 .. Len(mbi.tags)
  PROVE  /\ Met(mbi, 1, 1) = {}
         /\ ~ IsElf(mbi, n) => Met(mbi, n + 1, 1) = Met(mbi, n, 1)
         /\ IsElf(mbi, n) => Met(mbi, n + 1, 1) = Met(mbi, n, Len(mbi.tags[n].sections) + 1)
         /\ n = Len(mbi.tags) => Met(mbi, n, 1) = Loaded(mbi)
<1>1. Len(mbi.tags) \in Nat /\ \A m \in 1 .. Len(mbi.tags) :
        IsElf(mbi, m) => Len(mbi.tags[m].sections) \in Nat
  BY InfosAssumption
<1>2. Met(mbi, 1, 1) = {}
  BY <1>1 DEF Met
<1>3. ASSUME ~ IsElf(mbi, n) PROVE Met(mbi, n + 1, 1) = Met(mbi, n, 1)
  <2>1. \A m \in 1 .. Len(mbi.tags) : \A j \in 1 .. Len(mbi.tags[m].sections) :
          IsElf(mbi, m) => (m < n + 1 \/ (m = n + 1 /\ j < 1) <=> m < n \/ (m = n /\ j < 1))
    BY <1>1, <1>3
  <2> QED BY <2>1, Zenon DEF Met
<1>4. ASSUME IsElf(mbi, n) PROVE Met(mbi, n + 1, 1) = Met(mbi, n, Len(mbi.tags[n].sections) + 1)
  <2> DEFINE last == Len(mbi.tags[n].sections)
  <2>1. last \in Nat
    BY <1>1, <1>4
  <2>2. \A m \in 1 .. Len(mbi.tags) : \A j \in 1 .. Len(mbi.tags[m].sections) :
          IsElf(mbi, m) => (m < n + 1 \/ (m = n + 1 /\ j < 1) <=> m < n \/ (m = n /\ j < last + 1))
    <3> SUFFICES ASSUME NEW m \in 1 .. Len(mbi.tags), NEW j \in 1 .. Len(mbi.tags[m].sections),
                        IsElf(mbi, m)
                 PROVE  m < n + 1 \/ (m = n + 1 /\ j < 1) <=> m < n \/ (m = n /\ j < last + 1)
      OBVIOUS
    <3>1. m = n => j < last + 1
      BY <2>1
    <3>2. ~ (j < 1) /\ (m < n + 1 <=> m < n \/ m = n)
      BY <1>1
    <3> QED BY <3>1, <3>2, Zenon
  <2> HIDE DEF last
  <2>3. Met(mbi, n + 1, 1) = Met(mbi, n, last + 1)
    BY <2>2, Zenon DEF Met
  <2> QED BY <2>3 DEF last
<1>5. ASSUME n = Len(mbi.tags) PROVE Met(mbi, n, 1) = Loaded(mbi)
  <2>1. ~ IsElf(mbi, n)
    BY <1>5, InfosAssumption DEF IsElf, MULTIBOOT_TAG_TYPE_END, MULTIBOOT_TAG_TYPE_ELF_SECTIONS
  <2>2. ASSUME NEW s \in Loaded(mbi) PROVE s \in Met(mbi, n, 1)
    <3>1. PICK m \in 1 .. Len(mbi.tags) :
            IsElf(mbi, m) /\ \E j \in 1 .. Len(mbi.tags[m].sections) : s = mbi.tags[m].sections[j]
      BY DEF Loaded, SectionsOf
    <3>2. m < n
      BY <1>1, <1>5, <2>1, <3>1
    <3> QED BY <3>1, <3>2 DEF Met
  <2>3. Met(mbi, n, 1) \subseteq Loaded(mbi)
    BY DEF Met
  <2> QED BY <2>2, <2>3
<1> QED BY <1>2, <1>3, <1>4, <1>5

LEMMA MetSection ==
  ASSUME NEW mbi \in Infos, NEW n \in 1 .. Len(mbi.tags), IsElf(mbi, n),
         NEW i \in 1 .. Len(mbi.tags[n].sections)
  PROVE  LET s == mbi.tags[n].sections[i]
         IN  /\ s \in SectionsOf(mbi)
             /\ s.type = MULTIBOOT_ELF_SECTION_TYPE_NULL => Met(mbi, n, i + 1) = Met(mbi, n, i)
             /\ s.type # MULTIBOOT_ELF_SECTION_TYPE_NULL =>
                  s \in Loaded(mbi) /\ Met(mbi, n, i + 1) = Met(mbi, n, i) \cup {s}
<1> DEFINE s == mbi.tags[n].sections[i]
<1>1. Len(mbi.tags[n].sections) \in Nat /\ Len(mbi.tags) \in Nat
  BY InfosAssumption
<1>2. s \in SectionsOf(mbi)
  BY DEF SectionsOf
<1>3. Met(mbi, n, i + 1) \subseteq Met(mbi, n, i) \cup {s}
  <2> SUFFICES ASSUME NEW x \in Met(mbi, n, i + 1), x # s PROVE x \in Met(mbi, n, i)
    OBVIOUS
  <2>0. PICK m \in 1 .. Len(mbi.tags) : \E j \in 1 .. Len(mbi.tags[m].sections) :
          /\ IsElf(mbi, m) /\ x = mbi.tags[m].sections[j]
          /\ m < n \/ (m = n /\ j < i + 1)
    BY DEF Met
  <2>1. PICK j \in 1 .. Len(mbi.tags[m].sections) :
          /\ IsElf(mbi, m) /\ x = mbi.tags[m].sections[j]
          /\ m < n \/ (m = n /\ j < i + 1)
    BY <2>0
  <2>2. m = n => j # i
    BY <2>1
  <2>3. m < n \/ (m = n /\ j < i)
    BY <1>1, <2>1, <2>2
  <2> QED BY <2>1, <2>3 DEF Met
<1>4. Met(mbi, n, i) \subseteq Met(mbi, n, i + 1)
  BY <1>1 DEF Met
<1>5. ASSUME s.type = MULTIBOOT_ELF_SECTION_TYPE_NULL PROVE s \notin Met(mbi, n, i + 1)
  BY <1>5 DEF Met, Loaded
<1>6. ASSUME s.type # MULTIBOOT_ELF_SECTION_TYPE_NULL
      PROVE  s \in Loaded(mbi) /\ s \in Met(mbi, n, i + 1)
  <2>1. s \in Loaded(mbi)
    BY <1>2, <1>6 DEF Loaded
  <2>2. n = n /\ i < i + 1
    BY <1>1
  <2> QED BY <2>1, <2>2 DEF Met
<1> HIDE DEF s
<1>7. /\ s.type = MULTIBOOT_ELF_SECTION_TYPE_NULL => Met(mbi, n, i + 1) = Met(mbi, n, i)
      /\ s.type # MULTIBOOT_ELF_SECTION_TYPE_NULL => Met(mbi, n, i + 1) = Met(mbi, n, i) \cup {s}
  BY <1>3, <1>4, <1>5, <1>6
<1> QED BY <1>2, <1>6, <1>7 DEF s

(* One more section.                                                       *)
LEMMA WidenFits ==
  ASSUME NEW areas, NEW S, Fits(areas, S),
         NEW s, s.addr \in Nat, s.size \in Nat,
         \A x \in S : x.addr \in Nat /\ x.size \in Nat
  PROVE  /\ Fits(Widen(areas, s), S \cup {s})
         /\ Widen(areas, s).multiboot_start = areas.multiboot_start
<1> DEFINE low  == IF s.addr < areas.kernel_start THEN s.addr ELSE areas.kernel_start
           high == IF s.addr + s.size > areas.kernel_end THEN s.addr + s.size ELSE areas.kernel_end
           w == Widen(areas, s)
<1>1. areas \in Areas /\ areas.kernel_start \in Nat /\ areas.kernel_end \in Nat
  BY DEF Fits, Areas
<1>2. /\ w \in Areas /\ w.kernel_start = low /\ w.kernel_end = high
      /\ w.multiboot_start = areas.multiboot_start
  <2>1. w = [areas EXCEPT !.kernel_start = low, !.kernel_end = high]
    BY DEF Widen
  <2>2. low \in Nat /\ high \in Nat
    BY <1>1
  <2> HIDE DEF low, high, w
  <2> QED BY <1>1, <2>1, <2>2 DEF Areas
<1> HIDE DEF w
<1>3. \A x \in S \cup {s} : w.kernel_start <= x.addr /\ x.addr + x.size <= w.kernel_end
  <2>1. low \in Nat /\ low <= areas.kernel_start /\ low <= s.addr
    BY <1>1
  <2>2. high \in Nat /\ areas.kernel_end <= high /\ s.addr + s.size <= high
    BY <1>1
  <2> HIDE DEF low, high
  <2>3. ASSUME NEW x \in S PROVE low <= x.addr /\ x.addr + x.size <= high
    <3>1. /\ areas.kernel_start <= x.addr /\ x.addr + x.size <= areas.kernel_end
          /\ x.addr \in Nat /\ x.addr + x.size \in Nat
      BY DEF Fits
    <3> QED BY <1>1, <2>1, <2>2, <3>1
  <2> QED BY <1>2, <2>1, <2>2, <2>3
<1>4. w.kernel_start = UINT64_MAX \/ \E x \in S \cup {s} : w.kernel_start = x.addr
  BY <1>2 DEF Fits
<1>5. w.kernel_end = 0 \/ \E x \in S \cup {s} : w.kernel_end = x.addr + x.size
  BY <1>2 DEF Fits
<1>6. Fits(w, S \cup {s})
  BY <1>2, <1>3, <1>4, <1>5 DEF Fits
<1> QED BY <1>2, <1>6 DEF w

-----------------------------------------------------------------------------
(* Where the walks are, and what they have found so far.  The pointer is   *)
(* at a tag n; in read_multiboot_info the area fits the sections before    *)
(* it, in find_multiboot_tag no tag before it is a memory map.             *)
AtTag(n) ==
  /\ tag = info.at[n]
  /\ phase = "walk" => Fits(reserved_areas, Met(info, n, 1))
  /\ phase = "sections" =>
       /\ IsElf(info, n)
       /\ section \in 1 .. Len(info.tags[n].sections) + 1
       /\ Fits(reserved_areas, Met(info, n, section))
  /\ phase = "find" => \A m \in 1 .. n - 1 : info.tags[m].type # MULTIBOOT_TAG_TYPE_MMAP

WInv ==
  /\ info \in Infos
  /\ phase \in {"valid", "panic", "walk", "sections", "find", "found"}
  /\ reserved_areas.multiboot_start = info.start
  /\ phase = "valid" => Fits(reserved_areas, {})
  /\ phase \in {"walk", "sections", "find"} => \E n \in 1 .. Len(info.tags) : AtTag(n)
  /\ phase \in {"find", "found"} =>
       /\ Fits(reserved_areas, Loaded(info))
       /\ reserved_areas.multiboot_end = info.at[Len(info.tags) + 1]
  /\ FindsFirst

(* What the pointer points to, and where it goes next.                     *)
LEMMA Pointer ==
  ASSUME info \in Infos, NEW n \in 1 .. Len(info.tags), tag = info.at[n]
  PROVE  /\ Here = info.tags[n]
         /\ NextTag = info.at[n + 1] /\ NextTag \in Nat
         /\ Here.type # MULTIBOOT_TAG_TYPE_END => n + 1 \in 1 .. Len(info.tags)
         /\ Here.type = MULTIBOOT_TAG_TYPE_END => n = Len(info.tags)
<1>1. Here = info.tags[n]
  <2>1. (CHOOSE k \in TagsAt(info, tag) : TRUE) = n
    BY OneTag
  <2> QED BY <2>1, Zenon DEF Here
<1>2. /\ Len(info.tags) \in Nat
      /\ info.tags[n].type = MULTIBOOT_TAG_TYPE_END <=> n = Len(info.tags)
      /\ info.tags[n].size \in Nat /\ info.at[n] \in Nat
      /\ info.at[n + 1] = info.at[n] + RoundUp(info.tags[n].size)
  BY InfosAssumption DEF LaidOut
<1>3. Aligned(info.tags[n].size) = RoundUp(info.tags[n].size) /\ RoundUp(info.tags[n].size) \in Nat
  BY <1>2, AlignedIsRoundUp
<1>4. NextTag = info.at[n + 1] /\ NextTag \in Nat
  BY <1>1, <1>2, <1>3 DEF NextTag
<1>5. n # Len(info.tags) => n + 1 \in 1 .. Len(info.tags)
  BY <1>2
<1> QED BY <1>1, <1>2, <1>4, <1>5

LEMMA InitW == Init => WInv
<1> SUFFICES ASSUME Init PROVE WInv
  OBVIOUS
<1>1. info \in Infos /\ phase = "valid" /\ info.start \in Nat /\ UINT64_MAX \in Nat
  BY InfosAssumption DEF Init, LaidOut
<1>2. reserved_areas = [kernel_start |-> UINT64_MAX, kernel_end |-> 0,
                        multiboot_start |-> info.start, multiboot_end |-> 0]
  BY DEF Init
<1>3. Fits(reserved_areas, {}) /\ reserved_areas.multiboot_start = info.start
  BY <1>1, <1>2 DEF Fits, Areas
<1> QED BY <1>1, <1>3 DEF WInv, FindsFirst

LEMMA BeginKeeps == ASSUME WInv, Invalid \/ BeginWalk PROVE WInv'
<1>1. CASE Invalid
  BY <1>1 DEF WInv, Invalid, FindsFirst
<1>2. CASE BeginWalk
  <2>1. 1 \in 1 .. Len(info.tags) /\ info.at[1] = info.start + 8
    BY InfosAssumption DEF WInv, LaidOut
  <2>2. Met(info, 1, 1) = {}
    BY <2>1, MetSteps DEF WInv
  <2>3. AtTag(1)'
    BY <1>2, <2>1, <2>2 DEF WInv, BeginWalk, FirstTag, AtTag
  <2> QED BY <1>2, <2>1, <2>3 DEF WInv, BeginWalk, FindsFirst
<1> QED BY <1>1, <1>2

LEMMA WalkKeeps == ASSUME WInv, OtherTag \/ ElfTag PROVE WInv'
<1>1. PICK n \in 1 .. Len(info.tags) : AtTag(n)
  BY DEF WInv, OtherTag, ElfTag
<1>2. /\ info \in Infos /\ tag = info.at[n] /\ phase = "walk" /\ Fits(reserved_areas, Met(info, n, 1))
      /\ info' = info /\ reserved_areas' = reserved_areas
  BY <1>1 DEF WInv, AtTag, OtherTag, ElfTag
<1>3. /\ Here = info.tags[n] /\ NextTag = info.at[n + 1]
      /\ Here.type # MULTIBOOT_TAG_TYPE_END => n + 1 \in 1 .. Len(info.tags)
  BY <1>2, Pointer
<1>4. CASE OtherTag
  <2>1. n + 1 \in 1 .. Len(info.tags) /\ ~ IsElf(info, n) /\ tag' = info.at[n + 1] /\ phase' = "walk"
    BY <1>2, <1>3, <1>4 DEF OtherTag, IsElf
  <2>2. Met(info, n + 1, 1) = Met(info, n, 1)
    BY <1>2, <2>1, MetSteps
  <2>3. AtTag(n + 1)'
    BY <1>2, <2>1, <2>2 DEF AtTag
  <2> QED BY <1>2, <2>1, <2>3 DEF WInv, FindsFirst
<1>5. CASE ElfTag
  <2>1. IsElf(info, n) /\ tag' = tag /\ phase' = "sections" /\ section' = 1
    BY <1>3, <1>5 DEF ElfTag, IsElf
  <2>2. 1 \in 1 .. Len(info.tags[n].sections) + 1
    BY <1>2, <2>1, InfosAssumption
  <2>3. AtTag(n)'
    BY <1>2, <2>1, <2>2 DEF AtTag
  <2> QED BY <1>2, <2>1, <2>3 DEF WInv, FindsFirst
<1> QED BY <1>4, <1>5

(* What Min and Max choose.                                                *)
LEMMA LeastIsMin ==
  ASSUME NEW S, NEW m \in S, \A y \in S : y \in Nat /\ m <= y
  PROVE  Min(S) = m
<1> DEFINE P(x) == \A y \in S : x =< y
<1>1. P(m) /\ \A x \in S : P(x) => x = m
  OBVIOUS
<1> QED BY <1>1 DEF Min

LEMMA GreatestIsMax ==
  ASSUME NEW S, NEW m \in S, \A y \in S : y \in Nat /\ m >= y
  PROVE  Max(S) = m
<1> DEFINE P(x) == \A y \in S : x >= y
<1>1. P(m) /\ \A x \in S : P(x) => x = m
  OBVIOUS
<1> QED BY <1>1 DEF Max

LEMMA SectionKeeps == ASSUME WInv, ElfSection \/ EndOfSections PROVE WInv'
<1>1. PICK n \in 1 .. Len(info.tags) : AtTag(n)
  BY DEF WInv, ElfSection, EndOfSections
<1>2. /\ info \in Infos /\ tag = info.at[n] /\ phase = "sections" /\ IsElf(info, n)
      /\ section \in 1 .. Len(info.tags[n].sections) + 1
      /\ Fits(reserved_areas, Met(info, n, section))
      /\ info' = info /\ reserved_areas.multiboot_start = info.start
  BY <1>1 DEF WInv, AtTag, ElfSection, EndOfSections
<1>3. /\ Here = info.tags[n] /\ NextTag = info.at[n + 1]
      /\ Here.type # MULTIBOOT_TAG_TYPE_END => n + 1 \in 1 .. Len(info.tags)
  BY <1>2, Pointer
<1>4. Len(info.tags[n].sections) \in Nat
  BY <1>2, InfosAssumption
<1>5. CASE ElfSection
  <2> DEFINE s == info.tags[n].sections[section]
  <2>1. /\ section \in 1 .. Len(info.tags[n].sections) /\ section' = section + 1
        /\ tag' = tag /\ phase' = "sections"
        /\ reserved_areas' = IF s.type = MULTIBOOT_ELF_SECTION_TYPE_NULL THEN reserved_areas
                             ELSE Widen(reserved_areas, s)
    BY <1>2, <1>3, <1>4, <1>5 DEF ElfSection
  <2>2. /\ s.type = MULTIBOOT_ELF_SECTION_TYPE_NULL =>
             Met(info, n, section + 1) = Met(info, n, section)
        /\ s.type # MULTIBOOT_ELF_SECTION_TYPE_NULL =>
             s \in Loaded(info) /\ Met(info, n, section + 1) = Met(info, n, section) \cup {s}
    BY <1>2, <2>1, MetSection
  <2> HIDE DEF s
  <2>3. /\ Fits(reserved_areas', Met(info, n, section + 1))
        /\ reserved_areas'.multiboot_start = reserved_areas.multiboot_start
    <3>1. CASE s.type = MULTIBOOT_ELF_SECTION_TYPE_NULL
      BY <1>2, <2>1, <2>2, <3>1
    <3>2. CASE s.type # MULTIBOOT_ELF_SECTION_TYPE_NULL
      <4>1. s.addr \in Nat /\ s.size \in Nat
        BY <1>2, <2>2, <3>2, InfosAssumption
      <4>2. \A x \in Met(info, n, section) : x.addr \in Nat /\ x.size \in Nat
        BY <1>2, InfosAssumption DEF Met
      <4>3. /\ Fits(Widen(reserved_areas, s), Met(info, n, section) \cup {s})
            /\ Widen(reserved_areas, s).multiboot_start = reserved_areas.multiboot_start
        <5>1. Fits(reserved_areas, Met(info, n, section))
          BY <1>2
        <5> QED BY <4>1, <4>2, <5>1, WidenFits
      <4>4. reserved_areas' = Widen(reserved_areas, s)
        BY <2>1, <3>2
      <4> QED BY <2>2, <3>2, <4>3, <4>4, Zenon
    <3> QED BY <3>1, <3>2
  <2>4. section + 1 \in 1 .. Len(info.tags[n].sections) + 1
    BY <1>4, <2>1
  <2>5. AtTag(n)'
    BY <1>2, <2>1, <2>3, <2>4 DEF AtTag
  <2> QED BY <1>2, <2>1, <2>3, <2>5 DEF WInv, FindsFirst
<1>6. CASE EndOfSections
  <2>1. /\ section = Len(info.tags[n].sections) + 1 /\ phase' = "walk" /\ tag' = info.at[n + 1]
        /\ reserved_areas' = reserved_areas
    BY <1>2, <1>3, <1>4, <1>6 DEF EndOfSections
  <2>2. n + 1 \in 1 .. Len(info.tags)
    BY <1>2, <1>3 DEF IsElf, MULTIBOOT_TAG_TYPE_ELF_SECTIONS, MULTIBOOT_TAG_TYPE_END
  <2>3. Met(info, n + 1, 1) = Met(info, n, section)
    BY <1>2, <2>1, MetSteps
  <2>4. AtTag(n + 1)'
    BY <1>2, <2>1, <2>3 DEF AtTag
  <2> QED BY <1>2, <2>1, <2>2, <2>4 DEF WInv, FindsFirst
<1> QED BY <1>5, <1>6

LEMMA EndKeeps == ASSUME WInv, EndOfTags PROVE WInv'
<1>1. PICK n \in 1 .. Len(info.tags) : AtTag(n)
  BY DEF WInv, EndOfTags
<1>2. /\ info \in Infos /\ tag = info.at[n] /\ phase = "walk" /\ Fits(reserved_areas, Met(info, n, 1))
      /\ info' = info /\ phase' = "find" /\ tag' = FirstTag
      /\ reserved_areas' = [reserved_areas EXCEPT !.multiboot_end = NextTag]
      /\ reserved_areas.multiboot_start = info.start
  BY <1>1 DEF WInv, AtTag, EndOfTags
<1>3. n = Len(info.tags) /\ NextTag = info.at[n + 1] /\ NextTag \in Nat
  BY <1>2, Pointer DEF EndOfTags
<1>4. Fits(reserved_areas, Loaded(info))
  BY <1>2, <1>3, MetSteps
<1>5. /\ Fits(reserved_areas', Loaded(info)) /\ reserved_areas'.multiboot_start = info.start
      /\ reserved_areas'.multiboot_end = info.at[Len(info.tags) + 1]
  BY <1>2, <1>3, <1>4 DEF Fits, Areas
<1>6. 1 \in 1 .. Len(info.tags) /\ info.at[1] = info.start + 8
  BY <1>2, InfosAssumption DEF LaidOut
<1>7. AtTag(1)'
  BY <1>2, <1>6 DEF AtTag, FirstTag
<1> QED BY <1>2, <1>5, <1>6, <1>7 DEF WInv, FindsFirst

LEMMA FindKeeps == ASSUME WInv, FindNext \/ FindEnd PROVE WInv'
<1>1. PICK n \in 1 .. Len(info.tags) : AtTag(n)
  BY DEF WInv, FindNext, FindEnd
<1>2. /\ info \in Infos /\ tag = info.at[n] /\ phase = "find"
      /\ \A m \in 1 .. n - 1 : info.tags[m].type # MULTIBOOT_TAG_TYPE_MMAP
      /\ info' = info /\ reserved_areas' = reserved_areas
      /\ reserved_areas.multiboot_start = info.start
      /\ Fits(reserved_areas, Loaded(info))
      /\ reserved_areas.multiboot_end = info.at[Len(info.tags) + 1]
  BY <1>1 DEF WInv, AtTag, FindNext, FindEnd
<1>3. /\ Here = info.tags[n] /\ NextTag = info.at[n + 1] /\ Len(info.tags) \in Nat
      /\ Here.type # MULTIBOOT_TAG_TYPE_END => n + 1 \in 1 .. Len(info.tags)
      /\ Here.type = MULTIBOOT_TAG_TYPE_END => n = Len(info.tags)
  BY <1>2, Pointer, InfosAssumption
<1>4. CASE FindNext
  <2>1. /\ n + 1 \in 1 .. Len(info.tags) /\ tag' = info.at[n + 1] /\ phase' = "find"
        /\ info.tags[n].type # MULTIBOOT_TAG_TYPE_MMAP
    BY <1>2, <1>3, <1>4 DEF FindNext
  <2>2. \A m \in 1 .. (n + 1) - 1 : m \in 1 .. n - 1 \/ m = n
    BY <1>3
  <2>3. AtTag(n + 1)'
    BY <1>2, <2>1, <2>2 DEF AtTag
  <2> QED BY <1>2, <2>1, <2>3 DEF WInv, FindsFirst
<1>5. CASE FindEnd
  <2>1. /\ phase' = "found"
        /\ mmap' = IF info.tags[n].type = MULTIBOOT_TAG_TYPE_MMAP THEN info.at[n] ELSE 0
        /\ info.tags[n].type \in {MULTIBOOT_TAG_TYPE_END, MULTIBOOT_TAG_TYPE_MMAP}
    BY <1>2, <1>3, <1>5 DEF FindEnd
  <2>2. \A k \in MapTags : k \in 1 .. Len(info.tags) /\ k >= n
    BY <1>2, <1>3 DEF MapTags
  <2>3. mmap' = IF MapTags = {} THEN 0 ELSE info.at[Min(MapTags)]
    <3>1. CASE info.tags[n].type = MULTIBOOT_TAG_TYPE_MMAP
      <4>1. n \in MapTags
        BY <3>1 DEF MapTags
      <4>2. \A k \in MapTags : k \in Nat /\ n <= k
        BY <1>3, <2>2
      <4>3. Min(MapTags) = n
        BY <4>1, <4>2, LeastIsMin
      <4> QED BY <2>1, <3>1, <4>1, <4>3
    <3>2. CASE info.tags[n].type # MULTIBOOT_TAG_TYPE_MMAP
      <4>1. n = Len(info.tags)
        BY <1>3, <2>1, <3>2
      <4>2. MapTags = {}
        BY <1>3, <2>2, <3>2, <4>1 DEF MapTags
      <4> QED BY <2>1, <3>2, <4>2
    <3> QED BY <3>1, <3>2
  <2>4. MapTags' = MapTags
    BY <1>2 DEF MapTags
  <2> QED BY <1>2, <2>1, <2>3, <2>4 DEF WInv, FindsFirst
<1> QED BY <1>4, <1>5

(* The allocator works on what the walks returned, and leaves it alone.    *)
LEMMA RestKeeps == ASSUME WInv, UNCHANGED walk PROVE WInv'
<1>1. /\ info' = info /\ phase' = phase /\ tag' = tag /\ section' = section
      /\ reserved_areas' = reserved_areas /\ mmap' = mmap
  BY DEF walk
<1>2. ASSUME NEW n \in 1 .. Len(info.tags), AtTag(n) PROVE AtTag(n)'
  BY <1>1, <1>2 DEF AtTag
<1> QED BY <1>1, <1>2 DEF WInv, FindsFirst, MapTags

LEMMA WalkInvariant == BootSpec => []WInv
<1>1. BootInit => WInv
  BY InitW DEF BootInit
<1>2. WInv /\ [BootNext]_<< walk, allocator >> => WInv'
  <2> SUFFICES ASSUME WInv, [BootNext]_<< walk, allocator >> PROVE WInv'
    OBVIOUS
  <2>1. CASE Next
    <3>1. \/ Invalid \/ BeginWalk \/ OtherTag \/ ElfTag \/ ElfSection \/ EndOfSections
          \/ EndOfTags \/ FindNext \/ FindEnd
      BY <2>1 DEF Next, read_multiboot_info, find_multiboot_tag
    <3> QED BY <3>1, BeginKeeps, WalkKeeps, SectionKeeps, EndKeeps, FindKeeps
  <2>2. CASE UNCHANGED walk
    BY <2>2, RestKeeps
  <2> QED BY <2>1, <2>2 DEF BootNext, mmu_init, Allocate, Panicked
<1> QED BY <1>1, <1>2, PTL DEF BootSpec

-----------------------------------------------------------------------------
(* Both loops over the tags in boot.c, which go by tag->size alone, look   *)
(* only at the beginnings of tags, however many there are and whatever     *)
(* their sizes.                                                            *)
THEOREM WalksStayOnTags == BootSpec => []WalkOnTags
<1>1. WInv => WalkOnTags
  BY DEF WInv, WalkOnTags, AtTag, TagsAt
<1> QED BY <1>1, WalkInvariant, PTL

(* read_multiboot_info returns the least area that holds the loaded        *)
(* sections of the kernel, in whatever order they come, and the exact      *)
(* bounds of the structure.                                                *)
THEOREM ReservedAreasExact == BootSpec => []AreasExact
<1>1. WInv => AreasExact
  <2> SUFFICES ASSUME WInv, phase \in {"find", "found"} PROVE AreasExact
    BY DEF AreasExact
  <2> DEFINE S    == Loaded(info)
             low  == { s.addr : s \in S } \cup {UINT64_MAX}
             high == { s.addr + s.size : s \in S } \cup {0}
  <2>1. Fits(reserved_areas, S)
    BY DEF WInv
  <2>2. /\ UINT64_MAX \in Nat
        /\ \A s \in S : s.addr \in Nat /\ s.size \in Nat /\ s.addr + s.size < UINT64_MAX
    BY InfosAssumption DEF WInv
  <2> HIDE DEF S
  <2>3. reserved_areas.kernel_start \in Nat /\ reserved_areas.kernel_end \in Nat
    BY <2>1 DEF Fits, Areas
  <2>4. Min(low) = reserved_areas.kernel_start
    <3>1. reserved_areas.kernel_start \in low
      BY <2>1 DEF Fits
    <3>2. \A y \in low : y \in Nat /\ reserved_areas.kernel_start <= y
      BY <2>1, <2>2, <2>3 DEF Fits
    <3> HIDE DEF low
    <3> QED BY <3>1, <3>2, LeastIsMin
  <2>5. Max(high) = reserved_areas.kernel_end
    <3>1. reserved_areas.kernel_end \in high
      BY <2>1 DEF Fits
    <3>2. \A y \in high : y \in Nat /\ reserved_areas.kernel_end >= y
      BY <2>1, <2>2, <2>3 DEF Fits
    <3> HIDE DEF high
    <3> QED BY <3>1, <3>2, GreatestIsMax
  <2>6. /\ reserved_areas.multiboot_start = info.start
        /\ reserved_areas.multiboot_end = info.at[Len(info.tags) + 1]
    BY DEF WInv
  <2> QED BY <2>4, <2>5, <2>6 DEF AreasExact, S
<1> QED BY <1>1, WalkInvariant, PTL

(* find_multiboot_tag returns the first memory map among the tags, or 0    *)
(* when there is none.                                                     *)
THEOREM FindsTheMap == BootSpec => []FindsFirst
<1>1. WInv => FindsFirst
  BY DEF WInv
<1> QED BY <1>1, WalkInvariant, PTL

-----------------------------------------------------------------------------
(* The allocator's lemmas, for the maps and areas of the walks.            *)
AP == INSTANCE FrameAllocator_proofs WITH Maps <- {}, ReservedAreas <- {}

(* Addresses and chunk numbers fit frame_t: the memory of the machine ends *)
(* below 4 GiB.                                                            *)
LowMemory == \A mbi \in Infos : \A chunks \in MapsOf(mbi) : A!FitsFrameT(chunks)

(* Frame f was granted for a usable chunk that was tested against the      *)
(* reserved areas: chunk f, or chunk f - 1 if that is the first of a run.  *)
Tested(f) ==
  \E k \in A!Numbers(memory_area) :
    /\ A!Usable(memory_area, k)
    /\ ~ A!InReserved(reserved, A!Addr(memory_area, k))
    /\ f = IF A!FirstOfRun(memory_area, k) THEN k + 1 ELSE k

(* mmu_init runs after the walks, and gives the allocator their results.   *)
AInv ==
  /\ phase # "found" => pc = "boot"
  /\ pc = "boot" => allocated = {}
  /\ mmap # 0 /\ pc # "boot" =>
       /\ memory_area \in MapsOf(info)
       /\ reserved = reserved_areas
       /\ next_free_frame \in Nat
       /\ ~ exhausted => \A f \in allocated : Tested(f)

LEMMA AllocatorAssumptions ==
  /\ AP!PageSizeAssumption /\ AP!FrameTAssumption
  /\ AP!MapsAssumption /\ AP!ReservedAssumption
BY PageAssumption DEF AP!PageSizeAssumption, AP!FrameTAssumption,
   AP!MapsAssumption, AP!ReservedAssumption

(* Both instances of the allocator call mmap_read alike.                   *)
LEMMA SameCalls == AP!current_addr = A!current_addr /\ AP!current_frame_num = A!current_frame_num
BY DEF A!current_addr, AP!current_addr, A!current_frame_num, AP!current_frame_num,
   A!mmap_read, AP!mmap_read, A!GetAddr, AP!GetAddr, A!GetNum, AP!GetNum,
   A!UsableFrom, AP!UsableFrom, A!Holding, AP!Holding, A!Min, AP!Min,
   A!Addr, AP!Addr, A!Numbers, AP!Numbers, A!Usable, AP!Usable,
   A!MULTIBOOT_MEMORY_RESERVED, AP!MULTIBOOT_MEMORY_RESERVED,
   A!MMAP_GET_ADDR, AP!MMAP_GET_ADDR, A!MMAP_GET_NUM, AP!MMAP_GET_NUM

(* What a call of mmap_allocate_frame finds, as in FrameAllocator_proofs.  *)
LEMMA FoundChunk ==
  ASSUME memory_area \in A!ChunkList, next_free_frame \in Nat,
         A!Ascending(memory_area), A!FitsFrameT(memory_area),
         A!UsableFrom(memory_area, next_free_frame) # {}
  PROVE  \E k \in A!Numbers(memory_area) :
           /\ A!Usable(memory_area, k)
           /\ A!current_addr = A!Addr(memory_area, k)
           /\ A!current_frame_num = IF A!FirstOfRun(memory_area, k) THEN k + 1 ELSE k
<1>1. /\ \A k : AP!Addr(memory_area, k) = A!Addr(memory_area, k)
      /\ AP!Numbers(memory_area) = A!Numbers(memory_area)
      /\ \A k : AP!Usable(memory_area, k) <=> A!Usable(memory_area, k)
  BY DEF A!Addr, AP!Addr, A!Numbers, AP!Numbers, A!Usable, AP!Usable,
     A!MULTIBOOT_MEMORY_RESERVED, AP!MULTIBOOT_MEMORY_RESERVED
<1>2. \A k : AP!FirstOfRun(memory_area, k) <=> A!FirstOfRun(memory_area, k)
  BY DEF A!FirstOfRun, AP!FirstOfRun, A!Addr, AP!Addr
<1>3. /\ memory_area \in AP!ChunkList
      /\ AP!Ascending(memory_area) /\ AP!FitsFrameT(memory_area)
      /\ AP!UsableFrom(memory_area, next_free_frame) # {}
  BY <1>1, Zenon DEF A!ChunkList, AP!ChunkList, A!Ascending, AP!Ascending,
     A!FitsFrameT, AP!FitsFrameT, A!UsableFrom, AP!UsableFrom
<1>4. \E k \in AP!Numbers(memory_area) :
        /\ AP!Usable(memory_area, k)
        /\ AP!current_addr = AP!Addr(memory_area, k)
        /\ AP!current_frame_num = IF AP!FirstOfRun(memory_area, k) THEN k + 1 ELSE k
  BY <1>3, AllocatorAssumptions, AP!FoundChunk
<1> QED BY <1>1, <1>2, <1>4, SameCalls, Zenon

(* mmu_init passes the first memory map on.                                *)
LEMMA MapPassed ==
  ASSUME WInv, phase = "found", mmap # 0, NEW entries \in EntriesAt(mmap)
  PROVE  A!Chunks(entries) \in MapsOf(info)
<1>1. MapTags # {} /\ mmap = info.at[Min(MapTags)] /\ info \in Infos
  BY DEF WInv, FindsFirst
<1>2. \A k \in MapTags : k \in Nat
  BY <1>1, InfosAssumption DEF MapTags
<1>3. Min(MapTags) \in MapTags
  <2>1. MapTags \in SUBSET Nat
    BY <1>2
  <2>2. AP!Min(MapTags) \in MapTags
    BY <1>1, <2>1, AllocatorAssumptions, AP!NatSetHasMin
  <2> QED BY <2>2 DEF Min, AP!Min
<1>4. Min(MapTags) \in 1 .. Len(info.tags)
  BY <1>3 DEF MapTags
<1>5. PICK n \in TagsAt(info, mmap) : entries = info.tags[n].entries
  BY DEF EntriesAt
<1>6. n = Min(MapTags)
  <2>1. n \in 1 .. Len(info.tags) /\ info.at[n] = mmap
    BY <1>5 DEF TagsAt
  <2>2. (CHOOSE k \in TagsAt(info, info.at[n]) : TRUE) = n
    BY <1>1, <2>1, OneTag
  <2>3. (CHOOSE k \in TagsAt(info, info.at[Min(MapTags)]) : TRUE) = Min(MapTags)
    BY <1>1, <1>4, OneTag
  <2> QED BY <1>1, <2>1, <2>2, <2>3
<1> QED BY <1>3, <1>5, <1>6 DEF MapsOf, MapTags

LEMMA WalkKeepsA == ASSUME AInv, Next, UNCHANGED allocator PROVE AInv'
<1>1. phase # "found"
  BY DEF Next, Invalid, read_multiboot_info, BeginWalk, OtherTag, ElfTag, ElfSection,
     EndOfSections, EndOfTags, find_multiboot_tag, FindNext, FindEnd
<1>2. pc' = "boot" /\ allocated' = {}
  BY <1>1 DEF AInv, allocator
<1> QED BY <1>2 DEF AInv

LEMMA SetUpKeeps == ASSUME WInv, AInv, mmu_init PROVE AInv'
<1>1. /\ phase' = "found" /\ phase = "found" /\ pc = "boot" /\ pc' = "idle"
      /\ info' = info /\ mmap' = mmap /\ reserved_areas' = reserved_areas
      /\ reserved' = reserved_areas /\ next_free_frame' = 1 /\ allocated' = allocated
  BY DEF mmu_init, A!mmap_init, walk
<1>2. PICK entries \in EntriesAt(mmap) : memory_area' = A!Chunks(entries)
  BY DEF mmu_init, A!mmap_init
<1>3. mmap # 0 => memory_area' \in MapsOf(info)
  BY <1>1, <1>2, MapPassed
<1>4. allocated' = {}
  BY <1>1 DEF AInv
<1>5. MapsOf(info)' = MapsOf(info)
  BY <1>1 DEF MapsOf
<1> QED BY <1>1, <1>3, <1>4, <1>5 DEF AInv

(* A frame that was tested stays so: the map and the areas are kept.       *)
LEMMA KeptTested ==
  ASSUME NEW f, Tested(f), memory_area' = memory_area, reserved' = reserved
  PROVE  Tested(f)'
BY DEF Tested, A!Numbers, A!Usable, A!Addr, A!FirstOfRun, A!InReserved

LEMMA AllocateKeeps == ASSUME LowMemory, WInv, AInv, Allocate PROVE AInv'
<1>1. /\ phase' = phase /\ info' = info /\ mmap' = mmap /\ reserved_areas' = reserved_areas
      /\ memory_area' = memory_area /\ reserved' = reserved /\ pc # "boot" /\ pc' # "boot"
  BY DEF Allocate, walk, A!mmap_allocate_frame, A!AllocateCall, A!AllocateAgain, A!Retry,
     A!AllocateReturn, A!Grant
<1>2. phase' = "found"
  BY <1>1 DEF AInv
<1> SUFFICES ASSUME mmap # 0
             PROVE  /\ next_free_frame' \in Nat
                    /\ ~ exhausted' => \A f \in allocated' : Tested(f)'
  BY <1>1, <1>2 DEF AInv, MapsOf
<1>3. /\ memory_area \in MapsOf(info) /\ next_free_frame \in Nat /\ info \in Infos
      /\ ~ exhausted => \A f \in allocated : Tested(f)
  BY <1>1 DEF AInv, WInv
<1>4. /\ memory_area \in A!ChunkList /\ A!Ascending(memory_area) /\ A!FitsFrameT(memory_area)
      /\ FRAME_T \in Nat /\ FRAME_T > 1
  BY <1>3, MapAssumption, PageAssumption DEF LowMemory
<1>5. ~ exhausted => \A f \in allocated : Tested(f)'
  BY <1>1, <1>3, KeptTested
<1>6. CASE A!AllocateCall
  BY <1>3, <1>5, <1>6 DEF A!AllocateCall
<1>7. CASE A!AllocateAgain
  BY <1>3, <1>4, <1>5, <1>7 DEF A!AllocateAgain, A!Retry
<1>8. CASE A!AllocateReturn
  <2>1. PICK num : num = A!current_frame_num
    OBVIOUS
  <2>2. /\ next_free_frame' = (num + 1) % FRAME_T
        /\ allocated' = allocated \cup {num}
        /\ exhausted' = (exhausted \/ A!UsableFrom(memory_area, next_free_frame) = {})
        /\ ~ A!InReserved(reserved, A!current_addr)
    BY <1>8, <2>1 DEF A!AllocateReturn, A!Grant
  <2>3. num \in Nat
    <3>1. memory_area \in AP!ChunkList
      BY <1>4 DEF A!ChunkList, AP!ChunkList
    <3>2. AP!current_frame_num \in 0 .. (FRAME_T - 1)
      BY <1>3, <3>1, AllocatorAssumptions, AP!CurrentType
    <3> QED BY <1>4, <2>1, <3>2, SameCalls
  <2>4. ASSUME A!UsableFrom(memory_area, next_free_frame) # {} PROVE Tested(num)'
    <3>1. PICK k \in A!Numbers(memory_area) :
            /\ A!Usable(memory_area, k)
            /\ A!current_addr = A!Addr(memory_area, k)
            /\ A!current_frame_num = IF A!FirstOfRun(memory_area, k) THEN k + 1 ELSE k
      BY <1>3, <1>4, <2>4, FoundChunk
    <3>2. ~ A!InReserved(reserved, A!Addr(memory_area, k))
      BY <2>2, <3>1, Zenon
    <3>3. num = IF A!FirstOfRun(memory_area, k) THEN k + 1 ELSE k
      BY <2>1, <3>1, Zenon
    <3>4. Tested(num)
      BY <3>1, <3>2, <3>3, Zenon DEF Tested
    <3> QED BY <1>1, <3>4, KeptTested
  <2>5. next_free_frame' \in Nat
    BY <1>4, <2>2, <2>3
  <2>6. ASSUME ~ exhausted', NEW f \in allocated' PROVE Tested(f)'
    BY <1>5, <2>2, <2>4, <2>6, Zenon
  <2> QED BY <2>5, <2>6
<1> QED BY <1>6, <1>7, <1>8 DEF Allocate, A!mmap_allocate_frame

LEMMA AllocatorInvariant == ASSUME LowMemory PROVE BootSpec => []AInv
<1>1. BootInit => AInv
  BY DEF BootInit, Init, A!Init, AInv
<1>2. WInv /\ AInv /\ [BootNext]_<< walk, allocator >> => AInv'
  <2> SUFFICES ASSUME WInv, AInv, [BootNext]_<< walk, allocator >> PROVE AInv'
    OBVIOUS
  <2>1. CASE Next /\ UNCHANGED allocator
    BY <2>1, WalkKeepsA
  <2>2. CASE mmu_init
    BY <2>2, SetUpKeeps
  <2>3. CASE Allocate
    BY <2>3, AllocateKeeps
  <2>4. CASE UNCHANGED << walk, allocator >>
    <3>1. /\ phase' = phase /\ info' = info /\ mmap' = mmap /\ reserved_areas' = reserved_areas
          /\ pc' = pc /\ memory_area' = memory_area /\ reserved' = reserved
          /\ next_free_frame' = next_free_frame /\ allocated' = allocated
          /\ exhausted' = exhausted
      BY <2>4 DEF walk, allocator
    <3>2. \A f : Tested(f) => Tested(f)'
      BY <3>1, KeptTested
    <3> QED BY <3>1, <3>2 DEF AInv, MapsOf
  <2> QED BY <2>1, <2>2, <2>3, <2>4 DEF BootNext, Panicked
<1> QED BY <1>1, <1>2, WalkInvariant, PTL DEF BootSpec

(* No frame that mmap_allocate_frame hands out while there are any left    *)
(* holds a byte of the kernel, for every structure and memory map that     *)
(* GRUB may leave on a machine whose memory ends below 4 GiB.              *)
THEOREM KernelKept == ASSUME LowMemory PROVE BootSpec => []KernelNotGranted
<1>1. WInv /\ AInv => KernelNotGranted
  <2> SUFFICES ASSUME WInv, AInv, mmap # 0, ~ exhausted,
                      NEW f \in allocated \cap A!Numbers(memory_area), NEW s \in Loaded(info),
                      NEW b \in Frame(f), b \in s.addr .. s.addr + s.size - 1
               PROVE  FALSE
    BY DEF KernelNotGranted
  <2>1. pc # "boot" /\ phase = "found"
    BY DEF AInv
  <2>2. /\ memory_area \in MapsOf(info) /\ info \in Infos /\ Tested(f)
        /\ reserved = reserved_areas /\ Fits(reserved_areas, Loaded(info))
    BY <2>1 DEF AInv, WInv
  <2>3. memory_area \in A!ChunkList /\ A!Ascending(memory_area) /\ PAGE_SIZE \in Nat \ {0}
    BY <2>2, MapAssumption, PageAssumption
  <2> DEFINE start == reserved_areas.kernel_start
             end   == reserved_areas.kernel_end
             addr(k) == A!Addr(memory_area, k)
  <2>4. /\ start \in Nat /\ end \in Nat /\ s.addr \in Nat /\ s.size \in Nat
        /\ start <= s.addr /\ s.addr + s.size <= end
    BY <2>2, InfosAssumption DEF Fits, Areas
  <2>5. PlacedOn(memory_area, start)
    <3>1. start # UINT64_MAX
      BY <2>2, <2>4, InfosAssumption
    <3>2. PICK t \in Loaded(info) : start = t.addr
      BY <2>2, <3>1 DEF Fits
    <3>3. \A u \in Loaded(info) : t.addr <= u.addr
      BY <2>2, <3>2 DEF Fits
    <3> QED BY <2>2, <3>2, <3>3, KernelAssumption
  <2>6. \A k \in A!Numbers(memory_area) : k \in Nat /\ addr(k) \in Nat
    <3>1. memory_area \in AP!ChunkList
      BY <2>3 DEF A!ChunkList, AP!ChunkList
    <3>2. \A k \in AP!Numbers(memory_area) : k \in Nat /\ AP!Addr(memory_area, k) \in Nat
      BY <3>1, AllocatorAssumptions, AP!AddrType
    <3> QED BY <3>2 DEF A!Numbers, AP!Numbers, A!Addr, AP!Addr
  <2>7. /\ b \in Int /\ addr(f) <= b /\ b < addr(f) + PAGE_SIZE
        /\ start <= b /\ b < end
    BY <2>3, <2>4, <2>6 DEF Frame
  <2>8. addr(f) < start => FALSE
    <3>1. addr(f) < start => addr(f) + PAGE_SIZE <= start
      BY <2>5 DEF PlacedOn
    <3> HIDE DEF start, addr
    <3> QED BY <2>3, <2>4, <2>6, <2>7, <3>1
  <2>9. PICK k \in A!Numbers(memory_area) :
          /\ A!Usable(memory_area, k)
          /\ ~ A!InReserved(reserved, addr(k))
          /\ f = IF A!FirstOfRun(memory_area, k) THEN k + 1 ELSE k
    BY <2>2 DEF Tested
  <2>10. ~ (addr(k) >= start /\ addr(k) <= end)
    BY <2>2, <2>9 DEF A!InReserved
  <2>11. CASE ~ A!FirstOfRun(memory_area, k)
    <3>1. f = k
      BY <2>9, <2>11
    <3> HIDE DEF start, end, addr
    <3> QED BY <2>4, <2>6, <2>7, <2>8, <2>10, <3>1
  <2>12. CASE A!FirstOfRun(memory_area, k)
    <3>1. f = k + 1 /\ k + 1 \in A!Numbers(memory_area)
      BY <2>9, <2>12
    <3>2. addr(k) + PAGE_SIZE <= addr(k + 1)
      BY <2>3, <2>6, <3>1 DEF A!Ascending
    <3>3. addr(k) < start => addr(k + 1) < start
      BY <2>5, <2>9, <2>12, <3>1 DEF PlacedOn
    <3> HIDE DEF start, end, addr
    <3> QED BY <2>3, <2>4, <2>6, <2>7, <2>8, <2>10, <3>1, <3>2, <3>3
  <2> QED BY <2>11, <2>12
<1> QED BY <1>1, WalkInvariant, AllocatorInvariant, PTL
=============================================================================
