------------------------ MODULE FrameAllocator_proofs ------------------------
(***************************************************************************)
(* Proofs about FrameAllocator for every page size, every width of frame_t *)
(* and every set of memory maps.  The theorems on what is handed out need  *)
(* LowMemory: all chunk addresses and numbers fit frame_t (in the code:    *)
(* the machine has no usable memory at or above 4 GiB).                    *)
(***************************************************************************)
EXTENDS FrameAllocator, WellFoundedInduction, SequenceTheorems, TLAPS

LowMemory == \A entries \in Maps : FitsFrameT(Chunks(entries))

(* A nonempty set of naturals has a least element, and Min returns it.     *)
LEMMA NatSetHasMin ==
  ASSUME NEW S \in SUBSET Nat, S # {}
  PROVE  /\ Min(S) \in S
         /\ \A x \in S : Min(S) <= x
<1> DEFINE Less == {p \in Nat \X Nat : p[1] < p[2]}
<1>1. Less = OpToRel(<, Nat)
  BY Zenon DEF OpToRel
<1>2. IsWellFoundedOn(Less, Nat)
  BY <1>1, NatLessThanWellFounded, Zenon
<1>3. \A x, m \in Nat : <<x, m>> \notin Less => m <= x
  OBVIOUS
<1> HIDE DEF Less
<1>4. \E m \in S : \A x \in S : <<x, m>> \notin Less
  BY <1>2, WFMin, Zenon
<1>5. \E m \in S : \A x \in S : m <= x
  BY <1>3, <1>4
<1> QED
  BY <1>5 DEF Min

(* MMAP_GET_ADDR answers with the first usable chunk at or after request.  *)
LEMMA GetAddrIsFirstUsable ==
  ASSUME NEW chunks \in ChunkList, NEW request \in Nat,
         UsableFrom(chunks, request) # {}
  PROVE  \E k \in Numbers(chunks) :
           /\ k >= request
           /\ Usable(chunks, k)
           /\ \A j \in Numbers(chunks) : j >= request /\ j < k => ~ Usable(chunks, j)
           /\ GetAddr(chunks, request) = Addr(chunks, k)
<1> DEFINE U == UsableFrom(chunks, request)
<1>1. U \in SUBSET Nat /\ U # {}
  BY DEF UsableFrom, Numbers
<1>2. Min(U) \in U /\ \A x \in U : Min(U) <= x
  BY <1>1, NatSetHasMin
<1>3. GetAddr(chunks, request) = Addr(chunks, Min(U))
  BY <1>1 DEF GetAddr
<1>4. Min(U) \in Numbers(chunks) /\ Min(U) >= request /\ Usable(chunks, Min(U))
  BY <1>2 DEF UsableFrom
<1>5. \A j \in Numbers(chunks) : j >= request /\ j < Min(U) => ~ Usable(chunks, j)
  <2> SUFFICES ASSUME NEW j \in Numbers(chunks), j >= request, j < Min(U), Usable(chunks, j)
               PROVE  FALSE
    OBVIOUS
  <2>1. j \in U
    BY DEF UsableFrom
  <2> HIDE DEF U
  <2> QED
    BY <1>2, <1>4, <2>1 DEF Numbers
<1> QED
  BY <1>3, <1>4, <1>5

(* Chunk addresses are natural numbers.                                    *)
LEMMA AddrType ==
  ASSUME NEW chunks \in ChunkList, NEW k \in Numbers(chunks)
  PROVE  k \in Nat /\ Addr(chunks, k) \in Nat
<1>1. k + 1 \in 1 .. Len(chunks)
  BY DEF Numbers, ChunkList
<1>2. chunks[k + 1] \in [addr : Nat, type : Nat]
  BY <1>1, ElementOfSeq, Zenon DEF ChunkList
<1> QED
  BY <1>2 DEF Addr, Numbers, ChunkList

(* MMAP_GET_NUM at the start of chunk k answers k + 1 when k starts a run, *)
(* and k when it continues one, because the chunk before it then matches.  *)
LEMMA GetNumAtStart ==
  ASSUME NEW chunks \in ChunkList, Ascending(chunks), NEW k \in Numbers(chunks)
  PROVE  GetNum(chunks, Addr(chunks, k)) = IF FirstOfRun(chunks, k) THEN k + 1 ELSE k
<1> DEFINE H == Holding(chunks, Addr(chunks, k))
<1>1. \A j \in Numbers(chunks) : j \in Nat /\ Addr(chunks, j) \in Nat
  BY AddrType
<1>2. k \in H
  BY <1>1, PageSizeAssumption DEF Holding
<1>3. \A j \in H : j \in Nat
  BY <1>1 DEF Holding
<1>4. \A j \in H : j = k \/ (j = k - 1 /\ ~ FirstOfRun(chunks, k))
  <2> SUFFICES ASSUME NEW j \in Numbers(chunks), j # k,
                      Addr(chunks, k) >= Addr(chunks, j),
                      Addr(chunks, k) <= Addr(chunks, j) + PAGE_SIZE
               PROVE  j = k - 1 /\ ~ FirstOfRun(chunks, k)
    BY DEF Holding
  <2>1. j < k
    BY <1>1, PageSizeAssumption DEF Ascending
  <2>2. Addr(chunks, j) + PAGE_SIZE = Addr(chunks, k)
    BY <1>1, <2>1, PageSizeAssumption DEF Ascending
  <2>3. ASSUME j < k - 1 PROVE FALSE
    <3>1. k - 1 \in Numbers(chunks)
      BY <1>1, <2>3 DEF Numbers, ChunkList
    <3>2. /\ Addr(chunks, j) + PAGE_SIZE <= Addr(chunks, k - 1)
          /\ Addr(chunks, k - 1) + PAGE_SIZE <= Addr(chunks, k)
      BY <1>1, <2>3, <3>1 DEF Ascending
    <3> QED
      BY <1>1, <2>2, <3>1, <3>2, PageSizeAssumption
  <2>4. j = k - 1
    BY <1>1, <2>1, <2>3
  <2> QED
    BY <1>1, <2>2, <2>4 DEF FirstOfRun
<1>5. Min(H) \in H /\ \A x \in H : Min(H) <= x
  BY <1>2, <1>3, NatSetHasMin
<1>6. GetNum(chunks, Addr(chunks, k)) = Min(H) + 1
  BY <1>2 DEF GetNum
<1>7. CASE FirstOfRun(chunks, k)
  <2> HIDE DEF H
  <2> QED BY <1>4, <1>5, <1>6, <1>7
<1>8. CASE ~ FirstOfRun(chunks, k)
  <2>1. k - 1 \in Numbers(chunks) /\ Addr(chunks, k - 1) + PAGE_SIZE = Addr(chunks, k)
    BY <1>1, <1>8 DEF FirstOfRun, Numbers, ChunkList
  <2>2. k - 1 \in H
    BY <1>1, <2>1, PageSizeAssumption DEF Holding
  <2> HIDE DEF H
  <2> QED BY <1>1, <1>3, <1>4, <1>5, <1>6, <1>8, <2>2
<1> QED
  BY <1>7, <1>8

-----------------------------------------------------------------------------
(* mmap_read returns a natural number in both modes.                       *)
LEMMA MmapReadType ==
  ASSUME NEW chunks \in ChunkList, NEW request \in Nat
  PROVE  GetAddr(chunks, request) \in Nat /\ GetNum(chunks, request) \in Nat
<1>1. GetAddr(chunks, request) \in Nat
  <2>1. CASE UsableFrom(chunks, request) = {}
    BY <2>1 DEF GetAddr
  <2>2. CASE UsableFrom(chunks, request) # {}
    BY <2>2, GetAddrIsFirstUsable, AddrType
  <2> QED BY <2>1, <2>2
<1>2. GetNum(chunks, request) \in Nat
  <2>1. CASE Holding(chunks, request) = {}
    BY <2>1 DEF GetNum
  <2>2. CASE Holding(chunks, request) # {}
    <3>1. Holding(chunks, request) \in SUBSET Nat
      BY DEF Holding, Numbers
    <3>2. Min(Holding(chunks, request)) \in Nat
      BY <2>2, <3>1, NatSetHasMin
    <3> QED BY <2>2, <3>2 DEF GetNum
  <2> QED BY <2>1, <2>2
<1> QED BY <1>1, <1>2

(* The two calls of mmap_read that mmap_allocate_frame makes.              *)
LEMMA CurrentCalls ==
  /\ current_addr = GetAddr(memory_area, next_free_frame)
  /\ current_frame_num = GetNum(memory_area, current_addr % FRAME_T) % FRAME_T
BY DEF current_addr, current_frame_num, mmap_read, MMAP_GET_ADDR, MMAP_GET_NUM

(* Both calls return values of their types, whatever the map.              *)
LEMMA CurrentType ==
  ASSUME memory_area \in ChunkList, next_free_frame \in Nat
  PROVE  /\ current_addr \in Nat
         /\ current_frame_num \in 0 .. (FRAME_T - 1)
<1>1. current_addr \in Nat
  BY CurrentCalls, MmapReadType
<1>2. current_addr % FRAME_T \in Nat
  BY <1>1, FrameTAssumption
<1>3. GetNum(memory_area, current_addr % FRAME_T) \in Nat
  BY <1>2, MmapReadType
<1> QED
  BY <1>1, <1>3, CurrentCalls, FrameTAssumption

(* The initial state has the types of TypeOK.                              *)
LEMMA InitTyped == Init => TypeOK
<1>1. << >> \in ChunkList
  BY DEF ChunkList
<1>2. Init => twice \subseteq allocated /\ allocated \subseteq 0 .. (FRAME_T - 1)
  BY DEF Init
<1>3. Init => reserved \in [ReservedFields -> Nat]
  BY DEF Init
<1>4. Init => exhausted \in BOOLEAN /\ pc \in {"boot", "idle", "alloc"}
  BY Zenon DEF Init
<1>5. Init => next_free_frame \in 0 .. (FRAME_T - 1)
  BY FrameTAssumption DEF Init
<1> QED
  BY <1>1, <1>2, <1>3, <1>4, <1>5 DEF Init, TypeOK

(* Every step keeps the types of TypeOK.                                   *)
LEMMA NextTyped == TypeOK /\ [Next]_vars => TypeOK'
<1> SUFFICES ASSUME TypeOK, [Next]_vars PROVE TypeOK'
  OBVIOUS
<1> USE DEF TypeOK
<1>1. ASSUME NEW entries \in Maps, NEW areas \in ReservedAreas, mmap_init(entries, areas)
      PROVE  TypeOK'
  BY <1>1, MapsAssumption, ReservedAssumption, FrameTAssumption DEF mmap_init
<1>2. CASE AllocateCall
  BY <1>2 DEF AllocateCall
<1>3. CASE AllocateAgain
  BY <1>3, FrameTAssumption DEF AllocateAgain, Retry
<1>4. CASE AllocateReturn
  <2>1. current_frame_num \in 0 .. (FRAME_T - 1)
    BY CurrentType
  <2>2. Grant(current_frame_num, current_frame_num + 1)
    BY <1>4 DEF AllocateReturn
  <2> QED
    BY <2>1, <2>2, FrameTAssumption DEF Grant
<1>5. CASE UNCHANGED vars
  BY <1>5 DEF vars
<1> QED
  BY <1>1, <1>2, <1>3, <1>4, <1>5 DEF Next, mmap_allocate_frame

(* Type correctness, for every memory map, high memory included.           *)
THEOREM TypeCorrect == Spec => []TypeOK
BY InitTyped, NextTyped, PTL DEF Spec

-----------------------------------------------------------------------------
(* The inductive invariant.  Below the pointer next_free_frame everything  *)
(* has been decided: until exhaustion, frames handed out lie below it, so  *)
(* that a frame found at or above it is new.                               *)
Granted == ~ exhausted => \A f \in allocated : f < next_free_frame

IInv ==
  /\ TypeOK
  /\ Ascending(memory_area)
  /\ FitsFrameT(memory_area)
  /\ pc = "boot" => allocated = {} /\ ~ exhausted
  /\ pc # "boot" => \A f \in ReservedFields : reserved[f] > 0
  /\ Granted
  /\ NoDoubleAllocation
  /\ GrantedWasChecked
  /\ NothingSkipped

(* What a call finds when there is a usable chunk left: chunk k, tested at *)
(* its own address, and granted as k or k + 1.                             *)
LEMMA FoundChunk ==
  ASSUME memory_area \in ChunkList, next_free_frame \in Nat,
         Ascending(memory_area), FitsFrameT(memory_area),
         UsableFrom(memory_area, next_free_frame) # {}
  PROVE  \E k \in Numbers(memory_area) :
           /\ k >= next_free_frame
           /\ Usable(memory_area, k)
           /\ \A j \in Numbers(memory_area) :
                j >= next_free_frame /\ j < k => ~ Usable(memory_area, j)
           /\ current_addr = Addr(memory_area, k)
           /\ current_frame_num = IF FirstOfRun(memory_area, k) THEN k + 1 ELSE k
<1>1. PICK k \in Numbers(memory_area) :
        /\ k >= next_free_frame
        /\ Usable(memory_area, k)
        /\ \A j \in Numbers(memory_area) :
             j >= next_free_frame /\ j < k => ~ Usable(memory_area, j)
        /\ GetAddr(memory_area, next_free_frame) = Addr(memory_area, k)
  BY GetAddrIsFirstUsable
<1>2. current_addr = Addr(memory_area, k)
  BY <1>1, CurrentCalls
<1>3. k \in Nat /\ Addr(memory_area, k) \in Nat /\ k < Len(memory_area)
  BY AddrType DEF Numbers, ChunkList
<1>4. Addr(memory_area, k) % FRAME_T = Addr(memory_area, k)
  BY <1>3, FrameTAssumption DEF FitsFrameT
<1>5. GetNum(memory_area, Addr(memory_area, k)) = IF FirstOfRun(memory_area, k) THEN k + 1 ELSE k
  BY GetNumAtStart
<1>6. k + 1 < FRAME_T
  BY <1>3, FrameTAssumption DEF FitsFrameT, ChunkList
<1>7. current_frame_num = IF FirstOfRun(memory_area, k) THEN k + 1 ELSE k
  <2>1. current_frame_num = GetNum(memory_area, Addr(memory_area, k)) % FRAME_T
    BY <1>2, <1>4, CurrentCalls, Zenon
  <2>2. k % FRAME_T = k /\ (k + 1) % FRAME_T = k + 1
    BY <1>3, <1>6, FrameTAssumption
  <2> QED
    BY <1>5, <2>1, <2>2
<1> QED
  BY <1>1, <1>2, <1>7

(* A step of mmap_allocate_frame that retries keeps the invariant: the     *)
(* chunk at the old pointer is unusable or in a reserved area.             *)
LEMMA AgainKeeps == IInv /\ AllocateAgain => IInv'
<1> SUFFICES ASSUME IInv, AllocateAgain, TypeOK' PROVE IInv'
  <2>1. IInv /\ AllocateAgain => TypeOK'
    BY FrameTAssumption DEF IInv, AllocateAgain, Retry, TypeOK
  <2> QED BY <2>1
<1> USE DEF AllocateAgain, Retry
<1>1. memory_area \in ChunkList /\ next_free_frame \in Nat /\ FRAME_T \in Nat
  BY FrameTAssumption DEF IInv, TypeOK
<1>2. UsableFrom(memory_area, next_free_frame) # {}
  <2> SUFFICES ASSUME UsableFrom(memory_area, next_free_frame) = {} PROVE FALSE
    OBVIOUS
  <2>1. current_addr = 0
    BY CurrentCalls DEF GetAddr
  <2>2. \A f \in ReservedFields : reserved[f] \in Nat /\ reserved[f] > 0
    BY DEF IInv, TypeOK
  <2> QED
    BY <2>1, <2>2 DEF InReserved, ReservedFields
<1>3. PICK k \in Numbers(memory_area) :
        /\ k >= next_free_frame
        /\ \A j \in Numbers(memory_area) :
             j >= next_free_frame /\ j < k => ~ Usable(memory_area, j)
        /\ current_addr = Addr(memory_area, k)
  BY <1>1, <1>2, FoundChunk DEF IInv
<1>4. k \in Nat /\ k < Len(memory_area) /\ Len(memory_area) \in Nat
  BY <1>1 DEF Numbers, ChunkList
<1>5. next_free_frame' = next_free_frame + 1
  BY <1>1, <1>3, <1>4 DEF IInv, FitsFrameT
<1>6. Granted'
  BY <1>1, <1>5 DEF Granted, IInv, TypeOK
<1>7. NothingSkipped'
  <2> SUFFICES ASSUME NEW j \in Numbers(memory_area),
                      j < next_free_frame + 1 \/ exhausted,
                      Usable(memory_area, j),
                      ~ InReserved(reserved, Addr(memory_area, j)),
                      ~ FirstOfRun(memory_area, j)
               PROVE  j \in allocated
    BY <1>5 DEF NothingSkipped
  <2>1. j \in Nat
    BY <1>1 DEF Numbers, ChunkList
  <2>2. ASSUME j = next_free_frame PROVE FALSE
    BY <1>3, <1>4, <2>1, <2>2
  <2>3. j < next_free_frame \/ exhausted
    BY <1>1, <2>1, <2>2
  <2> QED
    BY <2>3 DEF IInv, NothingSkipped
<1>8. NoDoubleAllocation' /\ GrantedWasChecked'
  BY DEF IInv, NoDoubleAllocation, GrantedWasChecked
<1> QED
  BY <1>6, <1>7, <1>8 DEF IInv

(* A step that returns keeps the invariant.                                *)
LEMMA ReturnKeeps == IInv /\ AllocateReturn => IInv'
<1> SUFFICES ASSUME IInv, AllocateReturn PROVE IInv'
  OBVIOUS
<1>1. /\ memory_area \in ChunkList /\ next_free_frame \in Nat
      /\ FRAME_T \in Nat /\ FRAME_T > 1
      /\ allocated \subseteq Nat /\ twice \subseteq allocated
  BY FrameTAssumption DEF IInv, TypeOK
<1>2. pc = "alloc" /\ ~ InReserved(reserved, current_addr)
      /\ Grant(current_frame_num, current_frame_num + 1)
  BY DEF AllocateReturn
<1>3. current_frame_num \in 0 .. (FRAME_T - 1)
  BY <1>1, CurrentType
<1>4. TypeOK'
  BY <1>1, <1>2, <1>3 DEF IInv, TypeOK, Grant
<1>5. CASE UsableFrom(memory_area, next_free_frame) = {}
  <2>1. exhausted'
    BY <1>2, <1>5, Zenon DEF Grant
  <2>2. NothingSkipped'
    <3> SUFFICES ASSUME NEW j \in Numbers(memory_area),
                        Usable(memory_area, j),
                        ~ InReserved(reserved, Addr(memory_area, j)),
                        ~ FirstOfRun(memory_area, j)
                 PROVE  j \in allocated
      BY <1>2 DEF NothingSkipped, Grant
    <3>1. j < next_free_frame
      BY <1>1, <1>5 DEF UsableFrom, Numbers, ChunkList
    <3> QED
      BY <3>1 DEF IInv, NothingSkipped
  <2>3. Granted' /\ NoDoubleAllocation' /\ GrantedWasChecked'
    BY <2>1 DEF Granted, NoDoubleAllocation, GrantedWasChecked
  <2> QED
    BY <1>2, <1>4, <2>2, <2>3 DEF IInv, Grant
<1>6. CASE UsableFrom(memory_area, next_free_frame) # {}
  <2>1. PICK k \in Numbers(memory_area) :
          /\ k >= next_free_frame
          /\ Usable(memory_area, k)
          /\ \A j \in Numbers(memory_area) :
               j >= next_free_frame /\ j < k => ~ Usable(memory_area, j)
          /\ current_addr = Addr(memory_area, k)
          /\ current_frame_num = IF FirstOfRun(memory_area, k) THEN k + 1 ELSE k
    BY <1>1, <1>6, FoundChunk DEF IInv
  <2> DEFINE num == current_frame_num
  <2>2. k \in Nat /\ k < Len(memory_area) /\ Len(memory_area) \in Nat
    BY <1>1 DEF Numbers, ChunkList
  <2>3. num \in Nat /\ num >= next_free_frame /\ (num = k \/ num = k + 1)
    BY <1>1, <2>1, <2>2
  <2>4. num + 1 < FRAME_T
    BY <1>1, <2>2, <2>3 DEF IInv, FitsFrameT
  <2>5. /\ next_free_frame' = num + 1
        /\ allocated' = allocated \cup {num}
        /\ twice' = twice \cup (allocated \cap {num})
        /\ exhausted' <=> exhausted
        /\ memory_area' = memory_area /\ reserved' = reserved /\ pc' = "idle"
    <3>1. next_free_frame' = num + 1
      BY <1>1, <1>2, <2>3, <2>4 DEF Grant
    <3> QED
      BY <1>2, <1>6, <3>1, Zenon DEF Grant
  <2> HIDE DEF num
  <2>6. Granted'
    BY <1>1, <2>3, <2>5 DEF Granted, IInv
  <2>7. NoDoubleAllocation'
    <3> SUFFICES ASSUME ~ exhausted PROVE twice' = {}
      BY <2>5 DEF NoDoubleAllocation
    <3>1. twice = {} /\ \A f \in allocated : f < next_free_frame
      BY DEF IInv, NoDoubleAllocation, Granted
    <3>2. num \notin allocated
      BY <1>1, <2>3, <3>1
    <3> QED BY <2>5, <3>1, <3>2
  <2>8. GrantedWasChecked'
    <3> SUFFICES ASSUME ~ exhausted, NEW f \in allocated \cup {num}
                 PROVE  \/ f - 1 \in Numbers(memory_area) /\ FirstOfRun(memory_area, f - 1)
                        \/ /\ f \in Numbers(memory_area)
                           /\ Usable(memory_area, f)
                           /\ ~ InReserved(reserved, Addr(memory_area, f))
      BY <2>5 DEF GrantedWasChecked
    <3>1. CASE f \in allocated
      BY <3>1 DEF IInv, GrantedWasChecked
    <3>2. CASE f = num /\ FirstOfRun(memory_area, k)
      <4>1. f = k + 1
        BY <3>2, <2>1 DEF num
      <4> QED BY <4>1, <2>2, <3>2
    <3>3. CASE f = num /\ ~ FirstOfRun(memory_area, k)
      <4>1. f = k
        BY <3>3, <2>1 DEF num
      <4> QED BY <4>1, <2>1, <1>2
    <3> QED BY <3>1, <3>2, <3>3
  <2>9. NothingSkipped'
    <3> SUFFICES ASSUME NEW j \in Numbers(memory_area),
                        j < num + 1 \/ exhausted,
                        Usable(memory_area, j),
                        ~ InReserved(reserved, Addr(memory_area, j)),
                        ~ FirstOfRun(memory_area, j)
                 PROVE  j \in allocated \cup {num}
      BY <2>5 DEF NothingSkipped
    <3>1. j \in Nat
      BY <1>1 DEF Numbers, ChunkList
    <3>2. CASE j < next_free_frame \/ exhausted
      BY <3>2 DEF IInv, NothingSkipped
    <3>3. CASE j >= next_free_frame /\ ~ exhausted
      <4>1. j >= k
        BY <2>1, <2>2, <3>1, <3>3
      <4>2. j = k \/ j = num
        BY <2>2, <2>3, <3>1, <3>3, <4>1
      <4>3. j = k => num = k
        BY <2>1 DEF num
      <4> QED BY <4>2, <4>3
    <3> QED BY <1>1, <3>1, <3>2, <3>3
  <2>10. /\ Ascending(memory_area') /\ FitsFrameT(memory_area')
         /\ \A f \in ReservedFields : reserved'[f] > 0
    BY <1>2, <2>5, Zenon DEF IInv
  <2> QED
    BY <1>4, <2>5, <2>6, <2>7, <2>8, <2>9, <2>10 DEF IInv
<1> QED
  BY <1>5, <1>6

(* With all addresses in the range of frame_t, IInv is an invariant.       *)
LEMMA Inductive == ASSUME LowMemory PROVE Spec => []IInv
<1>1. Init => IInv
  <2> SUFFICES ASSUME Init PROVE IInv
    OBVIOUS
  <2>1. TypeOK
    BY InitTyped
  <2>2. Numbers(memory_area) = {} /\ Len(memory_area) = 0
    BY DEF Init, Numbers
  <2>3. Ascending(memory_area) /\ FitsFrameT(memory_area)
    BY <2>2, FrameTAssumption DEF Ascending, FitsFrameT
  <2> QED
    BY <2>1, <2>2, <2>3 DEF Init, IInv, Granted, NoDoubleAllocation, GrantedWasChecked, NothingSkipped
<1>2. IInv /\ [Next]_vars => IInv'
  <2> SUFFICES ASSUME IInv, [Next]_vars PROVE IInv'
    OBVIOUS
  <2>1. ASSUME NEW entries \in Maps, NEW areas \in ReservedAreas, mmap_init(entries, areas)
        PROVE  IInv'
    <3>1. TypeOK'
      BY <2>1, NextTyped DEF IInv, Next
    <3>2. /\ memory_area' = Chunks(entries) /\ reserved' = areas
          /\ allocated' = {} /\ pc' = "idle" /\ next_free_frame' = 1
          /\ twice' = {} /\ ~ exhausted' /\ ~ exhausted
      BY <2>1 DEF mmap_init, IInv, TypeOK
    <3>3. Ascending(memory_area') /\ FitsFrameT(memory_area')
      BY <3>2, MapsAssumption, Zenon DEF LowMemory
    <3>4. \A f \in ReservedFields : reserved'[f] > 0
      BY <3>2, ReservedAssumption
    <3>5. NothingSkipped'
      <4> SUFFICES ASSUME NEW k \in Numbers(memory_area'), k < 1, ~ FirstOfRun(memory_area', k)
                   PROVE  FALSE
        BY <3>2 DEF NothingSkipped
      <4> QED
        BY DEF FirstOfRun, Numbers
    <3> QED
      BY <3>1, <3>2, <3>3, <3>4, <3>5 DEF IInv, Granted, NoDoubleAllocation, GrantedWasChecked
  <2>2. CASE AllocateCall
    <3>1. TypeOK'
      BY <2>2, NextTyped DEF IInv, Next, mmap_allocate_frame
    <3> QED
      BY <2>2, <3>1 DEF AllocateCall, IInv, Granted, NoDoubleAllocation, GrantedWasChecked, NothingSkipped
  <2>3. CASE AllocateAgain
    BY <2>3, AgainKeeps
  <2>4. CASE AllocateReturn
    BY <2>4, ReturnKeeps
  <2>5. CASE UNCHANGED vars
    BY <2>5 DEF vars, IInv, TypeOK, Granted, NoDoubleAllocation, GrantedWasChecked, NothingSkipped
  <2> QED
    BY <2>1, <2>2, <2>3, <2>4, <2>5 DEF Next, mmap_allocate_frame
<1> QED
  BY <1>1, <1>2, PTL DEF Spec

(* Until the map is used up no frame is handed out twice, whatever the map *)
(* and the reserved areas, provided all addresses fit frame_t.             *)
THEOREM NeverTwice == ASSUME LowMemory PROVE Spec => []NoDoubleAllocation
<1>1. IInv => NoDoubleAllocation
  BY DEF IInv
<1> QED
  BY <1>1, Inductive, PTL

(* Every frame handed out was tested, or follows a first chunk that was.   *)
THEOREM OnlyChecked == ASSUME LowMemory PROVE Spec => []GrantedWasChecked
<1>1. IInv => GrantedWasChecked
  BY DEF IInv
<1> QED
  BY <1>1, Inductive, PTL

(* The allocator passes over no chunk it could have handed out.            *)
THEOREM NoneLost == ASSUME LowMemory PROVE Spec => []NothingSkipped
<1>1. IInv => NothingSkipped
  BY DEF IInv
<1> QED
  BY <1>1, Inductive, PTL
=============================================================================
