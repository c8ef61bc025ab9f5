--------------------------- MODULE FrameAllocator ---------------------------
(***************************************************************************)
(* The physical frame allocator of src/src/mmu/mmap.c: mmap_init and       *)
(* mmap_allocate_frame over the memory map that GRUB left behind.  Frames  *)
(* are numbered by their position among the chunks of the map (module      *)
(* MemoryMap).  One step of the machine is one activation of the           *)
(* recursive mmap_allocate_frame.                                          *)
(***************************************************************************)
EXTENDS MemoryMap

CONSTANTS
  FRAME_T,        \* number of values of frame_t (2^32 in the code)
  Maps,           \* the memory maps GRUB may hand over: sequences of entries
  ReservedAreas   \* the reserved_areas_t records read_multiboot_info may return

ReservedFields ==
  {"kernel_start", "kernel_end", "multiboot_start", "multiboot_end"}

ChunkList == Seq([addr : Nat, type : Nat])

(* Entries are in ascending order and do not overlap.                      *)
Ascending(chunks) ==
  \A j, k \in Numbers(chunks) :
    j < k => Addr(chunks, j) + PAGE_SIZE <= Addr(chunks, k)

(* Every address of the map, and every chunk number, fits frame_t.         *)
FitsFrameT(chunks) ==
  /\ Len(chunks) + 1 < FRAME_T
  /\ \A k \in Numbers(chunks) : Addr(chunks, k) < FRAME_T

ASSUME FrameTAssumption == FRAME_T \in Nat /\ FRAME_T > 1

ASSUME MapsAssumption ==
  \A entries \in Maps :
    /\ Chunks(entries) \in ChunkList
    /\ Ascending(Chunks(entries))

(* The kernel is loaded at 1 MiB and the multiboot structure is never at   *)
(* address 0.                                                              *)
ASSUME ReservedAssumption ==
  ReservedAreas \subseteq [ReservedFields -> Nat \ {0}]

VARIABLES
  pc,               \* "boot" before mmap_init, "idle", or "alloc" in a call
  memory_area,      \* the chunks of the map given to mmap_init
  reserved,         \* the four reserved bounds
  next_free_frame,
  allocated,        \* history: every frame number returned so far
  twice,            \* history: frame numbers returned more than once
  exhausted         \* history: a call found no usable chunk left

vars == << pc, memory_area, reserved, next_free_frame, allocated, twice, exhausted >>

Init ==
  /\ pc = "boot"
  /\ memory_area = << >>
  /\ reserved = [f \in ReservedFields |-> 0]
  /\ next_free_frame = 0
  /\ allocated = {}
  /\ twice = {}
  /\ exhausted = FALSE

mmap_init(entries, areas) ==
  /\ pc = "boot"
  /\ pc' = "idle"
  /\ memory_area' = Chunks(entries)
  /\ reserved' = areas
  /\ next_free_frame' = 1
  /\ UNCHANGED << allocated, twice, exhausted >>

(* Both bounds of a reserved area are taken to be inside it.               *)
InReserved(areas, addr) ==
  \/ addr >= areas["multiboot_start"] /\ addr <= areas["multiboot_end"]
  \/ addr >= areas["kernel_start"] /\ addr <= areas["kernel_end"]

current_addr == mmap_read(memory_area, next_free_frame, MMAP_GET_ADDR)

(* Fault: an address of 0 is answered by -1, which is no frame_t.          *)
FaultMinusOne ==
  IF current_addr = 0 THEN -1 ELSE GetNum(memory_area, current_addr % FRAME_T)

(* The 64-bit address is passed as a frame_t.                              *)
current_frame_num ==
  mmap_read(memory_area, current_addr % FRAME_T, MMAP_GET_NUM) % FRAME_T

AllocateCall ==
  /\ pc = "idle"
  /\ pc' = "alloc"
  /\ UNCHANGED << memory_area, reserved, next_free_frame, allocated, twice, exhausted >>

Retry(next) ==
  /\ pc = "alloc"
  /\ InReserved(reserved, current_addr)
  /\ next_free_frame' = next % FRAME_T
  /\ UNCHANGED << pc, memory_area, reserved, allocated, twice, exhausted >>

Grant(num, next) ==
  /\ pc' = "idle"
  /\ next_free_frame' = next % FRAME_T
  /\ allocated' = allocated \cup {num}
  /\ twice' = twice \cup (allocated \cap {num})
  /\ exhausted' = (exhausted \/ UsableFrom(memory_area, next_free_frame) = {})
  /\ UNCHANGED << memory_area, reserved >>

(* Faults: the retry does not advance; it advances by two.                 *)
FaultRetryInPlace == Retry(next_free_frame)
FaultRetryTwo     == Retry(next_free_frame + 2)

AllocateAgain == Retry(next_free_frame + 1)

(* Faults: the pointer stays on the frame granted; the reserved areas are  *)
(* not tested.                                                             *)
FaultPointerStays ==
  /\ pc = "alloc"
  /\ ~ InReserved(reserved, current_addr)
  /\ \E num \in {current_frame_num} : Grant(num, num)

FaultUnchecked ==
  /\ pc = "alloc"
  /\ \E num \in {current_frame_num} : Grant(num, num + 1)

AllocateReturn ==
  /\ pc = "alloc"
  /\ ~ InReserved(reserved, current_addr)
  /\ \E num \in {current_frame_num} : Grant(num, num + 1)

mmap_allocate_frame == AllocateCall \/ AllocateAgain \/ AllocateReturn

Next ==
  \/ \E entries \in Maps, areas \in ReservedAreas : mmap_init(entries, areas)
  \/ mmap_allocate_frame

Spec == Init /\ [][Next]_vars

(* A call that was made runs on: the kernel is single threaded here.       *)
FairSpec == Spec /\ WF_vars(AllocateAgain \/ AllocateReturn)

-----------------------------------------------------------------------------
(* The variables of mmap.c and of the history have their types.            *)
TypeOK ==
  /\ pc \in {"boot", "idle", "alloc"}
  /\ memory_area \in ChunkList
  /\ reserved \in [ReservedFields -> Nat]
  /\ next_free_frame \in 0 .. (FRAME_T - 1)
  /\ allocated \subseteq 0 .. (FRAME_T - 1)
  /\ twice \subseteq allocated
  /\ exhausted \in BOOLEAN

(* "Return the newly allocated frame num": until the map is used up,       *)
(* mmap_allocate_frame never returns a frame it has returned before.       *)
NoDoubleAllocation == ~ exhausted => twice = {}

(* A frame handed out before the map is used up is usable and outside the  *)
(* reserved areas, because the chunk with its number was tested.  The      *)
(* exception is the second chunk of a run: MMAP_GET_NUM returns its number *)
(* for the first chunk of the run, which is the one that was tested.       *)
GrantedWasChecked ==
  ~ exhausted =>
    \A f \in allocated :
      \/ f - 1 \in Numbers(memory_area) /\ FirstOfRun(memory_area, f - 1)
      \/ /\ f \in Numbers(memory_area)
         /\ Usable(memory_area, f)
         /\ ~ InReserved(reserved, Addr(memory_area, f))

(* Nothing is lost: the allocator goes past a usable, unreserved chunk     *)
(* only by handing it out, and when it reports exhaustion all of them have *)
(* been.  Chunk 0 and the first chunk of each run are never handed out.    *)
NothingSkipped ==
  \A k \in Numbers(memory_area) :
    /\ k < next_free_frame \/ exhausted
    /\ Usable(memory_area, k)
    /\ ~ InReserved(reserved, Addr(memory_area, k))
    /\ ~ FirstOfRun(memory_area, k)
    => k \in allocated

(* The recursion of mmap_allocate_frame ends: every call returns.          *)
AllocateReturns == (pc = "alloc") ~> (pc = "idle")
=============================================================================
