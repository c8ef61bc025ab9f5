----------------------------- MODULE BootMemory -----------------------------
(***************************************************************************)
(* From the multiboot structure to the frames handed out: kmain passes     *)
(* what read_multiboot_info and find_multiboot_tag returned to mmu_init,   *)
(* and mmap_allocate_frame goes by it.  Composes Multiboot and             *)
(* FrameAllocator.                                                         *)
(***************************************************************************)
EXTENDS Multiboot

CONSTANTS
  PAGE_SIZE,
  FRAME_T,
  LowMemoryMaps  \* what a memory map at address 0 may look like

VARIABLES pc, memory_area, reserved, next_free_frame, allocated, twice, exhausted

allocator == << pc, memory_area, reserved, next_free_frame, allocated, twice, exhausted >>

A == INSTANCE FrameAllocator WITH Maps <- {}, ReservedAreas <- {}

ASSUME PageAssumption == PAGE_SIZE \in Nat \ {0} /\ FRAME_T \in Nat /\ FRAME_T > 1

(* The memory maps in the structures that GRUB may leave.                  *)
MapsOf(mbi) ==
  { A!Chunks(mbi.tags[n].entries) :
      n \in { n \in 1 .. Len(mbi.tags) : mbi.tags[n].type = MULTIBOOT_TAG_TYPE_MMAP } }

(* GRUB (external): entries are in ascending order and do not overlap.     *)
ASSUME MapAssumption ==
  \A mbi \in Infos : \A chunks \in MapsOf(mbi) :
    chunks \in A!ChunkList /\ A!Ascending(chunks)

(* linker.ld puts the kernel at 1 MiB, where a stretch of memory begins:   *)
(* no chunk lies across its beginning, and a run of memory below it has    *)
(* more than one chunk there.                                              *)
PlacedOn(chunks, start) ==
  \A k \in A!Numbers(chunks) :
    A!Addr(chunks, k) < start =>
      /\ A!Addr(chunks, k) + PAGE_SIZE <= start
      /\ A!Usable(chunks, k) /\ A!FirstOfRun(chunks, k) /\ k + 1 \in A!Numbers(chunks)
         => A!Addr(chunks, k + 1) < start

ASSUME KernelAssumption ==
  \A mbi \in Infos : \A chunks \in MapsOf(mbi) : \A s \in Loaded(mbi) :
    (\A t \in Loaded(mbi) : s.addr <= t.addr) => PlacedOn(chunks, s.addr)

BootInit == Init /\ A!Init

(* The entries at the address mmap.  kmain does not test for 0: then they  *)
(* are whatever lies at the bottom of memory.                              *)
EntriesAt(address) ==
  IF address = 0 THEN LowMemoryMaps
  ELSE { info.tags[n].entries : n \in TagsAt(info, address) }

(* paging_init does nothing.                                               *)
mmu_init ==
  /\ phase = "found"
  /\ \E entries \in EntriesAt(mmap) : A!mmap_init(entries, reserved_areas)
  /\ UNCHANGED walk

Allocate == A!mmap_allocate_frame /\ UNCHANGED walk

Panicked == phase = "panic" /\ UNCHANGED << walk, allocator >>

BootNext ==
  \/ Next /\ UNCHANGED allocator
  \/ mmu_init
  \/ Allocate
  \/ Panicked

(* kmain runs: nothing blocks in the walks.                                *)
BootSpec ==
  /\ BootInit /\ [][BootNext]_<< walk, allocator >>
  /\ WF_<< walk, allocator >>((Next /\ UNCHANGED allocator) \/ mmu_init)

-----------------------------------------------------------------------------
Frame(f) == A!Addr(memory_area, f) .. A!Addr(memory_area, f) + PAGE_SIZE - 1

(* No frame handed out while there are any left holds a byte of the        *)
(* kernel.  It takes the walk over the sections, the pointer to the map,   *)
(* the test of frames against the areas and the numbering of frames.       *)
KernelNotGranted ==
  mmap # 0 /\ ~ exhausted =>
    \A f \in allocated \cap A!Numbers(memory_area) :
      \A s \in Loaded(info) : Frame(f) \cap s.addr .. s.addr + s.size - 1 = {}

(* The walks end: kmain panics, or the allocator is set up.                *)
AllocatorReady == <>(phase = "panic" \/ pc # "boot")
=============================================================================
