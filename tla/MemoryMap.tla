------------------------------ MODULE MemoryMap ------------------------------
(***************************************************************************)
(* What mmap_read (src/src/mmu/mmap.c) computes.  The multiboot memory map *)
(* is a sequence of entries; the two nested loops of mmap_read walk the    *)
(* page-sized chunks of the entries in order and number them from 0.       *)
(* Module MmapRead has the loops themselves and shows that they compute    *)
(* the operators below.                                                    *)
(***************************************************************************)
EXTENDS Integers, Sequences, FiniteSetsExt

CONSTANT PAGE_SIZE

ASSUME PageSizeAssumption == PAGE_SIZE \in Nat \ {0}

MULTIBOOT_MEMORY_AVAILABLE == 1
MULTIBOOT_MEMORY_RESERVED  == 2

MMAP_GET_NUM  == 0
MMAP_GET_ADDR == 1

(* The chunks of one entry.  The loop test is i + PAGE_SIZE < entry_end,   *)
(* so the last whole page of an entry is not a chunk when it ends exactly  *)
(* at the end of the entry.                                                *)
EntryChunks(entry) ==
  [ j \in 1 .. ((entry.len - 1) \div PAGE_SIZE) |->
      [ addr |-> entry.addr + (j - 1) * PAGE_SIZE, type |-> entry.type ] ]

(* All chunks of a map, in the order in which the loops visit them.        *)
Chunks(entries) ==
  LET upTo[n \in 0 .. Len(entries)] ==
        IF n = 0 THEN << >> ELSE upTo[n - 1] \o EntryChunks(entries[n])
  IN  upTo[Len(entries)]

(* Chunk number cur_num of the loops is element cur_num + 1.               *)
Numbers(chunks)   == 0 .. (Len(chunks) - 1)
Addr(chunks, k)   == chunks[k + 1].addr
Usable(chunks, k) == chunks[k + 1].type # MULTIBOOT_MEMORY_RESERVED

(* A chunk that does not continue the chunk before it: the first of its    *)
(* entry.                                                                  *)
FirstOfRun(chunks, k) ==
  k = 0 \/ Addr(chunks, k - 1) + PAGE_SIZE # Addr(chunks, k)

(* mode = MMAP_GET_ADDR: a request that falls on a reserved chunk is       *)
(* incremented together with cur_num until the chunk is not reserved.      *)
UsableFrom(chunks, request) ==
  { k \in Numbers(chunks) : k >= request /\ Usable(chunks, k) }

GetAddr(chunks, request) ==
  IF UsableFrom(chunks, request) = {}
  THEN 0
  ELSE Addr(chunks, Min(UsableFrom(chunks, request)))

(* mode = MMAP_GET_NUM: both ends of a chunk count as inside it, and the   *)
(* number returned is cur_num + 1.                                         *)
Holding(chunks, addr) ==
  { k \in Numbers(chunks) :
      addr >= Addr(chunks, k) /\ addr <= Addr(chunks, k) + PAGE_SIZE }

GetNum(chunks, addr) ==
  IF Holding(chunks, addr) = {} THEN 0 ELSE Min(Holding(chunks, addr)) + 1

mmap_read(chunks, request, mode) ==
  CASE mode = MMAP_GET_ADDR -> GetAddr(chunks, request)
    [] mode = MMAP_GET_NUM  -> GetNum(chunks, request)
    [] OTHER                -> 0
=============================================================================
