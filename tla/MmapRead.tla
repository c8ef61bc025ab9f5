------------------------------ MODULE MmapRead ------------------------------
(***************************************************************************)
(* The two nested loops of mmap_read (src/src/mmu/mmap.c), one test or one *)
(* iteration per step, for one call with an arbitrary request and mode.    *)
(***************************************************************************)
EXTENDS MemoryMap

CONSTANTS
  Maps,       \* memory maps: sequences of [addr, len, type] entries
  Requests,   \* values of the argument request
  Modes       \* values of the argument mode

ASSUME RequestsAssumption == Requests \subseteq Nat

ASSUME EntriesAssumption == \A map \in Maps : map \in Seq([addr : Nat, len : Nat, type : Nat])

VARIABLES
  entries,    \* memory_area->entries
  mode,
  request,    \* incremented while it falls on a reserved chunk
  entry,      \* position of the entry pointer
  i,          \* address of the chunk the inner loop is at
  cur_num,
  pc,         \* "start", "outer", "inner" (at a loop test) or "returned"
  result,     \* the value returned
  asked       \* history: the argument request as passed

vars == << entries, mode, request, entry, i, cur_num, pc, result, asked >>

Init ==
  /\ entries \in Maps
  /\ mode \in Modes
  /\ request \in Requests
  /\ asked = request
  /\ entry = 1 /\ i = 0 /\ cur_num = 0 /\ result = 0
  /\ pc = "start"

Return(value) ==
  /\ pc' = "returned"
  /\ result' = value
  /\ UNCHANGED << entries, mode, request, entry, i, cur_num, asked >>

InvalidMode ==
  /\ pc = "start"
  /\ mode \notin {MMAP_GET_NUM, MMAP_GET_ADDR}
  /\ Return(0)

ValidMode ==
  /\ pc = "start"
  /\ mode \in {MMAP_GET_NUM, MMAP_GET_ADDR}
  /\ pc' = "outer"
  /\ UNCHANGED << entries, mode, request, entry, i, cur_num, result, asked >>

EnterEntry ==
  /\ pc = "outer"
  /\ entry <= Len(entries)
  /\ i' = entries[entry].addr
  /\ pc' = "inner"
  /\ UNCHANGED << entries, mode, request, entry, cur_num, result, asked >>

EndOfMap ==
  /\ pc = "outer"
  /\ entry > Len(entries)
  /\ Return(0)

entry_end == entries[entry].addr + entries[entry].len

(* Fault: a chunk may end where its entry ends.                            *)
FaultInclusiveEnd == pc = "inner" /\ i + PAGE_SIZE <= entry_end

InsideEntry == pc = "inner" /\ i + PAGE_SIZE < entry_end

FoundNum == mode = MMAP_GET_NUM /\ request >= i /\ request <= i + PAGE_SIZE

ReservedChunk == entries[entry].type = MULTIBOOT_MEMORY_RESERVED

Wanted == mode = MMAP_GET_ADDR /\ cur_num = request

LeaveEntry ==
  /\ pc = "inner"
  /\ ~ InsideEntry
  /\ entry' = entry + 1
  /\ pc' = "outer"
  /\ UNCHANGED << entries, mode, request, i, cur_num, result, asked >>

ReturnNum ==
  /\ InsideEntry
  /\ FoundNum
  /\ Return(cur_num + 1)

NextChunk(wanted) ==
  /\ i' = i + PAGE_SIZE
  /\ cur_num' = cur_num + 1
  /\ request' = wanted
  /\ UNCHANGED << entries, mode, entry, pc, result, asked >>

(* Fault: the request does not move off a reserved chunk.                  *)
FaultRequestKept ==
  /\ InsideEntry /\ ~ FoundNum /\ ReservedChunk
  /\ NextChunk(request)

(* Fault: the inner loop's own increment is skipped with the chunk.        *)
FaultNoStep ==
  /\ InsideEntry /\ ~ FoundNum /\ ReservedChunk
  /\ UNCHANGED vars

SkipReserved ==
  /\ InsideEntry /\ ~ FoundNum /\ ReservedChunk
  /\ NextChunk(IF Wanted THEN request + 1 ELSE request)

ReturnAddr ==
  /\ InsideEntry /\ ~ FoundNum /\ ~ ReservedChunk /\ Wanted
  /\ Return(i)

Advance ==
  /\ InsideEntry /\ ~ FoundNum /\ ~ ReservedChunk /\ ~ Wanted
  /\ NextChunk(request)

Next ==
  \/ InvalidMode \/ ValidMode
  \/ EnterEntry \/ EndOfMap
  \/ LeaveEntry \/ ReturnNum \/ SkipReserved \/ ReturnAddr \/ Advance

Spec == Init /\ [][Next]_vars /\ WF_vars(Next)

-----------------------------------------------------------------------------
(* While an address is sought the loops are never past the request: it is  *)
(* ahead of, or at, the chunk under test, so the equality test of          *)
(* mmap_read cannot be jumped over by the increments.                      *)
RequestAhead ==
  mode = MMAP_GET_ADDR => cur_num <= request

(* What the loops return is what the operator mmap_read of MemoryMap says, *)
(* for every map, request and mode: the frame allocator rests on it.       *)
ReturnsMmapRead ==
  pc = "returned" => result = mmap_read(Chunks(entries), asked, mode)

(* mmap_read returns.                                                      *)
Returns == <>(pc = "returned")
=============================================================================
