------------------------------- MODULE Paging -------------------------------
(***************************************************************************)
(* Paging: the tables that set_up_page_tables (src/asm/boot.asm) builds    *)
(* and the operations of src/src/mmu/paging.c on them, with the processor  *)
(* that walks the tables and keeps translations.  A table pointer of the   *)
(* code is the number of the page it points to: the tables are reached     *)
(* through the last entry of the P4 table, which points to the table       *)
(* itself, so that every access to a table is translated by the tables.    *)
(***************************************************************************)
EXTENDS Integers

CONSTANTS
  PAGE_SIZE, PAGE_ENTRIES,  \* 4096 and 512 in the code
  FRAME_T,                  \* number of values of frame_t
  p4_table, p3_table, p2_table,  \* the frames of the first tables
  Memory,                   \* frames looked at; the tables and the chunks among them
  Pages, Flags,             \* arguments of map and unmap
  Accessed,                 \* pages that handlers use
  MAX_CHUNK                 \* greatest frame number handed out

(* How powers are multiplied, which the provers do not know.               *)
ASSUME PowerAssumption ==
  PAGE_ENTRIES^0 = 1 /\ \A n \in 0 .. 3 : PAGE_ENTRIES^(n + 1) = PAGE_ENTRIES * PAGE_ENTRIES^n

(* The last entry of the P4 table is beyond the pages that a frame_t       *)
(* numbers: 2^32 of them are 32 entries of 512.                            *)
ASSUME SizeAssumption ==
  /\ PAGE_SIZE \in Nat /\ MAX_CHUNK \in Nat
  /\ PAGE_ENTRIES \in Nat /\ PAGE_ENTRIES >= 3
  /\ FRAME_T \in Nat \ {0} /\ FRAME_T <= (PAGE_ENTRIES - 1) * PAGE_ENTRIES^3

(* The kernel is linked at 1 MiB (linker.ld), frame 256, and is smaller    *)
(* than 15 MiB: its tables lie below frame 4096.                           *)
ASSUME TablesAssumption ==
  /\ {p4_table, p3_table, p2_table} \subseteq 8 .. (PAGE_SIZE - 1)
  /\ p4_table # p3_table /\ p4_table # p2_table /\ p3_table # p2_table

ASSUME PagingAssumption ==
  /\ Memory \subseteq Nat /\ {0, p4_table, p3_table, p2_table} \subseteq Memory
  /\ \A n \in 1 .. MAX_CHUNK : n * PAGE_SIZE \in Memory
  /\ Pages \subseteq 1 .. FRAME_T - 1 /\ Accessed \subseteq Pages
  /\ Flags \subseteq [writable : BOOLEAN]

(* The last page of the address space.                                     *)
P4_TABLE == PAGE_ENTRIES^4 - 1

(* The index of a page at level 3 (P4) to 0 (P1).                          *)
Index(page, level) == (page \div PAGE_ENTRIES^level) % PAGE_ENTRIES

(* p4_index to p1_index take a frame_t.                                    *)
index(page, level) == Index(page % FRAME_T, level)

NoEntry == [present |-> FALSE, writable |-> FALSE, huge |-> FALSE, frame |-> 0]

Entry(frame, huge) == [present |-> TRUE, writable |-> TRUE, huge |-> huge, frame |-> frame]

EmptyTable == [i \in 0 .. PAGE_ENTRIES - 1 |-> NoEntry]

(* The tables the kernel starts with.  Memory that was not used is zero.   *)
set_up_page_tables ==
  [f \in Memory |->
     CASE f = p4_table -> [EmptyTable EXCEPT ![0] = Entry(p3_table, FALSE),
                                             ![PAGE_ENTRIES - 1] = Entry(p4_table, FALSE)]
       [] f = p3_table -> [EmptyTable EXCEPT ![0] = Entry(p2_table, FALSE)]
       [] f = p2_table -> [i \in 0 .. PAGE_ENTRIES - 1 |-> Entry(i * PAGE_ENTRIES, TRUE)]
       [] OTHER -> EmptyTable]

-----------------------------------------------------------------------------
(* The processor (external).  From the P4 table down; a huge entry of a P2 *)
(* table covers the frames from its own on.                                *)
Step(m, page, at, level) ==
  LET e == m[at.frame][Index(page, level)]
  IN  IF at.kind # "table" THEN at
      ELSE IF ~ e.present THEN [at EXCEPT !.kind = "fault"]
      ELSE IF e.huge /\ level = 1
      THEN [kind |-> "huge", writable |-> e.writable, frame |-> e.frame + Index(page, 0)]
      ELSE [kind |-> IF level = 0 THEN "page" ELSE "table",
            writable |-> e.writable, frame |-> e.frame]

Top == [kind |-> "table", writable |-> TRUE, frame |-> p4_table]

ToP1(m, page) == Step(m, page, Step(m, page, Step(m, page, Top, 3), 2), 1)

Down(m, page) == Step(m, page, ToP1(m, page), 0)

Mapped(m, page) == Down(m, page).kind \in {"page", "huge"}

Translation(m, page) == IF Mapped(m, page) THEN {Down(m, page)} ELSE {}

(* A read through a table pointer.                                         *)
At(m, table, i) == m[Down(m, table).frame][i]

-----------------------------------------------------------------------------
(* Fault: huge pages are taken for tables.                                 *)
FaultHugeTable(m, table, i) ==
  IF At(m, table, i).present THEN ((table * PAGE_ENTRIES) + i) % PAGE_ENTRIES^4 ELSE 0

(* (table << 9) | (index << 12), or a null pointer.                        *)
next_table_address(m, table, i) ==
  IF At(m, table, i).present /\ ~ At(m, table, i).huge
  THEN ((table * PAGE_ENTRIES) + i) % PAGE_ENTRIES^4
  ELSE 0

(* The P1 table of a page, or null as soon as a table is missing.          *)
NextTable(m, page, table, level) ==
  IF table = 0 THEN 0 ELSE next_table_address(m, table, index(page, level))

p1_table(m, page) ==
  NextTable(m, page, NextTable(m, page, NextTable(m, page, P4_TABLE, 3), 2), 1)

pointed_frame(entry) == IF entry.present THEN entry.frame % FRAME_T ELSE 0

translate_page(m, page) ==
  IF p1_table(m, page) = 0 THEN 0
  ELSE pointed_frame(At(m, p1_table(m, page), index(page, 0)))

(* The offset is taken from the number of the page.                        *)
translate(m, addr) ==
  LET virt == addr \div PAGE_SIZE
  IN  (translate_page(m, virt) * PAGE_SIZE) + (virt % PAGE_SIZE)

-----------------------------------------------------------------------------
VARIABLES
  mem,         \* the frames of Memory, as tables
  next,        \* the next frame number of the allocator
  tlb,         \* translations the processor keeps
  pc, target,  \* where unmap is, and its argument
  remapped,    \* history: pages mapped while the processor kept a translation
  last         \* history: the last operation, its page and its flags

vars == << mem, next, tlb, pc, target, remapped, last >>

Init ==
  /\ mem = set_up_page_tables
  /\ next = 1
  /\ tlb = {}
  /\ pc = "idle" /\ target = 0
  /\ remapped = {} /\ last = [op |-> "none", page |-> 0, writable |-> FALSE]

(* The operations below work on a record of mem and next.                  *)
Write(st, table, i, entry) == [st EXCEPT !.mem[Down(st.mem, table).frame][i] = entry]

(* The address is scaled by PAGE_SIZE: it ends up as a frame number.       *)
set_addr_mask(entry, addr) == [entry EXCEPT !.frame = addr]

(* mmap_allocate_frame, of which module FrameAllocator shows that no frame *)
(* number comes twice until the memory map is used up, and mmap_read: the  *)
(* map is one area from address 0 on.                                      *)
AllocatedAddress(frame) == frame * PAGE_SIZE

(* Fault: a table that exists is replaced.                                 *)
FaultAlwaysNew(st, table, i) ==
  LET entry == [set_addr_mask(At(st.mem, table, i), AllocatedAddress(st.next))
                  EXCEPT !.present = TRUE, !.writable = TRUE]
  IN  Write([st EXCEPT !.next = @ + 1], table, i, entry)

(* The table an entry points to is made when there is none; what the new   *)
(* table holds is not touched.                                             *)
next_table_create(st, table, i) ==
  LET entry == [set_addr_mask(At(st.mem, table, i), AllocatedAddress(st.next))
                  EXCEPT !.present = TRUE, !.writable = TRUE]
  IN  IF At(st.mem, table, i).present THEN st
      ELSE Write([st EXCEPT !.next = @ + 1], table, i, entry)

(* p3, p2 and p1 are made, or found, from the top.                         *)
Created(at, page, level) ==
  LET st == next_table_create(at.st, at.table, index(page, level))
  IN  [st |-> st, table |-> next_table_address(st.mem, at.table, index(page, level))]

TablesCreated(st, page) ==
  Created(Created(Created([st |-> st, table |-> P4_TABLE], page, 3), page, 2), page, 1)

(* Fault: the flags are all the entry gets.                                *)
FaultNotPresent(st, page, frame, flags) ==
  LET made  == TablesCreated(st, page)
      entry == [NoEntry EXCEPT !.writable = flags.writable]
  IN  Write(made.st, made.table, index(page, 0), entry)

(* The flags replace the whole entry, the address with them.               *)
map_page_to_frame(st, page, frame, flags) ==
  LET made  == TablesCreated(st, page)
      entry == [NoEntry EXCEPT !.present = TRUE, !.writable = flags.writable]
  IN  Write(made.st, made.table, index(page, 0), entry)

State == [mem |-> mem, next |-> next]

(* One call takes one frame number for each table it makes.                *)
Maps(st, page, frame, flags) ==
  /\ pc = "idle"
  /\ st.next + 2 <= MAX_CHUNK
  /\ LET after == map_page_to_frame(st, page, frame, flags)
     IN  mem' = after.mem /\ next' = after.next
  /\ remapped' = remapped \cup { t.page : t \in { kept \in tlb : kept.page = page } }
  /\ last' = [op |-> "map", page |-> page, writable |-> flags.writable]
  /\ UNCHANGED << tlb, pc, target >>

map(page, flags) == Maps([State EXCEPT !.next = @ + 1], page, next, flags)

frame_starting_address(frame) == (frame * PAGE_SIZE) % FRAME_T

page_containing_address(addr) == addr \div PAGE_SIZE

identity_map(frame, flags) ==
  Maps(State, page_containing_address(frame_starting_address(frame)), frame, flags)

(* PAGE_SIZE words of eight bytes are cleared: eight pages.                *)
mmap_deallocate_frame(m, frame) ==
  LET first == page_containing_address(frame_starting_address(frame))
      wiped == { Down(m, v).frame : v \in first .. first + 7 }
  IN  [f \in Memory |-> IF f \in wiped THEN EmptyTable ELSE m[f]]

(* unmap is called for pages that have a P1 table: it does not test its    *)
(* pointers.  Its steps are told apart because an interrupt handler may    *)
(* use the page in between.                                                *)
UnmapEntry(page) ==
  /\ pc = "idle"
  /\ Down(mem, page).kind = "page"
  /\ LET p1 == p1_table(mem, page)
     IN  mem' = Write(State, p1, index(page, 0),
                      [At(mem, p1, index(page, 0)) EXCEPT !.present = FALSE]).mem
  /\ pc' = "deallocate" /\ target' = page
  /\ last' = [op |-> "unmap", page |-> page, writable |-> FALSE]
  /\ UNCHANGED << next, tlb, remapped >>

UnmapAbsent(page) ==
  /\ pc = "idle"
  /\ p1_table(mem, page) # 0
  /\ ~ At(mem, p1_table(mem, page), index(page, 0)).present
  /\ last' = [op |-> "unmap", page |-> page, writable |-> FALSE]
  /\ UNCHANGED << mem, next, tlb, pc, target, remapped >>

(* The entry was copied before it was cleared.                             *)
UnmapDeallocate ==
  /\ pc = "deallocate"
  /\ LET entry == [At(mem, p1_table(mem, target), index(target, 0)) EXCEPT !.present = TRUE]
     IN  mem' = mmap_deallocate_frame(mem, pointed_frame(entry))
  /\ pc' = "flush"
  /\ UNCHANGED << next, tlb, target, remapped, last >>

(* Fault: the number of the page is flushed, not its address.              *)
FaultFlushNumber ==
  /\ pc = "flush"
  /\ tlb' = { t \in tlb : t.page # page_containing_address(target) }
  /\ pc' = "idle" /\ target' = 0
  /\ remapped' = remapped \ {target}
  /\ UNCHANGED << mem, next, last >>

UnmapFlush ==
  /\ pc = "flush"
  /\ tlb' = { t \in tlb : t.page # target }
  /\ pc' = "idle" /\ target' = 0
  /\ remapped' = remapped \ {target}
  /\ UNCHANGED << mem, next, last >>

(* The processor (external) keeps the translation of a page that is used.  *)
Access(page) ==
  /\ Mapped(mem, page)
  /\ tlb' = tlb \cup {[page |-> page, down |-> Down(mem, page)]}
  /\ UNCHANGED << mem, next, pc, target, remapped, last >>

Next ==
  \/ \E page \in Pages, flags \in Flags : map(page, flags) \/ identity_map(page, flags)
  \/ \E page \in Pages : UnmapEntry(page) \/ UnmapAbsent(page)
  \/ \E page \in Accessed : Access(page)
  \/ UnmapDeallocate
  \/ UnmapFlush

Spec == Init /\ [][Next]_vars

-----------------------------------------------------------------------------
(* The walk of the code through the recursive entry and the walk of the    *)
(* processor agree, whatever was mapped and unmapped before: the pointer   *)
(* to the P1 table of a page leads to the frame the processor takes its    *)
(* entry from, and it is null exactly when there is no P1 table, a huge    *)
(* page included; translate then stays inside the page's frame.            *)
WalksAgree ==
  \A page \in Pages :
    LET p1   == p1_table(mem, page)
        at   == ToP1(mem, page)
        down == Step(mem, page, at, 0)
    IN  /\ (p1 # 0) = (at.kind = "table")
        /\ p1 # 0 => Translation(mem, p1) = {[at EXCEPT !.kind = "page"]}
        /\ translate(mem, page * PAGE_SIZE) \div PAGE_SIZE =
             IF down.kind = "page" THEN down.frame ELSE 0

(* Outside unmap the processor keeps no translation that the tables do not *)
(* give any more: unmap flushes last.  map does not flush: a page that was *)
(* mapped again with other flags is the exception.                         *)
TlbFresh ==
  pc = "idle" =>
    \A t \in tlb : t.page \notin remapped => Translation(mem, t.page) = {t.down}

(* Mapping or unmapping a page leaves every other page as it was, those    *)
(* the kernel runs on and those of the tables among them.                  *)
OthersUntouched ==
  [][\A page \in (Pages \cup {0, P4_TABLE}) \ {last'.page} :
       Translation(mem', page) = Translation(mem, page)]_vars

(* A page that was mapped is accessible, with the flags given, unless it   *)
(* belongs to the huge pages the kernel started with.                      *)
MapTakesEffect ==
  last.op = "map" =>
    LET down == Down(mem, last.page)
    IN  down.kind = "huge" \/ (down.kind = "page" /\ down.writable = last.writable)
=============================================================================
