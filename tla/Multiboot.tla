------------------------------ MODULE Multiboot ------------------------------
(***************************************************************************)
(* The multiboot structure that GRUB leaves in memory, and the walks over  *)
(* its tags in src/src/core/boot.c: multiboot_is_valid,                    *)
(* read_multiboot_info and find_multiboot_tag, in the order in which kmain *)
(* calls them.                                                             *)
(***************************************************************************)
EXTENDS Integers, Sequences, FiniteSetsExt

CONSTANTS
  Infos,       \* what GRUB may leave: [magic, start, tags, at] records
  UINT64_MAX   \* greatest address (2^64 - 1 in the code)

MULTIBOOT2_MAGIC_VALUE == 920085129

MULTIBOOT_TAG_TYPE_END          == 0
MULTIBOOT_TAG_TYPE_MMAP         == 6
MULTIBOOT_TAG_TYPE_ELF_SECTIONS == 9

MULTIBOOT_ELF_SECTION_TYPE_NULL == 0

(* GRUB (external): every tag begins at the first multiple of 8 after the  *)
(* one before it, the first of them after the header of 8 bytes; at[n] is  *)
(* the address of tag n.                                                   *)
RoundUp(n) == CHOOSE m \in n .. n + 7 : m % 8 = 0

LaidOut(mbi) ==
  /\ mbi.start \in Nat
  /\ mbi.at[1] = mbi.start + 8
  /\ \A n \in 1 .. Len(mbi.tags) :
       /\ mbi.tags[n].size \in Nat /\ mbi.tags[n].size >= 8
       /\ mbi.at[n] \in Nat
       /\ mbi.at[n + 1] = mbi.at[n] + RoundUp(mbi.tags[n].size)

(* The positions whose tag lies at an address: one, or none when there is  *)
(* no tag there.                                                           *)
TagsAt(mbi, address) == { n \in 1 .. Len(mbi.tags) : mbi.at[n] = address }

(* The loaded sections of the kernel.                                      *)
IsElf(mbi, n) == mbi.tags[n].type = MULTIBOOT_TAG_TYPE_ELF_SECTIONS

SectionsOf(mbi) ==
  UNION { { mbi.tags[n].sections[i] : i \in 1 .. Len(mbi.tags[n].sections) } :
            n \in { n \in 1 .. Len(mbi.tags) : IsElf(mbi, n) } }

Loaded(mbi) == { s \in SectionsOf(mbi) : s.type # MULTIBOOT_ELF_SECTION_TYPE_NULL }

(* The tags end with one END tag; the sections lie in the address space.   *)
ASSUME InfosAssumption ==
  /\ UINT64_MAX \in Nat
  /\ \A mbi \in Infos :
       /\ Len(mbi.tags) \in Nat \ {0}
       /\ LaidOut(mbi)
       /\ \A n \in 1 .. Len(mbi.tags) :
            /\ mbi.tags[n].type = MULTIBOOT_TAG_TYPE_END <=> n = Len(mbi.tags)
            /\ IsElf(mbi, n) => Len(mbi.tags[n].sections) \in Nat
       /\ \A s \in Loaded(mbi) :
            s.addr \in Nat /\ s.size \in Nat /\ s.addr + s.size < UINT64_MAX

VARIABLES
  phase,           \* "valid", "walk", "sections", "find", "found" or "panic"
  info,            \* the structure in memory
  tag,             \* the pointer of the walk
  section,         \* i, the next section of an ELF tag
  reserved_areas,  \* the result of read_multiboot_info
  mmap             \* the result of find_multiboot_tag: an address, or 0

walk == << phase, info, tag, section, reserved_areas, mmap >>

Init ==
  /\ phase = "valid"
  /\ info \in Infos
  /\ tag = 0 /\ section = 0 /\ mmap = 0
  /\ reserved_areas = [kernel_start |-> UINT64_MAX, kernel_end |-> 0,
                       multiboot_start |-> info.start, multiboot_end |-> 0]

-----------------------------------------------------------------------------
multiboot_is_valid == info.magic = MULTIBOOT2_MAGIC_VALUE /\ info.start % 8 = 0

(* mbi->tags, after size and reserved.                                     *)
FirstTag == info.start + 8

Invalid ==
  /\ phase = "valid"
  /\ ~ multiboot_is_valid
  /\ phase' = "panic"
  /\ UNCHANGED << info, tag, section, reserved_areas, mmap >>

BeginWalk ==
  /\ phase = "valid"
  /\ multiboot_is_valid
  /\ phase' = "walk"
  /\ tag' = FirstTag
  /\ UNCHANGED << info, section, reserved_areas, mmap >>

(* The tag the pointer points to.                                          *)
Here == info.tags[CHOOSE n \in TagsAt(info, tag) : TRUE]

(* Fault: the size is not rounded up.                                      *)
FaultUnaligned(size) == size

(* (tag->size + 7) & ~7                                                    *)
Aligned(size) == (size + 7) - ((size + 7) % 8)

NextTag == tag + Aligned(Here.size)

(* Every other type of tag is only reported.                               *)
OtherTag ==
  /\ phase = "walk"
  /\ Here.type \notin {MULTIBOOT_TAG_TYPE_END, MULTIBOOT_TAG_TYPE_ELF_SECTIONS}
  /\ tag' = NextTag
  /\ UNCHANGED << phase, info, section, reserved_areas, mmap >>

ElfTag ==
  /\ phase = "walk"
  /\ Here.type = MULTIBOOT_TAG_TYPE_ELF_SECTIONS
  /\ phase' = "sections"
  /\ section' = 1
  /\ UNCHANGED << info, tag, reserved_areas, mmap >>

(* Fault: the size of the last section is not added.                       *)
FaultNoSize(areas, s) ==
  [areas EXCEPT !.kernel_start = IF s.addr < @ THEN s.addr ELSE @,
                !.kernel_end = IF s.addr + s.size > @ THEN s.addr ELSE @]

(* What one section does to the bounds.                                    *)
Widen(areas, s) ==
  [areas EXCEPT !.kernel_start = IF s.addr < @ THEN s.addr ELSE @,
                !.kernel_end = IF s.addr + s.size > @ THEN s.addr + s.size ELSE @]

(* Fault: a section of type NULL, whose address is 0, counts too.          *)
FaultCountNull ==
  /\ phase = "sections" /\ section <= Len(Here.sections)
  /\ reserved_areas' = Widen(reserved_areas, Here.sections[section])
  /\ section' = section + 1
  /\ UNCHANGED << phase, info, tag, mmap >>

ElfSection ==
  /\ phase = "sections" /\ section <= Len(Here.sections)
  /\ reserved_areas' =
       IF Here.sections[section].type = MULTIBOOT_ELF_SECTION_TYPE_NULL THEN reserved_areas
       ELSE Widen(reserved_areas, Here.sections[section])
  /\ section' = section + 1
  /\ UNCHANGED << phase, info, tag, mmap >>

EndOfSections ==
  /\ phase = "sections" /\ section > Len(Here.sections)
  /\ phase' = "walk"
  /\ tag' = NextTag
  /\ UNCHANGED << info, section, reserved_areas, mmap >>

(* Fault: the second walk begins where the first one ended.                *)
FaultNoRewind ==
  /\ phase = "walk"
  /\ Here.type = MULTIBOOT_TAG_TYPE_END
  /\ reserved_areas' = [reserved_areas EXCEPT !.multiboot_end = NextTag]
  /\ phase' = "find"
  /\ UNCHANGED << info, tag, section, mmap >>

(* The END tag: its own size still counts.  kmain goes on to look for the  *)
(* memory map, from the first tag.                                         *)
EndOfTags ==
  /\ phase = "walk"
  /\ Here.type = MULTIBOOT_TAG_TYPE_END
  /\ reserved_areas' = [reserved_areas EXCEPT !.multiboot_end = NextTag]
  /\ phase' = "find"
  /\ tag' = FirstTag
  /\ UNCHANGED << info, section, mmap >>

read_multiboot_info == BeginWalk \/ OtherTag \/ ElfTag \/ ElfSection \/ EndOfSections \/ EndOfTags

(* Fault: the pointer stays.                                               *)
FaultFindStays ==
  /\ phase = "find"
  /\ Here.type \notin {MULTIBOOT_TAG_TYPE_END, MULTIBOOT_TAG_TYPE_MMAP}
  /\ UNCHANGED walk

FindNext ==
  /\ phase = "find"
  /\ Here.type \notin {MULTIBOOT_TAG_TYPE_END, MULTIBOOT_TAG_TYPE_MMAP}
  /\ tag' = NextTag
  /\ UNCHANGED << phase, info, section, reserved_areas, mmap >>

(* The tag that was looked for, or 0 at the end.                           *)
FindEnd ==
  /\ phase = "find"
  /\ Here.type \in {MULTIBOOT_TAG_TYPE_END, MULTIBOOT_TAG_TYPE_MMAP}
  /\ mmap' = IF Here.type = MULTIBOOT_TAG_TYPE_MMAP THEN tag ELSE 0
  /\ phase' = "found"
  /\ UNCHANGED << info, tag, section, reserved_areas >>

find_multiboot_tag == FindNext \/ FindEnd

Next == Invalid \/ read_multiboot_info \/ find_multiboot_tag

-----------------------------------------------------------------------------
(* The walks only ever look at the beginning of a tag.                     *)
WalkOnTags == phase \in {"walk", "sections", "find"} => TagsAt(info, tag) # {}

(* read_multiboot_info returns the least area that holds every loaded      *)
(* section, and the end of the structure that GRUB announced.              *)
AreasExact ==
  phase \in {"find", "found"} =>
    /\ reserved_areas.kernel_start = Min({ s.addr : s \in Loaded(info) } \cup {UINT64_MAX})
    /\ reserved_areas.kernel_end = Max({ s.addr + s.size : s \in Loaded(info) } \cup {0})
    /\ reserved_areas.multiboot_start = info.start
    /\ reserved_areas.multiboot_end = info.at[Len(info.tags) + 1]

MapTags == { n \in 1 .. Len(info.tags) : info.tags[n].type = MULTIBOOT_TAG_TYPE_MMAP }

(* find_multiboot_tag returns the first memory map, or 0 if there is none. *)
FindsFirst ==
  phase = "found" =>
    mmap = IF MapTags = {} THEN 0 ELSE info.at[Min(MapTags)]
=============================================================================
