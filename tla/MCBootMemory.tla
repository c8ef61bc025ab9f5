---------------------------- MODULE MCBootMemory ----------------------------
(***************************************************************************)
(* Multiboot structures for BootMemory, shaped like those of a PC: usable  *)
(* memory from 0 and from Megabyte, which stands for 1 MiB and where the   *)
(* kernel is linked, a reserved stretch between them.  Pages have 16       *)
(* bytes.                                                                  *)
(***************************************************************************)
EXTENDS BootMemory

Megabyte == 128

Entries ==
  { << [addr |-> 0, len |-> low, type |-> 1],
       [addr |-> 104, len |-> 24, type |-> 2],
       [addr |-> Megabyte, len |-> high, type |-> 1] >> : low \in {96, 100}, high \in {168, 176} }

Null == [type |-> 0, addr |-> 0, size |-> 0]
Boot == [type |-> 1, addr |-> Megabyte, size |-> 4]

(* The null section comes first.  Other sections follow in any order; GRUB *)
(* appends those that are not part of the image, and bss has a size.       *)
SectionLists ==
  { << Null, Boot, [type |-> 1, addr |-> Megabyte + a, size |-> n],
       [type |-> 8, addr |-> Megabyte + b, size |-> m] >> :
      a \in {4, 16}, n \in {0, 13}, b \in {8, 32}, m \in {0, 1, 17} }

(* Sizes on both sides of a multiple of 8.                                 *)
Command(n)  == [type |-> 1, size |-> n]
MapTag(e)   == [type |-> 6, size |-> 16, entries |-> e]
ElfTag3(s)  == [type |-> 9, size |-> 20, sections |-> s]
End         == [type |-> 0, size |-> 8]

TagLists ==
  { << Command(n), MapTag(e), ElfTag3(s), End >> :
      n \in {9, 16, 17}, e \in Entries, s \in SectionLists } \cup
  { << ElfTag3(s), Command(15), MapTag(e), MapTag(<< >>), End >> :
      e \in Entries, s \in SectionLists } \cup
  { << ElfTag3(s), Command(9), End >> : s \in SectionLists }

(* The structure lies in low memory or after the kernel.                   *)
Layout(start, tags) ==
  LET at[n \in 1 .. Len(tags) + 1] ==
        IF n = 1 THEN start + 8 ELSE at[n - 1] + RoundUp(tags[n - 1].size)
  IN  at

Info(magic, start, tags) ==
  [magic |-> magic, start |-> start, tags |-> tags, at |-> Layout(start, tags)]

MCInfos ==
  { Info(MULTIBOOT2_MAGIC_VALUE, start, tags) : start \in {8, 184, 192}, tags \in TagLists } \cup
  { Info(magic, start, << End >>) : magic \in {MULTIBOOT2_MAGIC_VALUE, 0}, start \in {8, 12} }

MCLowMemoryMaps == {<< >>} \cup Entries
=============================================================================
