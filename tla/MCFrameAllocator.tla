-------------------------- MODULE MCFrameAllocator --------------------------
(***************************************************************************)
(* Small memory maps for FrameAllocator, shaped like those of a PC: low    *)
(* memory from address 0, a hole or a reserved stretch, then memory that   *)
(* holds the kernel and the multiboot structure.                           *)
(***************************************************************************)
EXTENDS FrameAllocator

(* Lengths on both sides of a multiple of the page size 4.                 *)
Lengths == {3, 8, 13}
Types   == {2, 3}
Gaps    == {0, 3}

MapOf(len, type, gap) ==
  << [addr |-> 0, len |-> len[1], type |-> type[1]],
     [addr |-> len[1] + gap, len |-> len[2], type |-> type[2]],
     [addr |-> len[1] + gap + len[2], len |-> len[3], type |-> type[3]] >>

LowMaps ==
  { MapOf(len, type, gap) :
      len \in {8, 13} \X Lengths \X {9, 17}, type \in {1} \X Types \X {1}, gap \in Gaps }

(* The kernel starts on a page; the multiboot structure starts anywhere,   *)
(* before, inside a page of, or after the kernel.                          *)
Areas ==
  { [kernel_start |-> k, kernel_end |-> k + n, multiboot_start |-> m, multiboot_end |-> m + 3] :
      k \in {12, 16}, n \in {2, 8}, m \in {2, 5, 26, 30} }
=============================================================================
