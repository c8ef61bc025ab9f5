----------------------------- MODULE MCMmapRead -----------------------------
(***************************************************************************)
(* Every map of two entries and a gap, for MmapRead.                       *)
(***************************************************************************)
EXTENDS MmapRead

Lengths == {0, 1, 4, 5, 9}

MapOf(first, second, gap) ==
  << [addr |-> 0, len |-> first.len, type |-> first.type],
     [addr |-> first.len + gap, len |-> second.len, type |-> second.type] >>

TwoEntryMaps ==
  {<< >>} \cup
  { MapOf(first, second, gap) :
      first \in [len : Lengths, type : {1, 2}], second \in [len : Lengths, type : {1, 2}],
      gap \in {0, 3} }
=============================================================================
