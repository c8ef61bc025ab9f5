------------------------------ MODULE MCPaging ------------------------------
EXTENDS Paging

(* The first tables lie below PAGE_SIZE, as they do in the code, where     *)
(* they are below frame 4096.  The pages: one of the first huge pages, and *)
(* pages that share a P2 or only the P4 table; identity_map takes frame 87 *)
(* to page 17, which shares its P1 table with page 16.                     *)
MCMemory == 0 .. 10 \cup { PAGE_SIZE * n : n \in 1 .. MAX_CHUNK }
MCPages == {5, 16, 20, 87}
MCAccessed == {16}
MCFlags == [writable : BOOLEAN]
=============================================================================
