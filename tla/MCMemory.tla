------------------------------ MODULE MCMemory ------------------------------
(* Tables of eight entries, pages of four bytes, a kernel of three frames, *)
(* a heap of two pages in the third table.                                 *)
EXTENDS Memory

Seg(v, m) == [vaddr |-> v, mem_size |-> m]

(* One small segment; one of two pages; two segments, the second in an     *)
(* address range that has no page table yet; segments that start inside a  *)
(* page and end with it, or cross into as many pages as elf_load maps; an  *)
(* empty segment.  The last four are large: a page table is made in a      *)
(* frame under the program, or beyond the pages mapped to themselves, or   *)
(* the program is mapped over a page table it goes on to use; one needs    *)
(* every frame the bitmap has.                                             *)
MCPrograms == { <<Seg(48, 3)>>, <<Seg(48, 8)>>, <<Seg(48, 5), Seg(96, 4)>>,
                <<Seg(49, 3)>>, <<Seg(50, 5)>>, <<Seg(48, 0), Seg(52, 4)>>,
                <<Seg(48, 16), Seg(96, 4)>>,
                <<Seg(72, 24), Seg(48, 12), Seg(96, 4)>>,
                <<Seg(72, 20), Seg(96, 4), Seg(48, 8), Seg(100, 4)>>,
                <<Seg(96, 32), Seg(48, 16)>> }

(* From no free frame to more RAM than the bitmap has bits for. *)
MCMemSizes == 3 .. 22
=============================================================================
