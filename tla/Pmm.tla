--------------------------------- MODULE Pmm ---------------------------------
(***************************************************************************)
(* The physical memory manager of kernel/pmm.c: one bit per page frame,    *)
(* and a counter of used frames beside it.                                 *)
(***************************************************************************)
EXTENDS Integers, FiniteSets

CONSTANTS
  MAX_PAGES,         \* frames the bitmap has a bit for
  kernel_end_page,   \* the first frame above the kernel image
  MemSizes,          \* RAM sizes in frames: (mem_upper + 1024) / 4
  WORD               \* 2^32, the modulus of uint32_t

Frames == 0 .. MAX_PAGES - 1

(* The boot loader put the kernel into RAM, above the first frame, and the *)
(* bitmap has a bit for each of its frames.                                *)
ASSUME PmmAssumption ==
  /\ MAX_PAGES \in Nat /\ kernel_end_page \in Nat \ {0} /\ WORD \in Nat
  /\ MAX_PAGES < WORD /\ kernel_end_page <= MAX_PAGES
  /\ MemSizes \subseteq Nat /\ \A n \in MemSizes : kernel_end_page <= n

VARIABLES
  bitmap,         \* the frames whose bit is set
  total_pages, used_pages,
  owned           \* ghost: the frames pmm_alloc handed out and nobody freed

pmmvars == <<bitmap, total_pages, used_pages, owned>>

(* the frames pmm_alloc looks for *)
FreeFrames == {i \in Frames : i < total_pages /\ i \notin bitmap}

FirstFree == CHOOSE i \in FreeFrames : \A k \in FreeFrames : i <= k

pmm_free_pages == (total_pages - used_pages) % WORD

-----------------------------------------------------------------------------
PmmOff == bitmap = {} /\ total_pages = 0 /\ used_pages = 0 /\ owned = {}

pmm_initMutant(pages) ==
  LET total == IF pages > MAX_PAGES THEN MAX_PAGES ELSE pages
  IN  /\ total_pages' = total
      /\ bitmap' = Frames \ ((kernel_end_page - 1) .. (total - 1))
      /\ used_pages' = kernel_end_page
      /\ owned' = {}

(* pmm_init: every frame is used, except those between the kernel and the  *)
(* end of RAM                                                              *)
pmm_init(pages) ==
  LET total == IF pages > MAX_PAGES THEN MAX_PAGES ELSE pages
  IN  /\ total_pages' = total
      /\ bitmap' = Frames \ (kernel_end_page .. (total - 1))
      /\ used_pages' = kernel_end_page
      /\ owned' = {}

pmm_allocMutant ==
  /\ FreeFrames # {}
  /\ used_pages' = used_pages + 1
  /\ owned' = owned \cup {FirstFree}
  /\ UNCHANGED <<total_pages, bitmap>>

(* pmm_alloc: the first frame whose bit is clear *)
pmm_alloc ==
  /\ FreeFrames # {}
  /\ bitmap' = bitmap \cup {FirstFree}
  /\ used_pages' = used_pages + 1
  /\ owned' = owned \cup {FirstFree}
  /\ UNCHANGED total_pages

(* pmm_free, of a frame the caller owns *)
pmm_free(page) ==
  /\ bitmap' = bitmap \ {page}
  /\ used_pages' = (used_pages - 1) % WORD
  /\ owned' = owned \ {page}
  /\ UNCHANGED total_pages

PmmInit == \E pages \in MemSizes : total_pages = 0 /\ pmm_init(pages)
PmmFree == \E page \in owned : pmm_free(page)

PmmNext == PmmInit \/ pmm_alloc \/ PmmFree

PmmSpec == PmmOff /\ [][PmmNext]_pmmvars

-----------------------------------------------------------------------------
(* Properties *)

PmmTypeOK ==
  /\ bitmap \subseteq Frames /\ owned \subseteq Frames
  /\ total_pages \in 0 .. MAX_PAGES /\ used_pages \in 0 .. MAX_PAGES

(* The counter and the bitmap, which are updated separately, always agree: *)
(* pmm_free_pages is the number of frames pmm_alloc can still hand out.    *)
FreePagesExact == pmm_free_pages = Cardinality(FreeFrames)

(* A frame somebody owns is RAM above the kernel with its bit set, after   *)
(* any sequence of calls: it is not handed out a second time.              *)
OwnedAreUsed == owned \subseteq bitmap \cap (kernel_end_page .. (total_pages - 1))
=============================================================================
