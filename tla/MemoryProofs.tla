---------------------------- MODULE MemoryProofs ----------------------------
(***************************************************************************)
(* Proofs about the frame allocator, for every bitmap size, kernel size    *)
(* and RAM size, pmm_free included, and about the virtual memory on top of *)
(* it: the kernel that boots and loads programs, failed loads included.    *)
(***************************************************************************)
EXTENDS Memory, FiniteSetTheorems, WellFoundedInduction, TLAPS

-----------------------------------------------------------------------------
(* The frame allocator *)

(* The kernel's frames never become free, or pmm_alloc could hand one out; *)
(* the counter and the bitmap are tied together by the number of free      *)
(* frames.                                                                 *)
PmmInv ==
  /\ PmmTypeOK
  /\ OwnedAreUsed
  /\ \A f \in FreeFrames : f >= kernel_end_page
  /\ used_pages + Cardinality(FreeFrames) = total_pages

(* the free frames are finitely many naturals *)
LEMMA FreeFramesFinite ==
  ASSUME PmmTypeOK
  PROVE  /\ FreeFrames \in SUBSET Nat /\ FreeFrames \in SUBSET (0 .. total_pages - 1)
         /\ IsFiniteSet(FreeFrames) /\ Cardinality(FreeFrames) \in Nat
<1>1. FreeFrames \in SUBSET Nat /\ FreeFrames \in SUBSET (0 .. total_pages - 1)
  BY PmmAssumption DEF FreeFrames, Frames, PmmTypeOK
<1>2. IsFiniteSet(0 .. total_pages - 1)
  BY FS_Interval, PmmAssumption DEF PmmTypeOK
<1>3. IsFiniteSet(FreeFrames)
  BY Zenon, <1>1, <1>2, FS_Subset
<1>4. QED
  BY <1>1, <1>3, FS_CardinalityType

(* the first frame with a clear bit is a free frame *)
LEMMA FirstFreeIsFree ==
  ASSUME PmmTypeOK, FreeFrames # {}
  PROVE  FirstFree \in FreeFrames
<1>. DEFINE Less == {ss \in Nat \X Nat : ss[1] < ss[2]}
<1>a. IsWellFoundedOn(Less, Nat)
  BY NatLessThanWellFounded DEF OpToRel
<1>b. \A x, y \in Nat : y < x => <<y, x>> \in Less
  OBVIOUS
<1>c. FreeFrames \in SUBSET Nat
  BY FreeFramesFinite
<1>. HIDE DEF Less
<1>1. \E x \in FreeFrames : \A y \in FreeFrames : ~(<<y, x>> \in Less)
  BY Zenon, <1>a, <1>c, WFMin
<1>2. \E x \in FreeFrames : \A y \in FreeFrames : x <= y
  <2>1. PICK x \in FreeFrames : \A y \in FreeFrames : ~(<<y, x>> \in Less)
    BY <1>1
  <2>2. \A y \in FreeFrames : ~(y < x)
    BY Zenon, <1>b, <1>c, <2>1
  <2>3. \A y \in FreeFrames : x <= y
    BY <1>c, <2>2
  <2>4. QED
    BY <2>3
<1>3. QED
  BY <1>2 DEF FirstFree

(* before pmm_init *)
LEMMA PmmOffInv == PmmOff => PmmInv
<1>. SUFFICES ASSUME PmmOff PROVE PmmInv
  OBVIOUS
<1>1. FreeFrames = {}
  BY PmmAssumption DEF PmmOff, FreeFrames, Frames
<1>2. Cardinality(FreeFrames) = 0
  BY <1>1, FS_EmptySet
<1>3. QED
  BY <1>1, <1>2, PmmAssumption DEF PmmOff, PmmInv, PmmTypeOK, OwnedAreUsed

(* pmm_init: all frames between the kernel and the end of RAM are free *)
LEMMA PmmInitInv == PmmInv /\ PmmInit => PmmInv'
<1>. SUFFICES ASSUME PmmInv, PmmInit PROVE PmmInv'
  OBVIOUS
<1>1. PICK pages \in MemSizes : pmm_init(pages)
  BY DEF PmmInit
<1>. DEFINE total == IF pages > MAX_PAGES THEN MAX_PAGES ELSE pages
<1>2. total \in kernel_end_page .. MAX_PAGES /\ pages \in Nat
  BY PmmAssumption
<1>3. /\ total_pages' = total /\ used_pages' = kernel_end_page /\ owned' = {}
      /\ bitmap' = Frames \ (kernel_end_page .. (total - 1))
  BY <1>1 DEF pmm_init
<1>. HIDE DEF total
<1>4. FreeFrames' = kernel_end_page .. total - 1
  BY <1>2, <1>3, PmmAssumption DEF FreeFrames, Frames
<1>5. Cardinality(FreeFrames') = total - kernel_end_page
  <2>1. Cardinality(kernel_end_page .. total - 1) =
          IF kernel_end_page > total - 1 THEN 0 ELSE total - 1 - kernel_end_page + 1
    BY <1>2, FS_Interval, PmmAssumption
  <2>2. QED
    BY <1>2, <1>4, <2>1, PmmAssumption
<1>6. PmmTypeOK' /\ OwnedAreUsed'
  BY <1>2, <1>3, PmmAssumption DEF PmmTypeOK, OwnedAreUsed, Frames
<1>7. (used_pages + Cardinality(FreeFrames) = total_pages)'
  BY <1>2, <1>3, <1>5, PmmAssumption
<1>8. \A f \in FreeFrames' : f >= kernel_end_page
  BY <1>2, <1>4, PmmAssumption
<1>9. QED
  BY <1>6, <1>7, <1>8 DEF PmmInv

(* pmm_alloc: one free frame less, one used page more *)
LEMMA PmmAllocInv == PmmInv /\ pmm_alloc => PmmInv'
<1>. SUFFICES ASSUME PmmInv, pmm_alloc PROVE PmmInv'
  OBVIOUS
<1>1. FirstFree \in FreeFrames
  BY FirstFreeIsFree DEF PmmInv, pmm_alloc
<1>2. IsFiniteSet(FreeFrames) /\ Cardinality(FreeFrames) \in Nat
  BY FreeFramesFinite DEF PmmInv
<1>3. FreeFrames' = FreeFrames \ {FirstFree}
  BY DEF pmm_alloc, FreeFrames
<1>4. Cardinality(FreeFrames') = Cardinality(FreeFrames) - 1
  BY <1>1, <1>2, <1>3, FS_RemoveElement
<1>5. Cardinality(FreeFrames') \in Nat
  BY <1>2, <1>3, FS_RemoveElement, FS_CardinalityType
<1>6. used_pages' + Cardinality(FreeFrames') = total_pages'
  BY <1>2, <1>4 DEF PmmInv, PmmTypeOK, pmm_alloc
<1>7. FirstFree \in Frames /\ FirstFree < total_pages
  BY <1>1 DEF FreeFrames
<1>8. FirstFree >= kernel_end_page
  BY <1>1 DEF PmmInv
<1>9. PmmTypeOK'
  <2>1. used_pages' <= total_pages
    BY <1>5, <1>6 DEF PmmInv, PmmTypeOK, pmm_alloc
  <2>2. QED
    BY <1>7, <2>1, PmmAssumption DEF PmmInv, PmmTypeOK, pmm_alloc
<1>10. OwnedAreUsed'
  BY <1>7, <1>8, PmmAssumption DEF PmmInv, PmmTypeOK, OwnedAreUsed, pmm_alloc, Frames
<1>11. \A f \in FreeFrames' : f >= kernel_end_page
  BY <1>3 DEF PmmInv
<1>12. QED
  BY <1>6, <1>9, <1>10, <1>11 DEF PmmInv, pmm_alloc

(* pmm_free: the frame was used, and is free again *)
LEMMA PmmFreeInv == PmmInv /\ PmmFree => PmmInv'
<1>. SUFFICES ASSUME PmmInv, PmmFree PROVE PmmInv'
  OBVIOUS
<1>1. PICK page \in owned : pmm_free(page)
  BY DEF PmmFree
<1>2. /\ page \in bitmap /\ page \in Frames
      /\ page \in kernel_end_page .. total_pages - 1
  BY DEF PmmInv, PmmTypeOK, OwnedAreUsed
<1>3. /\ IsFiniteSet(FreeFrames) /\ Cardinality(FreeFrames) \in Nat
      /\ FreeFrames \in SUBSET (0 .. total_pages - 1)
  BY FreeFramesFinite DEF PmmInv
<1>4. page \notin FreeFrames
  BY <1>2 DEF FreeFrames
<1>5. FreeFrames' = FreeFrames \cup {page}
  BY <1>1, <1>2, PmmAssumption DEF pmm_free, FreeFrames, Frames, PmmInv, PmmTypeOK
<1>6. Cardinality(FreeFrames') = Cardinality(FreeFrames) + 1
  BY <1>3, <1>4, <1>5, FS_AddElement
<1>7. Cardinality(FreeFrames') <= total_pages
  <2>1. FreeFrames' \in SUBSET (0 .. total_pages - 1)
    BY <1>2, <1>3, <1>5, PmmAssumption
  <2>2. /\ IsFiniteSet(0 .. total_pages - 1)
        /\ Cardinality(0 .. total_pages - 1) =
             IF 0 > total_pages - 1 THEN 0 ELSE total_pages - 1 - 0 + 1
    BY FS_Interval DEF PmmInv, PmmTypeOK
  <2>3. Cardinality(FreeFrames') <= Cardinality(0 .. total_pages - 1)
    BY Zenon, <2>1, <2>2, FS_Subset
  <2>4. Cardinality(0 .. total_pages - 1) = total_pages
    BY <1>2, <2>2, PmmAssumption DEF PmmInv, PmmTypeOK
  <2>5. QED
    BY <2>3, <2>4
<1>8. used_pages >= 1
  BY <1>3, <1>6, <1>7 DEF PmmInv, PmmTypeOK
<1>9. used_pages' = used_pages - 1
  <2>1. used_pages - 1 \in 0 .. WORD - 1
    BY <1>8, PmmAssumption DEF PmmInv, PmmTypeOK
  <2>2. (used_pages - 1) % WORD = used_pages - 1
    BY <2>1, PmmAssumption
  <2>3. QED
    BY <1>1, <2>2 DEF pmm_free
<1>10. PmmTypeOK'
  BY <1>1, <1>8, <1>9, PmmAssumption DEF pmm_free, PmmInv, PmmTypeOK
<1>11. OwnedAreUsed'
  BY <1>1 DEF pmm_free, PmmInv, OwnedAreUsed
<1>12. \A f \in FreeFrames' : f >= kernel_end_page
  BY <1>2, <1>5, PmmAssumption DEF PmmInv
<1>13. used_pages' + Cardinality(FreeFrames') = total_pages'
  BY <1>1, <1>3, <1>6, <1>9 DEF pmm_free, PmmInv, PmmTypeOK
<1>14. QED
  BY <1>10, <1>11, <1>12, <1>13 DEF PmmInv

(* every step keeps the invariant *)
LEMMA PmmNextInv == PmmInv /\ [PmmNext]_pmmvars => PmmInv'
<1>. SUFFICES ASSUME PmmInv, [PmmNext]_pmmvars PROVE PmmInv'
  OBVIOUS
<1>1. CASE PmmInit
  BY <1>1, PmmInitInv
<1>2. CASE pmm_alloc
  BY <1>2, PmmAllocInv
<1>3. CASE PmmFree
  BY <1>3, PmmFreeInv
<1>4. CASE UNCHANGED pmmvars
  <2>1. FreeFrames' = FreeFrames
    BY <1>4 DEF pmmvars, FreeFrames
  <2>2. QED
    BY <1>4, <2>1 DEF pmmvars, PmmInv, PmmTypeOK, OwnedAreUsed
<1>5. QED
  BY <1>1, <1>2, <1>3, <1>4 DEF PmmNext

(* the counter can be read off the invariant *)
LEMMA PmmInvExact == PmmInv => FreePagesExact
<1>. SUFFICES ASSUME PmmInv PROVE FreePagesExact
  OBVIOUS
<1>1. Cardinality(FreeFrames) \in Nat
  BY FreeFramesFinite DEF PmmInv
<1>2. total_pages - used_pages = Cardinality(FreeFrames)
  BY <1>1 DEF PmmInv, PmmTypeOK
<1>3. total_pages - used_pages \in 0 .. WORD - 1
  BY <1>1, <1>2, PmmAssumption DEF PmmInv, PmmTypeOK
<1>4. (total_pages - used_pages) % WORD = total_pages - used_pages
  BY <1>3, PmmAssumption
<1>5. QED
  BY <1>2, <1>4 DEF FreePagesExact, pmm_free_pages

(* pmm_free_pages, which meminfo prints, is the number of frames pmm_alloc *)
(* can still hand out, and no frame somebody owns, nor one of the kernel,  *)
(* can be handed out again: for any sequence of pmm_alloc and pmm_free.    *)
THEOREM PmmCorrect == PmmSpec => [](FreePagesExact /\ OwnedAreUsed)
<1>1. PmmInv => FreePagesExact /\ OwnedAreUsed
  BY PmmInvExact DEF PmmInv
<1>2. QED
  BY <1>1, PmmOffInv, PmmNextInv, PTL DEF PmmSpec

-----------------------------------------------------------------------------
(* Virtual memory uses the allocator only through its calls, so what is    *)
(* proved of the allocator holds of the kernel.                            *)

(* every step of boot or of a load is a call of the allocator or leaves it alone *)
LEMMA StepIsPmmStep == [Next]_vars => [PmmNext]_pmmvars
<1>. SUFFICES ASSUME [Next]_vars PROVE [PmmNext]_pmmvars
  OBVIOUS
<1>1. CASE Boot
  BY <1>1 DEF Boot, PmmNext
<1>2. CASE AllocFrame \/ NewTable
  BY <1>2 DEF AllocFrame, NewTable, PmmNext
<1>3. CASE VmmInit \/ AllocFrameFails \/ NewTableFails \/ MapFrame \/ StackMapped
           \/ HeapMapped \/ SegmentLoaded \/ \E program \in Programs : ElfLoad(program)
  BY <1>3 DEF VmmInit, AllocFrameFails, NewTableFails, MapFrame, StackMapped,
              HeapMapped, SegmentLoaded, ElfLoad, pmmvars
<1>4. CASE UNCHANGED vars
  BY <1>4 DEF vars, pmmvars
<1>5. QED
  BY <1>1, <1>2, <1>3, <1>4 DEF Next

(* The kernel's use of the allocator, in boot and program loads, is a      *)
(* behaviour of the allocator's specification.                             *)
THEOREM MemoryImplementsPmm == Spec => PmmSpec
<1>1. Init => PmmOff
  BY DEF Init
<1>2. QED
  BY <1>1, StepIsPmmStep, PTL DEF Spec, PmmSpec

(* Through boot and any loads, pmm_free_pages is exactly the number of     *)
(* frames left: no path of vmm_map or elf_load miscounts.                  *)
THEOREM MemoryFreePagesExact == Spec => []FreePagesExact
<1>1. FreePagesExact /\ OwnedAreUsed => FreePagesExact
  OBVIOUS
<1>2. QED
  BY <1>1, MemoryImplementsPmm, PmmCorrect, PTL

(* Through boot and any loads, a frame in use as a page table, as heap or  *)
(* as program memory is never handed out again, and no kernel frame is.    *)
THEOREM MemoryOwnedAreUsed == Spec => []OwnedAreUsed
<1>1. FreePagesExact /\ OwnedAreUsed => OwnedAreUsed
  OBVIOUS
<1>2. QED
  BY <1>1, MemoryImplementsPmm, PmmCorrect, PTL
-----------------------------------------------------------------------------
(* Arithmetic of page numbers *)

LEMMA DivMod ==
  ASSUME NEW a \in Nat, NEW b \in Nat \ {0}
  PROVE  /\ a \div b \in Nat /\ a % b \in 0 .. b - 1
         /\ a = b * (a \div b) + (a % b)
OBVIOUS

LEMMA TimesMonotone ==
  ASSUME NEW a \in Nat, NEW b \in Nat, NEW c \in Nat, a <= b
  PROVE  a * c \in Nat /\ b * c \in Nat /\ a * c <= b * c
<1>1. PICK k \in Nat : b = a + k
  BY b - a \in Nat, b = a + (b - a)
<1>2. b * c = a * c + k * c /\ a * c \in Nat /\ k * c \in Nat
  BY <1>1
<1>3. QED
  BY <1>2

(* the quotient is below every bound that the multiple is below *)
LEMMA DivBelow ==
  ASSUME NEW a \in Nat, NEW b \in Nat \ {0}, NEW c \in Nat, a < c * b
  PROVE  a \div b < c
<1>. SUFFICES ASSUME c <= a \div b PROVE FALSE
  BY DivMod
<1>1. c * b <= (a \div b) * b
  BY Zenon, DivMod, TimesMonotone
<1>2. (a \div b) * b <= a
  BY DivMod
<1>3. QED
  BY <1>1, <1>2, DivMod

LEMMA DivAtLeast ==
  ASSUME NEW a \in Nat, NEW b \in Nat \ {0}, NEW c \in Nat, c * b <= a
  PROVE  c <= a \div b
<1>. SUFFICES ASSUME a \div b + 1 <= c PROVE FALSE
  BY DivMod
<1>1. (a \div b + 1) * b <= c * b
  <2>1. a \div b + 1 \in Nat
    BY DivMod
  <2>2. QED
    BY <2>1, TimesMonotone
<1>2. (a \div b + 1) * b = b * (a \div b) + b
  BY DivMod
<1>3. a < b * (a \div b) + b
  BY DivMod
<1>4. c * b \in Nat
  OBVIOUS
<1>5. QED
  BY <1>1, <1>2, <1>3, <1>4, DivMod

(* whole pages further on *)
LEMMA DivPlus ==
  ASSUME NEW a \in Nat, NEW b \in Nat \ {0}, NEW k \in Nat
  PROVE  (a + k * b) \div b = (a \div b) + k
<1>. DEFINE q == a \div b
            x == a + k * b
<1>1. q \in Nat /\ b * q <= a /\ a < b * q + b /\ k * b \in Nat
  BY DivMod
<1>2. (q + k) * b = b * q + k * b
  BY <1>1
<1>3. (q + k + 1) * b = b * q + k * b + b
  BY <1>1
<1>4. x \in Nat /\ (q + k) * b <= x /\ x < (q + k + 1) * b
  BY <1>1, <1>2, <1>3
<1>. HIDE DEF q, x
<1>5. q + k <= x \div b /\ x \div b < q + k + 1
  BY <1>1, <1>4, DivBelow, DivAtLeast
<1>6. x \div b \in Nat
  BY Zenon, <1>4, DivMod
<1>7. x \div b = q + k
  BY <1>1, <1>5, <1>6
<1>8. QED
  BY <1>7 DEF q, x

(* a page number is a directory index and a table index *)
LEMMA PageParts ==
  ASSUME NEW page \in Pages
  PROVE  /\ page \in Nat /\ DirOf(page) \in 0 .. DIRS - 1
         /\ page % ENTRIES \in 0 .. ENTRIES - 1
         /\ page = ENTRIES * DirOf(page) + (page % ENTRIES)
<1>1. page \in Nat /\ DIRS * ENTRIES \in Nat /\ page < DIRS * ENTRIES
  BY MemoryAssumption DEF Pages
<1>2. DirOf(page) < DIRS
  BY <1>1, DivBelow, MemoryAssumption DEF DirOf
<1>3. ENTRIES \in Nat \ {0} /\ DIRS \in Nat
  BY MemoryAssumption
<1>4. /\ page \div ENTRIES \in Nat /\ page % ENTRIES \in 0 .. ENTRIES - 1
      /\ page = ENTRIES * (page \div ENTRIES) + (page % ENTRIES)
  BY Zenon, <1>1, <1>3, DivMod
<1>5. QED
  BY <1>1, <1>2, <1>3, <1>4 DEF DirOf

(* the processor finds a page of the first two tables in them *)
LEMMA IdentityPages ==
  ASSUME NEW page \in Pages
  PROVE  page \in Identity <=> DirOf(page) \in page_tables
<1>1. page \in Nat /\ 2 * ENTRIES \in Nat /\ DirOf(page) \in Nat
  BY PageParts, MemoryAssumption
<1>2. page < 2 * ENTRIES => DirOf(page) < 2
  BY <1>1, DivBelow, MemoryAssumption DEF DirOf
<1>3. 2 * ENTRIES <= page => 2 <= DirOf(page)
  BY <1>1, DivAtLeast, MemoryAssumption DEF DirOf
<1>4. QED
  BY <1>1, <1>2, <1>3, MemoryAssumption DEF Identity, page_tables

LEMMA IdentityInPages == Identity \subseteq Pages
<1>1. 2 * ENTRIES <= DIRS * ENTRIES /\ DIRS * ENTRIES \in Nat /\ 2 * ENTRIES \in Nat
  BY TimesMonotone, MemoryAssumption
<1>2. QED
  BY <1>1 DEF Identity, Pages

-----------------------------------------------------------------------------
(* The pages that are mapped. *)

MemTypeOK ==
  /\ page_directory \in [0 .. DIRS - 1 -> Nat \cup {Absent}]
  /\ tables \in [DOMAIN tables -> [0 .. ENTRIES - 1 -> Nat \cup {Absent}]]
  /\ pc \in {"off", "vmm_init", "alloc", "map", "shell", "user", "fault", "wild"}
  /\ job \in {"stack", "heap", "load"} /\ seg \in Nat /\ p \in Nat /\ phys \in Nat
  /\ role \in [Frames -> [job : {"none", "stack", "heap", "load", "table"}, seg : Nat]]

(* the loop that runs, and how far it is *)
LoopOK ==
  /\ job = "load" /\ pc \in {"alloc", "map", "user"} =>
       prog \in Programs /\ seg \in DOMAIN prog
  /\ pc = "user" => job = "load"
  /\ pc = "alloc" => p <= Count
  /\ pc = "map" => p < Count
  /\ pc \in {"off", "vmm_init"} => job = "stack" /\ p = 0

(* Before vmm_init nothing is mapped.  After it the two static tables are  *)
(* where they were put, and every other table is a frame of its own that   *)
(* was allocated for it.                                                   *)
DirectoryOK ==
  IF pc \in {"off", "vmm_init"}
  THEN \A d \in 0 .. DIRS - 1 : page_directory[d] = Absent
  ELSE /\ \A d \in page_tables : page_directory[d] = d
       /\ \A d \in (0 .. DIRS - 1) \ page_tables : page_directory[d] # Absent =>
            page_directory[d] \in owned /\ role[page_directory[d]].job = "table"
       /\ \A d, e \in 0 .. DIRS - 1 :
            d # e /\ page_directory[d] # Absent => page_directory[d] # page_directory[e]
       /\ \A d \in 0 .. DIRS - 1 :
            page_directory[d] # Absent => page_directory[d] \in DOMAIN tables
       /\ DOMAIN tables \subseteq page_tables \cup owned

(* a frame that nobody owns was not allocated for anything *)
RolesOK == \A f \in Frames \ owned : role[f].job = "none"

(* Under a page there is nothing, frame 0 (the stack page of a machine     *)
(* without memory), its own frame (the identity mapping), or a frame that  *)
(* was allocated to hold data; and that one is under no other page than    *)
(* perhaps its own.                                                        *)
FramesOK ==
  \A page \in Pages : Translate(page) \notin {Absent, 0} =>
    /\ Translate(page) = page \/ (/\ Translate(page) \in owned
                                  /\ role[Translate(page)].job \in {"stack", "heap", "load"})
    /\ \A other \in Pages \ {page} : Translate(other) = Translate(page) =>
         Translate(page) \in {page, other}

(* the frame about to be mapped is not mapped yet, except by identity *)
PhysOK ==
  pc = "map" => \/ phys = 0
                \/ /\ phys \in owned
                   /\ role[phys] = [job |-> job, seg |-> seg]
                   /\ \A page \in Pages : Translate(page) = phys => page = phys

MemInv == /\ PmmInv /\ MemTypeOK /\ LoopOK /\ DirectoryOK /\ RolesOK /\ FramesOK
          /\ PhysOK

-----------------------------------------------------------------------------
(* The pages the loops map *)

LEMMA SegmentType ==
  ASSUME NEW program \in Programs, NEW i \in DOMAIN program
  PROVE  /\ program[i].vaddr \in Nat /\ program[i].mem_size \in Nat
         /\ PagesOf(program[i]) \in Nat
         /\ program[i].vaddr >= kernel_end_page * PAGE_SIZE
         /\ program[i].vaddr + PagesOf(program[i]) * PAGE_SIZE
              <= DIRS * ENTRIES * PAGE_SIZE
<1>1. program[i] \in [vaddr : Nat, mem_size : Nat]
  <2>. DEFINE S == [vaddr : Nat, mem_size : Nat]
  <2>1. program \in Seq(S)
    BY ProgramsAssumption
  <2>. HIDE DEF S
  <2>2. program[i] \in S
    BY <2>1
  <2>3. QED
    BY <2>2 DEF S
<1>2. PAGE_SIZE \in Nat \ {0} /\ program[i].mem_size + PAGE_SIZE - 1 \in Nat
  BY <1>1, MemoryAssumption
<1>3. PagesOf(program[i]) \in Nat
  BY <1>2, DivMod DEF PagesOf
<1>4. QED
  BY <1>1, <1>3, ProgramsAssumption

LEMMA CountType ==
  ASSUME MemTypeOK, LoopOK, pc \in {"alloc", "map"}
  PROVE  Count \in Nat
BY SegmentType, MemoryAssumption DEF MemTypeOK, LoopOK, Count

(* where a segment's k-th page is *)
LEMMA SegmentPage ==
  ASSUME NEW program \in Programs, NEW i \in DOMAIN program, NEW k \in Nat,
         k < PagesOf(program[i])
  PROVE  /\ (program[i].vaddr + k * PAGE_SIZE) \div PAGE_SIZE
              = (program[i].vaddr \div PAGE_SIZE) + k
         /\ (program[i].vaddr \div PAGE_SIZE) + k \in Pages
         /\ (program[i].vaddr \div PAGE_SIZE) + k >= kernel_end_page
<1>. DEFINE v == program[i].vaddr
            n == PagesOf(program[i])
            size == PAGE_SIZE
            all == DIRS * ENTRIES
<1>1. /\ v \in Nat /\ n \in Nat /\ size \in Nat \ {0} /\ all \in Nat
      /\ v >= kernel_end_page * size /\ v + n * size <= all * size
      /\ kernel_end_page \in Nat
  BY SegmentType, MemoryAssumption, PmmAssumption
<1>. HIDE DEF v, n, size, all
<1>2. k + 1 <= n
  BY <1>1 DEF n
<1>3. (k + 1) * size <= n * size /\ (k + 1) * size = k * size + size
      /\ k * size \in Nat /\ n * size \in Nat
  BY <1>1, <1>2, TimesMonotone
<1>4. v + k * size \in Nat /\ v + k * size < all * size
      /\ kernel_end_page * size <= v + k * size
  BY <1>1, <1>3
<1>5. (v + k * size) \div size = (v \div size) + k
  BY Zenon, <1>1, DivPlus
<1>6. (v + k * size) \div size < all /\ kernel_end_page <= (v + k * size) \div size
  BY <1>1, <1>4, DivBelow, DivAtLeast
<1>7. v \div size \in Nat
  BY Zenon, <1>1, DivMod
<1>8. QED
  BY <1>1, <1>5, <1>6, <1>7 DEF Pages, v, size, all

(* the page a loop maps next is one of the address space, and none of the  *)
(* kernel's                                                                *)
LEMMA TargetIsPage ==
  ASSUME MemTypeOK, LoopOK, pc \in {"alloc", "map"}, p < Count
  PROVE  Target \in Pages /\ Target >= kernel_end_page
<1>1. CASE job = "stack"
  <2>1. STACK_PAGE \in Pages
    BY IdentityInPages, MemoryAssumption
  <2>2. QED
    BY <1>1, <2>1, MemoryAssumption DEF Target
<1>2. CASE job = "heap"
  <2>1. p \in Nat /\ p < HEAP_PAGES
    BY <1>2 DEF MemTypeOK, Count
  <2>2. HEAP_PAGE \in Pages \ Identity /\ HEAP_PAGE + HEAP_PAGES - 1 \in Pages
        /\ 2 * ENTRIES \in Nat /\ DIRS * ENTRIES \in Nat /\ HEAP_PAGES \in Nat
        /\ kernel_end_page <= 2 * ENTRIES /\ kernel_end_page \in Nat
    BY MemoryAssumption, PmmAssumption
  <2>3. HEAP_PAGE + p \in Pages /\ HEAP_PAGE + p >= kernel_end_page
    BY <2>1, <2>2 DEF Pages, Identity
  <2>4. QED
    BY <1>2, <2>3 DEF Target
<1>3. CASE job = "load"
  <2>1. prog \in Programs /\ seg \in DOMAIN prog /\ p \in Nat /\ p < PagesOf(prog[seg])
    BY <1>3 DEF LoopOK, MemTypeOK, Count
  <2>2. QED
    BY <1>3, <2>1, SegmentPage DEF Target
<1>4. QED
  BY <1>1, <1>2, <1>3 DEF MemTypeOK

-----------------------------------------------------------------------------
(* What the steps do to the mapping *)

(* two pages have the same entry only if they are the same *)
LEMMA EntryOfPage ==
  ASSUME NEW a \in Pages, NEW b \in Pages,
         DirOf(a) = DirOf(b), a % ENTRIES = b % ENTRIES
  PROVE  a = b
BY PageParts

(* vmm_map changes one page *)
LEMMA MapFrameEffect ==
  ASSUME MemInv, MapFrame, Reachable(TableOf(Target))
  PROVE  \A page \in Pages : Translate(page)' = IF page = Target THEN phys ELSE Translate(page)
<1>. DEFINE T == Target
            t == TableOf(Target)
            e == Target % ENTRIES
<1>1. pc = "map" /\ t # Absent /\ UNCHANGED page_directory
      /\ tables' = [tables EXCEPT ![t][e] = phys]
  BY DEF MapFrame
<1>2. T \in Pages
  BY <1>1, TargetIsPage DEF MemInv, LoopOK
<1>3. DirOf(T) \in 0 .. DIRS - 1 /\ e \in 0 .. ENTRIES - 1
  BY <1>2, PageParts
<1>4. t = page_directory[DirOf(T)] /\ t \in DOMAIN tables
  BY <1>1, <1>3 DEF MemInv, DirectoryOK, TableOf
<1>5. tables[t] \in [0 .. ENTRIES - 1 -> Nat \cup {Absent}]
  BY <1>4 DEF MemInv, MemTypeOK
<1>6. tables' = [tables EXCEPT ![t] = [tables[t] EXCEPT ![e] = phys]]
  BY <1>1
<1>. HIDE DEF T, t, e
<1>7. /\ tables'[t][e] = phys
      /\ \A x \in 0 .. ENTRIES - 1 : x # e => tables'[t][x] = tables[t][x]
      /\ \A s \in DOMAIN tables : s # t => tables'[s] = tables[s]
  BY <1>3, <1>4, <1>5, <1>6 DEF MemInv, MemTypeOK
<1>8. ASSUME NEW page \in Pages
      PROVE  Translate(page)' = IF page = T THEN phys ELSE Translate(page)
  <2>. DEFINE d == DirOf(page)
              x == page % ENTRIES
              s == page_directory[d]
  <2>1. d \in 0 .. DIRS - 1 /\ x \in 0 .. ENTRIES - 1
    BY PageParts
  <2>2. Translate(page) = IF s = Absent THEN Absent ELSE tables[s][x]
    BY DEF Translate, TableOf
  <2>3. Translate(page)' = IF s = Absent THEN Absent ELSE tables'[s][x]
    BY <1>1 DEF Translate, TableOf
  <2>4. CASE page = T
    BY <1>1, <1>4, <1>7, <2>3, <2>4 DEF e, t, T
  <2>5. CASE page # T
    <3>1. CASE s = Absent
      BY <2>2, <2>3, <2>5, <3>1
    <3>2. CASE s # Absent /\ s # t
      <4>1. s \in DOMAIN tables
        BY <1>1, <2>1, <3>2 DEF MemInv, DirectoryOK
      <4>2. QED
        BY <1>7, <2>2, <2>3, <2>5, <3>2, <4>1
    <3>3. CASE s # Absent /\ s = t
      <4>1. d = DirOf(T)
        BY <1>1, <1>3, <1>4, <2>1, <3>3 DEF MemInv, DirectoryOK
      <4>2. x # e
        BY <1>2, <2>5, <4>1, EntryOfPage DEF e, T
      <4>3. QED
        BY <1>7, <2>1, <2>2, <2>3, <2>5, <3>3, <4>2
    <3>4. QED
      BY <3>1, <3>2, <3>3
  <2>6. QED
    BY <2>4, <2>5
<1>9. QED
  BY <1>8 DEF T

(* a new table has no entries, so it changes no page *)
LEMMA NewTableEffect ==
  ASSUME MemInv, NewTable
  PROVE  /\ \A page \in Pages : Translate(page)' = Translate(page)
         /\ DirectoryOK' /\ MemTypeOK'
<1>. DEFINE f == FirstFree
            D == DirOf(Target)
<1>1. /\ pc = "map" /\ page_directory[D] = Absent /\ pmm_alloc
      /\ role' = [role EXCEPT ![f] = [job |-> "table", seg |-> 0]]
      /\ UNCHANGED <<job, prog, seg, p, phys, heap_ready>>
  BY DEF NewTable, TableOf
<1>2. /\ f \in FreeFrames /\ f \in Frames /\ f \notin owned /\ f >= kernel_end_page
      /\ f \in Nat /\ f \notin page_tables /\ owned' = owned \cup {f} /\ f # Absent
  <2>1. f \in FreeFrames
    BY <1>1, FirstFreeIsFree DEF MemInv, PmmInv, pmm_alloc
  <2>2. f \in Frames /\ f \notin bitmap /\ f >= kernel_end_page
    BY <2>1 DEF FreeFrames, MemInv, PmmInv
  <2>3. f \in Nat /\ f \notin page_tables /\ f # Absent
    BY <2>2, MemoryAssumption, PmmAssumption DEF Frames, page_tables, Absent
  <2>4. QED
    BY <1>1, <2>1, <2>2, <2>3 DEF MemInv, PmmInv, OwnedAreUsed, pmm_alloc
<1>3. D \in 0 .. DIRS - 1
  BY <1>1, TargetIsPage, PageParts DEF MemInv, LoopOK
<1>4. DOMAIN tables \subseteq page_tables \cup owned /\ f \notin DOMAIN tables
  BY <1>1, <1>2 DEF MemInv, DirectoryOK
<1>5. /\ role' \in [Frames -> [job : {"none", "stack", "heap", "load", "table"}, seg : Nat]]
      /\ role'[f].job = "table" /\ \A g \in Frames \ {f} : role'[g] = role[g]
  BY <1>1, <1>2 DEF MemInv, MemTypeOK
<1>6. owned \subseteq Frames
  BY DEF MemInv, PmmInv, PmmTypeOK
<1>. HIDE DEF f, D
<1>7. CASE UNCHANGED <<page_directory, tables>> /\ pc' = "wild"
  <2>1. \A page \in Pages : Translate(page)' = Translate(page)
    BY <1>7 DEF Translate, TableOf
  <2>2. MemTypeOK'
    BY <1>1, <1>5, <1>7 DEF MemInv, MemTypeOK
  <2>3. DirectoryOK'
    BY <1>1, <1>2, <1>5, <1>6, <1>7 DEF MemInv, DirectoryOK
  <2>4. QED
    BY <2>1, <2>2, <2>3
<1>8. CASE /\ page_directory' = [page_directory EXCEPT ![D] = f]
           /\ tables' = [t \in DOMAIN tables \cup {f} |->
                           IF t = f THEN [k \in 0 .. ENTRIES - 1 |-> Absent]
                           ELSE tables[t]]
           /\ pc' = pc
  <2>1. /\ page_directory'[D] = f
        /\ \A d \in 0 .. DIRS - 1 : d # D => page_directory'[d] = page_directory[d]
        /\ page_directory' \in [0 .. DIRS - 1 -> Nat \cup {Absent}]
    BY <1>2, <1>3, <1>8 DEF MemInv, MemTypeOK
  <2>2. /\ DOMAIN tables' = DOMAIN tables \cup {f}
        /\ tables'[f] = [k \in 0 .. ENTRIES - 1 |-> Absent]
        /\ \A t \in DOMAIN tables : tables'[t] = tables[t]
    BY <1>4, <1>8
  <2>3. \A t \in DOMAIN tables' : tables'[t] \in [0 .. ENTRIES - 1 -> Nat \cup {Absent}]
    <3>1. \A t \in DOMAIN tables : tables[t] \in [0 .. ENTRIES - 1 -> Nat \cup {Absent}]
      BY DEF MemInv, MemTypeOK
    <3>2. QED
      BY <2>2, <3>1
  <2>4. MemTypeOK'
    <3>1. tables' \in [DOMAIN tables' -> [0 .. ENTRIES - 1 -> Nat \cup {Absent}]]
      BY Zenon, <1>8, <2>3
    <3>2. QED
      BY <1>1, <1>5, <1>8, <2>1, <3>1 DEF MemInv, MemTypeOK
  <2>5. DirectoryOK'
    <3>0. pc \notin {"off", "vmm_init"} /\ pc' \notin {"off", "vmm_init"}
      BY <1>1, <1>8
    <3>1. \A d \in page_tables : page_directory[d] = d
      BY <3>0 DEF MemInv, DirectoryOK
    <3>2. \A d \in page_tables : page_directory'[d] = d
      <4>1. D \notin page_tables
        BY <1>1, <3>1 DEF page_tables, Absent
      <4>2. page_tables \subseteq 0 .. DIRS - 1
        BY MemoryAssumption DEF page_tables
      <4>3. QED
        BY <2>1, <3>1, <4>1, <4>2
    <3>3. \A d \in (0 .. DIRS - 1) \ page_tables : page_directory'[d] # Absent =>
            page_directory'[d] \in owned' /\ role'[page_directory'[d]].job = "table"
      BY <1>2, <1>5, <1>6, <2>1, <3>0 DEF MemInv, DirectoryOK
    <3>4. \A d \in 0 .. DIRS - 1 : d # D /\ page_directory[d] # Absent => page_directory[d] # f
      BY <1>4, <3>0 DEF MemInv, DirectoryOK
    <3>5. \A d, e \in 0 .. DIRS - 1 :
            d # e /\ page_directory'[d] # Absent => page_directory'[d] # page_directory'[e]
      BY <1>2, <2>1, <3>0, <3>4 DEF MemInv, DirectoryOK
    <3>6. \A d \in 0 .. DIRS - 1 :
            page_directory'[d] # Absent => page_directory'[d] \in DOMAIN tables'
      BY <2>1, <2>2, <3>0 DEF MemInv, DirectoryOK
    <3>7. DOMAIN tables' \subseteq page_tables \cup owned'
      BY <1>2, <1>4, <2>2
    <3>8. QED
      BY <3>0, <3>2, <3>3, <3>5, <3>6, <3>7 DEF DirectoryOK
  <2>6. ASSUME NEW page \in Pages PROVE Translate(page)' = Translate(page)
    <3>. DEFINE d == DirOf(page)
                x == page % ENTRIES
    <3>1. d \in 0 .. DIRS - 1 /\ x \in 0 .. ENTRIES - 1
      BY PageParts
    <3>2. CASE d = D
      BY <1>1, <1>2, <2>1, <2>2, <3>1, <3>2 DEF Translate, TableOf
    <3>3. CASE d # D
      <4>1. page_directory[d] # Absent => page_directory[d] \in DOMAIN tables
        BY <1>1, <3>1 DEF MemInv, DirectoryOK
      <4>2. page_directory'[d] = page_directory[d]
        BY <2>1, <3>1, <3>3
      <4>3. QED
        BY <2>2, <4>1, <4>2 DEF Translate, TableOf
    <3>4. QED
      BY <3>2, <3>3
  <2>7. QED
    BY <2>4, <2>5, <2>6
<1>9. QED
  BY <1>7, <1>8 DEF NewTable, f, D

-----------------------------------------------------------------------------
(* The invariant is kept *)

LEMMA MemPmm == MemInv /\ [Next]_vars => PmmInv'
BY StepIsPmmStep, PmmNextInv DEF MemInv

LEMMA MemInitInv == Init => MemInv
<1>. SUFFICES ASSUME Init PROVE MemInv
  OBVIOUS
<1>1. PmmInv
  BY PmmOffInv DEF Init
<1>2. MemTypeOK
  <2>1. page_directory \in [0 .. DIRS - 1 -> Nat \cup {Absent}]
    BY DEF Init
  <2>2. tables \in [DOMAIN tables -> [0 .. ENTRIES - 1 -> Nat \cup {Absent}]]
    BY DEF Init
  <2>3. role \in [Frames -> [job : {"none", "stack", "heap", "load", "table"}, seg : Nat]]
    BY DEF Init
  <2>4. QED
    BY <2>1, <2>2, <2>3 DEF Init, MemTypeOK
<1>3. \A page \in Pages : Translate(page) = Absent
  BY PageParts DEF Init, Translate, TableOf
<1>4. LoopOK /\ DirectoryOK /\ PhysOK
  BY DEF Init, LoopOK, DirectoryOK, PhysOK
<1>5. RolesOK /\ FramesOK
  BY <1>3 DEF Init, RolesOK, FramesOK
<1>6. QED
  BY <1>1, <1>2, <1>4, <1>5 DEF MemInv

(* a step that touches no table and no frame *)
LEMMA SameMapping ==
  ASSUME MemInv, UNCHANGED <<page_directory, tables, owned, role>>,
         pc \in {"off", "vmm_init"} <=> pc' \in {"off", "vmm_init"}
  PROVE  /\ \A page \in Pages : Translate(page)' = Translate(page)
         /\ DirectoryOK' /\ RolesOK' /\ FramesOK'
<1>1. \A page \in Pages : Translate(page)' = Translate(page)
  BY DEF Translate, TableOf
<1>2. DirectoryOK' /\ RolesOK'
  BY DEF MemInv, DirectoryOK, RolesOK
<1>3. FramesOK'
  BY <1>1 DEF MemInv, FramesOK
<1>4. QED
  BY <1>1, <1>2, <1>3

LEMMA MemBoot == MemInv /\ Boot => MemInv'
<1>. SUFFICES ASSUME MemInv, Boot PROVE MemInv'
  OBVIOUS
<1>1. PmmInv' /\ total_pages = 0 /\ owned' = {}
  BY PmmInitInv DEF MemInv, Boot, PmmInit, pmm_init
<1>2. owned = {}
  BY <1>1, PmmAssumption DEF MemInv, PmmInv, OwnedAreUsed
<1>3. DirectoryOK' /\ RolesOK' /\ FramesOK'
  BY <1>1, <1>2, SameMapping DEF Boot
<1>4. MemTypeOK' /\ LoopOK' /\ PhysOK'
  BY DEF MemInv, Boot, MemTypeOK, LoopOK, PhysOK
<1>5. QED
  BY <1>1, <1>3, <1>4 DEF MemInv

(* vmm_init maps the low pages to themselves and nothing else *)
LEMMA VmmInitEffect ==
  ASSUME VmmInit
  PROVE  \A page \in Pages : Translate(page)' = IF page \in Identity THEN page ELSE Absent
<1>1. page_tables \subseteq 0 .. DIRS - 1
  BY MemoryAssumption DEF page_tables
<1>2. \A d \in 0 .. DIRS - 1 :
         page_directory'[d] = IF d \in page_tables THEN d ELSE Absent
  BY DEF VmmInit
<1>3. \A t \in page_tables : tables'[t] = [k \in 0 .. ENTRIES - 1 |-> t * ENTRIES + k]
  BY DEF VmmInit
<1>4. ASSUME NEW page \in Pages
      PROVE  Translate(page)' = IF page \in Identity THEN page ELSE Absent
  <2>. DEFINE d == DirOf(page)
              x == page % ENTRIES
  <2>1. d \in 0 .. DIRS - 1 /\ x \in 0 .. ENTRIES - 1
    BY PageParts
  <2>5. d \in page_tables => page = d * ENTRIES + x
    BY PageParts, MemoryAssumption DEF page_tables
  <2>2. page \in Identity <=> d \in page_tables
    BY IdentityPages
  <2>3. Translate(page)' = IF page_directory'[d] = Absent THEN Absent
                           ELSE tables'[page_directory'[d]][x]
    BY DEF Translate, TableOf
  <2>4. d \in page_tables => d # Absent
    BY DEF page_tables, Absent
  <2>. HIDE DEF d, x
  <2>6. CASE d \in page_tables
    <3>1. page_directory'[d] = d /\ tables'[d][x] = d * ENTRIES + x
      BY Zenon, <1>2, <1>3, <2>1, <2>6
    <3>2. QED
      BY <2>2, <2>3, <2>4, <2>5, <2>6, <3>1
  <2>7. CASE d \notin page_tables
    BY <1>2, <2>1, <2>2, <2>3, <2>7
  <2>8. QED
    BY <2>6, <2>7
<1>5. QED
  BY <1>4

LEMMA MemVmmInit == MemInv /\ VmmInit => MemInv'
<1>. SUFFICES ASSUME MemInv, VmmInit PROVE MemInv'
  OBVIOUS
<1>1. PmmInv'
  BY MemPmm DEF Next
<1>2. /\ ENTRIES \in Nat /\ page_tables \subseteq 0 .. DIRS - 1
      /\ page_tables \subseteq Nat
  BY MemoryAssumption DEF page_tables
<1>3. /\ page_directory' \in [0 .. DIRS - 1 -> Nat \cup {Absent}]
      /\ \A d \in 0 .. DIRS - 1 :
           page_directory'[d] = IF d \in page_tables THEN d ELSE Absent
  BY <1>2 DEF VmmInit
<1>4. /\ DOMAIN tables' = page_tables
      /\ \A t \in page_tables : tables'[t] = [k \in 0 .. ENTRIES - 1 |-> t * ENTRIES + k]
  BY DEF VmmInit
<1>5. \A t \in page_tables : tables'[t] \in [0 .. ENTRIES - 1 -> Nat \cup {Absent}]
  BY <1>2, <1>4 DEF page_tables
<1>6. MemTypeOK'
  <2>1. tables' \in [DOMAIN tables' -> [0 .. ENTRIES - 1 -> Nat \cup {Absent}]]
    BY <1>4, <1>5 DEF VmmInit
  <2>2. QED
    BY <1>3, <2>1 DEF VmmInit, MemInv, MemTypeOK
<1>7. \A page \in Pages : Translate(page)' = IF page \in Identity THEN page ELSE Absent
  BY VmmInitEffect
<1>8. DirectoryOK'
  <2>1. \A d \in page_tables : d # Absent
    BY DEF page_tables, Absent
  <2>2. pc' = "alloc"
    BY DEF VmmInit
  <2>3. QED
    BY <1>2, <1>3, <1>4, <2>1, <2>2 DEF DirectoryOK
<1>9. FramesOK'
  BY <1>7 DEF FramesOK
<1>10. LoopOK' /\ PhysOK' /\ RolesOK'
  BY DEF MemInv, VmmInit, LoopOK, PhysOK, RolesOK, Count
<1>11. QED
  BY <1>1, <1>6, <1>8, <1>9, <1>10 DEF MemInv

LEMMA MemAllocFrame == MemInv /\ AllocFrame => MemInv'
<1>. SUFFICES ASSUME MemInv, AllocFrame PROVE MemInv'
  OBVIOUS
<1>. DEFINE f == FirstFree
<1>1. PmmInv'
  BY MemPmm DEF Next
<1>2. /\ f \in Frames /\ f \notin owned /\ owned' = owned \cup {f} /\ f \in Nat /\ f # 0
      /\ f # Absent
  <2>1. f \in FreeFrames
    BY FirstFreeIsFree DEF MemInv, PmmInv, pmm_alloc, AllocFrame
  <2>2. f \in Frames /\ f \notin bitmap /\ f >= kernel_end_page
    BY <2>1 DEF FreeFrames, MemInv, PmmInv
  <2>3. f \in Nat /\ f # 0 /\ f # Absent
    BY <2>2, PmmAssumption DEF Frames, Absent
  <2>4. QED
    BY <2>2, <2>3 DEF MemInv, PmmInv, OwnedAreUsed, pmm_alloc, AllocFrame
<1>3. /\ pc = "alloc" /\ pc' = "map" /\ p < Count /\ phys' = f
      /\ role' = [role EXCEPT ![f] = [job |-> job, seg |-> seg]]
      /\ UNCHANGED <<page_directory, tables, job, prog, seg, p, heap_ready>>
  BY DEF AllocFrame
<1>4. [job |-> job, seg |-> seg] \in
        [job : {"none", "stack", "heap", "load", "table"}, seg : Nat]
  BY DEF MemInv, MemTypeOK
<1>5. owned \subseteq Frames
  BY DEF MemInv, PmmInv, PmmTypeOK
<1>. HIDE DEF f
<1>6. /\ role' \in [Frames -> [job : {"none", "stack", "heap", "load", "table"}, seg : Nat]]
      /\ role'[f] = [job |-> job, seg |-> seg]
      /\ \A g \in Frames \ {f} : role'[g] = role[g]
  BY <1>2, <1>3, <1>4 DEF MemInv, MemTypeOK
<1>7. \A page \in Pages : Translate(page)' = Translate(page)
  BY <1>3 DEF Translate, TableOf
<1>8. MemTypeOK'
  BY <1>2, <1>3, <1>6 DEF MemInv, MemTypeOK
<1>9. LoopOK'
  BY Zenon, <1>3 DEF MemInv, LoopOK, Count
<1>10. DirectoryOK'
  BY <1>2, <1>3, <1>5, <1>6 DEF MemInv, DirectoryOK
<1>11. RolesOK'
  BY <1>2, <1>6 DEF MemInv, RolesOK
<1>12. FramesOK'
  <2>1. \A g \in owned : g \in owned' /\ role'[g] = role[g]
    BY <1>2, <1>5, <1>6
  <2>2. QED
    BY <1>7, <2>1 DEF MemInv, FramesOK
<1>13. PhysOK'
  BY <1>2, <1>3, <1>6, <1>7 DEF MemInv, FramesOK, PhysOK
<1>14. QED
  BY <1>1, <1>8, <1>9, <1>10, <1>11, <1>12, <1>13 DEF MemInv

LEMMA MemNewTable == MemInv /\ NewTable => MemInv'
<1>. SUFFICES ASSUME MemInv, NewTable PROVE MemInv'
  OBVIOUS
<1>. DEFINE f == FirstFree
<1>1. PmmInv'
  BY MemPmm DEF Next
<1>2. MemTypeOK' /\ DirectoryOK' /\ \A page \in Pages : Translate(page)' = Translate(page)
  BY NewTableEffect
<1>3. /\ pc = "map" /\ pc' \in {"map", "wild"} /\ pmm_alloc
      /\ role' = [role EXCEPT ![f] = [job |-> "table", seg |-> 0]]
      /\ UNCHANGED <<job, prog, seg, p, phys, heap_ready>>
  BY DEF NewTable
<1>4. f \in Frames /\ f \notin owned /\ owned' = owned \cup {f} /\ owned \subseteq Frames
  <2>1. f \in FreeFrames
    BY <1>3, FirstFreeIsFree DEF MemInv, PmmInv, pmm_alloc
  <2>2. QED
    BY <1>3, <2>1 DEF FreeFrames, MemInv, PmmInv, PmmTypeOK, OwnedAreUsed, pmm_alloc
<1>. HIDE DEF f
<1>5. \A g \in Frames \ {f} : role'[g] = role[g]
  BY <1>3, <1>4 DEF MemInv, MemTypeOK
<1>6. LoopOK'
  BY Zenon, <1>3 DEF MemInv, LoopOK, Count
<1>7. RolesOK'
  BY <1>4, <1>5 DEF MemInv, RolesOK
<1>8. FramesOK'
  BY <1>2, <1>4, <1>5 DEF MemInv, FramesOK
<1>9. PhysOK'
  <2>1. phys = 0 \/ (phys \in Frames /\ phys # f)
    BY <1>3, <1>4 DEF MemInv, PhysOK
  <2>2. QED
    BY <1>2, <1>3, <1>4, <1>5, <2>1 DEF MemInv, PhysOK
<1>10. QED
  BY <1>1, <1>2, <1>6, <1>7, <1>8, <1>9 DEF MemInv

LEMMA MemMapFrame == MemInv /\ MapFrame => MemInv'
<1>. SUFFICES ASSUME MemInv, MapFrame PROVE MemInv'
  OBVIOUS
<1>1. PmmInv'
  BY MemPmm DEF Next
<1>2. /\ pc = "map" /\ UNCHANGED <<page_directory, job, prog, seg, phys, heap_ready, role, owned>>
  BY DEF MapFrame
<1>3. CASE ~Reachable(TableOf(Target))
  <2>1. pc' = "wild" /\ UNCHANGED <<tables, p>>
    BY <1>3 DEF MapFrame
  <2>2. DirectoryOK' /\ RolesOK' /\ FramesOK'
    BY <1>2, <2>1, SameMapping
  <2>3. MemTypeOK' /\ LoopOK' /\ PhysOK'
    BY <1>2, <2>1 DEF MemInv, MemTypeOK, LoopOK, PhysOK
  <2>4. QED
    BY <1>1, <2>2, <2>3 DEF MemInv
<1>4. CASE Reachable(TableOf(Target))
  <2>. DEFINE t == TableOf(Target)
              e == Target % ENTRIES
  <2>1. /\ pc' = "alloc" /\ p' = p + 1 /\ t # Absent
        /\ tables' = [tables EXCEPT ![t][e] = phys]
    BY <1>4 DEF MapFrame
  <2>2. Target \in Pages /\ e \in 0 .. ENTRIES - 1
    BY <1>2, TargetIsPage, PageParts DEF MemInv, LoopOK
  <2>3. \A page \in Pages : Translate(page)' = IF page = Target THEN phys ELSE Translate(page)
    BY <1>4, MapFrameEffect
  <2>. HIDE DEF t, e
  <2>4. DOMAIN tables' = DOMAIN tables
    BY <2>1
  <2>5. tables' \in [DOMAIN tables' -> [0 .. ENTRIES - 1 -> Nat \cup {Absent}]]
    <3>. DEFINE Row == [0 .. ENTRIES - 1 -> Nat \cup {Absent}]
    <3>1. tables \in [DOMAIN tables -> Row] /\ phys \in Nat \cup {Absent}
      BY DEF MemInv, MemTypeOK
    <3>2. \A s \in DOMAIN tables : [tables[s] EXCEPT ![e] = phys] \in Row
      BY <2>2, <3>1
    <3>3. tables' = [tables EXCEPT ![t] = [tables[t] EXCEPT ![e] = phys]]
      BY <2>1
    <3>. HIDE DEF Row
    <3>4. tables' \in [DOMAIN tables -> Row]
      BY Zenon, <3>1, <3>2, <3>3
    <3>5. QED
      BY <2>4, <3>4 DEF Row
  <2>6. MemTypeOK'
    BY <1>2, <2>1, <2>5 DEF MemInv, MemTypeOK
  <2>7. LoopOK'
    <3>1. Count \in Nat /\ p \in Nat /\ p < Count
      BY <1>2, CountType DEF MemInv, MemTypeOK, LoopOK
    <3>2. Count' = Count
      BY <1>2 DEF Count
    <3>3. p' <= Count'
      BY <2>1, <3>1, <3>2
    <3>4. QED
      BY <1>2, <2>1, <3>3 DEF MemInv, LoopOK
  <2>8. DirectoryOK'
    BY <1>2, <2>1, <2>4 DEF MemInv, DirectoryOK
  <2>9. RolesOK' /\ PhysOK'
    BY <1>2, <2>1 DEF MemInv, RolesOK, PhysOK
  <2>10. FramesOK'
    <3>1. \/ phys = 0
          \/ /\ phys \in owned /\ role[phys].job \in {"stack", "heap", "load"}
             /\ \A page \in Pages : Translate(page) = phys => page = phys
      BY <1>2 DEF MemInv, MemTypeOK, PhysOK
    <3>2. QED
      BY <1>2, <2>2, <2>3, <3>1 DEF MemInv, FramesOK
  <2>11. QED
    BY <1>1, <2>6, <2>7, <2>8, <2>9, <2>10 DEF MemInv
<1>5. QED
  BY <1>3, <1>4

LEMMA MemAllocFrameFails == MemInv /\ AllocFrameFails => MemInv'
<1>. SUFFICES ASSUME MemInv, AllocFrameFails PROVE MemInv'
  OBVIOUS
<1>1. PmmInv'
  BY MemPmm DEF Next
<1>2. /\ pc = "alloc" /\ p < Count
      /\ UNCHANGED <<owned, page_directory, tables, job, role>>
      /\ pc' \in {"map", "fault", "shell"}
  BY DEF AllocFrameFails, HeapInitReturns
<1>3. DirectoryOK' /\ RolesOK' /\ FramesOK'
  BY <1>2, SameMapping
<1>4. MemTypeOK'
  <2>1. seg' \in Nat /\ p' \in Nat /\ phys' \in Nat
    BY DEF AllocFrameFails, HeapInitReturns, MemInv, MemTypeOK
  <2>2. QED
    BY <1>2, <2>1 DEF MemInv, MemTypeOK
<1>5. LoopOK' /\ PhysOK'
  <2>1. CASE job = "stack"
    <3>1. pc' = "map" /\ phys' = 0 /\ UNCHANGED <<prog, seg, p>>
      BY <2>1 DEF AllocFrameFails
    <3>2. Count' = Count
      BY <1>2, <2>1, <3>1 DEF Count
    <3>3. QED
      BY <1>2, <2>1, <3>1, <3>2 DEF LoopOK, PhysOK
  <2>2. CASE job # "stack"
    <3>1. pc' \in {"fault", "shell"}
      BY <2>2 DEF AllocFrameFails, HeapInitReturns
    <3>2. QED
      BY <3>1 DEF LoopOK, PhysOK
  <2>3. QED
    BY <2>1, <2>2
<1>6. QED
  BY <1>1, <1>3, <1>4, <1>5 DEF MemInv

LEMMA MemNewTableFails == MemInv /\ NewTableFails => MemInv'
<1>. SUFFICES ASSUME MemInv, NewTableFails PROVE MemInv'
  OBVIOUS
<1>1. PmmInv'
  BY MemPmm DEF Next
<1>2. /\ pc = "map" /\ pc' = "alloc" /\ p' = p + 1
      /\ UNCHANGED <<owned, page_directory, tables, job, prog, seg, phys, role>>
  BY DEF NewTableFails
<1>3. DirectoryOK' /\ RolesOK' /\ FramesOK'
  BY <1>2, SameMapping
<1>4. MemTypeOK' /\ PhysOK'
  BY <1>2 DEF MemInv, MemTypeOK, PhysOK
<1>5. Count \in Nat /\ p \in Nat /\ p < Count
  BY <1>2, CountType DEF MemInv, MemTypeOK, LoopOK
<1>6. Count' = Count
  BY <1>2 DEF Count
<1>7. p' <= Count'
  BY <1>2, <1>5, <1>6
<1>8. LoopOK'
  BY <1>2, <1>7 DEF MemInv, LoopOK
<1>9. QED
  BY <1>1, <1>3, <1>4, <1>8 DEF MemInv

(* the ends of the loops and the start of one *)
LEMMA MemLoopEnds ==
  MemInv /\ (StackMapped \/ HeapMapped \/ SegmentLoaded
             \/ \E program \in Programs : ElfLoad(program)) => MemInv'
<1>. SUFFICES ASSUME MemInv, StackMapped \/ HeapMapped \/ SegmentLoaded
                             \/ \E program \in Programs : ElfLoad(program)
              PROVE  MemInv'
  OBVIOUS
<1>1. PmmInv'
  BY MemPmm DEF Next
<1>2. /\ UNCHANGED <<owned, page_directory, tables, phys, role>>
      /\ pc \in {"alloc", "shell"} /\ pc' \in {"alloc", "shell", "fault", "user"}
      /\ p' = 0 /\ job' \in {"heap", "load"} /\ (pc' = "user" => job' = "load")
  BY DEF StackMapped, HeapMapped, HeapInitReturns, SegmentLoaded, ElfLoad
<1>3. DirectoryOK' /\ RolesOK' /\ FramesOK' /\ PhysOK'
  BY <1>2, SameMapping DEF PhysOK
<1>4. pc' \in {"alloc", "user"} /\ job' = "load" => prog' \in Programs /\ seg' \in DOMAIN prog'
  <2>1. CASE SegmentLoaded
    <3>1. prog \in Programs /\ seg \in DOMAIN prog /\ prog' = prog
      BY <2>1 DEF SegmentLoaded, MemInv, LoopOK
    <3>2. DOMAIN prog = 1 .. Len(prog) /\ Len(prog) \in Nat
      BY <3>1, ProgramsAssumption
    <3>3. seg' = seg \/ (seg < Len(prog) /\ seg' = seg + 1)
      BY <2>1 DEF SegmentLoaded
    <3>4. QED
      BY <3>1, <3>2, <3>3
  <2>2. CASE \E program \in Programs : ElfLoad(program)
    <3>1. PICK program \in Programs : ElfLoad(program)
      BY <2>2
    <3>2. DOMAIN program = 1 .. Len(program) /\ Len(program) \in Nat /\ Len(program) > 0
      BY ProgramsAssumption
    <3>3. QED
      BY <3>1, <3>2 DEF ElfLoad
  <2>3. CASE StackMapped \/ HeapMapped
    BY <2>3 DEF StackMapped, HeapMapped, HeapInitReturns
  <2>4. QED
    BY <2>1, <2>2, <2>3
<1>5. seg' \in Nat
  <2>1. CASE job' = "load"
    <3>1. pc' \in {"alloc", "user"} => DOMAIN prog' = 1 .. Len(prog') /\ Len(prog') \in Nat
      BY <1>4, <2>1, ProgramsAssumption
    <3>2. QED
      BY <1>4, <2>1, <3>1 DEF StackMapped, HeapMapped, SegmentLoaded, ElfLoad, MemInv, MemTypeOK
  <2>2. CASE job' # "load"
    BY <1>2, <2>2 DEF StackMapped, HeapMapped, SegmentLoaded, ElfLoad, MemInv, MemTypeOK
  <2>3. QED
    BY <2>1, <2>2
<1>6. MemTypeOK'
  BY <1>2, <1>5 DEF MemInv, MemTypeOK
<1>7. LoopOK'
  <2>1. pc' = "alloc" => Count' \in Nat
    <3>1. CASE job' = "heap"
      BY <3>1, MemoryAssumption DEF Count
    <3>2. CASE job' = "load"
      BY <1>4, <3>2, SegmentType DEF Count
    <3>3. QED
      BY <1>2, <3>1, <3>2
  <2>2. QED
    BY <1>2, <1>4, <2>1 DEF LoopOK
<1>8. QED
  BY <1>1, <1>3, <1>6, <1>7 DEF MemInv

LEMMA MemNextInv == MemInv /\ [Next]_vars => MemInv'
<1>. SUFFICES ASSUME MemInv, [Next]_vars PROVE MemInv'
  OBVIOUS
<1>1. CASE Boot \/ VmmInit \/ AllocFrame \/ AllocFrameFails \/ NewTable \/ NewTableFails
           \/ MapFrame
  BY <1>1, MemBoot, MemVmmInit, MemAllocFrame, MemAllocFrameFails, MemNewTable,
     MemNewTableFails, MemMapFrame
<1>2. CASE StackMapped \/ HeapMapped \/ SegmentLoaded
           \/ \E program \in Programs : ElfLoad(program)
  BY <1>2, MemLoopEnds
<1>3. CASE UNCHANGED vars
  <2>1. PmmInv'
    BY MemPmm
  <2>2. DirectoryOK' /\ RolesOK' /\ FramesOK'
    BY <1>3, SameMapping DEF vars
  <2>3. MemTypeOK'
    BY <1>3 DEF vars, MemInv, MemTypeOK
  <2>4. LoopOK'
    BY Zenon, <1>3 DEF vars, MemInv, LoopOK, Count
  <2>5. PhysOK'
    BY <1>3 DEF vars, MemInv, PhysOK, Translate, TableOf
  <2>6. QED
    BY <2>1, <2>2, <2>3, <2>4, <2>5 DEF MemInv
<1>4. QED
  BY <1>1, <1>2, <1>3 DEF Next

(* MemInv holds through boot, any number of loads and every failure. *)
THEOREM MemoryInvariant == Spec => []MemInv
BY MemInitInv, MemNextInv, PTL DEF Spec

(* What vmm_map puts under a page is private to it, whatever programs are  *)
(* loaded and whether or not memory runs out: no page table is mapped, no  *)
(* kernel frame, and no frame under two pages but by the identity mapping. *)
THEOREM MemoryFramesPrivate == Spec => []MappedFramesPrivate
<1>1. MemInv => MappedFramesPrivate
  <2>. SUFFICES ASSUME MemInv, NEW page \in Pages, Translate(page) \notin {Absent, page, 0}
                PROVE  /\ Translate(page) >= kernel_end_page
                       /\ \A d \in DOMAIN page_directory : page_directory[d] # Translate(page)
                       /\ \A other \in Pages \ {page} :
                            Translate(other) = Translate(page) => other = Translate(page)
    BY DEF MappedFramesPrivate
  <2>. DEFINE f == Translate(page)
  <2>1. f \in owned /\ role[f].job \in {"stack", "heap", "load"}
    BY DEF MemInv, FramesOK
  <2>2. \A other \in Pages \ {page} : Translate(other) = f => other = f
    BY DEF MemInv, FramesOK
  <2>. HIDE DEF f
  <2>3. f >= kernel_end_page /\ f \notin page_tables
    BY <2>1, PmmAssumption, MemoryAssumption
       DEF MemInv, PmmInv, PmmTypeOK, OwnedAreUsed, page_tables
  <2>4. ASSUME NEW d \in 0 .. DIRS - 1 PROVE page_directory[d] # f
    <3>1. f # Absent
      BY <2>3, PmmAssumption DEF Absent
    <3>2. QED
      BY <2>1, <2>3, <3>1 DEF MemInv, DirectoryOK, page_tables
  <2>5. DOMAIN page_directory = 0 .. DIRS - 1
    BY DEF MemInv, MemTypeOK
  <2>6. QED
    BY <2>2, <2>3, <2>4, <2>5 DEF f
<1>2. QED
  BY <1>1, MemoryInvariant, PTL

-----------------------------------------------------------------------------
(* What a program finds in its memory. *)

(* the pages elf_load maps for a segment *)
LoadPages(s) == {(s.vaddr \div PAGE_SIZE) + k : k \in 0 .. PagesOf(s) - 1}

(* Programs elf_load has enough pages for: it takes their number from the  *)
(* size alone, so a segment must not begin so late in its first page that  *)
(* it ends in one page more; and it maps a page that two segments share    *)
(* twice, so none may be.  A linker that aligns segments to pages gives    *)
(* both.                                                                   *)
WellLinked ==
  \A program \in Programs : \A i \in DOMAIN program :
    /\ Occupied(program[i]) \subseteq LoadPages(program[i])
    /\ \A j \in DOMAIN program \ {i} :
         LoadPages(program[i]) \cap LoadPages(program[j]) = {}

Backs(page, i) ==
  Translate(page) \in Frames /\ role[Translate(page)] = [job |-> "load", seg |-> i]

(* the segments before this one, and this one's k-th page *)
EarlierDone == \A i \in 1 .. seg - 1 : \A page \in Occupied(prog[i]) : Backs(page, i)

PageDone(k) ==
  LET page == (prog[seg].vaddr \div PAGE_SIZE) + k
  IN  Translate(page) = Absent \/ Backs(page, seg)

(* The segments before this one are in their frames, and so are this one's *)
(* pages so far, but for those whose page table could not be made.         *)
LoadInv ==
  job = "load" /\ pc \in {"alloc", "map", "user"} =>
    /\ EarlierDone
    /\ pc # "user" => \A k \in 0 .. p - 1 : PageDone(k)
    /\ pc = "map" => phys \in owned
    /\ pc = "user" => /\ seg = Len(prog)
                      /\ \A page \in Occupied(prog[seg]) : Backs(page, seg)

(* a segment that begins with a page has its bytes in the pages elf_load maps *)
LEMMA AlignedSegment ==
  ASSUME NEW s \in [vaddr : Nat, mem_size : Nat], s.vaddr % PAGE_SIZE = 0
  PROVE  Occupied(s) \subseteq LoadPages(s)
<1>. DEFINE v == s.vaddr
            m == s.mem_size
            size == PAGE_SIZE
            n == PagesOf(s)
            a == v \div size
<1>1. v \in Nat /\ m \in Nat /\ size \in Nat \ {0} /\ v % size = 0
      /\ n = (m + size - 1) \div size /\ m + size - 1 \in Nat
  BY MemoryAssumption DEF PagesOf
<1>2. SUFFICES ASSUME NEW k \in 0 .. m - 1
               PROVE  (v + k) \div size \in LoadPages(s)
  BY DEF Occupied
<1>. HIDE DEF v, m, size, n, a
<1>3. n \in Nat /\ m + size - 1 < size * n + size /\ size * n \in Nat
  <2>1. PICK w \in Nat : w = m + size - 1
    BY <1>1
  <2>2. w \div size \in Nat /\ w < size * (w \div size) + size
    <3>1. /\ w \div size \in Nat /\ w % size \in 0 .. size - 1
          /\ w = size * (w \div size) + (w % size)
      BY Zenon, <1>1, <2>1, DivMod
    <3>2. size * (w \div size) \in Nat
      BY <1>1, <3>1
    <3>3. QED
      BY <1>1, <3>1, <3>2
  <2>3. QED
    BY <1>1, <2>1, <2>2
<1>4. k \in Nat /\ k < n * size
  BY <1>1, <1>3
<1>5. k \div size \in Nat /\ k \div size < n
  BY Zenon, <1>1, <1>3, <1>4, DivMod, DivBelow
<1>6. a \in Nat /\ v = a * size
  <2>1. v \div size \in Nat /\ v = size * (v \div size) + (v % size)
    BY <1>1, DivMod
  <2>2. QED
    BY <1>1, <2>1 DEF a
<1>7. (k + a * size) \div size = (k \div size) + a
  BY Zenon, <1>1, <1>4, <1>6, DivPlus
<1>8. (v + k) \div size = a + (k \div size)
  <2>1. a * size \in Nat
    BY <1>1, <1>6
  <2>2. v + k = k + a * size
    BY <1>4, <1>6, <2>1
  <2>3. QED
    BY <1>5, <1>6, <1>7, <2>2
<1>9. QED
  BY <1>3, <1>5, <1>8 DEF LoadPages, a, v, n, size

LEMMA LoadPagesArePages ==
  ASSUME NEW program \in Programs, NEW i \in DOMAIN program,
         NEW page \in LoadPages(program[i])
  PROVE  /\ page \in Pages
         /\ \E k \in Nat : /\ k < PagesOf(program[i])
                           /\ page = (program[i].vaddr \div PAGE_SIZE) + k
<1>1. PagesOf(program[i]) \in Nat
  BY SegmentType
<1>2. PICK k \in 0 .. PagesOf(program[i]) - 1 : page = (program[i].vaddr \div PAGE_SIZE) + k
  BY DEF LoadPages
<1>3. k \in Nat /\ k < PagesOf(program[i])
  BY <1>1, <1>2
<1>4. QED
  BY <1>2, <1>3, SegmentPage

(* the page being mapped is this segment's p-th *)
LEMMA LoadTarget ==
  ASSUME MemInv, job = "load", pc \in {"alloc", "map"}, p < Count
  PROVE  /\ prog \in Programs /\ seg \in DOMAIN prog /\ Count = PagesOf(prog[seg])
         /\ DOMAIN prog = 1 .. Len(prog) /\ Len(prog) \in Nat
         /\ p \in Nat /\ Count \in Nat /\ prog[seg].vaddr \div PAGE_SIZE \in Nat
         /\ Target = (prog[seg].vaddr \div PAGE_SIZE) + p
         /\ Target \in LoadPages(prog[seg])
<1>1. prog \in Programs /\ seg \in DOMAIN prog /\ p \in Nat
  BY DEF MemInv, LoopOK, MemTypeOK
<1>2. DOMAIN prog = 1 .. Len(prog) /\ Len(prog) \in Nat
  BY <1>1, ProgramsAssumption
<1>3. Count = PagesOf(prog[seg])
  BY DEF Count
<1>4. /\ PagesOf(prog[seg]) \in Nat /\ prog[seg].vaddr \in Nat
  BY <1>1, SegmentType
<1>5. prog[seg].vaddr \div PAGE_SIZE \in Nat
  BY Zenon, <1>4, DivMod, MemoryAssumption
<1>6. Target = (prog[seg].vaddr + p * PAGE_SIZE) \div PAGE_SIZE
  BY DEF Target
<1>7. Target = (prog[seg].vaddr \div PAGE_SIZE) + p
  BY <1>1, <1>3, <1>6, SegmentPage
<1>8. p \in 0 .. PagesOf(prog[seg]) - 1
  BY <1>1, <1>3, <1>4
<1>9. Target \in LoadPages(prog[seg])
  BY <1>7, <1>8 DEF LoadPages
<1>10. QED
  BY <1>1, <1>2, <1>3, <1>4, <1>5, <1>7, <1>9

LEMMA BacksKept ==
  ASSUME MemInv, NEW page, NEW i, Backs(page, i), Translate(page)' = Translate(page),
         \A g \in owned : role'[g] = role[g]
  PROVE  Backs(page, i)'
<1>. DEFINE f == Translate(page)
<1>1. f \in Frames /\ role[f] = [job |-> "load", seg |-> i]
  BY DEF Backs
<1>. HIDE DEF f
<1>2. role[f].job = "load"
  BY <1>1
<1>3. f \in owned
  BY <1>1, <1>2 DEF MemInv, RolesOK
<1>4. role'[f] = [job |-> "load", seg |-> i]
  BY <1>1, <1>3
<1>5. QED
  BY <1>1, <1>4 DEF Backs, f

(* a step of the loop leaves the pages that are done as they are *)
LEMMA DonePagesKept ==
  ASSUME WellLinked, MemInv, LoadInv, job = "load", pc \in {"alloc", "map"}, p < Count,
         UNCHANGED <<job, prog, seg>>, \A g \in owned : role'[g] = role[g],
         \A page \in Pages \ {Target} : Translate(page)' = Translate(page)
  PROVE  EarlierDone' /\ \A k \in 0 .. p - 1 : PageDone(k)'
<1>1. /\ prog \in Programs /\ seg \in DOMAIN prog /\ Count = PagesOf(prog[seg])
      /\ DOMAIN prog = 1 .. Len(prog) /\ Len(prog) \in Nat
      /\ p \in Nat /\ Count \in Nat /\ prog[seg].vaddr \div PAGE_SIZE \in Nat
      /\ Target = (prog[seg].vaddr \div PAGE_SIZE) + p
      /\ Target \in LoadPages(prog[seg])
  BY LoadTarget
<1>2. ASSUME NEW i \in 1 .. seg - 1, NEW page \in Occupied(prog[i])
      PROVE  Backs(page, i)'
  <2>1. i \in DOMAIN prog /\ i # seg
    BY <1>1
  <2>2. page \in LoadPages(prog[i]) /\ page \notin LoadPages(prog[seg])
    BY <1>1, <2>1 DEF WellLinked
  <2>3. page \in Pages /\ page # Target
    BY Zenon, <1>1, <2>1, <2>2, LoadPagesArePages
  <2>4. Backs(page, i)
    BY DEF LoadInv, EarlierDone
  <2>5. QED
    BY <2>3, <2>4, BacksKept
<1>3. ASSUME NEW k \in 0 .. p - 1 PROVE PageDone(k)'
  <2>1. PICK page : page = (prog[seg].vaddr \div PAGE_SIZE) + k
    OBVIOUS
  <2>2. page \in Pages /\ page # Target
    <3>1. k \in Nat /\ k < PagesOf(prog[seg]) /\ k # p
      BY <1>1
    <3>2. page \in Pages
      BY <1>1, <2>1, <3>1, SegmentPage
    <3>3. QED
      BY <1>1, <2>1, <3>1, <3>2
  <2>3. Translate(page) = Absent \/ Backs(page, seg)
    BY <2>1 DEF LoadInv, PageDone
  <2>4. Translate(page)' = Translate(page)
    BY <2>2
  <2>5. Translate(page)' = Absent \/ Backs(page, seg)'
    <3>1. PICK i : i = seg
      OBVIOUS
    <3>2. Backs(page, i) => Backs(page, i)'
      BY <2>4, BacksKept
    <3>3. Backs(page, seg) = Backs(page, i) /\ Backs(page, seg)' = Backs(page, i)'
      BY <3>1 DEF Backs
    <3>4. QED
      BY <2>3, <2>4, <3>2, <3>3
  <2>6. QED
    BY <2>1, <2>5 DEF PageDone
<1>4. EarlierDone'
  BY <1>2 DEF EarlierDone
<1>5. QED
  BY <1>3, <1>4

LEMMA LoadAlloc ==
  ASSUME WellLinked, MemInv, LoadInv, AllocFrame \/ NewTable
  PROVE  LoadInv'
<1>. DEFINE f == FirstFree
<1>1. /\ UNCHANGED <<job, prog, seg, p>> /\ pmm_alloc /\ pc \in {"alloc", "map"}
      /\ pc' \in {"map", "wild"} /\ \E r : role' = [role EXCEPT ![f] = r]
      /\ p < Count
  BY DEF AllocFrame, NewTable, MemInv, LoopOK
<1>2. f \in Frames /\ f \notin owned /\ owned \subseteq Frames /\ owned' = owned \cup {f}
  <2>1. f \in FreeFrames
    BY <1>1, FirstFreeIsFree DEF MemInv, PmmInv, pmm_alloc
  <2>2. QED
    BY <1>1, <2>1 DEF FreeFrames, MemInv, PmmInv, PmmTypeOK, OwnedAreUsed, pmm_alloc
<1>3. \A g \in owned : role'[g] = role[g]
  BY <1>1, <1>2 DEF MemInv, MemTypeOK
<1>4. \A page \in Pages : Translate(page)' = Translate(page)
  <2>1. CASE AllocFrame
    BY Zenon, <2>1 DEF AllocFrame, Translate, TableOf
  <2>2. CASE NewTable
    BY <2>2, NewTableEffect
  <2>3. QED
    BY <2>1, <2>2
<1>5. job = "load" /\ pc' = "map" => phys' \in owned'
  BY <1>1, <1>2 DEF AllocFrame, NewTable, LoadInv
<1>6. QED
  BY <1>1, <1>3, <1>4, <1>5, DonePagesKept DEF LoadInv

LEMMA LoadMap ==
  ASSUME WellLinked, MemInv, LoadInv, MapFrame \/ NewTableFails
  PROVE  LoadInv'
<1>1. pc = "map" /\ p < Count /\ UNCHANGED <<job, prog, seg, role, owned>>
  BY DEF MapFrame, NewTableFails, MemInv, LoopOK
<1>2. CASE job # "load" \/ pc' = "wild"
  BY <1>1, <1>2 DEF LoadInv
<1>3. CASE job = "load" /\ pc' # "wild"
  <2>1. pc' = "alloc" /\ p' = p + 1
    BY <1>3 DEF MapFrame, NewTableFails
  <2>2. /\ p \in Nat /\ Target = (prog[seg].vaddr \div PAGE_SIZE) + p
        /\ Target \in Pages
    BY <1>1, <1>3, LoadTarget, TargetIsPage DEF MemInv
  <2>3. PICK t : t = Target
    OBVIOUS
  <2>4. /\ \A page \in Pages \ {t} : Translate(page)' = Translate(page)
        /\ Translate(t)' = Absent \/ Backs(t, seg)'
    <3>1. CASE NewTableFails
      <4>1. UNCHANGED <<page_directory, tables>> /\ TableOf(t) = Absent
        BY <2>3, <3>1 DEF NewTableFails
      <4>2. QED
        BY <4>1 DEF Translate, TableOf
    <3>2. CASE MapFrame
      <4>1. \A page \in Pages :
              Translate(page)' = IF page = Target THEN phys ELSE Translate(page)
        BY <2>1, <3>2, MapFrameEffect DEF MapFrame
      <4>2. phys \in owned
        BY <1>1, <1>3 DEF LoadInv
      <4>3. phys \in Frames /\ phys # 0
        BY <4>2, PmmAssumption DEF MemInv, PmmInv, PmmTypeOK, OwnedAreUsed
      <4>4. role[phys] = [job |-> "load", seg |-> seg]
        BY <1>1, <1>3, <4>3 DEF MemInv, PhysOK
      <4>5. Translate(t)' = phys
        BY <2>2, <2>3, <4>1
      <4>6. Backs(t, seg)'
        BY <1>1, <4>3, <4>4, <4>5 DEF Backs
      <4>7. QED
        BY <2>3, <4>1, <4>6
    <3>3. QED
      BY <3>1, <3>2
  <2>5. EarlierDone' /\ \A k \in 0 .. p - 1 : PageDone(k)'
    BY <1>1, <1>3, <2>3, <2>4, DonePagesKept
  <2>6. ASSUME NEW k \in 0 .. p' - 1 PROVE PageDone(k)'
    <3>1. CASE k \in 0 .. p - 1
      BY <2>5, <3>1
    <3>2. CASE k = p
      BY <1>1, <2>2, <2>3, <2>4, <3>2 DEF PageDone
    <3>3. QED
      BY <2>1, <2>2, <3>1, <3>2
  <2>7. QED
    BY <2>1, <2>5, <2>6 DEF LoadInv
<1>4. QED
  BY <1>2, <1>3

LEMMA LoadEnd ==
  ASSUME WellLinked, MemInv, LoadInv, SegmentLoaded
  PROVE  LoadInv'
<1>1. /\ pc = "alloc" /\ job = "load" /\ p = Count /\ p' = 0
      /\ UNCHANGED <<page_directory, tables, role, job, prog>>
  BY DEF SegmentLoaded
<1>2. CASE \E page \in Occupied(prog[seg]) : Translate(page) = Absent
  BY <1>2 DEF SegmentLoaded, LoadInv
<1>3. CASE \A page \in Occupied(prog[seg]) : Translate(page) # Absent
  <2>1. prog \in Programs /\ seg \in DOMAIN prog /\ seg \in Nat
        /\ DOMAIN prog = 1 .. Len(prog) /\ Len(prog) \in Nat
    BY <1>1, ProgramsAssumption DEF MemInv, LoopOK, MemTypeOK
  <2>2. Count = PagesOf(prog[seg]) /\ Count \in Nat
    BY <1>1, CountType DEF Count, MemInv
  <2>3. ASSUME NEW page \in Occupied(prog[seg]) PROVE Backs(page, seg)
    <3>1. page \in LoadPages(prog[seg])
      BY <2>1 DEF WellLinked
    <3>2. PICK k \in Nat : k < PagesOf(prog[seg])
                           /\ page = (prog[seg].vaddr \div PAGE_SIZE) + k
      BY <2>1, <3>1, LoadPagesArePages
    <3>3. k \in 0 .. p - 1
      BY <1>1, <2>2, <3>2
    <3>4. PageDone(k)
      BY <1>1, <3>3 DEF LoadInv
    <3>5. QED
      BY <1>3, <3>2, <3>4 DEF PageDone
  <2>4. \A i \in 1 .. seg : \A page \in Occupied(prog[i]) : Backs(page, i)
    <3>1. \A i \in 1 .. seg - 1 : \A page \in Occupied(prog[i]) : Backs(page, i)
      BY <1>1 DEF LoadInv, EarlierDone
    <3>2. \A i \in 1 .. seg : i \in 1 .. seg - 1 \/ i = seg
      BY <2>1
    <3>3. QED
      BY <2>3, <3>1, <3>2
  <2>5. \A page, i : Backs(page, i)' = Backs(page, i)
    BY <1>1 DEF Backs, Translate, TableOf
  <2>6. CASE seg < Len(prog)
    <3>1. seg' = seg + 1 /\ pc' = "alloc"
      BY <1>1, <1>3, <2>6 DEF SegmentLoaded
    <3>2. EarlierDone'
      BY <1>1, <2>1, <2>4, <2>5, <3>1 DEF EarlierDone
    <3>3. QED
      BY <1>1, <3>1, <3>2 DEF LoadInv
  <2>7. CASE ~(seg < Len(prog))
    <3>1. seg' = seg /\ pc' = "user" /\ seg = Len(prog)
      BY <1>1, <1>3, <2>1, <2>7 DEF SegmentLoaded
    <3>2. EarlierDone'
      BY <1>1, <2>1, <2>4, <2>5, <3>1 DEF EarlierDone
    <3>3. \A page \in Occupied(prog'[seg']) : Backs(page, seg)'
      <4>1. PICK i : i = seg
        OBVIOUS
      <4>2. \A page \in Occupied(prog[seg]) : Backs(page, i)'
        BY <2>3, <2>5, <4>1
      <4>3. QED
        BY <1>1, <3>1, <4>1, <4>2 DEF Backs
    <3>4. QED
      BY <1>1, <3>1, <3>2, <3>3 DEF LoadInv
  <2>8. QED
    BY <2>6, <2>7
<1>4. QED
  BY <1>2, <1>3

LEMMA LoadNext ==
  ASSUME WellLinked, MemInv, LoadInv, [Next]_vars
  PROVE  LoadInv'
<1>1. CASE AllocFrame \/ NewTable
  BY <1>1, LoadAlloc
<1>2. CASE MapFrame \/ NewTableFails
  BY <1>2, LoadMap
<1>3. CASE SegmentLoaded
  BY <1>3, LoadEnd
<1>4. CASE Boot \/ VmmInit \/ StackMapped \/ HeapMapped
  <2>1. job' # "load"
    BY <1>4 DEF Boot, VmmInit, StackMapped, HeapMapped, MemInv, LoopOK
  <2>2. QED
    BY <2>1 DEF LoadInv
<1>5. CASE AllocFrameFails
  <2>1. job' # "load" \/ pc' = "shell"
    BY <1>5 DEF AllocFrameFails
  <2>2. QED
    BY <2>1 DEF LoadInv
<1>6. CASE \E program \in Programs : ElfLoad(program)
  <2>1. seg' = 1 /\ p' = 0 /\ pc' = "alloc"
    BY <1>6 DEF ElfLoad
  <2>2. QED
    BY <2>1 DEF LoadInv, EarlierDone
<1>7. CASE UNCHANGED vars
  BY Zenon, <1>7 DEF vars, LoadInv, EarlierDone, PageDone, Backs, Translate, TableOf
<1>8. QED
  BY <1>1, <1>2, <1>3, <1>4, <1>5, <1>6, <1>7 DEF Next

(* A program that starts finds every byte of its segments in a frame that  *)
(* was allocated for that segment, for any programs whose segments end in  *)
(* the pages elf_load counts and share none - with any amount of memory,   *)
(* after any failed loads, and although vmm_map tells nobody of a failure. *)
THEOREM MemorySegmentsBacked == WellLinked /\ Spec => []SegmentsBacked
<1>. SUFFICES ASSUME WellLinked PROVE Spec => []SegmentsBacked
  OBVIOUS
<1>1. Init => MemInv /\ LoadInv
  BY MemInitInv DEF Init, LoadInv
<1>2. MemInv /\ LoadInv /\ [Next]_vars => (MemInv /\ LoadInv)'
  BY MemNextInv, LoadNext
<1>3. MemInv /\ LoadInv => SegmentsBacked
  <2>. SUFFICES ASSUME MemInv, LoadInv, pc = "user", NEW i \in DOMAIN prog,
                       NEW page \in Occupied(prog[i])
                PROVE  Backs(page, i)
    BY Zenon DEF SegmentsBacked, Backs
  <2>1. CASE job = "load"
    <3>1. DOMAIN prog = 1 .. Len(prog) /\ Len(prog) \in Nat
      BY <2>1, ProgramsAssumption DEF MemInv, LoopOK
    <3>2. i \in 1 .. seg - 1 \/ i = seg
      BY <2>1, <3>1 DEF LoadInv
    <3>3. QED
      BY <2>1, <3>2 DEF LoadInv, EarlierDone
  <2>2. CASE job # "load"
    BY <2>2 DEF MemInv, LoopOK
  <2>3. QED
    BY <2>1, <2>2
<1>4. QED
  BY <1>1, <1>2, <1>3, PTL DEF Spec

-----------------------------------------------------------------------------
(* Where page tables are. *)

HeapPages == HEAP_PAGE .. HEAP_PAGE + HEAP_PAGES - 1

ProgPages(program) == UNION {LoadPages(program[i]) : i \in DOMAIN program}

(* the directory entries that need a table to map these pages *)
Dirs(S) == {DirOf(page) : page \in S} \ page_tables

(* the frames in use once a program with these pages is loaded: the        *)
(* kernel's, the stack's, the heap's, its own, and the page tables         *)
FramesFor(S) ==
  kernel_end_page + 1 + HEAP_PAGES + Cardinality(S) + Cardinality(Dirs(HeapPages \cup S))

(* Frames are handed out from the kernel's end upwards, and a table must   *)
(* not be at an address that is mapped to something else: all the frames   *)
(* that are needed lie below the stack page and the program.               *)
LowEnough ==
  /\ FramesFor({}) <= STACK_PAGE
  /\ \A program \in Programs :
       /\ FramesFor(ProgPages(program)) <= STACK_PAGE
       /\ \A page \in ProgPages(program) : FramesFor(ProgPages(program)) <= page

(* the pages being loaded, and those that are done *)
Loading == IF job = "load" THEN ProgPages(prog) ELSE {}

EarlierPages == UNION {LoadPages(prog[i]) : i \in 1 .. seg - 1}
ThesePages == {(prog[seg].vaddr \div PAGE_SIZE) + k : k \in 0 .. p - 1}
SoFar == EarlierPages \cup ThesePages

(* the page tables made since boot, and the frames given to data *)
Tabs == {d \in 0 .. DIRS - 1 : page_directory[d] # Absent} \ page_tables

DataFrames ==
  (IF pc = "shell" THEN 1 + HEAP_PAGES
   ELSE IF job = "stack" THEN p
   ELSE IF job = "heap" THEN 1 + p
   ELSE 1 + HEAP_PAGES + Cardinality(SoFar))
  + (IF pc = "map" THEN 1 ELSE 0)

(* every frame in use is accounted for, and only the stack page and the    *)
(* program are mapped over the identity mapping                            *)
Counted ==
  /\ \A page \in Identity \ ({STACK_PAGE} \cup Loading) : Translate(page) = page
  /\ Tabs \subseteq Dirs(HeapPages \cup Loading)
  /\ used_pages <= kernel_end_page + DataFrames + Cardinality(Tabs)
  /\ pc = "shell" => job = "heap"

(* The frames in use are the lowest, and each is mapped to itself.  The    *)
(* count is exact until memory is used up; from then on nothing changes.   *)
LowInv ==
  /\ pc # "off" => FreeFrames = used_pages .. (total_pages - 1) /\ kernel_end_page <= used_pages
  /\ pc = "vmm_init" => used_pages = kernel_end_page
  /\ pc \notin {"off", "vmm_init"} =>
       /\ pc # "wild"
       /\ \A page \in 0 .. used_pages - 1 : page \in Identity /\ Translate(page) = page
       /\ pc \in {"alloc", "map", "shell"} =>
            Counted \/ (FreeFrames = {} /\ pc # "map" /\ job # "stack")

LEMMA CardinalityBound ==
  ASSUME NEW S, NEW T, IsFiniteSet(T), S \subseteq T
  PROVE  /\ IsFiniteSet(S) /\ Cardinality(S) \in Nat /\ Cardinality(T) \in Nat
         /\ Cardinality(S) <= Cardinality(T)
BY FS_Subset, FS_CardinalityType

LEMMA CardinalityAdd ==
  ASSUME NEW S, IsFiniteSet(S), NEW x, x \notin S
  PROVE  IsFiniteSet(S \cup {x}) /\ Cardinality(S \cup {x}) = Cardinality(S) + 1
BY FS_AddElement

LEMMA PagesFinite ==
  ASSUME NEW S \in SUBSET Pages
  PROVE  /\ IsFiniteSet(S) /\ Cardinality(S) \in Nat
         /\ HeapPages \subseteq Pages
         /\ Dirs(HeapPages \cup S) \subseteq 0 .. DIRS - 1
         /\ IsFiniteSet(Dirs(HeapPages \cup S)) /\ Cardinality(Dirs(HeapPages \cup S)) \in Nat
         /\ FramesFor(S) \in Nat
<1>1. IsFiniteSet(Pages)
  BY FS_Interval, MemoryAssumption DEF Pages
<1>2. IsFiniteSet(S) /\ Cardinality(S) \in Nat
  BY <1>1, CardinalityBound
<1>3. HeapPages \subseteq Pages
  BY MemoryAssumption DEF HeapPages, Pages
<1>4. Dirs(HeapPages \cup S) \subseteq 0 .. DIRS - 1
  BY <1>3, PageParts DEF Dirs
<1>5. IsFiniteSet(0 .. DIRS - 1)
  BY FS_Interval, MemoryAssumption
<1>6. IsFiniteSet(Dirs(HeapPages \cup S)) /\ Cardinality(Dirs(HeapPages \cup S)) \in Nat
  BY Zenon, <1>4, <1>5, CardinalityBound
<1>7. FramesFor(S) \in Nat
  BY <1>2, <1>6, MemoryAssumption, PmmAssumption DEF FramesFor
<1>8. QED
  BY Zenon, <1>2, <1>3, <1>4, <1>6, <1>7

LEMMA TabsFinite == IsFiniteSet(Tabs) /\ Cardinality(Tabs) \in Nat
<1>1. IsFiniteSet(0 .. DIRS - 1)
  BY FS_Interval, MemoryAssumption
<1>2. Tabs \subseteq 0 .. DIRS - 1
  BY DEF Tabs
<1>3. QED
  BY Zenon, <1>1, <1>2, CardinalityBound

LEMMA LoadingIsPages ==
  ASSUME MemInv, pc \in {"alloc", "map"}
  PROVE  Loading \in SUBSET Pages
<1>1. CASE job # "load"
  BY <1>1 DEF Loading
<1>2. CASE job = "load"
  <2>1. prog \in Programs
    BY <1>2 DEF MemInv, LoopOK
  <2>2. QED
    BY <1>2, <2>1, LoadPagesArePages DEF Loading, ProgPages
<1>3. QED
  BY <1>1, <1>2

(* the page being mapped is a new one of the program *)
LEMMA SoFarGrows ==
  ASSUME WellLinked, MemInv, job = "load", pc \in {"alloc", "map"}, p < Count
  PROVE  /\ SoFar \subseteq Loading /\ Target \in Loading \ SoFar
         /\ IsFiniteSet(SoFar) /\ Cardinality(SoFar) \in Nat
         /\ Cardinality(SoFar \cup {Target}) = Cardinality(SoFar) + 1
         /\ Cardinality(SoFar) + 1 <= Cardinality(Loading)
<1>1. /\ prog \in Programs /\ seg \in DOMAIN prog /\ Count = PagesOf(prog[seg])
      /\ DOMAIN prog = 1 .. Len(prog) /\ Len(prog) \in Nat
      /\ p \in Nat /\ Count \in Nat /\ prog[seg].vaddr \div PAGE_SIZE \in Nat
      /\ Target = (prog[seg].vaddr \div PAGE_SIZE) + p
      /\ Target \in LoadPages(prog[seg])
  BY LoadTarget
<1>2. EarlierPages \subseteq Loading /\ Target \notin EarlierPages
  <2>1. \A i \in 1 .. seg - 1 : i \in DOMAIN prog /\ i # seg
    BY <1>1
  <2>2. \A i \in 1 .. seg - 1 : LoadPages(prog[i]) \cap LoadPages(prog[seg]) = {}
    BY <1>1, <2>1 DEF WellLinked
  <2>3. QED
    BY <1>1, <2>1, <2>2 DEF EarlierPages, Loading, ProgPages
<1>3. ThesePages \subseteq LoadPages(prog[seg]) /\ Target \notin ThesePages
  BY <1>1 DEF ThesePages, LoadPages
<1>4. LoadPages(prog[seg]) \subseteq Loading
  BY <1>1 DEF Loading, ProgPages
<1>5. SoFar = EarlierPages \cup ThesePages
  BY DEF SoFar
<1>6. SoFar \subseteq Loading /\ Target \in Loading \ SoFar
  BY Zenon, <1>1, <1>2, <1>3, <1>4, <1>5
<1>7. IsFiniteSet(Loading)
  BY Zenon, LoadingIsPages, PagesFinite
<1>8. IsFiniteSet(SoFar) /\ Cardinality(SoFar) \in Nat
  BY <1>6, <1>7, CardinalityBound
<1>9. Cardinality(SoFar \cup {Target}) = Cardinality(SoFar) + 1
  BY <1>6, <1>8, CardinalityAdd
<1>10. Cardinality(SoFar \cup {Target}) <= Cardinality(Loading)
  <2>1. SoFar \cup {Target} \subseteq Loading
    BY <1>6
  <2>2. QED
    BY <1>7, <2>1, CardinalityBound
<1>11. QED
  BY <1>6, <1>8, <1>9, <1>10

(* the data frames, with the one being mapped, are within the count *)
LEMMA DataBound ==
  ASSUME WellLinked, MemInv, pc \in {"alloc", "map"}, p < Count
  PROVE  /\ DataFrames \in Nat
         /\ DataFrames + (IF pc = "map" THEN 0 ELSE 1) <= 1 + HEAP_PAGES + Cardinality(Loading)
<1>1. p \in Nat /\ HEAP_PAGES \in Nat /\ pc # "shell"
  BY MemoryAssumption DEF MemInv, MemTypeOK
<1>2. Cardinality(Loading) \in Nat
  BY Zenon, LoadingIsPages, PagesFinite
<1>3. CASE job = "stack"
  <2>1. p = 0
    BY <1>1, <1>3 DEF Count
  <2>2. QED
    BY <1>1, <1>2, <1>3, <2>1 DEF DataFrames
<1>4. CASE job = "heap"
  <2>1. p < HEAP_PAGES
    BY <1>4 DEF Count
  <2>2. QED
    BY <1>1, <1>2, <1>4, <2>1 DEF DataFrames
<1>5. CASE job = "load"
  BY <1>1, <1>2, <1>5, SoFarGrows DEF DataFrames
<1>6. QED
  BY <1>3, <1>4, <1>5 DEF MemInv, MemTypeOK

(* so the frames in use, with the next one, are within FramesFor *)
LEMMA UsedBound ==
  ASSUME WellLinked, MemInv, Counted, pc \in {"alloc", "map"}, p < Count
  PROVE  /\ used_pages \in Nat /\ FramesFor(Loading) \in Nat
         /\ used_pages <= FramesFor(Loading)
         /\ pc = "alloc" => used_pages + 1 <= FramesFor(Loading)
         /\ TableOf(Target) = Absent => used_pages + 1 <= FramesFor(Loading)
         /\ TableOf(Target) = Absent => DirOf(Target) \in (0 .. DIRS - 1) \ page_tables
                                        /\ DirOf(Target) \in Dirs(HeapPages \cup Loading)
<1>. DEFINE All == Dirs(HeapPages \cup Loading)
            D == DirOf(Target)
<1>1. /\ Cardinality(Loading) \in Nat /\ IsFiniteSet(All) /\ Cardinality(All) \in Nat
      /\ FramesFor(Loading) \in Nat
  BY Zenon, LoadingIsPages, PagesFinite
<1>2. FramesFor(Loading) = kernel_end_page + 1 + HEAP_PAGES + Cardinality(Loading)
                           + Cardinality(All)
  BY DEF FramesFor
<1>3. Tabs \subseteq All /\ used_pages <= kernel_end_page + DataFrames + Cardinality(Tabs)
  BY DEF Counted
<1>4. IsFiniteSet(Tabs) /\ Cardinality(Tabs) \in Nat /\ Cardinality(Tabs) <= Cardinality(All)
  BY <1>1, <1>3, CardinalityBound
<1>5. DataFrames \in Nat
      /\ DataFrames + (IF pc = "map" THEN 0 ELSE 1) <= 1 + HEAP_PAGES + Cardinality(Loading)
  BY DataBound
<1>6. used_pages \in Nat /\ kernel_end_page \in Nat /\ HEAP_PAGES \in Nat
  BY PmmAssumption, MemoryAssumption DEF MemInv, PmmInv, PmmTypeOK
<1>7. Target \in Pages /\ D \in 0 .. DIRS - 1
  BY TargetIsPage, PageParts DEF MemInv
<1>8. ASSUME TableOf(Target) = Absent
      PROVE  /\ D \notin page_tables /\ D \in All /\ D \notin Tabs
             /\ Cardinality(Tabs) + 1 <= Cardinality(All)
  <2>1. page_directory[D] = Absent
    BY <1>8 DEF TableOf
  <2>2. D \notin page_tables
    BY <2>1 DEF MemInv, DirectoryOK, page_tables, Absent
  <2>3. Target \in HeapPages \cup Loading
    <3>1. CASE job = "stack"
      <4>1. Target = STACK_PAGE
        BY <3>1 DEF Target
      <4>2. QED
        BY <1>7, <2>2, <4>1, IdentityPages, MemoryAssumption
    <3>2. CASE job = "heap"
      <4>1. Target = HEAP_PAGE + p /\ p < HEAP_PAGES /\ p \in Nat
        BY <3>2 DEF Target, Count, MemInv, MemTypeOK
      <4>2. HEAP_PAGE \in Nat
        BY MemoryAssumption DEF Pages
      <4>3. QED
        BY <1>6, <4>1, <4>2 DEF HeapPages
    <3>3. CASE job = "load"
      BY <3>3, SoFarGrows
    <3>4. QED
      BY <3>1, <3>2, <3>3 DEF MemInv, MemTypeOK
  <2>4. D \in All
    BY <2>2, <2>3 DEF Dirs
  <2>5. D \notin Tabs
    BY <2>1 DEF Tabs
  <2>6. Cardinality(Tabs \cup {D}) = Cardinality(Tabs) + 1
    BY <1>4, <2>5, CardinalityAdd
  <2>7. Cardinality(Tabs \cup {D}) <= Cardinality(All)
    <3>1. Tabs \cup {D} \subseteq All
      BY <1>3, <2>4
    <3>2. QED
      BY <1>1, <3>1, CardinalityBound
  <2>8. QED
    BY <2>2, <2>4, <2>5, <2>6, <2>7
<1>. HIDE DEF All, D
<1>9. used_pages <= FramesFor(Loading)
      /\ (pc = "alloc" => used_pages + 1 <= FramesFor(Loading))
  BY <1>1, <1>2, <1>3, <1>4, <1>5, <1>6
<1>10. TableOf(Target) = Absent => used_pages + 1 <= FramesFor(Loading)
  BY <1>1, <1>2, <1>3, <1>4, <1>5, <1>6, <1>8
<1>11. QED
  BY <1>1, <1>6, <1>7, <1>8, <1>9, <1>10 DEF All, D

(* below that, only the identity mapping is found *)
LEMMA LowPages ==
  ASSUME WellLinked, LowEnough, MemInv, Counted, pc \in {"alloc", "map"}, p < Count
  PROVE  /\ \A page \in Nat : page < FramesFor(Loading) =>
              page \in Identity /\ page \in Pages /\ Translate(page) = page
         /\ FramesFor(Loading) <= Target
         /\ Target \in Identity => Target \in {STACK_PAGE} \cup Loading
<1>1. FramesFor(Loading) \in Nat
  BY UsedBound
<1>2. FramesFor(Loading) <= STACK_PAGE /\ \A page \in Loading : FramesFor(Loading) <= page
  <2>1. CASE job # "load"
    BY <2>1 DEF LowEnough, Loading
  <2>2. CASE job = "load"
    <3>1. prog \in Programs
      BY <2>2 DEF MemInv, LoopOK
    <3>2. QED
      BY <2>2, <3>1 DEF LowEnough, Loading
  <2>3. QED
    BY <2>1, <2>2
<1>3. Loading \in SUBSET Pages
  BY LoadingIsPages
<1>4. STACK_PAGE \in Identity /\ 2 * ENTRIES \in Nat /\ Identity = 0 .. 2 * ENTRIES - 1
  BY MemoryAssumption DEF Identity
<1>5. Identity \subseteq Pages
  BY IdentityInPages
<1>6. ASSUME NEW page \in Nat, page < FramesFor(Loading)
      PROVE  page \in Identity /\ page \in Pages /\ Translate(page) = page
  <2>1. page \in Identity /\ page # STACK_PAGE
    BY <1>1, <1>2, <1>4, <1>6
  <2>2. page \notin Loading
    BY <1>1, <1>2, <1>6
  <2>3. QED
    BY <1>5, <2>1, <2>2 DEF Counted
<1>7. FramesFor(Loading) <= Target /\ (Target \in Identity => Target \in {STACK_PAGE} \cup Loading)
  <2>1. CASE job = "stack"
    BY <1>2, <2>1 DEF Target
  <2>2. CASE job = "heap"
    <3>1. Target = HEAP_PAGE + p /\ p \in Nat
      BY <2>2 DEF Target, MemInv, MemTypeOK
    <3>2. HEAP_PAGE \in Nat /\ HEAP_PAGE >= 2 * ENTRIES
      BY <1>4, MemoryAssumption DEF Pages
    <3>3. QED
      BY <1>1, <1>2, <1>4, <3>1, <3>2
  <2>3. CASE job = "load"
    BY <1>2, <2>3, SoFarGrows
  <2>4. QED
    BY <2>1, <2>2, <2>3 DEF MemInv, MemTypeOK
<1>8. QED
  BY <1>6, <1>7

(* the frames in use are the lowest *)
LEMMA NextFrame ==
  ASSUME MemInv, FreeFrames = used_pages .. (total_pages - 1), pmm_alloc
  PROVE  /\ FirstFree = used_pages /\ used_pages \in Nat /\ used_pages' = used_pages + 1
         /\ FreeFrames' = used_pages' .. (total_pages' - 1)
<1>1. FreeFrames = used_pages .. (total_pages - 1) /\ FreeFrames # {}
      /\ used_pages \in Nat /\ total_pages \in Nat
  BY DEF pmm_alloc, MemInv, PmmInv, PmmTypeOK
<1>2. used_pages \in FreeFrames /\ \A k \in FreeFrames : used_pages <= k
  BY <1>1
<1>3. FirstFree \in FreeFrames /\ \A k \in FreeFrames : FirstFree <= k
  BY <1>2 DEF FirstFree
<1>4. FirstFree = used_pages
  BY <1>1, <1>2, <1>3
<1>5. FreeFrames' = FreeFrames \ {used_pages}
  BY <1>4 DEF FreeFrames, pmm_alloc
<1>6. used_pages' = used_pages + 1 /\ total_pages' = total_pages
  BY DEF pmm_alloc
<1>7. FreeFrames' = used_pages' .. (total_pages' - 1)
  BY <1>1, <1>5, <1>6
<1>8. QED
  BY <1>1, <1>4, <1>6, <1>7

LEMMA OwnedAreLow ==
  ASSUME MemInv, FreeFrames = used_pages .. (total_pages - 1)
  PROVE  owned \subseteq 0 .. used_pages - 1
<1>1. FreeFrames = used_pages .. (total_pages - 1) /\ used_pages \in Nat /\ total_pages \in Nat
  BY DEF MemInv, PmmInv, PmmTypeOK
<1>2. \A f \in owned : f \in bitmap /\ f \in Nat /\ f < total_pages
  BY <1>1, PmmAssumption DEF MemInv, PmmInv, PmmTypeOK, OwnedAreUsed, Frames
<1>3. \A f \in owned : f \notin FreeFrames
  BY <1>2 DEF FreeFrames
<1>4. QED
  BY <1>1, <1>2, <1>3

(* every page table is at an address that is mapped to itself *)
LEMMA LowTables ==
  ASSUME MemInv, LowInv, pc \notin {"off", "vmm_init"},
         NEW d \in 0 .. DIRS - 1, page_directory[d] # Absent
  PROVE  Reachable(page_directory[d])
<1>1. page_directory[d] \in owned \cup page_tables
  BY DEF MemInv, DirectoryOK
<1>2. page_tables \subseteq 0 .. used_pages - 1
  BY MemoryAssumption, PmmAssumption DEF LowInv, page_tables, MemInv, PmmInv, PmmTypeOK
<1>3. page_directory[d] \in 0 .. used_pages - 1
  <2>1. owned \subseteq 0 .. used_pages - 1
    BY OwnedAreLow DEF LowInv
  <2>2. QED
    BY Zenon, <1>1, <1>2, <2>1
<1>4. page_directory[d] \in Identity /\ Translate(page_directory[d]) = page_directory[d]
  BY <1>3 DEF LowInv
<1>5. Identity \subseteq Pages
  BY IdentityInPages
<1>6. QED
  BY <1>4, <1>5 DEF Reachable

LEMMA LowBoot ==
  ASSUME MemInv, Boot
  PROVE  LowInv'
<1>1. PICK pages \in MemSizes : pmm_init(pages)
  BY DEF Boot, PmmInit
<1>2. pc' = "vmm_init" /\ used_pages' = kernel_end_page
  BY <1>1 DEF Boot, pmm_init
<1>3. /\ bitmap' = Frames \ (kernel_end_page .. (total_pages' - 1))
      /\ total_pages' \in Nat /\ total_pages' <= MAX_PAGES
  BY <1>1, PmmAssumption DEF pmm_init
<1>4. FreeFrames' = kernel_end_page .. (total_pages' - 1)
  BY <1>3, PmmAssumption DEF FreeFrames, Frames
<1>5. QED
  BY <1>2, <1>4, PmmAssumption DEF LowInv

LEMMA LowVmmInit ==
  ASSUME MemInv, LowInv, VmmInit
  PROVE  LowInv'
<1>1. /\ pc = "vmm_init" /\ pc' = "alloc" /\ job' = "stack" /\ p' = 0
      /\ UNCHANGED <<bitmap, total_pages, used_pages>>
  BY DEF VmmInit, MemInv, LoopOK
<1>2. /\ FreeFrames' = used_pages' .. (total_pages' - 1) /\ used_pages' = kernel_end_page
  BY <1>1 DEF LowInv, FreeFrames
<1>3. Identity \subseteq Pages /\ 2 * ENTRIES \in Nat
  BY IdentityInPages, MemoryAssumption
<1>4. \A page \in Identity : Translate(page)' = page
  BY <1>3, VmmInitEffect
<1>5. \A page \in 0 .. used_pages' - 1 : page \in Identity
  BY <1>2, <1>3, MemoryAssumption, PmmAssumption DEF Identity
<1>6. Tabs' = {}
  BY DEF VmmInit, Tabs
<1>7. Cardinality(Tabs') = 0
  BY <1>6, FS_EmptySet
<1>8. DataFrames' = 0
  BY <1>1 DEF DataFrames
<1>9. Counted'
  BY <1>1, <1>2, <1>4, <1>6, <1>7, <1>8, PmmAssumption DEF Counted
<1>10. QED
  BY <1>1, <1>2, <1>4, <1>5, <1>9, PmmAssumption DEF LowInv

LEMMA LowAllocFrame ==
  ASSUME WellLinked, LowEnough, MemInv, LowInv, AllocFrame
  PROVE  LowInv'
<1>1. /\ pc = "alloc" /\ pc' = "map" /\ pmm_alloc /\ p < Count /\ FreeFrames # {}
      /\ UNCHANGED <<page_directory, tables, job, prog, seg, p>>
  BY DEF AllocFrame, pmm_alloc
<1>2. Counted
  BY <1>1 DEF LowInv
<1>3. /\ used_pages \in Nat /\ used_pages' = used_pages + 1
      /\ FreeFrames' = used_pages' .. (total_pages' - 1) /\ kernel_end_page <= used_pages
      /\ kernel_end_page \in Nat
  BY <1>1, NextFrame, PmmAssumption DEF LowInv
<1>4. used_pages < FramesFor(Loading)
  BY <1>1, <1>2, UsedBound
<1>5. used_pages \in Identity /\ Translate(used_pages) = used_pages
  BY <1>1, <1>2, <1>3, <1>4, LowPages
<1>6. \A page : Translate(page)' = Translate(page)
  BY <1>1 DEF Translate, TableOf
<1>7. \A page \in 0 .. used_pages' - 1 : page \in Identity /\ Translate(page)' = page
  <2>1. \A page \in 0 .. used_pages - 1 : page \in Identity /\ Translate(page) = page
    BY <1>1 DEF LowInv
  <2>2. \A page \in 0 .. used_pages' - 1 : page \in 0 .. used_pages - 1 \/ page = used_pages
    BY <1>3
  <2>3. PICK u : u = used_pages
    OBVIOUS
  <2>4. Translate(u)' = u /\ u \in Identity
    BY <1>5, <1>6, <2>3
  <2>5. QED
    BY <1>6, <2>1, <2>2, <2>3, <2>4
<1>8. Tabs' = Tabs /\ Loading' = Loading /\ SoFar' = SoFar
  BY <1>1 DEF Tabs, Loading, SoFar, EarlierPages, ThesePages
<1>9. DataFrames' = DataFrames + 1 /\ DataFrames \in Nat
  <2>1. DataFrames \in Nat
    BY <1>1, DataBound
  <2>2. p \in Nat /\ HEAP_PAGES \in Nat
    BY MemoryAssumption DEF MemInv, MemTypeOK
  <2>3. job = "load" => Cardinality(SoFar) \in Nat
    BY <1>1, SoFarGrows
  <2>4. QED
    BY <1>1, <1>8, <2>1, <2>2, <2>3 DEF DataFrames, MemInv, MemTypeOK
<1>10. Counted'
  <2>1. used_pages' <= kernel_end_page + DataFrames' + Cardinality(Tabs')
    BY <1>2, <1>3, <1>8, <1>9, TabsFinite DEF Counted
  <2>2. QED
    BY <1>1, <1>2, <1>6, <1>8, <2>1 DEF Counted
<1>11. QED
  BY <1>1, <1>3, <1>7, <1>10 DEF LowInv

LEMMA LowNewTable ==
  ASSUME WellLinked, LowEnough, MemInv, LowInv, NewTable
  PROVE  LowInv'
<1>1. /\ pc = "map" /\ pmm_alloc /\ p < Count /\ TableOf(Target) = Absent
      /\ UNCHANGED <<job, prog, seg, p>>
  BY DEF NewTable, MemInv, LoopOK
<1>2. Counted
  BY <1>1 DEF LowInv
<1>3. /\ used_pages \in Nat /\ used_pages' = used_pages + 1 /\ FirstFree = used_pages
      /\ FreeFrames' = used_pages' .. (total_pages' - 1) /\ kernel_end_page <= used_pages
      /\ kernel_end_page \in Nat
  BY <1>1, NextFrame, PmmAssumption DEF LowInv
<1>4. used_pages < FramesFor(Loading)
  BY <1>1, <1>2, UsedBound
<1>5. used_pages \in Identity /\ Reachable(used_pages)
  BY <1>1, <1>2, <1>3, <1>4, LowPages DEF Reachable
<1>6. pc' = "map" /\ page_directory' = [page_directory EXCEPT ![DirOf(Target)] = used_pages]
  BY <1>1, <1>3, <1>5 DEF NewTable
<1>7. \A page \in Pages : Translate(page)' = Translate(page)
  BY NewTableEffect
<1>8. Identity \subseteq Pages
  BY IdentityInPages
<1>9. \A page \in 0 .. used_pages' - 1 : page \in Identity /\ Translate(page)' = page
  <2>1. \A page \in 0 .. used_pages - 1 : page \in Identity /\ Translate(page) = page
    BY <1>1 DEF LowInv
  <2>2. \A page \in 0 .. used_pages' - 1 : page \in 0 .. used_pages - 1 \/ page = used_pages
    BY <1>3
  <2>3. PICK u : u = used_pages
    OBVIOUS
  <2>4. Translate(u)' = u /\ u \in Identity
    BY <1>5, <1>7, <1>8, <2>3 DEF Reachable
  <2>5. QED
    BY <1>7, <1>8, <2>1, <2>2, <2>3, <2>4
<1>10. PICK D : D = DirOf(Target)
  OBVIOUS
<1>11. /\ D \in (0 .. DIRS - 1) \ page_tables /\ D \in Dirs(HeapPages \cup Loading)
       /\ page_directory[D] = Absent
  BY <1>1, <1>2, <1>10, UsedBound DEF TableOf
<1>12. Tabs' = Tabs \cup {D} /\ D \notin Tabs
  <2>1. used_pages # Absent
    BY <1>3 DEF Absent
  <2>2. /\ page_directory'[D] = used_pages
        /\ \A d \in 0 .. DIRS - 1 : d # D => page_directory'[d] = page_directory[d]
    BY <1>6, <1>10, <1>11 DEF MemInv, MemTypeOK
  <2>3. QED
    BY <1>11, <2>1, <2>2 DEF Tabs
<1>13. Cardinality(Tabs') = Cardinality(Tabs) + 1 /\ Cardinality(Tabs) \in Nat
  BY <1>12, CardinalityAdd, TabsFinite
<1>14. Loading' = Loading /\ DataFrames' = DataFrames
  BY <1>1, <1>6 DEF Loading, DataFrames, SoFar, EarlierPages, ThesePages
<1>15. DataFrames \in Nat
  BY <1>1, DataBound
<1>16. Counted'
  <2>1. used_pages' <= kernel_end_page + DataFrames' + Cardinality(Tabs')
    BY <1>2, <1>3, <1>13, <1>14, <1>15 DEF Counted
  <2>2. QED
    BY <1>2, <1>6, <1>7, <1>8, <1>11, <1>12, <1>14, <2>1 DEF Counted
<1>17. QED
  BY <1>3, <1>6, <1>9, <1>16 DEF LowInv

(* the page is done, mapped or not *)
LEMMA LowPageDone ==
  ASSUME WellLinked, MemInv, Counted, pc = "map", pc' = "alloc", p' = p + 1, p < Count,
         UNCHANGED <<page_directory, used_pages, job, prog, seg>>,
         \A page \in Identity \ ({STACK_PAGE} \cup Loading) : Translate(page)' = Translate(page)
  PROVE  Counted'
<1>1. Tabs' = Tabs /\ Loading' = Loading
  BY DEF Tabs, Loading
<1>2. p \in Nat /\ HEAP_PAGES \in Nat
  BY MemoryAssumption DEF MemInv, MemTypeOK
<1>3. DataFrames' = DataFrames
  <2>1. CASE job = "load"
    <3>1. /\ Cardinality(SoFar) \in Nat
          /\ Cardinality(SoFar \cup {Target}) = Cardinality(SoFar) + 1
      BY <2>1, SoFarGrows
    <3>2. Target = (prog[seg].vaddr \div PAGE_SIZE) + p
      BY <2>1, LoadTarget
    <3>3. ThesePages' = ThesePages \cup {Target}
      <4>1. 0 .. p' - 1 = (0 .. p - 1) \cup {p}
        BY <1>2
      <4>2. ThesePages' = {(prog[seg].vaddr \div PAGE_SIZE) + k : k \in 0 .. p' - 1}
        BY DEF ThesePages
      <4>3. QED
        BY <3>2, <4>1, <4>2 DEF ThesePages
    <3>4. EarlierPages' = EarlierPages
      BY DEF EarlierPages
    <3>5. SoFar' = SoFar \cup {Target}
      BY <3>3, <3>4 DEF SoFar
    <3>6. QED
      BY <1>2, <2>1, <3>1, <3>5 DEF DataFrames
  <2>2. CASE job # "load"
    BY <1>2, <2>2 DEF DataFrames, MemInv, MemTypeOK
  <2>3. QED
    BY <2>1, <2>2
<1>4. QED
  BY <1>1, <1>3 DEF Counted

LEMMA LowMap ==
  ASSUME WellLinked, LowEnough, MemInv, LowInv, MapFrame \/ NewTableFails
  PROVE  LowInv'
<1>1. /\ pc = "map" /\ p < Count
      /\ UNCHANGED <<bitmap, total_pages, used_pages, page_directory, job, prog, seg>>
  BY DEF MapFrame, NewTableFails, MemInv, LoopOK
<1>2. Counted
  BY <1>1 DEF LowInv
<1>3. MapFrame => Reachable(TableOf(Target))
  <2>1. DirOf(Target) \in 0 .. DIRS - 1
    BY <1>1, TargetIsPage, PageParts DEF MemInv
  <2>2. QED
    BY <1>1, <2>1, LowTables DEF MapFrame, TableOf
<1>4. pc' = "alloc" /\ p' = p + 1
  BY <1>3 DEF MapFrame, NewTableFails
<1>5. Identity \subseteq Pages
  BY IdentityInPages
<1>6. PICK t : t = Target
  OBVIOUS
<1>7. \A page \in Identity \ {t} : Translate(page)' = Translate(page)
  <2>1. CASE NewTableFails
    BY Zenon, <2>1 DEF NewTableFails, Translate, TableOf
  <2>2. CASE MapFrame
    BY <1>3, <1>5, <1>6, <2>2, MapFrameEffect
  <2>3. QED
    BY <2>1, <2>2
<1>8. t \in Nat /\ used_pages <= t /\ (t \in Identity => t \in {STACK_PAGE} \cup Loading)
  <2>1. used_pages \in Nat /\ FramesFor(Loading) \in Nat /\ used_pages <= FramesFor(Loading)
    BY <1>1, <1>2, UsedBound
  <2>2. FramesFor(Loading) <= t /\ (t \in Identity => t \in {STACK_PAGE} \cup Loading)
    BY <1>1, <1>2, <1>6, LowPages
  <2>3. t \in Nat
    BY <1>1, <1>6, TargetIsPage, PageParts DEF MemInv
  <2>4. QED
    BY <2>1, <2>2, <2>3
<1>9. Counted'
  <2>1. \A page \in Identity \ ({STACK_PAGE} \cup Loading) : Translate(page)' = Translate(page)
    BY <1>7, <1>8
  <2>2. QED
    BY <1>1, <1>2, <1>4, <2>1, LowPageDone
<1>10. \A page \in 0 .. used_pages' - 1 : page \in Identity /\ Translate(page)' = page
  <2>1. \A page \in 0 .. used_pages - 1 : page \in Identity /\ Translate(page) = page
    BY <1>1 DEF LowInv
  <2>2. used_pages \in Nat
    BY DEF MemInv, PmmInv, PmmTypeOK
  <2>3. \A page \in 0 .. used_pages - 1 : page # t
    BY <1>8, <2>2
  <2>4. QED
    BY <1>1, <1>7, <2>1, <2>3
<1>11. FreeFrames' = used_pages' .. (total_pages' - 1) /\ kernel_end_page <= used_pages'
  BY <1>1 DEF LowInv, FreeFrames
<1>12. QED
  BY <1>4, <1>9, <1>10, <1>11 DEF LowInv

(* a step that leaves tables and frames alone keeps all but the count *)
LEMMA LowSame ==
  ASSUME LowInv, UNCHANGED <<bitmap, total_pages, used_pages, page_directory, tables>>,
         pc \in {"alloc", "map", "shell"}, pc' \in {"alloc", "map", "shell", "user", "fault"},
         pc' \in {"alloc", "map", "shell"} =>
           Counted' \/ (FreeFrames = {} /\ pc' # "map" /\ job' # "stack")
  PROVE  LowInv'
<1>1. FreeFrames' = FreeFrames
  BY DEF FreeFrames
<1>2. \A page : Translate(page)' = Translate(page)
  BY DEF Translate, TableOf
<1>3. QED
  BY <1>1, <1>2 DEF LowInv

LEMMA LowAllocFrameFails ==
  ASSUME WellLinked, MemInv, LowInv, AllocFrameFails
  PROVE  LowInv'
<1>1. /\ pc = "alloc" /\ p < Count /\ FreeFrames = {}
      /\ UNCHANGED <<bitmap, total_pages, used_pages, page_directory, tables, job>>
      /\ pc' \in {"map", "shell", "fault"}
  BY DEF AllocFrameFails, HeapInitReturns
<1>2. CASE job = "stack"
  <2>1. pc' = "map" /\ UNCHANGED <<prog, seg, p>>
    BY <1>2 DEF AllocFrameFails
  <2>2. Counted
    BY <1>1, <1>2 DEF LowInv
  <2>3. Tabs' = Tabs /\ Loading' = Loading /\ \A page : Translate(page)' = Translate(page)
    BY <1>1, <2>1 DEF Tabs, Loading, Translate, TableOf
  <2>4. DataFrames' = DataFrames + 1 /\ DataFrames \in Nat
    BY <1>1, <1>2, <2>1 DEF DataFrames, MemInv, MemTypeOK
  <2>5. used_pages \in Nat /\ kernel_end_page \in Nat
    BY PmmAssumption DEF MemInv, PmmInv, PmmTypeOK
  <2>6. used_pages' <= kernel_end_page + DataFrames' + Cardinality(Tabs')
    BY <1>1, <2>2, <2>3, <2>4, <2>5, TabsFinite DEF Counted
  <2>7. Counted'
    BY <2>1, <2>2, <2>3, <2>6 DEF Counted
  <2>8. QED
    BY <1>1, <2>1, <2>7, LowSame
<1>3. CASE job # "stack"
  <2>1. pc' \in {"shell", "fault"}
    BY <1>3 DEF AllocFrameFails, HeapInitReturns
  <2>2. QED
    BY <1>1, <1>3, <2>1, LowSame
<1>4. QED
  BY <1>2, <1>3

LEMMA LowLoopEnds ==
  ASSUME WellLinked, MemInv, LowInv,
         StackMapped \/ HeapMapped \/ SegmentLoaded \/ \E program \in Programs : ElfLoad(program)
  PROVE  LowInv'
<1>1. /\ UNCHANGED <<bitmap, total_pages, used_pages, page_directory, tables>>
      /\ pc \in {"alloc", "shell"} /\ pc' \in {"alloc", "shell", "user", "fault"}
      /\ job' # "stack" /\ p' = 0
  BY DEF StackMapped, HeapMapped, HeapInitReturns, SegmentLoaded, ElfLoad
<1>2. CASE ~Counted
  <2>1. FreeFrames = {}
    BY <1>1, <1>2 DEF LowInv
  <2>2. QED
    BY <1>1, <2>1, LowSame
<1>3. CASE Counted /\ pc' \in {"alloc", "shell"}
  <2>1. Tabs' = Tabs /\ \A page : Translate(page)' = Translate(page)
    BY <1>1 DEF Tabs, Translate, TableOf
  <2>2. HEAP_PAGES \in Nat
    BY MemoryAssumption
  <2>3. /\ Loading \subseteq Loading' /\ DataFrames' = DataFrames
        /\ (pc' = "shell" => job' = "heap")
    <3>1. CASE StackMapped
      BY <1>1, <3>1 DEF StackMapped, Count, DataFrames, Loading
    <3>2. CASE HeapMapped
      BY <1>1, <1>3, <2>2, <3>2 DEF HeapMapped, HeapInitReturns, Count, DataFrames, Loading
    <3>3. CASE SegmentLoaded
      <4>1. /\ pc = "alloc" /\ pc' = "alloc" /\ seg' = seg + 1 /\ p = Count
            /\ UNCHANGED <<job, prog>> /\ job = "load"
        BY <1>3, <3>3 DEF SegmentLoaded
      <4>2. seg \in Nat /\ seg \in DOMAIN prog /\ prog \in Programs
        BY <4>1 DEF MemInv, MemTypeOK, LoopOK
      <4>3. seg >= 1
        BY <4>2, ProgramsAssumption
      <4>4. ThesePages = LoadPages(prog[seg])
        BY <4>1 DEF ThesePages, LoadPages, Count
      <4>5. 1 .. seg' - 1 = (1 .. seg - 1) \cup {seg}
        BY <4>1, <4>2, <4>3
      <4>6. EarlierPages' = EarlierPages \cup LoadPages(prog[seg])
        <5>1. EarlierPages' = UNION {LoadPages(prog[i]) : i \in 1 .. seg' - 1}
          BY <4>1 DEF EarlierPages
        <5>2. QED
          BY <4>5, <5>1 DEF EarlierPages
      <4>7. ThesePages' = {}
        BY <1>1 DEF ThesePages
      <4>8. SoFar' = SoFar
        BY <4>4, <4>6, <4>7 DEF SoFar
      <4>9. QED
        BY <4>1, <4>8 DEF DataFrames, Loading
    <3>4. CASE \E program \in Programs : ElfLoad(program)
      <4>1. pc = "shell" /\ pc' = "alloc" /\ job' = "load" /\ seg' = 1
        BY <3>4 DEF ElfLoad
      <4>2. job = "heap"
        BY <1>3, <4>1 DEF Counted
      <4>3. EarlierPages' = {} /\ ThesePages' = {}
        BY <1>1, <4>1 DEF EarlierPages, ThesePages
      <4>4. Cardinality(SoFar') = 0
        BY <4>3, FS_EmptySet DEF SoFar
      <4>5. QED
        BY <2>2, <4>1, <4>2, <4>4 DEF DataFrames, Loading
    <3>5. QED
      BY <3>1, <3>2, <3>3, <3>4
  <2>4. Dirs(HeapPages \cup Loading) \subseteq Dirs(HeapPages \cup Loading')
    BY <2>3 DEF Dirs
  <2>5. Counted'
    BY <1>1, <1>3, <2>1, <2>3, <2>4 DEF Counted
  <2>6. QED
    BY <1>1, <2>5, LowSame
<1>4. CASE pc' \in {"user", "fault"}
  BY <1>1, <1>4, LowSame
<1>5. QED
  BY <1>1, <1>2, <1>3, <1>4

LEMMA LowNext ==
  ASSUME WellLinked, LowEnough, MemInv, LowInv, [Next]_vars
  PROVE  LowInv'
<1>1. CASE Boot \/ VmmInit
  BY <1>1, LowBoot, LowVmmInit
<1>2. CASE AllocFrame \/ AllocFrameFails
  BY <1>2, LowAllocFrame, LowAllocFrameFails
<1>3. CASE NewTable \/ NewTableFails \/ MapFrame
  BY <1>3, LowNewTable, LowMap
<1>4. CASE StackMapped \/ HeapMapped \/ SegmentLoaded
           \/ \E program \in Programs : ElfLoad(program)
  BY <1>4, LowLoopEnds
<1>5. CASE UNCHANGED vars
  <2>1. FreeFrames' = FreeFrames
    BY <1>5 DEF vars, FreeFrames
  <2>2. \A page : Translate(page)' = Translate(page)
    BY <1>5 DEF vars, Translate, TableOf
  <2>3. Tabs' = Tabs /\ Loading' = Loading
    BY <1>5 DEF vars, Tabs, Loading
  <2>4. DataFrames' = DataFrames
    BY <1>5 DEF vars, DataFrames, SoFar, EarlierPages, ThesePages
  <2>5. Counted => Counted'
    BY <1>5, <2>2, <2>3, <2>4 DEF vars, Counted
  <2>6. QED
    BY <1>5, <2>1, <2>2, <2>5 DEF vars, LowInv
<1>6. QED
  BY <1>1, <1>2, <1>3, <1>4, <1>5 DEF Next

(* without the condition on the frames in use *)
EveryTableReachable ==
  /\ pc # "wild"
  /\ pc \notin {"off", "vmm_init"} =>
       \A d \in DOMAIN page_directory :
         page_directory[d] # Absent => Reachable(page_directory[d])

(* Programs that are small enough never hide a page table: whatever is     *)
(* loaded and however much memory there is, every page table is where the  *)
(* kernel can reach it, if the frames that the kernel, the heap and a      *)
(* program need lie below the stack page and the program itself.           *)
THEOREM MemoryTablesAlwaysReachable == WellLinked /\ LowEnough /\ Spec => []EveryTableReachable
<1>. SUFFICES ASSUME WellLinked, LowEnough PROVE Spec => []EveryTableReachable
  OBVIOUS
<1>1. Init => MemInv /\ LowInv
  BY MemInitInv DEF Init, LowInv
<1>2. MemInv /\ LowInv /\ [Next]_vars => (MemInv /\ LowInv)'
  BY MemNextInv, LowNext
<1>3. MemInv /\ LowInv => EveryTableReachable
  <2>. SUFFICES ASSUME MemInv, LowInv PROVE EveryTableReachable
    OBVIOUS
  <2>1. pc # "wild"
    BY DEF LowInv
  <2>2. DOMAIN page_directory = 0 .. DIRS - 1
    BY DEF MemInv, MemTypeOK
  <2>3. QED
    BY <2>1, <2>2, LowTables DEF EveryTableReachable
<1>4. QED
  BY <1>1, <1>2, <1>3, PTL DEF Spec

-----------------------------------------------------------------------------
(* Every page table is where the kernel can reach it, as long as the       *)
(* frames in use are low.                                                  *)

(* below the stack page and every program *)
BelowAll(page) ==
  /\ page < STACK_PAGE
  /\ \A program \in Programs : \A i \in DOMAIN program :
       page < program[i].vaddr \div PAGE_SIZE

(* Frames are handed out from the kernel's end upwards and none comes      *)
(* back; what lies below the stack page and the programs is mapped to      *)
(* itself; the kernel writes through a hidden table only when the frames   *)
(* in use are not low.                                                     *)
LowPagesInv ==
  /\ pc # "off" => FreeFrames = used_pages .. (total_pages - 1) /\ kernel_end_page <= used_pages
  /\ pc \notin {"off", "vmm_init"} =>
       \A page \in Identity : BelowAll(page) => Translate(page) = page
  /\ pc = "wild" => ~FramesLow

(* no loop maps a page below the stack page and the programs *)
LEMMA TargetNotBelow ==
  ASSUME MemInv, pc \in {"alloc", "map"}, p < Count, Target \in Identity
  PROVE  ~BelowAll(Target)
<1>1. CASE job = "stack"
  <2>1. Target = STACK_PAGE /\ STACK_PAGE \in Int
    BY <1>1, MemoryAssumption DEF Target, Identity
  <2>2. QED
    BY <2>1 DEF BelowAll
<1>2. CASE job = "heap"
  <2>1. Target = HEAP_PAGE + p /\ p \in Nat
    BY <1>2 DEF Target, MemInv, MemTypeOK
  <2>2. HEAP_PAGE \in Nat /\ HEAP_PAGE >= 2 * ENTRIES /\ 2 * ENTRIES \in Nat
    BY MemoryAssumption DEF Pages, Identity
  <2>3. QED
    BY <2>1, <2>2 DEF Identity
<1>3. CASE job = "load"
  <2>1. prog \in Programs /\ seg \in DOMAIN prog /\ p \in Nat /\ p < PagesOf(prog[seg])
    BY <1>3 DEF MemInv, LoopOK, MemTypeOK, Count
  <2>2. Target = (prog[seg].vaddr \div PAGE_SIZE) + p
    BY <1>3, <2>1, SegmentPage DEF Target
  <2>3. prog[seg].vaddr \div PAGE_SIZE \in Nat
    BY <2>1, SegmentType, MemoryAssumption, DivMod
  <2>4. ~(Target < prog[seg].vaddr \div PAGE_SIZE)
    BY <2>1, <2>2, <2>3
  <2>5. QED
    BY <2>1, <2>4 DEF BelowAll
<1>4. QED
  BY <1>1, <1>2, <1>3 DEF MemInv, MemTypeOK

(* low frames are below the stack page and the programs *)
LEMMA LowFramesBelow ==
  ASSUME MemInv, FramesLow, NEW f \in Nat, f < used_pages
  PROVE  f \in Identity /\ BelowAll(f)
<1>1. used_pages \in Nat /\ used_pages <= STACK_PAGE
  BY DEF MemInv, PmmInv, PmmTypeOK, FramesLow
<1>2. STACK_PAGE \in Nat /\ STACK_PAGE < 2 * ENTRIES /\ 2 * ENTRIES \in Nat
  BY MemoryAssumption DEF Identity
<1>3. ASSUME NEW program \in Programs, NEW i \in DOMAIN program
      PROVE  f < program[i].vaddr \div PAGE_SIZE
  <2>1. program[i].vaddr \div PAGE_SIZE \in Nat
    BY SegmentType, MemoryAssumption, DivMod
  <2>2. used_pages <= program[i].vaddr \div PAGE_SIZE
    BY DEF FramesLow
  <2>3. QED
    BY <1>1, <2>1, <2>2
<1>4. QED
  BY <1>1, <1>2, <1>3 DEF Identity, BelowAll

LEMMA LowTablesReachable ==
  ASSUME MemInv, LowPagesInv, FramesLow, pc \notin {"off", "vmm_init"},
         NEW d \in 0 .. DIRS - 1, page_directory[d] # Absent
  PROVE  Reachable(page_directory[d])
<1>1. page_directory[d] \in owned \cup page_tables
  BY DEF MemInv, DirectoryOK
<1>2. page_tables \subseteq 0 .. used_pages - 1
  BY MemoryAssumption, PmmAssumption DEF LowPagesInv, page_tables, MemInv, PmmInv, PmmTypeOK
<1>3. owned \subseteq 0 .. used_pages - 1
  BY OwnedAreLow DEF LowPagesInv
<1>4. PICK f : f = page_directory[d]
  BY Zenon
<1>5. f \in Nat /\ f < used_pages
  <2>1. f \in 0 .. used_pages - 1
    BY Zenon, <1>1, <1>2, <1>3, <1>4
  <2>2. QED
    BY <2>1 DEF MemInv, PmmInv, PmmTypeOK
<1>6. f \in Identity /\ Translate(f) = f
  BY <1>5, LowFramesBelow DEF LowPagesInv
<1>7. QED
  BY <1>4, <1>6, IdentityInPages DEF Reachable

(* a step that leaves tables and frames alone *)
LEMMA LowPagesSame ==
  ASSUME LowPagesInv, UNCHANGED <<bitmap, total_pages, used_pages, page_directory, tables>>,
         pc = "off" <=> pc' = "off", pc = "vmm_init" <=> pc' = "vmm_init",
         pc' = "wild" => pc = "wild"
  PROVE  LowPagesInv'
<1>1. FreeFrames' = FreeFrames /\ (FramesLow' <=> FramesLow)
  BY DEF FreeFrames, FramesLow
<1>2. \A page : Translate(page)' = Translate(page)
  BY DEF Translate, TableOf
<1>3. QED
  BY <1>1, <1>2 DEF LowPagesInv, BelowAll

LEMMA LowPagesAlloc ==
  ASSUME MemInv, LowPagesInv, AllocFrame \/ NewTable
  PROVE  LowPagesInv'
<1>1. pc \in {"alloc", "map"} /\ pc' \in {"map", "wild"} /\ pmm_alloc
  BY DEF AllocFrame, NewTable
<1>2. /\ used_pages \in Nat /\ used_pages' = used_pages + 1 /\ FirstFree = used_pages
      /\ FreeFrames' = used_pages' .. (total_pages' - 1) /\ kernel_end_page <= used_pages
      /\ kernel_end_page \in Nat
  BY <1>1, NextFrame, PmmAssumption DEF LowPagesInv
<1>3. \A page \in Pages : Translate(page)' = Translate(page)
  <2>1. CASE AllocFrame
    BY Zenon, <2>1 DEF AllocFrame, Translate, TableOf
  <2>2. CASE NewTable
    BY <2>2, NewTableEffect
  <2>3. QED
    BY <2>1, <2>2
<1>4. \A page \in Identity : BelowAll(page) => Translate(page)' = page
  BY <1>1, <1>3, IdentityInPages DEF LowPagesInv
<1>5. ASSUME pc' = "wild", FramesLow' PROVE FALSE
  <2>1. ~Reachable(FirstFree)
    BY <1>1, <1>5 DEF AllocFrame, NewTable
  <2>2. PICK f : f = used_pages
    BY Zenon
  <2>3. STACK_PAGE \in Nat
    BY MemoryAssumption DEF Identity
  <2>4. f \in Nat /\ f < used_pages'
    BY <1>2, <2>2
  <2>5. f < STACK_PAGE /\ STACK_PAGE < 2 * ENTRIES /\ 2 * ENTRIES \in Nat
    BY <1>2, <1>5, <2>2, MemoryAssumption DEF FramesLow, Identity
  <2>6. ASSUME NEW program \in Programs, NEW i \in DOMAIN program
        PROVE  f < program[i].vaddr \div PAGE_SIZE
    <3>1. program[i].vaddr \div PAGE_SIZE \in Nat
      BY SegmentType, MemoryAssumption, DivMod
    <3>2. used_pages' <= program[i].vaddr \div PAGE_SIZE
      BY <1>5 DEF FramesLow
    <3>3. QED
      BY <1>2, <2>2, <3>1, <3>2
  <2>7. f \in Identity /\ BelowAll(f)
    BY <2>3, <2>4, <2>5, <2>6 DEF Identity, BelowAll
  <2>8. Translate(f) = f /\ f \in Pages
    BY <1>1, <2>7, IdentityInPages DEF LowPagesInv
  <2>9. QED
    BY <1>2, <2>1, <2>2, <2>8 DEF Reachable
<1>6. QED
  BY <1>1, <1>2, <1>4, <1>5 DEF LowPagesInv, BelowAll

LEMMA LowPagesMap ==
  ASSUME MemInv, LowPagesInv, MapFrame
  PROVE  LowPagesInv'
<1>1. /\ pc = "map" /\ p < Count /\ TableOf(Target) # Absent
      /\ UNCHANGED <<bitmap, total_pages, used_pages, page_directory>>
  BY DEF MapFrame, MemInv, LoopOK
<1>2. FreeFrames' = FreeFrames /\ (FramesLow' <=> FramesLow)
  BY <1>1 DEF FreeFrames, FramesLow
<1>3. CASE Reachable(TableOf(Target))
  <2>1. pc' = "alloc"
    BY <1>3 DEF MapFrame
  <2>2. PICK t : t = Target
    BY Zenon
  <2>3. \A page \in Pages \ {t} : Translate(page)' = Translate(page)
    BY <1>3, <2>2, MapFrameEffect
  <2>4. t \in Identity => ~BelowAll(t)
    BY <1>1, <2>2, TargetNotBelow
  <2>5. \A page \in Identity : BelowAll(page) => Translate(page)' = page
    BY <1>1, <2>3, <2>4, IdentityInPages DEF LowPagesInv
  <2>6. QED
    BY <1>1, <1>2, <2>1, <2>5 DEF LowPagesInv, BelowAll
<1>4. CASE ~Reachable(TableOf(Target))
  <2>1. pc' = "wild" /\ UNCHANGED tables
    BY <1>4 DEF MapFrame
  <2>2. DirOf(Target) \in 0 .. DIRS - 1
    BY <1>1, TargetIsPage, PageParts DEF MemInv
  <2>3. ~FramesLow
    BY <1>1, <1>4, <2>2, LowTablesReachable DEF TableOf
  <2>4. \A page : Translate(page)' = Translate(page)
    BY <1>1, <2>1 DEF Translate, TableOf
  <2>5. QED
    BY <1>1, <1>2, <2>1, <2>3, <2>4 DEF LowPagesInv, BelowAll
<1>5. QED
  BY <1>3, <1>4

LEMMA LowPagesNext ==
  ASSUME MemInv, LowPagesInv, [Next]_vars
  PROVE  LowPagesInv'
<1>1. CASE Boot
  <2>1. pc' = "vmm_init"
    BY <1>1 DEF Boot
  <2>2. QED
    BY <1>1, <2>1, LowBoot DEF LowInv, LowPagesInv
<1>2. CASE VmmInit
  <2>1. pc = "vmm_init" /\ pc' = "alloc" /\ UNCHANGED <<bitmap, total_pages, used_pages>>
    BY <1>2 DEF VmmInit
  <2>2. FreeFrames' = FreeFrames
    BY <2>1 DEF FreeFrames
  <2>3. \A page \in Identity : Translate(page)' = page
    BY <1>2, VmmInitEffect, IdentityInPages
  <2>4. QED
    BY <2>1, <2>2, <2>3 DEF LowPagesInv
<1>3. CASE AllocFrame \/ NewTable
  BY <1>3, LowPagesAlloc
<1>4. CASE MapFrame
  BY <1>4, LowPagesMap
<1>5. CASE AllocFrameFails \/ NewTableFails
  <2>1. /\ UNCHANGED <<bitmap, total_pages, used_pages, page_directory, tables>>
        /\ pc \in {"alloc", "map"} /\ pc' \in {"alloc", "map", "shell", "fault"}
    BY <1>5 DEF AllocFrameFails, NewTableFails, HeapInitReturns
  <2>2. QED
    BY <2>1, LowPagesSame
<1>6. CASE StackMapped \/ HeapMapped \/ SegmentLoaded
           \/ \E program \in Programs : ElfLoad(program)
  <2>1. /\ UNCHANGED <<bitmap, total_pages, used_pages, page_directory, tables>>
        /\ pc \in {"alloc", "shell"} /\ pc' \in {"alloc", "shell", "user", "fault"}
    BY <1>6 DEF StackMapped, HeapMapped, HeapInitReturns, SegmentLoaded, ElfLoad
  <2>2. QED
    BY <2>1, LowPagesSame
<1>7. CASE UNCHANGED vars
  BY <1>7, LowPagesSame DEF vars
<1>8. QED
  BY <1>1, <1>2, <1>3, <1>4, <1>5, <1>6, <1>7 DEF Next

(* Every page table is where the kernel can reach it, when it is made and  *)
(* later, as long as the frames in use lie below the stack page and the    *)
(* programs: for any programs, any amount of memory, failed loads and      *)
(* shared or unaligned segments included.                                  *)
THEOREM MemoryTablesReachable == Spec => []TablesReachable
<1>1. Init => MemInv /\ LowPagesInv
  BY MemInitInv DEF Init, LowPagesInv
<1>2. MemInv /\ LowPagesInv /\ [Next]_vars => (MemInv /\ LowPagesInv)'
  BY MemNextInv, LowPagesNext
<1>3. MemInv /\ LowPagesInv => TablesReachable
  <2>. SUFFICES ASSUME MemInv, LowPagesInv, FramesLow, pc \notin {"off", "vmm_init"}
                PROVE  /\ pc # "wild"
                       /\ \A d \in DOMAIN page_directory :
                            page_directory[d] # Absent => Reachable(page_directory[d])
    BY DEF TablesReachable
  <2>1. pc # "wild"
    BY DEF LowPagesInv
  <2>2. DOMAIN page_directory = 0 .. DIRS - 1
    BY DEF MemInv, MemTypeOK
  <2>3. QED
    BY <2>1, <2>2, LowTablesReachable
<1>4. QED
  BY <1>1, <1>2, <1>3, PTL DEF Spec

-----------------------------------------------------------------------------
(* Loads end: what a loop that maps pages has still ahead of it. *)

Mapping == pc \in {"alloc", "map"}

(* the loops that follow this one: heap_init's after vmm_init's, those of  *)
(* elf_load's later segments                                               *)
LoopsAhead ==
  CASE job = "stack" -> 1
    [] job = "heap"  -> 0
    [] job = "load"  -> Len(prog) - seg

PagesAhead == Count - p

(* a page gets its frame, its table if there is none, its entry *)
StepsAhead ==
  IF pc = "alloc" THEN 2 ELSE IF TableOf(Target) = Absent THEN 1 ELSE 0

AheadOK == Mapping => LoopsAhead \in Nat /\ PagesAhead \in Nat /\ StepsAhead \in Nat

(* A step of one of the mapping loops leaves the loops, or lowers what is  *)
(* ahead in the lexicographic order of loops, pages and steps.             *)
MappingDescends ==
  Mapping =>
    /\ LoopsAhead \in Nat /\ PagesAhead \in Nat /\ StepsAhead \in Nat
    /\ Mapping' =>
         /\ LoopsAhead' \in Nat /\ PagesAhead' \in Nat /\ StepsAhead' \in Nat
         /\ \/ LoopsAhead' < LoopsAhead
            \/ LoopsAhead' = LoopsAhead /\ PagesAhead' < PagesAhead
            \/ /\ LoopsAhead' = LoopsAhead /\ PagesAhead' = PagesAhead
               /\ StepsAhead' < StepsAhead

LEMMA SegmentIndex ==
  ASSUME MemInv, Mapping, job = "load"
  PROVE  prog \in Programs /\ Len(prog) \in Nat /\ seg \in 1 .. Len(prog)
<1>1. prog \in Programs /\ seg \in DOMAIN prog
  BY DEF MemInv, LoopOK, Mapping
<1>. DEFINE S == [vaddr : Nat, mem_size : Nat]
<1>2. prog \in Seq(S)
  BY <1>1, ProgramsAssumption
<1>. HIDE DEF S
<1>3. QED
  BY <1>1, <1>2

LEMMA AheadTypes == MemInv => AheadOK
<1>. SUFFICES ASSUME MemInv, Mapping
              PROVE  LoopsAhead \in Nat /\ PagesAhead \in Nat /\ StepsAhead \in Nat
  BY DEF AheadOK
<1>1. LoopsAhead \in Nat
  <2>1. CASE job = "load"
    <3>1. LoopsAhead = Len(prog) - seg
      BY <2>1 DEF LoopsAhead
    <3>2. Len(prog) \in Nat /\ seg \in 1 .. Len(prog)
      BY <2>1, SegmentIndex
    <3>3. QED
      BY <3>1, <3>2
  <2>2. CASE job \in {"stack", "heap"}
    BY <2>2 DEF LoopsAhead
  <2>3. QED
    BY <2>1, <2>2 DEF MemInv, MemTypeOK
<1>2. PagesAhead \in Nat
  <2>1. Count \in Nat /\ p \in Nat
    BY CountType DEF MemInv, MemTypeOK, Mapping
  <2>2. p <= Count
    BY <2>1 DEF MemInv, LoopOK, Mapping
  <2>3. QED
    BY <2>1, <2>2 DEF PagesAhead
<1>3. StepsAhead \in Nat
  BY DEF StepsAhead
<1>4. QED
  BY <1>1, <1>2, <1>3

(* the loop and its page stay; the page goes one step on *)
LEMMA SamePage ==
  ASSUME UNCHANGED <<job, prog, seg, p>>
  PROVE  /\ LoopsAhead' = LoopsAhead /\ PagesAhead' = PagesAhead
         /\ Count' = Count /\ Target' = Target
BY DEF LoopsAhead, PagesAhead, Count, Target

LEMMA StepDescends ==
  ASSUME MemInv, AheadOK, AheadOK', Next, Mapping, Mapping'
  PROVE  \/ LoopsAhead' < LoopsAhead
         \/ LoopsAhead' = LoopsAhead /\ PagesAhead' < PagesAhead
         \/ /\ LoopsAhead' = LoopsAhead /\ PagesAhead' = PagesAhead
            /\ StepsAhead' < StepsAhead
<1>1. ASSUME pc = "alloc", pc' = "map", UNCHANGED <<job, prog, seg, p>>
      PROVE  /\ LoopsAhead' = LoopsAhead /\ PagesAhead' = PagesAhead
             /\ StepsAhead' < StepsAhead
  <2>1. StepsAhead = 2
    BY <1>1 DEF StepsAhead
  <2>2. StepsAhead' \in {0, 1}
    BY <1>1 DEF StepsAhead
  <2>3. QED
    BY <1>1, <2>1, <2>2, SamePage
<1>2. ASSUME pc = "map", p' = p + 1, UNCHANGED <<job, prog, seg>>
      PROVE  LoopsAhead' = LoopsAhead /\ PagesAhead' < PagesAhead
  <2>1. LoopsAhead' = LoopsAhead
    BY <1>2 DEF LoopsAhead
  <2>2. Count' = Count
    BY <1>2 DEF Count
  <2>3. Count \in Nat /\ p \in Nat
    BY CountType DEF MemInv, MemTypeOK, Mapping
  <2>4. PagesAhead' = Count - (p + 1) /\ PagesAhead = Count - p
    BY <1>2, <2>2 DEF PagesAhead
  <2>5. QED
    BY <2>1, <2>3, <2>4
<1>3. CASE AllocFrame
  BY <1>1, <1>3 DEF AllocFrame
<1>4. CASE AllocFrameFails
  <2>1. pc = "alloc" /\ job' = job
    BY <1>4 DEF AllocFrameFails
  <2>2. CASE job = "stack" /\ pc' = "map" /\ UNCHANGED <<prog, seg, p>>
    BY <1>1, <2>1, <2>2
  <2>3. CASE job = "heap" /\ HeapInitReturns
    BY <2>3 DEF HeapInitReturns, Mapping
  <2>4. CASE job = "load" /\ pc' = "shell"
    BY <2>4 DEF Mapping
  <2>5. QED
    BY <1>4, <2>2, <2>3, <2>4 DEF AllocFrameFails
<1>5. CASE NewTable
  <2>1. /\ pc = "map" /\ TableOf(Target) = Absent /\ pmm_alloc
        /\ UNCHANGED <<job, prog, seg, p>>
    BY <1>5 DEF NewTable
  <2>2. pc' = "map" /\ page_directory' = [page_directory EXCEPT ![DirOf(Target)] = FirstFree]
    BY <1>5, <2>1 DEF NewTable, Mapping
  <2>3. FirstFree # Absent
    <3>1. FirstFree \in FreeFrames
      BY <2>1, FirstFreeIsFree DEF MemInv, PmmInv, pmm_alloc
    <3>2. FirstFree \in Nat
      BY <3>1, PmmAssumption DEF FreeFrames, Frames
    <3>3. QED
      BY <3>2 DEF Absent
  <2>4. DirOf(Target) \in 0 .. DIRS - 1
    BY <2>1, TargetIsPage, PageParts DEF MemInv, LoopOK
  <2>5. page_directory'[DirOf(Target)] = FirstFree
    BY <2>2, <2>4 DEF MemInv, MemTypeOK
  <2>6. Target' = Target
    BY <2>1, SamePage
  <2>7. (TableOf(Target))' # Absent
    BY <2>3, <2>5, <2>6 DEF TableOf, DirOf
  <2>8. StepsAhead = 1 /\ StepsAhead' = 0
    BY <2>1, <2>2, <2>7 DEF StepsAhead
  <2>9. QED
    BY <2>1, <2>8, SamePage
<1>6. CASE NewTableFails
  BY <1>2, <1>6 DEF NewTableFails
<1>7. CASE MapFrame
  BY <1>2, <1>7 DEF MapFrame, Mapping
<1>8. CASE StackMapped
  BY <1>8 DEF StackMapped, LoopsAhead
<1>9. CASE HeapMapped
  BY <1>9 DEF HeapMapped, HeapInitReturns, Mapping
<1>10. CASE SegmentLoaded
  <2>1. job = "load" /\ job' = "load" /\ seg' = seg + 1 /\ prog' = prog
    BY <1>10 DEF SegmentLoaded, Mapping
  <2>2. Len(prog) \in Nat /\ seg \in 1 .. Len(prog)
    BY <2>1, SegmentIndex
  <2>3. LoopsAhead = Len(prog) - seg /\ LoopsAhead' = Len(prog) - (seg + 1)
    BY <2>1 DEF LoopsAhead
  <2>4. QED
    BY <2>2, <2>3
<1>11. CASE Boot \/ VmmInit \/ \E program \in Programs : ElfLoad(program)
  BY <1>11 DEF Boot, VmmInit, ElfLoad, Mapping
<1>12. QED
  BY <1>3, <1>4, <1>5, <1>6, <1>7, <1>8, <1>9, <1>10, <1>11 DEF Next

(* Every step of vmm_init's, heap_map_pages' and elf_load's loops comes    *)
(* nearer to their end in the lexicographic order of the loops, the pages  *)
(* and the steps ahead, whether frames run out, tables are missing or      *)
(* segments are empty: no boot and no load runs for ever.                  *)
THEOREM MemoryMappingDescends == Spec => [][MappingDescends]_vars
<1>1. MemInv /\ MemInv' /\ AheadOK /\ AheadOK' /\ [Next]_vars => [MappingDescends]_vars
  <2>. SUFFICES ASSUME MemInv, MemInv', AheadOK, AheadOK', Next, Mapping PROVE MappingDescends
    BY DEF MappingDescends
  <2>1. LoopsAhead \in Nat /\ PagesAhead \in Nat /\ StepsAhead \in Nat
    BY DEF AheadOK
  <2>2. Mapping' => LoopsAhead' \in Nat /\ PagesAhead' \in Nat /\ StepsAhead' \in Nat
    BY DEF AheadOK
  <2>3. QED
    BY <2>1, <2>2, StepDescends DEF MappingDescends
<1>2. QED
  BY <1>1, AheadTypes, MemoryInvariant, PTL DEF Spec
=============================================================================
