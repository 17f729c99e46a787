------------------------------- MODULE Memory -------------------------------
(***************************************************************************)
(* Virtual memory: the page tables of kernel/vmm.c, the frames of pmm.c    *)
(* under them, and the code that fills them - vmm_init, heap_map_pages of  *)
(* heap.c and elf_load of elf.c, in the order kernel_main and the shell    *)
(* command "run" call them.                                                *)
(*                                                                         *)
(* The kernel addresses a page table by its physical address, which works  *)
(* as long as that address is mapped to itself.                            *)
(***************************************************************************)
EXTENDS Pmm, Sequences

CONSTANTS
  PAGE_SIZE,      \* bytes per page
  ENTRIES,        \* entries per page table
  DIRS,           \* entries of the page directory
  HEAP_PAGE, HEAP_PAGES,   \* where the heap starts (a page number), its size
  STACK_PAGE,     \* the page at 0x500000
  Programs        \* ELF files: sequences of PT_LOAD segments [vaddr, mem_size]

Absent == -1
Pages == 0 .. DIRS * ENTRIES - 1
page_tables == {0, 1}        \* the frames of the two static tables
Identity == 0 .. 2 * ENTRIES - 1

VARIABLES
  page_directory,  \* directory index |-> the frame of a page table, or Absent
  tables,          \* frame |-> its entries: a frame, or Absent
  pc,              \* "off", "vmm_init", "alloc", "map", "shell", "user", "fault", "wild"
  job,             \* the loop that maps pages: "stack", "heap", "load"
  prog, seg,       \* elf_load: the program and the segment it is loading
  p, phys,         \* the locals of that loop
  heap_ready,      \* heap_init has returned
  role             \* ghost: frame |-> what it was allocated for

vars == <<bitmap, total_pages, used_pages, owned, page_directory, tables, pc, job,
          prog, seg, p, phys, heap_ready, role>>

(* The heap and the stack page lie in the address space; the static page   *)
(* tables in the kernel image.                                             *)
ASSUME MemoryAssumption ==
  /\ PAGE_SIZE \in Nat \ {0} /\ ENTRIES \in Nat \ {0} /\ DIRS \in Nat /\ DIRS > 2
  /\ STACK_PAGE \in Identity /\ STACK_PAGE >= kernel_end_page /\ HEAP_PAGE \in Pages \ Identity
  /\ HEAP_PAGES \in Nat \ {0} /\ HEAP_PAGE + HEAP_PAGES - 1 \in Pages
  /\ kernel_end_page > 1 /\ kernel_end_page <= 2 * ENTRIES

-----------------------------------------------------------------------------
(* Address translation and page numbers *)

DirOf(page) == page \div ENTRIES
TableOf(page) == page_directory[DirOf(page)]

(* the frame the processor finds for a page *)
Translate(page) ==
  IF TableOf(page) = Absent THEN Absent ELSE tables[TableOf(page)][page % ENTRIES]

Reachable(frame) == frame \in Pages /\ Translate(frame) = frame

PagesOfMutant(s) == s.mem_size \div PAGE_SIZE

(* how many pages elf_load maps for a segment *)
PagesOf(s) == (s.mem_size + PAGE_SIZE - 1) \div PAGE_SIZE

(* how many pages the running loop maps, and the p-th of them *)
Count == CASE job = "stack" -> 1
           [] job = "heap"  -> HEAP_PAGES
           [] job = "load"  -> PagesOf(prog[seg])

Target == CASE job = "stack" -> STACK_PAGE
            [] job = "heap"  -> HEAP_PAGE + p
            [] job = "load"  -> (prog[seg].vaddr + p * PAGE_SIZE) \div PAGE_SIZE

(* the pages a segment has bytes in *)
Occupied(s) == {(s.vaddr + k) \div PAGE_SIZE : k \in 0 .. s.mem_size - 1}

(* Programs have a segment to load and are linked above the kernel, as     *)
(* user.ld does: elf_load checks nothing, and one that covers the kernel   *)
(* replaces the code that loads it.                                        *)
ASSUME ProgramsAssumption ==
  \A program \in Programs :
    /\ program \in Seq([vaddr : Nat, mem_size : Nat]) /\ program # <<>>
    /\ \A i \in DOMAIN program :
         /\ program[i].vaddr >= kernel_end_page * PAGE_SIZE
         /\ program[i].vaddr + PagesOf(program[i]) * PAGE_SIZE
              <= DIRS * ENTRIES * PAGE_SIZE

-----------------------------------------------------------------------------
Boot ==
  /\ pc = "off" /\ PmmInit
  /\ pc' = "vmm_init"
  /\ UNCHANGED <<page_directory, tables, job, prog, seg, p, phys, heap_ready, role>>

VmmInitMutant ==
  /\ pc = "vmm_init"
  /\ page_directory' = [d \in 0 .. DIRS - 1 |-> IF d = 0 THEN 0 ELSE Absent]
  /\ tables' = [t \in {0} |-> [k \in 0 .. ENTRIES - 1 |-> k]]
  /\ pc' = "alloc" /\ job' = "stack"
  /\ UNCHANGED <<bitmap, total_pages, used_pages, owned, prog, seg, p, phys,
                 heap_ready, role>>

(* vmm_init: map the first two tables to themselves, turn paging on; the   *)
(* stack page follows                                                      *)
VmmInit ==
  /\ pc = "vmm_init"
  /\ page_directory' = [d \in 0 .. DIRS - 1 |-> IF d \in page_tables THEN d ELSE Absent]
  /\ tables' = [t \in page_tables |-> [k \in 0 .. ENTRIES - 1 |-> t * ENTRIES + k]]
  /\ pc' = "alloc" /\ job' = "stack"
  /\ UNCHANGED <<bitmap, total_pages, used_pages, owned, prog, seg, p, phys,
                 heap_ready, role>>

(* phys = pmm_alloc() *)
AllocFrame ==
  /\ pc = "alloc" /\ p < Count
  /\ pmm_alloc
  /\ phys' = FirstFree
  /\ role' = [role EXCEPT ![FirstFree] = [job |-> job, seg |-> seg]]
  /\ pc' = "map"
  /\ UNCHANGED <<page_directory, tables, job, prog, seg, p, heap_ready>>

(* heap_init writes the first block header, at the start of the heap, and  *)
(* returns                                                                 *)
HeapInitReturns ==
  /\ p' = 0
  /\ IF Translate(HEAP_PAGE) = Absent
     THEN pc' = "fault" /\ UNCHANGED heap_ready
     ELSE pc' = "shell" /\ heap_ready' = TRUE

(* No frame left: vmm_init does not look and maps the page to frame 0,     *)
(* heap_map_pages gives up and heap_init goes on without it, elf_load      *)
(* fails and keeps the frames it has.                                      *)
AllocFrameFails ==
  /\ pc = "alloc" /\ p < Count
  /\ FreeFrames = {}
  /\ \/ job = "stack" /\ pc' = "map" /\ phys' = 0 /\ UNCHANGED <<prog, seg, p, heap_ready>>
     \/ job = "heap" /\ HeapInitReturns /\ UNCHANGED <<prog, seg, phys>>
     \/ /\ job = "load" /\ pc' = "shell" /\ p' = 0 /\ prog' = <<>> /\ seg' = 0
        /\ UNCHANGED <<phys, heap_ready>>
  /\ UNCHANGED <<bitmap, total_pages, used_pages, owned, page_directory, tables, job, role>>

(* vmm_map, vmm_get_table: a table has to be made first.  It is cleared    *)
(* through its physical address; if that is not mapped to itself, the      *)
(* processor faults or some other memory is overwritten.                   *)
NewTable ==
  /\ pc = "map" /\ TableOf(Target) = Absent
  /\ pmm_alloc
  /\ role' = [role EXCEPT ![FirstFree] = [job |-> "table", seg |-> 0]]
  /\ IF Reachable(FirstFree)
     THEN /\ page_directory' = [page_directory EXCEPT ![DirOf(Target)] = FirstFree]
          /\ tables' = [t \in DOMAIN tables \cup {FirstFree} |->
                          IF t = FirstFree THEN [k \in 0 .. ENTRIES - 1 |-> Absent]
                          ELSE tables[t]]
          /\ UNCHANGED pc
     ELSE pc' = "wild" /\ UNCHANGED <<page_directory, tables>>
  /\ UNCHANGED <<job, prog, seg, p, phys, heap_ready>>

NewTableFailsMutant ==
  /\ pc = "map" /\ TableOf(Target) = Absent
  /\ FreeFrames = {}
  /\ UNCHANGED vars

(* "VMM: failed to get page table": the caller is not told *)
NewTableFails ==
  /\ pc = "map" /\ TableOf(Target) = Absent
  /\ FreeFrames = {}
  /\ pc' = "alloc" /\ p' = p + 1
  /\ UNCHANGED <<bitmap, total_pages, used_pages, owned, page_directory, tables, job,
                 prog, seg, phys, heap_ready, role>>

MapFrameMutant ==
  /\ pc = "map" /\ TableOf(Target) # Absent
  /\ tables' = [tables EXCEPT ![TableOf(Target)][Target % ENTRIES] =
                  IF p = 0 THEN phys ELSE phys - 1]
  /\ pc' = "alloc" /\ p' = p + 1
  /\ UNCHANGED <<bitmap, total_pages, used_pages, owned, page_directory, job, prog,
                 seg, phys, heap_ready, role>>

(* vmm_map, the entry itself, again through the table's physical address *)
MapFrame ==
  /\ pc = "map" /\ TableOf(Target) # Absent
  /\ IF Reachable(TableOf(Target))
     THEN /\ tables' = [tables EXCEPT ![TableOf(Target)][Target % ENTRIES] = phys]
          /\ pc' = "alloc" /\ p' = p + 1
     ELSE pc' = "wild" /\ UNCHANGED <<tables, p>>
  /\ UNCHANGED <<bitmap, total_pages, used_pages, owned, page_directory, job, prog,
                 seg, phys, heap_ready, role>>

(* the loop is through: vmm_init and heap_init return, kernel_main goes on *)
StackMapped ==
  /\ pc = "alloc" /\ job = "stack" /\ p = Count
  /\ job' = "heap" /\ p' = 0
  /\ UNCHANGED <<bitmap, total_pages, used_pages, owned, page_directory, tables, pc,
                 prog, seg, phys, heap_ready, role>>

HeapMapped ==
  /\ pc = "alloc" /\ job = "heap" /\ p = Count
  /\ HeapInitReturns
  /\ UNCHANGED <<bitmap, total_pages, used_pages, owned, page_directory, tables, job,
                 prog, seg, phys, role>>

(* run: elf_load reads a valid program into a buffer from the heap (taken  *)
(* to lie in its mapped part); it may be tried as long as the shell is     *)
(* there                                                                   *)
ElfLoad(program) ==
  /\ pc = "shell"
  /\ pc' = "alloc" /\ job' = "load" /\ prog' = program /\ seg' = 1 /\ p' = 0
  /\ UNCHANGED <<bitmap, total_pages, used_pages, owned, page_directory, tables, phys,
                 heap_ready, role>>

(* elf_load copies and clears the segment's memory; a page that is not     *)
(* mapped is a fault.  After the last segment the program starts.          *)
SegmentLoaded ==
  /\ pc = "alloc" /\ job = "load" /\ p = Count
  /\ p' = 0
  /\ IF \E page \in Occupied(prog[seg]) : Translate(page) = Absent
     THEN pc' = "fault" /\ UNCHANGED seg
     ELSE IF seg < Len(prog) THEN seg' = seg + 1 /\ UNCHANGED pc
     ELSE pc' = "user" /\ UNCHANGED seg
  /\ UNCHANGED <<bitmap, total_pages, used_pages, owned, page_directory, tables, job,
                 prog, phys, heap_ready, role>>

-----------------------------------------------------------------------------
Init ==
  /\ PmmOff
  /\ page_directory = [d \in 0 .. DIRS - 1 |-> Absent]
  /\ tables = [t \in {} |-> Absent]
  /\ pc = "off" /\ job = "stack" /\ prog = <<>> /\ seg = 0 /\ p = 0 /\ phys = 0
  /\ heap_ready = FALSE
  /\ role = [f \in Frames |-> [job |-> "none", seg |-> 0]]

Next ==
  \/ Boot \/ VmmInit \/ AllocFrame \/ AllocFrameFails
  \/ NewTable \/ NewTableFails \/ MapFrame
  \/ StackMapped \/ HeapMapped \/ SegmentLoaded
  \/ \E program \in Programs : ElfLoad(program)

Spec == Init /\ [][Next]_vars

(* Boot and a load run on one processor and nothing waits: they go on. *)
FairSpec == Spec /\ WF_vars(Next)

-----------------------------------------------------------------------------
(* Properties *)

(* A frame that vmm_map put under a page is memory above the kernel, holds *)
(* no page table, and is under no other page (except the one that the      *)
(* initial identity mapping gives every low frame).  Holds through boot,   *)
(* failed loads and programs with several segments.  Frame 0 is what       *)
(* vmm_init puts under the stack page when there is no memory at all.      *)
MappedFramesPrivate ==
  \A page \in Pages :
    Translate(page) \notin {Absent, page, 0} =>
      LET f == Translate(page)
      IN  /\ f >= kernel_end_page
          /\ \A d \in DOMAIN page_directory : page_directory[d] # f
          /\ \A other \in Pages \ {page} : Translate(other) = f => other = f

(* The frames in use are still below every page that is mapped over the    *)
(* identity mapping: the stack page and the pages of the programs.         *)
FramesLow ==
  /\ used_pages <= STACK_PAGE
  /\ \A program \in Programs : \A i \in DOMAIN program :
       used_pages <= program[i].vaddr \div PAGE_SIZE

(* "Get or create a page table [...] Returns a pointer to the page table"  *)
(* (kernel/vmm.c): as long as the frames in use are low, every page table, *)
(* when it is made and later, is at an address that maps to itself, and    *)
(* vmm_map changes that table and not other memory.  Once a program is so  *)
(* large that they are not, elf_load itself can hide a table: that is the  *)
(* state pc = "wild", about which nothing is claimed.                      *)
TablesReachable ==
  FramesLow /\ pc \notin {"off", "vmm_init"} =>
    /\ pc # "wild"
    /\ \A d \in DOMAIN page_directory :
         page_directory[d] # Absent => Reachable(page_directory[d])

(* When a program starts, each byte of each of its segments is in a frame  *)
(* that was allocated for this segment.                                    *)
SegmentsBacked ==
  pc = "user" =>
    \A i \in DOMAIN prog : \A page \in Occupied(prog[i]) :
      /\ Translate(page) \in Frames
      /\ role[Translate(page)] = [job |-> "load", seg |-> i]

(* A load ends: the program runs, or the shell gets control back, or the   *)
(* processor stops at a page without memory, or writes through a hidden    *)
(* page table.                                                             *)
LoadEnds ==
  job = "load" /\ pc \in {"alloc", "map"} ~> pc \in {"user", "shell", "fault", "wild"}
=============================================================================
