-------------------------------- MODULE Heap --------------------------------
(***************************************************************************)
(* The kernel heap of kernel/heap.c: a singly linked list of blocks, each  *)
(* a header (block_t) followed by its usable bytes, allocated first-fit by *)
(* kmalloc and merged by heap_coalesce at every kfree.                     *)
(*                                                                         *)
(* The two loops of the code are loops here too: one step per list node    *)
(* visited, so that the order in which the list is walked and changed is   *)
(* the code's.  System calls and shell commands, the callers of the heap   *)
(* once the kernel is up, run with interrupts off: a call runs to its end  *)
(* before the next one starts.  (The calls kernel_main makes while it      *)
(* boots, with interrupts already on, are left to the boot model.)         *)
(***************************************************************************)
EXTENDS Integers

CONSTANTS
  HEAP_START,   \* address of the first header (never 0, the null pointer)
  HEAP_SIZE,    \* bytes of heap, headers included
  BLOCK_SIZE,   \* sizeof(block_t)
  WORD,         \* 2^w for the w-bit size_t and pointers
  Requests      \* the sizes kmalloc is called with

Null == 0
HeapEnd == HEAP_START + HEAP_SIZE

(* The heap is word aligned, holds at least one block and lies well inside *)
(* the address space: no address the code computes in it wraps.            *)
ASSUME LayoutAssumption ==
  /\ HEAP_START \in Nat \ {0} /\ HEAP_START % 4 = 0
  /\ BLOCK_SIZE \in Nat \ {0} /\ BLOCK_SIZE % 4 = 0
  /\ HEAP_SIZE \in Nat /\ HEAP_SIZE % 4 = 0 /\ HEAP_SIZE >= BLOCK_SIZE + 4
  /\ WORD \in Nat /\ HeapEnd + BLOCK_SIZE + 4 <= WORD

(* Every caller in the kernel asks for a constant between 1 and 8192; the  *)
(* three sizes whose rounding wraps to 0 (WORD - 3 .. WORD - 1) are not    *)
(* among them.                                                             *)
ASSUME RequestsAssumption == Requests \subseteq 0 .. (WORD - 4)

VARIABLES
  heap_head,    \* Null until heap_init
  heap,         \* the linked headers: address |-> [size, free, next]
  pc,           \* "idle", or the call that is running: "kmalloc", "kfree"
  curr,         \* the loop variable of that call
  req,          \* the size kmalloc was called with
  live          \* ghost: pointer |-> size requested, for the callers' live blocks

vars == <<heap_head, heap, pc, curr, req, live>>

Blocks == DOMAIN heap

EndOf(b) == b + BLOCK_SIZE + heap[b].size

-----------------------------------------------------------------------------
(* Helpers *)

AlignUpMutant(size) == 4 * (size \div 4)

(* size = (size + 3) & ~3, in size_t arithmetic *)
AlignUp(size) == 4 * (((size + 3) % WORD) \div 4)

(* the test of kmalloc's loop *)
Fits(b, size) == heap[b].free /\ heap[b].size >= AlignUp(size)

SplittableMutant(b, size) == heap[b].size >= AlignUp(size) + 4

(* enough left over for a header and at least 4 bytes *)
Splittable(b, size) == heap[b].size >= AlignUp(size) + BLOCK_SIZE + 4

SplitMutant(b, sz) ==
  LET new == b + BLOCK_SIZE + sz
  IN  [a \in Blocks \cup {new} |->
         IF a = new
         THEN [size |-> heap[b].size - sz, free |-> TRUE, next |-> heap[b].next]
         ELSE IF a = b THEN [size |-> sz, free |-> FALSE, next |-> new]
         ELSE heap[a]]

(* The list after block b was cut to sz bytes, in use, and the rest became *)
(* a free block linked after it.                                           *)
Split(b, sz) ==
  LET new == b + BLOCK_SIZE + sz
  IN  [a \in Blocks \cup {new} |->
         IF a = new
         THEN [size |-> heap[b].size - sz - BLOCK_SIZE,
               free |-> TRUE, next |-> heap[b].next]
         ELSE IF a = b THEN [size |-> sz, free |-> FALSE, next |-> new]
         ELSE heap[a]]

(* The list after b absorbed the block that follows it. *)
Merge(b) ==
  LET n == heap[b].next
  IN  [a \in Blocks \ {n} |->
         IF a = b
         THEN [heap[b] EXCEPT !.size = @ + BLOCK_SIZE + heap[n].size,
                              !.next = heap[n].next]
         ELSE heap[a]]

-----------------------------------------------------------------------------
(* heap_init: one free block over the whole range.  The pages under it are *)
(* taken to be mapped (heap_map_pages is the virtual memory manager's).    *)
HeapInit ==
  /\ pc = "idle" /\ heap_head = Null
  /\ heap_head' = HEAP_START
  /\ heap' = [a \in {HEAP_START} |->
                [size |-> HEAP_SIZE - BLOCK_SIZE, free |-> TRUE, next |-> Null]]
  /\ UNCHANGED <<pc, curr, req, live>>

(* the running call returns; its locals are gone *)
Return == pc' = "idle" /\ curr' = Null /\ req' = 0

(* kmalloc(size) up to the loop; size 0 returns NULL at once *)
Kmalloc(size) ==
  /\ pc = "idle"
  /\ size # 0
  /\ pc' = "kmalloc" /\ curr' = heap_head /\ req' = size
  /\ UNCHANGED <<heap_head, heap, live>>

KmallocNextMutant ==
  /\ pc = "kmalloc" /\ curr # Null
  /\ ~Fits(curr, req)
  /\ UNCHANGED vars

KmallocNextMutant2 ==
  /\ pc = "kmalloc" /\ curr # Null
  /\ curr' = heap[curr].next
  /\ UNCHANGED <<heap_head, heap, pc, req, live>>

(* loop: this block is in use or too small *)
KmallocNext ==
  /\ pc = "kmalloc" /\ curr # Null
  /\ ~Fits(curr, req)
  /\ curr' = heap[curr].next
  /\ UNCHANGED <<heap_head, heap, pc, req, live>>

(* loop: the block fits; split it if worthwhile and hand it out *)
KmallocTake ==
  /\ pc = "kmalloc" /\ curr # Null
  /\ Fits(curr, req)
  /\ heap' = IF Splittable(curr, req)
             THEN Split(curr, AlignUp(req))
             ELSE [heap EXCEPT ![curr].free = FALSE]
  /\ live' = [p \in DOMAIN live \cup {curr + BLOCK_SIZE} |->
                IF p = curr + BLOCK_SIZE THEN req ELSE live[p]]
  /\ Return
  /\ UNCHANGED heap_head

(* end of the list: "out of heap memory", NULL *)
KmallocFail ==
  /\ pc = "kmalloc" /\ curr = Null
  /\ Return
  /\ UNCHANGED <<heap_head, heap, live>>

(* kfree(ptr) up to the call of heap_coalesce; kfree(NULL) returns at once. *)
(* Callers free each block they were given once.                           *)
Kfree(ptr) ==
  /\ pc = "idle"
  /\ ptr \in DOMAIN live
  /\ heap' = [heap EXCEPT ![ptr - BLOCK_SIZE].free = TRUE]
  /\ live' = [p \in DOMAIN live \ {ptr} |-> live[p]]
  /\ pc' = "kfree" /\ curr' = heap_head
  /\ UNCHANGED <<heap_head, req>>

CoalesceMergeMutant ==
  /\ pc = "kfree" /\ heap[curr].next # Null
  /\ heap[curr].free /\ heap[heap[curr].next].free
  /\ heap' = Merge(curr)
  /\ curr' = IF heap'[curr].next = Null THEN curr ELSE heap'[curr].next
  /\ UNCHANGED <<heap_head, pc, req, live>>

(* heap_coalesce's loop: merge, and look at the same block again *)
CoalesceMerge ==
  /\ pc = "kfree" /\ heap[curr].next # Null
  /\ heap[curr].free /\ heap[heap[curr].next].free
  /\ heap' = Merge(curr)
  /\ UNCHANGED <<heap_head, pc, curr, req, live>>

(* heap_coalesce's loop: nothing to merge here, go on *)
CoalesceNext ==
  /\ pc = "kfree" /\ heap[curr].next # Null
  /\ ~(heap[curr].free /\ heap[heap[curr].next].free)
  /\ curr' = heap[curr].next
  /\ UNCHANGED <<heap_head, heap, pc, req, live>>

(* heap_coalesce reached the last block; kfree returns *)
CoalesceDone ==
  /\ pc = "kfree" /\ heap[curr].next = Null
  /\ Return
  /\ UNCHANGED <<heap_head, heap, live>>

-----------------------------------------------------------------------------
Init ==
  /\ heap_head = Null
  /\ heap = [a \in {} |-> Null]
  /\ pc = "idle" /\ curr = Null /\ req = 0
  /\ live = [p \in {} |-> 0]

(* one iteration or the end of the call that is running *)
Step == \/ KmallocNext \/ KmallocTake \/ KmallocFail
        \/ CoalesceMerge \/ CoalesceNext \/ CoalesceDone

Next == \/ HeapInit
        \/ \E size \in Requests : Kmalloc(size)
        \/ \E ptr \in DOMAIN live : Kfree(ptr)
        \/ Step

Spec == Init /\ [][Next]_vars

(* The processor executes a call it has started: nothing preempts it.      *)
FairSpec == Spec /\ WF_vars(Step)

-----------------------------------------------------------------------------
(* Properties *)

TypeOK ==
  /\ heap_head \in {Null, HEAP_START}
  /\ Blocks \subseteq HEAP_START .. (HeapEnd - 1)
  /\ heap \in [Blocks -> [size : Nat, free : BOOLEAN,
                          next : {Null} \cup (HEAP_START .. (HeapEnd - 1))]]
  /\ pc \in {"idle", "kmalloc", "kfree"}
  /\ curr \in {Null} \cup Blocks
  /\ req \in {0} \cup Requests
  /\ DOMAIN live \subseteq HEAP_START .. (HeapEnd - 1)
  /\ live \in [DOMAIN live -> Requests]

(* The linked blocks tile the heap: each one ends where the next one it    *)
(* links to begins, the last one at the end of the heap, and the first is  *)
(* the list head.  Splitting and merging lose no byte and leave no         *)
(* unreachable block (heap.c, kmalloc's split and heap_coalesce).          *)
Tiled ==
  heap_head # Null =>
    /\ heap_head \in Blocks
    /\ \A b \in Blocks :
         /\ heap[b].next = Null => EndOf(b) = HeapEnd
         /\ heap[b].next # Null => heap[b].next \in Blocks /\ heap[b].next = EndOf(b)
    /\ \A b, c \in Blocks : b < c => EndOf(b) <= c

(* Memory handed out by kmalloc and not yet freed is word aligned, lies    *)
(* inside the heap, is as large as requested, and shares no byte with      *)
(* another live allocation or with any block header, at every step of      *)
(* every later call.                                                       *)
LiveBlocksDisjoint ==
  \A p \in DOMAIN live :
    /\ p % 4 = 0
    /\ p + live[p] <= HeapEnd
    /\ \A q \in DOMAIN live :
         q # p => p + live[p] <= q \/ q + live[q] <= p
    /\ \A b \in Blocks : p + live[p] <= b \/ b + BLOCK_SIZE <= p

(* "Merge adjacent free blocks to reduce fragmentation": between calls no  *)
(* two neighbours in the list are both free.                               *)
Coalesced ==
  pc \in {"idle", "kmalloc"} =>
    \A b \in Blocks :
      heap[b].free /\ heap[b].next # Null => ~heap[heap[b].next].free

(* Fragmentation never outlives the allocations that caused it: once every *)
(* block is freed, the heap is again the single free block heap_init made. *)
AllFreedRestoresHeap ==
  pc = "idle" /\ heap_head # Null /\ DOMAIN live = {} =>
    heap = [a \in {HEAP_START} |->
              [size |-> HEAP_SIZE - BLOCK_SIZE, free |-> TRUE, next |-> Null]]

(* kmalloc takes the lowest block that is free and large enough, and       *)
(* reports "out of heap memory" only when there is none: the blocks its    *)
(* loop has passed do not fit.                                             *)
FirstFit ==
  pc = "kmalloc" =>
    \A b \in Blocks : curr = Null \/ b < curr => ~Fits(b, req)

(* Every kmalloc and kfree returns: the walks over the list end, although  *)
(* heap_coalesce changes the list it walks.                                *)
CallsReturn == pc # "idle" ~> pc = "idle"
=============================================================================
