----------------------------- MODULE HeapProofs -----------------------------
(***************************************************************************)
(* Proofs about the kernel heap, for every heap size, header size, word    *)
(* width and set of request sizes that satisfy the module's assumptions.   *)
(***************************************************************************)
EXTENDS Heap, TLAPS

Address == HEAP_START .. (HeapEnd - 1)
Header == [size : Nat, free : BOOLEAN, next : {Null} \cup Address]

(* The parts of the inductive invariant. *)

Typed ==
  /\ heap_head \in {Null, HEAP_START}
  /\ Blocks \subseteq Address
  /\ heap \in [Blocks -> Header]
  /\ pc \in {"idle", "kmalloc", "kfree"}
  /\ curr \in {Null} \cup Blocks
  /\ req \in {0} \cup Requests
  /\ DOMAIN live \subseteq Address
  /\ live \in [DOMAIN live -> Requests]

(* before heap_init there is nothing; after it the list has a head *)
HeadOK ==
  /\ heap_head = Null => Blocks = {} /\ DOMAIN live = {} /\ pc # "kfree"
  /\ heap_head # Null => HEAP_START \in Blocks

(* each block by itself, and the link to the next one *)
BlocksOK ==
  \A b \in Blocks :
    /\ b % 4 = 0 /\ heap[b].size % 4 = 0 /\ heap[b].size >= 4
    /\ b + BLOCK_SIZE + heap[b].size <= HeapEnd
    /\ heap[b].next = Null => b + BLOCK_SIZE + heap[b].size = HeapEnd
    /\ heap[b].next # Null => /\ heap[b].next \in Blocks
                              /\ heap[b].next = b + BLOCK_SIZE + heap[b].size

(* no two blocks overlap *)
Ordered ==
  \A b, c \in Blocks : b < c => b + BLOCK_SIZE + heap[b].size <= c

(* the callers' live allocations are exactly the blocks in use *)
LiveOK ==
  /\ \A p \in DOMAIN live : /\ p - BLOCK_SIZE \in Blocks
                            /\ ~heap[p - BLOCK_SIZE].free
                            /\ heap[p - BLOCK_SIZE].size >= live[p]
  /\ \A b \in Blocks : ~heap[b].free => b + BLOCK_SIZE \in DOMAIN live

(* Merged neighbours stay merged; while heap_coalesce runs, that is so for *)
(* the blocks it has passed.                                               *)
MergedSoFar ==
  \A b \in Blocks :
    /\ (pc # "kfree" \/ b < curr)
    /\ heap[b].free /\ heap[b].next # Null
    => ~heap[heap[b].next].free

ControlOK ==
  /\ pc = "kfree" => curr # Null
  /\ pc = "kmalloc" => req \in Requests \ {0}

IInv == /\ Typed /\ HeadOK /\ BlocksOK /\ Ordered
        /\ LiveOK /\ MergedSoFar /\ ControlOK /\ FirstFit

-----------------------------------------------------------------------------
(* The rounding of kmalloc gives a positive multiple of 4 that is at least *)
(* the size requested: nothing wraps for the sizes the kernel asks for.    *)
LEMMA AlignUpFacts ==
  ASSUME NEW size \in Requests
  PROVE  /\ AlignUp(size) \in Nat
         /\ AlignUp(size) >= size
         /\ AlignUp(size) % 4 = 0
         /\ size # 0 => AlignUp(size) >= 4
<1>1. size \in Nat /\ size + 3 < WORD /\ WORD \in Nat
  BY LayoutAssumption, RequestsAssumption DEF HeapEnd
<1>2. (size + 3) % WORD = size + 3
  BY <1>1
<1>3. AlignUp(size) = 4 * ((size + 3) \div 4)
  BY <1>2 DEF AlignUp
<1>. HIDE DEF AlignUp
<1>4. QED
  BY <1>1, <1>3

(* Initially the heap does not exist and the invariant holds. *)
LEMMA InitIInv == Init => IInv
BY LayoutAssumption
   DEF Init, IInv, Typed, HeadOK, BlocksOK, Ordered, LiveOK, MergedSoFar,
       ControlOK, FirstFit, Blocks, Null, Header

-----------------------------------------------------------------------------
(* Every step preserves the invariant: one lemma per action. *)

(* heap_init makes one free block over the whole heap *)
LEMMA HeapInitIInv == IInv /\ HeapInit => IInv'
<1>. SUFFICES ASSUME IInv, HeapInit PROVE IInv'
  OBVIOUS
<1>. DEFINE first == [size |-> HEAP_SIZE - BLOCK_SIZE, free |-> TRUE, next |-> Null]
<1>1. /\ heap_head' = HEAP_START /\ heap' = [a \in {HEAP_START} |-> first]
      /\ pc = "idle" /\ heap_head = Null /\ UNCHANGED <<pc, curr, req, live>>
  BY DEF HeapInit
<1>2. Blocks' = {HEAP_START} /\ heap'[HEAP_START] = first
  BY <1>1 DEF Blocks
<1>3. /\ HEAP_START \in Nat /\ HEAP_START # 0 /\ HEAP_START % 4 = 0
      /\ BLOCK_SIZE \in Nat /\ HEAP_SIZE - BLOCK_SIZE \in Nat
      /\ HEAP_SIZE - BLOCK_SIZE >= 4 /\ (HEAP_SIZE - BLOCK_SIZE) % 4 = 0
      /\ HEAP_START \in Address
      /\ HEAP_START + BLOCK_SIZE + (HEAP_SIZE - BLOCK_SIZE) = HeapEnd
  BY LayoutAssumption DEF Address, HeapEnd
<1>4. DOMAIN live = {} /\ Blocks = {}
  BY <1>1 DEF IInv, HeadOK
<1>5. Typed'
  <2>1. first \in Header
    BY <1>3 DEF Header
  <2>2. heap' \in [Blocks' -> Header]
    BY <1>1, <1>2, <2>1
  <2>3. curr' = Null
    BY <1>1, <1>4 DEF IInv, Typed
  <2>4. Blocks' \subseteq Address
    BY <1>2, <1>3
  <2> QED
    BY <1>1, <2>2, <2>3, <2>4 DEF IInv, Typed
<1>6. HeadOK' /\ ControlOK'
  BY <1>1, <1>2, <1>3 DEF HeadOK, ControlOK, Null
<1>7. BlocksOK' /\ Ordered'
  <2>1. first.size = HEAP_SIZE - BLOCK_SIZE /\ first.next = Null
    OBVIOUS
  <2>. HIDE DEF first
  <2> QED
    BY <1>2, <1>3, <2>1 DEF BlocksOK, Ordered
<1>8. LiveOK' /\ MergedSoFar' /\ FirstFit'
  BY <1>1, <1>2, <1>4 DEF LiveOK, MergedSoFar, FirstFit
<1>9. QED
  BY <1>5, <1>6, <1>7, <1>8 DEF IInv

(* starting a kmalloc changes only the loop state *)
LEMMA KmallocIInv ==
  ASSUME IInv, NEW size \in Requests, Kmalloc(size) PROVE IInv'
BY LayoutAssumption
   DEF IInv, Kmalloc, Typed, HeadOK, BlocksOK, Ordered, LiveOK, MergedSoFar,
       ControlOK, FirstFit, Blocks, Null, Fits, Address, HeapEnd

(* Nothing lies between a block and the one it links to: a block below the *)
(* successor of c is c itself or below c.                                  *)
LEMMA Successor ==
  ASSUME Typed, BlocksOK, Ordered, NEW c \in Blocks, NEW b \in Blocks,
         heap[c].next = Null \/ b < heap[c].next
  PROVE  b < c \/ b = c
<1>1. b \in Int /\ c \in Int /\ b < HeapEnd /\ BLOCK_SIZE \in Nat
      /\ heap[c].size \in Nat /\ HeapEnd \in Int
  BY LayoutAssumption DEF Typed, Address, Header, HeapEnd
<1>2. SUFFICES ASSUME c < b PROVE FALSE
  BY <1>1
<1>3. c + BLOCK_SIZE + heap[c].size <= b
  BY <1>2 DEF Ordered
<1>4. QED
  BY <1>1, <1>3 DEF BlocksOK

(* the search moves on: the block it leaves does not fit *)
LEMMA KmallocNextIInv == IInv /\ KmallocNext => IInv'
<1>. SUFFICES ASSUME IInv, KmallocNext PROVE IInv'
  OBVIOUS
<1>1. curr \in Blocks /\ ~Fits(curr, req)
  BY DEF IInv, Typed, KmallocNext
<1>2. Typed' /\ HeadOK' /\ BlocksOK' /\ Ordered' /\ LiveOK' /\ MergedSoFar'
      /\ ControlOK'
  BY <1>1 DEF IInv, KmallocNext, Typed, HeadOK, BlocksOK, Ordered, LiveOK,
              MergedSoFar, ControlOK, Blocks
<1>3. FirstFit'
  <2>. SUFFICES ASSUME NEW b \in Blocks,
                       heap[curr].next = Null \/ b < heap[curr].next
                PROVE  ~Fits(b, req)
    BY DEF FirstFit, KmallocNext, Blocks, Fits
  <2>1. b < curr \/ b = curr
    BY <1>1, Successor DEF IInv
  <2>2. QED
    BY <1>1, <2>1 DEF IInv, FirstFit, KmallocNext
<1>4. QED
  BY <1>2, <1>3 DEF IInv

(* the search ends without a block *)
LEMMA KmallocFailIInv == IInv /\ KmallocFail => IInv'
BY LayoutAssumption
   DEF IInv, KmallocFail, Return, Typed, HeadOK, BlocksOK, Ordered, LiveOK,
       MergedSoFar, ControlOK, FirstFit, Blocks, Null

(* freeing a block: the neighbours are merged by the walk that follows *)
LEMMA KfreeIInv ==
  ASSUME IInv, NEW ptr \in DOMAIN live, Kfree(ptr) PROVE IInv'
<1>. DEFINE f == ptr - BLOCK_SIZE
<1>1. f \in Blocks /\ heap_head = HEAP_START /\ HEAP_START \in Blocks
      /\ HEAP_START # Null /\ ptr \in Int /\ f \in Int
  BY LayoutAssumption DEF IInv, LiveOK, HeadOK, Typed, Null, Address, HeapEnd
<1>2. /\ heap' \in [Blocks -> Header]
      /\ heap'[f].size = heap[f].size /\ heap'[f].next = heap[f].next
      /\ heap'[f].free = TRUE
      /\ \A b \in Blocks : b # f => heap'[b] = heap[b]
  BY <1>1 DEF IInv, Typed, Kfree, Header
<1>3. \A b \in Blocks : heap'[b].size = heap[b].size /\ heap'[b].next = heap[b].next
  BY <1>2
<1>4. Blocks' = Blocks /\ heap_head' = heap_head
  BY <1>2 DEF Blocks, Kfree, IInv, Typed
<1>5. pc' = "kfree" /\ curr' = HEAP_START /\ req' = req
      /\ live' = [p \in DOMAIN live \ {ptr} |-> live[p]]
  BY <1>1 DEF Kfree
<1>6. Typed'
  BY <1>1, <1>2, <1>4, <1>5 DEF IInv, Typed
<1>7. HeadOK' /\ ControlOK' /\ FirstFit'
  BY <1>1, <1>4, <1>5 DEF HeadOK, ControlOK, FirstFit
<1>8. BlocksOK' /\ Ordered'
  BY <1>3, <1>4 DEF IInv, BlocksOK, Ordered
<1>9. LiveOK'
  <2>1. \A p \in DOMAIN live : p \in Int
    BY LayoutAssumption DEF IInv, Typed, Address, HeapEnd
  <2>2. \A p \in DOMAIN live : p # ptr => p - BLOCK_SIZE # f
    BY <2>1, LayoutAssumption
  <2>3. ASSUME NEW p \in DOMAIN live' 
        PROVE /\ p - BLOCK_SIZE \in Blocks'
              /\ ~heap'[p - BLOCK_SIZE].free
              /\ heap'[p - BLOCK_SIZE].size >= live'[p]
    BY <1>2, <1>4, <1>5, <2>2 DEF IInv, LiveOK
  <2>4. ASSUME NEW b \in Blocks', ~heap'[b].free
        PROVE  b + BLOCK_SIZE \in DOMAIN live'
    <3>1. b \in Blocks /\ b # f /\ b \in Int
      BY <1>2, <1>4, <2>4, LayoutAssumption DEF IInv, Typed, Address, HeapEnd
    <3>2. b + BLOCK_SIZE \in DOMAIN live /\ b + BLOCK_SIZE # ptr
      BY <1>1, <1>2, <2>4, <3>1, LayoutAssumption DEF IInv, LiveOK
    <3>3. QED
      BY <1>5, <3>2
  <2>5. QED
    BY <2>3, <2>4 DEF LiveOK
<1>10. MergedSoFar'
  BY <1>4, <1>5, LayoutAssumption DEF IInv, Typed, MergedSoFar, Address, HeapEnd
<1>11. QED
  BY <1>6, <1>7, <1>8, <1>9, <1>10 DEF IInv

(* heap_coalesce goes on: the block it leaves and the next are not both free *)
LEMMA CoalesceNextIInv == IInv /\ CoalesceNext => IInv'
<1>. SUFFICES ASSUME IInv, CoalesceNext PROVE IInv'
  OBVIOUS
<1>1. curr \in Blocks /\ heap[curr].next \in Blocks /\ heap[curr].next # Null
  BY DEF IInv, Typed, CoalesceNext, ControlOK, BlocksOK
<1>2. Typed' /\ HeadOK' /\ BlocksOK' /\ Ordered' /\ LiveOK' /\ ControlOK'
      /\ FirstFit'
  BY <1>1 DEF IInv, CoalesceNext, Typed, HeadOK, BlocksOK, Ordered, LiveOK,
              ControlOK, FirstFit, Blocks
<1>3. MergedSoFar'
  <2>. SUFFICES ASSUME NEW b \in Blocks, b < heap[curr].next,
                       heap[b].free, heap[b].next # Null
                PROVE  ~heap[heap[b].next].free
    BY DEF MergedSoFar, CoalesceNext, Blocks
  <2>1. b < curr \/ b = curr
    BY <1>1, Successor DEF IInv
  <2>2. QED
    BY <2>1 DEF IInv, MergedSoFar, CoalesceNext
<1>4. QED
  BY <1>2, <1>3 DEF IInv

(* heap_coalesce reached the last block: every neighbour was looked at *)
LEMMA CoalesceDoneIInv == IInv /\ CoalesceDone => IInv'
<1>. SUFFICES ASSUME IInv, CoalesceDone PROVE IInv'
  OBVIOUS
<1>1. curr \in Blocks /\ heap[curr].next = Null
  BY DEF IInv, Typed, CoalesceDone, ControlOK
<1>2. Typed' /\ HeadOK' /\ BlocksOK' /\ Ordered' /\ LiveOK' /\ ControlOK'
      /\ FirstFit'
  BY <1>1 DEF IInv, CoalesceDone, Return, Typed, HeadOK, BlocksOK, Ordered,
              LiveOK, ControlOK, FirstFit, Blocks
<1>3. MergedSoFar'
  <2>. SUFFICES ASSUME NEW b \in Blocks, heap[b].free, heap[b].next # Null
                PROVE  ~heap[heap[b].next].free
    BY DEF MergedSoFar, CoalesceDone, Return, Blocks
  <2>1. b < curr \/ b = curr
    BY <1>1, Successor DEF IInv
  <2>2. QED
    BY <1>1, <2>1 DEF IInv, MergedSoFar, CoalesceDone
<1>4. QED
  BY <1>2, <1>3 DEF IInv

(* the block found is handed out whole *)
LEMMA KmallocTakeWholeIInv ==
  ASSUME IInv, KmallocTake, ~Splittable(curr, req) PROVE IInv'
<1>. DEFINE p == curr + BLOCK_SIZE
<1>1. /\ curr \in Blocks /\ curr \in Int /\ BLOCK_SIZE \in Nat
      /\ req \in Requests /\ req # 0
      /\ heap[curr].free /\ heap[curr].size >= req
      /\ heap_head = HEAP_START
  <2>1. curr \in Blocks /\ req \in Requests /\ req # 0 /\ Fits(curr, req)
    BY DEF IInv, Typed, ControlOK, KmallocTake
  <2>2. req \in Nat /\ heap[curr].size \in Nat
    BY <2>1, LayoutAssumption, RequestsAssumption DEF IInv, Typed, Header, HeapEnd
  <2>3. heap[curr].size >= req
    BY <2>1, <2>2, AlignUpFacts DEF Fits
  <2>4. QED
    BY <2>1, <2>3, LayoutAssumption DEF IInv, Typed, HeadOK, Fits, Address, HeapEnd
<1>2. /\ heap' \in [Blocks -> Header]
      /\ heap'[curr].size = heap[curr].size /\ heap'[curr].next = heap[curr].next
      /\ heap'[curr].free = FALSE
      /\ \A b \in Blocks : b # curr => heap'[b] = heap[b]
  BY <1>1 DEF IInv, Typed, KmallocTake, Header
<1>3. \A b \in Blocks : heap'[b].size = heap[b].size /\ heap'[b].next = heap[b].next
  BY <1>2
<1>4. Blocks' = Blocks /\ heap_head' = heap_head
  BY <1>2 DEF Blocks, KmallocTake
<1>5. pc' = "idle" /\ curr' = Null /\ req' = 0
      /\ live' = [q \in DOMAIN live \cup {p} |-> IF q = p THEN req ELSE live[q]]
  BY DEF KmallocTake, Return
<1>6. Typed'
  <2>1. p \in Address
    BY <1>1, LayoutAssumption DEF IInv, Typed, BlocksOK, Address, Header, HeapEnd
  <2>2. QED
    BY <1>1, <1>2, <1>4, <1>5, <2>1 DEF IInv, Typed
<1>7. HeadOK' /\ ControlOK' /\ FirstFit'
  BY <1>1, <1>4, <1>5, LayoutAssumption DEF IInv, HeadOK, ControlOK, FirstFit, Null
<1>8. BlocksOK' /\ Ordered'
  BY <1>3, <1>4 DEF IInv, BlocksOK, Ordered
<1>9. LiveOK'
  <2>1. ASSUME NEW q \in DOMAIN live'
        PROVE /\ q - BLOCK_SIZE \in Blocks'
              /\ ~heap'[q - BLOCK_SIZE].free
              /\ heap'[q - BLOCK_SIZE].size >= live'[q]
    <3>1. CASE q = p
      <4>1. q - BLOCK_SIZE = curr
        BY <1>1, <3>1
      <4>2. QED
        BY <1>1, <1>2, <1>4, <1>5, <3>1, <4>1
    <3>2. CASE q # p
      <4>1. q \in DOMAIN live /\ live'[q] = live[q]
        BY <1>5, <3>2
      <4>2. q - BLOCK_SIZE \in Blocks /\ ~heap[q - BLOCK_SIZE].free
            /\ heap[q - BLOCK_SIZE].size >= live[q]
        BY <4>1 DEF IInv, LiveOK
      <4>3. q - BLOCK_SIZE # curr
        BY <1>1, <4>2
      <4>4. QED
        BY <1>2, <1>4, <4>1, <4>2, <4>3
    <3>3. QED
      BY <3>1, <3>2
  <2>2. ASSUME NEW b \in Blocks', ~heap'[b].free
        PROVE  b + BLOCK_SIZE \in DOMAIN live'
    BY <1>2, <1>4, <1>5, <2>2 DEF IInv, LiveOK
  <2>3. QED
    BY <2>1, <2>2 DEF LiveOK
<1>10. MergedSoFar'
  <2>. SUFFICES ASSUME NEW b \in Blocks, heap'[b].free, heap'[b].next # Null
                PROVE  ~heap'[heap'[b].next].free
    BY <1>4 DEF MergedSoFar
  <2>1. b # curr /\ heap[b].free /\ heap[b].next # Null
    BY <1>2
  <2>2. ~heap[heap[b].next].free /\ heap[b].next \in Blocks
    BY <2>1 DEF IInv, MergedSoFar, BlocksOK, KmallocTake
  <2>3. QED
    BY <1>2, <1>3, <2>1, <2>2
<1>11. QED
  BY <1>6, <1>7, <1>8, <1>9, <1>10 DEF IInv

(* the block found is split: the new block is free and follows it *)
LEMMA KmallocTakeSplitIInv ==
  ASSUME IInv, KmallocTake, Splittable(curr, req) PROVE IInv'
<1>. DEFINE p == curr + BLOCK_SIZE
            sz == AlignUp(req)
            new == curr + BLOCK_SIZE + sz
<1>1. /\ curr \in Blocks /\ req \in Requests /\ req # 0
      /\ Fits(curr, req) /\ heap[curr].free /\ heap_head = HEAP_START
  BY DEF IInv, Typed, ControlOK, KmallocTake, HeadOK, Fits
<1>2. /\ curr \in Nat /\ curr > 0 /\ curr % 4 = 0 /\ curr >= HEAP_START
      /\ BLOCK_SIZE \in Nat \ {0} /\ BLOCK_SIZE % 4 = 0
      /\ heap[curr].size \in Nat /\ heap[curr].size % 4 = 0
      /\ HeapEnd \in Nat /\ HEAP_START \in Nat \ {0}
      /\ curr + BLOCK_SIZE + heap[curr].size <= HeapEnd
  BY <1>1, LayoutAssumption DEF IInv, Typed, BlocksOK, Header, Address, HeapEnd
<1>3. /\ sz \in Nat /\ sz >= 4 /\ sz % 4 = 0 /\ sz >= req
      /\ heap[curr].size >= sz + BLOCK_SIZE + 4
  BY <1>1, AlignUpFacts DEF Splittable
<1>. HIDE DEF sz
<1>4. /\ new \in Nat /\ new > curr /\ new \in Address /\ p \in Address
      /\ new + BLOCK_SIZE < HeapEnd /\ new < curr + BLOCK_SIZE + heap[curr].size
      /\ new % 4 = 0 /\ (heap[curr].size - sz - BLOCK_SIZE) % 4 = 0
      /\ heap[curr].size - sz - BLOCK_SIZE \in Nat
      /\ heap[curr].size - sz - BLOCK_SIZE >= 4
  BY <1>2, <1>3 DEF Address
<1>5. new \notin Blocks
  BY <1>1, <1>2, <1>4 DEF IInv, Ordered
<1>6. Blocks' = Blocks \cup {new} /\ heap_head' = heap_head
  BY DEF KmallocTake, Split, Blocks, sz
<1>7. /\ heap'[new] = [size |-> heap[curr].size - sz - BLOCK_SIZE,
                       free |-> TRUE, next |-> heap[curr].next]
      /\ heap'[curr] = [size |-> sz, free |-> FALSE, next |-> new]
      /\ \A b \in Blocks : b # curr => heap'[b] = heap[b]
  BY <1>1, <1>5 DEF KmallocTake, Split, sz
<1>8. pc' = "idle" /\ curr' = Null /\ req' = 0
      /\ live' = [q \in DOMAIN live \cup {p} |-> IF q = p THEN req ELSE live[q]]
  BY DEF KmallocTake, Return
<1>. HIDE DEF new
<1>9. Typed'
  <2>1. heap' \in [Blocks' -> Header]
    <3>1. heap' = [b \in Blocks' |-> heap'[b]]
      BY DEF KmallocTake, Split, Blocks
    <3>2. ASSUME NEW b \in Blocks' PROVE heap'[b] \in Header
      <4>1. \A c \in Blocks : heap[c] \in Header
        BY DEF IInv, Typed
      <4>2. heap[curr].next \in {Null} \cup Address
        BY <1>1, <4>1 DEF Header
      <4>3. heap'[new] \in Header /\ heap'[curr] \in Header
        BY <1>3, <1>4, <1>7, <4>2 DEF Header
      <4>4. QED
        BY <1>6, <1>7, <4>1, <4>3
    <3>3. QED
      BY <3>1, <3>2
  <2>2. QED
    BY <1>1, <1>4, <1>6, <1>8, <2>1 DEF IInv, Typed
<1>10. HeadOK' /\ ControlOK' /\ FirstFit'
  BY <1>1, <1>2, <1>6, <1>8 DEF IInv, HeadOK, ControlOK, FirstFit, Null
<1>11. BlocksOK'
  <2>1. ASSUME NEW b \in Blocks, b # curr
        PROVE /\ b % 4 = 0 /\ heap'[b].size % 4 = 0 /\ heap'[b].size >= 4
              /\ b + BLOCK_SIZE + heap'[b].size <= HeapEnd
              /\ heap'[b].next = Null => b + BLOCK_SIZE + heap'[b].size = HeapEnd
              /\ heap'[b].next # Null =>
                   /\ heap'[b].next \in Blocks'
                   /\ heap'[b].next = b + BLOCK_SIZE + heap'[b].size
    BY <1>6, <1>7, <2>1 DEF IInv, BlocksOK
  <2>2. new # Null
    BY <1>2, <1>4 DEF Null
  <2>3. /\ curr % 4 = 0 /\ heap'[curr].size % 4 = 0 /\ heap'[curr].size >= 4
        /\ curr + BLOCK_SIZE + heap'[curr].size <= HeapEnd
        /\ heap'[curr].next = new /\ new \in Blocks'
        /\ new = curr + BLOCK_SIZE + heap'[curr].size
    BY <1>2, <1>3, <1>4, <1>6, <1>7 DEF new
  <2>4. /\ new % 4 = 0 /\ heap'[new].size % 4 = 0 /\ heap'[new].size >= 4
        /\ new + BLOCK_SIZE + heap'[new].size = curr + BLOCK_SIZE + heap[curr].size
        /\ heap'[new].next = heap[curr].next
    BY <1>2, <1>3, <1>4, <1>7 DEF new
  <2>5. QED
    BY <1>1, <1>6, <2>1, <2>2, <2>3, <2>4 DEF IInv, BlocksOK
<1>12. Ordered'
  <2>1. SUFFICES ASSUME NEW b \in Blocks', NEW c \in Blocks', b < c
                 PROVE  b + BLOCK_SIZE + heap'[b].size <= c
    BY DEF Ordered
  <2>2. \A d \in Blocks : d \in Nat /\ heap[d].size \in Nat
    BY LayoutAssumption DEF IInv, Typed, Address, Header, HeapEnd
  <2>3. new + BLOCK_SIZE + heap'[new].size = curr + BLOCK_SIZE + heap[curr].size
        /\ curr + BLOCK_SIZE + heap'[curr].size = new
    BY <1>2, <1>3, <1>4, <1>7 DEF new
  <2>4. CASE b = new
    <3>1. c \in Blocks /\ curr < c
      BY <1>2, <1>4, <1>6, <2>1, <2>2, <2>4
    <3>2. QED
      BY <1>1, <2>3, <2>4, <3>1 DEF IInv, Ordered
  <2>5. CASE b = curr
    <3>1. CASE c = new
      BY <1>4, <2>3, <2>5, <3>1
    <3>2. CASE c # new
      <4>1. curr + BLOCK_SIZE + heap[curr].size <= c
        BY <1>1, <1>6, <2>1, <2>5, <3>2 DEF IInv, Ordered
      <4>2. c \in Nat
        BY <1>6, <2>2, <3>2
      <4>3. QED
        BY <1>2, <1>3, <1>7, <2>5, <4>1, <4>2
    <3>3. QED
      BY <3>1, <3>2
  <2>6. CASE b # new /\ b # curr
    <3>1. b \in Blocks /\ heap'[b] = heap[b]
      BY <1>6, <1>7, <2>6
    <3>2. CASE c = new
      <4>1. b < curr
        <5>1. ~(curr < b)
          BY <1>1, <1>2, <1>4, <2>1, <2>2, <3>1, <3>2 DEF IInv, Ordered
        <5>2. QED
          BY <1>2, <2>2, <2>6, <3>1, <5>1
      <4>2. b + BLOCK_SIZE + heap[b].size <= curr
        BY <1>1, <3>1, <4>1 DEF IInv, Ordered
      <4>3. QED
        BY <1>2, <1>4, <2>2, <3>1, <3>2, <4>2
    <3>3. CASE c # new
      BY <1>6, <2>1, <3>1, <3>3 DEF IInv, Ordered
    <3>4. QED
      BY <3>2, <3>3
  <2>7. QED
    BY <2>4, <2>5, <2>6
<1>13. LiveOK'
  <2>1. ASSUME NEW q \in DOMAIN live'
        PROVE /\ q - BLOCK_SIZE \in Blocks'
              /\ ~heap'[q - BLOCK_SIZE].free
              /\ heap'[q - BLOCK_SIZE].size >= live'[q]
    <3>1. CASE q = p
      <4>1. q - BLOCK_SIZE = curr
        BY <1>2, <3>1
      <4>2. QED
        BY <1>1, <1>3, <1>6, <1>7, <1>8, <3>1, <4>1
    <3>2. CASE q # p
      <4>1. q \in DOMAIN live /\ live'[q] = live[q]
        BY <1>8, <3>2
      <4>2. q - BLOCK_SIZE \in Blocks /\ ~heap[q - BLOCK_SIZE].free
            /\ heap[q - BLOCK_SIZE].size >= live[q]
        BY <4>1 DEF IInv, LiveOK
      <4>3. q - BLOCK_SIZE # curr
        BY <1>1, <4>2
      <4>4. QED
        BY <1>6, <1>7, <4>1, <4>2, <4>3
    <3>3. QED
      BY <3>1, <3>2
  <2>2. ASSUME NEW b \in Blocks', ~heap'[b].free
        PROVE  b + BLOCK_SIZE \in DOMAIN live'
    <3>1. b # new
      BY <1>7, <2>2
    <3>2. QED
      BY <1>6, <1>7, <1>8, <2>2, <3>1 DEF IInv, LiveOK
  <2>3. QED
    BY <2>1, <2>2 DEF LiveOK
<1>14. MergedSoFar'
  <2>. SUFFICES ASSUME NEW b \in Blocks', heap'[b].free, heap'[b].next # Null
                PROVE  ~heap'[heap'[b].next].free
    BY DEF MergedSoFar
  <2>1. b # curr
    BY <1>7
  <2>2. CASE b = new
    <3>1. heap'[b].next = heap[curr].next
      BY <1>7, <2>2
    <3>2. ~heap[heap[curr].next].free /\ heap[curr].next \in Blocks
      BY <1>1, <3>1 DEF IInv, MergedSoFar, BlocksOK, KmallocTake
    <3>3. heap[curr].next # curr
      BY <1>1, <3>2
    <3>4. QED
      BY <1>7, <3>1, <3>2, <3>3
  <2>3. CASE b # new
    <3>1. b \in Blocks /\ heap'[b] = heap[b]
      BY <1>6, <1>7, <2>1, <2>3
    <3>2. ~heap[heap[b].next].free /\ heap[b].next \in Blocks
      BY <3>1 DEF IInv, MergedSoFar, BlocksOK, KmallocTake
    <3>3. heap[b].next # curr
      BY <1>1, <3>2
    <3>4. QED
      BY <1>7, <3>1, <3>2, <3>3
  <2>4. QED
    BY <2>2, <2>3
<1>15. QED
  BY <1>9, <1>10, <1>11, <1>12, <1>13, <1>14 DEF IInv

(* heap_coalesce merges curr with the free block after it *)
LEMMA CoalesceMergeIInv ==
  ASSUME IInv, CoalesceMerge PROVE IInv'
<1>. DEFINE n == heap[curr].next
<1>1. curr \in Blocks /\ n \in Blocks /\ n # Null /\ pc = "kfree"
      /\ heap[curr].free /\ heap[n].free
      /\ n = curr + BLOCK_SIZE + heap[curr].size
  BY DEF IInv, Typed, ControlOK, BlocksOK, CoalesceMerge
<1>2. /\ \A b \in Blocks : b \in Nat /\ b >= HEAP_START /\ heap[b].size \in Nat
                            /\ heap[b] \in Header
      /\ BLOCK_SIZE \in Nat \ {0} /\ BLOCK_SIZE % 4 = 0 /\ HEAP_START \in Nat \ {0}
  BY LayoutAssumption DEF IInv, Typed, Address, Header, HeapEnd
<1>3. n > curr
  BY <1>1, <1>2
<1>4. Blocks' = Blocks \ {n}
  BY DEF CoalesceMerge, Merge, Blocks
<1>5. UNCHANGED <<heap_head, pc, curr, req, live>>
  BY DEF CoalesceMerge
<1>6. /\ heap'[curr].size = heap[curr].size + BLOCK_SIZE + heap[n].size
      /\ heap'[curr].next = heap[n].next
      /\ heap'[curr].free = heap[curr].free
      /\ heap'[curr] \in Header
      /\ \A b \in Blocks : b # curr /\ b # n => heap'[b] = heap[b]
  <2>1. heap'[curr] = [heap[curr] EXCEPT !.size = @ + BLOCK_SIZE + heap[n].size,
                                         !.next = heap[n].next]
    BY <1>1, <1>2, <1>3 DEF CoalesceMerge, Merge
  <2>2. heap[curr] \in Header /\ heap[n] \in Header
    BY <1>1, <1>2
  <2>3. \A b \in Blocks : b # curr /\ b # n => heap'[b] = heap[b]
    BY DEF CoalesceMerge, Merge
  <2>4. heap'[curr].size = heap[curr].size + BLOCK_SIZE + heap[n].size
        /\ heap'[curr].next = heap[n].next /\ heap'[curr].free = heap[curr].free
    BY <2>1, <2>2 DEF Header
  <2>5. heap[curr].size + BLOCK_SIZE + heap[n].size \in Nat
    BY <1>1, <1>2
  <2>6. heap'[curr] \in Header
    BY <2>1, <2>2, <2>5 DEF Header
  <2>7. QED
    BY <2>3, <2>4, <2>6
<1>7. Blocks' \subseteq Blocks /\ curr \in Blocks' /\ n \notin Blocks'
  BY <1>1, <1>2, <1>3, <1>4
<1>. HIDE DEF n
<1>8. Typed'
  <2>1. heap' = [b \in Blocks' |-> heap'[b]]
    BY DEF CoalesceMerge, Merge, Blocks
  <2>2. heap' \in [Blocks' -> Header]
    BY <1>2, <1>4, <1>6, <2>1
  <2>3. QED
    BY <1>4, <1>5, <1>7, <2>2 DEF IInv, Typed
<1>9. HeadOK' /\ ControlOK' /\ FirstFit'
  <2>1. n # HEAP_START
    BY <1>1, <1>2, <1>3
  <2>2. QED
    BY <1>1, <1>4, <1>5, <2>1 DEF IInv, HeadOK, ControlOK, FirstFit
<1>10. BlocksOK'
  <2>1. ASSUME NEW b \in Blocks', b # curr
        PROVE /\ b % 4 = 0 /\ heap'[b].size % 4 = 0 /\ heap'[b].size >= 4
              /\ b + BLOCK_SIZE + heap'[b].size <= HeapEnd
              /\ heap'[b].next = Null => b + BLOCK_SIZE + heap'[b].size = HeapEnd
              /\ heap'[b].next # Null =>
                   /\ heap'[b].next \in Blocks'
                   /\ heap'[b].next = b + BLOCK_SIZE + heap'[b].size
    <3>1. b \in Blocks /\ b # n /\ heap'[b] = heap[b]
      BY <1>4, <1>6, <2>1
    <3>2. heap[b].next = n => FALSE
      <4>1. SUFFICES ASSUME heap[b].next = n PROVE FALSE
        OBVIOUS
      <4>2. b + BLOCK_SIZE + heap[b].size = n
        BY <1>1, <3>1, <4>1 DEF IInv, BlocksOK
      <4>3. b < curr => b + BLOCK_SIZE + heap[b].size <= curr
        BY <1>1, <3>1 DEF IInv, Ordered
      <4>4. curr < b => n <= b
        BY <1>1, <3>1 DEF IInv, Ordered
      <4>5. QED
        BY <1>1, <1>2, <1>3, <2>1, <3>1, <4>2, <4>3, <4>4
    <3>3. QED
      BY <1>4, <3>1, <3>2 DEF IInv, BlocksOK
  <2>2. /\ curr % 4 = 0 /\ heap'[curr].size % 4 = 0 /\ heap'[curr].size >= 4
        /\ curr + BLOCK_SIZE + heap'[curr].size = n + BLOCK_SIZE + heap[n].size
    <3>1. /\ curr % 4 = 0 /\ heap[curr].size % 4 = 0 /\ heap[n].size % 4 = 0
          /\ heap[n].size >= 4
      BY <1>1 DEF IInv, BlocksOK
    <3>2. QED
      BY <1>1, <1>2, <1>6, <3>1
  <2>3. /\ n + BLOCK_SIZE + heap[n].size <= HeapEnd
        /\ heap[n].next = Null => n + BLOCK_SIZE + heap[n].size = HeapEnd
        /\ heap[n].next # Null => /\ heap[n].next \in Blocks
                                  /\ heap[n].next = n + BLOCK_SIZE + heap[n].size
    BY <1>1 DEF IInv, BlocksOK
  <2>4. heap[n].next # n
    BY <1>1, <1>2, <2>3
  <2>5. QED
    BY <1>4, <1>6, <2>1, <2>2, <2>3, <2>4 DEF BlocksOK
<1>11. Ordered'
  <2>1. SUFFICES ASSUME NEW b \in Blocks', NEW c \in Blocks', b < c
                 PROVE  b + BLOCK_SIZE + heap'[b].size <= c
    BY DEF Ordered
  <2>2. CASE b = curr
    <3>1. n <= c
      BY <1>1, <1>4, <2>1, <2>2 DEF IInv, Ordered
    <3>2. n < c
      BY <1>1, <1>2, <1>4, <3>1
    <3>3. n + BLOCK_SIZE + heap[n].size <= c
      BY <1>1, <1>4, <3>2 DEF IInv, Ordered
    <3>4. QED
      BY <1>1, <1>2, <1>4, <1>6, <2>2, <3>3
  <2>3. CASE b # curr
    BY <1>4, <1>6, <2>1, <2>3 DEF IInv, Ordered
  <2>4. QED
    BY <2>2, <2>3
<1>12. LiveOK'
  <2>1. ASSUME NEW p \in DOMAIN live
        PROVE /\ p - BLOCK_SIZE \in Blocks'
              /\ ~heap'[p - BLOCK_SIZE].free
              /\ heap'[p - BLOCK_SIZE].size >= live[p]
    BY <1>1, <1>4, <1>6 DEF IInv, LiveOK
  <2>2. ASSUME NEW b \in Blocks', ~heap'[b].free
        PROVE  b + BLOCK_SIZE \in DOMAIN live
    BY <1>1, <1>4, <1>6, <2>2 DEF IInv, LiveOK
  <2>3. QED
    BY <1>5, <2>1, <2>2 DEF LiveOK
<1>13. MergedSoFar'
  <2>. SUFFICES ASSUME NEW b \in Blocks', b < curr, heap'[b].free,
                       heap'[b].next # Null
                PROVE  ~heap'[heap'[b].next].free
    BY <1>1, <1>5 DEF MergedSoFar
  <2>1. b \in Blocks /\ heap'[b] = heap[b]
    BY <1>1, <1>2, <1>4, <1>6
  <2>2. ~heap[heap[b].next].free /\ heap[b].next \in Blocks
    BY <2>1 DEF IInv, MergedSoFar, BlocksOK
  <2>3. heap[b].next # curr /\ heap[b].next # n
    BY <1>1, <2>2
  <2>4. QED
    BY <1>6, <2>1, <2>2, <2>3
<1>14. QED
  BY <1>8, <1>9, <1>10, <1>11, <1>12, <1>13 DEF IInv

-----------------------------------------------------------------------------
(* What the invariant implies *)

(* two neighbours are not both free, every used block is live: with no     *)
(* live block the heap is the single block heap_init made                  *)
LEMMA RestoredIfAllFree == IInv => AllFreedRestoresHeap
<1>. SUFFICES ASSUME IInv, pc = "idle", heap_head # Null, DOMAIN live = {}
     PROVE heap = [a \in {HEAP_START} |->
                     [size |-> HEAP_SIZE - BLOCK_SIZE, free |-> TRUE, next |-> Null]]
  BY DEF AllFreedRestoresHeap
<1>1. HEAP_START \in Blocks /\ \A b \in Blocks : heap[b].free
  BY DEF IInv, HeadOK, LiveOK
<1>2. \A b \in Blocks : heap[b].next = Null
  BY <1>1 DEF IInv, MergedSoFar, BlocksOK
<1>3. \A b \in Blocks : b = HEAP_START
  <2>1. TAKE b \in Blocks
  <2>2. b < HEAP_START \/ b = HEAP_START
    BY <1>1, <1>2, Successor DEF IInv
  <2>3. QED
    BY <2>2, LayoutAssumption DEF IInv, Typed, Address, HeapEnd
<1>4. heap[HEAP_START].size = HEAP_SIZE - BLOCK_SIZE
  <2>1. HEAP_START + BLOCK_SIZE + heap[HEAP_START].size = HeapEnd
        /\ heap[HEAP_START].size \in Nat
    BY <1>1, <1>2 DEF IInv, BlocksOK, Typed, Header
  <2>2. QED
    BY <2>1, LayoutAssumption DEF HeapEnd
<1>5. heap[HEAP_START] = [size |-> HEAP_SIZE - BLOCK_SIZE, free |-> TRUE, next |-> Null]
  <2>1. heap[HEAP_START] \in Header
    BY <1>1 DEF IInv, Typed
  <2>2. QED
    BY <1>1, <1>2, <1>4, <2>1 DEF Header
<1>6. Blocks = {HEAP_START}
  BY <1>1, <1>3
<1>7. heap = [b \in Blocks |-> heap[b]]
  BY DEF IInv, Typed
<1>8. QED
  BY <1>5, <1>6, <1>7

(* live allocations are disjoint because their blocks are *)
LEMMA DisjointIfOrdered == IInv => LiveBlocksDisjoint
<1>. SUFFICES ASSUME IInv, NEW p \in DOMAIN live
     PROVE /\ p % 4 = 0
           /\ p + live[p] <= HeapEnd
           /\ \A q \in DOMAIN live :
                q # p => p + live[p] <= q \/ q + live[q] <= p
           /\ \A b \in Blocks : p + live[p] <= b \/ b + BLOCK_SIZE <= p
  BY DEF LiveBlocksDisjoint
<1>1. \A r \in DOMAIN live :
        /\ r \in Nat /\ live[r] \in Nat /\ r - BLOCK_SIZE \in Blocks
        /\ heap[r - BLOCK_SIZE].size >= live[r]
  BY LayoutAssumption, RequestsAssumption DEF IInv, Typed, LiveOK, Address, HeapEnd
<1>2. \A b \in Blocks : /\ b \in Nat /\ heap[b].size \in Nat /\ b % 4 = 0
                         /\ b + BLOCK_SIZE + heap[b].size <= HeapEnd
  <2>1. \A b \in Blocks : b \in Nat /\ heap[b].size \in Nat
    BY LayoutAssumption DEF IInv, Typed, Address, Header, HeapEnd
  <2>2. QED
    BY <2>1 DEF IInv, BlocksOK
<1>3. HeapEnd \in Nat /\ BLOCK_SIZE \in Nat /\ BLOCK_SIZE % 4 = 0
  BY LayoutAssumption DEF HeapEnd
<1>4. p % 4 = 0
  <2>1. (p - BLOCK_SIZE) % 4 = 0
    BY <1>1, <1>2
  <2>2. QED
    BY <1>1, <1>3, <2>1
<1>5. p + live[p] <= HeapEnd
  BY <1>1, <1>2, <1>3
<1>6. ASSUME NEW b \in Blocks PROVE p + live[p] <= b \/ b + BLOCK_SIZE <= p
  <2>. DEFINE d == p - BLOCK_SIZE
  <2>1. d \in Blocks /\ d + BLOCK_SIZE = p /\ heap[d].size >= live[p]
    BY <1>1, <1>3
  <2>2. d < b => d + BLOCK_SIZE + heap[d].size <= b
    BY <2>1 DEF IInv, Ordered
  <2>. HIDE DEF d
  <2>3. QED
    BY <1>1, <1>2, <1>3, <2>1, <2>2
<1>7. ASSUME NEW q \in DOMAIN live, q # p
      PROVE  p + live[p] <= q \/ q + live[q] <= p
  <2>. DEFINE d == p - BLOCK_SIZE
              e == q - BLOCK_SIZE
  <2>1. d \in Blocks /\ d + BLOCK_SIZE = p /\ heap[d].size >= live[p]
    BY <1>1, <1>3
  <2>2. e \in Blocks /\ e + BLOCK_SIZE = q /\ heap[e].size >= live[q]
    <3>1. q \in Nat /\ e \in Blocks /\ heap[e].size >= live[q]
      BY <1>1, <1>7
    <3>2. (q - BLOCK_SIZE) + BLOCK_SIZE = q
      BY <1>3, <3>1
    <3>3. QED
      BY <3>1, <3>2
  <2>3. /\ d < e => d + BLOCK_SIZE + heap[d].size <= e
        /\ e < d => e + BLOCK_SIZE + heap[e].size <= d
    BY <2>1, <2>2 DEF IInv, Ordered
  <2>. HIDE DEF d, e
  <2>4. p \in Nat /\ q \in Nat /\ live[p] \in Nat /\ live[q] \in Nat /\ p # q
    BY <1>1, <1>7
  <2>5. d \in Nat /\ e \in Nat /\ heap[d].size \in Nat /\ heap[e].size \in Nat
    BY <1>2, <2>1, <2>2
  <2>6. QED
    BY <1>3, <2>1, <2>2, <2>3, <2>4, <2>5
<1>8. QED
  BY <1>4, <1>5, <1>6, <1>7

-----------------------------------------------------------------------------
(* The strengthened invariant holds of every behaviour of kmalloc, kfree   *)
(* and heap_init.                                                          *)
THEOREM HeapInvariant == Spec => []IInv
<1>1. Init => IInv
  BY InitIInv
<1>2. IInv /\ [Next]_vars => IInv'
  <2>. SUFFICES ASSUME IInv, [Next]_vars PROVE IInv'
    OBVIOUS
  <2>1. CASE HeapInit
    BY <2>1, HeapInitIInv
  <2>2. ASSUME NEW size \in Requests, Kmalloc(size) PROVE IInv'
    BY <2>2, KmallocIInv
  <2>3. ASSUME NEW ptr \in DOMAIN live, Kfree(ptr) PROVE IInv'
    BY <2>3, KfreeIInv
  <2>4. CASE KmallocNext
    BY <2>4, KmallocNextIInv
  <2>5. CASE KmallocTake
    BY <2>5, KmallocTakeWholeIInv, KmallocTakeSplitIInv
  <2>6. CASE KmallocFail
    BY <2>6, KmallocFailIInv
  <2>7. CASE CoalesceMerge
    BY <2>7, CoalesceMergeIInv
  <2>8. CASE CoalesceNext
    BY <2>8, CoalesceNextIInv
  <2>9. CASE CoalesceDone
    BY <2>9, CoalesceDoneIInv
  <2>10. CASE UNCHANGED vars
    BY <2>10 DEF vars, IInv, Typed, HeadOK, BlocksOK, Ordered, LiveOK,
                 MergedSoFar, ControlOK, FirstFit, Fits, Blocks
  <2>11. QED
    BY <2>1, <2>2, <2>3, <2>4, <2>5, <2>6, <2>7, <2>8, <2>9, <2>10 DEF Next, Step
<1>3. QED
  BY <1>1, <1>2, PTL DEF Spec

(* Every reachable state of the heap is well typed. *)
THEOREM HeapTypeOK == Spec => []TypeOK
<1>1. IInv => TypeOK
  BY DEF IInv, Typed, TypeOK, Header, Address
<1>2. QED
  BY <1>1, HeapInvariant, PTL

(* The blocks of the list tile the heap: kmalloc's split and               *)
(* heap_coalesce's merge lose no byte.                                     *)
THEOREM HeapTiled == Spec => []Tiled
<1>1. IInv => Tiled
  BY DEF IInv, Typed, HeadOK, BlocksOK, Ordered, Tiled, EndOf
<1>2. QED
  BY <1>1, HeapInvariant, PTL

(* Memory kmalloc handed out is never shared with another allocation or    *)
(* with a header, whatever is allocated and freed meanwhile.               *)
THEOREM HeapLiveBlocksDisjoint == Spec => []LiveBlocksDisjoint
BY DisjointIfOrdered, HeapInvariant, PTL

(* heap_coalesce leaves no two free neighbours. *)
THEOREM HeapCoalesced == Spec => []Coalesced
<1>1. IInv => Coalesced
  BY DEF IInv, MergedSoFar, Coalesced
<1>2. QED
  BY <1>1, HeapInvariant, PTL

(* When every block was freed the heap is as heap_init left it. *)
THEOREM HeapAllFreedRestoresHeap == Spec => []AllFreedRestoresHeap
BY RestoredIfAllFree, HeapInvariant, PTL

(* kmalloc passes over no block that fits. *)
THEOREM HeapFirstFit == Spec => []FirstFit
<1>1. IInv => FirstFit
  BY DEF IInv
<1>2. QED
  BY <1>1, HeapInvariant, PTL

-----------------------------------------------------------------------------
(* Calls end: the bytes of the heap that a call has still ahead of it. *)

(* kmalloc walks to the end of the heap.  heap_coalesce moves either the   *)
(* block it looks at or, when it merges, the end of that block.            *)
BytesAhead ==
  CASE pc = "idle" -> 0
    [] pc = "kmalloc" -> IF curr = Null THEN 1 ELSE 1 + HeapEnd - curr
    [] pc = "kfree" -> 1 + (HeapEnd - curr) + (HeapEnd - EndOf(curr))

(* A step inside kmalloc or kfree lowers the bytes ahead of the call, of   *)
(* which there are never more than twice the heap.                         *)
CallDescends ==
  pc # "idle" =>
    /\ BytesAhead \in 1 .. 1 + 2 * HEAP_SIZE
    /\ BytesAhead' \in Nat /\ BytesAhead' < BytesAhead

LEMMA BlockFacts ==
  ASSUME IInv, NEW b \in Blocks
  PROVE  /\ b \in Nat /\ b # Null /\ b >= HEAP_START /\ EndOf(b) \in Nat
         /\ b < EndOf(b) /\ EndOf(b) <= HeapEnd
         /\ heap[b].next # Null => heap[b].next \in Blocks /\ heap[b].next = EndOf(b)
<1>1. /\ b \in Nat /\ b >= HEAP_START /\ heap[b].size \in Nat
      /\ BLOCK_SIZE \in Nat \ {0} /\ HEAP_START \in Nat \ {0}
  BY LayoutAssumption DEF IInv, Typed, Address, Header, HeapEnd
<1>2. /\ b + BLOCK_SIZE + heap[b].size <= HeapEnd
      /\ heap[b].next # Null => /\ heap[b].next \in Blocks
                                /\ heap[b].next = b + BLOCK_SIZE + heap[b].size
  BY DEF IInv, BlocksOK
<1>3. QED
  BY <1>1, <1>2 DEF EndOf, Null

LEMMA BytesAheadBounded ==
  ASSUME IInv, pc # "idle"
  PROVE  BytesAhead \in 1 .. 1 + 2 * HEAP_SIZE
<1>0. HEAP_START \in Nat /\ HEAP_SIZE \in Nat /\ HeapEnd = HEAP_START + HEAP_SIZE
  BY LayoutAssumption DEF HeapEnd
<1>1. CASE pc = "kmalloc" /\ curr = Null
  BY <1>0, <1>1 DEF BytesAhead
<1>2. CASE pc = "kmalloc" /\ curr # Null
  <2>1. curr \in Blocks
    BY <1>2 DEF IInv, Typed
  <2>2. BytesAhead = 1 + HeapEnd - curr
    BY <1>2 DEF BytesAhead
  <2>3. curr \in Nat /\ curr >= HEAP_START /\ curr < HeapEnd
    <3>1. EndOf(curr) \in Nat /\ curr \in Nat /\ curr >= HEAP_START
          /\ curr < EndOf(curr) /\ EndOf(curr) <= HeapEnd
      BY <2>1, BlockFacts
    <3>2. QED
      BY <1>0, <3>1
  <2>4. QED
    BY <1>0, <2>2, <2>3
<1>3. CASE pc = "kfree"
  <2>1. curr \in Blocks
    BY <1>3 DEF IInv, Typed, ControlOK
  <2>2. BytesAhead = 1 + (HeapEnd - curr) + (HeapEnd - EndOf(curr))
    BY <1>3 DEF BytesAhead
  <2>3. EndOf(curr) \in Nat /\ curr \in Nat /\ curr >= HEAP_START
        /\ curr < EndOf(curr) /\ EndOf(curr) <= HeapEnd
    BY <2>1, BlockFacts
  <2>4. QED
    BY <1>0, <2>2, <2>3
<1>4. QED
  BY <1>1, <1>2, <1>3 DEF IInv, Typed

LEMMA StepDescends ==
  ASSUME IInv, IInv', Step
  PROVE  BytesAhead' \in Nat /\ BytesAhead' < BytesAhead
<1>0. HeapEnd \in Nat
  BY LayoutAssumption DEF HeapEnd
<1>1. ASSUME pc # "idle", pc' = "idle" PROVE BytesAhead' \in Nat /\ BytesAhead' < BytesAhead
  <2>1. BytesAhead' = 0
    BY <1>1 DEF BytesAhead
  <2>2. BytesAhead >= 1 /\ BytesAhead \in Nat
    <3>1. HEAP_SIZE \in Nat
      BY LayoutAssumption
    <3>2. QED
      BY <1>1, <3>1, BytesAheadBounded
  <2>3. QED
    BY <2>1, <2>2
<1>2. CASE KmallocNext
  <2>1. pc = "kmalloc" /\ pc' = "kmalloc" /\ curr # Null /\ curr' = heap[curr].next
    BY <1>2 DEF KmallocNext
  <2>2. curr \in Blocks
    BY <2>1 DEF IInv, Typed
  <2>3. /\ EndOf(curr) \in Nat /\ curr \in Nat /\ curr < EndOf(curr) /\ EndOf(curr) <= HeapEnd
        /\ heap[curr].next # Null => heap[curr].next = EndOf(curr)
    BY <2>2, BlockFacts
  <2>4. BytesAhead = 1 + HeapEnd - curr
    BY <2>1 DEF BytesAhead
  <2>5. BytesAhead' = IF curr' = Null THEN 1 ELSE 1 + HeapEnd - curr'
    BY <2>1 DEF BytesAhead, HeapEnd
  <2>6. CASE curr' = Null
    BY <1>0, <2>3, <2>4, <2>5, <2>6
  <2>7. CASE curr' # Null
    <3>1. curr' = EndOf(curr)
      BY <2>1, <2>3, <2>7
    <3>2. QED
      BY <1>0, <2>3, <2>4, <2>5, <2>7, <3>1
  <2>8. QED
    BY <2>6, <2>7
<1>3. CASE KmallocTake \/ KmallocFail \/ CoalesceDone
  BY <1>1, <1>3 DEF KmallocTake, KmallocFail, CoalesceDone, Return
<1>4. CASE CoalesceMerge
  <2>1. /\ pc = "kfree" /\ pc' = "kfree" /\ curr' = curr /\ heap[curr].next # Null
        /\ heap' = Merge(curr)
    BY <1>4 DEF CoalesceMerge
  <2>2. PICK n : n = heap[curr].next
    BY Zenon
  <2>3. curr \in Blocks /\ n \in Blocks
    <3>1. curr \in Blocks
      BY <2>1 DEF IInv, Typed, ControlOK
    <3>2. QED
      BY <2>1, <2>2, <3>1, BlockFacts
  <2>4. curr # n /\ EndOf(curr) = n /\ n < EndOf(n) /\ n \in Nat /\ EndOf(n) \in Nat /\ curr \in Nat
    <3>1. EndOf(curr) = n /\ curr < EndOf(curr) /\ curr \in Nat
      BY <2>1, <2>2, <2>3, BlockFacts
    <3>2. n < EndOf(n) /\ n \in Nat /\ EndOf(n) \in Nat
      BY <2>3, BlockFacts
    <3>3. QED
      BY <3>1, <3>2
  <2>5. heap'[curr].size = heap[curr].size + BLOCK_SIZE + heap[n].size
    <3>1. heap[curr] \in Header
      BY <2>3 DEF IInv, Typed
    <3>2. heap'[curr] = [heap[curr] EXCEPT !.size = @ + BLOCK_SIZE + heap[n].size,
                                           !.next = heap[n].next]
      BY <2>1, <2>2, <2>3, <2>4 DEF Merge
    <3>3. QED
      BY <3>1, <3>2 DEF Header
  <2>6. (EndOf(curr))' = EndOf(n)
    <3>1. heap[curr].size \in Nat /\ heap[n].size \in Nat /\ BLOCK_SIZE \in Nat
      BY <2>3, LayoutAssumption DEF IInv, Typed, Header
    <3>2. (EndOf(curr))' = curr + BLOCK_SIZE + heap'[curr].size
      BY <2>1 DEF EndOf
    <3>3. EndOf(curr) = curr + BLOCK_SIZE + heap[curr].size
          /\ EndOf(n) = n + BLOCK_SIZE + heap[n].size
      BY DEF EndOf
    <3>4. QED
      BY <2>4, <2>5, <3>1, <3>2, <3>3
  <2>7. BytesAhead = 1 + (HeapEnd - curr) + (HeapEnd - n)
    BY <2>1, <2>4 DEF BytesAhead
  <2>8. BytesAhead' = 1 + (HeapEnd - curr) + (HeapEnd - EndOf(n))
    <3>1. BytesAhead' = 1 + (HeapEnd - curr') + (HeapEnd - (EndOf(curr))')
      BY <2>1 DEF BytesAhead, HeapEnd
    <3>2. QED
      BY <2>1, <2>6, <3>1
  <2>9. EndOf(n) <= HeapEnd /\ curr <= HeapEnd
    <3>1. EndOf(n) <= HeapEnd /\ curr < EndOf(curr) /\ EndOf(curr) <= HeapEnd
      BY <2>3, BlockFacts
    <3>2. QED
      BY <1>0, <2>4, <3>1
  <2>10. QED
    BY <1>0, <2>4, <2>7, <2>8, <2>9
<1>5. CASE CoalesceNext
  <2>1. /\ pc = "kfree" /\ pc' = "kfree" /\ heap[curr].next # Null
        /\ curr' = heap[curr].next /\ heap' = heap
    BY <1>5 DEF CoalesceNext
  <2>2. PICK n : n = heap[curr].next
    BY Zenon
  <2>3. curr \in Blocks /\ n \in Blocks
    <3>1. curr \in Blocks
      BY <2>1 DEF IInv, Typed, ControlOK
    <3>2. QED
      BY <2>1, <2>2, <3>1, BlockFacts
  <2>4. curr \in Nat /\ EndOf(curr) = n /\ curr < n
    BY <2>1, <2>2, <2>3, BlockFacts
  <2>5. n \in Nat /\ EndOf(n) \in Nat /\ n < EndOf(n) /\ EndOf(n) <= HeapEnd
    BY <2>3, BlockFacts
  <2>6. BytesAhead = 1 + (HeapEnd - curr) + (HeapEnd - n)
    BY <2>1, <2>4 DEF BytesAhead
  <2>7. BytesAhead' = 1 + (HeapEnd - n) + (HeapEnd - EndOf(n))
    <3>1. BytesAhead' = 1 + (HeapEnd - curr') + (HeapEnd - (EndOf(curr))')
      BY <2>1 DEF BytesAhead, HeapEnd
    <3>2. (EndOf(curr))' = EndOf(n)
      BY <2>1, <2>2 DEF EndOf
    <3>3. QED
      BY <2>1, <2>2, <3>1, <3>2
  <2>8. QED
    BY <1>0, <2>4, <2>5, <2>6, <2>7
<1>6. QED
  BY <1>2, <1>3, <1>4, <1>5 DEF Step

(* Every step of a running kmalloc or kfree uses up bytes of the heap that *)
(* the call had ahead of it, never more than 2 * HEAP_SIZE + 1: no call    *)
(* runs for ever, whatever the list looks like and although heap_coalesce  *)
(* changes the list it walks.                                              *)
THEOREM HeapCallsDescend == Spec => [][CallDescends]_vars
<1>1. IInv /\ IInv' /\ [Next]_vars => [CallDescends]_vars
  <2>. SUFFICES ASSUME IInv, IInv', Next, pc # "idle" PROVE CallDescends
    BY DEF CallDescends
  <2>1. Step
    BY DEF Next, HeapInit, Kmalloc, Kfree
  <2>2. QED
    BY <2>1, BytesAheadBounded, StepDescends DEF CallDescends
<1>2. QED
  BY <1>1, HeapInvariant, PTL DEF Spec
=============================================================================
