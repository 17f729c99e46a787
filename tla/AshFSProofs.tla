---------------------------- MODULE AshFSProofs ----------------------------
(***************************************************************************)
(* Proofs about AshFS, for every number of inodes, blocks per file and     *)
(* data sectors, any names and contents, and any number of power losses.   *)
(***************************************************************************)
EXTENDS AshFS, FiniteSetTheorems, WellFoundedInduction, TLAPS

(* once fs_init has run, the kernel's superblock is a formatted one *)
Mounted == pc # "off" => superblock.magic = FS_MAGIC

(* A running fs_write holds a copy of its inode in which every block is    *)
(* still one of the file's own or one that no inode on disk refers to.     *)
WriteOK ==
  pc = "write" =>
    /\ dinodes[call.index].used
    /\ call.inode.used
    /\ call.inode.name = dinodes[call.index].name
    /\ BlocksNeeded(call.data) <= MAX_FILE_BLOCKS
    /\ \A b \in BlocksOf(call.inode) :
         b \in BlocksOf(dinodes[call.index]) \/ b \notin BlocksInUse

FSInv == TypeOK /\ Mounted /\ WriteOK /\ NoSharedBlocks

(* the part of it that does not depend on the magic number *)
FileInv ==
  /\ dinodes \in [Inodes -> InodeType]
  /\ ddata \in [DataSectors -> [1 .. BLOCK_SIZE -> Nat]]
  /\ call \in CallType
  /\ WriteOK /\ NoSharedBlocks

(* the superblock in memory has the size of the disk, or is still empty *)
SizeKnown == superblock.total_blocks \in {0, TOTAL_BLOCKS}

-----------------------------------------------------------------------------
(* Helpers *)

(* a non-empty set of naturals has a least element, which SmallestOf picks *)
LEMMA SmallestOfMember ==
  ASSUME NEW S \in SUBSET Nat, S # {}
  PROVE  SmallestOf(S) \in S
<1>. DEFINE Less == {ss \in Nat \X Nat : ss[1] < ss[2]}
<1>a. IsWellFoundedOn(Less, Nat)
  BY NatLessThanWellFounded DEF OpToRel
<1>b. \A x, y \in Nat : y < x => <<y, x>> \in Less
  OBVIOUS
<1>. HIDE DEF Less
<1>1. \E x \in S : \A y \in S : ~(<<y, x>> \in Less)
  BY Zenon, <1>a, WFMin
<1>2. \E x \in S : \A y \in S : x <= y
  <2>1. PICK x \in S : \A y \in S : ~(<<y, x>> \in Less)
    BY <1>1
  <2>2. \A y \in S : ~(y < x)
    BY Zenon, <1>b, <2>1
  <2>3. \A y \in S : x <= y
    BY <2>2
  <2>4. QED
    BY <2>3
<1>3. QED
  BY Zenon, <1>2 DEF SmallestOf

(* inode_find gives a used inode with that name *)
LEMMA FindFacts ==
  ASSUME NEW name, inode_find(name) # -1
  PROVE  /\ inode_find(name) \in Inodes
         /\ dinodes[inode_find(name)].used
         /\ dinodes[inode_find(name)].name = name
<1>1. Matching(name) # {} /\ Matching(name) \in SUBSET Nat
  BY DiskAssumption DEF inode_find, Matching, Inodes
<1>2. inode_find(name) \in Matching(name)
  BY <1>1, SmallestOfMember DEF inode_find
<1>3. QED
  BY <1>2 DEF Matching

(* inode_alloc gives an unused inode *)
LEMMA AllocFacts ==
  ASSUME inode_alloc # -1
  PROVE  inode_alloc \in Inodes /\ ~dinodes[inode_alloc].used
<1>1. Unused # {} /\ Unused \in SUBSET Nat
  BY DiskAssumption DEF inode_alloc, Unused, Inodes
<1>2. inode_alloc \in Unused
  BY <1>1, SmallestOfMember DEF inode_alloc
<1>3. QED
  BY <1>2 DEF Unused

(* block_alloc gives a data sector that no inode on disk refers to *)
LEMMA FreeBlockFacts ==
  ASSUME SizeKnown, block_alloc # 0
  PROVE  /\ block_alloc \in DataSectors
         /\ block_alloc \notin BlocksInUse
         /\ superblock.free_blocks # 0
<1>1. FreeSectors # {} /\ superblock.free_blocks # 0
  BY DEF block_alloc, NoSpace
<1>2. FreeSectors \in SUBSET DataSectors /\ FreeSectors \cap BlocksInUse = {}
      /\ DataSectors \in SUBSET Nat
  BY DiskAssumption DEF FreeSectors, DataSectors, SizeKnown
<1>3. block_alloc \in FreeSectors
  BY <1>1, <1>2, SmallestOfMember DEF block_alloc
<1>4. QED
  BY <1>1, <1>2, <1>3

LEMMA TypedSize == ASSUME TypeOK PROVE SizeKnown
<1>1. superblock = ZeroSuper \/
      superblock \in [magic : {FS_MAGIC}, total_blocks : {TOTAL_BLOCKS},
                      free_blocks : 0 .. WORD - 1]
  BY DEF TypeOK, SuperType
<1>2. QED
  BY <1>1 DEF ZeroSuper, SizeKnown

LEMMA BlockAllocFacts ==
  ASSUME TypeOK, block_alloc # 0
  PROVE  /\ block_alloc \in DataSectors
         /\ block_alloc \notin BlocksInUse
         /\ superblock.free_blocks # 0
BY TypedSize, FreeBlockFacts

(* contents, the empty contents included, are sequences of bytes *)
LEMMA DataType ==
  ASSUME NEW data \in Payloads \cup {<<>>}
  PROVE  data \in Seq(Nat) /\ Len(data) < WORD
<1>1. <<>> \in Seq(Nat) /\ Len(<<>>) < WORD
  BY DiskAssumption
<1>2. QED
  BY Zenon, <1>1, PayloadsAssumption

(* a file needs a natural number of blocks *)
LEMMA BlocksOfBytes ==
  ASSUME NEW data \in Seq(Nat)
  PROVE  BlocksNeeded(data) \in Nat /\ Len(data) \in Nat
<1>1. Len(data) \in Nat
  OBVIOUS
<1>2. (Len(data) + BLOCK_SIZE - 1) % WORD \in Nat
  BY <1>1, DiskAssumption
<1>3. QED
  BY <1>1, <1>2, DiskAssumption DEF BlocksNeeded

LEMMA BlocksNeededType ==
  ASSUME NEW data \in Payloads \cup {<<>>}
  PROVE  BlocksNeeded(data) \in Nat /\ Len(data) \in 0 .. WORD - 1
BY DataType, BlocksOfBytes, DiskAssumption

(* a sector that is written is a sequence of BLOCK_SIZE bytes *)
LEMMA ChunkType ==
  ASSUME NEW data \in Seq(Nat), NEW i \in Nat
  PROVE  Chunk(data, i) \in [1 .. BLOCK_SIZE -> Nat]
<1>1. i * BLOCK_SIZE \in Nat
  BY DiskAssumption
<1>2. QED
  BY <1>1, DiskAssumption DEF Chunk

(* the zeroed and the freshly formatted structures are well typed *)
LEMMA ZeroTypes ==
  /\ ZeroInode \in InodeType
  /\ NoBlocks \in [1 .. MAX_FILE_BLOCKS -> {0} \cup DataSectors]
  /\ BlocksOf(ZeroInode) = {}
  /\ ZeroSuper \in SuperType /\ NewSuper \in SuperType /\ NewSuper.magic = FS_MAGIC
  /\ NoCall \in CallType
<1>1. ZeroInode \in InodeType /\ NoBlocks \in [1 .. MAX_FILE_BLOCKS -> {0} \cup DataSectors]
  BY DiskAssumption DEF ZeroInode, InodeType, NoBlocks
<1>2. BlocksOf(ZeroInode) = {}
  BY DEF BlocksOf, ZeroInode, NoBlocks
<1>3. ZeroSuper \in SuperType /\ NewSuper \in SuperType /\ NewSuper.magic = FS_MAGIC
  BY DiskAssumption DEF SuperType, NewSuper
<1>4. 0 \in Inodes
  BY DiskAssumption DEF Inodes
<1>5. QED
  BY <1>1, <1>2, <1>3, <1>4 DEF NoCall, CallType

(* the blocks of a used inode are in use *)
LEMMA InUse ==
  ASSUME NEW i \in Inodes, dinodes[i].used
  PROVE  BlocksOf(dinodes[i]) \subseteq BlocksInUse
BY DEF BlocksInUse

(* a step that writes no inode keeps the files apart *)
LEMMA SameInodes ==
  ASSUME NoSharedBlocks, dinodes' = dinodes PROVE NoSharedBlocks'
BY DEF NoSharedBlocks, BlocksOf

(* writing one inode keeps the files apart if its blocks are no other's *)
LEMMA OneInode ==
  ASSUME dinodes \in [Inodes -> InodeType], NoSharedBlocks,
         NEW x \in Inodes, NEW n \in InodeType,
         dinodes' = [dinodes EXCEPT ![x] = n],
         n.used => \A k \in Inodes \ {x} :
                     dinodes[k].used => BlocksOf(n) \cap BlocksOf(dinodes[k]) = {}
  PROVE  dinodes' \in [Inodes -> InodeType] /\ NoSharedBlocks'
<1>1. dinodes' \in [Inodes -> InodeType]
  OBVIOUS
<1>2. dinodes'[x] = n /\ \A k \in Inodes \ {x} : dinodes'[k] = dinodes[k]
  OBVIOUS
<1>3. NoSharedBlocks'
  <2>. SUFFICES ASSUME NEW i \in Inodes, NEW k \in Inodes, i # k,
                       dinodes'[i].used, dinodes'[k].used
                PROVE  BlocksOf(dinodes'[i]) \cap BlocksOf(dinodes'[k]) = {}
    BY DEF NoSharedBlocks, BlocksOf
  <2>1. CASE i = x
    <3>1. k \in Inodes \ {x} /\ n.used /\ dinodes[k].used
      BY <1>2, <2>1
    <3>2. QED
      BY <1>2, <2>1, <3>1
  <2>2. CASE k = x
    <3>1. i \in Inodes \ {x} /\ n.used /\ dinodes[i].used
      BY <1>2, <2>2
    <3>2. BlocksOf(n) \cap BlocksOf(dinodes[i]) = {}
      BY <3>1
    <3>3. QED
      BY <1>2, <2>2, <3>1, <3>2
  <2>3. CASE i # x /\ k # x
    BY <1>2, <2>3 DEF NoSharedBlocks
  <2>4. QED
    BY <2>1, <2>2, <2>3
<1>4. QED
  BY <1>1, <1>3

-----------------------------------------------------------------------------
(* Every step of a call preserves the part about the files: one lemma per  *)
(* kind of action.                                                         *)

(* the disk stays as it was, and no fs_write is running *)
LEMMA QuietFileInv ==
  ASSUME FileInv, UNCHANGED <<dinodes, ddata>>, call' \in CallType, pc' # "write"
  PROVE  FileInv'
<1>1. WriteOK' /\ NoSharedBlocks'
  BY SameInodes DEF FileInv, WriteOK
<1>2. QED
  BY <1>1 DEF FileInv

(* nothing of it changes *)
LEMMA SameFileInv ==
  ASSUME FileInv, UNCHANGED <<dinodes, ddata, pc, call>>
  PROVE  FileInv'
<1>1. BlocksInUse' = BlocksInUse
  BY DEF BlocksInUse, BlocksOf
<1>2. BlocksOf(call'.inode) = BlocksOf(call.inode)
      /\ BlocksOf(dinodes'[call'.index]) = BlocksOf(dinodes[call.index])
      /\ BlocksNeeded(call'.data) = BlocksNeeded(call.data)
  OBVIOUS
<1>3. WriteOK'
  BY <1>1, <1>2 DEF FileInv, WriteOK, BlocksOf, BlocksNeeded
<1>4. NoSharedBlocks'
  BY SameInodes DEF FileInv
<1>5. QED
  BY <1>3, <1>4 DEF FileInv

(* formatting only clears inodes *)
LEMMA FormatFileInv == FileInv /\ (FormatSuper \/ FormatInodes) => FileInv'
<1>1. ASSUME FileInv, FormatSuper PROVE FileInv'
  <2>1. pc' = "format_inodes" /\ UNCHANGED <<dinodes, ddata, call>>
    BY <1>1 DEF FormatSuper
  <2>2. QED
    BY <1>1, <2>1, QuietFileInv DEF FileInv
<1>2. ASSUME FileInv, FormatInodes PROVE FileInv'
  <2>1. dinodes' \in [Inodes -> InodeType]
        /\ \A i \in Inodes : dinodes'[i] = ZeroInode \/ dinodes'[i] = dinodes[i]
    BY <1>2, ZeroTypes DEF FileInv, FormatInodes
  <2>2. call' \in CallType
    <3>1. [call EXCEPT !.i = @ + 1] \in CallType
      BY <1>2 DEF FileInv, CallType
    <3>2. QED
      BY <1>2, <3>1, ZeroTypes DEF FormatInodes
  <2>3. WriteOK' /\ ddata' = ddata
    BY <1>2 DEF WriteOK, FormatInodes
  <2>4. NoSharedBlocks'
    <3>. SUFFICES ASSUME NEW i \in Inodes, NEW k \in Inodes, i # k,
                         dinodes'[i].used, dinodes'[k].used
                  PROVE  BlocksOf(dinodes'[i]) \cap BlocksOf(dinodes'[k]) = {}
      BY DEF NoSharedBlocks, BlocksOf
    <3>1. dinodes'[i] = dinodes[i] /\ dinodes'[k] = dinodes[k]
      BY <2>1 DEF ZeroInode
    <3>2. QED
      BY <1>2, <3>1 DEF FileInv, NoSharedBlocks
  <2>5. QED
    BY <1>2, <2>1, <2>2, <2>3, <2>4 DEF FileInv
<1>3. QED
  BY <1>1, <1>2

(* fs_create takes an unused inode and no block *)
LEMMA FsCreateFileInv ==
  ASSUME FileInv, NEW name \in Names, FsCreate(name) PROVE FileInv'
<1>. DEFINE n == [ZeroInode EXCEPT !.name = Trunc[name], !.used = TRUE]
<1>1. n \in InodeType /\ BlocksOf(n) = {}
  <2>1. Trunc[name] \in Names
    BY NamesAssumption
  <2>2. n \in InodeType
    BY Zenon, <2>1, ZeroTypes DEF InodeType
  <2>3. n.blocks = ZeroInode.blocks
    BY DEF ZeroInode
  <2>4. QED
    BY <2>2, <2>3, ZeroTypes DEF BlocksOf
<1>2. inode_alloc \in Inodes /\ dinodes' = [dinodes EXCEPT ![inode_alloc] = n]
  BY AllocFacts DEF FsCreate
<1>. HIDE DEF n
<1>3. dinodes' \in [Inodes -> InodeType] /\ NoSharedBlocks'
  BY Zenon, <1>1, <1>2, OneInode DEF FileInv
<1>4. ddata' = ddata /\ call' \in CallType /\ WriteOK'
  BY ZeroTypes DEF WriteOK, FsCreate, Success, Return
<1>5. QED
  BY <1>3, <1>4 DEF FileInv

(* fs_write starts from the inode on disk *)
LEMMA FsWriteFileInv ==
  ASSUME FileInv, NEW name \in Names, NEW data \in Payloads, FsWrite(name, data)
  PROVE  FileInv'
<1>1. /\ inode_find(name) \in Inodes /\ dinodes[inode_find(name)].used
      /\ dinodes[inode_find(name)] \in InodeType
  BY FindFacts DEF FileInv, FsWrite
<1>2. call' \in CallType
  BY <1>1 DEF FsWrite, CallType
<1>3. dinodes' = dinodes /\ ddata' = ddata
  BY DEF FsWrite
<1>4. /\ dinodes' = dinodes /\ call'.index = inode_find(name)
      /\ call'.inode = dinodes[inode_find(name)] /\ call'.data = data
      /\ BlocksNeeded(data) <= MAX_FILE_BLOCKS
  BY DEF FsWrite
<1>5. WriteOK'
  BY <1>1, <1>4 DEF WriteOK, BlocksOf, BlocksNeeded
<1>6. NoSharedBlocks'
  BY <1>3, SameInodes DEF FileInv
<1>7. QED
  BY <1>2, <1>3, <1>5, <1>6 DEF FileInv

(* one block of fs_write: a sector that no inode refers to *)
LEMMA WriteBlockFileInv ==
  ASSUME FileInv, SizeKnown, WriteBlock PROVE FileInv'
<1>. DEFINE a == block_alloc
            j == call.i + 1
<1>1. a \in DataSectors /\ a \notin BlocksInUse
  BY FreeBlockFacts DEF WriteBlock
<1>2. /\ call.inode \in InodeType /\ call.i \in Nat /\ call.index \in Inodes
      /\ call.data \in Payloads \cup {<<>>}
  BY DEF FileInv, CallType
<1>3. j \in 1 .. MAX_FILE_BLOCKS
  <2>1. BlocksNeeded(call.data) \in Nat
    BY <1>2, BlocksNeededType
  <2>2. call.i < BlocksNeeded(call.data) /\ BlocksNeeded(call.data) <= MAX_FILE_BLOCKS
    BY DEF FileInv, WriteOK, WriteBlock
  <2>3. QED
    BY <1>2, <2>1, <2>2, DiskAssumption
<1>. DEFINE n == [call.inode EXCEPT !.blocks[j] = a]
<1>4. call' = [call EXCEPT !.inode = n, !.i = call.i + 1]
  BY DEF WriteBlock, FileInv, CallType
<1>5. /\ n \in InodeType /\ n.used = call.inode.used /\ n.name = call.inode.name
      /\ n.blocks = [call.inode.blocks EXCEPT ![j] = a]
  BY Zenon, <1>1, <1>2, <1>3 DEF InodeType
<1>6. BlocksOf(n) \subseteq BlocksOf(call.inode) \cup {a}
  <2>1. call.inode.blocks \in [1 .. MAX_FILE_BLOCKS -> {0} \cup DataSectors]
    BY <1>2 DEF InodeType
  <2>2. \A m \in 1 .. MAX_FILE_BLOCKS : n.blocks[m] = a \/ n.blocks[m] = call.inode.blocks[m]
    BY <1>3, <1>5, <2>1
  <2>3. QED
    BY <2>2 DEF BlocksOf
<1>. HIDE DEF n, a, j
<1>7. /\ call'.inode = n /\ call'.i = call.i + 1 /\ call'.index = call.index
      /\ call'.data = call.data
      /\ call' \in CallType
  <2>1. call \in CallType /\ call.i + 1 \in Nat /\ n \in InodeType
    BY <1>2, <1>5 DEF FileInv
  <2>2. QED
    BY Zenon, <1>4, <2>1 DEF CallType
<1>8. ddata' \in [DataSectors -> [1 .. BLOCK_SIZE -> Nat]]
  <2>1. Chunk(call.data, call.i) \in [1 .. BLOCK_SIZE -> Nat]
    BY Zenon, <1>2, DataType, ChunkType
  <2>2. QED
    BY <1>1, <2>1 DEF FileInv, WriteBlock, a
<1>9. dinodes' = dinodes /\ NoSharedBlocks' /\ pc = "write"
  BY SameInodes DEF FileInv, WriteBlock
<1>10. WriteOK'
  <2>2. BlocksInUse' = BlocksInUse
    BY <1>9 DEF BlocksInUse, BlocksOf
  <2>3. \A b \in BlocksOf(n) : b \in BlocksOf(dinodes[call.index]) \/ b \notin BlocksInUse
    BY <1>1, <1>6, <1>9 DEF FileInv, WriteOK
  <2>4. BlocksOf(call'.inode) = BlocksOf(n)
        /\ BlocksOf(dinodes'[call'.index]) = BlocksOf(dinodes[call.index])
        /\ BlocksNeeded(call'.data) = BlocksNeeded(call.data)
    BY <1>7, <1>9
  <2>5. /\ dinodes'[call'.index].used /\ call'.inode.used
        /\ call'.inode.name = dinodes'[call'.index].name
        /\ BlocksNeeded(call.data) <= MAX_FILE_BLOCKS
    BY <1>5, <1>7, <1>9 DEF FileInv, WriteOK
  <2>6. QED
    BY Zenon, <2>2, <2>3, <2>4, <2>5 DEF WriteOK, BlocksOf, BlocksNeeded
<1>11. QED
  BY <1>7, <1>8, <1>9, <1>10 DEF FileInv

(* the inode write replaces the file's blocks by the new ones *)
LEMMA WriteInodeFileInv == FileInv /\ WriteInode => FileInv'
<1>. SUFFICES ASSUME FileInv, WriteInode PROVE FileInv'
  OBVIOUS
<1>. DEFINE n == [call.inode EXCEPT !.size = Len(call.data)]
<1>1. /\ call.inode \in InodeType /\ call.index \in Inodes
      /\ call.data \in Payloads \cup {<<>>} /\ pc = "write"
  BY DEF FileInv, CallType, WriteInode
<1>2. Len(call.data) \in 0 .. WORD - 1
  BY <1>1, BlocksNeededType
<1>3. n \in InodeType /\ n.blocks = call.inode.blocks
  BY <1>1, <1>2 DEF InodeType
<1>4. dinodes' = [dinodes EXCEPT ![call.index] = n]
  BY DEF WriteInode
<1>5. BlocksOf(n) = BlocksOf(call.inode)
  BY <1>3 DEF BlocksOf
<1>. HIDE DEF n
<1>6. ASSUME NEW k \in Inodes \ {call.index}, dinodes[k].used
      PROVE  BlocksOf(n) \cap BlocksOf(dinodes[k]) = {}
  <2>1. BlocksOf(dinodes[k]) \subseteq BlocksInUse
    BY <1>6, InUse
  <2>2. BlocksOf(dinodes[call.index]) \cap BlocksOf(dinodes[k]) = {}
    BY <1>1, <1>6 DEF FileInv, NoSharedBlocks, WriteOK
  <2>3. \A b \in BlocksOf(n) : b \in BlocksOf(dinodes[call.index]) \/ b \notin BlocksInUse
    BY <1>1, <1>5 DEF FileInv, WriteOK
  <2>4. QED
    BY <2>1, <2>2, <2>3
<1>7. dinodes' \in [Inodes -> InodeType] /\ NoSharedBlocks'
  BY Zenon, <1>1, <1>3, <1>4, <1>6, OneInode DEF FileInv
<1>8. ddata' = ddata /\ call' \in CallType /\ WriteOK'
  BY ZeroTypes DEF WriteOK, WriteInode
<1>9. QED
  BY <1>7, <1>8 DEF FileInv

(* fs_delete gives up the inode and its blocks *)
LEMMA FsDeleteFileInv ==
  ASSUME FileInv, NEW name \in Names, FsDelete(name) PROVE FileInv'
<1>. DEFINE x == inode_find(name)
            n == [dinodes[x] EXCEPT !.blocks = NoBlocks, !.used = FALSE]
<1>1. x \in Inodes /\ dinodes[x] \in InodeType
  BY FindFacts DEF FileInv, FsDelete
<1>2. n \in InodeType /\ ~n.used
  BY Zenon, <1>1, ZeroTypes DEF InodeType
<1>3. dinodes' = [dinodes EXCEPT ![x] = n]
  <2>1. dinodes' = [dinodes EXCEPT ![x].blocks = NoBlocks, ![x].used = FALSE]
    BY DEF FsDelete
  <2>2. QED
    BY Zenon, <1>1, <2>1 DEF FileInv
<1>4. pc' = "super" /\ UNCHANGED <<ddata, call>>
  BY DEF FsDelete
<1>. HIDE DEF n, x
<1>5. dinodes' \in [Inodes -> InodeType] /\ NoSharedBlocks'
  BY Zenon, <1>1, <1>2, <1>3, OneInode DEF FileInv
<1>6. QED
  BY <1>4, <1>5 DEF FileInv, WriteOK

(* every step of a command, whatever superblock is in memory *)
LEMMA CommandFileInv ==
  ASSUME FileInv, SizeKnown,
         Call \/ WriteBlock \/ WriteDiskFull \/ WriteInode \/ UpdateSuperblock
  PROVE  FileInv'
<1>1. ASSUME UNCHANGED <<dinodes, ddata>>, NEW r, Return(r) PROVE FileInv'
  BY <1>1, ZeroTypes, QuietFileInv DEF Return
<1>2. CASE WriteBlock
  BY <1>2, WriteBlockFileInv
<1>3. CASE WriteInode
  BY <1>3, WriteInodeFileInv
<1>4. CASE UpdateSuperblock \/ WriteDiskFull \/ FsList
  BY <1>1, <1>4 DEF UpdateSuperblock, Success, WriteDiskFull, Failure, FsList
<1>5. ASSUME NEW name \in Names, FsCreate(name) \/ FsDelete(name) PROVE FileInv'
  BY <1>5, FsCreateFileInv, FsDeleteFileInv
<1>6. ASSUME NEW name \in Names, NEW data \in Payloads, FsWrite(name, data)
      PROVE  FileInv'
  BY <1>6, FsWriteFileInv
<1>7. ASSUME NEW name \in Names,
             FsCreateFails(name) \/ FsDeleteFails(name) \/ FsReadFails(name)
      PROVE  FileInv'
  BY <1>1, <1>7 DEF FsCreateFails, FsDeleteFails, FsReadFails, Failure
<1>8. ASSUME NEW name \in Names, NEW data \in Payloads, FsWriteFails(name, data)
      PROVE  FileInv'
  BY <1>1, <1>8 DEF FsWriteFails, Failure
<1>9. ASSUME NEW name \in Names, NEW size \in ReadSizes, FsRead(name, size)
      PROVE  FileInv'
  BY <1>1, <1>9 DEF FsRead
<1>10. QED
  BY <1>2, <1>3, <1>4, <1>5, <1>6, <1>7, <1>8, <1>9 DEF Call

(* the blank disk *)
LEMMA InitFileInv == Init => FileInv
<1>. SUFFICES ASSUME Init PROVE FileInv
  OBVIOUS
<1>1. ZeroSector \in [1 .. BLOCK_SIZE -> Nat]
  BY DEF ZeroSector
<1>2. WriteOK /\ NoSharedBlocks
  BY DEF Init, WriteOK, NoSharedBlocks, ZeroInode
<1>3. QED
  BY <1>1, <1>2, ZeroTypes DEF Init, FileInv

-----------------------------------------------------------------------------
(* Every step preserves the invariant. *)

LEMMA TypedFileInv ==
  FSInv <=> /\ FileInv /\ Mounted
            /\ dsuper \in SuperType /\ superblock \in SuperType
            /\ pc \in {"off", "idle", "format_super", "format_inodes", "write", "super"}
            /\ crashes \in 0 .. MaxCrashes
BY DEF FSInv, TypeOK, FileInv

LEMMA InitFSInv == Init => FSInv
<1>. SUFFICES ASSUME Init PROVE FSInv
  OBVIOUS
<1>1. crashes \in 0 .. MaxCrashes /\ Mounted
  BY CrashAssumption DEF Init, Mounted
<1>2. QED
  BY <1>1, InitFileInv, ZeroTypes, TypedFileInv DEF Init

(* counting blocks on or off a formatted superblock leaves it one *)
LEMMA CountedSuper ==
  ASSUME NEW s \in SuperType, s.magic = FS_MAGIC, NEW n \in 0 .. WORD - 1
  PROVE  /\ [s EXCEPT !.free_blocks = n] \in SuperType
         /\ [s EXCEPT !.free_blocks = n].magic = FS_MAGIC
         /\ s.free_blocks \in 0 .. WORD - 1
<1>1. s \in [magic : {FS_MAGIC}, total_blocks : {TOTAL_BLOCKS}, free_blocks : 0 .. WORD - 1]
  BY DEF SuperType, ZeroSuper, FS_MAGIC
<1>2. QED
  BY <1>1 DEF SuperType

(* the superblock on disk and in memory *)
LEMMA SuperNext ==
  ASSUME FSInv, [Next]_vars
  PROVE  /\ dsuper' \in SuperType /\ superblock' \in SuperType /\ Mounted'
<1>0. /\ dsuper \in SuperType /\ superblock \in SuperType /\ superblock.free_blocks \in Nat
      /\ WORD \in Nat
      /\ pc # "off" => superblock.magic = FS_MAGIC /\ superblock.free_blocks \in 0 .. WORD - 1
      /\ \A n \in 0 .. WORD - 1 : pc # "off" =>
           /\ [superblock EXCEPT !.free_blocks = n] \in SuperType
           /\ [superblock EXCEPT !.free_blocks = n].magic = FS_MAGIC
  <2>1. /\ dsuper \in SuperType /\ superblock \in SuperType /\ WORD \in Nat \ {0}
        /\ pc # "off" => superblock.magic = FS_MAGIC
    BY DiskAssumption DEF FSInv, TypeOK, Mounted
  <2>2. superblock.free_blocks \in 0 .. WORD - 1
    BY ONLY <2>1 DEF SuperType, ZeroSuper
  <2>3. superblock.free_blocks \in Nat
    BY ONLY <2>1, <2>2
  <2>4. ASSUME NEW n \in 0 .. WORD - 1, pc # "off"
        PROVE  /\ [superblock EXCEPT !.free_blocks = n] \in SuperType
               /\ [superblock EXCEPT !.free_blocks = n].magic = FS_MAGIC
    BY ONLY <2>1, <2>4, CountedSuper
  <2>5. QED
    BY ONLY <2>1, <2>2, <2>3, <2>4
<1>1. CASE FsInit
  BY <1>0, <1>1, ZeroTypes DEF FsInit, Mounted
<1>2. CASE WriteBlock
  <2>1. superblock.free_blocks - 1 \in 0 .. WORD - 1 /\ pc # "off"
    BY <1>0, <1>2, BlockAllocFacts DEF FSInv, WriteBlock
  <2>2. superblock' = [superblock EXCEPT !.free_blocks = superblock.free_blocks - 1]
        /\ dsuper' = dsuper /\ pc' = pc
    BY <1>2 DEF WriteBlock
  <2>3. QED
    BY <1>0, <2>1, <2>2 DEF Mounted
<1>3. ASSUME NEW name \in Names, FsDelete(name)
      PROVE  dsuper' = dsuper /\ superblock' \in SuperType /\ superblock'.magic = FS_MAGIC
  <2>. DEFINE entries == {j \in 1 .. MAX_FILE_BLOCKS : dinodes[inode_find(name)].blocks[j] # 0}
  <2>1. IsFiniteSet(1 .. MAX_FILE_BLOCKS) /\ entries \in SUBSET (1 .. MAX_FILE_BLOCKS)
    BY FS_Interval, DiskAssumption
  <2>2. Cardinality(entries) \in Nat
    BY Zenon, <2>1, FS_Subset, FS_CardinalityType
  <2>3. superblock' = [superblock EXCEPT !.free_blocks =
                         (superblock.free_blocks + Cardinality(entries)) % WORD]
        /\ pc = "idle" /\ dsuper' = dsuper
    BY <1>3 DEF FsDelete
  <2>. HIDE DEF entries
  <2>4. (superblock.free_blocks + Cardinality(entries)) % WORD \in 0 .. WORD - 1
    BY <1>0, <2>2, DiskAssumption
  <2>5. QED
    BY <1>0, <2>3, <2>4
<1>4. CASE PowerOff \/ Crash
  BY <1>0, <1>4, ZeroTypes DEF PowerOff, Crash, LoseMemory, Mounted
<1>5. CASE /\ superblock' = superblock /\ dsuper' \in {dsuper, superblock}
           /\ pc = "off" => pc' = "off"
  BY <1>0, <1>5 DEF Mounted
<1>6. CASE \E name \in Names : FsDelete(name)
  <2>1. pc' = "super" /\ dsuper' \in SuperType /\ superblock' \in SuperType
        /\ superblock'.magic = FS_MAGIC
    BY Zenon, <1>0, <1>3, <1>6 DEF FsDelete
  <2>2. QED
    BY <2>1 DEF Mounted
<1>7. \/ FsInit \/ WriteBlock \/ PowerOff \/ Crash \/ \E name \in Names : FsDelete(name)
      \/ /\ superblock' = superblock /\ dsuper' \in {dsuper, superblock}
         /\ pc = "off" => pc' = "off"
  BY Zenon DEF Next, Call, Step, FormatSuper, FormatInodes, FsCreate, FsCreateFails,
     FsDeleteFails, FsReadFails, FsRead, FsWrite, FsWriteFails, FsList, WriteDiskFull,
     WriteInode, UpdateSuperblock, vars
<1>8. QED
  BY <1>1, <1>2, <1>4, <1>5, <1>6, <1>7

(* every step preserves the invariant *)
LEMMA NextFSInv == FSInv /\ [Next]_vars => FSInv'
<1>. SUFFICES ASSUME FSInv, [Next]_vars PROVE FSInv'
  OBVIOUS
<1>1. FileInv /\ SizeKnown
  BY TypedFileInv, TypedSize DEF FSInv
<1>2. FileInv'
  <2>1. CASE Call \/ WriteBlock \/ WriteDiskFull \/ WriteInode \/ UpdateSuperblock
    BY <1>1, <2>1, CommandFileInv
  <2>2. CASE FormatSuper \/ FormatInodes
    BY <1>1, <2>2, FormatFileInv
  <2>3. CASE FsInit \/ PowerOff \/ Crash
    <3>1. call' \in CallType /\ pc' # "write" /\ UNCHANGED <<dinodes, ddata>>
      BY <1>1, <2>3, ZeroTypes DEF FsInit, PowerOff, Crash, LoseMemory, FileInv
    <3>2. QED
      BY <1>1, <3>1, QuietFileInv
  <2>4. CASE UNCHANGED vars
    <3>1. UNCHANGED <<dinodes, ddata, pc, call>>
      BY Zenon, <2>4 DEF vars
    <3>2. QED
      BY <1>1, <3>1, SameFileInv
  <2>5. QED
    BY <2>1, <2>2, <2>3, <2>4 DEF Next, Step
<1>3. pc' \in {"off", "idle", "format_super", "format_inodes", "write", "super"}
  BY Zenon DEF FSInv, TypeOK, Next, Call, Step, FsInit, FormatSuper, FormatInodes, FsCreate,
     FsCreateFails, FsDelete, FsDeleteFails, FsReadFails, FsRead, FsWrite, FsWriteFails,
     FsList, WriteBlock, WriteDiskFull, WriteInode, UpdateSuperblock, PowerOff, Crash,
     LoseMemory, Success, Failure, Return, vars
<1>4. crashes' \in 0 .. MaxCrashes
  <2>1. CASE Crash
    BY <2>1, CrashAssumption DEF FSInv, TypeOK, Crash
  <2>2. CASE crashes' = crashes
    BY <2>2 DEF FSInv, TypeOK
  <2>3. QED
    BY Zenon, <2>1, <2>2 DEF Next, Call, Step, FsInit, FormatSuper, FormatInodes, FsCreate,
       FsCreateFails, FsDelete, FsDeleteFails, FsReadFails, FsRead, FsWrite, FsWriteFails,
       FsList, WriteBlock, WriteDiskFull, WriteInode, UpdateSuperblock, PowerOff, vars
<1>5. QED
  BY <1>2, <1>3, <1>4, SuperNext DEF FSInv, TypeOK, FileInv

-----------------------------------------------------------------------------
(* The strengthened invariant holds in every reachable state, whatever the *)
(* calls and wherever the power goes.                                      *)
THEOREM FSInvariant == Spec => []FSInv
BY InitFSInv, NextFSInv, PTL DEF Spec

(* Every reachable state of AshFS is well typed: in particular every block *)
(* number on disk is a data sector of the disk, or 0.                      *)
THEOREM FSTypeOK == Spec => []TypeOK
<1>1. FSInv => TypeOK
  BY DEF FSInv
<1>2. QED
  BY <1>1, FSInvariant, PTL

(* No data sector ever belongs to two files. *)
THEOREM FSNoSharedBlocks == Spec => []NoSharedBlocks
<1>1. FSInv => NoSharedBlocks
  BY DEF FSInv
<1>2. QED
  BY <1>1, FSInvariant, PTL

LEMMA WritesOutOfPlace ==
  ASSUME FSInv, Next, NEW b \in DataSectors, ddata'[b] # ddata[b]
  PROVE  b \notin BlocksInUse
<1>1. WriteBlock
  BY Zenon DEF Next, Call, Step, FsInit, FormatSuper, FormatInodes, FsCreate,
         FsCreateFails, FsDelete, FsDeleteFails, FsReadFails, FsRead, FsWrite,
         FsWriteFails, FsList, WriteDiskFull, WriteInode, UpdateSuperblock,
         PowerOff, Crash, LoseMemory
<1>2. block_alloc \notin BlocksInUse /\ block_alloc \in DataSectors
  BY <1>1, BlockAllocFacts DEF FSInv, WriteBlock
<1>3. b = block_alloc
  BY <1>1, <1>2 DEF FSInv, TypeOK, WriteBlock
<1>4. QED
  BY Zenon, <1>2, <1>3

(* No step overwrites a sector that a file on disk refers to: fs_write is  *)
(* the only one that writes data, and block_alloc avoids those sectors.    *)
THEOREM FSOutOfPlace == Spec => OutOfPlace
<1>1. FSInv /\ [Next]_vars =>
        [\A b \in DataSectors : ddata'[b] # ddata[b] => b \notin BlocksInUse]_vars
  BY WritesOutOfPlace
<1>2. QED
  BY <1>1, FSInvariant, PTL DEF Spec, OutOfPlace

-----------------------------------------------------------------------------
(* What the steps that write an inode, or prepare one, do. *)

LEMMA WriteBlockEffect ==
  ASSUME FSInv, WriteBlock
  PROVE  /\ call.i \in Nat /\ call.i + 1 \in 1 .. MAX_FILE_BLOCKS
         /\ call'.i = call.i + 1 /\ call'.index = call.index /\ call'.data = call.data
         /\ call'.name = call.name
         /\ call'.inode.blocks = [call.inode.blocks EXCEPT ![call.i + 1] = block_alloc]
         /\ call.inode.blocks \in [1 .. MAX_FILE_BLOCKS -> {0} \cup DataSectors]
         /\ call.index \in Inodes
<1>1. /\ call.inode \in InodeType /\ call.i \in Nat /\ call.index \in Inodes
      /\ call.data \in Payloads \cup {<<>>} /\ call \in CallType
  BY DEF FSInv, TypeOK, CallType
<1>2. call.i + 1 \in 1 .. MAX_FILE_BLOCKS
  <2>1. BlocksNeeded(call.data) \in Nat
    BY <1>1, BlocksNeededType
  <2>2. call.i < BlocksNeeded(call.data) /\ BlocksNeeded(call.data) <= MAX_FILE_BLOCKS
    BY DEF FSInv, WriteOK, WriteBlock
  <2>3. QED
    BY <1>1, <2>1, <2>2, DiskAssumption
<1>3. call' = [call EXCEPT !.inode.blocks[call.i + 1] = block_alloc, !.i = call.i + 1]
  BY DEF WriteBlock
<1>4. /\ call'.inode = [call.inode EXCEPT !.blocks[call.i + 1] = block_alloc]
      /\ call'.i = call.i + 1 /\ call'.index = call.index /\ call'.data = call.data
      /\ call'.name = call.name
  BY <1>1, <1>3 DEF CallType
<1>5. /\ call'.inode.blocks = [call.inode.blocks EXCEPT ![call.i + 1] = block_alloc]
      /\ call.inode.blocks \in [1 .. MAX_FILE_BLOCKS -> {0} \cup DataSectors]
  BY <1>1, <1>4 DEF InodeType
<1>6. QED
  BY <1>1, <1>2, <1>4, <1>5

LEMMA WriteInodeEffect ==
  ASSUME FSInv, WriteInode
  PROVE  /\ call.index \in Inodes /\ call.inode \in InodeType /\ dinodes[call.index].used
         /\ call.data \in Payloads \cup {<<>>} /\ Len(call.data) \in 0 .. WORD - 1
         /\ call.i = BlocksNeeded(call.data) /\ BlocksNeeded(call.data) \in 0 .. MAX_FILE_BLOCKS
         /\ dinodes'[call.index] \in InodeType /\ dinodes'[call.index].used
         /\ dinodes'[call.index].name = dinodes[call.index].name
         /\ dinodes'[call.index].size = Len(call.data)
         /\ dinodes'[call.index].blocks = call.inode.blocks
         /\ \A m \in Inodes \ {call.index} : dinodes'[m] = dinodes[m]
<1>. DEFINE n == [call.inode EXCEPT !.size = Len(call.data)]
<1>1. /\ call.inode \in InodeType /\ call.index \in Inodes /\ pc = "write"
      /\ call.data \in Payloads \cup {<<>>} /\ call.i = BlocksNeeded(call.data)
      /\ dinodes' = [dinodes EXCEPT ![call.index] = n]
  BY DEF FSInv, TypeOK, CallType, WriteInode
<1>2. /\ call.inode.used /\ call.inode.name = dinodes[call.index].name
      /\ BlocksNeeded(call.data) <= MAX_FILE_BLOCKS /\ dinodes[call.index].used
  BY <1>1 DEF FSInv, WriteOK
<1>3. Len(call.data) \in 0 .. WORD - 1 /\ BlocksNeeded(call.data) \in 0 .. MAX_FILE_BLOCKS
  BY <1>1, <1>2, BlocksNeededType, DiskAssumption
<1>4. /\ n \in InodeType /\ n.used = call.inode.used /\ n.name = call.inode.name
      /\ n.size = Len(call.data) /\ n.blocks = call.inode.blocks
  BY <1>1, <1>3 DEF InodeType
<1>. HIDE DEF n
<1>5. dinodes'[call.index] = n /\ \A m \in Inodes \ {call.index} : dinodes'[m] = dinodes[m]
  BY <1>1 DEF FSInv, TypeOK
<1>6. QED
  BY Zenon, <1>1, <1>2, <1>3, <1>4, <1>5

LEMMA FsCreateEffect ==
  ASSUME FSInv, NEW name \in Names, FsCreate(name)
  PROVE  /\ inode_alloc \in Inodes /\ ~dinodes[inode_alloc].used
         /\ dinodes'[inode_alloc].name = Trunc[name] /\ dinodes'[inode_alloc].size = 0
         /\ dinodes'[inode_alloc].blocks = NoBlocks /\ dinodes'[inode_alloc].used
         /\ \A m \in Inodes \ {inode_alloc} : dinodes'[m] = dinodes[m]
<1>1. inode_alloc \in Inodes /\ ~dinodes[inode_alloc].used
  BY AllocFacts DEF FsCreate
<1>. DEFINE n == [ZeroInode EXCEPT !.name = Trunc[name], !.used = TRUE]
<1>2. n.name = Trunc[name] /\ n.size = 0 /\ n.blocks = NoBlocks /\ n.used
  BY DEF ZeroInode
<1>3. dinodes' = [dinodes EXCEPT ![inode_alloc] = n]
  BY DEF FsCreate
<1>. HIDE DEF n
<1>4. dinodes'[inode_alloc] = n /\ \A m \in Inodes \ {inode_alloc} : dinodes'[m] = dinodes[m]
  BY <1>1, <1>3 DEF FSInv, TypeOK
<1>5. QED
  BY <1>1, <1>2, <1>4

LEMMA FsDeleteEffect ==
  ASSUME FSInv, NEW name \in Names, FsDelete(name)
  PROVE  /\ inode_find(name) \in Inodes /\ dinodes[inode_find(name)].used
         /\ dinodes[inode_find(name)].name = name
         /\ dinodes'[inode_find(name)].used = FALSE
         /\ \A m \in Inodes \ {inode_find(name)} : dinodes'[m] = dinodes[m]
<1>1. /\ inode_find(name) \in Inodes /\ dinodes[inode_find(name)].used
      /\ dinodes[inode_find(name)].name = name
  BY FindFacts DEF FsDelete
<1>2. dinodes' = [dinodes EXCEPT ![inode_find(name)].blocks = NoBlocks,
                                 ![inode_find(name)].used = FALSE]
  BY DEF FsDelete
<1>3. QED
  BY <1>1, <1>2 DEF FSInv, TypeOK, InodeType

(* the steps that write no inode and are not part of fs_write's loop *)
OtherStep ==
  \/ FsInit \/ FormatSuper \/ FsList \/ WriteDiskFull \/ UpdateSuperblock \/ PowerOff \/ Crash
  \/ \E name \in Names :
       \/ FsCreateFails(name) \/ FsDeleteFails(name) \/ FsReadFails(name)
       \/ \E size \in ReadSizes : FsRead(name, size)
       \/ \E data \in Payloads : FsWriteFails(name, data)
  \/ UNCHANGED vars

LEMMA StepKinds ==
  ASSUME [Next]_vars
  PROVE  \/ FormatInodes \/ WriteBlock \/ WriteInode \/ OtherStep
         \/ \E name \in Names : FsCreate(name) \/ FsDelete(name)
         \/ \E name \in Names, data \in Payloads : FsWrite(name, data)
BY DEF Next, Call, Step, OtherStep

-----------------------------------------------------------------------------
(* Names are unique. *)

(* every name fits an inode *)
ShortNames == \A n \in Names : Trunc[n] = n

(* inode_find fails only if no file has the name *)
LEMMA NotFound ==
  ASSUME NEW name, inode_find(name) = -1
  PROVE  Matching(name) = {}
<1>1. SUFFICES ASSUME Matching(name) # {} PROVE FALSE
  OBVIOUS
<1>2. Matching(name) \in SUBSET Nat
  BY DiskAssumption DEF Matching, Inodes
<1>3. inode_find(name) \in Nat
  BY <1>1, <1>2, SmallestOfMember DEF inode_find
<1>4. QED
  BY <1>3

LEMMA UniqueNamesNext ==
  ASSUME ShortNames, FSInv, UniqueNames, [Next]_vars
  PROVE  UniqueNames'
<1>1. CASE \/ FormatInodes \/ WriteInode \/ OtherStep \/ WriteBlock
           \/ \E name \in Names : FsDelete(name)
           \/ \E name \in Names, data \in Payloads : FsWrite(name, data)
  <2>1. ASSUME NEW m \in Inodes, dinodes'[m].used
        PROVE  dinodes[m].used /\ dinodes'[m].name = dinodes[m].name
    <3>1. CASE FormatInodes
      BY <2>1, <3>1 DEF FormatInodes, ZeroInode
    <3>2. CASE WriteInode
      BY <2>1, <3>2, WriteInodeEffect
    <3>3. CASE \E name \in Names : FsDelete(name)
      BY Zenon, <2>1, <3>3, FsDeleteEffect
    <3>4. CASE UNCHANGED dinodes
      BY <2>1, <3>4
    <3>5. QED
      BY <1>1, <3>1, <3>2, <3>3, <3>4 DEF OtherStep, FsInit, FormatSuper, FsList, WriteBlock,
         WriteDiskFull, UpdateSuperblock, PowerOff, Crash, LoseMemory, FsCreateFails,
         FsDeleteFails, FsReadFails, FsRead, FsWrite, FsWriteFails, vars
  <2>2. QED
    BY <2>1 DEF UniqueNames
<1>2. ASSUME NEW name \in Names, FsCreate(name) PROVE UniqueNames'
  <2>1. PICK x \in Inodes :
          /\ dinodes'[x].name = name
          /\ \A m \in Inodes \ {x} : dinodes'[m] = dinodes[m]
    BY <1>2, FsCreateEffect DEF ShortNames
  <2>2. Matching(name) = {}
    BY <1>2, NotFound DEF FsCreate
  <2>3. QED
    BY <2>1, <2>2 DEF Matching, UniqueNames
<1>3. QED
  BY <1>1, <1>2, StepKinds

(* If no name is too long for an inode, no two files have the same name. *)
THEOREM FSUniqueNames ==
  ASSUME ShortNames
  PROVE  Spec => []UniqueNames
<1>1. Init => UniqueNames
  BY DEF Init, UniqueNames, ZeroInode
<1>2. FSInv /\ UniqueNames /\ [Next]_vars => UniqueNames'
  BY UniqueNamesNext
<1>3. QED
  BY <1>1, <1>2, FSInvariant, PTL DEF Spec

-----------------------------------------------------------------------------
(* The disk is formatted once, when it holds no files. *)

Formatted ==
  /\ pc \notin {"off", "format_super"} => dsuper.magic = FS_MAGIC
  /\ dsuper.magic # FS_MAGIC \/ pc \in {"format_super", "format_inodes"} =>
       \A i \in Inodes : ~dinodes[i].used

LEMMA FormattedNext ==
  ASSUME FSInv, Formatted, [Next]_vars
  PROVE  Formatted'
<1>1. CASE pc \in {"off", "format_super", "format_inodes"}
  <2>1. CASE FsInit
    BY <2>1 DEF FsInit, Formatted
  <2>2. CASE FormatSuper
    BY <2>2 DEF FormatSuper, Formatted, FSInv, Mounted
  <2>3. CASE FormatInodes
    BY <2>3 DEF FormatInodes, ZeroInode, Formatted
  <2>4. CASE Crash
    BY <2>4 DEF Crash, LoseMemory, Formatted
  <2>5. CASE UNCHANGED vars
    BY <2>5 DEF vars, Formatted
  <2>6. QED
    BY Zenon, <1>1, <2>1, <2>2, <2>3, <2>4, <2>5
       DEF Next, Call, Step, FsCreate, FsCreateFails, FsDelete, FsDeleteFails, FsReadFails,
           FsRead, FsWrite, FsWriteFails, FsList, WriteBlock, WriteDiskFull, WriteInode,
           UpdateSuperblock, PowerOff
<1>2. CASE pc \notin {"off", "format_super", "format_inodes"}
  <2>1. dsuper.magic = FS_MAGIC /\ superblock.magic = FS_MAGIC
    BY <1>2 DEF Formatted, FSInv, Mounted
  <2>2. (dsuper' = dsuper \/ dsuper' = superblock)
        /\ pc' \notin {"format_super", "format_inodes"}
    BY Zenon, <1>2 DEF Next, Call, Step, FsInit, FormatSuper, FormatInodes, FsCreate, FsCreateFails,
       FsDelete, FsDeleteFails, FsReadFails, FsRead, FsWrite, FsWriteFails, FsList,
       WriteBlock, WriteDiskFull, WriteInode, UpdateSuperblock, PowerOff, Crash, LoseMemory,
       Success, Failure, Return, vars
  <2>3. QED
    BY <2>1, <2>2 DEF Formatted
<1>3. QED
  BY Zenon, <1>1, <1>2

-----------------------------------------------------------------------------
(* Files are covered by their blocks. *)

(* the running fs_write has filled the first entries of its copy of the    *)
(* inode and left the others as they are on disk                           *)
WriteProgress ==
  pc = "write" =>
    /\ call.i <= BlocksNeeded(call.data)
    /\ \A j \in 1 .. MAX_FILE_BLOCKS :
         IF j <= call.i THEN call.inode.blocks[j] # 0
         ELSE call.inode.blocks[j] = dinodes[call.index].blocks[j]

SizeInv == SizeCovered /\ WriteProgress

(* n blocks in a row hold n sectors of bytes *)
LEMMA CoveredAtLeast ==
  ASSUME NEW inode, NEW n \in 0 .. MAX_FILE_BLOCKS, \A k \in 1 .. n : inode.blocks[k] # 0
  PROVE  Covered(inode) \in Nat /\ BLOCK_SIZE * n <= Covered(inode)
<1>. DEFINE S == {j \in 1 .. MAX_FILE_BLOCKS : \A k \in 1 .. j : inode.blocks[k] # 0}
<1>1. n \in Nat /\ MAX_FILE_BLOCKS \in Nat /\ BLOCK_SIZE \in Nat
  BY DiskAssumption
<1>2. IsFiniteSet(1 .. MAX_FILE_BLOCKS)
  BY <1>1, FS_Interval
<1>3. S \subseteq 1 .. MAX_FILE_BLOCKS
  OBVIOUS
<1>4. IsFiniteSet(S) /\ Cardinality(S) \in Nat
  BY Zenon, <1>2, <1>3, FS_Subset, FS_CardinalityType
<1>5. 1 .. n \subseteq S
  BY <1>1
<1>6. Cardinality(1 .. n) = n
  BY <1>1, FS_Interval
<1>7. Covered(inode) = BLOCK_SIZE * Cardinality(S)
  BY DEF Covered
<1>. HIDE DEF S
<1>8. n <= Cardinality(S)
  BY <1>4, <1>5, <1>6, FS_Subset
<1>9. PICK d \in Nat : Cardinality(S) = n + d
  BY <1>1, <1>4, <1>8, Cardinality(S) - n \in Nat
<1>10. BLOCK_SIZE * Cardinality(S) = BLOCK_SIZE * n + BLOCK_SIZE * d
       /\ BLOCK_SIZE * n \in Nat /\ BLOCK_SIZE * d \in Nat
  BY <1>1, <1>9
<1>11. QED
  BY <1>7, <1>10

(* a file has MAX_FILE_BLOCKS blocks *)
LEMMA CoveredAtMost ==
  ASSUME NEW inode
  PROVE  Covered(inode) \in Nat /\ Covered(inode) <= MAX_FILE_BLOCKS * BLOCK_SIZE
<1>. DEFINE S == {j \in 1 .. MAX_FILE_BLOCKS : \A k \in 1 .. j : inode.blocks[k] # 0}
<1>1. MAX_FILE_BLOCKS \in Nat /\ BLOCK_SIZE \in Nat
  BY DiskAssumption
<1>2. IsFiniteSet(1 .. MAX_FILE_BLOCKS) /\ Cardinality(1 .. MAX_FILE_BLOCKS) = MAX_FILE_BLOCKS
  BY <1>1, FS_Interval
<1>3. S \subseteq 1 .. MAX_FILE_BLOCKS
  OBVIOUS
<1>4. Covered(inode) = BLOCK_SIZE * Cardinality(S)
  BY DEF Covered
<1>. HIDE DEF S
<1>5. IsFiniteSet(S) /\ Cardinality(S) \in Nat /\ Cardinality(S) <= MAX_FILE_BLOCKS
  BY <1>2, <1>3, FS_Subset, FS_CardinalityType
<1>6. PICK c \in Nat, d \in Nat : c = Cardinality(S) /\ MAX_FILE_BLOCKS = c + d
  BY <1>1, <1>5, MAX_FILE_BLOCKS - Cardinality(S) \in Nat
<1>7. /\ MAX_FILE_BLOCKS * BLOCK_SIZE = BLOCK_SIZE * c + BLOCK_SIZE * d
      /\ BLOCK_SIZE * c \in Nat /\ BLOCK_SIZE * d \in Nat
  BY <1>1, <1>6
<1>8. QED
  BY <1>4, <1>6, <1>7

LEMMA Division ==
  ASSUME NEW b \in Nat \ {0}, NEW w \in Nat
  PROVE  /\ w \div b \in Nat /\ w % b \in 0 .. b - 1
         /\ w = b * (w \div b) + (w % b) /\ b * (w \div b) \in Nat
         /\ b * (w \div b) = (w \div b) * b
<1>1. PICK q \in Nat : q = w \div b
  OBVIOUS
<1>2. PICK m \in 0 .. b - 1 : m = w % b
  OBVIOUS
<1>3. w = b * q + m
  BY <1>1, <1>2
<1>4. b * q \in Nat /\ b * q = q * b
  OBVIOUS
<1>5. QED
  BY <1>1, <1>2, <1>3, <1>4

(* the blocks of a file hold its contents ... *)
LEMMA BlocksNeededHold ==
  ASSUME NEW data \in Seq(Nat), ~Wraps(Len(data))
  PROVE  Len(data) <= BLOCK_SIZE * BlocksNeeded(data)
<1>0. Len(data) \in Nat
  OBVIOUS
<1>1. PICK l \in Nat, b \in Nat \ {0} : l = Len(data) /\ b = BLOCK_SIZE
  BY <1>0, DiskAssumption
<1>2. PICK w \in Nat : w = l + b - 1
  BY ONLY l \in Nat, b \in Nat \ {0}, l + b - 1 \in Nat
<1>3. w % WORD = w
  <2>1. WORD \in Nat \ {0} /\ w < WORD
    BY <1>1, <1>2, DiskAssumption DEF Wraps
  <2>2. QED
    BY ONLY <2>1, w \in Nat
<1>4. BlocksNeeded(data) = w \div b
  BY <1>1, <1>2, <1>3 DEF BlocksNeeded
<1>5. PICK p \in Nat : p = b * (w \div b)
  BY Zenon, Division
<1>6. PICK m \in 0 .. b - 1 : w = p + m
  BY Zenon, <1>5, Division
<1>7. l <= p
  BY ONLY <1>2, <1>6, l \in Nat, b \in Nat \ {0}, p \in Nat, m \in 0 .. b - 1
<1>8. QED
  BY <1>1, <1>4, <1>5, <1>7

(* ... unless their number wraps: then there are none *)
LEMMA BlocksNeededWraps ==
  ASSUME NEW data \in Seq(Nat), Len(data) < WORD, Wraps(Len(data))
  PROVE  BlocksNeeded(data) = 0
<1>1. Len(data) \in Nat
  OBVIOUS
<1>2. PICK l \in Nat, b \in Nat \ {0}, w \in Nat \ {0} :
        l = Len(data) /\ b = BLOCK_SIZE /\ w = WORD
  BY <1>1, DiskAssumption
<1>3. PICK m \in Nat : m = l + b - 1
  BY ONLY l \in Nat, b \in Nat \ {0}, l + b - 1 \in Nat
<1>4. b <= w
  <2>1. PICK f \in Nat : f = MAX_FILE_BLOCKS * BLOCK_SIZE
    BY DiskAssumption
  <2>2. (MAX_FILE_BLOCKS + 1) * BLOCK_SIZE = f + BLOCK_SIZE
    BY <2>1, DiskAssumption
  <2>3. QED
    BY <1>2, <2>2, DiskAssumption
<1>5. w <= m /\ m < w + b /\ m - w < w
  BY <1>2, <1>3, <1>4 DEF Wraps
<1>6. m % w = m - w
  BY ONLY <1>5, m \in Nat, w \in Nat \ {0}
<1>7. m - w \in 0 .. b - 1
  BY <1>5
<1>8. (m - w) \div b = 0
  BY ONLY <1>7, b \in Nat \ {0}
<1>9. QED
  BY <1>2, <1>3, <1>6, <1>8 DEF BlocksNeeded

LEMMA SizeNext ==
  ASSUME FSInv, SizeInv, [Next]_vars
  PROVE  SizeInv'
<1>1. CASE FormatInodes
  <2>1. \A m \in Inodes : dinodes'[m].used => dinodes'[m] = dinodes[m]
    BY <1>1 DEF FormatInodes, ZeroInode
  <2>2. SizeCovered'
    BY Zenon, <2>1 DEF SizeInv, SizeCovered, Covered, Wraps
  <2>3. pc' # "write"
    BY <1>1 DEF FormatInodes
  <2>4. QED
    BY <2>2, <2>3 DEF SizeInv, WriteProgress
<1>2. CASE WriteBlock
  <2>1. /\ call.i \in Nat /\ call.i + 1 \in 1 .. MAX_FILE_BLOCKS
        /\ call'.i = call.i + 1 /\ call'.index = call.index /\ call'.data = call.data
        /\ call'.inode.blocks = [call.inode.blocks EXCEPT ![call.i + 1] = block_alloc]
        /\ call.inode.blocks \in [1 .. MAX_FILE_BLOCKS -> {0} \cup DataSectors]
    BY <1>2, WriteBlockEffect
  <2>2. /\ pc = "write" /\ dinodes' = dinodes /\ block_alloc # 0
        /\ call.i < BlocksNeeded(call.data) /\ BlocksNeeded(call.data) \in Nat
    BY <1>2, BlocksNeededType DEF WriteBlock, FSInv, TypeOK, CallType
  <2>3. SizeCovered'
    BY <2>2 DEF SizeInv, SizeCovered, Covered, Wraps
  <2>4. call'.i <= BlocksNeeded(call.data)
    BY <2>1, <2>2
  <2>5. ASSUME NEW j \in 1 .. MAX_FILE_BLOCKS
        PROVE  IF j <= call'.i THEN call'.inode.blocks[j] # 0
               ELSE call'.inode.blocks[j] = dinodes[call.index].blocks[j]
    <3>1. CASE j = call.i + 1
      <4>1. call'.inode.blocks[j] = block_alloc
        BY Zenon, <2>1, <3>1
      <4>2. QED
        BY <2>1, <2>2, <3>1, <4>1
    <3>2. CASE j # call.i + 1
      <4>1. call'.inode.blocks[j] = call.inode.blocks[j]
        BY <2>1, <3>2
      <4>2. j <= call'.i <=> j <= call.i
        BY <2>1, <3>2
      <4>3. IF j <= call.i THEN call.inode.blocks[j] # 0
            ELSE call.inode.blocks[j] = dinodes[call.index].blocks[j]
        BY <2>2 DEF SizeInv, WriteProgress
      <4>4. QED
        BY <4>1, <4>2, <4>3
    <3>3. QED
      BY <3>1, <3>2
  <2>6. BlocksNeeded(call'.data) = BlocksNeeded(call.data)
    BY <2>1
  <2>7. WriteProgress'
    BY <2>1, <2>2, <2>4, <2>5, <2>6 DEF WriteProgress, BlocksNeeded
  <2>8. QED
    BY <2>3, <2>7 DEF SizeInv
<1>3. CASE WriteInode
  <2>1. /\ call.index \in Inodes /\ call.data \in Payloads \cup {<<>>}
        /\ call.i = BlocksNeeded(call.data) /\ BlocksNeeded(call.data) \in 0 .. MAX_FILE_BLOCKS
        /\ dinodes'[call.index].size = Len(call.data) /\ Len(call.data) \in 0 .. WORD - 1
        /\ dinodes'[call.index].blocks = call.inode.blocks
        /\ \A m \in Inodes \ {call.index} : dinodes'[m] = dinodes[m]
    BY <1>3, WriteInodeEffect
  <2>2. pc = "write" /\ pc' = "super"
    BY <1>3 DEF WriteInode
  <2>3. PICK x : x = call.index
    OBVIOUS
  <2>4. \A k \in 1 .. BlocksNeeded(call.data) : dinodes'[x].blocks[k] # 0
    BY <2>1, <2>2, <2>3, DiskAssumption DEF SizeInv, WriteProgress
  <2>5. PICK n \in 0 .. MAX_FILE_BLOCKS : n = BlocksNeeded(call.data)
    BY <2>1
  <2>6. PICK new : new = dinodes'[x]
    OBVIOUS
  <2>7. Covered(new) \in Nat /\ BLOCK_SIZE * n <= Covered(new)
    BY <2>4, <2>5, <2>6, CoveredAtLeast
  <2>8. Wraps(Len(call.data)) \/ Len(call.data) <= BLOCK_SIZE * n
    BY <2>1, <2>5, DataType, BlocksNeededHold
  <2>9. new.size <= Covered(new) \/ Wraps(new.size)
    <3>1. PICK p \in Nat : p = BLOCK_SIZE * n
      BY DiskAssumption
    <3>2. new.size = Len(call.data)
      BY <2>1, <2>3, <2>6
    <3>3. QED
      BY <2>1, <2>7, <2>8, <3>1, <3>2, DiskAssumption
  <2>10. SizeCovered'
    <3>1. ASSUME NEW m \in Inodes, dinodes'[m].used
          PROVE  dinodes'[m].size <= Covered(dinodes'[m]) \/ Wraps(dinodes'[m].size)
      BY <3>1, <2>1, <2>3, <2>6, <2>9, DiskAssumption DEF SizeInv, SizeCovered
    <3>2. QED
      BY <3>1 DEF SizeCovered, Covered, Wraps
  <2>11. QED
    BY <2>2, <2>10 DEF SizeInv, WriteProgress
<1>4. ASSUME NEW name \in Names, FsCreate(name) PROVE SizeInv'
  <2>1. PICK x \in Inodes :
          /\ dinodes'[x].size = 0
          /\ \A m \in Inodes \ {x} : dinodes'[m] = dinodes[m]
    BY <1>4, FsCreateEffect
  <2>2. PICK new : new = dinodes'[x]
    OBVIOUS
  <2>3. new.size = 0 /\ Covered(new) \in Nat /\ BLOCK_SIZE * 0 = 0
    BY <2>1, <2>2, CoveredAtLeast, DiskAssumption
  <2>4. SizeCovered'
    <3>1. ASSUME NEW m \in Inodes, dinodes'[m].used
          PROVE  dinodes'[m].size <= Covered(dinodes'[m]) \/ Wraps(dinodes'[m].size)
      BY <3>1, <2>1, <2>2, <2>3, DiskAssumption DEF SizeInv, SizeCovered
    <3>2. QED
      BY <3>1 DEF SizeCovered, Covered, Wraps
  <2>5. QED
    BY <1>4, <2>4 DEF SizeInv, WriteProgress, FsCreate, Success, Return
<1>5. ASSUME NEW name \in Names, FsDelete(name) PROVE SizeInv'
  <2>1. \A m \in Inodes : dinodes'[m].used => dinodes'[m] = dinodes[m]
    BY Zenon, <1>5, FsDeleteEffect
  <2>2. SizeCovered'
    BY Zenon, <2>1 DEF SizeInv, SizeCovered, Covered, Wraps
  <2>3. QED
    BY <1>5, <2>2 DEF SizeInv, WriteProgress, FsDelete
<1>6. ASSUME NEW name \in Names, NEW data \in Payloads, FsWrite(name, data) PROVE SizeInv'
  <2>1. /\ dinodes' = dinodes /\ call'.i = 0 /\ call'.data = data
        /\ call'.inode = dinodes[call'.index]
    BY <1>6 DEF FsWrite
  <2>2. BlocksNeeded(data) \in Nat
    BY BlocksNeededType
  <2>3. QED
    BY <2>1, <2>2 DEF SizeInv, SizeCovered, Covered, Wraps, WriteProgress, BlocksNeeded
<1>7. CASE OtherStep
  <2>1. dinodes' = dinodes /\ (pc' # "write" \/ UNCHANGED vars)
    BY <1>7 DEF OtherStep, FsInit, FormatSuper, FsList, WriteDiskFull, UpdateSuperblock,
       PowerOff, Crash, LoseMemory, FsCreateFails, FsDeleteFails, FsReadFails, FsRead,
       FsWriteFails, Success, Failure, Return, vars
  <2>2. SizeCovered'
    BY <2>1 DEF SizeInv, SizeCovered, Covered, Wraps
  <2>3. WriteProgress'
    BY <2>1 DEF SizeInv, WriteProgress, BlocksNeeded, vars
  <2>4. QED
    BY <2>2, <2>3 DEF SizeInv
<1>8. QED
  BY <1>1, <1>2, <1>3, <1>4, <1>5, <1>6, <1>7, StepKinds

(* An inode never reaches the disk with a size its block list does not     *)
(* cover, whatever is written, overwritten or interrupted, so that fs_read *)
(* finds as many bytes as the file has - except for the sizes within a     *)
(* block of 2^32 for which fs_write's rounding wraps.                      *)
THEOREM FSSizeCovered == Spec => []SizeCovered
<1>1. Init => FSInv /\ SizeInv
  <2>1. Init => SizeInv
    BY DEF Init, SizeInv, SizeCovered, WriteProgress, ZeroInode
  <2>2. QED
    BY <2>1, InitFSInv
<1>2. FSInv /\ SizeInv /\ [Next]_vars => (FSInv /\ SizeInv)'
  BY NextFSInv, SizeNext
<1>3. FSInv /\ SizeInv => SizeCovered
  BY DEF SizeInv
<1>4. QED
  BY <1>1, <1>2, <1>3, PTL DEF Spec

-----------------------------------------------------------------------------
(* The free block count. *)

(* The block entries of files.  fs_delete gives back one block per entry,  *)
(* so entries are what has to be counted: one sector may stand in several  *)
(* of a file's (FileBlocksDistinct).                                       *)
EntriesOf(inodes) ==
  {e \in Inodes \X (1 .. MAX_FILE_BLOCKS) :
     inodes[e[1]].used /\ inodes[e[1]].blocks[e[2]] # 0}
Entries == EntriesOf(dinodes)
Positions(inode) == {j \in 1 .. MAX_FILE_BLOCKS : inode.blocks[j] # 0}

CountInv ==
  crashes = 0 =>
    /\ pc = "format_super" => superblock = NewSuper
    /\ pc = "format_inodes" => superblock = NewSuper /\ dsuper = NewSuper
    /\ pc \in {"idle", "super"} =>
         superblock.free_blocks + Cardinality(Entries) <= TOTAL_BLOCKS
    /\ pc = "write" =>
         superblock.free_blocks + call.i + Cardinality(Entries) <= TOTAL_BLOCKS
    /\ pc \in {"off", "idle", "write"} =>
         dsuper.free_blocks + Cardinality(Entries) <= TOTAL_BLOCKS

LEMMA EntriesFinite ==
  ASSUME NEW d
  PROVE  IsFiniteSet(EntriesOf(d)) /\ Cardinality(EntriesOf(d)) \in Nat
<1>1. IsFiniteSet(Inodes) /\ IsFiniteSet(1 .. MAX_FILE_BLOCKS)
  BY DiskAssumption, FS_Interval DEF Inodes
<1>2. IsFiniteSet(Inodes \X (1 .. MAX_FILE_BLOCKS))
  BY Zenon, <1>1, FS_Product
<1>3. EntriesOf(d) \subseteq Inodes \X (1 .. MAX_FILE_BLOCKS)
  BY DEF EntriesOf
<1>4. QED
  BY <1>2, <1>3, FS_Subset, FS_CardinalityType

(* the entries of one inode are as many as the positions they stand at *)
LEMMA RowCount ==
  ASSUME NEW x, NEW J \in SUBSET (1 .. MAX_FILE_BLOCKS)
  PROVE  /\ IsFiniteSet({x} \X J) /\ IsFiniteSet(J) /\ Cardinality(J) \in Nat
         /\ Cardinality({x} \X J) = Cardinality(J)
<1>1. IsFiniteSet(1 .. MAX_FILE_BLOCKS)
  BY DiskAssumption, FS_Interval
<1>2. IsFiniteSet(J) /\ Cardinality(J) \in Nat
  BY Zenon, <1>1, FS_Subset, FS_CardinalityType
<1>3. IsFiniteSet({x}) /\ Cardinality({x}) = 1
  BY Zenon, FS_Singleton
<1>4. IsFiniteSet({x} \X J) /\ Cardinality({x} \X J) = Cardinality({x}) * Cardinality(J)
  BY <1>2, <1>3, FS_Product
<1>5. QED
  BY <1>2, <1>3, <1>4

(* replacing the first n entries of a used inode adds at most n *)
LEMMA EntriesWritten ==
  ASSUME NEW d, NEW e, NEW x \in Inodes, NEW n \in 0 .. MAX_FILE_BLOCKS, d[x].used,
         \A m \in Inodes \ {x} : e[m] = d[m],
         \A j \in 1 .. MAX_FILE_BLOCKS : j > n => e[x].blocks[j] = d[x].blocks[j]
  PROVE  Cardinality(EntriesOf(e)) <= Cardinality(EntriesOf(d)) + n
<1>. DEFINE row == {x} \X (1 .. n)
<1>1. n \in Nat /\ 1 .. n \in SUBSET (1 .. MAX_FILE_BLOCKS)
  BY DiskAssumption
<1>2. IsFiniteSet(row) /\ Cardinality(row) = n
  <2>1. Cardinality(1 .. n) = n
    BY <1>1, FS_Interval
  <2>2. IsFiniteSet(row) /\ Cardinality(row) = Cardinality(1 .. n)
    BY Zenon, <1>1, RowCount
  <2>3. QED
    BY <2>1, <2>2
<1>3. EntriesOf(e) \subseteq EntriesOf(d) \cup row
  <2>1. SUFFICES ASSUME NEW m \in Inodes, NEW j \in 1 .. MAX_FILE_BLOCKS,
                        e[m].used, e[m].blocks[j] # 0, <<m, j>> \notin row
                 PROVE  d[m].used /\ d[m].blocks[j] # 0
    BY DEF EntriesOf
  <2>2. CASE m # x
    BY <2>1, <2>2
  <2>3. CASE m = x
    <3>1. j > n
      BY <1>1, <2>1, <2>3, DiskAssumption
    <3>2. QED
      BY <2>1, <2>3, <3>1
  <2>4. QED
    BY <2>2, <2>3
<1>. HIDE DEF row
<1>4. /\ IsFiniteSet(EntriesOf(d) \cup row)
      /\ Cardinality(EntriesOf(d) \cup row) =
           Cardinality(EntriesOf(d)) + Cardinality(row) - Cardinality(EntriesOf(d) \cap row)
  BY <1>2, EntriesFinite, FS_Union
<1>5. Cardinality(EntriesOf(d) \cap row) \in Nat
  <2>1. IsFiniteSet(EntriesOf(d) \cap row)
    BY <1>2, FS_Subset, EntriesOf(d) \cap row \subseteq row
  <2>2. QED
    BY <2>1, FS_CardinalityType
<1>6. Cardinality(EntriesOf(e)) <= Cardinality(EntriesOf(d) \cup row)
  BY <1>3, <1>4, FS_Subset
<1>7. QED
  BY <1>1, <1>2, <1>4, <1>5, <1>6, EntriesFinite

(* dropping a used inode takes its entries away, and no other *)
LEMMA EntriesDropped ==
  ASSUME NEW d, NEW e, NEW x \in Inodes, d[x].used, ~e[x].used,
         \A m \in Inodes \ {x} : e[m] = d[m]
  PROVE  /\ Cardinality(Positions(d[x])) \in Nat
         /\ Cardinality(EntriesOf(d)) = Cardinality(EntriesOf(e)) +
              Cardinality(Positions(d[x]))
<1>. DEFINE J == Positions(d[x])
            row == {x} \X J
<1>1. J \in SUBSET (1 .. MAX_FILE_BLOCKS)
  BY DEF Positions
<1>2. EntriesOf(e) = EntriesOf(d) \ row
  <2>1. SUFFICES ASSUME NEW m \in Inodes, NEW j \in 1 .. MAX_FILE_BLOCKS
                 PROVE  e[m].used /\ e[m].blocks[j] # 0 <=>
                        d[m].used /\ d[m].blocks[j] # 0 /\ <<m, j>> \notin row
    BY DEF EntriesOf
  <2>2. CASE m # x
    BY <2>2
  <2>3. CASE m = x
    BY <2>3 DEF Positions
  <2>4. QED
    BY <2>2, <2>3
<1>3. EntriesOf(d) \cap row = row
  BY DEF EntriesOf, Positions
<1>. HIDE DEF J
<1>4. IsFiniteSet(row) /\ Cardinality(row) = Cardinality(J) /\ Cardinality(J) \in Nat
  BY Zenon, <1>1, RowCount
<1>. HIDE DEF row
<1>5. Cardinality(EntriesOf(d) \ row) =
        Cardinality(EntriesOf(d)) - Cardinality(EntriesOf(d) \cap row)
  BY Zenon, EntriesFinite, FS_Difference
<1>6. Cardinality(EntriesOf(d)) = Cardinality(EntriesOf(e)) + Cardinality(J)
  <2>1. Cardinality(EntriesOf(e)) = Cardinality(EntriesOf(d)) - Cardinality(J)
    BY Zenon, <1>2, <1>3, <1>4, <1>5
  <2>2. Cardinality(EntriesOf(d)) \in Nat
    BY EntriesFinite
  <2>3. QED
    BY <1>4, <2>1, <2>2
<1>7. QED
  BY <1>4, <1>6 DEF J

(* every block in use stands in an entry *)
LEMMA BlocksCounted ==
  IsFiniteSet(BlocksInUse) /\ Cardinality(BlocksInUse) \in Nat
  /\ Cardinality(BlocksInUse) <= Cardinality(Entries)
<1>. DEFINE f == [e \in Entries |-> dinodes[e[1]].blocks[e[2]]]
<1>1. \A b \in BlocksInUse : \E e \in Entries : f[e] = b
  <2>1. SUFFICES ASSUME NEW b \in BlocksInUse PROVE \E e \in Entries : f[e] = b
    OBVIOUS
  <2>2. PICK m \in Inodes : dinodes[m].used /\ b \in BlocksOf(dinodes[m])
    BY DEF BlocksInUse
  <2>3. PICK j \in 1 .. MAX_FILE_BLOCKS : b = dinodes[m].blocks[j] /\ b # 0
    BY <2>2 DEF BlocksOf
  <2>4. <<m, j>> \in Entries
    BY <2>2, <2>3 DEF Entries, EntriesOf
  <2>5. f[<<m, j>>] = b
    BY <2>3, <2>4
  <2>6. QED
    BY <2>4, <2>5
<1>2. \A e \in Entries : f[e] \in BlocksInUse
  <2>1. SUFFICES ASSUME NEW m \in Inodes, NEW j \in 1 .. MAX_FILE_BLOCKS,
                        dinodes[m].used, dinodes[m].blocks[j] # 0
                 PROVE  dinodes[m].blocks[j] \in BlocksInUse
    BY DEF Entries, EntriesOf
  <2>2. dinodes[m].blocks[j] \in BlocksOf(dinodes[m])
    BY <2>1 DEF BlocksOf
  <2>3. QED
    BY <2>1, <2>2 DEF BlocksInUse
<1>3. f \in [Entries -> BlocksInUse]
  BY <1>2
<1>. HIDE DEF f
<1>4. f \in Surjection(Entries, BlocksInUse)
  BY <1>1, <1>3 DEF Surjection
<1>5. IsFiniteSet(Entries)
  BY EntriesFinite DEF Entries
<1>6. QED
  BY <1>4, <1>5, FS_Surjection, FS_CardinalityType

LEMMA FreeBlocksType ==
  ASSUME FSInv
  PROVE  /\ superblock.free_blocks \in Nat /\ dsuper.free_blocks \in Nat
         /\ Cardinality(Entries) \in Nat /\ TOTAL_BLOCKS \in Nat /\ call.i \in Nat
         /\ WORD \in Nat /\ TOTAL_BLOCKS < WORD
<1>1. /\ superblock.free_blocks \in Nat /\ dsuper.free_blocks \in Nat
  <2>1. ASSUME NEW s \in SuperType PROVE s.free_blocks \in Nat
    BY DiskAssumption DEF SuperType, ZeroSuper
  <2>2. QED
    BY <2>1 DEF FSInv, TypeOK
<1>2. Cardinality(Entries) \in Nat
  BY EntriesFinite DEF Entries
<1>3. QED
  BY <1>1, <1>2, DiskAssumption DEF FSInv, TypeOK, CallType

LEMMA NoEntries ==
  ASSUME NEW d, \A i \in Inodes : ~d[i].used
  PROVE  Cardinality(EntriesOf(d)) = 0
<1>1. EntriesOf(d) = {}
  BY DEF EntriesOf
<1>2. QED
  BY <1>1, FS_EmptySet

LEMMA CountNext ==
  ASSUME FSInv, SizeInv, Formatted, CountInv, [Next]_vars
  PROVE  CountInv'
<1>. SUFFICES ASSUME crashes' = 0
              PROVE  (/\ pc = "format_super" => superblock = NewSuper
                      /\ pc = "format_inodes" => superblock = NewSuper /\ dsuper = NewSuper
                      /\ pc \in {"idle", "super"} =>
                           superblock.free_blocks + Cardinality(Entries) <= TOTAL_BLOCKS
                      /\ pc = "write" =>
                           superblock.free_blocks + call.i + Cardinality(Entries) <= TOTAL_BLOCKS
                      /\ pc \in {"off", "idle", "write"} =>
                           dsuper.free_blocks + Cardinality(Entries) <= TOTAL_BLOCKS)'
  BY DEF CountInv
<1>0. crashes = 0 /\ ~Crash
  <2>1. crashes \in Nat
    BY CrashAssumption DEF FSInv, TypeOK
  <2>2. crashes' = crashes \/ crashes' = crashes + 1
    BY Zenon DEF Next, Call, Step, FsInit, FormatSuper, FormatInodes, FsCreate, FsCreateFails, FsWrite,
       FsWriteFails, WriteBlock, WriteDiskFull, WriteInode, UpdateSuperblock, FsDelete,
       FsDeleteFails, FsRead, FsReadFails, FsList, PowerOff, Crash, vars
  <2>3. Crash => crashes' = crashes + 1
    BY DEF Crash
  <2>4. QED
    BY <2>1, <2>2, <2>3
<1>c. /\ dsuper.magic # FS_MAGIC \/ pc \in {"format_super", "format_inodes"} =>
           \A i \in Inodes : ~dinodes[i].used
      /\ pc = "format_super" => superblock = NewSuper
      /\ pc = "format_inodes" => superblock = NewSuper /\ dsuper = NewSuper
      /\ pc \in {"idle", "super"} =>
           superblock.free_blocks + Cardinality(Entries) <= TOTAL_BLOCKS
      /\ pc = "write" =>
           superblock.free_blocks + call.i + Cardinality(Entries) <= TOTAL_BLOCKS
      /\ pc \in {"off", "idle", "write"} =>
           dsuper.free_blocks + Cardinality(Entries) <= TOTAL_BLOCKS
  BY <1>0 DEF CountInv, Formatted
<1>t. /\ superblock.free_blocks \in Nat /\ dsuper.free_blocks \in Nat
      /\ Cardinality(Entries) \in Nat /\ TOTAL_BLOCKS \in Nat /\ call.i \in Nat
      /\ WORD \in Nat /\ TOTAL_BLOCKS < WORD
  BY FreeBlocksType
<1>1. CASE FormatInodes
  <2>1. \A i \in Inodes : ~dinodes'[i].used
    BY <1>1, <1>c DEF FormatInodes, ZeroInode
  <2>2. Cardinality(Entries') = 0
    BY <2>1, NoEntries DEF Entries
  <2>3. superblock' = NewSuper /\ dsuper' = NewSuper
    BY <1>1, <1>c DEF FormatInodes
  <2>4. superblock'.free_blocks = TOTAL_BLOCKS /\ dsuper'.free_blocks = TOTAL_BLOCKS
    BY <2>3 DEF NewSuper
  <2>5. pc' \in {"format_inodes", "idle"}
    BY <1>1 DEF FormatInodes
  <2>6. QED
    BY <1>t, <2>1, <2>2, <2>3, <2>4, <2>5
<1>2. CASE WriteBlock
  <2>1. call'.i = call.i + 1
    BY <1>2, WriteBlockEffect
  <2>2. /\ dsuper' = dsuper /\ dinodes' = dinodes /\ pc = "write" /\ pc' = "write"
        /\ superblock' = [superblock EXCEPT !.free_blocks = superblock.free_blocks - 1]
    BY <1>2 DEF WriteBlock
  <2>3. superblock'.free_blocks = superblock.free_blocks - 1
    <3>1. superblock \in SuperType
      BY DEF FSInv, TypeOK
    <3>2. QED
      BY <2>2, <3>1 DEF SuperType, ZeroSuper
  <2>4. Entries' = Entries
    BY <2>2 DEF Entries
  <2>5. superblock'.free_blocks + call'.i + Cardinality(Entries') <= TOTAL_BLOCKS
    BY <1>c, <1>t, <2>1, <2>2, <2>3, <2>4
  <2>6. QED
    BY <1>c, <2>2, <2>4, <2>5
<1>3. CASE WriteInode
  <2>1. /\ call.index \in Inodes /\ dinodes[call.index].used
        /\ call.i = BlocksNeeded(call.data) /\ BlocksNeeded(call.data) \in 0 .. MAX_FILE_BLOCKS
        /\ dinodes'[call.index].blocks = call.inode.blocks
        /\ \A m \in Inodes \ {call.index} : dinodes'[m] = dinodes[m]
    BY <1>3, WriteInodeEffect
  <2>2. dsuper' = dsuper /\ superblock' = superblock /\ pc = "write" /\ pc' = "super"
    BY <1>3 DEF WriteInode
  <2>3. \A j \in 1 .. MAX_FILE_BLOCKS :
          j > call.i => dinodes'[call.index].blocks[j] = dinodes[call.index].blocks[j]
    <3>1. \A j \in 1 .. MAX_FILE_BLOCKS :
            j > call.i => call.inode.blocks[j] = dinodes[call.index].blocks[j]
      BY <1>t, <2>2, DiskAssumption DEF SizeInv, WriteProgress
    <3>2. QED
      BY <2>1, <3>1
  <2>4. Cardinality(EntriesOf(dinodes')) <= Cardinality(EntriesOf(dinodes)) + call.i
    <3>1. PICK x \in Inodes : x = call.index
      BY <2>1
    <3>2. PICK n \in 0 .. MAX_FILE_BLOCKS : n = call.i
      BY <2>1
    <3>3. /\ dinodes[x].used /\ \A m \in Inodes \ {x} : dinodes'[m] = dinodes[m]
          /\ \A j \in 1 .. MAX_FILE_BLOCKS : j > n => dinodes'[x].blocks[j] = dinodes[x].blocks[j]
      BY <2>1, <2>3, <3>1, <3>2
    <3>4. Cardinality(EntriesOf(dinodes')) <= Cardinality(EntriesOf(dinodes)) + n
      BY <3>3, EntriesWritten
    <3>5. QED
      BY <3>2, <3>4
  <2>5. Cardinality(Entries') \in Nat
    BY EntriesFinite DEF Entries
  <2>6. Cardinality(Entries') <= Cardinality(Entries) + call.i
    BY <2>4 DEF Entries
  <2>7. superblock'.free_blocks + Cardinality(Entries') <= TOTAL_BLOCKS
    BY <1>c, <1>t, <2>2, <2>5, <2>6
  <2>8. QED
    BY <2>2, <2>7
<1>4. ASSUME NEW name \in Names, FsCreate(name)
      PROVE  (/\ pc = "idle"
              /\ superblock.free_blocks + Cardinality(Entries) <= TOTAL_BLOCKS
              /\ dsuper.free_blocks + Cardinality(Entries) <= TOTAL_BLOCKS)'
  <2>1. PICK x \in Inodes :
          /\ ~dinodes[x].used /\ dinodes'[x].blocks = NoBlocks
          /\ \A m \in Inodes \ {x} : dinodes'[m] = dinodes[m]
    BY <1>4, FsCreateEffect
  <2>2. /\ dsuper' = dsuper /\ superblock' = superblock /\ pc = "idle" /\ pc' = "idle"
    BY <1>4 DEF FsCreate, Success, Return
  <2>3. ASSUME NEW m \in Inodes, NEW j \in 1 .. MAX_FILE_BLOCKS
        PROVE  (dinodes'[m].used /\ dinodes'[m].blocks[j] # 0) <=>
               (dinodes[m].used /\ dinodes[m].blocks[j] # 0)
    BY Zenon, <2>1 DEF NoBlocks
  <2>4. Entries' = Entries
    BY <2>3 DEF Entries, EntriesOf
  <2>5. QED
    BY <1>c, <2>2, <2>4
<1>5. ASSUME NEW name \in Names, FsDelete(name)
      PROVE  (/\ pc = "super"
              /\ superblock.free_blocks + Cardinality(Entries) <= TOTAL_BLOCKS)'
  <2>1. PICK x \in Inodes :
          /\ x = inode_find(name) /\ dinodes[x].used /\ ~dinodes'[x].used
          /\ \A m \in Inodes \ {x} : dinodes'[m] = dinodes[m]
    BY Zenon, <1>5, FsDeleteEffect
  <2>2. PICK k : k = Cardinality(Positions(dinodes[x]))
    OBVIOUS
  <2>3. /\ dsuper' = dsuper /\ pc = "idle" /\ pc' = "super"
        /\ superblock' = [superblock EXCEPT !.free_blocks = (superblock.free_blocks + k) % WORD]
    BY <1>5, <2>1, <2>2 DEF FsDelete, Positions
  <2>4. k \in Nat /\ Cardinality(EntriesOf(dinodes)) = Cardinality(EntriesOf(dinodes')) + k
    BY Zenon, <2>1, <2>2, EntriesDropped
  <2>5. Cardinality(Entries') \in Nat /\ Cardinality(Entries) = Cardinality(Entries') + k
    BY <2>4, EntriesFinite DEF Entries
  <2>6. superblock.free_blocks + k + Cardinality(Entries') <= TOTAL_BLOCKS
    BY <1>c, <1>t, <2>3, <2>4, <2>5
  <2>7. (superblock.free_blocks + k) % WORD = superblock.free_blocks + k
    <3>1. PICK w \in Nat : w = superblock.free_blocks + k
      BY <1>t, <2>4
    <3>2. w < WORD
      BY <1>t, <2>5, <2>6, <3>1
    <3>3. w % WORD = w
      BY <1>t, <3>2
    <3>4. QED
      BY <3>1, <3>3
  <2>8. superblock'.free_blocks = superblock.free_blocks + k
    <3>1. superblock \in SuperType
      BY DEF FSInv, TypeOK
    <3>2. QED
      BY <2>3, <2>7, <3>1 DEF SuperType, ZeroSuper
  <2>9. QED
    BY <2>3, <2>6, <2>8
<1>6. ASSUME NEW name \in Names, NEW data \in Payloads, FsWrite(name, data)
      PROVE  (/\ pc = "write"
              /\ superblock.free_blocks + call.i + Cardinality(Entries) <= TOTAL_BLOCKS
              /\ dsuper.free_blocks + Cardinality(Entries) <= TOTAL_BLOCKS)'
  <2>1. /\ dinodes' = dinodes /\ call'.i = 0 /\ superblock' = superblock /\ dsuper' = dsuper
        /\ pc = "idle" /\ pc' = "write"
    BY <1>6 DEF FsWrite
  <2>2. Entries' = Entries
    BY <2>1 DEF Entries
  <2>3. QED
    BY <1>c, <1>t, <2>1, <2>2
<1>7. CASE OtherStep
  <2>1. dinodes' = dinodes
    BY Zenon, <1>7 DEF OtherStep, FsInit, FormatSuper, FsList, WriteDiskFull, UpdateSuperblock,
       PowerOff, Crash, LoseMemory, FsCreateFails, FsDeleteFails, FsReadFails, FsRead,
       FsWriteFails, vars
  <2>2. Entries' = Entries
    BY <2>1 DEF Entries
  <2>3. CASE FsInit
    BY <1>c, <2>2, <2>3 DEF FsInit
  <2>4. CASE FormatSuper
    BY <1>c, <2>4 DEF FormatSuper
  <2>5. CASE WriteDiskFull
    <3>1. superblock.free_blocks + Cardinality(Entries) <= TOTAL_BLOCKS
      BY <1>c, <1>t, <2>5 DEF WriteDiskFull
    <3>2. /\ superblock' = superblock /\ dsuper' = dsuper /\ pc = "write" /\ pc' = "idle"
      BY <2>5 DEF WriteDiskFull, Failure, Return
    <3>3. QED
      BY <1>c, <2>1, <2>2, <3>1, <3>2
  <2>6. CASE UpdateSuperblock
    <3>1. /\ superblock' = superblock /\ dsuper' = superblock /\ pc = "super" /\ pc' = "idle"
      BY <2>6 DEF UpdateSuperblock, Success, Return
    <3>2. QED
      BY <1>c, <2>2, <3>1
  <2>7. CASE PowerOff
    BY <1>c, <2>1, <2>2, <2>7 DEF PowerOff, LoseMemory
  <2>8. CASE \/ FsList
             \/ \E name \in Names :
                  \/ FsCreateFails(name) \/ FsDeleteFails(name) \/ FsReadFails(name)
                  \/ \E size \in ReadSizes : FsRead(name, size)
                  \/ \E data \in Payloads : FsWriteFails(name, data)
    <3>1. superblock' = superblock /\ dsuper' = dsuper /\ pc = "idle" /\ pc' = "idle"
      BY <2>8 DEF FsList, FsCreateFails, FsDeleteFails, FsReadFails, FsRead, FsWriteFails,
         Success, Failure, Return
    <3>2. QED
      BY <1>c, <2>1, <2>2, <3>1
  <2>9. CASE UNCHANGED vars
    BY <1>c, <2>1, <2>2, <2>9 DEF vars
  <2>10. QED
    BY <1>0, <1>7, <2>3, <2>4, <2>5, <2>6, <2>7, <2>8, <2>9 DEF OtherStep
<1>8. QED
  BY <1>1, <1>2, <1>3, <1>4, <1>5, <1>6, <1>7, StepKinds

(* As long as no call was cut short by a power loss, the free block count, *)
(* in memory and on disk, never promises more blocks than there are: what  *)
(* fs_delete gives back was counted off before, and the sum never wraps.   *)
THEOREM FSFreeNotOverstated == Spec => []FreeNotOverstated
<1>1. Init => FSInv /\ SizeInv /\ Formatted /\ CountInv
  <2>1. Init => SizeInv
    BY DEF Init, SizeInv, SizeCovered, WriteProgress, ZeroInode
  <2>2. Init => CountInv
    <3>1. SUFFICES ASSUME Init PROVE CountInv
      OBVIOUS
    <3>2. /\ pc = "off" /\ dsuper.free_blocks = 0 /\ \A i \in Inodes : ~dinodes[i].used
      BY <3>1 DEF Init, ZeroSuper, ZeroInode
    <3>3. Cardinality(Entries) = 0
      BY <3>2, NoEntries DEF Entries
    <3>4. QED
      BY <3>2, <3>3, DiskAssumption DEF CountInv
  <2>3. Init => Formatted
    BY DEF Init, Formatted, ZeroInode
  <2>4. QED
    BY <2>1, <2>2, <2>3, InitFSInv
<1>2. FSInv /\ SizeInv /\ Formatted /\ CountInv /\ [Next]_vars
        => (FSInv /\ SizeInv /\ Formatted /\ CountInv)'
  BY NextFSInv, SizeNext, FormattedNext, CountNext
<1>3. FSInv /\ SizeInv /\ Formatted /\ CountInv => FreeNotOverstated
  BY FreeBlocksType, BlocksCounted DEF CountInv, FreeNotOverstated
<1>4. QED
  BY <1>1, <1>2, <1>3, PTL DEF Spec

-----------------------------------------------------------------------------
(* Refinement of FileStore. *)

(* Used inodes have a name.  All chunks of a running fs_write have gone to *)
(* the same sector, the first that no inode on disk refers to, which holds *)
(* the last of them.                                                       *)
RefInv ==
  /\ FSInv /\ SizeInv /\ UniqueNames /\ Formatted
  /\ \A i \in Inodes : dinodes[i].used => dinodes[i].name \in Names
  /\ pc = "write" =>
       /\ call.name = dinodes[call.index].name /\ call.data \in Payloads
       /\ \A j \in 1 .. call.i :
            /\ call.inode.blocks[j] = SmallestOf(FreeSectors)
            /\ ddata[call.inode.blocks[j]] = Chunk(call.data, call.i - 1)

(* what can be read of a file: what its blocks hold, up to its size *)
Readable(inode) == SmallerOf(inode.size, Covered(inode))
Contents(inode, dd) ==
  [k \in 1 .. Readable(inode) |->
     dd[inode.blocks[1 + ((k - 1) \div BLOCK_SIZE)]][1 + ((k - 1) % BLOCK_SIZE)]]

(* StoredFiles and StoredSizes, of any inode table and data sectors *)
NamesIn(d) == {d[i].name : i \in {k \in Inodes : d[k].used}}
FindIn(d, n) ==
  IF {i \in Inodes : d[i].used /\ d[i].name = n} = {} THEN -1
  ELSE SmallestOf({i \in Inodes : d[i].used /\ d[i].name = n})
FilesOf(d, dd) ==
  [n \in NamesIn(d) |->
     LET inode == d[FindIn(d, n)] IN
       [k \in 1 .. SmallerOf(SmallerOf(inode.size, inode.size), Covered(inode)) |->
          dd[inode.blocks[1 + ((k - 1) \div BLOCK_SIZE)]][1 + ((k - 1) % BLOCK_SIZE)]]]
SizesOf(d) == [n \in NamesIn(d) |-> d[FindIn(d, n)].size]

TableOK(d) ==
  /\ d \in [Inodes -> InodeType]
  /\ \A i, k \in Inodes : i # k /\ d[i].used /\ d[k].used => d[i].name # d[k].name

SectorsType == [DataSectors -> [1 .. BLOCK_SIZE -> Nat]]

LEMMA ReadableFacts ==
  ASSUME NEW inode, inode.size \in Nat
  PROVE  /\ Covered(inode) \in Nat /\ Readable(inode) \in Nat
         /\ Readable(inode) <= inode.size /\ Readable(inode) <= Covered(inode)
         /\ inode.size <= Covered(inode) => Readable(inode) = inode.size
         /\ Covered(inode) <= inode.size => Readable(inode) = Covered(inode)
         /\ SmallerOf(SmallerOf(inode.size, inode.size), Covered(inode)) = Readable(inode)
<1>1. 0 \in 0 .. MAX_FILE_BLOCKS /\ \A k \in 1 .. 0 : inode.blocks[k] # 0
  BY DiskAssumption
<1>2. Covered(inode) \in Nat
  BY ONLY <1>1, CoveredAtLeast
<1>3. QED
  BY <1>2 DEF Readable, SmallerOf

(* byte k of what the blocks cover is in one of the blocks *)
LEMMA CoveredReaches ==
  ASSUME NEW inode, NEW k \in Nat \ {0}, k <= Covered(inode)
  PROVE  /\ 1 + ((k - 1) \div BLOCK_SIZE) \in 1 .. MAX_FILE_BLOCKS
         /\ inode.blocks[1 + ((k - 1) \div BLOCK_SIZE)] # 0
         /\ 1 + ((k - 1) % BLOCK_SIZE) \in 1 .. BLOCK_SIZE
<1>. DEFINE S == {j \in 1 .. MAX_FILE_BLOCKS : \A i \in 1 .. j : inode.blocks[i] # 0}
<1>1. PICK b \in Nat \ {0} : b = BLOCK_SIZE
  BY DiskAssumption
<1>2. PICK q \in Nat : q = (k - 1) \div b
  BY <1>1
<1>3. /\ k - 1 = b * q + ((k - 1) % b) /\ (k - 1) % b \in 0 .. b - 1 /\ b * q \in Nat
  BY <1>1, <1>2
<1>4. Covered(inode) = b * Cardinality(S)
  BY <1>1 DEF Covered
<1>5. \A n \in Nat : IsFiniteSet(1 .. n) /\ Cardinality(1 .. n) = n
  BY FS_Interval
<1>6. MAX_FILE_BLOCKS \in Nat
  BY DiskAssumption
<1>7. ~(S \subseteq 1 .. q)
  <2>1. SUFFICES ASSUME S \subseteq 1 .. q PROVE FALSE
    OBVIOUS
  <2>. HIDE DEF S
  <2>2. IsFiniteSet(S) /\ Cardinality(S) <= q
    <3>1. IsFiniteSet(1 .. q) /\ Cardinality(1 .. q) = q
      BY <1>5
    <3>2. QED
      BY Zenon, <2>1, <3>1, FS_Subset
  <2>3. Cardinality(S) \in Nat
    BY <2>2, FS_CardinalityType
  <2>4. PICK e \in Nat : q = Cardinality(S) + e
    BY <2>2, <2>3, q - Cardinality(S) \in Nat
  <2>5. b * q = b * Cardinality(S) + b * e /\ b * e \in Nat /\ b * Cardinality(S) \in Nat
    BY <1>1, <2>3, <2>4
  <2>6. QED
    BY <1>3, <1>4, <2>5
<1>8. PICK j \in S : j > q
  BY <1>2, <1>6, <1>7
<1>9. q + 1 \in 1 .. j /\ j \in 1 .. MAX_FILE_BLOCKS
  BY <1>2, <1>6, <1>8
<1>10. inode.blocks[q + 1] # 0
  BY <1>8, <1>9
<1>11. 1 + q = q + 1 /\ 1 + q \in 1 .. MAX_FILE_BLOCKS
  BY <1>2, <1>6, <1>9
<1>12. 1 + ((k - 1) % b) \in 1 .. b
  BY <1>1, <1>3
<1>13. QED
  BY <1>1, <1>2, <1>10, <1>11, <1>12

(* the contents of a file depend on its own sectors only *)
LEMMA ContentsKept ==
  ASSUME NEW inode \in InodeType, NEW dd, NEW ee,
         \A b \in BlocksOf(inode) : ee[b] = dd[b]
  PROVE  Contents(inode, ee) = Contents(inode, dd)
<1>1. inode.size \in Nat
  BY DiskAssumption DEF InodeType
<1>2. ASSUME NEW k \in 1 .. Readable(inode)
      PROVE  inode.blocks[1 + ((k - 1) \div BLOCK_SIZE)] \in BlocksOf(inode)
  <2>1. k \in Nat \ {0} /\ k <= Covered(inode)
    BY <1>1, ReadableFacts
  <2>2. /\ 1 + ((k - 1) \div BLOCK_SIZE) \in 1 .. MAX_FILE_BLOCKS
        /\ inode.blocks[1 + ((k - 1) \div BLOCK_SIZE)] # 0
    BY <2>1, CoveredReaches
  <2>3. QED
    BY <2>2 DEF BlocksOf
<1>3. QED
  BY <1>2 DEF Contents

(* contents are bytes *)
LEMMA ContentsType ==
  ASSUME NEW inode \in InodeType, NEW dd \in SectorsType
  PROVE  Contents(inode, dd) \in Seq(Nat) /\ Len(Contents(inode, dd)) = Readable(inode)
<1>1. inode.size \in Nat /\ inode.blocks \in [1 .. MAX_FILE_BLOCKS -> {0} \cup DataSectors]
  BY DiskAssumption DEF InodeType
<1>2. ASSUME NEW k \in 1 .. Readable(inode)
      PROVE  dd[inode.blocks[1 + ((k - 1) \div BLOCK_SIZE)]][1 + ((k - 1) % BLOCK_SIZE)] \in Nat
  <2>1. k \in Nat \ {0} /\ k <= Covered(inode)
    BY <1>1, ReadableFacts
  <2>2. /\ 1 + ((k - 1) \div BLOCK_SIZE) \in 1 .. MAX_FILE_BLOCKS
        /\ inode.blocks[1 + ((k - 1) \div BLOCK_SIZE)] # 0
        /\ 1 + ((k - 1) % BLOCK_SIZE) \in 1 .. BLOCK_SIZE
    BY <2>1, CoveredReaches
  <2>3. inode.blocks[1 + ((k - 1) \div BLOCK_SIZE)] \in DataSectors
    BY Zenon, <1>1, <2>2
  <2>4. QED
    BY Zenon, <2>2, <2>3 DEF SectorsType
<1>3. Contents(inode, dd) \in [1 .. Readable(inode) -> Nat]
  BY <1>2 DEF Contents
<1>4. Readable(inode) \in Nat
  BY <1>1, ReadableFacts
<1>5. QED
  BY <1>3, <1>4

(* the file that is stored under a name only one inode has *)
LEMMA FileAt ==
  ASSUME NEW d, NEW dd, NEW i \in Inodes, d[i].used,
         \A m \in Inodes : d[m].used /\ d[m].name = d[i].name => m = i,
         d[i].size \in Nat
  PROVE  /\ d[i].name \in NamesIn(d)
         /\ FilesOf(d, dd)[d[i].name] = Contents(d[i], dd)
         /\ SizesOf(d)[d[i].name] = d[i].size
<1>1. d[i].name \in NamesIn(d)
  BY DEF NamesIn
<1>2. {m \in Inodes : d[m].used /\ d[m].name = d[i].name} = {i}
  OBVIOUS
<1>3. SmallestOf({i}) = i
  <2>1. {i} \in SUBSET Nat
    BY DiskAssumption DEF Inodes
  <2>2. QED
    BY <2>1, SmallestOfMember
<1>4. FindIn(d, d[i].name) = i
  BY Zenon, <1>2, <1>3 DEF FindIn
<1>5. PICK inode : inode = d[i]
  BY Zenon
<1>6. SmallerOf(SmallerOf(inode.size, inode.size), Covered(inode)) = Readable(inode)
  BY <1>5, ReadableFacts
<1>7. FilesOf(d, dd)[d[i].name] =
        [k \in 1 .. SmallerOf(SmallerOf(inode.size, inode.size), Covered(inode)) |->
           dd[inode.blocks[1 + ((k - 1) \div BLOCK_SIZE)]][1 + ((k - 1) % BLOCK_SIZE)]]
  BY Zenon, <1>1, <1>4, <1>5 DEF FilesOf
<1>8. SizesOf(d)[d[i].name] = d[i].size
  BY Zenon, <1>1, <1>4 DEF SizesOf
<1>9. QED
  BY Zenon, <1>1, <1>5, <1>6, <1>7, <1>8 DEF Contents

(* the stored files are those of the used inodes *)
LEMMA StoredAre ==
  ASSUME NEW d, TableOK(d), NEW dd
  PROVE  /\ DOMAIN FilesOf(d, dd) = NamesIn(d)
         /\ FilesOf(d, dd) = [n \in NamesIn(d) |-> FilesOf(d, dd)[n]]
         /\ SizesOf(d) = [n \in NamesIn(d) |-> SizesOf(d)[n]]
         /\ \A i \in Inodes : d[i].used =>
              /\ d[i].name \in NamesIn(d)
              /\ FilesOf(d, dd)[d[i].name] = Contents(d[i], dd)
              /\ SizesOf(d)[d[i].name] = d[i].size
<1>1. /\ DOMAIN FilesOf(d, dd) = NamesIn(d)
      /\ FilesOf(d, dd) = [n \in NamesIn(d) |-> FilesOf(d, dd)[n]]
  BY DEF FilesOf
<1>2. SizesOf(d) = [n \in NamesIn(d) |-> SizesOf(d)[n]]
  BY DEF SizesOf
<1>3. ASSUME NEW i \in Inodes, d[i].used
      PROVE  /\ d[i].name \in NamesIn(d)
             /\ FilesOf(d, dd)[d[i].name] = Contents(d[i], dd)
             /\ SizesOf(d)[d[i].name] = d[i].size
  <2>1. /\ \A m \in Inodes : d[m].used /\ d[m].name = d[i].name => m = i
        /\ d[i].size \in Nat
    BY <1>3, DiskAssumption DEF TableOK, InodeType
  <2>2. QED
    BY <1>3, <2>1, FileAt
<1>4. QED
  BY <1>1, <1>2, <1>3

(* equal inode tables whose sectors agree hold equal files *)
LEMMA SameFiles ==
  ASSUME NEW d, TableOK(d), NEW dd, NEW ee,
         \A i \in Inodes : d[i].used => \A b \in BlocksOf(d[i]) : ee[b] = dd[b]
  PROVE  FilesOf(d, ee) = FilesOf(d, dd)
<1>1. ASSUME NEW n \in NamesIn(d) PROVE FilesOf(d, ee)[n] = FilesOf(d, dd)[n]
  <2>1. PICK i \in Inodes : d[i].used /\ n = d[i].name
    BY DEF NamesIn
  <2>2. Contents(d[i], ee) = Contents(d[i], dd)
    BY <2>1, ContentsKept DEF TableOK
  <2>3. QED
    BY <2>1, <2>2, StoredAre
<1>2. FilesOf(d, dd) = [n \in NamesIn(d) |-> FilesOf(d, dd)[n]]
  BY StoredAre
<1>3. FilesOf(d, ee) = [n \in NamesIn(d) |-> FilesOf(d, ee)[n]]
  BY StoredAre
<1>4. QED
  BY <1>1, <1>2, <1>3

(* a byte of some data is in one of the blocks the data needs *)
LEMMA BlockOfByte ==
  ASSUME NEW data \in Seq(Nat), ~Wraps(Len(data)), NEW k \in 1 .. Len(data)
  PROVE  1 + ((k - 1) \div BLOCK_SIZE) \in 1 .. BlocksNeeded(data)
<1>1. Len(data) \in Nat /\ BlocksNeeded(data) \in Nat
  BY BlocksOfBytes
<1>2. PICK b \in Nat \ {0} : b = BLOCK_SIZE
  BY DiskAssumption
<1>3. PICK w \in Nat : w = k - 1
  BY <1>1
<1>4. PICK q \in Nat : q = w \div b
  BY Zenon, Division
<1>5. PICK m \in 0 .. b - 1 : m = w % b
  BY Zenon, Division
<1>6. w = b * q + m /\ b * q \in Nat
  BY <1>4, <1>5, Division
<1>7. Len(data) <= b * BlocksNeeded(data)
  BY <1>2, BlocksNeededHold
<1>8. ASSUME q >= BlocksNeeded(data) PROVE FALSE
  <2>1. PICK e \in Nat : q = BlocksNeeded(data) + e
    BY <1>1, <1>8, q - BlocksNeeded(data) \in Nat
  <2>2. b * q = b * BlocksNeeded(data) + b * e /\ b * e \in Nat
        /\ b * BlocksNeeded(data) \in Nat
    BY <1>1, <2>1
  <2>3. b * q >= Len(data)
    BY ONLY <1>1, <1>7, <2>2
  <2>4. w >= Len(data)
    BY ONLY <1>1, <1>5, <1>6, <2>3, w \in Nat, b \in Nat \ {0}
  <2>5. QED
    BY <1>1, <1>3, <2>4
<1>9. QED
  BY <1>1, <1>2, <1>3, <1>4, <1>8

(* blocks filled with the chunks of some data hold that data *)
LEMMA WrittenContents ==
  ASSUME NEW data \in Seq(Nat), ~Wraps(Len(data)), NEW inode, NEW dd,
         inode.size = Len(data), Len(data) <= Covered(inode),
         \A j \in 1 .. BlocksNeeded(data) : dd[inode.blocks[j]] = Chunk(data, j - 1)
  PROVE  Contents(inode, dd) = data
<1>1. data \in Seq(Nat) /\ Len(data) \in Nat /\ BlocksNeeded(data) \in Nat
  BY BlocksOfBytes
<1>2. ASSUME NEW k \in 1 .. Len(data)
      PROVE  dd[inode.blocks[1 + ((k - 1) \div BLOCK_SIZE)]][1 + ((k - 1) % BLOCK_SIZE)] = data[k]
  <2>1. PICK b \in Nat \ {0} : b = BLOCK_SIZE
    BY DiskAssumption
  <2>0. PICK w \in Nat : w = k - 1
    BY <1>1
  <2>2. PICK q \in Nat : q = (k - 1) \div b
    BY Zenon, <2>0, Division
  <2>3. PICK m \in 0 .. b - 1 : m = (k - 1) % b
    BY Zenon, <2>0, Division
  <2>4. k - 1 = b * q + m /\ b * q \in Nat /\ q * b = b * q
    BY <2>0, <2>2, <2>3, Division
  <2>5. 1 + q \in 1 .. BlocksNeeded(data)
    BY <2>1, <2>2, BlockOfByte
  <2>6. (1 + q) - 1 = q
    BY <2>2
  <2>7. dd[inode.blocks[1 + q]] = Chunk(data, q)
    BY <2>5, <2>6
  <2>8. Chunk(data, q)[1 + m] = IF q * b + (1 + m) <= Len(data) THEN data[q * b + (1 + m)] ELSE 0
    <3>1. 1 + m \in 1 .. BLOCK_SIZE
      BY <2>1, <2>3
    <3>2. QED
      BY <2>1, <3>1 DEF Chunk
  <2>9. q * b + (1 + m) = k
    <3>1. PICK p \in Nat : p = b * q
      BY <2>4
    <3>2. k \in Int /\ m \in Int /\ k - 1 = p + m
      BY <1>1, <2>3, <2>4, <3>1
    <3>3. p + (1 + m) = k
      BY ONLY <3>2, p \in Nat
    <3>4. QED
      BY <2>4, <3>1, <3>3
  <2>10. Chunk(data, q)[1 + m] = data[k]
    BY <1>1, <2>8, <2>9
  <2>11. QED
    BY <2>1, <2>2, <2>3, <2>7, <2>10
<1>3. data = [k \in 1 .. Len(data) |-> data[k]]
  BY <1>1
<1>4. Readable(inode) = Len(data)
  BY <1>1, ReadableFacts
<1>5. QED
  BY <1>2, <1>3, <1>4 DEF Contents

(* blocks that all hold the last chunk of some data hold its ReadBack *)
LEMMA LastChunkContents ==
  ASSUME NEW data \in Seq(Nat), ~Wraps(Len(data)), NEW inode, NEW dd,
         inode.size = Len(data), Len(data) <= Covered(inode),
         \A j \in 1 .. BlocksNeeded(data) :
           dd[inode.blocks[j]] = Chunk(data, BlocksNeeded(data) - 1)
  PROVE  Contents(inode, dd) = ReadBack(data)
<1>1. \A k \in 1 .. Len(data) :
        dd[inode.blocks[1 + ((k - 1) \div BLOCK_SIZE)]] = Chunk(data, BlocksNeeded(data) - 1)
  BY BlockOfByte
<1>2. Readable(inode) = Len(data)
  BY ReadableFacts, BlocksOfBytes
<1>3. QED
  BY <1>1, <1>2 DEF Contents, ReadBack

(* a fs_read returns what fs_write was given if one block holds all of it *)
THEOREM ReadBackOneBlock ==
  ASSUME NEW data \in Seq(Nat), ~Wraps(Len(data)), BlocksNeeded(data) <= 1
  PROVE  ReadBack(data) = data
<1>1. Len(data) \in Nat /\ BlocksNeeded(data) \in Nat /\ Len(data) <= BLOCK_SIZE * BlocksNeeded(data)
  BY BlocksOfBytes, BlocksNeededHold
<1>2. ASSUME NEW k \in 1 .. Len(data)
      PROVE  Chunk(data, BlocksNeeded(data) - 1)[1 + ((k - 1) % BLOCK_SIZE)] = data[k]
  <2>1. BlocksNeeded(data) = 1
    <3>1. BlocksNeeded(data) = 0 => Len(data) <= 0
      BY <1>1, DiskAssumption
    <3>2. QED
      BY <1>1, <3>1
  <2>2. k - 1 \in 0 .. BLOCK_SIZE - 1
    BY <1>1, <2>1, DiskAssumption
  <2>3. \A m \in Nat, b \in Nat \ {0} : m < b => m % b = m
    OBVIOUS
  <2>4. (k - 1) % BLOCK_SIZE = k - 1
    <3>1. k - 1 \in Nat /\ k - 1 < BLOCK_SIZE /\ BLOCK_SIZE \in Nat \ {0}
      BY <2>2, DiskAssumption
    <3>2. QED
      BY Zenon, <2>3, <3>1
  <2>5. Chunk(data, 0)[k] = data[k]
    <3>1. k \in 1 .. BLOCK_SIZE /\ 0 * BLOCK_SIZE + k = k /\ k <= Len(data)
      BY <1>1, <2>2, DiskAssumption
    <3>2. QED
      BY <3>1 DEF Chunk
  <2>6. BlocksNeeded(data) - 1 = 0 /\ 1 + (k - 1) = k
    BY <1>1, <2>1
  <2>7. QED
    BY <2>4, <2>5, <2>6
<1>3. data = [k \in 1 .. Len(data) |-> data[k]]
  BY <1>1
<1>4. QED
  BY <1>2, <1>3 DEF ReadBack

LEMMA RefNext ==
  ASSUME ShortNames, RefInv, [Next]_vars
  PROVE  RefInv'
<1>1. FSInv' /\ SizeInv' /\ UniqueNames' /\ Formatted'
  BY NextFSInv, SizeNext, UniqueNamesNext, FormattedNext DEF RefInv
<1>2. ASSUME NEW m \in Inodes, dinodes'[m].used
      PROVE  dinodes'[m].name \in Names
  <2>0. FSInv /\ (dinodes[m].used => dinodes[m].name \in Names)
    BY DEF RefInv
  <2>1. CASE FormatInodes
    BY <1>2, <2>0, <2>1 DEF FormatInodes, ZeroInode
  <2>2. CASE WriteInode
    BY <1>2, <2>0, <2>2, WriteInodeEffect
  <2>3. CASE \E name \in Names : FsDelete(name)
    BY Zenon, <1>2, <2>0, <2>3, FsDeleteEffect
  <2>4. ASSUME NEW name \in Names, FsCreate(name)
        PROVE  dinodes'[m].name \in Names
    BY <1>2, <2>0, <2>4, FsCreateEffect DEF ShortNames
  <2>5. CASE UNCHANGED dinodes
    BY <1>2, <2>0, <2>5
  <2>6. UNCHANGED dinodes \/ FormatInodes \/ WriteInode
        \/ \E name \in Names : FsCreate(name) \/ FsDelete(name)
    BY StepKinds DEF OtherStep, FsInit, FormatSuper, FsList, WriteBlock,
       WriteDiskFull, UpdateSuperblock, PowerOff, Crash, LoseMemory, FsCreateFails,
       FsDeleteFails, FsReadFails, FsRead, FsWrite, FsWriteFails, vars
  <2>7. QED
    BY <2>1, <2>2, <2>3, <2>4, <2>5, <2>6
<1>. DEFINE WriteLoop(b) ==
       /\ call.name = dinodes[call.index].name /\ call.data \in Payloads
       /\ \A j \in 1 .. call.i :
            call.inode.blocks[j] = b /\ ddata[call.inode.blocks[j]] = Chunk(call.data, call.i - 1)
<1>3. ASSUME pc' = "write" PROVE WriteLoop(SmallestOf(FreeSectors))'
  <2>1. CASE WriteBlock
    <3>1. /\ call.i \in Nat /\ call.i + 1 \in 1 .. MAX_FILE_BLOCKS
          /\ call'.i = call.i + 1 /\ call'.index = call.index /\ call'.data = call.data
          /\ call'.name = call.name
          /\ call'.inode.blocks = [call.inode.blocks EXCEPT ![call.i + 1] = block_alloc]
          /\ call.inode.blocks \in [1 .. MAX_FILE_BLOCKS -> {0} \cup DataSectors]
      BY <2>1, WriteBlockEffect DEF RefInv
    <3>2. /\ pc = "write" /\ dinodes' = dinodes /\ block_alloc # 0
          /\ superblock' = [superblock EXCEPT !.free_blocks = superblock.free_blocks - 1]
          /\ ddata' = [ddata EXCEPT ![block_alloc] = Chunk(call.data, call.i)]
      BY <2>1 DEF WriteBlock
    <3>3. block_alloc \in DataSectors /\ block_alloc = SmallestOf(FreeSectors)
      BY <3>2, BlockAllocFacts DEF RefInv, FSInv, block_alloc
    <3>4. FreeSectors' = FreeSectors
      <4>1. superblock'.total_blocks = superblock.total_blocks
        BY <3>2 DEF RefInv, FSInv, TypeOK, SuperType, ZeroSuper
      <4>2. BlocksInUse' = BlocksInUse
        BY <3>2 DEF BlocksInUse, BlocksOf
      <4>3. QED
        BY <4>1, <4>2 DEF FreeSectors
    <3>5. ddata'[block_alloc] = Chunk(call.data, call.i)
      <4>1. ddata \in [DataSectors -> [1 .. BLOCK_SIZE -> Nat]]
        BY DEF RefInv, FSInv, TypeOK
      <4>2. QED
        BY ONLY <3>2, <3>3, <4>1
    <3>6. ASSUME NEW j \in 1 .. call.i + 1
          PROVE  call'.inode.blocks[j] = block_alloc
      <4>1. CASE j = call.i + 1
        BY Zenon, <3>1, <4>1
      <4>2. CASE j # call.i + 1
        <5>1. j \in 1 .. call.i /\ j \in 1 .. MAX_FILE_BLOCKS
          BY <3>1, <4>2, DiskAssumption
        <5>2. call'.inode.blocks[j] = call.inode.blocks[j]
          BY <3>1, <4>2, <5>1
        <5>3. call.inode.blocks[j] = SmallestOf(FreeSectors)
          BY <3>2, <5>1 DEF RefInv
        <5>4. QED
          BY <3>3, <5>2, <5>3
      <4>3. QED
        BY <4>1, <4>2
    <3>7. Chunk(call'.data, call'.i - 1) = Chunk(call.data, call.i)
      BY <3>1, (call.i + 1) - 1 = call.i
    <3>8. SmallestOf(FreeSectors)' = block_alloc
      BY <3>3, <3>4 DEF SmallestOf
    <3>9. call.name = dinodes[call.index].name /\ call.data \in Payloads
      BY <3>2 DEF RefInv
    <3>10. \A j \in 1 .. call'.i :
             /\ call'.inode.blocks[j] = block_alloc
             /\ ddata'[call'.inode.blocks[j]] = Chunk(call'.data, call'.i - 1)
      BY <3>1, <3>5, <3>6, <3>7
    <3>11. QED
      BY <3>1, <3>2, <3>8, <3>9, <3>10 DEF Chunk
  <2>2. ASSUME NEW name \in Names, NEW data \in Payloads, FsWrite(name, data)
        PROVE  WriteLoop(SmallestOf(FreeSectors))'
    <3>1. /\ dinodes' = dinodes /\ call'.i = 0 /\ call'.name = name /\ call'.data = data
          /\ call'.index = inode_find(name)
      BY <2>2 DEF FsWrite
    <3>2. dinodes[inode_find(name)].name = name
      BY <2>2, FindFacts DEF FsWrite
    <3>3. QED
      BY <3>1, <3>2
  <2>3. CASE UNCHANGED vars
    <3>1. UNCHANGED <<dinodes, ddata, superblock, pc, call>>
      BY <2>3 DEF vars
    <3>2. FreeSectors' = FreeSectors
      BY <3>1 DEF FreeSectors, BlocksInUse, BlocksOf
    <3>3. SmallestOf(FreeSectors)' = SmallestOf(FreeSectors)
      BY <3>2 DEF SmallestOf
    <3>4. WriteLoop(SmallestOf(FreeSectors))
      BY <1>3, <3>1 DEF RefInv
    <3>5. QED
      BY <3>1, <3>3, <3>4 DEF Chunk
  <2>4. WriteBlock \/ UNCHANGED vars
        \/ \E name \in Names, data \in Payloads : FsWrite(name, data)
    BY <1>3, StepKinds DEF OtherStep, FsInit, FormatSuper, FormatInodes, FsList, FsCreate,
       WriteDiskFull, WriteInode, UpdateSuperblock, PowerOff, Crash, LoseMemory,
       FsCreateFails, FsDelete, FsDeleteFails, FsReadFails, FsRead, FsWriteFails,
       Success, Failure, Return
  <2>5. QED
    BY <2>1, <2>2, <2>3, <2>4
<1>4. QED
  BY <1>1, <1>2, <1>3 DEF RefInv

LEMMA StoredCalls ==
  /\ pc = "write" => StoredCall = Store!Writing(call.name, call.data)
  /\ pc = "super" => StoredCall = Store!Finishing
  /\ pc \notin {"write", "super"} => StoredCall = Store!NoCall
BY DEF StoredCall, Store!Writing, Store!Finishing, Store!NoCall

(* the mapped call of a step *)
LEMMA StoredCallsNext ==
  /\ pc' = "write" => StoredCall' = Store!Writing(call'.name, call'.data)
  /\ pc' = "super" => StoredCall' = Store!Finishing
  /\ pc' \notin {"write", "super"} => StoredCall' = Store!NoCall
BY DEF StoredCall, Store!Writing, Store!Finishing, Store!NoCall

LEMMA StoredFilesAre ==
  /\ StoredFiles = FilesOf(dinodes, ddata) /\ StoredSizes = SizesOf(dinodes)
  /\ StoredFiles' = FilesOf(dinodes', ddata') /\ StoredSizes' = SizesOf(dinodes')
<1>1. StoredFiles = FilesOf(dinodes, ddata)
  BY DEF StoredFiles, FilesOf, NamesIn, FindIn, inode_find, Matching, ReadBytes
<1>2. StoredFiles' = FilesOf(dinodes', ddata')
  BY DEF StoredFiles, FilesOf, NamesIn, FindIn, inode_find, Matching, ReadBytes, Covered
<1>3. StoredSizes = SizesOf(dinodes)
  BY DEF StoredSizes, SizesOf, NamesIn, FindIn, inode_find, Matching
<1>4. StoredSizes' = SizesOf(dinodes')
  BY DEF StoredSizes, SizesOf, NamesIn, FindIn, inode_find, Matching
<1>5. QED
  BY Zenon, <1>1, <1>2, <1>3, <1>4

LEMMA RefTable ==
  /\ RefInv => TableOK(dinodes) /\ ddata \in SectorsType
  /\ RefInv' => TableOK(dinodes') /\ ddata' \in SectorsType
<1>1. RefInv => TableOK(dinodes) /\ ddata \in SectorsType
  BY Zenon DEF RefInv, FSInv, UniqueNames, TypeOK, TableOK, SectorsType
<1>2. RefInv' => TableOK(dinodes') /\ ddata' \in SectorsType
  BY Zenon DEF RefInv, FSInv, UniqueNames, TypeOK, TableOK, SectorsType
<1>3. QED
  BY <1>1, <1>2

(* an unsuccessful search means there is no such file, a successful one    *)
(* that there is                                                           *)
LEMMA FindStored ==
  ASSUME NEW name
  PROVE  inode_find(name) = -1 <=> name \notin NamesIn(dinodes)
<1>1. ASSUME inode_find(name) = -1 PROVE name \notin NamesIn(dinodes)
  BY <1>1, NotFound DEF Matching, NamesIn
<1>2. ASSUME inode_find(name) # -1 PROVE name \in NamesIn(dinodes)
  BY <1>2, FindFacts DEF NamesIn
<1>3. QED
  BY <1>1, <1>2

(* whether there is space depends on the superblock and the blocks in use *)
LEMMA SpaceKept ==
  ASSUME superblock' = superblock, BlocksInUse' = BlocksInUse,
         pc \in {"idle", "write", "super"}, pc' \in {"idle", "write", "super"}
  PROVE  Up /\ Up' = Up /\ Full' = Full
<1>1. FreeSectors' = FreeSectors
  BY DEF FreeSectors
<1>2. NoSpace' = NoSpace
  BY <1>1 DEF NoSpace
<1>3. Up /\ Up'
  BY DEF Up
<1>4. Up' = Up /\ Full' = Full
  BY <1>2, <1>3 DEF Up, Full
<1>5. QED
  BY <1>3, <1>4

LEMMA BlocksKept ==
  ASSUME \A m \in Inodes : (dinodes'[m].used <=> dinodes[m].used)
                           /\ dinodes'[m].blocks = dinodes[m].blocks
  PROVE  BlocksInUse' = BlocksInUse
BY DEF BlocksInUse, BlocksOf

(* calls that change no file *)
LEMMA QuietStored ==
  ASSUME dinodes' = dinodes, ddata' = ddata
  PROVE  StoredFiles' = StoredFiles /\ StoredSizes' = StoredSizes
BY StoredFilesAre

LEMMA QuietStep ==
  ASSUME dinodes' = dinodes, ddata' = ddata, superblock' = superblock,
         pc \in {"idle", "write", "super"}, pc' \in {"idle", "write", "super"}
  PROVE  /\ StoredFiles' = StoredFiles /\ StoredSizes' = StoredSizes
         /\ Up /\ Up' = Up /\ Full' = Full
BY QuietStored, BlocksKept, SpaceKept

LEMMA UpFull ==
  /\ Full \in BOOLEAN /\ Full' \in BOOLEAN
  /\ pc \in {"idle", "write", "super"} => Up /\ (Full <=> NoSpace)
  /\ pc \notin {"idle", "write", "super"} => Up = FALSE /\ Full = FALSE
  /\ pc' \in {"idle", "write", "super"} => Up' = TRUE
  /\ pc' \notin {"idle", "write", "super"} => Up' = FALSE /\ Full' = FALSE
BY DEF Up, Full

LEMMA StoreCreate ==
  ASSUME ShortNames, RefInv, RefInv', NEW name \in Names, FsCreate(name)
  PROVE  Store!Create(name)
<1>1. PICK x \in Inodes :
        /\ ~dinodes[x].used /\ dinodes'[x].used /\ dinodes'[x].name = name
        /\ dinodes'[x].size = 0 /\ dinodes'[x].blocks = NoBlocks
        /\ \A m \in Inodes \ {x} : dinodes'[m] = dinodes[m]
  <2>1. FSInv /\ Trunc[name] = name
    BY DEF RefInv, ShortNames
  <2>2. QED
    BY ONLY <2>1, name \in Names, FsCreate(name), FsCreateEffect
<1>2. /\ pc = "idle" /\ pc' = "idle" /\ ddata' = ddata /\ superblock' = superblock
      /\ ret' = Store!Returned("create", name, "ok", <<>>, {})
      /\ inode_find(name) = -1
  BY DEF FsCreate, Success, Return, Returned, Store!Returned
<1>a. BlocksInUse' = BlocksInUse
  <2>1. \A m \in Inodes : dinodes[m].used => m # x
    BY <1>1
  <2>2. BlocksOf(dinodes'[x]) = {}
    BY <1>1 DEF BlocksOf, NoBlocks
  <2>3. \A m \in Inodes \ {x} : dinodes'[m].used = dinodes[m].used
                              /\ BlocksOf(dinodes'[m]) = BlocksOf(dinodes[m])
    BY ONLY <1>1
  <2>4. \A b : b \in BlocksInUse' <=>
               \E m \in Inodes : dinodes'[m].used /\ b \in BlocksOf(dinodes'[m])
    BY ONLY TRUE DEF BlocksInUse, BlocksOf
  <2>5. \A b : b \in BlocksInUse <=>
               \E m \in Inodes : dinodes[m].used /\ b \in BlocksOf(dinodes[m])
    BY ONLY TRUE DEF BlocksInUse
  <2>6. \A b : b \in BlocksInUse' <=> b \in BlocksInUse
    BY ONLY <2>1, <2>2, <2>3, <2>4, <2>5, x \in Inodes
  <2>7. QED
    BY ONLY <2>6
<1>b. Up /\ Up' = Up /\ Full' = Full
  BY <1>2, <1>a, SpaceKept
<1>3. name \notin NamesIn(dinodes)
  BY <1>2, FindStored
<1>4. NamesIn(dinodes') = NamesIn(dinodes) \cup {name}
  <2>1. ASSUME NEW n \in NamesIn(dinodes') PROVE n \in NamesIn(dinodes) \cup {name}
    <3>1. PICK m \in Inodes : dinodes'[m].used /\ n = dinodes'[m].name
      BY DEF NamesIn
    <3>2. QED
      BY <1>1, <3>1 DEF NamesIn
  <2>2. ASSUME NEW n \in NamesIn(dinodes) PROVE n \in NamesIn(dinodes')
    <3>1. PICK m \in Inodes : dinodes[m].used /\ n = dinodes[m].name
      BY DEF NamesIn
    <3>2. dinodes'[m] = dinodes[m]
      BY <1>1, <3>1
    <3>3. QED
      BY <3>1, <3>2 DEF NamesIn
  <2>3. name \in NamesIn(dinodes')
    BY <1>1 DEF NamesIn
  <2>4. QED
    BY <2>1, <2>2, <2>3
<1>. DEFINE F == FilesOf(dinodes, ddata)
            G == FilesOf(dinodes', ddata)
            S == SizesOf(dinodes)
            T == SizesOf(dinodes')
<1>5. /\ DOMAIN F = NamesIn(dinodes)
      /\ \A i \in Inodes : dinodes[i].used =>
           F[dinodes[i].name] = Contents(dinodes[i], ddata) /\ S[dinodes[i].name] = dinodes[i].size
  BY StoredAre, RefTable
<1>6. /\ G = [n \in NamesIn(dinodes') |-> G[n]] /\ T = [n \in NamesIn(dinodes') |-> T[n]]
      /\ \A i \in Inodes : dinodes'[i].used =>
           G[dinodes'[i].name] = Contents(dinodes'[i], ddata) /\ T[dinodes'[i].name] = dinodes'[i].size
  BY StoredAre, RefTable
<1>. HIDE DEF F, G, S, T
<1>7. ASSUME NEW n \in NamesIn(dinodes')
      PROVE  /\ G[n] = IF n = name THEN <<>> ELSE F[n]
             /\ T[n] = IF n = name THEN 0 ELSE S[n]
  <2>1. CASE n = name
    <3>1. G[n] = Contents(dinodes'[x], ddata) /\ T[n] = 0
      BY <1>1, <1>6, <2>1
    <3>2. Contents(dinodes'[x], ddata) = <<>>
      <4>1. Readable(dinodes'[x]) = 0
        BY <1>1, ReadableFacts
      <4>2. QED
        BY <4>1 DEF Contents
    <3>3. QED
      BY <2>1, <3>1, <3>2
  <2>2. CASE n # name
    <3>1. PICK i \in Inodes : dinodes'[i].used /\ dinodes'[i].name = n
      BY DEF NamesIn
    <3>2. dinodes'[i] = dinodes[i]
      BY <1>1, <2>2, <3>1
    <3>3. QED
      BY <1>5, <1>6, <2>2, <3>1, <3>2
  <2>3. QED
    BY <2>1, <2>2
<1>8. /\ G = [n \in DOMAIN F \cup {name} |-> IF n = name THEN <<>> ELSE F[n]]
      /\ T = [n \in DOMAIN F \cup {name} |-> IF n = name THEN 0 ELSE S[n]]
  BY Zenon, <1>4, <1>5, <1>6, <1>7
<1>9. StoredFiles = F /\ StoredFiles' = G /\ StoredSizes = S /\ StoredSizes' = T
  BY <1>2, StoredFilesAre DEF F, G, S, T
<1>10. StoredCall = Store!NoCall /\ StoredCall' = StoredCall
  BY <1>2, StoredCalls, StoredCallsNext
<1>11. QED
  BY <1>2, <1>b, <1>3, <1>5, <1>8, <1>9, <1>10 DEF Store!Create, Store!Idle, Store!OK

(* FileStore counts with the same operator *)
LEMMA SameCardinality ==
  ASSUME NEW S
  PROVE  Store!Cardinality(S) = Cardinality(S)
BY DEF Store!Cardinality, Cardinality

(* what all failing calls have in common *)
LEMMA StoreFail ==
  ASSUME pc \in {"idle", "write"}, pc' = "idle", NEW op, NEW name,
         dinodes' = dinodes, ddata' = ddata, superblock' = superblock,
         ret' = Returned(op, name, "error", <<>>, {})
  PROVE  /\ ret' = Store!Returned(op, name, "error", <<>>, {}) /\ StoredCall' = Store!NoCall
         /\ StoredFiles' = StoredFiles /\ StoredSizes' = StoredSizes
         /\ Up /\ Up' = Up /\ Full' = Full
<1>1. StoredCall' = Store!NoCall
  BY StoredCallsNext
<1>2. QED
  BY <1>1, QuietStep DEF Store!Returned, Returned

(* fs_create fails if the file exists or all inodes are used, each by a    *)
(* file of its own                                                         *)
LEMMA StoreCreateFails ==
  ASSUME RefInv, NEW name \in Names, FsCreateFails(name)
  PROVE  Store!CreateFails(name)
<1>1. /\ pc = "idle" /\ pc' = "idle" /\ dinodes' = dinodes /\ ddata' = ddata
      /\ superblock' = superblock /\ ret' = Returned("create", name, "error", <<>>, {})
      /\ inode_find(name) # -1 \/ inode_alloc = -1
  BY DEF FsCreateFails, Failure, Return
<1>2. /\ ret' = Store!Returned("create", name, "error", <<>>, {})
      /\ StoredCall = Store!NoCall /\ StoredCall' = Store!NoCall
      /\ StoredFiles' = StoredFiles /\ StoredSizes' = StoredSizes
      /\ Up /\ Up' = Up /\ Full' = Full
  BY <1>1, StoreFail, StoredCalls
<1>3. DOMAIN StoredFiles = NamesIn(dinodes)
  BY StoredFilesAre, StoredAre, RefTable
<1>4. CASE inode_find(name) # -1
  BY <1>2, <1>3, <1>4, FindStored DEF Store!CreateFails, Store!Fail, Store!Idle
<1>5. CASE inode_alloc = -1
  <2>1. \A i \in Inodes : dinodes[i].used
    <3>1. SUFFICES ASSUME Unused # {} PROVE FALSE
      BY DEF Unused
    <3>2. Unused \in SUBSET Nat
      BY DiskAssumption DEF Unused, Inodes
    <3>3. inode_alloc \in Nat
      BY Zenon, <3>1, <3>2, SmallestOfMember DEF inode_alloc
    <3>4. QED
      BY <1>5, <3>3
  <2>. DEFINE f == [i \in Inodes |-> dinodes[i].name]
  <2>2. f \in Surjection(Inodes, NamesIn(dinodes))
    BY <2>1 DEF Surjection, NamesIn
  <2>3. f \in Injection(Inodes, NamesIn(dinodes))
    BY <2>1, RefTable DEF Injection, IsInjective, TableOK, NamesIn
  <2>. HIDE DEF f
  <2>4. IsFiniteSet(Inodes) /\ Cardinality(Inodes) = MAX_FILES
    BY FS_Interval, DiskAssumption DEF Inodes
  <2>5. IsFiniteSet(NamesIn(dinodes))
    BY <2>2, <2>4, FS_Surjection
  <2>6. Cardinality(NamesIn(dinodes)) \in Nat /\ MAX_FILES <= Cardinality(NamesIn(dinodes))
    BY <2>3, <2>4, <2>5, FS_Injection, FS_CardinalityType
  <2>7. Cardinality(NamesIn(dinodes)) >= MAX_FILES
    BY <2>6, DiskAssumption
  <2>8. Cardinality(DOMAIN StoredFiles) >= MAX_FILES
    BY <1>3, <2>7, Zenon
  <2>9. Store!Cardinality(DOMAIN StoredFiles) >= MAX_FILES
    BY <2>8, SameCardinality, Zenon
  <2>10. QED
    BY <1>2, <2>9 DEF Store!CreateFails, Store!Fail, Store!Idle
<1>6. QED
  BY <1>1, <1>4, <1>5

LEMMA StoreWrite ==
  ASSUME RefInv, NEW name \in Names, NEW data \in Payloads, FsWrite(name, data)
  PROVE  Store!Write(name, data)
<1>1. /\ pc = "idle" /\ pc' = "write" /\ dinodes' = dinodes /\ ddata' = ddata
      /\ superblock' = superblock /\ ret' = Store!NoRet /\ inode_find(name) # -1
      /\ call'.name = name /\ call'.data = data /\ BlocksNeeded(data) <= MAX_FILE_BLOCKS
  BY DEF FsWrite, NoRet, Returned, Store!NoRet, Store!Returned
<1>2. StoredCall = Store!NoCall /\ StoredCall' = Store!Writing(name, data)
  BY <1>1, StoredCalls, StoredCallsNext
<1>3. DOMAIN StoredFiles = NamesIn(dinodes)
  BY StoredFilesAre, StoredAre, RefTable
<1>4. ~(BlocksNeeded(data) > MAX_FILE_BLOCKS)
  BY <1>1, BlocksNeededType, DiskAssumption
<1>5. QED
  BY <1>1, <1>2, <1>3, <1>4, FindStored, QuietStep DEF Store!Write, Store!Idle

(* fs_write's sectors are not a file's yet *)
LEMMA StoreWriteBlock ==
  ASSUME RefInv, WriteBlock
  PROVE  Store!WriteTakesSpace
<1>1. /\ pc = "write" /\ pc' = "write" /\ dinodes' = dinodes /\ ret' = ret /\ block_alloc # 0
      /\ ddata' = [ddata EXCEPT ![block_alloc] = Chunk(call.data, call.i)]
  BY DEF WriteBlock
<1>2. call'.name = call.name /\ call'.data = call.data
  BY WriteBlockEffect DEF RefInv
<1>3. StoredCall' = StoredCall
  BY <1>1, <1>2, StoredCalls, StoredCallsNext
<1>4. block_alloc \in DataSectors /\ block_alloc \notin BlocksInUse
  BY <1>1, BlockAllocFacts DEF RefInv, FSInv
<1>5. \A i \in Inodes : dinodes[i].used => \A b \in BlocksOf(dinodes[i]) : ddata'[b] = ddata[b]
  <2>1. /\ ddata \in [DataSectors -> [1 .. BLOCK_SIZE -> Nat]]
        /\ \A i \in Inodes : dinodes[i].blocks \in [1 .. MAX_FILE_BLOCKS -> {0} \cup DataSectors]
    BY DEF RefInv, FSInv, TypeOK, InodeType
  <2>2. \A b \in DataSectors \ {block_alloc} : ddata'[b] = ddata[b]
    BY <1>1, <2>1
  <2>3. \A i \in Inodes : BlocksOf(dinodes[i]) \subseteq DataSectors
    <3>1. SUFFICES ASSUME NEW i \in Inodes, NEW b \in BlocksOf(dinodes[i])
                   PROVE  b \in DataSectors
      OBVIOUS
    <3>2. PICK j \in 1 .. MAX_FILE_BLOCKS : b = dinodes[i].blocks[j] /\ b # 0
      BY DEF BlocksOf
    <3>3. dinodes[i].blocks[j] \in {0} \cup DataSectors
      BY ONLY <2>1, i \in Inodes, j \in 1 .. MAX_FILE_BLOCKS
    <3>4. QED
      BY ONLY <3>2, <3>3
  <2>4. \A i \in Inodes : dinodes[i].used => block_alloc \notin BlocksOf(dinodes[i])
    BY <1>4 DEF BlocksInUse
  <2>5. QED
    BY <2>2, <2>3, <2>4
<1>6. FilesOf(dinodes, ddata') = FilesOf(dinodes, ddata)
  BY <1>5, SameFiles, RefTable
<1>7. StoredFiles' = StoredFiles /\ StoredSizes' = StoredSizes
  BY <1>1, <1>6, StoredFilesAre
<1>8. ~Full /\ Full' \in BOOLEAN /\ Up' = Up
  <2>1. ~NoSpace
    BY <1>1 DEF block_alloc
  <2>2. Up = TRUE
    BY <1>1 DEF Up
  <2>3. QED
    BY <1>1, <2>1, <2>2, UpFull
<1>9. StoredCall.op = "write"
  BY <1>1, StoredCalls DEF Store!Writing
<1>10. QED
  BY <1>1, <1>3, <1>7, <1>8, <1>9 DEF Store!WriteTakesSpace

(* without a free block a write that needs one fails *)
LEMMA StoreWriteFull ==
  ASSUME RefInv, WriteDiskFull
  PROVE  Store!WriteFails
<1>1. /\ pc = "write" /\ pc' = "idle" /\ dinodes' = dinodes /\ ddata' = ddata
      /\ superblock' = superblock /\ ret' = Returned("write", call.name, "error", <<>>, {})
      /\ call.i < BlocksNeeded(call.data) /\ block_alloc = 0
  BY DEF WriteDiskFull, Failure, Return
<1>2. /\ ret' = Store!Returned("write", call.name, "error", <<>>, {})
      /\ StoredCall' = Store!NoCall
      /\ StoredFiles' = StoredFiles /\ StoredSizes' = StoredSizes
      /\ Up' = Up /\ Full' = Full
  BY <1>1, StoreFail
<1>3. StoredCall = Store!Writing(call.name, call.data)
  BY <1>1, StoredCalls
<1>4. /\ StoredCall.op = "write" /\ StoredCall.name = call.name /\ StoredCall.data = call.data
  BY <1>3 DEF Store!Writing
<1>5. Full
  <2>1. FreeSectors \in SUBSET (Nat \ {0})
    BY TypedSize, DiskAssumption DEF FreeSectors, SizeKnown, RefInv, FSInv
  <2>2. NoSpace
    BY <1>1, <2>1, SmallestOfMember DEF block_alloc, NoSpace
  <2>3. QED
    BY <1>1, <2>2, UpFull
<1>6. call.i \in Nat /\ call.data \in Payloads
  BY <1>1 DEF RefInv, FSInv, TypeOK, CallType
<1>7. BlocksNeeded(call.data) \in Nat /\ BlocksNeeded(call.data) # 0
  BY <1>1, <1>6, BlocksNeededType
<1>8. call.data # <<>>
  <2>1. BlocksNeeded(<<>>) = 0
    <3>1. (0 + BLOCK_SIZE - 1) % WORD = BLOCK_SIZE - 1
      <4>1. PICK f \in Nat : f = MAX_FILE_BLOCKS * BLOCK_SIZE
        BY DiskAssumption
      <4>2. (MAX_FILE_BLOCKS + 1) * BLOCK_SIZE = f + BLOCK_SIZE
        BY <4>1, DiskAssumption
      <4>3. BLOCK_SIZE - 1 \in Nat /\ BLOCK_SIZE - 1 < WORD /\ WORD \in Nat \ {0}
            /\ 0 + BLOCK_SIZE - 1 = BLOCK_SIZE - 1
        BY <4>2, DiskAssumption
      <4>4. \A m \in Nat, w \in Nat \ {0} : m < w => m % w = m
        OBVIOUS
      <4>5. QED
        BY Zenon, <4>3, <4>4
    <3>2. \A b \in Nat \ {0} : (b - 1) \div b = 0
      OBVIOUS
    <3>3. (BLOCK_SIZE - 1) \div BLOCK_SIZE = 0
      BY Zenon, <3>2, DiskAssumption
    <3>4. Len(<<>>) = 0
      OBVIOUS
    <3>5. QED
      BY Zenon, <3>1, <3>3, <3>4 DEF BlocksNeeded
  <2>2. QED
    BY <1>7, <2>1
<1>9. ~Wraps(Len(call.data))
  BY <1>6, <1>7, DataType, BlocksNeededWraps
<1>10. QED
  BY <1>2, <1>4, <1>5, <1>8, <1>9 DEF Store!WriteFails, Store!Fail

(* The write of the inode makes what was written the file's, all of it at  *)
(* once, or only the new size if the number of blocks wrapped.             *)
LEMMA StoreWriteInode ==
  ASSUME RefInv, RefInv', WriteInode
  PROVE  Store!WriteCommits \/ Store!SizeCommits
<1>1. pc = "write" /\ pc' = "super" /\ ddata' = ddata /\ ret' = ret /\ superblock' = superblock
  BY DEF WriteInode
<1>2. /\ call.index \in Inodes /\ dinodes[call.index].used
      /\ call.i = BlocksNeeded(call.data) /\ BlocksNeeded(call.data) \in 0 .. MAX_FILE_BLOCKS
      /\ dinodes'[call.index].used
      /\ dinodes'[call.index].name = dinodes[call.index].name
      /\ dinodes'[call.index].size = Len(call.data)
      /\ dinodes'[call.index].blocks = call.inode.blocks
      /\ \A m \in Inodes \ {call.index} : dinodes'[m] = dinodes[m]
  BY WriteInodeEffect DEF RefInv
<1>3. /\ call.name = dinodes[call.index].name /\ call.data \in Payloads
      /\ \A j \in 1 .. call.i : ddata[call.inode.blocks[j]] = Chunk(call.data, call.i - 1)
  BY <1>1 DEF RefInv
<1>4. PICK x \in Inodes : x = call.index
  BY <1>2
<1>5. PICK data \in Payloads : data = call.data
  BY <1>3
<1>6. PICK new : new = dinodes'[x]
  BY Zenon
<1>7. PICK old : old = dinodes[x]
  BY Zenon
<1>8. NamesIn(dinodes') = NamesIn(dinodes)
  <2>1. \A m \in Inodes : /\ dinodes'[m].used <=> dinodes[m].used
                          /\ dinodes'[m].name = dinodes[m].name
    BY <1>2, <1>4
  <2>2. QED
    BY <2>1 DEF NamesIn
<1>. DEFINE F == FilesOf(dinodes, ddata)
            G == FilesOf(dinodes', ddata)
            S == SizesOf(dinodes)
            T == SizesOf(dinodes')
<1>9. /\ F = [n \in NamesIn(dinodes) |-> F[n]] /\ S = [n \in NamesIn(dinodes) |-> S[n]]
      /\ \A i \in Inodes : dinodes[i].used =>
           /\ dinodes[i].name \in NamesIn(dinodes)
           /\ F[dinodes[i].name] = Contents(dinodes[i], ddata)
           /\ S[dinodes[i].name] = dinodes[i].size
  BY StoredAre, RefTable
<1>10. /\ G = [n \in NamesIn(dinodes') |-> G[n]] /\ T = [n \in NamesIn(dinodes') |-> T[n]]
       /\ \A i \in Inodes : dinodes'[i].used =>
            G[dinodes'[i].name] = Contents(dinodes'[i], ddata) /\ T[dinodes'[i].name] = dinodes'[i].size
  BY StoredAre, RefTable
<1>. HIDE DEF F, G, S, T
<1>11. /\ call.name \in NamesIn(dinodes) /\ F[call.name] = Contents(old, ddata)
       /\ G[call.name] = Contents(new, ddata) /\ T[call.name] = Len(data)
  <2>1. /\ old = dinodes[x] /\ old.used /\ old.name = call.name
        /\ new = dinodes'[x] /\ new.used /\ new.name = call.name /\ new.size = Len(data)
    BY <1>2, <1>3, <1>4, <1>5, <1>6, <1>7
  <2>2. QED
    BY Zenon, <1>4, <1>9, <1>10, <2>1
<1>12. ASSUME NEW n \in NamesIn(dinodes), n # call.name PROVE G[n] = F[n] /\ T[n] = S[n]
  <2>1. PICK i \in Inodes : dinodes[i].used /\ dinodes[i].name = n
    BY DEF NamesIn
  <2>2. dinodes'[i] = dinodes[i]
    BY <1>2, <1>3, <1>12, <2>1
  <2>3. QED
    BY <1>9, <1>10, <2>1, <2>2
<1>13. T = [S EXCEPT ![call.name] = Len(data)]
  BY <1>8, <1>9, <1>10, <1>11, <1>12
<1>14. /\ StoredFiles = F /\ StoredFiles' = G /\ StoredSizes = S /\ StoredSizes' = T
  BY <1>1, StoredFilesAre DEF F, G, S, T
<1>15. /\ StoredCall = Store!Writing(call.name, call.data) /\ StoredCall' = Store!Finishing
       /\ Up' = Up /\ Full' \in BOOLEAN
  BY <1>1, StoredCalls, StoredCallsNext, UpFull DEF Up
<1>16. /\ StoredCall.op = "write" /\ StoredCall.name = call.name /\ StoredCall.data = data
  BY <1>5, <1>15 DEF Store!Writing
<1>17. data \in Seq(Nat) /\ Len(data) \in Nat /\ Len(data) < WORD /\ BlocksNeeded(data) \in Nat
  BY DataType, BlocksOfBytes
<1>18. new.blocks = call.inode.blocks /\ new.size = Len(data) /\ call.i = BlocksNeeded(data)
  BY <1>2, <1>4, <1>5, <1>6
<1>19. new \in InodeType /\ old \in InodeType /\ old.used /\ new.used
       /\ (new.size <= Covered(new) \/ Wraps(new.size))
  <2>1. /\ TableOK(dinodes) /\ TableOK(dinodes') /\ dinodes'[x].used /\ dinodes[x].used
    BY <1>2, <1>4, RefTable
  <2>2. SizeCovered'
    BY DEF RefInv, SizeInv
  <2>3. dinodes'[x].size <= Covered(dinodes'[x]) \/ Wraps(dinodes'[x].size)
    BY <2>1, <2>2 DEF SizeCovered, Covered, Wraps
  <2>4. QED
    BY <1>6, <1>7, <2>1, <2>3 DEF TableOK
<1>20. CASE ~Wraps(Len(data))
  <2>1. Contents(new, ddata) = ReadBack(data)
    <3>1. Len(data) <= Covered(new)
      BY <1>18, <1>19, <1>20
    <3>2. \A j \in 1 .. BlocksNeeded(data) :
            ddata[new.blocks[j]] = Chunk(data, BlocksNeeded(data) - 1)
      BY <1>3, <1>5, <1>18
    <3>3. QED
      BY <1>17, <1>18, <1>20, <3>1, <3>2, LastChunkContents
  <2>2. G = [F EXCEPT ![call.name] = ReadBack(data)]
    BY <1>8, <1>9, <1>10, <1>11, <1>12, <2>1
  <2>3. [d \in Payloads |-> ReadBack(d)][data] = ReadBack(data)
    OBVIOUS
  <2>4. Store!WriteCommits
    BY <1>1, <1>13, <1>14, <1>15, <1>16, <1>20, <2>2, <2>3 DEF Store!WriteCommits
  <2>5. QED
    BY <2>4
<1>21. CASE Wraps(Len(data))
  <2>1. call.i = 0 /\ BlocksNeeded(data) = 0
    BY <1>17, <1>18, <1>21, BlocksNeededWraps
  <2>2. new.blocks = old.blocks
    <3>1. \A j \in 1 .. MAX_FILE_BLOCKS : call.inode.blocks[j] = dinodes[call.index].blocks[j]
      <4>1. \A j \in 1 .. MAX_FILE_BLOCKS : ~(j <= call.i)
        BY <2>1, DiskAssumption
      <4>2. QED
        BY <1>1, <4>1 DEF RefInv, SizeInv, WriteProgress
    <3>2. \A j \in 1 .. MAX_FILE_BLOCKS : new.blocks[j] = old.blocks[j]
      BY <1>4, <1>7, <1>18, <3>1
    <3>3. /\ new.blocks \in [1 .. MAX_FILE_BLOCKS -> {0} \cup DataSectors]
          /\ old.blocks \in [1 .. MAX_FILE_BLOCKS -> {0} \cup DataSectors]
      BY <1>19 DEF InodeType
    <3>4. PICK f \in [1 .. MAX_FILE_BLOCKS -> {0} \cup DataSectors] : f = new.blocks
      BY Zenon, <3>3
    <3>5. PICK g \in [1 .. MAX_FILE_BLOCKS -> {0} \cup DataSectors] : g = old.blocks
      BY Zenon, <3>3
    <3>6. \A j \in 1 .. MAX_FILE_BLOCKS : f[j] = g[j]
      BY Zenon, <3>2, <3>4, <3>5
    <3>7. f = g
      <4>1. /\ f = [j \in 1 .. MAX_FILE_BLOCKS |-> f[j]]
            /\ g = [j \in 1 .. MAX_FILE_BLOCKS |-> g[j]]
        BY Zenon
      <4>2. [j \in 1 .. MAX_FILE_BLOCKS |-> f[j]] = [j \in 1 .. MAX_FILE_BLOCKS |-> g[j]]
        BY Zenon, <3>6
      <4>3. QED
        BY Zenon, <4>1, <4>2
    <3>8. QED
      BY <3>4, <3>5, <3>7
  <2>3. Covered(new) = Covered(old)
    BY <2>2 DEF Covered
  <2>4. Readable(old) <= Readable(new) /\ Readable(old) \in Nat /\ Readable(new) \in Nat
    <3>1. old.size \in 0 .. WORD - 1 /\ new.size \in 0 .. WORD - 1
      BY <1>19 DEF InodeType
    <3>2. Covered(new) <= MAX_FILE_BLOCKS * BLOCK_SIZE /\ Covered(new) \in Nat
      BY CoveredAtMost
    <3>3. PICK f \in Nat : f = MAX_FILE_BLOCKS * BLOCK_SIZE
      BY DiskAssumption
    <3>4. (MAX_FILE_BLOCKS + 1) * BLOCK_SIZE = f + BLOCK_SIZE
      BY <3>3, DiskAssumption
    <3>5. Covered(new) <= new.size
      BY <1>17, <1>18, <1>21, <3>2, <3>3, <3>4, DiskAssumption DEF Wraps
    <3>6. Readable(new) = Covered(new) /\ Readable(old) <= Covered(old) /\ Readable(old) \in Nat
      BY <3>1, <3>5, ReadableFacts, DiskAssumption
    <3>7. QED
      BY <2>3, <3>2, <3>6
  <2>5. PICK s \in Seq(Nat) : s = Contents(old, ddata) /\ Len(s) = Readable(old)
    BY <1>19, ContentsType, RefTable
  <2>6. PICK t \in Seq(Nat) : t = Contents(new, ddata) /\ Len(t) = Readable(new)
    BY <1>19, ContentsType, RefTable
  <2>7. SubSeq(t, 1, Len(s)) = s
    <3>1. \A k \in 1 .. Len(s) : k \in 1 .. Readable(old) /\ k \in 1 .. Readable(new)
      BY <2>4, <2>5
    <3>2. \A k \in 1 .. Len(s) : t[k] = s[k]
      BY <2>2, <2>5, <2>6, <3>1 DEF Contents
    <3>3. SubSeq(t, 1, Len(s)) = [k \in 1 .. Len(s) |-> t[k]]
      BY <2>4, <2>5, <2>6
    <3>4. QED
      BY <3>2, <3>3
  <2>8. Full' = Full
    <3>1. \A m \in Inodes : (dinodes'[m].used <=> dinodes[m].used)
                            /\ dinodes'[m].blocks = dinodes[m].blocks
      BY <1>2, <1>4, <1>6, <1>7, <2>2
    <3>2. QED
      BY <1>1, <3>1, BlocksKept, SpaceKept
  <2>9. /\ DOMAIN G = DOMAIN F /\ \A m \in DOMAIN F \ {call.name} : G[m] = F[m]
        /\ SubSeq(G[call.name], 1, Len(F[call.name])) = F[call.name]
    <3>1. DOMAIN G = NamesIn(dinodes) /\ DOMAIN F = NamesIn(dinodes)
      BY <1>8, <1>9, <1>10
    <3>2. QED
      BY <1>11, <1>12, <2>5, <2>6, <2>7, <3>1
  <2>10. Store!SizeCommits
    BY <1>1, <1>13, <1>14, <1>15, <1>16, <1>21, <2>8, <2>9 DEF Store!SizeCommits
  <2>11. QED
    BY <2>10
<1>22. QED
  BY <1>20, <1>21

LEMMA StoreDelete ==
  ASSUME RefInv, RefInv', NEW name \in Names, FsDelete(name)
  PROVE  Store!Delete(name)
<1>1. PICK x \in Inodes :
        /\ dinodes[x].used /\ ~dinodes'[x].used /\ dinodes[x].name = name
        /\ \A m \in Inodes \ {x} : dinodes'[m] = dinodes[m]
  BY Zenon, FsDeleteEffect DEF RefInv
<1>2. /\ pc = "idle" /\ pc' = "super" /\ ddata' = ddata /\ ret' = Store!NoRet
      /\ inode_find(name) # -1
  BY DEF FsDelete, NoRet, Returned, Store!NoRet, Store!Returned
<1>3. name \in NamesIn(dinodes)
  BY <1>1 DEF NamesIn
<1>4. NamesIn(dinodes') = NamesIn(dinodes) \ {name}
  <2>1. \A m \in Inodes \ {x} : dinodes[m].used => dinodes[m].name # name
    BY <1>1, RefTable DEF TableOK
  <2>2. \A m \in Inodes : dinodes'[m].used <=> dinodes[m].used /\ m # x
    BY <1>1
  <2>3. \A m \in Inodes : dinodes'[m].used => dinodes'[m].name = dinodes[m].name
    BY <1>1, <2>2
  <2>4. ASSUME NEW n \in NamesIn(dinodes') PROVE n \in NamesIn(dinodes) \ {name}
    BY <2>1, <2>2, <2>3 DEF NamesIn
  <2>5. ASSUME NEW n \in NamesIn(dinodes) \ {name} PROVE n \in NamesIn(dinodes')
    BY <1>1, <2>2, <2>3 DEF NamesIn
  <2>6. QED
    BY <2>4, <2>5
<1>. DEFINE F == FilesOf(dinodes, ddata)
            G == FilesOf(dinodes', ddata)
            S == SizesOf(dinodes)
            T == SizesOf(dinodes')
<1>5. /\ DOMAIN F = NamesIn(dinodes)
      /\ \A i \in Inodes : dinodes[i].used =>
           F[dinodes[i].name] = Contents(dinodes[i], ddata) /\ S[dinodes[i].name] = dinodes[i].size
  BY StoredAre, RefTable
<1>6. /\ G = [n \in NamesIn(dinodes') |-> G[n]] /\ T = [n \in NamesIn(dinodes') |-> T[n]]
      /\ \A i \in Inodes : dinodes'[i].used =>
           G[dinodes'[i].name] = Contents(dinodes'[i], ddata) /\ T[dinodes'[i].name] = dinodes'[i].size
  BY StoredAre, RefTable
<1>. HIDE DEF F, G, S, T
<1>7. ASSUME NEW n \in NamesIn(dinodes') PROVE G[n] = F[n] /\ T[n] = S[n]
  <2>1. PICK i \in Inodes : dinodes'[i].used /\ dinodes'[i].name = n
    BY DEF NamesIn
  <2>2. dinodes'[i] = dinodes[i]
    BY <1>1, <2>1
  <2>3. QED
    BY <1>5, <1>6, <2>1, <2>2
<1>8. /\ G = [n \in DOMAIN F \ {name} |-> F[n]]
      /\ T = [n \in DOMAIN F \ {name} |-> S[n]]
  BY Zenon, <1>4, <1>5, <1>6, <1>7
<1>9. StoredFiles = F /\ StoredFiles' = G /\ StoredSizes = S /\ StoredSizes' = T
  BY <1>2, StoredFilesAre DEF F, G, S, T
<1>10. /\ StoredCall = Store!NoCall /\ StoredCall' = Store!Finishing
       /\ Up /\ Up' = Up /\ Full' \in BOOLEAN
  BY <1>2, StoredCalls, StoredCallsNext, UpFull DEF Up
<1>11. QED
  BY Zenon, <1>2, <1>3, <1>5, <1>8, <1>9, <1>10 DEF Store!Delete, Store!Idle

LEMMA StoreRead ==
  ASSUME RefInv, NEW name \in Names, NEW size \in ReadSizes, FsRead(name, size)
  PROVE  Store!Read(name, size)
<1>1. /\ pc = "idle" /\ pc' = "idle" /\ dinodes' = dinodes /\ ddata' = ddata
      /\ superblock' = superblock /\ inode_find(name) # -1
      /\ ret' = Store!Returned("read", name, "ok", ReadBytes(dinodes[inode_find(name)], size), {})
  BY DEF FsRead, Return, Returned, Store!Returned
<1>2. PICK x \in Inodes : x = inode_find(name) /\ dinodes[x].used /\ dinodes[x].name = name
  BY <1>1, FindFacts
<1>3. PICK inode : inode = dinodes[x]
  BY Zenon
<1>4. inode \in InodeType /\ ddata \in SectorsType
  BY <1>2, <1>3, RefTable DEF TableOK
<1>5. /\ name \in DOMAIN StoredFiles /\ StoredFiles[name] = Contents(inode, ddata)
  BY <1>2, <1>3, StoredFilesAre, StoredAre, RefTable
<1>6. PICK s \in Seq(Nat) : s = Contents(inode, ddata) /\ Len(s) = Readable(inode)
  BY <1>4, ContentsType
<1>7. PICK len \in Nat : len = IF size < Len(s) THEN size ELSE Len(s)
  BY <1>6, ReadSizesAssumption
<1>8. len <= Len(s)
  BY <1>6, <1>7, ReadSizesAssumption
<1>9. ReadBytes(inode, size) = [k \in 1 .. len |-> s[k]]
  <2>1. SmallerOf(SmallerOf(size, inode.size), Covered(inode)) = len
    <3>1. size \in Nat /\ inode.size \in Nat
      BY <1>4, ReadSizesAssumption, DiskAssumption DEF InodeType
    <3>2. Covered(inode) \in Nat
      BY <3>1, ReadableFacts
    <3>3. QED
      BY <1>6, <1>7, <3>1, <3>2 DEF Readable, SmallerOf
  <2>2. \A k \in 1 .. len : k \in 1 .. Readable(inode)
    BY <1>6, <1>7, <1>8
  <2>3. \A k \in 1 .. len :
          s[k] = ddata[inode.blocks[1 + ((k - 1) \div BLOCK_SIZE)]][1 + ((k - 1) % BLOCK_SIZE)]
    BY <1>6, <2>2 DEF Contents
  <2>4. QED
    BY <2>1, <2>3 DEF ReadBytes
<1>10. SubSeq(s, 1, len) = [k \in 1 .. len |-> s[k]]
  BY <1>6, <1>7, <1>8
<1>11. ret' = Store!Returned("read", name, "ok", SubSeq(s, 1, len), {})
  BY Zenon, <1>1, <1>2, <1>3, <1>9, <1>10
<1>12. /\ StoredCall = Store!NoCall /\ StoredCall' = StoredCall /\ StoredFiles' = StoredFiles
       /\ StoredSizes' = StoredSizes /\ Up /\ Up' = Up /\ Full' = Full
  BY <1>1, StoredCalls, StoredCallsNext, QuietStep
<1>13. StoredFiles[name] = s
  BY <1>5, <1>6
<1>14. QED
  BY <1>5, <1>7, <1>11, <1>12, <1>13 DEF Store!Read, Store!Idle

LEMMA StoreList ==
  ASSUME RefInv, FsList
  PROVE  Store!List
<1>. DEFINE listed == {<<dinodes[i].name, dinodes[i].size>> : i \in {k \in Inodes : dinodes[k].used}}
<1>1. /\ pc = "idle" /\ pc' = "idle" /\ dinodes' = dinodes /\ ddata' = ddata
      /\ superblock' = superblock
      /\ ret' = Store!Returned("list", NoName, "ok", <<>>, listed)
  BY DEF FsList, Return, Returned, Store!Returned
<1>2. DOMAIN StoredFiles = NamesIn(dinodes)
  BY StoredFilesAre, StoredAre, RefTable
<1>3. \A i \in Inodes : dinodes[i].used => StoredSizes[dinodes[i].name] = dinodes[i].size
  BY StoredFilesAre, StoredAre, RefTable
<1>4. listed = {<<n, StoredSizes[n]>> : n \in DOMAIN StoredFiles}
  BY <1>2, <1>3 DEF NamesIn
<1>. HIDE DEF listed
<1>5. /\ StoredCall = Store!NoCall /\ StoredCall' = StoredCall /\ StoredFiles' = StoredFiles
      /\ StoredSizes' = StoredSizes /\ Up /\ Up' = Up /\ Full' = Full
  BY <1>1, StoredCalls, StoredCallsNext, QuietStep
<1>6. QED
  BY <1>1, <1>4, <1>5 DEF Store!List, Store!Idle

(* the other calls that fail *)
LEMMA StoreFails ==
  ASSUME RefInv, NEW name \in Names
  PROVE  /\ FsDeleteFails(name) => Store!DeleteFails(name)
         /\ FsReadFails(name) => Store!ReadFails(name)
         /\ \A data \in Payloads : FsWriteFails(name, data) => Store!WriteRefused(name, data)
<1>1. DOMAIN StoredFiles = NamesIn(dinodes)
  BY StoredFilesAre, StoredAre, RefTable
<1>2. pc = "idle" => StoredCall = Store!NoCall
  BY StoredCalls
<1>3. FsDeleteFails(name) => Store!DeleteFails(name)
  BY <1>1, <1>2, StoreFail, FindStored
     DEF FsDeleteFails, Failure, Return, Store!DeleteFails, Store!Fail, Store!Idle
<1>4. FsReadFails(name) => Store!ReadFails(name)
  BY <1>1, <1>2, StoreFail, FindStored
     DEF FsReadFails, Failure, Return, Store!ReadFails, Store!Fail, Store!Idle
<1>5. ASSUME NEW data \in Payloads, FsWriteFails(name, data) PROVE Store!WriteRefused(name, data)
  BY <1>1, <1>2, <1>5, StoreFail, FindStored
     DEF FsWriteFails, Failure, Return, Store!WriteRefused, Store!Fail, Store!Idle
<1>6. QED
  BY <1>3, <1>4, <1>5

(* every step is a step of the store or leaves it as it is *)
LEMMA StoreNext ==
  ASSUME ShortNames, RefInv, RefInv', [Next]_vars
  PROVE  [Store!Next]_(Store!vars)
<1>1. CASE FormatInodes
  <2>1. \A i \in Inodes : ~dinodes[i].used /\ ~dinodes'[i].used
    BY <1>1 DEF FormatInodes, ZeroInode, RefInv, Formatted
  <2>2. /\ ddata' = ddata /\ ret' = ret /\ pc = "format_inodes"
        /\ pc' \in {"format_inodes", "idle"}
    BY <1>1 DEF FormatInodes
  <2>3. NamesIn(dinodes) = {} /\ NamesIn(dinodes') = {}
    BY <2>1 DEF NamesIn
  <2>4. FilesOf(dinodes', ddata) = FilesOf(dinodes, ddata) /\ SizesOf(dinodes') = SizesOf(dinodes)
    BY <2>3 DEF FilesOf, SizesOf
  <2>5. StoredFiles' = StoredFiles /\ StoredSizes' = StoredSizes /\ StoredCall' = StoredCall
    BY Zenon, <2>2, <2>4, StoredFilesAre, StoredCalls, StoredCallsNext
  <2>6. CASE pc' = "idle"
    <3>1. Store!Mount
      BY <2>2, <2>5, <2>6, UpFull DEF Store!Mount
    <3>2. QED
      BY <3>1 DEF Store!Next
  <2>7. CASE pc' = "format_inodes"
    BY <2>2, <2>5, <2>7, UpFull DEF Store!vars
  <2>8. QED
    BY <2>2, <2>6, <2>7
<1>2. CASE WriteBlock
  BY <1>2, StoreWriteBlock DEF Store!Next
<1>3. CASE WriteInode
  BY <1>3, StoreWriteInode DEF Store!Next
<1>4. ASSUME NEW name \in Names, FsCreate(name) PROVE Store!Next
  BY <1>4, StoreCreate DEF Store!Next
<1>5. ASSUME NEW name \in Names, FsDelete(name) PROVE Store!Next
  BY <1>5, StoreDelete DEF Store!Next
<1>6. ASSUME NEW name \in Names, NEW data \in Payloads, FsWrite(name, data) PROVE Store!Next
  BY <1>6, StoreWrite DEF Store!Next
<1>7. CASE OtherStep
  <2>1. CASE FsInit
    <3>1. /\ dinodes' = dinodes /\ ddata' = ddata /\ ret' = ret
          /\ pc = "off" /\ pc' \in {"idle", "format_super"}
      BY <2>1 DEF FsInit
    <3>2. StoredFiles' = StoredFiles /\ StoredSizes' = StoredSizes /\ StoredCall' = StoredCall
      BY <3>1, QuietStored, StoredCalls, StoredCallsNext
    <3>3. CASE pc' = "idle"
      <4>1. Store!Mount
        BY <3>1, <3>2, <3>3, UpFull DEF Store!Mount
      <4>2. QED
        BY <4>1 DEF Store!Next
    <3>4. CASE pc' = "format_super"
      BY <3>1, <3>2, <3>4, UpFull DEF Store!vars
    <3>5. QED
      BY <3>1, <3>3, <3>4
  <2>2. CASE FormatSuper \/ UNCHANGED vars
    <3>1. /\ dinodes' = dinodes /\ ddata' = ddata /\ ret' = ret /\ superblock' = superblock
          /\ \/ pc = "format_super" /\ pc' = "format_inodes"
             \/ pc' = pc /\ call' = call
      BY <2>2 DEF FormatSuper, vars
    <3>2. StoredCall' = StoredCall /\ Up' = Up
      BY <3>1 DEF StoredCall, Up
    <3>3. Full' = Full
      BY <3>1, <3>2, BlocksKept DEF Full, NoSpace, FreeSectors
    <3>4. QED
      BY <3>1, <3>2, <3>3, QuietStored DEF Store!vars
  <2>3. CASE FsList
    BY <2>3, StoreList DEF Store!Next
  <2>4. CASE WriteDiskFull
    BY <2>4, StoreWriteFull DEF Store!Next
  <2>5. CASE UpdateSuperblock
    <3>1. /\ dinodes' = dinodes /\ ddata' = ddata /\ superblock' = superblock
          /\ pc = "super" /\ pc' = "idle"
          /\ ret' = Store!Returned("finish", NoName, "ok", <<>>, {})
      BY <2>5 DEF UpdateSuperblock, Success, Return, Returned, Store!Returned
    <3>2. StoredCall = Store!Finishing /\ StoredCall' = Store!NoCall
      BY <3>1, StoredCalls, StoredCallsNext
    <3>3. Store!Returns
      BY <3>1, <3>2, QuietStep DEF Store!Returns, Store!OK
    <3>4. QED
      BY <3>3 DEF Store!Next
  <2>6. CASE PowerOff \/ Crash
    <3>1. /\ dinodes' = dinodes /\ ddata' = ddata /\ pc' = "off" /\ ret' = Store!NoRet
      BY <2>6 DEF PowerOff, Crash, LoseMemory, NoRet, Returned, Store!NoRet, Store!Returned
    <3>2. StoredCall' = Store!NoCall
      BY <3>1, StoredCallsNext
    <3>3. Store!PowerLoss
      BY <3>1, <3>2, QuietStored, UpFull DEF Store!PowerLoss
    <3>4. QED
      BY <3>3 DEF Store!Next
  <2>7. ASSUME NEW name \in Names,
               \/ FsCreateFails(name) \/ FsDeleteFails(name) \/ FsReadFails(name)
               \/ \E size \in ReadSizes : FsRead(name, size)
               \/ \E data \in Payloads : FsWriteFails(name, data)
        PROVE  Store!Next
    BY <2>7, StoreCreateFails, StoreFails, StoreRead DEF Store!Next
  <2>8. QED
    BY <1>7, <2>1, <2>2, <2>3, <2>4, <2>5, <2>6, <2>7 DEF OtherStep
<1>8. QED
  BY <1>1, <1>2, <1>3, <1>4, <1>5, <1>6, <1>7, StepKinds

(* AshFS implements the abstract store of named files, for names that fit  *)
(* an inode and any contents: every fs_create, fs_write and fs_delete      *)
(* takes effect at one sector write or not at all and fails only for the   *)
(* reasons the store names, fs_read and fs_list return what is stored, and *)
(* a power loss between any two sector writes leaves each file with its    *)
(* old or its new contents.  What is stored of some data is its ReadBack,  *)
(* which is the data itself if one block holds it (ReadBackOneBlock).      *)
THEOREM FSImplementsStore ==
  ASSUME ShortNames
  PROVE  Spec => ImplementsStore
<1>1. Init => RefInv
  <2>1. Init => FSInv
    BY InitFSInv
  <2>2. Init => SizeInv /\ UniqueNames /\ Formatted
    <3>1. Init => (\A i \in Inodes : ~dinodes[i].used) /\ pc = "off"
      BY DEF Init, ZeroInode
    <3>2. Init => SizeInv
      BY <3>1 DEF SizeInv, SizeCovered, WriteProgress
    <3>3. Init => UniqueNames /\ Formatted
      BY <3>1 DEF UniqueNames, Formatted
    <3>4. QED
      BY <3>2, <3>3
  <2>3. Init => /\ \A i \in Inodes : dinodes[i].used => dinodes[i].name \in Names
                /\ pc # "write"
    BY DEF Init, ZeroInode
  <2>4. QED
    BY <2>1, <2>2, <2>3 DEF RefInv
<1>2. Init => Store!Init
  <2>1. SUFFICES ASSUME Init PROVE Store!Init
    OBVIOUS
  <2>2. NamesIn(dinodes) = {}
    BY <2>1 DEF Init, NamesIn, ZeroInode
  <2>3. FilesOf(dinodes, ddata) = [n \in {} |-> <<>>] /\ SizesOf(dinodes) = [n \in {} |-> 0]
    BY <2>2 DEF FilesOf, SizesOf
  <2>4. StoredFiles = [n \in {} |-> <<>>] /\ StoredSizes = [n \in {} |-> 0]
    BY <2>3, StoredFilesAre
  <2>5. StoredCall = Store!NoCall /\ ret = Store!NoRet /\ Up = FALSE /\ Full = FALSE
    BY <2>1, StoredCalls, UpFull DEF Init, NoRet, Returned, Store!NoRet, Store!Returned
  <2>6. QED
    BY <2>4, <2>5 DEF Store!Init
<1>3. RefInv /\ [Next]_vars => RefInv'
  BY RefNext
<1>4. RefInv /\ RefInv' /\ [Next]_vars => [Store!Next]_(Store!vars)
  BY StoreNext
<1>5. QED
  BY <1>1, <1>2, <1>3, <1>4, PTL DEF Spec, ImplementsStore, Store!Spec
=============================================================================
