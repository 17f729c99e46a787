-------------------------------- MODULE AshFS --------------------------------
(***************************************************************************)
(* The file system of kernel/fs.c on its disk.                             *)
(*                                                                         *)
(* Sector 0 holds the superblock, the inode table follows, and the data    *)
(* sectors start at DATA_START_SECTOR.  The kernel keeps one copy of the   *)
(* superblock in memory and re-reads inodes from the disk whenever it      *)
(* needs them.  A step of this module ends with the write of one sector:   *)
(* between two of them the power may go, and the next boot finds what the  *)
(* disk holds then.                                                        *)
(***************************************************************************)
EXTENDS Integers, Sequences, FiniteSets

CONSTANTS
  MAX_FILES, MAX_FILE_BLOCKS,
  BLOCK_SIZE,          \* bytes per data sector
  DATA_START_SECTOR,
  TOTAL_BLOCKS,        \* data sectors a freshly formatted disk has
  INODES_PER_SECTOR, INODE_SECTORS,
  WORD,                \* 2^32, the modulus of uint32_t
  Names,               \* the names the callers use
  Trunc,               \* name |-> the name that fits in inode_t.name
  Payloads,            \* the contents fs_write is called with
  ReadSizes,           \* the buffer sizes fs_read is called with
  MaxCrashes           \* how often the power goes in the middle of a call

Inodes == 0 .. MAX_FILES - 1
DataSectors == DATA_START_SECTOR .. (DATA_START_SECTOR + TOTAL_BLOCKS - 1)
NoName == ""
FS_MAGIC == 675957    \* 0xA5075

(* Block number 0 means "none", so no data sector has that number; every   *)
(* inode lies in a sector that formatting clears; the sizes of files that  *)
(* are not too large are far from overflowing a uint32_t.                  *)
ASSUME DiskAssumption ==
  /\ MAX_FILES \in Nat \ {0} /\ MAX_FILE_BLOCKS \in Nat \ {0}
  /\ BLOCK_SIZE \in Nat \ {0} /\ DATA_START_SECTOR \in Nat \ {0}
  /\ TOTAL_BLOCKS \in Nat \ {0} /\ WORD \in Nat /\ TOTAL_BLOCKS < WORD
  /\ INODES_PER_SECTOR \in Nat \ {0} /\ INODE_SECTORS \in Nat \ {0}
  /\ MAX_FILES <= INODES_PER_SECTOR * INODE_SECTORS
  /\ (MAX_FILE_BLOCKS + 1) * BLOCK_SIZE <= WORD

(* Truncating a name that was truncated changes nothing. *)
ASSUME NamesAssumption ==
  /\ NoName \notin Names
  /\ DOMAIN Trunc = Names
  /\ \A n \in Names : Trunc[n] \in Names /\ Trunc[Trunc[n]] = Trunc[n]

(* File contents are sequences of bytes; fs_write's size is a uint32_t. *)
ASSUME PayloadsAssumption ==
  \A data \in Payloads : data \in Seq(Nat) /\ Len(data) < WORD

(* fs_read's size is a uint32_t. *)
ASSUME ReadSizesAssumption == ReadSizes \subseteq Nat

ASSUME CrashAssumption == MaxCrashes \in Nat

VARIABLES
  dsuper,       \* sector 0
  dinodes,      \* the inode table on disk
  ddata,        \* data sector |-> the BLOCK_SIZE bytes in it
  superblock,   \* the kernel's copy of sector 0
  pc,           \* "off", "idle", or what the running call does next
  call,         \* the locals of the running call
  ret,          \* what the last call returned
  crashes

disk == <<dsuper, dinodes, ddata>>
vars == <<dsuper, dinodes, ddata, superblock, pc, call, ret, crashes>>

-----------------------------------------------------------------------------
(* Data layout *)

ZeroSuper == [magic |-> 0, total_blocks |-> 0, free_blocks |-> 0]
NewSuper == [magic |-> FS_MAGIC, total_blocks |-> TOTAL_BLOCKS,
             free_blocks |-> TOTAL_BLOCKS]

NoBlocks == [j \in 1 .. MAX_FILE_BLOCKS |-> 0]
ZeroInode == [name |-> NoName, size |-> 0, blocks |-> NoBlocks, used |-> FALSE]
ZeroSector == [k \in 1 .. BLOCK_SIZE |-> 0]

NoCall == [index |-> 0, name |-> NoName, inode |-> ZeroInode, data |-> <<>>, i |-> 0]

(* what a call returned: which call it was, and bytes read or files listed *)
Returned(op, name, status, bytes, list) ==
  [op |-> op, name |-> name, status |-> status, bytes |-> bytes, list |-> list]
NoRet == Returned("none", NoName, "none", <<>>, {})

(* the running call, if any, returns to its caller *)
Return(r) == pc' = "idle" /\ call' = NoCall /\ ret' = r
Success(op, name) == Return(Returned(op, name, "ok", <<>>, {}))
Failure(op, name) == Return(Returned(op, name, "error", <<>>, {}))

-----------------------------------------------------------------------------
(* Helpers *)

SmallestOf(S) == CHOOSE x \in S : \A y \in S : x <= y

Matching(name) == {i \in Inodes : dinodes[i].used /\ dinodes[i].name = name}

(* inode_find: the first used inode with that name, or -1 *)
inode_find(name) == IF Matching(name) = {} THEN -1 ELSE SmallestOf(Matching(name))

Unused == {i \in Inodes : ~dinodes[i].used}

(* inode_alloc: the first unused inode, or -1 *)
inode_alloc == IF Unused = {} THEN -1 ELSE SmallestOf(Unused)

BlocksOf(inode) == {inode.blocks[j] : j \in 1 .. MAX_FILE_BLOCKS} \ {0}

BlocksInUseMutant ==
  UNION {BlocksOf(dinodes[i]) :
           i \in {k \in Inodes : dinodes[k].used /\ k < MAX_FILES - 1}}

(* the blocks that the inodes on disk refer to *)
BlocksInUse == UNION {BlocksOf(dinodes[i]) : i \in {k \in Inodes : dinodes[k].used}}

FreeSectorsMutant ==
  (DATA_START_SECTOR .. (DATA_START_SECTOR + superblock.total_blocks)) \ BlocksInUse

FreeSectorsMutant2 ==
  DATA_START_SECTOR .. (DATA_START_SECTOR + superblock.total_blocks - 1)

(* the data sectors none of them refers to *)
FreeSectors ==
  (DATA_START_SECTOR .. (DATA_START_SECTOR + superblock.total_blocks - 1))
    \ BlocksInUse

NoSpace == superblock.free_blocks = 0 \/ FreeSectors = {}

block_allocMutant ==
  IF call.inode.blocks[call.i + 1] # 0 THEN call.inode.blocks[call.i + 1]
  ELSE IF NoSpace THEN 0
  ELSE SmallestOf(FreeSectors)

(* block_alloc: the first data sector no inode on disk refers to, or 0.    *)
(* Blocks the running fs_write has already taken are not on disk yet and   *)
(* so not excluded.                                                        *)
block_alloc == IF NoSpace THEN 0 ELSE SmallestOf(FreeSectors)

BlocksNeededMutant(data) == Len(data) \div BLOCK_SIZE

(* Blocks for the given data, computed in uint32_t: the rounding up wraps  *)
(* for the largest sizes, which then need no block at all.                 *)
BlocksNeeded(data) == ((Len(data) + BLOCK_SIZE - 1) % WORD) \div BLOCK_SIZE

Wraps(size) == size + BLOCK_SIZE - 1 >= WORD

(* the i-th chunk of data (i from 0), padded with zeros to a sector *)
Chunk(data, i) ==
  [k \in 1 .. BLOCK_SIZE |-> IF i * BLOCK_SIZE + k <= Len(data)
                             THEN data[i * BLOCK_SIZE + k] ELSE 0]

SmallerOf(m, n) == IF m < n THEN m ELSE n

(* how many bytes fs_read finds: it stops at the first missing block *)
Covered(inode) ==
  BLOCK_SIZE * Cardinality({j \in 1 .. MAX_FILE_BLOCKS :
                              \A k \in 1 .. j : inode.blocks[k] # 0})

(* the bytes fs_read copies for a buffer of the given size *)
ReadBytes(inode, size) ==
  [k \in 1 .. SmallerOf(SmallerOf(size, inode.size), Covered(inode)) |->
     ddata[inode.blocks[1 + ((k - 1) \div BLOCK_SIZE)]][1 + ((k - 1) % BLOCK_SIZE)]]

-----------------------------------------------------------------------------
(* fs_init *)

(* Power on: read the superblock; without the magic number, prepare a new  *)
(* one and format.                                                         *)
FsInit ==
  /\ pc = "off"
  /\ IF dsuper.magic = FS_MAGIC
     THEN superblock' = dsuper /\ pc' = "idle"
     ELSE superblock' = NewSuper /\ pc' = "format_super"
  /\ UNCHANGED <<dsuper, dinodes, ddata, call, ret, crashes>>

(* formatting writes the superblock first ... *)
FormatSuper ==
  /\ pc = "format_super"
  /\ dsuper' = superblock /\ pc' = "format_inodes"
  /\ UNCHANGED <<dinodes, ddata, superblock, call, ret, crashes>>

(* ... then clears the inode sectors one by one *)
FormatInodes ==
  /\ pc = "format_inodes"
  /\ dinodes' = [i \in Inodes |-> IF i \div INODES_PER_SECTOR = call.i
                                  THEN ZeroInode ELSE dinodes[i]]
  /\ IF call.i + 1 < INODE_SECTORS
     THEN call' = [call EXCEPT !.i = @ + 1] /\ UNCHANGED pc
     ELSE call' = NoCall /\ pc' = "idle"
  /\ UNCHANGED <<dsuper, ddata, superblock, ret, crashes>>

-----------------------------------------------------------------------------
(* fs_create: one inode write *)

FsCreateMutant(name) ==
  /\ pc = "idle"
  /\ inode_alloc # -1
  /\ dinodes' = [dinodes EXCEPT ![inode_alloc] =
                   [ZeroInode EXCEPT !.name = Trunc[name], !.used = TRUE]]
  /\ Success("create", name)
  /\ UNCHANGED <<dsuper, ddata, superblock, crashes>>

FsCreate(name) ==
  /\ pc = "idle"
  /\ inode_find(name) = -1 /\ inode_alloc # -1
  /\ dinodes' = [dinodes EXCEPT ![inode_alloc] =
                   [ZeroInode EXCEPT !.name = Trunc[name], !.used = TRUE]]
  /\ Success("create", name)
  /\ UNCHANGED <<dsuper, ddata, superblock, crashes>>

FsCreateFails(name) ==
  /\ pc = "idle"
  /\ inode_find(name) # -1 \/ inode_alloc = -1
  /\ Failure("create", name)
  /\ UNCHANGED <<dsuper, dinodes, ddata, superblock, crashes>>

(* fs_write up to its loop *)
FsWrite(name, data) ==
  /\ pc = "idle"
  /\ inode_find(name) # -1 /\ BlocksNeeded(data) <= MAX_FILE_BLOCKS
  /\ pc' = "write" /\ ret' = NoRet
  /\ call' = [index |-> inode_find(name), name |-> name,
              inode |-> dinodes[inode_find(name)], data |-> data, i |-> 0]
  /\ UNCHANGED <<dsuper, dinodes, ddata, superblock, crashes>>

FsWriteFails(name, data) ==
  /\ pc = "idle"
  /\ inode_find(name) = -1 \/ BlocksNeeded(data) > MAX_FILE_BLOCKS
  /\ Failure("write", name)
  /\ UNCHANGED <<dsuper, dinodes, ddata, superblock, crashes>>

WriteBlockMutant ==
  /\ pc = "write" /\ call.i < BlocksNeeded(call.data)
  /\ block_alloc # 0
  /\ ddata' = [ddata EXCEPT ![block_alloc] = Chunk(call.data, call.i)]
  /\ call' = [call EXCEPT !.inode.blocks[call.i + 1] = block_alloc, !.i = @ + 1]
  /\ UNCHANGED <<superblock, dsuper, dinodes, pc, ret, crashes>>

(* one iteration: take a block, write one sector *)
WriteBlock ==
  /\ pc = "write" /\ call.i < BlocksNeeded(call.data)
  /\ block_alloc # 0
  /\ superblock' = [superblock EXCEPT !.free_blocks = @ - 1]
  /\ ddata' = [ddata EXCEPT ![block_alloc] = Chunk(call.data, call.i)]
  /\ call' = [call EXCEPT !.inode.blocks[call.i + 1] = block_alloc, !.i = @ + 1]
  /\ UNCHANGED <<dsuper, dinodes, pc, ret, crashes>>

(* "disk full": the blocks already counted off stay counted off *)
WriteDiskFull ==
  /\ pc = "write" /\ call.i < BlocksNeeded(call.data)
  /\ block_alloc = 0
  /\ Failure("write", call.name)
  /\ UNCHANGED <<dsuper, dinodes, ddata, superblock, crashes>>

(* after the loop: the inode goes to disk *)
WriteInode ==
  /\ pc = "write" /\ call.i = BlocksNeeded(call.data)
  /\ dinodes' = [dinodes EXCEPT ![call.index] =
                   [call.inode EXCEPT !.size = Len(call.data)]]
  /\ pc' = "super" /\ call' = NoCall
  /\ UNCHANGED <<dsuper, ddata, superblock, ret, crashes>>

(* the last step of fs_write and of fs_delete: update superblock, return 0 *)
UpdateSuperblock ==
  /\ pc = "super"
  /\ dsuper' = superblock
  /\ Success("finish", NoName)
  /\ UNCHANGED <<dinodes, ddata, superblock, crashes>>

(* fs_delete up to the inode write: one count per block entry given back *)
FsDelete(name) ==
  LET index == inode_find(name)
      entries == {j \in 1 .. MAX_FILE_BLOCKS : dinodes[index].blocks[j] # 0}
  IN  /\ pc = "idle"
      /\ index # -1
      /\ superblock' = [superblock EXCEPT !.free_blocks =
                          (@ + Cardinality(entries)) % WORD]
      /\ dinodes' = [dinodes EXCEPT ![index].blocks = NoBlocks, ![index].used = FALSE]
      /\ pc' = "super" /\ ret' = NoRet
      /\ UNCHANGED <<dsuper, ddata, call, crashes>>

FsDeleteFails(name) ==
  /\ pc = "idle"
  /\ inode_find(name) = -1
  /\ Failure("delete", name)
  /\ UNCHANGED <<dsuper, dinodes, ddata, superblock, crashes>>

(* fs_read: changes nothing on disk *)
FsRead(name, size) ==
  /\ pc = "idle"
  /\ inode_find(name) # -1
  /\ Return(Returned("read", name, "ok",
                     ReadBytes(dinodes[inode_find(name)], size), {}))
  /\ UNCHANGED <<dsuper, dinodes, ddata, superblock, crashes>>

FsReadFails(name) ==
  /\ pc = "idle"
  /\ inode_find(name) = -1
  /\ Failure("read", name)
  /\ UNCHANGED <<dsuper, dinodes, ddata, superblock, crashes>>

(* fs_list: name and size of every used inode *)
FsList ==
  /\ pc = "idle"
  /\ Return(Returned("list", NoName, "ok", <<>>,
                     {<<dinodes[i].name, dinodes[i].size>> :
                        i \in {k \in Inodes : dinodes[k].used}}))
  /\ UNCHANGED <<dsuper, dinodes, ddata, superblock, crashes>>

-----------------------------------------------------------------------------
(* The machine loses power: memory is gone, the disk stays. *)

LoseMemory ==
  /\ pc' = "off" /\ superblock' = ZeroSuper /\ call' = NoCall /\ ret' = NoRet
  /\ UNCHANGED <<dsuper, dinodes, ddata>>

PowerOff == pc = "idle" /\ LoseMemory /\ UNCHANGED crashes

Crash ==
  /\ pc \notin {"off", "idle"} /\ crashes < MaxCrashes
  /\ LoseMemory
  /\ crashes' = crashes + 1

-----------------------------------------------------------------------------
(* The disk image the Makefile makes is all zeros. *)
Init ==
  /\ dsuper = ZeroSuper
  /\ dinodes = [i \in Inodes |-> ZeroInode]
  /\ ddata = [b \in DataSectors |-> ZeroSector]
  /\ superblock = ZeroSuper
  /\ pc = "off" /\ call = NoCall /\ ret = NoRet /\ crashes = 0

Call ==
  \/ \E name \in Names :
       \/ FsCreate(name) \/ FsCreateFails(name)
       \/ FsDelete(name) \/ FsDeleteFails(name) \/ FsReadFails(name)
       \/ \E size \in ReadSizes : FsRead(name, size)
       \/ \E data \in Payloads : FsWrite(name, data) \/ FsWriteFails(name, data)
  \/ FsList

Step == \/ FormatSuper \/ FormatInodes
        \/ WriteBlock \/ WriteDiskFull \/ WriteInode \/ UpdateSuperblock

Next == FsInit \/ Call \/ Step \/ PowerOff \/ Crash

Spec == Init /\ [][Next]_vars

-----------------------------------------------------------------------------
(* Properties *)

InodeType == [name : Names \cup {NoName}, size : 0 .. WORD - 1,
              blocks : [1 .. MAX_FILE_BLOCKS -> {0} \cup DataSectors],
              used : BOOLEAN]
CallType == [index : Inodes, name : Names \cup {NoName}, inode : InodeType,
             data : Payloads \cup {<<>>}, i : Nat]
SuperType == {ZeroSuper} \cup
             [magic : {FS_MAGIC}, total_blocks : {TOTAL_BLOCKS}, free_blocks : 0 .. WORD - 1]

TypeOK ==
  /\ dsuper \in SuperType /\ superblock \in SuperType
  /\ dinodes \in [Inodes -> InodeType]
  /\ ddata \in [DataSectors -> [1 .. BLOCK_SIZE -> Nat]]
  /\ pc \in {"off", "idle", "format_super", "format_inodes", "write", "super"}
  /\ call \in CallType
  /\ crashes \in 0 .. MaxCrashes

(* No data sector belongs to two files, at any moment of any call and      *)
(* after any power loss: block_alloc never hands out a sector an inode on  *)
(* disk refers to, stale entries of a file that shrank included.           *)
NoSharedBlocks ==
  \A i, k \in Inodes :
    i # k /\ dinodes[i].used /\ dinodes[k].used =>
      BlocksOf(dinodes[i]) \cap BlocksOf(dinodes[k]) = {}

(* fs_write never overwrites a sector that a file on disk still refers to: *)
(* the old contents stay intact until the inode write replaces them, which *)
(* is what makes an interrupted write harmless.                            *)
OutOfPlace ==
  [][\A b \in DataSectors : ddata'[b] # ddata[b] => b \notin BlocksInUse]_vars

(* The blocks of a file reach to its size, so that fs_read returns all of  *)
(* it: an inode never gets to disk with a size its block list does not     *)
(* cover - but for a size within a block of 2^32, which SYS_WRITE passes   *)
(* on unchecked and for which blocks_needed wraps to 0: such a write is    *)
(* reported as successful and stores the size only.                        *)
SizeCovered ==
  \A i \in Inodes : dinodes[i].used =>
    dinodes[i].size <= Covered(dinodes[i]) \/ Wraps(dinodes[i].size)

(* Two files never have the same name: fs_create refuses a name in use.    *)
UniqueNames ==
  \A i, k \in Inodes :
    i # k /\ dinodes[i].used /\ dinodes[k].used =>
      dinodes[i].name # dinodes[k].name

(* As long as no call was cut short by a power loss, free_blocks never     *)
(* promises more blocks than there are, in memory or on disk, whatever     *)
(* sequence of writes, overwrites, failed writes, deletes and reboots.     *)
FreeNotOverstated ==
  crashes = 0 =>
    /\ pc = "idle" =>
         superblock.free_blocks + Cardinality(BlocksInUse) <= TOTAL_BLOCKS
    /\ pc \in {"idle", "off"} =>
         dsuper.free_blocks + Cardinality(BlocksInUse) <= TOTAL_BLOCKS

(* include/fs.h: "max data blocks per file", README: files of several data *)
(* blocks.  The blocks that hold a file's bytes are different sectors.     *)
FileBlocksDistinct ==
  \A i \in Inodes : dinodes[i].used =>
    \A j, k \in 1 .. ((dinodes[i].size + BLOCK_SIZE - 1) \div BLOCK_SIZE) :
      j # k => dinodes[i].blocks[j] # dinodes[i].blocks[k]

-----------------------------------------------------------------------------
(* Refinement: what the callers see is a FileStore. *)

(* the contents of every file, as a fs_read with a large buffer returns it *)
StoredFiles ==
  [n \in {dinodes[i].name : i \in {k \in Inodes : dinodes[k].used}} |->
     LET inode == dinodes[inode_find(n)] IN ReadBytes(inode, inode.size)]

(* the size of every file, as fs_list shows it *)
StoredSizes ==
  [n \in {dinodes[i].name : i \in {k \in Inodes : dinodes[k].used}} |->
     dinodes[inode_find(n)].size]

(* what a fs_read finds of the data of a fs_write: all chunks went to the  *)
(* same sector, which holds the last one (see block_alloc)                 *)
ReadBack(data) ==
  [k \in 1 .. Len(data) |->
     Chunk(data, BlocksNeeded(data) - 1)[1 + ((k - 1) % BLOCK_SIZE)]]

StoredCall ==
  CASE pc = "write" -> [op |-> "write", name |-> call.name, data |-> call.data]
    [] pc = "super" -> [op |-> "finish"]
    [] OTHER -> [op |-> "none"]

Up == pc \in {"idle", "write", "super"}
Full == Up /\ NoSpace

Store == INSTANCE FileStore WITH
  TooLong <- {data \in Payloads : BlocksNeeded(data) > MAX_FILE_BLOCKS},
  SizeOnly <- {data \in Payloads : Wraps(Len(data))},
  Kept <- [data \in Payloads |-> ReadBack(data)],
  files <- StoredFiles, sizes <- StoredSizes,
  up <- Up, full <- Full, call <- StoredCall

(* AshFS implements the abstract store: every call takes effect at one     *)
(* sector write (the inode's) or not at all, fails only for the reasons    *)
(* the store names, results and listings agree with the files, and a power *)
(* loss at any sector boundary leaves each file with its old or its new    *)
(* contents.                                                               *)
ImplementsStore == Store!Spec
=============================================================================
