------------------------------- MODULE Mkdisk -------------------------------
(***************************************************************************)
(* tools/mkdisk.c: the host tool that copies a file onto the AshFS disk    *)
(* image while the machine is off.  It has its own implementation of the   *)
(* allocation and works on the same disk as the kernel's fs.c.             *)
(***************************************************************************)
EXTENDS AshFS

CONSTANT Images    \* the contents of the files that are copied

(* file_size is a uint32_t *)
ASSUME ImagesAssumption == \A data \in Images : data \in Seq(Nat) /\ Len(data) < WORD

VARIABLE copied    \* ghost: the copy just reported successful, or NoCopy

mkvars == <<dsuper, dinodes, ddata, superblock, pc, call, ret, crashes, copied>>

NoCopy == [name |-> NoName, data |-> <<>>, fresh |-> FALSE]

-----------------------------------------------------------------------------
(* the numbers in S from the lowest up: the i-th has i - 1 below it *)
Ascending(S) ==
  [i \in 1 .. Cardinality(S) |-> CHOOSE b \in S : Cardinality({c \in S : c < b}) = i - 1]

FreeListMutant ==
  Ascending(DATA_START_SECTOR .. (DATA_START_SECTOR + dsuper.total_blocks - 1))

(* the sectors mkdisk may take, in the order it takes them: it looks at    *)
(* the inodes and at total_blocks, never at free_blocks                    *)
FreeList ==
  Ascending((DATA_START_SECTOR .. (DATA_START_SECTOR + dsuper.total_blocks - 1))
              \ BlocksInUse)

WriteChunksMutant(taken, data, n) ==
  [b \in DataSectors |->
     IF n > 0 /\ taken[1] = b THEN Chunk(data, n - 1) ELSE ddata[b]]

(* the data sectors after the first n chunks of data went to taken *)
WriteChunks(taken, data, n) ==
  [b \in DataSectors |->
     IF \E i \in 1 .. n : taken[i] = b
     THEN Chunk(data, (CHOOSE i \in 1 .. n : taken[i] = b) - 1)
     ELSE ddata[b]]

(* the tool gets past its checks: AshFS on the image, the file not too     *)
(* large, an unused inode                                                  *)
Accepts(data) ==
  /\ pc = "off"
  /\ dsuper.magic = FS_MAGIC
  /\ BlocksNeeded(data) <= MAX_FILE_BLOCKS
  /\ inode_alloc # -1

(* main: data sectors, then the inode, then the superblock, whose free     *)
(* count is lowered in uint32_t arithmetic without a look at its value     *)
Copy(name, data) ==
  LET n == BlocksNeeded(data)
  IN  /\ Accepts(data)
      /\ Len(FreeList) >= n
      /\ ddata' = WriteChunks(FreeList, data, n)
      /\ dinodes' = [dinodes EXCEPT ![inode_alloc] =
                       [name |-> Trunc[name], size |-> Len(data), used |-> TRUE,
                        blocks |-> [j \in 1 .. MAX_FILE_BLOCKS |->
                                      IF j <= n THEN FreeList[j] ELSE 0]]]
      /\ dsuper' = [dsuper EXCEPT !.free_blocks = (@ - n) % WORD]
      /\ copied' = [name |-> name, data |-> data, fresh |-> inode_find(name) = -1]
      /\ UNCHANGED <<superblock, pc, call, ret, crashes>>

(* "disk full" halfway: the sectors written so far belong to no inode *)
CopyDiskFull(name, data) ==
  /\ Accepts(data)
  /\ Len(FreeList) < BlocksNeeded(data)
  /\ ddata' = WriteChunks(FreeList, data, Len(FreeList))
  /\ copied' = NoCopy
  /\ UNCHANGED <<dsuper, dinodes, superblock, pc, call, ret, crashes>>

-----------------------------------------------------------------------------
MkInit == Init /\ copied = NoCopy

MkNext ==
  \/ Next /\ copied' = NoCopy
  \/ \E name \in Names, data \in Images : Copy(name, data) \/ CopyDiskFull(name, data)

MkSpec == MkInit /\ [][MkNext]_mkvars

-----------------------------------------------------------------------------
(* Properties *)

(* A file copied under a name the image did not have is read back whole by *)
(* the kernel, files of several blocks included - but for a file within a  *)
(* block of 2^32 bytes, for which blocks_needed wraps as it does in fs.c   *)
(* and the tool reports success having stored nothing but the size.        *)
NewCopyIsRead ==
  copied # NoCopy /\ copied.fresh /\ ~Wraps(Len(copied.data)) =>
    /\ Trunc[copied.name] \in DOMAIN StoredFiles
    /\ StoredFiles[Trunc[copied.name]] = copied.data

(* "copies a file onto an AshFS disk image" (tools/mkdisk.c): after the    *)
(* tool reports success the file of that name has the copied contents.     *)
CopyIsRead ==
  copied # NoCopy => StoredFiles[Trunc[copied.name]] = copied.data

(* The tool and the kernel never write a sector that a file refers to,     *)
(* although each has its own allocator.                                    *)
ToolOutOfPlace ==
  [][\A b \in DataSectors : ddata'[b] # ddata[b] => b \notin BlocksInUse]_mkvars
=============================================================================
