----------------------------- MODULE ImageProofs -----------------------------
(***************************************************************************)
(* Proofs about the two programs besides the shell that touch the files:   *)
(* kernel_main booting with a live keyboard (Boot) and the host tool that  *)
(* copies files onto the disk image (Mkdisk).  They hold for every size of *)
(* disk, any commands between the statements of fs_init, any files copied  *)
(* and any number of power losses.                                         *)
(***************************************************************************)
EXTENDS Boot, Mkdisk, AshFSProofs


(* a superblock has the three fields, and the magic number only together   *)
(* with the size of the disk                                               *)
Whole(s) ==
  /\ s = [magic |-> s.magic, total_blocks |-> s.total_blocks, free_blocks |-> s.free_blocks]
  /\ s.total_blocks \in {0, TOTAL_BLOCKS}
  /\ s.magic = FS_MAGIC => s.total_blocks = TOTAL_BLOCKS

(* where kernel_main may be while fs_init is not done, and where it is *)
InitPcs == {"off", "format_super", "format_inodes"}
MainPc == IF outer.nested THEN outer.pc ELSE pc

(* Each of the three copies of the superblock - on disk, in memory and in  *)
(* fs_init's buffer - is whole, also when an early command has written the *)
(* empty one over a formatted one; and fs_init once past its test has a    *)
(* formatted one in memory, which no nested command takes away.            *)
BootInv ==
  /\ Whole(dsuper) /\ Whole(superblock) /\ Whole(sector)
  /\ stage \in {"prepared", "formatting", "ready"} => superblock.magic = FS_MAGIC

(* What is saved of kernel_main is never in the middle of a command, so    *)
(* that the files are in order when it goes on.                            *)
NestInv ==
  /\ outer \in [nested : BOOLEAN, ran : BOOLEAN, pc : InitPcs, call : CallType]
  /\ ~outer.nested /\ stage \in Booting \cup {"off"} => pc \in InitPcs
  /\ outer.nested => stage \in Booting

(* As long as only ls, cat and run came before fs_init was done, only a    *)
(* disk without files is formatted.                                        *)
CalmInv ==
  ~early =>
    /\ outer.nested => pc = "idle"
    /\ stage = "read" => sector = dsuper
    /\ stage = "copied" => superblock = dsuper
    /\ stage = "prepared" => dsuper.magic # FS_MAGIC
    /\ stage = "formatting" => MainPc # "format_super" \/ sector.magic = FS_MAGIC
    /\ stage # "formatting" => MainPc \notin {"format_super", "format_inodes"}
    /\ stage \in {"formatting", "ready"} /\ MainPc # "format_super" => dsuper.magic = FS_MAGIC
    /\ dsuper.magic # FS_MAGIC \/ MainPc \in {"format_super", "format_inodes"} =>
         \A i \in Inodes : ~dinodes[i].used

BootFilesInv == BootInv /\ FileInv /\ NestInv /\ CalmInv

-----------------------------------------------------------------------------
(* Superblocks *)

(* counting blocks on or off leaves the rest of a superblock alone *)
LEMMA CountingKeepsWhole ==
  ASSUME NEW s, NEW n, Whole(s)
  PROVE  LET t == [s EXCEPT !.free_blocks = n]
         IN  Whole(t) /\ t.magic = s.magic
<1>1. [s EXCEPT !.free_blocks = n]
        = [magic |-> s.magic, total_blocks |-> s.total_blocks, free_blocks |-> n]
  BY DEF Whole
<1>2. QED
  BY <1>1 DEF Whole

LEMMA FixedSupers == Whole(ZeroSuper) /\ Whole(NewSuper) /\ NewSuper.magic = FS_MAGIC
BY DEF Whole, ZeroSuper, NewSuper, FS_MAGIC

(* a command of the file system saves the superblock, or counts blocks *)
LEMMA CommandSuper ==
  ASSUME BootInv, Call \/ WriteBlock \/ WriteDiskFull \/ WriteInode \/ UpdateSuperblock
  PROVE  /\ dsuper' \in {dsuper, superblock}
         /\ Whole(superblock') /\ superblock'.magic = superblock.magic
<1>1. CASE UNCHANGED superblock
  BY <1>1 DEF BootInv, Call, FsCreate, FsCreateFails, FsDelete, FsDeleteFails, FsRead,
     FsReadFails, FsWrite, FsWriteFails, FsList, WriteBlock, WriteDiskFull, WriteInode,
     UpdateSuperblock
<1>2. CASE WriteBlock
  BY <1>2, CountingKeepsWhole DEF BootInv, WriteBlock
<1>3. ASSUME NEW name \in Names, FsDelete(name)
      PROVE  /\ dsuper' = dsuper
             /\ Whole(superblock') /\ superblock'.magic = superblock.magic
  BY <1>3, CountingKeepsWhole DEF BootInv, FsDelete
<1>4. QED
  BY <1>1, <1>2, <1>3 DEF Call, FsCreate, FsCreateFails, FsDeleteFails, FsRead,
     FsReadFails, FsWrite, FsWriteFails, FsList, WriteDiskFull, WriteInode, UpdateSuperblock

LEMMA BootInitInv == BootInit => BootInv
BY FixedSupers DEF BootInit, Init, BootInv

LEMMA BootStepInv == BootInv /\ [BootNext]_allVars => BootInv'
<1>. SUFFICES ASSUME BootInv, [BootNext]_allVars PROVE BootInv'
  OBVIOUS
<1>1. CASE PowerOn
  BY <1>1 DEF PowerOn, BootInv, vars
<1>2. CASE FsInitReads
  BY <1>2 DEF FsInitReads, Goes, BootInv, vars
<1>3. CASE FsInitCopies \/ FsInitMounts \/ FsInitPrepares
  BY <1>3, FixedSupers DEF FsInitCopies, FsInitMounts, FsInitPrepares, Goes, disk, BootInv
<1>4. CASE FsInitFills \/ FsInitWrites \/ FsInitClears
  <2>1. /\ dsuper' \in {dsuper, sector} /\ sector' \in {sector, superblock, ZeroSuper}
        /\ superblock' = superblock /\ stage \in {"prepared", "formatting"}
    BY <1>4 DEF FsInitFills, FsInitWrites, FsInitClears, FormatInodes, Goes, disk
  <2>2. QED
    BY <2>1, FixedSupers DEF BootInv
<1>5. CASE Interrupt \/ ReturnFromInterrupt \/ InterruptTears \/ RunLeaves \/ Torn
  <2>1. UNCHANGED <<dsuper, superblock, sector>> /\ stage' \in {stage, "torn", "user"}
    BY <1>5 DEF Interrupt, ReturnFromInterrupt, InterruptTears, RunLeaves, Torn, disk, vars,
       allVars, bootVars
  <2>2. QED
    BY <2>1 DEF BootInv
<1>6. CASE Run \/ CommandStep
  <2>1. /\ dsuper' \in {dsuper, superblock}
        /\ Whole(superblock') /\ superblock'.magic = superblock.magic
    BY <1>6, CommandSuper DEF Run, CommandStep
  <2>2. UNCHANGED <<stage, sector>>
    BY <1>6 DEF Run, CommandStep, bootVars
  <2>3. QED
    BY <2>1, <2>2 DEF BootInv
<1>7. CASE PowerGoes
  BY <1>7, FixedSupers DEF PowerGoes, LoseMemory, BootInv
<1>8. CASE UNCHANGED allVars
  BY <1>8 DEF allVars, vars, bootVars, BootInv
<1>9. QED
  BY <1>1, <1>2, <1>3, <1>4, <1>5, <1>6, <1>7, <1>8 DEF BootNext, KernelMain

(* Whatever commands run between the statements of fs_init, and however    *)
(* often the power goes, the prompt comes with a mounted disk.             *)
THEOREM BootMounts == BootSpec => []MountedWhenReady
<1>1. BootInv => MountedWhenReady
  BY DEF BootInv, Whole, MountedWhenReady
<1>2. QED
  BY <1>1, BootInitInv, BootStepInv, PTL DEF BootSpec

-----------------------------------------------------------------------------
(* Files *)

LEMMA BootFilesInit == BootInit => BootFilesInv
<1>. SUFFICES ASSUME BootInit PROVE BootFilesInv
  OBVIOUS
<1>1. BootInv /\ FileInv
  BY BootInitInv, InitFileInv DEF BootInit
<1>2. NestInv
  BY ZeroTypes DEF BootInit, Init, NotNested, NestInv, InitPcs
<1>3. CalmInv
  BY DEF BootInit, Init, NotNested, CalmInv, MainPc, ZeroInode
<1>4. QED
  BY <1>1, <1>2, <1>3 DEF BootFilesInv

(* the steps that touch no file, and leave kernel_main or a command with   *)
(* locals of its own                                                       *)
LEMMA QuietSteps ==
  ASSUME BootFilesInv,
         \/ PowerOn \/ FsInitReads \/ FsInitCopies \/ FsInitMounts \/ FsInitPrepares
         \/ FsInitFills \/ FsInitWrites \/ Interrupt \/ InterruptTears \/ Torn
         \/ RunLeaves \/ ReturnFromInterrupt \/ PowerGoes \/ UNCHANGED allVars
  PROVE  /\ UNCHANGED <<dinodes, ddata>>
         /\ UNCHANGED <<pc, call>> \/ (call' \in CallType /\ pc' # "write")
<1>1. CASE \/ PowerOn \/ FsInitReads \/ InterruptTears \/ Torn \/ RunLeaves \/ FsInitCopies
           \/ FsInitPrepares \/ UNCHANGED allVars
  BY <1>1 DEF PowerOn, FsInitReads, InterruptTears, Torn, RunLeaves, FsInitCopies,
     FsInitPrepares, allVars, vars, disk
<1>2. CASE FsInitMounts \/ FsInitFills \/ FsInitWrites \/ Interrupt \/ PowerGoes
  BY <1>2, ZeroTypes DEF FsInitMounts, FsInitFills, FsInitWrites, Interrupt, PowerGoes,
     LoseMemory, disk, BootFilesInv, FileInv
<1>3. CASE ReturnFromInterrupt
  BY <1>3 DEF ReturnFromInterrupt, disk, BootFilesInv, NestInv, InitPcs
<1>4. QED
  BY <1>1, <1>2, <1>3

(* the files stay in order: kernel_main and the commands it is interrupted *)
(* by each find the locals of their own call                               *)
LEMMA FilesNext ==
  ASSUME BootFilesInv, [BootNext]_allVars
  PROVE  FileInv'
<1>1. FileInv /\ SizeKnown
  BY DEF BootFilesInv, BootInv, Whole, SizeKnown
<1>2. CASE Run \/ CommandStep
  BY <1>1, <1>2, CommandFileInv DEF Run, CommandStep
<1>3. CASE FsInitClears
  BY <1>1, <1>3, FormatFileInv DEF FsInitClears
<1>4. CASE ~(Run \/ CommandStep \/ FsInitClears)
  <2>1. /\ UNCHANGED <<dinodes, ddata>>
        /\ UNCHANGED <<pc, call>> \/ (call' \in CallType /\ pc' # "write")
    BY <1>4, QuietSteps DEF BootNext, KernelMain
  <2>2. QED
    BY <1>1, <2>1, QuietFileInv, SameFileInv
<1>5. QED
  BY <1>2, <1>3, <1>4

(* the saved context *)
LEMMA NestNext ==
  ASSUME BootFilesInv, [BootNext]_allVars
  PROVE  NestInv'
<1>. DEFINE O == [nested : BOOLEAN, ran : BOOLEAN, pc : InitPcs, call : CallType]
<1>1. /\ outer \in O /\ call \in CallType
      /\ ~outer.nested /\ stage \in Booting \cup {"off"} => pc \in InitPcs
      /\ outer.nested => stage \in Booting
  BY DEF BootFilesInv, NestInv, FileInv
<1>2. NotNested \in O /\ ~NotNested.nested
  BY ZeroTypes DEF NotNested, InitPcs
<1>3. CASE UNCHANGED allVars \/ Torn
  BY <1>1, <1>3 DEF Torn, allVars, bootVars, vars, NestInv
<1>4. CASE \/ PowerOn \/ FsInitReads \/ FsInitCopies \/ FsInitMounts \/ FsInitPrepares
           \/ FsInitFills \/ FsInitWrites \/ FsInitClears
  <2>1. /\ outer' = outer /\ stage \in Booting \cup {"off"} /\ stage' \in Booting \cup {"ready"}
        /\ ~outer.nested \/ stage = "off"
        /\ stage' = "ready" \/ pc' = pc \/ pc' \in InitPcs
    BY <1>4 DEF PowerOn, FsInitReads, FsInitCopies, FsInitMounts, FsInitPrepares, FsInitFills,
       FsInitWrites, FsInitClears, FormatInodes, Goes, Booting, InitPcs, vars
  <2>2. ~outer.nested
    BY <1>1, <2>1 DEF Booting
  <2>3. stage' \in Booting \cup {"off"} => pc' \in InitPcs
    BY <1>1, <2>1, <2>2 DEF Booting
  <2>4. QED
    BY <1>1, <2>1, <2>2, <2>3 DEF NestInv
<1>5. CASE Interrupt
  <2>1. outer' = [nested |-> TRUE, ran |-> FALSE, pc |-> pc, call |-> call]
        /\ ~outer.nested /\ stage \in Booting /\ stage' = stage
    BY <1>5 DEF Interrupt
  <2>2. QED
    BY <1>1, <2>1 DEF NestInv
<1>6. CASE Run \/ CommandStep
  <2>1. /\ outer' \in {outer, [outer EXCEPT !.ran = outer.ran \/ outer.nested]}
        /\ stage = "ready" \/ outer.nested
        /\ stage' = stage
    BY <1>6 DEF Run, CommandStep, bootVars
  <2>2. outer' \in O /\ outer'.nested = outer.nested
    <3>1. (outer.ran \/ outer.nested) \in BOOLEAN
      BY <1>1
    <3>2. QED
      BY <1>1, <2>1, <3>1
  <2>3. stage = "ready" => stage \notin Booting \cup {"off"}
    BY DEF Booting
  <2>4. QED
    BY <1>1, <2>1, <2>2, <2>3 DEF NestInv
<1>7. CASE ReturnFromInterrupt
  <2>1. outer' = NotNested /\ pc' = outer.pc
    BY <1>7 DEF ReturnFromInterrupt
  <2>2. QED
    BY <1>1, <1>2, <2>1 DEF NestInv
<1>8. CASE PowerGoes
  <2>1. outer' = NotNested /\ pc' = "off"
    BY <1>8 DEF PowerGoes, LoseMemory
  <2>2. QED
    BY <1>2, <2>1 DEF NestInv, InitPcs
<1>9. CASE InterruptTears \/ RunLeaves
  <2>1. stage' \in {"torn", "user"} /\ (outer' = NotNested \/ (outer' = outer /\ ~outer.nested))
    BY <1>9 DEF InterruptTears, RunLeaves
  <2>2. QED
    BY <1>1, <1>2, <2>1 DEF NestInv, Booting
<1>10. QED
  BY <1>3, <1>4, <1>5, <1>6, <1>7, <1>8, <1>9 DEF BootNext, KernelMain

-----------------------------------------------------------------------------
(* A boot into which nothing was typed that changes a file *)

(* such a command, nested, changes nothing at all *)
LEMMA CalmCommand ==
  ASSUME Run, outer.nested, ~early'
  PROVE  /\ UNCHANGED <<dsuper, dinodes, ddata, superblock>> /\ pc' = "idle"
         /\ pc = "idle"
<1>1. pc' = "idle" /\ dinodes' = dinodes
  BY DEF Run
<1>2. ASSUME NEW name \in Names PROVE ~FsDelete(name)
  BY <1>1 DEF FsDelete
<1>3. ASSUME NEW name \in Names, NEW data \in Payloads PROVE ~FsWrite(name, data)
  BY <1>1 DEF FsWrite
<1>4. QED
  BY <1>1, <1>2, <1>3 DEF Run, Call, FsCreate, FsCreateFails, FsDeleteFails, FsRead,
     FsReadFails, FsWriteFails, FsList

LEMMA CalmNext ==
  ASSUME BootFilesInv, [BootNext]_allVars
  PROVE  CalmInv'
<1>. SUFFICES ASSUME ~early' PROVE CalmInv'
  BY DEF CalmInv
<1>. DEFINE Empty == \A i \in Inodes : ~dinodes[i].used
<1>1. ~early
  BY DEF BootNext, KernelMain, PowerOn, FsInitReads, FsInitCopies, FsInitMounts,
     FsInitPrepares, FsInitFills, FsInitWrites, FsInitClears, Interrupt, InterruptTears, Torn,
     Run, CommandStep, RunLeaves, ReturnFromInterrupt, PowerGoes, allVars, bootVars
<1>2. /\ outer.nested => pc = "idle"
      /\ stage = "read" => sector = dsuper
      /\ stage = "copied" => superblock = dsuper
      /\ stage = "prepared" => dsuper.magic # FS_MAGIC
      /\ stage = "formatting" => MainPc # "format_super" \/ sector.magic = FS_MAGIC
      /\ stage # "formatting" => MainPc \notin {"format_super", "format_inodes"}
      /\ stage \in {"formatting", "ready"} /\ MainPc # "format_super" => dsuper.magic = FS_MAGIC
      /\ dsuper.magic # FS_MAGIC \/ MainPc \in {"format_super", "format_inodes"} => Empty
      /\ outer.nested => stage \in Booting
      /\ ~outer.nested /\ stage \in Booting \cup {"off"} => pc \in InitPcs
      /\ stage \in {"prepared", "formatting", "ready"} => superblock.magic = FS_MAGIC
  BY <1>1 DEF BootFilesInv, BootInv, CalmInv, NestInv
<1>. HIDE DEF Empty
<1>3. CASE UNCHANGED allVars \/ Torn
  <2>1. UNCHANGED <<outer, pc, dsuper, dinodes, stage, sector, superblock>>
    BY <1>3 DEF Torn, allVars, bootVars, vars
  <2>2. QED
    BY <1>2, <2>1 DEF CalmInv, MainPc, Empty
<1>4. CASE PowerOn \/ FsInitReads
  <2>1. /\ UNCHANGED <<outer, pc, dsuper, dinodes, superblock>> /\ stage \in {"off", "starting"}
        /\ stage' = "starting" \/ (stage' = "read" /\ sector' = dsuper)
    BY <1>4 DEF PowerOn, FsInitReads, Goes, vars
  <2>2. QED
    BY <1>2, <2>1 DEF CalmInv, MainPc, Empty
<1>5. CASE FsInitCopies
  <2>1. /\ UNCHANGED <<outer, pc, dsuper, dinodes>> /\ stage = "read" /\ stage' = "copied"
        /\ superblock' = sector
    BY <1>5 DEF FsInitCopies, Goes, disk
  <2>2. QED
    BY <1>2, <2>1 DEF CalmInv, MainPc, Empty
<1>6. CASE FsInitMounts
  <2>1. /\ UNCHANGED <<outer, dsuper, dinodes>> /\ stage = "copied" /\ stage' = "ready"
        /\ pc' = "idle" /\ ~outer.nested /\ superblock.magic = FS_MAGIC
    BY <1>6 DEF FsInitMounts, Goes, disk
  <2>2. QED
    BY <1>2, <2>1 DEF CalmInv, MainPc, Empty
<1>7. CASE FsInitPrepares
  <2>1. /\ UNCHANGED <<outer, pc, dsuper, dinodes>> /\ stage = "copied" /\ stage' = "prepared"
        /\ superblock.magic # FS_MAGIC
    BY <1>7 DEF FsInitPrepares, Goes, disk
  <2>2. QED
    BY <1>2, <2>1 DEF CalmInv, MainPc, Empty
<1>8. CASE FsInitFills
  <2>1. /\ UNCHANGED <<outer, dsuper, dinodes>> /\ stage = "prepared" /\ stage' = "formatting"
        /\ ~outer.nested /\ sector' = superblock /\ pc' = "format_super"
    BY <1>8 DEF FsInitFills, Goes, disk
  <2>2. QED
    BY <1>2, <2>1 DEF CalmInv, MainPc, Empty
<1>9. CASE FsInitWrites
  <2>1. /\ UNCHANGED <<outer, dinodes>> /\ stage = "formatting" /\ stage' = "formatting"
        /\ ~outer.nested /\ dsuper' = sector /\ pc = "format_super" /\ pc' = "format_inodes"
    BY <1>9 DEF FsInitWrites, Goes
  <2>2. QED
    BY <1>2, <2>1 DEF CalmInv, MainPc, Empty
<1>10. CASE FsInitClears
  <2>1. /\ UNCHANGED <<outer, dsuper>> /\ pc = "format_inodes" /\ stage = "formatting"
        /\ ~outer.nested
        /\ \/ pc' = "format_inodes" /\ stage' = "formatting"
           \/ pc' = "idle" /\ stage' = "ready"
    BY <1>10 DEF FsInitClears, FormatInodes, Goes
  <2>2. Empty'
    BY <1>2, <1>10, <2>1 DEF FsInitClears, FormatInodes, ZeroInode, Empty, MainPc
  <2>3. QED
    BY <1>2, <2>1, <2>2 DEF CalmInv, MainPc, Empty
<1>11. CASE Interrupt
  <2>1. /\ UNCHANGED <<dsuper, dinodes, superblock, sector, stage>> /\ ~outer.nested
        /\ outer'.nested /\ outer'.pc = pc /\ pc' = "idle"
    BY <1>11 DEF Interrupt, disk
  <2>2. MainPc' = MainPc
    BY <2>1 DEF MainPc
  <2>3. QED
    BY <1>2, <2>1, <2>2 DEF CalmInv, Empty
<1>12. CASE ReturnFromInterrupt
  <2>1. /\ UNCHANGED <<dsuper, dinodes, superblock, sector, stage>> /\ outer.nested
        /\ outer' = NotNested /\ pc' = outer.pc
    BY <1>12 DEF ReturnFromInterrupt, disk
  <2>2. MainPc' = MainPc /\ ~outer'.nested
    BY <2>1 DEF MainPc, NotNested
  <2>3. QED
    BY <1>2, <2>1, <2>2 DEF CalmInv, Empty
<1>13. CASE RunLeaves
  <2>1. /\ UNCHANGED <<dsuper, dinodes, pc>> /\ outer.nested
        /\ outer' = NotNested /\ stage' = "user"
    BY <1>13 DEF RunLeaves, vars
  <2>2. MainPc' = "idle" /\ ~outer'.nested
    BY <1>2, <2>1 DEF MainPc, NotNested
  <2>3. QED
    BY <1>2, <2>1, <2>2 DEF CalmInv, Empty
<1>14. CASE InterruptTears
  BY <1>14 DEF InterruptTears
<1>15. CASE PowerGoes
  <2>1. /\ outer' = NotNested /\ pc' = "off" /\ stage' = "off"
        /\ UNCHANGED <<dsuper, dinodes>>
    BY <1>15 DEF PowerGoes, LoseMemory
  <2>2. MainPc' = "off" /\ ~outer'.nested
    BY <2>1 DEF MainPc, NotNested
  <2>3. QED
    BY <1>2, <2>1, <2>2 DEF CalmInv, Empty
<1>16. CASE (Run \/ CommandStep) /\ outer.nested
  <2>1. ~CommandStep
    BY <1>2, <1>16 DEF CommandStep, WriteBlock, WriteDiskFull, WriteInode, UpdateSuperblock
  <2>2. UNCHANGED <<dsuper, dinodes, superblock>> /\ pc' = "idle"
    BY <1>16, <2>1, CalmCommand
  <2>3. UNCHANGED <<stage, sector>> /\ outer'.nested = outer.nested /\ outer'.pc = outer.pc
    BY <1>16, <2>1 DEF Run, BootFilesInv, NestInv
  <2>4. MainPc' = MainPc /\ outer'.nested
    BY <1>16, <2>3 DEF MainPc
  <2>5. QED
    BY <1>2, <2>2, <2>3, <2>4 DEF CalmInv, Empty
<1>17. CASE (Run \/ CommandStep) /\ ~outer.nested
  <2>1. stage = "ready" /\ stage' = "ready"
    BY <1>17 DEF Run, CommandStep, bootVars
  <2>2. Call \/ WriteBlock \/ WriteDiskFull \/ WriteInode \/ UpdateSuperblock
    BY <1>17 DEF Run, CommandStep
  <2>3. dsuper' \in {dsuper, superblock} /\ superblock.magic = FS_MAGIC
    BY <1>2, <2>1, <2>2, CommandSuper DEF BootFilesInv
  <2>4. MainPc # "format_super" /\ pc' \notin {"format_super", "format_inodes"}
    BY <1>2, <2>1, <2>2 DEF Call, FsCreate, FsCreateFails, FsDelete, FsDeleteFails,
       FsReadFails, FsRead, FsWrite, FsWriteFails, FsList, WriteBlock, WriteDiskFull,
       WriteInode, UpdateSuperblock, Success, Failure, Return, MainPc
  <2>5. ~outer'.nested
    BY <1>17 DEF Run, CommandStep, bootVars, BootFilesInv, NestInv
  <2>6. dsuper'.magic = FS_MAGIC
    BY <1>2, <2>1, <2>3, <2>4
  <2>7. QED
    BY <2>1, <2>4, <2>5, <2>6 DEF CalmInv, MainPc
<1>18. QED
  BY <1>3, <1>4, <1>5, <1>6, <1>7, <1>8, <1>9, <1>10, <1>11, <1>12, <1>13, <1>14, <1>15,
     <1>16, <1>17 DEF BootNext, KernelMain

(* The strengthened invariant holds whatever commands run between the      *)
(* statements of fs_init.                                                  *)
THEOREM BootInvariant == BootSpec => []BootFilesInv
<1>1. BootFilesInv /\ [BootNext]_allVars => BootFilesInv'
  BY BootStepInv, FilesNext, NestNext, CalmNext DEF BootFilesInv
<1>2. QED
  BY <1>1, BootFilesInit, PTL DEF BootSpec

(* No data sector ever belongs to two files, also when commands run        *)
(* between the statements of fs_init, with the superblock in memory still  *)
(* empty or the inode table half cleared.                                  *)
THEOREM BootFilesApart == BootSpec => []FilesApart
<1>1. BootFilesInv => FilesApart
  BY DEF BootFilesInv, FileInv, FilesApart
<1>2. QED
  BY <1>1, BootInvariant, PTL

(* Files survive reboots: as long as no command that changes files has run *)
(* before fs_init was done, booting, reading early and losing power leave  *)
(* every file as it was.                                                   *)
THEOREM BootKeepsAll == BootSpec => BootKeepsFiles
<1>1. BootFilesInv /\ [BootNext]_allVars =>
        [~early' /\ stage # "ready" => StoredFiles' = StoredFiles]_allVars
  <2>. SUFFICES ASSUME BootFilesInv, BootNext, ~early', stage # "ready"
                PROVE  StoredFiles' = StoredFiles
    OBVIOUS
  <2>1. ~early
    BY DEF BootNext, KernelMain, PowerOn, FsInitReads, FsInitCopies, FsInitMounts,
       FsInitPrepares, FsInitFills, FsInitWrites, FsInitClears, Interrupt, InterruptTears,
       Torn, Run, CommandStep, RunLeaves, ReturnFromInterrupt, PowerGoes, allVars, bootVars
  <2>2. /\ outer.nested => pc = "idle"
        /\ MainPc \in {"format_super", "format_inodes"} => \A i \in Inodes : ~dinodes[i].used
    BY <2>1 DEF BootFilesInv, CalmInv
  <2>3. CASE FsInitClears
    <3>0. MainPc = "format_inodes"
      BY <2>3 DEF FsInitClears, FormatInodes, Goes, MainPc
    <3>1. \A i \in Inodes : ~dinodes[i].used /\ ~dinodes'[i].used
      BY <2>2, <2>3, <3>0 DEF FsInitClears, FormatInodes, ZeroInode
    <3>2. NamesIn(dinodes) = {} /\ NamesIn(dinodes') = {}
      BY <3>1 DEF NamesIn
    <3>3. FilesOf(dinodes, ddata) = FilesOf(dinodes', ddata')
      BY <3>2 DEF FilesOf
    <3>4. QED
      BY <3>3, StoredFilesAre
  <2>4. CASE Run \/ CommandStep
    <3>1. outer.nested
      BY <2>4 DEF Run, CommandStep
    <3>2. ~CommandStep
      BY <2>2, <3>1 DEF CommandStep, WriteBlock, WriteDiskFull, WriteInode, UpdateSuperblock
    <3>3. QED
      BY <2>4, <3>1, <3>2, CalmCommand, QuietStored
  <2>5. CASE ~(Run \/ CommandStep \/ FsInitClears)
    BY <2>5, QuietSteps, QuietStored DEF BootNext, KernelMain
  <2>6. QED
    BY <2>3, <2>4, <2>5
<1>2. QED
  BY <1>1, BootInvariant, PTL DEF BootSpec, BootKeepsFiles


-----------------------------------------------------------------------------
(* The host tool: its allocation *)

(* how many elements of S are below b *)
Below(S, b) == {c \in S : c < b}

(* the elements of a finite set in ascending order, each of them once *)
LEMMA AscendingFacts ==
  ASSUME NEW S \in SUBSET Nat, IsFiniteSet(S)
  PROVE  /\ Cardinality(S) \in Nat
         /\ Ascending(S) \in Seq(S) /\ Len(Ascending(S)) = Cardinality(S)
         /\ \A i, j \in 1 .. Cardinality(S) : Ascending(S)[i] = Ascending(S)[j] => i = j
<1>. DEFINE rank == [b \in S |-> Cardinality(Below(S, b))]
<1>1. PICK n \in Nat : n = Cardinality(S)
  BY FS_CardinalityType
<1>2. ASSUME NEW b \in S
      PROVE  /\ IsFiniteSet(Below(S, b)) /\ Cardinality(Below(S, b)) \in 0 .. n - 1
  <2>1. Below(S, b) \in SUBSET S /\ b \notin Below(S, b)
    BY DEF Below
  <2>2. IsFiniteSet(Below(S, b)) /\ Cardinality(Below(S, b)) <= n /\ Cardinality(Below(S, b)) # n
    BY <1>1, <2>1, FS_Subset
  <2>3. Cardinality(Below(S, b)) \in Nat
    BY <2>2, FS_CardinalityType
  <2>4. QED
    BY <2>2, <2>3
<1>3. ASSUME NEW b \in S, NEW c \in S, b < c
      PROVE  Cardinality(Below(S, b)) # Cardinality(Below(S, c))
  <2>1. Below(S, b) \in SUBSET Below(S, c) /\ b \in Below(S, c) /\ b \notin Below(S, b)
    <3>1. b \in Nat /\ c \in Nat /\ \A x \in S : x \in Nat /\ (x < b => x < c)
      BY <1>3
    <3>2. ~(b < b)
      BY <3>1
    <3>3. QED
      BY <1>3, <3>1, <3>2 DEF Below
  <2>2. IsFiniteSet(Below(S, c))
    BY <1>2
  <2>3. QED
    BY <2>1, <2>2, FS_Subset
<1>4. rank \in Injection(S, 0 .. n - 1)
  <2>1. rank \in [S -> 0 .. n - 1]
    BY <1>2
  <2>2. ASSUME NEW b \in S, NEW c \in S, rank[b] = rank[c] PROVE b = c
    <3>1. ~(b < c) /\ ~(c < b)
      BY <1>3, <2>2
    <3>2. QED
      BY <3>1
  <2>3. QED
    BY <2>1, <2>2 DEF Injection, IsInjective
<1>5. \A i \in 1 .. n : \E b \in S : Cardinality(Below(S, b)) = i - 1
  <2>1. IsFiniteSet(0 .. n - 1) /\ Cardinality(0 .. n - 1) = n
    <3>1. 0 \in Int /\ n - 1 \in Int
      OBVIOUS
    <3>2. QED
      BY <3>1, FS_Interval
  <2>2. rank \in Surjection(S, 0 .. n - 1)
    BY ONLY <1>1, <1>4, <2>1, FS_Injection
  <2>3. \A i \in 0 .. n - 1 : \E b \in S : rank[b] = i
    BY <2>2 DEF Surjection
  <2>4. QED
    BY <2>3
<1>6. Ascending(S) = [i \in 1 .. n |-> CHOOSE b \in S : Cardinality(Below(S, b)) = i - 1]
  BY <1>1 DEF Ascending, Below
<1>7. ASSUME NEW i \in 1 .. n
      PROVE  Ascending(S)[i] \in S /\ Cardinality(Below(S, Ascending(S)[i])) = i - 1
  BY <1>5, <1>6
<1>8. Ascending(S) \in [1 .. n -> S]
  BY <1>6, <1>7
<1>9. Ascending(S) \in Seq(S) /\ Len(Ascending(S)) = n
  BY <1>8
<1>10. ASSUME NEW i \in 1 .. n, NEW j \in 1 .. n, Ascending(S)[i] = Ascending(S)[j]
       PROVE  i = j
  BY <1>7, <1>10
<1>11. QED
  BY <1>1, <1>9, <1>10

(* what is on the tool's list: data sectors no inode refers to, once each *)
Takes(list, n) ==
  /\ n \in Nat
  /\ \A i \in 1 .. n : list[i] \in DataSectors /\ list[i] \notin BlocksInUse
  /\ \A i, j \in 1 .. n : list[i] = list[j] => i = j

LEMMA FreeListFacts ==
  ASSUME FSInv, dsuper.magic = FS_MAGIC
  PROVE  /\ Len(FreeList) \in Nat
         /\ \A n \in Nat : n <= Len(FreeList) => Takes(FreeList, n)
<1>. DEFINE S == (DATA_START_SECTOR .. (DATA_START_SECTOR + dsuper.total_blocks - 1))
                   \ BlocksInUse
<1>1. dsuper.total_blocks = TOTAL_BLOCKS
  BY DEF FSInv, TypeOK, SuperType, ZeroSuper, FS_MAGIC
<1>2. S \in SUBSET DataSectors /\ S \cap BlocksInUse = {}
  BY <1>1 DEF DataSectors
<1>3. IsFiniteSet(DataSectors) /\ DataSectors \in SUBSET Nat
  BY DiskAssumption, FS_Interval DEF DataSectors
<1>4. IsFiniteSet(S) /\ S \in SUBSET Nat
  BY <1>2, <1>3, FS_Subset
<1>5. FreeList = Ascending(S)
  BY DEF FreeList
<1>. HIDE DEF S
<1>6. /\ Cardinality(S) \in Nat
      /\ FreeList \in Seq(S) /\ Len(FreeList) = Cardinality(S)
      /\ \A i, j \in 1 .. Cardinality(S) : FreeList[i] = FreeList[j] => i = j
  BY <1>4, <1>5, AscendingFacts
<1>7. \A i \in 1 .. Len(FreeList) : FreeList[i] \in S
  BY <1>6
<1>8. ASSUME NEW n \in Nat, n <= Len(FreeList) PROVE Takes(FreeList, n)
  <2>1. \A i \in 1 .. n : i \in 1 .. Len(FreeList)
    BY <1>6, <1>8
  <2>2. QED
    BY <1>2, <1>6, <1>7, <2>1 DEF Takes
<1>9. QED
  BY <1>6, <1>8

(* the data sectors after the chunks were written *)
LEMMA WriteChunksFacts ==
  ASSUME FSInv, NEW data \in Seq(Nat), NEW list, NEW n, Takes(list, n),
         ddata' = WriteChunks(list, data, n)
  PROVE  /\ ddata' \in [DataSectors -> [1 .. BLOCK_SIZE -> Nat]]
         /\ \A j \in 1 .. n : ddata'[list[j]] = Chunk(data, j - 1)
         /\ \A b \in DataSectors : ddata'[b] # ddata[b] => b \notin BlocksInUse
<1>1. ASSUME NEW b \in DataSectors, NEW i \in 1 .. n, list[i] = b
      PROVE  ddata'[b] = Chunk(data, i - 1) /\ b \notin BlocksInUse
  <2>1. (CHOOSE k \in 1 .. n : list[k] = b) = i
    BY <1>1 DEF Takes
  <2>2. QED
    BY <1>1, <2>1 DEF WriteChunks, Takes
<1>2. ASSUME NEW b \in DataSectors, ~\E i \in 1 .. n : list[i] = b
      PROVE  ddata'[b] = ddata[b]
  BY <1>2 DEF WriteChunks
<1>3. ASSUME NEW b \in DataSectors PROVE ddata'[b] \in [1 .. BLOCK_SIZE -> Nat]
  <2>1. ASSUME NEW i \in 1 .. n, list[i] = b PROVE ddata'[b] \in [1 .. BLOCK_SIZE -> Nat]
    <3>1. i - 1 \in Nat
      BY DEF Takes
    <3>2. ddata'[b] = Chunk(data, i - 1)
      BY <1>1, <2>1
    <3>3. Chunk(data, i - 1) \in [1 .. BLOCK_SIZE -> Nat]
      BY <3>1, ChunkType
    <3>4. QED
      BY <3>2, <3>3
  <2>2. QED
    <3>1. ddata[b] \in [1 .. BLOCK_SIZE -> Nat]
      BY DEF FSInv, TypeOK
    <3>2. CASE \E i \in 1 .. n : list[i] = b
      BY <2>1, <3>2
    <3>3. CASE ~\E i \in 1 .. n : list[i] = b
      BY <1>2, <3>1, <3>3
    <3>4. QED
      BY <3>2, <3>3
<1>4. ddata' \in [DataSectors -> [1 .. BLOCK_SIZE -> Nat]]
  BY <1>3 DEF WriteChunks
<1>5. QED
  BY <1>1, <1>2, <1>4 DEF Takes

-----------------------------------------------------------------------------
(* The host tool: its steps *)

(* a copy: one unused inode is filled in, its blocks are the list's first  *)
(* ones and hold the data                                                  *)
LEMMA CopyEffect ==
  ASSUME FSInv, NEW name \in Names, NEW data \in Images, Copy(name, data)
  PROVE  \E x \in Inodes, n \in InodeType :
           /\ ~dinodes[x].used /\ dinodes' = [dinodes EXCEPT ![x] = n]
           /\ n.used /\ n.name = Trunc[name] /\ n.size = Len(data)
           /\ \A b \in BlocksOf(n) : b \notin BlocksInUse
           /\ BlocksNeeded(data) \in 0 .. MAX_FILE_BLOCKS
           /\ \A j \in 1 .. BlocksNeeded(data) :
                n.blocks[j] # 0 /\ ddata'[n.blocks[j]] = Chunk(data, j - 1)
           /\ ddata' \in [DataSectors -> [1 .. BLOCK_SIZE -> Nat]]
           /\ \A b \in DataSectors : ddata'[b] # ddata[b] => b \notin BlocksInUse
<1>0. data \in Seq(Nat) /\ Len(data) < WORD
  BY Zenon, ImagesAssumption
<1>1. /\ data \in Seq(Nat) /\ Len(data) \in Nat /\ BlocksNeeded(data) \in Nat
      /\ MAX_FILE_BLOCKS \in Nat /\ Len(data) \in 0 .. WORD - 1
  BY <1>0, BlocksOfBytes, DiskAssumption
<1>2. PICK m \in Nat : m = BlocksNeeded(data)
  BY <1>1
<1>3. PICK list : list = FreeList
  OBVIOUS
<1>4. /\ inode_alloc # -1 /\ dsuper.magic = FS_MAGIC
      /\ m <= MAX_FILE_BLOCKS /\ m <= Len(FreeList)
      /\ ddata' = WriteChunks(list, data, m)
  <2>1. Len(FreeList) \in Nat
    BY FreeListFacts DEF Copy, Accepts
  <2>2. QED
    BY <1>2, <1>3, <2>1 DEF Copy, Accepts
<1>5. Takes(list, m)
  BY <1>3, <1>4, FreeListFacts
<1>6. PICK x \in Inodes : x = inode_alloc /\ ~dinodes[x].used
  BY <1>4, AllocFacts
<1>. DEFINE blocks == [j \in 1 .. MAX_FILE_BLOCKS |-> IF j <= m THEN list[j] ELSE 0]
            n == [name |-> Trunc[name], size |-> Len(data), used |-> TRUE, blocks |-> blocks]
<1>7. dinodes' = [dinodes EXCEPT ![x] = n]
  BY <1>2, <1>3, <1>6 DEF Copy
<1>8. ASSUME NEW j \in 1 .. MAX_FILE_BLOCKS, j <= m
      PROVE  blocks[j] = list[j] /\ list[j] \in DataSectors /\ list[j] \notin BlocksInUse
  <2>1. j \in 1 .. m
    BY <1>8
  <2>2. QED
    BY <1>5, <1>8, <2>1 DEF Takes
<1>9. \A j \in 1 .. MAX_FILE_BLOCKS : ~(j <= m) => blocks[j] = 0
  OBVIOUS
<1>10. blocks \in [1 .. MAX_FILE_BLOCKS -> {0} \cup DataSectors]
  BY <1>8
<1>. HIDE DEF blocks
<1>11. n \in InodeType /\ n.blocks = blocks /\ n.used /\ n.name = Trunc[name]
       /\ n.size = Len(data)
  BY <1>1, <1>10, NamesAssumption DEF InodeType
<1>. HIDE DEF n
<1>12. \A b \in BlocksOf(n) : b \notin BlocksInUse
  BY <1>8, <1>9, <1>11 DEF BlocksOf
<1>13. \A j \in 1 .. m : j \in 1 .. MAX_FILE_BLOCKS /\ j <= m
  BY <1>1, <1>4
<1>14. /\ ddata' \in [DataSectors -> [1 .. BLOCK_SIZE -> Nat]]
       /\ \A j \in 1 .. m : ddata'[list[j]] = Chunk(data, j - 1)
       /\ \A b \in DataSectors : ddata'[b] # ddata[b] => b \notin BlocksInUse
  BY <1>1, <1>4, <1>5, WriteChunksFacts
<1>15. 0 \notin DataSectors
  BY DiskAssumption DEF DataSectors
<1>16. \A j \in 1 .. m : n.blocks[j] # 0 /\ ddata'[n.blocks[j]] = Chunk(data, j - 1)
  BY <1>8, <1>11, <1>13, <1>14, <1>15
<1>17. m \in 0 .. MAX_FILE_BLOCKS
  BY <1>1, <1>4
<1>18. QED
  BY <1>2, <1>6, <1>7, <1>11, <1>12, <1>14, <1>16, <1>17

(* "disk full": sectors were written, but none that a file refers to *)
LEMMA CopyDiskFullEffect ==
  ASSUME FSInv, NEW name \in Names, NEW data \in Images, CopyDiskFull(name, data)
  PROVE  /\ ddata' \in [DataSectors -> [1 .. BLOCK_SIZE -> Nat]]
         /\ \A b \in DataSectors : ddata'[b] # ddata[b] => b \notin BlocksInUse
<1>1. data \in Seq(Nat)
  BY Zenon, ImagesAssumption
<1>2. PICK list : list = FreeList
  OBVIOUS
<1>3. PICK m \in Nat : m = Len(FreeList)
  BY FreeListFacts DEF CopyDiskFull, Accepts
<1>4. Takes(list, m)
  <2>1. m <= Len(FreeList)
    BY <1>3
  <2>2. QED
    BY <1>2, <2>1, FreeListFacts DEF CopyDiskFull, Accepts
<1>5. ddata' = WriteChunks(list, data, m)
  BY <1>2, <1>3 DEF CopyDiskFull
<1>6. QED
  BY <1>1, <1>4, <1>5, WriteChunksFacts

(* the tool leaves an image the kernel's invariant holds of *)
LEMMA ToolFSInv ==
  ASSUME FSInv, NEW name \in Names, NEW data \in Images,
         Copy(name, data) \/ CopyDiskFull(name, data)
  PROVE  FSInv'
<1>1. FileInv /\ pc = "off" /\ UNCHANGED <<superblock, pc, call, crashes>>
  BY TypedFileInv DEF Copy, CopyDiskFull, Accepts
<1>2. CASE Copy(name, data)
  <2>1. PICK x \in Inodes, n \in InodeType :
          /\ dinodes' = [dinodes EXCEPT ![x] = n]
          /\ \A b \in BlocksOf(n) : b \notin BlocksInUse
          /\ ddata' \in [DataSectors -> [1 .. BLOCK_SIZE -> Nat]]
    BY <1>2, CopyEffect
  <2>2. ASSUME NEW k \in Inodes \ {x}, dinodes[k].used
        PROVE  BlocksOf(n) \cap BlocksOf(dinodes[k]) = {}
    BY <2>1, <2>2, InUse
  <2>3. dinodes' \in [Inodes -> InodeType] /\ NoSharedBlocks'
    BY <1>1, <2>1, <2>2, OneInode DEF FileInv
  <2>4. FileInv'
    BY <1>1, <2>1, <2>3 DEF FileInv, WriteOK
  <2>5. dsuper' \in SuperType
    <3>1. dsuper \in SuperType /\ dsuper.magic = FS_MAGIC
      BY <1>2 DEF FSInv, TypeOK, Copy, Accepts
    <3>2. data \in Seq(Nat)
      BY Zenon, ImagesAssumption
    <3>3. PICK f \in Nat, m \in Nat : f = dsuper.free_blocks /\ m = BlocksNeeded(data)
      BY <3>1, <3>2, BlocksOfBytes, DiskAssumption DEF SuperType, ZeroSuper
    <3>4. (f - m) % WORD \in 0 .. WORD - 1
      BY DiskAssumption
    <3>5. dsuper' = [dsuper EXCEPT !.free_blocks = (f - m) % WORD]
      BY <1>2, <3>3 DEF Copy
    <3>6. PICK r \in 0 .. WORD - 1 : dsuper' = [dsuper EXCEPT !.free_blocks = r]
      BY <3>4, <3>5
    <3>7. QED
      BY <3>1, <3>6, CountedSuper
  <2>6. QED
    BY <1>1, <2>4, <2>5 DEF FSInv, TypeOK, FileInv, Mounted
<1>3. CASE CopyDiskFull(name, data)
  <2>1. dinodes' = dinodes /\ dsuper' = dsuper
    BY <1>3 DEF CopyDiskFull
  <2>2. ddata' \in [DataSectors -> [1 .. BLOCK_SIZE -> Nat]]
    BY <1>3, CopyDiskFullEffect
  <2>3. NoSharedBlocks'
    BY <2>1, SameInodes DEF FSInv
  <2>4. QED
    BY <1>1, <2>1, <2>2, <2>3 DEF FSInv, TypeOK, Mounted, WriteOK
<1>4. QED
  BY <1>2, <1>3

(* what was just copied under a new name is there *)
LEMMA CopyRead ==
  ASSUME ShortNames, FSInv, NEW name \in Names, NEW data \in Images, Copy(name, data),
         inode_find(name) = -1, ~Wraps(Len(data))
  PROVE  Trunc[name] \in DOMAIN StoredFiles' /\ StoredFiles'[Trunc[name]] = data
<1>1. PICK x \in Inodes, n \in InodeType :
        /\ ~dinodes[x].used /\ dinodes' = [dinodes EXCEPT ![x] = n]
        /\ n.used /\ n.name = Trunc[name] /\ n.size = Len(data)
        /\ BlocksNeeded(data) \in 0 .. MAX_FILE_BLOCKS
        /\ \A j \in 1 .. BlocksNeeded(data) :
             n.blocks[j] # 0 /\ ddata'[n.blocks[j]] = Chunk(data, j - 1)
  BY CopyEffect
<1>2. PICK d, dd : d = dinodes' /\ dd = ddata'
  OBVIOUS
<1>3. d[x] = n /\ \A m \in Inodes \ {x} : d[m] = dinodes[m]
  BY <1>1, <1>2 DEF FSInv, TypeOK
<1>4. Trunc[name] = name
  BY DEF ShortNames
<1>5. Matching(name) = {}
  BY NotFound
<1>6. \A m \in Inodes : d[m].used /\ d[m].name = d[x].name => m = x
  <2>1. \A m \in Inodes : ~(dinodes[m].used /\ dinodes[m].name = name)
    BY <1>5 DEF Matching
  <2>2. d[x].name = name
    BY <1>1, <1>3, <1>4
  <2>3. QED
    BY <1>3, <2>1, <2>2
<1>7. data \in Seq(Nat) /\ Len(data) \in Nat /\ BlocksNeeded(data) \in Nat
  <2>1. data \in Seq(Nat)
    BY Zenon, ImagesAssumption
  <2>2. QED
    BY <2>1, BlocksOfBytes
<1>8. n.size \in Nat /\ Len(data) <= Covered(n)
  <2>1. Covered(n) \in Nat /\ BLOCK_SIZE * BlocksNeeded(data) <= Covered(n)
    BY <1>1, CoveredAtLeast
  <2>2. Len(data) <= BLOCK_SIZE * BlocksNeeded(data)
    BY <1>7, BlocksNeededHold
  <2>3. BLOCK_SIZE * BlocksNeeded(data) \in Nat
    BY <1>7, DiskAssumption
  <2>4. QED
    BY <1>1, <1>7, <2>1, <2>2, <2>3
<1>9. name \in NamesIn(d) /\ FilesOf(d, dd)[name] = Contents(n, dd)
  <2>1. d[x].used /\ d[x].size \in Nat
    BY <1>1, <1>3, <1>8
  <2>2. d[x].name \in NamesIn(d) /\ FilesOf(d, dd)[d[x].name] = Contents(d[x], dd)
    BY <1>6, <2>1, FileAt
  <2>3. QED
    BY <1>1, <1>3, <1>4, <2>2
<1>10. Contents(n, dd) = data
  BY <1>1, <1>2, <1>7, <1>8, WrittenContents
<1>11. StoredFiles' = FilesOf(d, dd) /\ DOMAIN FilesOf(d, dd) = NamesIn(d)
  <2>1. StoredFiles' = FilesOf(d, dd)
    BY <1>2, StoredFilesAre
  <2>2. QED
    BY <2>1 DEF FilesOf
<1>12. QED
  BY <1>4, <1>9, <1>10, <1>11

-----------------------------------------------------------------------------
(* The host tool: theorems *)

LEMMA MkStep ==
  ASSUME FSInv, [MkNext]_mkvars
  PROVE  FSInv'
<1>1. CASE Next
  BY <1>1, NextFSInv
<1>2. CASE UNCHANGED mkvars
  BY <1>2, NextFSInv DEF mkvars, vars
<1>3. ASSUME NEW name \in Names, NEW data \in Images,
             Copy(name, data) \/ CopyDiskFull(name, data)
      PROVE  FSInv'
  BY <1>3, ToolFSInv
<1>4. QED
  BY <1>1, <1>2, <1>3 DEF MkNext

(* The invariant of the kernel's file system survives any use of the host  *)
(* tool between two boots, on whatever image a crash has left.             *)
THEOREM MkInvariant == MkSpec => []FSInv
<1>1. MkInit => FSInv
  BY InitFSInv DEF MkInit
<1>2. QED
  BY <1>1, MkStep, PTL DEF MkSpec

(* The two allocators never give one data sector to two files. *)
THEOREM MkNoSharedBlocks == MkSpec => []NoSharedBlocks
<1>1. FSInv => NoSharedBlocks
  BY DEF FSInv
<1>2. QED
  BY <1>1, MkInvariant, PTL

(* Neither the kernel nor the tool writes a sector that a file refers to.  *)
THEOREM MkOutOfPlace == MkSpec => ToolOutOfPlace
<1>1. FSInv /\ [MkNext]_mkvars =>
        [\A b \in DataSectors : ddata'[b] # ddata[b] => b \notin BlocksInUse]_mkvars
  <2>. SUFFICES ASSUME FSInv, MkNext, NEW b \in DataSectors, ddata'[b] # ddata[b]
                PROVE  b \notin BlocksInUse
    OBVIOUS
  <2>1. CASE Next
    BY <2>1, WritesOutOfPlace
  <2>2. ASSUME NEW name \in Names, NEW data \in Images,
               Copy(name, data) \/ CopyDiskFull(name, data)
        PROVE  b \notin BlocksInUse
    BY <2>2, CopyEffect, CopyDiskFullEffect
  <2>3. QED
    BY <2>1, <2>2 DEF MkNext
<1>2. QED
  BY <1>1, MkInvariant, PTL DEF MkSpec, ToolOutOfPlace

(* If no name is too long for an inode, a file the tool copies under a     *)
(* name the image did not have is read back whole, whatever its contents,  *)
(* the state of the image and its size up to the point where counting its  *)
(* blocks wraps.                                                           *)
THEOREM MkNewCopyIsRead ==
  ASSUME ShortNames
  PROVE  MkSpec => []NewCopyIsRead
<1>1. MkInit => NewCopyIsRead
  BY DEF MkInit, NewCopyIsRead
<1>2. FSInv /\ NewCopyIsRead /\ [MkNext]_mkvars => NewCopyIsRead'
  <2>. SUFFICES ASSUME FSInv, NewCopyIsRead, [MkNext]_mkvars PROVE NewCopyIsRead'
    OBVIOUS
  <2>1. CASE copied' = NoCopy
    BY <2>1 DEF NewCopyIsRead
  <2>2. ASSUME NEW name \in Names, NEW data \in Images, Copy(name, data)
        PROVE  NewCopyIsRead'
    <3>1. copied'.name = name /\ copied'.data = data
          /\ (copied'.fresh => inode_find(name) = -1)
      BY <2>2 DEF Copy
    <3>2. QED
      BY <2>2, <3>1, CopyRead DEF NewCopyIsRead
  <2>3. CASE UNCHANGED mkvars
    <3>1. UNCHANGED <<dinodes, ddata, copied>>
      BY <2>3 DEF mkvars
    <3>2. StoredFiles' = StoredFiles
      BY <3>1, QuietStored
    <3>3. QED
      BY <3>1, <3>2 DEF NewCopyIsRead
  <2>4. QED
    BY <2>1, <2>2, <2>3 DEF MkNext, CopyDiskFull
<1>3. QED
  BY <1>1, <1>2, MkInvariant, PTL DEF MkSpec
=============================================================================
