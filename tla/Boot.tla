-------------------------------- MODULE Boot --------------------------------
(***************************************************************************)
(* kernel_main (kernel/kernel.c) bringing up the file system while the     *)
(* keyboard is already live: idt_init, its second call, turns interrupts   *)
(* on, and from then on Enter runs a shell command inside whatever         *)
(* kernel_main is doing.  fs_init is cut into its statements, each sector  *)
(* transfer being one, and the commands of AshFS are nested between them.  *)
(* A command inside a statement would start a second transfer in the       *)
(* middle of the first, or use a superblock that is half filled in: that   *)
(* is a stage of its own, "torn", of which nothing is said.                *)
(***************************************************************************)
EXTENDS AshFS

VARIABLES
  stage,      \* how far kernel_main is, see below
  sector,     \* fs_init's buffer
  outer,      \* what of kernel_main a command interrupts, or NotNested
  early       \* history: before some fs_init was done a command ran that
              \* creates, writes or deletes, or one inside a statement

bootVars == <<stage, sector, outer, early>>
allVars == <<vars, bootVars>>

(* fs_init has not read the superblock, has it in its buffer, has copied   *)
(* it, has prepared a new one, is writing                                  *)
Booting == {"starting", "read", "copied", "prepared", "formatting"}

NotNested == [nested |-> FALSE, ran |-> FALSE, pc |-> "off", call |-> NoCall]

BootInit ==
  /\ Init
  /\ stage = "off" /\ sector = ZeroSuper /\ outer = NotNested /\ early = FALSE

-----------------------------------------------------------------------------
(* kernel_main *)

(* up to and including idt_init: interrupts are on *)
PowerOn ==
  /\ stage = "off" /\ stage' = "starting"
  /\ UNCHANGED <<vars, sector, outer, early>>

(* kernel_main goes on, in no interrupt, from one stage to another *)
Goes(from, to) == ~outer.nested /\ stage = from /\ stage' = to

(* pmm_init to ata_init, and fs_init's sector read *)
FsInitReads ==
  /\ Goes("starting", "read")
  /\ sector' = dsuper
  /\ UNCHANGED <<vars, outer, early>>

FsInitCopiesMutant ==
  /\ Goes("read", "copied")
  /\ UNCHANGED <<vars, sector, outer, early>>

FsInitCopies ==
  /\ Goes("read", "copied")
  /\ superblock' = sector
  /\ UNCHANGED <<disk, pc, call, ret, crashes, sector, outer, early>>

FsInitMounts ==
  /\ Goes("copied", "ready") /\ superblock.magic = FS_MAGIC
  /\ pc' = "idle"
  /\ UNCHANGED <<disk, superblock, call, ret, crashes, sector, outer, early>>

FsInitPreparesMutant ==
  /\ Goes("copied", "prepared") /\ superblock.magic # FS_MAGIC
  /\ UNCHANGED <<vars, sector, outer, early>>

(* without the magic number: a new superblock, in memory *)
FsInitPrepares ==
  /\ Goes("copied", "prepared") /\ superblock.magic # FS_MAGIC
  /\ superblock' = NewSuper
  /\ UNCHANGED <<disk, pc, call, ret, crashes, sector, outer, early>>

FsInitFills ==
  /\ Goes("prepared", "formatting")
  /\ sector' = superblock /\ pc' = "format_super"
  /\ UNCHANGED <<disk, superblock, call, ret, crashes, outer, early>>

(* the superblock goes to disk as it was copied into the buffer, which is  *)
(* cleared for the inode table                                             *)
FsInitWrites ==
  /\ Goes("formatting", "formatting") /\ pc = "format_super"
  /\ dsuper' = sector /\ sector' = ZeroSuper /\ pc' = "format_inodes"
  /\ UNCHANGED <<dinodes, ddata, superblock, call, ret, crashes, outer, early>>

FsInitClearsMutant ==
  /\ Goes("formatting", "formatting") /\ pc = "format_inodes"
  /\ dinodes' = [i \in Inodes |-> IF i \div INODES_PER_SECTOR = call.i
                                  THEN ZeroInode ELSE dinodes[i]]
  /\ UNCHANGED <<dsuper, ddata, superblock, pc, call, ret, crashes, sector, outer, early>>

(* one inode sector; the rest of kernel_main does not touch the files *)
FsInitClears ==
  /\ FormatInodes
  /\ Goes("formatting", IF pc' = "idle" THEN "ready" ELSE "formatting")
  /\ UNCHANGED <<sector, outer, early>>

KernelMain == \/ FsInitReads \/ FsInitCopies \/ FsInitMounts \/ FsInitPrepares
              \/ FsInitFills \/ FsInitWrites \/ FsInitClears

-----------------------------------------------------------------------------
(* Commands *)

(* Enter, between two statements *)
Interrupt ==
  /\ stage \in Booting /\ ~outer.nested
  /\ outer' = [nested |-> TRUE, ran |-> FALSE, pc |-> pc, call |-> call]
  /\ pc' = "idle" /\ call' = NoCall
  /\ UNCHANGED <<disk, superblock, ret, crashes, stage, sector, early>>

(* Enter, inside one, for a command that uses the disk *)
InterruptTears ==
  /\ stage \in Booting /\ ~outer.nested
  /\ stage' = "torn" /\ early' = TRUE
  /\ UNCHANGED <<vars, sector, outer>>

(* what the machine does from then on is not described *)
Torn == stage = "torn" /\ UNCHANGED allVars

(* Enter starts a command; one that is nested runs once.  The ones that    *)
(* only read (ls, cat, a run that fails) return with nothing changed.      *)
Run ==
  /\ stage = "ready" \/ (outer.nested /\ ~outer.ran)
  /\ Call
  /\ outer' = [outer EXCEPT !.ran = @ \/ outer.nested]
  /\ early' = (early \/ (outer.nested /\ (pc' # "idle" \/ dinodes' # dinodes)))
  /\ UNCHANGED <<stage, sector>>

CommandStep ==
  /\ stage = "ready" \/ outer.nested
  /\ WriteBlock \/ WriteDiskFull \/ WriteInode \/ UpdateSuperblock
  /\ UNCHANGED bootVars

(* A run that loads a program leaves for ring 3 and kernel_main is never   *)
(* gone on with.  Without the task state segment, which comes after        *)
(* fs_init, the first interrupt or system call there resets the machine.   *)
RunLeaves ==
  /\ outer.nested /\ ~outer.ran
  /\ \E name \in Names : inode_find(name) # -1
  /\ stage' = "user" /\ outer' = NotNested
  /\ UNCHANGED <<vars, sector, early>>

(* iret: kernel_main goes on where it was *)
ReturnFromInterrupt ==
  /\ outer.nested /\ outer.ran /\ pc = "idle"
  /\ pc' = outer.pc /\ call' = outer.call /\ ret' = NoRet /\ outer' = NotNested
  /\ UNCHANGED <<disk, superblock, crashes, stage, sector, early>>

Nested == outer.nested /\ (Run \/ CommandStep \/ ReturnFromInterrupt)

(* a reset from ring 3; power goes, at the prompt or, MaxCrashes times,    *)
(* anywhere else                                                           *)
PowerGoes ==
  /\ stage \notin {"off", "torn"} /\ stage' = "off"
  /\ LoseMemory /\ sector' = ZeroSuper /\ outer' = NotNested
  /\ IF stage = "user" \/ (stage = "ready" /\ pc = "idle") THEN UNCHANGED crashes
     ELSE crashes < MaxCrashes /\ crashes' = crashes + 1
  /\ UNCHANGED early

BootNext ==
  \/ PowerOn \/ KernelMain \/ Interrupt \/ InterruptTears \/ Torn \/ Run
  \/ CommandStep \/ RunLeaves \/ ReturnFromInterrupt \/ PowerGoes

(* kernel_main goes on when it is not interrupted, and commands go on.     *)
BootSpec == /\ BootInit /\ [][BootNext]_allVars
            /\ WF_allVars(Nested) /\ WF_allVars(KernelMain)

-----------------------------------------------------------------------------
(* README: "files survive reboots".  Booting changes no file, although ls, *)
(* cat and run may come between any two statements of fs_init - provided   *)
(* no command that creates, writes or deletes ever did, and none came      *)
(* inside a statement: an rm or an empty write that early saves the still  *)
(* empty superblock in memory over the one on disk, and this or the next   *)
(* boot formats.                                                           *)
BootKeepsFiles ==
  [][~early' /\ stage # "ready" => StoredFiles' = StoredFiles]_allVars

(* Whatever commands ran between the statements of fs_init, the prompt     *)
(* comes with a superblock that has the magic number and the size of the   *)
(* disk, so that every later superblock update writes a valid one.         *)
MountedWhenReady ==
  stage = "ready" => /\ superblock.magic = FS_MAGIC
                     /\ superblock.total_blocks = TOTAL_BLOCKS

(* No data sector belongs to two files, also when commands ran between the *)
(* statements of fs_init, with the superblock in memory still empty or the *)
(* inode table half cleared; of a command inside a sector transfer nothing *)
(* is said.                                                                *)
FilesApart == stage # "torn" => NoSharedBlocks

(* Once no more commands are typed into it, a boot ends at the prompt,     *)
(* unless power goes first, a program was run, or a command came inside a  *)
(* statement.                                                              *)
BootEnds == <>[](~outer.nested) => (stage \in Booting ~> stage \notin Booting)
=============================================================================
