-------------------------------- MODULE Ata ---------------------------------
(***************************************************************************)
(* The ATA PIO driver (drivers/ata.c) and, external to the repository, the *)
(* drive it polls: status bits, address registers, data port, write cache  *)
(* and medium.  The driver moves a sector word by word and waits for the   *)
(* drive by polling; one step of it is one poll that succeeds, one word,   *)
(* or a run of register writes that ends with the command.                 *)
(***************************************************************************)
EXTENDS Integers, Sequences

CONSTANTS
  BYTE, NIBBLE,     \* 256 and 16: how many values a register holds
  Lbas,             \* the sectors that are used
  BadSectors,       \* those the drive cannot read or write
  Words,            \* values of a word
  WORDS,            \* words of a sector
  Drives            \* kinds of drives: has it a write cache, and does it
                    \* take a flush command while it is busy

ASSUME AtaAssumption ==
  /\ BYTE \in Nat \ {0} /\ NIBBLE \in Nat \ {0} /\ WORDS \in Nat \ {0}
  /\ Lbas \subseteq 0 .. NIBBLE * BYTE * BYTE * BYTE - 1
  /\ BadSectors \subseteq Lbas
  /\ 0 \in Words
  /\ Drives \subseteq [cache : BOOLEAN, queues : BOOLEAN]

VARIABLES
  pc, call, buf,                \* driver: place, arguments, words read
  bsy, drq,                     \* drive: status bits
  regs, command, port,          \* drive: registers, command, data buffer
  flush,                        \* drive: a flush is to be done
  cache, medium, drive,
  result                        \* what the last read returned

driverVars == <<pc, call, buf, result>>
driveVars == <<bsy, drq, regs, command, port, flush, cache, medium, drive>>
vars == <<driverVars, driveVars>>

Sectors == [1 .. WORDS -> Words]
Clean == <<>>
NoCall == [op |-> "none"]
NoResult == <<>>

RegistersMutant(lba) ==
  [low |-> lba % BYTE, mid |-> (lba \div BYTE) % BYTE, high |-> 0,
   head |-> (lba \div (BYTE * BYTE * BYTE)) % NIBBLE]

(* the driver splits a sector number over four registers ... *)
Registers(lba) ==
  [low |-> lba % BYTE, mid |-> (lba \div BYTE) % BYTE,
   high |-> (lba \div (BYTE * BYTE)) % BYTE,
   head |-> (lba \div (BYTE * BYTE * BYTE)) % NIBBLE]

(* ... and the drive puts it together again *)
Address == regs.low + BYTE * (regs.mid + BYTE * (regs.high + BYTE * regs.head))

NoCommand(busy) ==
  /\ bsy' = busy /\ drq' = FALSE /\ command' = "none" /\ port' = <<>>
  /\ flush' = FALSE /\ cache' = [l \in Lbas |-> Clean]

Init ==
  /\ pc = "off" /\ call = NoCall /\ buf = <<>> /\ result = NoResult
  /\ bsy \in BOOLEAN /\ drq = FALSE /\ command = "none" /\ port = <<>>
  /\ regs = Registers(0) /\ flush = FALSE
  /\ cache = [l \in Lbas |-> Clean]
  /\ medium = [l \in Lbas |-> [w \in 1 .. WORDS |-> 0]]
  /\ drive \in Drives

-----------------------------------------------------------------------------
(* The driver *)

Goto(from, to) == pc = from /\ pc' = to

ata_waitMutant == ~drq

ata_wait == ~bsy

ata_init ==
  /\ Goto("off", "idle") /\ ata_wait
  /\ UNCHANGED <<call, buf, result, driveVars>>

ReadSector(lba) ==
  /\ Goto("idle", "wait")
  /\ call' = [op |-> "read", lba |-> lba] /\ buf' = <<>>
  /\ UNCHANGED <<result, driveVars>>

WriteSector(lba, data) ==
  /\ Goto("idle", "wait")
  /\ call' = [op |-> "write", lba |-> lba, data |-> data]
  /\ UNCHANGED <<buf, result, driveVars>>

(* Before a command: ata_reset, which writes the drive select register and *)
(* waits, and ata_wait for a read; ata_wait for a write.                   *)
Wait ==
  /\ Goto("wait", "command") /\ ata_wait
  /\ UNCHANGED <<call, buf, result, driveVars>>

Command ==
  /\ Goto("command", "drq")
  /\ regs' = Registers(call.lba)
  /\ command' = call.op /\ port' = <<>> /\ bsy' = TRUE
  /\ UNCHANGED <<call, buf, result, drq, flush, cache, medium, drive>>

(* only DRQ is looked at: a drive that reports an error is waited for for ever *)
ata_wait_drq ==
  /\ Goto("drq", "data") /\ drq
  /\ UNCHANGED <<call, buf, result, driveVars>>

Returns == pc' = "idle" /\ call' = NoCall

(* the drive takes DRQ away with the last word *)
ReadWord ==
  LET read == Append(buf, port[Len(buf) + 1])
      last == Len(read) = WORDS
  IN  /\ pc = "data" /\ call.op = "read"
      /\ IF last THEN /\ Returns /\ result' = read /\ buf' = <<>>
                      /\ drq' = FALSE /\ command' = "none" /\ port' = <<>>
         ELSE buf' = read /\ UNCHANGED <<pc, call, result, drq, command, port>>
      /\ UNCHANGED <<bsy, regs, flush, cache, medium, drive>>

WriteWordMutant ==
  LET sent == Append(port, call.data[Len(port) + 1])
  IN  /\ pc = "data" /\ call.op = "write"
      /\ port' = sent
      /\ drq' = (Len(sent) # WORDS) /\ bsy' = (Len(sent) = WORDS)
      /\ pc' = IF Len(sent) >= WORDS - 1 THEN "flush" ELSE pc
      /\ UNCHANGED <<call, buf, result, regs, command, flush, cache, medium, drive>>

(* after the last word the drive is busy storing the sector *)
WriteWord ==
  LET sent == Append(port, call.data[Len(port) + 1])
  IN  /\ pc = "data" /\ call.op = "write"
      /\ port' = sent
      /\ drq' = (Len(sent) # WORDS) /\ bsy' = (Len(sent) = WORDS)
      /\ pc' = IF Len(sent) = WORDS THEN "flush" ELSE pc
      /\ UNCHANGED <<call, buf, result, regs, command, flush, cache, medium, drive>>

(* The flush command follows at once.  A drive that takes no command while *)
(* it is busy ignores it.                                                  *)
Flush ==
  /\ Goto("flush", "wait_flush")
  /\ flush' = (flush \/ ~bsy \/ drive.queues) /\ bsy' = (bsy \/ flush')
  /\ UNCHANGED <<call, buf, result, drq, regs, command, port, cache, medium, drive>>

WriteReturns ==
  /\ pc = "wait_flush" /\ ata_wait /\ Returns
  /\ UNCHANGED <<buf, result, driveVars>>

Driver == \/ ata_init \/ Wait \/ Command \/ ata_wait_drq
          \/ ReadWord \/ WriteWord \/ Flush \/ WriteReturns

-----------------------------------------------------------------------------
(* The drive *)

Contents(l) == IF cache[l] = Clean THEN medium[l] ELSE cache[l]

(* spun up after power on *)
DriveReady ==
  /\ bsy /\ command = "none" /\ ~flush /\ bsy' = FALSE
  /\ UNCHANGED <<driverVars, drq, regs, command, port, flush, cache, medium, drive>>

(* ready to send or to take the data *)
DriveRequests ==
  /\ bsy /\ command # "none" /\ port = <<>> /\ Address \in Lbas \ BadSectors
  /\ drq' = TRUE /\ bsy' = FALSE
  /\ port' = IF command = "read" THEN Contents(Address) ELSE port
  /\ UNCHANGED <<driverVars, regs, command, flush, cache, medium, drive>>

(* an error: not busy, no DRQ *)
DriveRefuses ==
  /\ bsy /\ command # "none" /\ port = <<>> /\ Address \notin Lbas \ BadSectors
  /\ bsy' = FALSE /\ command' = "none"
  /\ UNCHANGED <<driverVars, drq, regs, port, flush, cache, medium, drive>>

DriveStores ==
  /\ bsy /\ command = "write" /\ Len(port) = WORDS
  /\ IF drive.cache
     THEN cache' = [cache EXCEPT ![Address] = port] /\ UNCHANGED medium
     ELSE medium' = [medium EXCEPT ![Address] = port] /\ UNCHANGED cache
  /\ command' = "none" /\ port' = <<>> /\ bsy' = flush
  /\ UNCHANGED <<driverVars, drq, regs, flush, drive>>

(* what is in the cache reaches the medium *)
Destage(S) ==
  /\ cache' = [l \in Lbas |-> IF l \in S THEN Clean ELSE cache[l]]
  /\ medium' = [l \in Lbas |-> IF l \in S THEN Contents(l) ELSE medium[l]]

DriveFlushes ==
  /\ flush /\ command = "none" /\ Destage(Lbas)
  /\ flush' = FALSE /\ bsy' = FALSE
  /\ UNCHANGED <<driverVars, drq, regs, command, port, drive>>

(* a drive may do so at any time, in any order *)
DriveDestages ==
  /\ \E l \in Lbas : cache[l] # Clean /\ Destage({l})
  /\ UNCHANGED <<driverVars, bsy, drq, regs, command, port, flush, drive>>

Drive == DriveReady \/ DriveRequests \/ DriveRefuses \/ DriveStores \/ DriveFlushes

(* the machine loses its memory, the drive its cache *)
PowerLoss ==
  /\ pc' = "off" /\ call' = NoCall /\ buf' = <<>> /\ result' = NoResult
  /\ \E busy \in BOOLEAN : NoCommand(busy)
  /\ UNCHANGED <<regs, medium, drive>>

Next ==
  \/ Driver \/ Drive \/ DriveDestages \/ PowerLoss
  \/ \E lba \in Lbas : ReadSector(lba) \/ \E data \in Sectors : WriteSector(lba, data)

(* The driver keeps polling and the drive keeps working. *)
Spec == Init /\ [][Next]_vars /\ WF_vars(Driver) /\ WF_vars(Drive)

-----------------------------------------------------------------------------
(* A read or write command is given only to a drive that is not in the     *)
(* middle of one: not busy, not asking for data, nothing left to flush.    *)
(* The flush command, for which ata_write_sector does not wait, may meet a *)
(* busy drive, but one that has got the whole sector and is storing it.    *)
ReadyForCommand ==
  /\ pc = "command" => ~bsy /\ ~drq /\ command = "none" /\ ~flush
  /\ pc = "flush" => /\ ~drq /\ ~flush
                     /\ bsy => command = "write" /\ port = call.data

(* a drive that caches writes and ignores commands while it is busy *)
Lazy == drive.cache /\ ~drive.queues

(* The driver implements a disk of atomic sectors, which is what the file  *)
(* system's crash behaviour rests on: a read returns the words last        *)
(* written to the sector asked for, and a loss of power leaves a sector as *)
(* it was before or after a write.  A write that returned survives a loss  *)
(* of power, except on a lazy drive: that one may have ignored the flush   *)
(* command, which ata_write_sector sends without waiting.                  *)
Disk == INSTANCE Disk WITH
  sectors <- [l \in Lbas |-> Contents(l)], stable <- medium, lazy <- Lazy

ImplementsDisk == Disk!Spec

(* A call for a sector the drive can read and write returns, unless power  *)
(* is lost first.                                                          *)
TransfersEnd ==
  call # NoCall /\ call.lba \notin BadSectors ~> call = NoCall
=============================================================================
