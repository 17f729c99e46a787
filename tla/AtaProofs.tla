------------------------------ MODULE AtaProofs ------------------------------
(***************************************************************************)
(* The ATA driver implements a disk of atomic sectors, durable ones if the *)
(* drive is not lazy: for every width of the registers, sector size and    *)
(* set of sectors, and a loss of power at any moment.                      *)
(***************************************************************************)
EXTENDS Ata, TLAPS

-----------------------------------------------------------------------------
(* Sector numbers and registers *)

(* division with remainder, and that it is unique *)
LEMMA DivMod ==
  ASSUME NEW a \in Nat, NEW d \in Nat \ {0}
  PROVE  /\ a \div d \in Nat /\ a % d \in 0 .. d - 1
         /\ a = d * (a \div d) + (a % d)
OBVIOUS

LEMMA UniqueQuotient ==
  ASSUME NEW d \in Nat \ {0}, NEW q \in Nat, NEW r \in 0 .. d - 1,
         NEW u \in Nat, NEW s \in 0 .. d - 1, d * q + r = d * u + s
  PROVE  q = u
<1>1. CASE q < u
  <2>1. d * u >= d * (q + 1)
    BY <1>1
  <2>2. QED
    BY <2>1
<1>2. CASE u < q
  <2>1. d * q >= d * (u + 1)
    BY <1>2
  <2>2. QED
    BY <2>1
<1>3. QED
  BY <1>1, <1>2

(* dividing twice *)
LEMMA DivDiv ==
  ASSUME NEW a \in Nat, NEW b \in Nat \ {0}, NEW c \in Nat \ {0}
  PROVE  a \div (b * c) = (a \div b) \div c
<1>. DEFINE q == a \div b
            u == q \div c
            r == a % b
            s == q % c
<1>1. q \in Nat /\ r \in 0 .. b - 1 /\ a = b * q + r
  BY DivMod
<1>. HIDE DEF q, r
<1>2. u \in Nat /\ s \in 0 .. c - 1 /\ q = c * u + s
  BY <1>1, DivMod
<1>. HIDE DEF u, s
<1>3. b * c \in Nat \ {0}
  OBVIOUS
<1>4. a = (b * c) * u + (b * s + r)
  <2>1. b * (c * u + s) = (b * c) * u + b * s
    BY <1>1, <1>2
  <2>2. QED
    BY <1>1, <1>2, <2>1
<1>5. b * s + r \in 0 .. b * c - 1
  <2>1. b * s <= b * (c - 1)
    BY <1>2
  <2>2. b * (c - 1) = b * c - b
    OBVIOUS
  <2>3. b * s >= 0
    BY <1>2
  <2>4. QED
    BY <1>1, <1>2, <1>3, <2>1, <2>2, <2>3
<1>6. /\ a \div (b * c) \in Nat /\ a % (b * c) \in 0 .. b * c - 1
      /\ a = (b * c) * (a \div (b * c)) + (a % (b * c))
  BY <1>3, DivMod
<1>7. a \div (b * c) = u
  BY <1>2, <1>3, <1>4, <1>5, <1>6, UniqueQuotient
<1>8. QED
  BY <1>7 DEF u, q

(* The drive gets the sector number back that the driver split: all 28     *)
(* bits, whatever the widths of the registers.                             *)
LEMMA AddressOfRegisters ==
  ASSUME NEW lba \in Lbas, regs = Registers(lba)
  PROVE  Address = lba
<1>. DEFINE q1 == lba \div BYTE
            q2 == q1 \div BYTE
            q3 == q2 \div BYTE
            B3 == BYTE * BYTE * BYTE
<1>1. lba \in Nat /\ lba < NIBBLE * BYTE * BYTE * BYTE /\ BYTE \in Nat \ {0}
      /\ NIBBLE \in Nat \ {0}
  BY AtaAssumption
<1>2. q1 \in Nat /\ lba = BYTE * q1 + (lba % BYTE) /\ lba % BYTE \in 0 .. BYTE - 1
  BY <1>1, DivMod
<1>3. q2 \in Nat /\ q1 = BYTE * q2 + (q1 % BYTE) /\ q1 % BYTE \in 0 .. BYTE - 1
  BY <1>1, <1>2, DivMod
<1>4. q3 \in Nat /\ q2 = BYTE * q3 + (q2 % BYTE) /\ q2 % BYTE \in 0 .. BYTE - 1
  BY <1>1, <1>3, DivMod
<1>5. BYTE * BYTE \in Nat \ {0} /\ B3 \in Nat \ {0}
  BY <1>1
<1>6. lba \div (BYTE * BYTE) = q2
  BY <1>1, DivDiv
<1>7. lba \div B3 = q3
  <2>1. lba \div ((BYTE * BYTE) * BYTE) = (lba \div (BYTE * BYTE)) \div BYTE
    BY <1>1, <1>5, DivDiv
  <2>2. QED
    BY <1>6, <2>1
<1>8. lba = B3 * q3 + (lba % B3) /\ lba % B3 \in 0 .. B3 - 1
  <2>1. lba = B3 * (lba \div B3) + (lba % B3) /\ lba % B3 \in 0 .. B3 - 1
    <3>. HIDE DEF B3
    <3>1. QED
      BY <1>1, <1>5, DivMod
  <2>2. QED
    BY <1>7, <2>1
<1>9. q3 % NIBBLE = q3
  <2>1. NIBBLE * BYTE * BYTE * BYTE = B3 * NIBBLE
    BY <1>1
  <2>. HIDE DEF q3, B3
  <2>2. q3 < NIBBLE
    <3>1. CASE q3 >= NIBBLE
      <4>1. B3 * q3 >= B3 * NIBBLE
        BY <1>1, <1>4, <1>5, <3>1
      <4>2. QED
        BY <1>1, <1>4, <1>5, <1>8, <2>1, <4>1
    <3>2. QED
      BY <1>1, <1>4, <3>1
  <2>3. q3 \in Nat /\ q3 < NIBBLE /\ NIBBLE \in Nat \ {0}
    BY <1>1, <1>4, <2>2
  <2>4. QED
    BY <2>3
<1>10. /\ regs.low = lba % BYTE /\ regs.mid = q1 % BYTE
       /\ regs.high = q2 % BYTE /\ regs.head = q3
  BY <1>6, <1>7, <1>9 DEF Registers
<1>. HIDE DEF q1, q2, q3, B3
<1>11. Address = (lba % BYTE) + BYTE * ((q1 % BYTE) + BYTE * ((q2 % BYTE) + BYTE * q3))
  BY <1>10 DEF Address
<1>12. (q2 % BYTE) + BYTE * q3 = q2
  BY <1>1, <1>4
<1>13. (q1 % BYTE) + BYTE * q2 = q1
  BY <1>1, <1>3
<1>14. (lba % BYTE) + BYTE * q1 = lba
  BY <1>1, <1>2
<1>15. QED
  BY <1>11, <1>12, <1>13, <1>14

-----------------------------------------------------------------------------
(* The inductive invariant: what the driver may assume of the drive at     *)
(* each of its steps.                                                      *)

AllClean == cache = [l \in Lbas |-> Clean]

(* between writes only a lazy drive has something in its cache *)
Settled == Lazy \/ AllClean

(* no command is being carried out *)
Quiet == command = "none" /\ ~drq /\ ~flush /\ port = <<>>

Reads == call.lba \in Lbas /\ call = [op |-> "read", lba |-> call.lba]
Writes == /\ call.lba \in Lbas /\ call.data \in Sectors
          /\ call = [op |-> "write", lba |-> call.lba, data |-> call.data]

(* the first n words of a sector *)
First(n, data) == [k \in 1 .. n |-> data[k]]
Part(words, data) == \E n \in 0 .. WORDS - 1 : words = First(n, data)

AtaTypes ==
  /\ medium \in [Lbas -> Sectors] /\ cache \in [Lbas -> Sectors \cup {Clean}]
  /\ bsy \in BOOLEAN /\ drq \in BOOLEAN /\ flush \in BOOLEAN
  /\ drive \in Drives /\ (drive.cache \/ AllClean)
  /\ pc \in {"off", "idle", "wait", "command", "drq", "data", "flush", "wait_flush"}

NoCallInv == pc \in {"off", "idle"} => call = NoCall /\ Quiet /\ Settled

CalledInv ==
  pc \in {"wait", "command"} =>
    /\ (Reads /\ buf = <<>>) \/ Writes
    /\ Quiet /\ Settled /\ (pc = "command" => ~bsy)

(* the drive has not looked at the command yet, wants data, or refused *)
DrqInv ==
  pc = "drq" =>
    /\ (Reads /\ buf = <<>>) \/ Writes
    /\ regs = Registers(call.lba) /\ Settled /\ ~flush
    /\ \/ bsy /\ ~drq /\ command = call.op /\ port = <<>>
       \/ /\ ~bsy /\ drq /\ command = call.op
          /\ port = IF call.op = "read" THEN Contents(call.lba) ELSE <<>>
       \/ ~bsy /\ ~drq /\ command = "none" /\ port = <<>>

DataInv ==
  pc = "data" =>
    /\ regs = Registers(call.lba) /\ Settled /\ ~flush /\ ~bsy /\ drq /\ command = call.op
    /\ \/ Reads /\ port = Contents(call.lba) /\ Part(buf, port)
       \/ Writes /\ Part(port, call.data)

(* the sector is with the drive, in its buffer ... *)
Storing ==
  /\ bsy /\ command = "write" /\ port = call.data /\ Settled
  /\ pc = "flush" => ~flush
  /\ pc = "wait_flush" /\ drive.cache => flush \/ Lazy

(* ... or in its cache or on the medium, for good once the flush is done, *)
(* if it was not ignored                                                  *)
Stored ==
  /\ command = "none" /\ port = <<>> /\ (bsy <=> flush)
  /\ Lazy \/ \A l \in Lbas \ {call.lba} : cache[l] = Clean
  /\ Contents(call.lba) = call.data
  /\ pc = "flush" => ~flush
  /\ pc = "wait_flush" /\ ~flush => Lazy \/ cache[call.lba] = Clean

FlushInv ==
  pc \in {"flush", "wait_flush"} =>
    Writes /\ ~drq /\ regs = Registers(call.lba) /\ (Storing \/ Stored)

AtaInv == AtaTypes /\ NoCallInv /\ CalledInv /\ DrqInv /\ DataInv /\ FlushInv

-----------------------------------------------------------------------------
(* Words and sectors *)

LEMMA CleanIsNoSector == Clean \notin Sectors
<1>1. DOMAIN Clean = {}
  BY DEF Clean
<1>2. \A s \in Sectors : 1 \in DOMAIN s
  BY AtaAssumption DEF Sectors
<1>3. QED
  BY <1>1, <1>2

(* the first n words of a sector, one more of them, all of them *)
LEMMA FirstFacts ==
  ASSUME NEW data \in Sectors, NEW n \in 0 .. WORDS - 1
  PROVE  /\ Len(First(n, data)) = n
         /\ Append(First(n, data), data[n + 1]) = First(n + 1, data)
         /\ Len(First(n + 1, data)) = n + 1
<1>1. \A k \in 1 .. WORDS : data[k] \in Words
  BY DEF Sectors
<1>2. First(n, data) \in Seq(Words) /\ Len(First(n, data)) = n
  BY <1>1, AtaAssumption DEF First
<1>3. First(n + 1, data) \in Seq(Words) /\ Len(First(n + 1, data)) = n + 1
  BY <1>1, AtaAssumption DEF First
<1>4. data[n + 1] \in Words
  BY <1>1, AtaAssumption
<1>5. Append(First(n, data), data[n + 1]) = First(n + 1, data)
  BY <1>2, <1>3, <1>4 DEF First
<1>6. QED
  BY <1>2, <1>3, <1>5

LEMMA FirstAll == ASSUME NEW data \in Sectors PROVE First(WORDS, data) = data
BY AtaAssumption DEF First, Sectors

LEMMA FirstNone == ASSUME NEW data PROVE Part(<<>>, data)
<1>1. <<>> = First(0, data)
  BY DEF First
<1>2. 0 \in 0 .. WORDS - 1
  BY AtaAssumption
<1>3. QED
  BY <1>1, <1>2 DEF Part

(* one more word: still a part, or the whole sector *)
LEMMA OneMoreWord ==
  ASSUME NEW words, NEW data \in Sectors, Part(words, data)
  PROVE  LET more == Append(words, data[Len(words) + 1])
         IN  IF Len(more) = WORDS THEN more = data ELSE Part(more, data)
<1>1. PICK n \in 0 .. WORDS - 1 : words = First(n, data)
  BY DEF Part
<1>2. Append(words, data[Len(words) + 1]) = First(n + 1, data)
  BY <1>1, FirstFacts
<1>3. Len(First(n + 1, data)) = n + 1
  BY FirstFacts
<1>4. CASE n + 1 = WORDS
  BY <1>2, <1>3, <1>4, FirstAll
<1>5. CASE n + 1 # WORDS
  <2>1. n + 1 \in 0 .. WORDS - 1
    BY <1>5, AtaAssumption
  <2>2. QED
    BY <1>2, <1>3, <1>5, <2>1 DEF Part
<1>6. QED
  BY <1>4, <1>5

-----------------------------------------------------------------------------
(* The steps.  Each keeps the invariant and is a step of the disk or none. *)

DiskStep == [Disk!Next]_(Disk!vars)

LEMMA ContentsType ==
  ASSUME AtaTypes, NEW l \in Lbas
  PROVE  Contents(l) \in Sectors
BY DEF AtaTypes, Contents

(* the disk sees no step that leaves the call, cache and medium alone *)
LEMMA DiskStutters ==
  ASSUME UNCHANGED <<call, result, cache, medium, drive>>
  PROVE  DiskStep
BY DEF DiskStep, Disk!vars, Contents, Lazy

LEMMA AtaInitInv == Init => AtaInv /\ Disk!Init
<1>. SUFFICES ASSUME Init PROVE AtaInv /\ Disk!Init
  OBVIOUS
<1>1. medium \in [Lbas -> Sectors]
  BY AtaAssumption DEF Init, Sectors
<1>2. AtaInv
  BY <1>1 DEF Init, AtaInv, AtaTypes, AllClean, Settled, NoCallInv, CalledInv, DrqInv, DataInv,
     FlushInv, Quiet
<1>3. [l \in Lbas |-> Contents(l)] = medium
  <2>1. medium = [l \in Lbas |-> medium[l]]
    BY <1>1
  <2>2. \A l \in Lbas : Contents(l) = medium[l]
    BY DEF Init, Contents
  <2>3. QED
    BY Zenon, <2>1, <2>2
<1>4. Lazy \in BOOLEAN
  BY AtaAssumption DEF Init, Lazy
<1>5. QED
  BY <1>1, <1>2, <1>3, <1>4 DEF Init, Disk!Init, NoCall, NoResult, Disk!NoCall, Disk!NoResult

(* what a step that leaves cache, medium and drive alone keeps *)
LEMMA SameStore ==
  ASSUME UNCHANGED <<cache, medium, drive>>
  PROVE  /\ AllClean' = AllClean /\ Lazy' = Lazy /\ Settled' = Settled
         /\ \A l \in Lbas : Contents(l)' = Contents(l)
BY DEF AllClean, Lazy, Settled, Contents

(* ata_init, and the polls that succeed *)
LEMMA PollStep ==
  ASSUME AtaInv, ata_init \/ Wait
  PROVE  AtaInv' /\ DiskStep
<1>1. UNCHANGED <<call, buf, result, driveVars>>
  BY DEF ata_init, Wait
<1>2. UNCHANGED <<call, buf, result, bsy, drq, regs, command, port, flush, cache, medium, drive>>
  BY <1>1 DEF driveVars
<1>3. \/ pc = "off" /\ pc' = "idle"
      \/ pc = "wait" /\ pc' = "command" /\ ~bsy
  BY DEF ata_init, Wait, Goto, ata_wait
<1>4. AtaInv'
  BY <1>2, <1>3, SameStore DEF AtaInv, AtaTypes, NoCallInv, CalledInv, DrqInv, DataInv,
     FlushInv, Quiet, Reads, Writes
<1>5. QED
  BY <1>2, <1>4, DiskStutters

(* a call of the file system *)
LEMMA StartStep ==
  ASSUME AtaInv, NEW lba \in Lbas,
         ReadSector(lba) \/ \E data \in Sectors : WriteSector(lba, data)
  PROVE  AtaInv' /\ DiskStep
<1>1. /\ UNCHANGED <<result, bsy, drq, regs, command, port, flush, cache, medium, drive>>
      /\ pc = "idle" /\ pc' = "wait"
  BY DEF ReadSector, WriteSector, Goto, driveVars
<1>2. \/ call' = [op |-> "read", lba |-> lba] /\ buf' = <<>>
      \/ \E data \in Sectors : call' = [op |-> "write", lba |-> lba, data |-> data]
  BY DEF ReadSector, WriteSector
<1>3. (Reads' /\ buf' = <<>>) \/ Writes'
  BY <1>2 DEF Reads, Writes
<1>4. AtaInv'
  BY <1>1, <1>3, SameStore DEF AtaInv, AtaTypes, NoCallInv, CalledInv, DrqInv, DataInv,
     FlushInv, Quiet
<1>5. Disk!Starts
  <2>1. [l \in Lbas |-> Contents(l)]' = [l \in Lbas |-> Contents(l)] /\ Lazy' = Lazy
    BY <1>1 DEF Contents, Lazy
  <2>2. QED
    BY <1>1, <1>2, <2>1 DEF AtaInv, NoCallInv, Disk!Starts, Disk!NoCall, NoCall, Disk!Reading,
       Disk!Writing
<1>6. QED
  BY <1>4, <1>5 DEF DiskStep, Disk!Next

LEMMA CommandStep ==
  ASSUME AtaInv, Command
  PROVE  AtaInv' /\ DiskStep
<1>1. /\ UNCHANGED <<call, buf, result, drq, flush, cache, medium, drive>>
      /\ pc = "command" /\ pc' = "drq" /\ regs' = Registers(call.lba)
      /\ command' = call.op /\ port' = <<>> /\ bsy' = TRUE
  BY DEF Command, Goto
<1>2. AtaInv'
  BY <1>1, SameStore DEF AtaInv, AtaTypes, NoCallInv, CalledInv, DrqInv, DataInv,
     FlushInv, Quiet, Reads, Writes
<1>3. QED
  BY <1>1, <1>2, DiskStutters

LEMMA DrqStep ==
  ASSUME AtaInv, ata_wait_drq
  PROVE  AtaInv' /\ DiskStep
<1>1. /\ UNCHANGED <<call, buf, result, bsy, drq, regs, command, port, flush, cache, medium, drive>>
      /\ pc = "drq" /\ pc' = "data" /\ drq
  BY DEF ata_wait_drq, Goto, driveVars
<1>2. DataInv'
  <2>1. \/ Reads /\ buf = <<>> /\ port = Contents(call.lba)
        \/ Writes /\ port = <<>>
    BY <1>1 DEF AtaInv, DrqInv, Reads, Writes
  <2>2. \/ Reads /\ port = Contents(call.lba) /\ Part(buf, port)
        \/ Writes /\ Part(port, call.data)
    BY <2>1, FirstNone
  <2>3. QED
    BY <1>1, <2>2, SameStore DEF AtaInv, DrqInv, DataInv, Reads, Writes
<1>3. AtaInv'
  BY <1>1, <1>2, SameStore DEF AtaInv, AtaTypes, NoCallInv, CalledInv, DrqInv, FlushInv
<1>4. QED
  BY <1>1, <1>3, DiskStutters

(* a word from the drive; with the last one the read returns *)
LEMMA ReadStep ==
  ASSUME AtaInv, ReadWord
  PROVE  AtaInv' /\ DiskStep
<1>. DEFINE read == Append(buf, port[Len(buf) + 1])
<1>1. pc = "data" /\ call.op = "read"
      /\ UNCHANGED <<bsy, regs, flush, cache, medium, drive>>
  BY DEF ReadWord
<1>2. /\ Reads /\ port = Contents(call.lba) /\ Part(buf, port)
      /\ regs = Registers(call.lba) /\ Settled /\ ~flush /\ ~bsy /\ drq /\ command = call.op
  BY <1>1 DEF AtaInv, DataInv, Reads, Writes
<1>3. IF Len(read) = WORDS THEN read = port ELSE Part(read, port)
  <2>1. port \in Sectors
    BY <1>2, ContentsType DEF AtaInv, Reads
  <2>2. QED
    BY <1>2, <2>1, OneMoreWord
<1>4. CASE Len(read) = WORDS
  <2>1. /\ pc' = "idle" /\ call' = NoCall /\ result' = read /\ buf' = <<>>
        /\ drq' = FALSE /\ command' = "none" /\ port' = <<>>
    BY <1>4 DEF ReadWord, Returns
  <2>2. AtaInv'
    BY <1>1, <1>2, <2>1, SameStore DEF AtaInv, AtaTypes, NoCallInv, CalledInv, DrqInv, DataInv,
       FlushInv, Quiet
  <2>3. [l \in Lbas |-> Contents(l)]' = [l \in Lbas |-> Contents(l)] /\ Lazy' = Lazy
    BY <1>1 DEF Contents, Lazy
  <2>4. result' = [l \in Lbas |-> Contents(l)][call.lba]
    BY <1>2, <1>3, <1>4, <2>1 DEF Reads
  <2>5. Disk!ReadReturns
    BY <1>1, <2>1, <2>3, <2>4 DEF Disk!ReadReturns, Disk!NoCall, NoCall
  <2>6. QED
    BY <2>2, <2>5 DEF DiskStep, Disk!Next
<1>5. CASE Len(read) # WORDS
  <2>1. buf' = read /\ UNCHANGED <<pc, call, result, drq, command, port>>
    BY <1>5 DEF ReadWord
  <2>2. Part(buf', port')
    BY <1>3, <1>5, <2>1
  <2>3. DataInv'
    BY <1>1, <1>2, <2>1, <2>2, SameStore DEF DataInv, Reads
  <2>4. AtaInv'
    BY <1>1, <2>1, <2>3, SameStore DEF AtaInv, AtaTypes, NoCallInv, CalledInv, DrqInv, FlushInv
  <2>5. QED
    BY <1>1, <2>1, <2>4, DiskStutters
<1>6. QED
  BY <1>4, <1>5

(* a word to the drive; with the last one the drive has the whole sector *)
LEMMA WriteStep ==
  ASSUME AtaInv, WriteWord
  PROVE  AtaInv' /\ DiskStep
<1>. DEFINE sent == Append(port, call.data[Len(port) + 1])
<1>1. /\ pc = "data" /\ call.op = "write" /\ port' = sent
      /\ drq' = (Len(sent) # WORDS) /\ bsy' = (Len(sent) = WORDS)
      /\ pc' = IF Len(sent) = WORDS THEN "flush" ELSE pc
      /\ UNCHANGED <<call, buf, result, regs, command, flush, cache, medium, drive>>
  BY DEF WriteWord
<1>2. /\ Writes /\ Part(port, call.data)
      /\ regs = Registers(call.lba) /\ Settled /\ ~flush /\ ~bsy /\ drq /\ command = call.op
  BY <1>1 DEF AtaInv, DataInv, Reads, Writes
<1>3. IF Len(sent) = WORDS THEN sent = call.data ELSE Part(sent, call.data)
  BY <1>2, OneMoreWord DEF Writes
<1>. HIDE DEF sent
<1>4. AtaTypes' /\ DiskStep /\ Settled'
  BY <1>1, <1>2, SameStore, DiskStutters DEF AtaInv, AtaTypes
<1>5. CASE Len(sent) = WORDS
  <2>1. Writes' /\ Storing'
    BY <1>1, <1>2, <1>3, <1>4, <1>5 DEF Writes, Storing
  <2>2. FlushInv'
    BY <1>1, <1>2, <1>5, <2>1 DEF FlushInv
  <2>3. QED
    BY <1>1, <1>4, <1>5, <2>2 DEF AtaInv, NoCallInv, CalledInv, DrqInv, DataInv
<1>6. CASE Len(sent) # WORDS
  <2>1. DataInv'
    BY <1>1, <1>2, <1>3, <1>4, <1>6 DEF DataInv, Writes
  <2>2. QED
    BY <1>1, <1>4, <1>6, <2>1 DEF AtaInv, NoCallInv, CalledInv, DrqInv, FlushInv
<1>7. QED
  BY <1>5, <1>6

(* the flush command, which only a lazy drive with a sector to store ignores *)
LEMMA FlushStep ==
  ASSUME AtaInv, Flush
  PROVE  AtaInv' /\ DiskStep
<1>1. /\ pc = "flush" /\ pc' = "wait_flush"
      /\ flush' = (flush \/ ~bsy \/ drive.queues) /\ bsy' = (bsy \/ flush')
      /\ UNCHANGED <<call, buf, result, drq, regs, command, port, cache, medium, drive>>
  BY DEF Flush, Goto
<1>2. drive.cache \in BOOLEAN /\ drive.queues \in BOOLEAN
  BY AtaAssumption DEF AtaInv, AtaTypes
<1>3. AtaTypes'
  BY <1>1, <1>2, SameStore DEF AtaInv, AtaTypes
<1>4. Writes /\ ~drq /\ regs = Registers(call.lba) /\ ~flush
  BY <1>1 DEF AtaInv, FlushInv, Storing, Stored
<1>5. Storing' \/ Stored'
  <2>1. CASE Storing
    BY <1>1, <1>2, <2>1, SameStore DEF Storing, Lazy
  <2>2. CASE Stored
    BY <1>1, <1>4, <2>2, SameStore DEF Stored, Writes
  <2>3. QED
    BY <1>1, <2>1, <2>2 DEF AtaInv, FlushInv
<1>6. FlushInv'
  BY <1>1, <1>4, <1>5 DEF FlushInv, Writes
<1>7. QED
  BY <1>1, <1>3, <1>6, DiskStutters DEF AtaInv, NoCallInv, CalledInv, DrqInv, DataInv

(* with an empty cache the medium holds what reads return *)
LEMMA CleanContents ==
  ASSUME AtaTypes, AllClean
  PROVE  [l \in Lbas |-> Contents(l)] = medium
<1>1. medium = [l \in Lbas |-> medium[l]]
  BY DEF AtaTypes
<1>2. \A l \in Lbas : Contents(l) = medium[l]
  BY DEF AllClean, Contents
<1>3. QED
  BY Zenon, <1>1, <1>2

(* the write returns: the sector is on the medium, or the drive is lazy *)
LEMMA WriteReturnsStep ==
  ASSUME AtaInv, WriteReturns
  PROVE  AtaInv' /\ DiskStep
<1>1. /\ pc = "wait_flush" /\ ~bsy /\ pc' = "idle" /\ call' = NoCall
      /\ UNCHANGED <<buf, result, bsy, drq, regs, command, port, flush, cache, medium, drive>>
  BY DEF WriteReturns, ata_wait, Returns, driveVars
<1>2. Writes /\ ~drq /\ Stored
  BY <1>1 DEF AtaInv, FlushInv, Storing
<1>3. ~flush /\ (Lazy \/ cache[call.lba] = Clean)
  BY <1>1, <1>2 DEF Stored
<1>4. Settled
  <2>1. CASE ~Lazy
    <3>1. \A l \in Lbas : cache[l] = Clean
      BY <1>2, <1>3, <2>1 DEF Stored
    <3>2. AllClean
      BY <3>1 DEF AllClean, AtaInv, AtaTypes
    <3>3. QED
      BY <3>2 DEF Settled
  <2>2. QED
    BY <2>1 DEF Settled
<1>5. AtaInv'
  BY <1>1, <1>2, <1>3, <1>4, SameStore DEF AtaInv, AtaTypes, NoCallInv, CalledInv, DrqInv,
     DataInv, FlushInv, Quiet, Stored
<1>6. [l \in Lbas |-> Contents(l)]' = [l \in Lbas |-> Contents(l)] /\ Lazy' = Lazy
  BY <1>1 DEF Contents, Lazy
<1>7. Lazy \/ medium = [l \in Lbas |-> Contents(l)]
  BY <1>4, CleanContents DEF Settled, AtaInv
<1>8. [l \in Lbas |-> Contents(l)][call.lba] = call.data
  BY <1>2 DEF Stored, Writes
<1>9. Disk!WriteReturns
  BY <1>1, <1>2, <1>6, <1>7, <1>8 DEF Disk!WriteReturns, Disk!NoCall, NoCall, Writes
<1>10. QED
  BY <1>5, <1>9 DEF DiskStep, Disk!Next

(* the drive is there after power on: it is never busy for another reason *)
LEMMA ReadyStep ==
  ASSUME AtaInv, DriveReady
  PROVE  AtaInv' /\ DiskStep
<1>1. /\ bsy /\ command = "none" /\ ~flush /\ bsy' = FALSE
      /\ UNCHANGED <<pc, call, buf, result, drq, regs, command, port, flush, cache, medium, drive>>
  BY DEF DriveReady, driverVars
<1>2. pc \in {"off", "idle", "wait"}
  BY <1>1 DEF AtaInv, AtaTypes, CalledInv, DrqInv, DataInv, FlushInv, Storing, Stored,
     Reads, Writes
<1>3. AtaInv'
  BY <1>1, <1>2, SameStore DEF AtaInv, AtaTypes, NoCallInv, CalledInv, DrqInv, DataInv,
     FlushInv, Quiet, Reads, Writes
<1>4. QED
  BY <1>1, <1>3, DiskStutters

(* where the drive works on a command it has just got *)
LEMMA AskedAtDrq ==
  ASSUME AtaInv, bsy, command # "none", port = <<>>
  PROVE  pc = "drq" /\ ~drq /\ command = call.op /\ Address = call.lba
<1>1. \A data \in Sectors : data # <<>>
  BY CleanIsNoSector DEF Clean
<1>2. pc = "drq"
  BY <1>1 DEF AtaInv, AtaTypes, NoCallInv, CalledInv, DataInv, FlushInv, Storing, Stored,
     Quiet, Writes
<1>3. QED
  BY <1>2, AddressOfRegisters DEF AtaInv, DrqInv, Reads, Writes

LEMMA RequestsStep ==
  ASSUME AtaInv, DriveRequests
  PROVE  AtaInv' /\ DiskStep
<1>1. /\ bsy /\ command # "none" /\ port = <<>> /\ drq' = TRUE /\ bsy' = FALSE
      /\ port' = IF command = "read" THEN Contents(Address) ELSE port
      /\ UNCHANGED <<pc, call, buf, result, regs, command, flush, cache, medium, drive>>
  BY DEF DriveRequests, driverVars
<1>2. pc = "drq" /\ ~drq /\ command = call.op /\ Address = call.lba
  BY <1>1, AskedAtDrq
<1>3. DrqInv'
  BY <1>1, <1>2, SameStore DEF AtaInv, DrqInv, Reads, Writes
<1>4. AtaInv'
  BY <1>1, <1>2, <1>3, SameStore DEF AtaInv, AtaTypes, NoCallInv, CalledInv, DataInv, FlushInv
<1>5. QED
  BY <1>1, <1>4, DiskStutters

LEMMA RefusesStep ==
  ASSUME AtaInv, DriveRefuses
  PROVE  AtaInv' /\ DiskStep
<1>1. /\ bsy /\ command # "none" /\ port = <<>> /\ bsy' = FALSE /\ command' = "none"
      /\ UNCHANGED <<pc, call, buf, result, drq, regs, port, flush, cache, medium, drive>>
  BY DEF DriveRefuses, driverVars
<1>2. pc = "drq" /\ ~drq
  BY <1>1, AskedAtDrq
<1>3. AtaInv'
  BY <1>1, <1>2, SameStore DEF AtaInv, AtaTypes, NoCallInv, CalledInv, DrqInv, DataInv,
     FlushInv, Reads, Writes
<1>4. QED
  BY <1>1, <1>3, DiskStutters

(* one sector that changes, as a function *)
LEMMA ContentsExcept ==
  ASSUME call.lba \in Lbas, UNCHANGED call, Contents(call.lba)' = call.data,
         \A l \in Lbas \ {call.lba} : Contents(l)' = Contents(l)
  PROVE  [l \in Lbas |-> Contents(l)]'
           = [[l \in Lbas |-> Contents(l)] EXCEPT ![call.lba] = call.data]
<1>. DEFINE f == [l \in Lbas |-> Contents(l)]
            g == [f EXCEPT ![call.lba] = call.data]
<1>1. g = [l \in Lbas |-> IF l = call.lba THEN call.data ELSE Contents(l)]
  OBVIOUS
<1>2. \A l \in Lbas : Contents(l)' = IF l = call.lba THEN call.data ELSE Contents(l)
  OBVIOUS
<1>3. QED
  BY Zenon, <1>1, <1>2

(* the drive has the sector, in its cache or on the medium: the write      *)
(* takes effect                                                            *)
LEMMA StoresStep ==
  ASSUME AtaInv, DriveStores
  PROVE  AtaInv' /\ DiskStep
<1>1. /\ bsy /\ command = "write" /\ Len(port) = WORDS
      /\ command' = "none" /\ port' = <<>> /\ bsy' = flush
      /\ UNCHANGED <<pc, call, buf, result, drq, regs, flush, drive>>
  BY DEF DriveStores, driverVars
<1>2. port # <<>>
  BY <1>1, AtaAssumption
<1>3. pc \in {"flush", "wait_flush"}
  BY <1>1, <1>2 DEF AtaInv, AtaTypes, NoCallInv, CalledInv, DrqInv, DataInv, Quiet
<1>4. Writes /\ ~drq /\ regs = Registers(call.lba) /\ Storing
  BY <1>1, <1>3 DEF AtaInv, FlushInv, Stored
<1>5. Address = call.lba /\ port = call.data /\ call.lba \in Lbas /\ call.data \in Sectors
      /\ call.data # Clean
  BY <1>4, AddressOfRegisters, CleanIsNoSector DEF Writes, Storing
<1>6. Lazy' = Lazy /\ (Lazy \/ AllClean)
  BY <1>1, <1>4 DEF Lazy, Storing, Settled
<1>7. /\ AtaTypes' /\ Stored'
      /\ [l \in Lbas |-> Contents(l)]'
           = [[l \in Lbas |-> Contents(l)] EXCEPT ![call.lba] = call.data]
      /\ medium' \in {medium, [l \in Lbas |-> Contents(l)]'}
  <2>1. CASE drive.cache
    <3>1. cache' = [cache EXCEPT ![call.lba] = call.data] /\ UNCHANGED medium
      BY <1>5, <2>1 DEF DriveStores
    <3>2. AtaTypes'
      BY <1>1, <1>5, <2>1, <3>1 DEF AtaInv, AtaTypes
    <3>3. cache'[call.lba] = call.data /\ \A l \in Lbas \ {call.lba} : cache'[l] = cache[l]
      BY <1>5, <3>1 DEF AtaInv, AtaTypes
    <3>4. Contents(call.lba)' = call.data
          /\ \A l \in Lbas \ {call.lba} : Contents(l)' = Contents(l)
      BY <1>1, <1>5, <3>1, <3>3 DEF Contents
    <3>5. Lazy \/ \A l \in Lbas \ {call.lba} : cache'[l] = Clean
      BY <1>6, <3>3 DEF AllClean
    <3>6. Stored'
      BY <1>1, <1>3, <1>4, <1>6, <2>1, <3>4, <3>5 DEF Storing, Stored
    <3>7. QED
      BY <1>1, <1>5, <3>1, <3>2, <3>4, <3>6, ContentsExcept
  <2>2. CASE ~drive.cache
    <3>1. medium' = [medium EXCEPT ![call.lba] = call.data] /\ UNCHANGED cache
      BY <1>5, <2>2 DEF DriveStores
    <3>2. AllClean /\ AllClean'
      BY <2>2, <3>1 DEF AtaInv, AtaTypes, AllClean
    <3>3. AtaTypes'
      BY <1>1, <1>5, <3>1, <3>2 DEF AtaInv, AtaTypes
    <3>4. Contents(call.lba)' = call.data
          /\ \A l \in Lbas \ {call.lba} : Contents(l)' = Contents(l)
      BY <1>1, <1>5, <3>1, <3>2 DEF AtaInv, AtaTypes, AllClean, Contents
    <3>5. Stored'
      BY <1>1, <1>4, <1>5, <3>2, <3>4 DEF Storing, Stored, AllClean
    <3>6. [l \in Lbas |-> Contents(l)]' = medium'
      <4>1. medium' = [l \in Lbas |-> medium'[l]]
        BY <3>3 DEF AtaTypes
      <4>2. \A l \in Lbas : Contents(l)' = medium'[l]
        BY <3>2 DEF AllClean, Contents
      <4>3. QED
        BY Zenon, <4>1, <4>2
    <3>7. QED
      BY <1>1, <1>5, <3>3, <3>4, <3>5, <3>6, ContentsExcept
  <2>3. QED
    BY <2>1, <2>2
<1>8. AtaInv'
  BY <1>1, <1>3, <1>4, <1>7 DEF AtaInv, NoCallInv, CalledInv, DrqInv, DataInv,
     FlushInv, Writes
<1>9. Disk!WriteTakesEffect
  BY <1>1, <1>4, <1>6, <1>7 DEF Disk!WriteTakesEffect, Writes
<1>10. QED
  BY <1>8, <1>9 DEF DiskStep, Disk!Next

(* some of the cache reaches the medium *)
LEMMA DestageStep ==
  ASSUME AtaInv, DriveFlushes \/ DriveDestages
  PROVE  AtaInv' /\ DiskStep
<1>1. UNCHANGED <<pc, call, buf, result, drq, regs, command, port, drive>>
  BY DEF DriveFlushes, DriveDestages, driverVars
<1>2. PICK S \in SUBSET Lbas :
        /\ Destage(S)
        /\ \/ S = Lbas /\ flush /\ command = "none" /\ flush' = FALSE /\ bsy' = FALSE
           \/ UNCHANGED <<flush, bsy>>
  BY DEF DriveFlushes, DriveDestages
<1>3. \A l \in Lbas : /\ cache'[l] = IF l \in S THEN Clean ELSE cache[l]
                      /\ medium'[l] = IF l \in S THEN Contents(l) ELSE medium[l]
  BY <1>2 DEF Destage
<1>4. \A l \in Lbas : Contents(l)' = Contents(l)
  BY <1>3 DEF Contents
<1>5. Lazy' = Lazy /\ (AllClean => AllClean')
  BY <1>1, <1>2 DEF Lazy, AllClean, Destage
<1>6. AtaTypes'
  <2>1. \A l \in Lbas : Contents(l) \in Sectors
    BY ContentsType DEF AtaInv
  <2>2. medium' \in [Lbas -> Sectors] /\ cache' \in [Lbas -> Sectors \cup {Clean}]
    BY <1>2, <2>1 DEF Destage, AtaInv, AtaTypes
  <2>3. QED
    BY <1>1, <1>2, <1>5, <2>2 DEF AtaInv, AtaTypes
<1>7. AtaInv'
  <2>1. CASE UNCHANGED <<flush, bsy>>
    <3>1. NoCallInv' /\ CalledInv'
      BY <1>1, <1>5, <2>1 DEF AtaInv, NoCallInv, CalledInv, Quiet, Settled, Reads, Writes
    <3>2. DrqInv' /\ DataInv'
      BY <1>1, <1>4, <1>5, <2>1 DEF AtaInv, DrqInv, DataInv, Settled, Reads, Writes, Part
    <3>3. Storing => Storing'
      BY <1>1, <1>5, <2>1 DEF Storing, Settled
    <3>4. Writes /\ Stored => Stored'
      BY <1>1, <1>3, <1>4, <1>5, <2>1 DEF Stored, Writes
    <3>5. FlushInv'
      BY <1>1, <2>1, <3>3, <3>4 DEF AtaInv, FlushInv, Writes
    <3>6. QED
      BY <1>6, <3>1, <3>2, <3>5 DEF AtaInv
  <2>2. CASE S = Lbas /\ flush /\ command = "none" /\ flush' = FALSE /\ bsy' = FALSE
    <3>1. pc = "wait_flush" /\ Writes /\ ~drq /\ regs = Registers(call.lba) /\ Stored
      BY <2>2 DEF AtaInv, AtaTypes, NoCallInv, CalledInv, DrqInv, DataInv, FlushInv, Storing,
         Stored, Quiet
    <3>2. Stored'
      BY <1>1, <1>3, <1>4, <2>2, <3>1 DEF Stored, Writes
    <3>3. QED
      BY <1>1, <1>6, <3>1, <3>2 DEF AtaInv, NoCallInv, CalledInv, DrqInv, DataInv, FlushInv,
         Writes
  <2>3. QED
    BY <1>2, <2>1, <2>2
<1>8. Disk!Settles
  <2>1. [l \in Lbas |-> Contents(l)]' = [l \in Lbas |-> Contents(l)]
    BY <1>4
  <2>2. medium' = [l \in Lbas |-> IF l \in S THEN [m \in Lbas |-> Contents(m)][l] ELSE medium[l]]
    BY <1>2 DEF Destage
  <2>3. QED
    BY <1>1, <1>5, <2>1, <2>2 DEF Disk!Settles
<1>9. QED
  BY <1>7, <1>8 DEF DiskStep, Disk!Next

(* power goes: nothing but the medium stays *)
LEMMA PowerStep ==
  ASSUME AtaInv, PowerLoss
  PROVE  AtaInv' /\ DiskStep
<1>1. /\ pc' = "off" /\ call' = NoCall /\ result' = NoResult /\ UNCHANGED <<medium, drive>>
      /\ bsy' \in BOOLEAN /\ Quiet' /\ flush' = FALSE /\ drq' = FALSE /\ AllClean'
      /\ cache' = [l \in Lbas |-> Clean]
  BY DEF PowerLoss, NoCommand, Quiet, AllClean
<1>2. AtaInv'
  BY <1>1 DEF AtaInv, AtaTypes, Settled, NoCallInv, CalledInv, DrqInv, DataInv, FlushInv
<1>3. Disk!PowerLoss
  <2>1. [l \in Lbas |-> Contents(l)]' = medium'
    <3>1. medium' = [l \in Lbas |-> medium'[l]]
      BY <1>2 DEF AtaInv, AtaTypes
    <3>2. \A l \in Lbas : Contents(l)' = medium'[l]
      BY <1>1 DEF AllClean, Contents
    <3>3. QED
      BY Zenon, <3>1, <3>2
  <2>2. QED
    BY <1>1, <2>1 DEF Disk!PowerLoss, NoCall, Disk!NoCall, NoResult, Disk!NoResult, Lazy
<1>4. QED
  BY <1>2, <1>3 DEF DiskStep, Disk!Next

LEMMA AtaStep == AtaInv /\ [Next]_vars => AtaInv' /\ DiskStep
<1>. SUFFICES ASSUME AtaInv, [Next]_vars PROVE AtaInv' /\ DiskStep
  OBVIOUS
<1>1. CASE Driver
  BY <1>1, PollStep, CommandStep, DrqStep, ReadStep, WriteStep, FlushStep, WriteReturnsStep
     DEF Driver
<1>2. CASE Drive \/ DriveDestages
  BY <1>2, ReadyStep, RequestsStep, RefusesStep, StoresStep, DestageStep DEF Drive
<1>3. CASE PowerLoss
  BY <1>3, PowerStep
<1>4. CASE \E lba \in Lbas : ReadSector(lba) \/ \E data \in Sectors : WriteSector(lba, data)
  BY <1>4, StartStep
<1>5. CASE UNCHANGED vars
  <2>1. UNCHANGED <<pc, call, buf, result, bsy, drq, regs, command, port, flush>>
        /\ UNCHANGED <<cache, medium, drive>>
    BY <1>5 DEF vars, driverVars, driveVars
  <2>2. AtaInv'
    BY <2>1, SameStore DEF AtaInv, AtaTypes, NoCallInv, CalledInv, DrqInv, DataInv, FlushInv,
       Quiet, Reads, Writes, Part, Storing, Stored
  <2>3. QED
    BY <2>1, <2>2, DiskStutters
<1>6. QED
  BY <1>1, <1>2, <1>3, <1>4, <1>5 DEF Next

-----------------------------------------------------------------------------
(* The driver implements a disk of atomic sectors; on a drive that is not  *)
(* lazy a write that returned stays, which is the disk that the file       *)
(* system's behaviour under power loss is proved on.                       *)
THEOREM AtaImplementsDisk == Spec => ImplementsDisk
BY AtaInitInv, AtaStep, PTL DEF Spec, ImplementsDisk, Disk!Spec, DiskStep

(* Read and write commands are given only to a drive that is not in the    *)
(* middle of one, the flush command only to one that asks for nothing and  *)
(* at most stores the sector it has got.                                   *)
THEOREM AtaReadyForCommand == Spec => []ReadyForCommand
<1>1. AtaInv => ReadyForCommand
  BY DEF AtaInv, CalledInv, FlushInv, Storing, Stored, Quiet, ReadyForCommand
<1>2. QED
  BY <1>1, AtaInitInv, AtaStep, PTL DEF Spec

-----------------------------------------------------------------------------
(* Transfers end: driver and drive never both wait, and every step of      *)
(* either comes nearer to the end.                                         *)

DriverCanMove ==
  \/ pc \in {"command", "data", "flush"}
  \/ pc \in {"wait", "wait_flush"} /\ ata_wait
  \/ pc = "drq" /\ drq

DriveCanMove ==
  \/ bsy /\ command = "none" /\ ~flush
  \/ bsy /\ command # "none" /\ port = <<>>
  \/ bsy /\ command = "write" /\ Len(port) = WORDS
  \/ flush /\ command = "none"

(* While the driver is in a call for a sector that is not bad, one of the  *)
(* two can go on: ata_wait and ata_wait_drq never poll a drive that has    *)
(* nothing left to do.                                                     *)
NeverBothWait ==
  call # NoCall /\ call.lba \notin BadSectors => DriverCanMove \/ DriveCanMove

(* only a bad sector is refused *)
RefusedBad == pc = "drq" /\ ~bsy /\ ~drq => call.lba \in BadSectors

LEMMA CalledAt == AtaInv => (call # NoCall <=> pc \notin {"off", "idle"})
<1>. SUFFICES ASSUME AtaInv PROVE call # NoCall <=> pc \notin {"off", "idle"}
  OBVIOUS
<1>1. ASSUME Reads \/ Writes PROVE call # NoCall
  <2>1. call.op \in {"read", "write"}
    BY <1>1 DEF Reads, Writes
  <2>2. NoCall.op = "none"
    BY DEF NoCall
  <2>3. QED
    BY <2>1, <2>2
<1>2. pc \in {"off", "idle"} => call = NoCall
  BY DEF AtaInv, NoCallInv
<1>3. pc \notin {"off", "idle"} => Reads \/ Writes
  BY DEF AtaInv, AtaTypes, CalledInv, DrqInv, DataInv, FlushInv
<1>4. QED
  BY <1>1, <1>2, <1>3

LEMMA RefusedStep == AtaInv /\ RefusedBad /\ [Next]_vars => RefusedBad'
<1>. SUFFICES ASSUME AtaInv, RefusedBad, [Next]_vars, pc' = "drq", ~bsy', ~drq'
              PROVE  call'.lba \in BadSectors
  BY DEF RefusedBad
<1>1. CASE Driver
  <2>1. Command
    BY <1>1 DEF Driver, ata_init, Wait, ata_wait_drq, ReadWord, WriteWord, Flush,
       WriteReturns, Goto, Returns
  <2>2. QED
    BY <2>1 DEF Command
<1>2. CASE DriveRefuses
  <2>1. bsy /\ command # "none" /\ port = <<>> /\ Address \notin Lbas \ BadSectors /\ call' = call
    BY <1>2 DEF DriveRefuses, driverVars
  <2>2. pc = "drq" /\ Address = call.lba
    BY <2>1, AskedAtDrq
  <2>3. call.lba \in Lbas
    BY <2>2 DEF AtaInv, DrqInv, Reads, Writes
  <2>4. QED
    BY <2>1, <2>2, <2>3
<1>3. CASE DriveReady \/ DriveStores \/ DriveFlushes
  <2>1. pc = "drq"
    BY <1>3 DEF DriveReady, DriveStores, DriveFlushes, driverVars
  <2>2. (bsy => command # "none" /\ port = <<>>) /\ ~flush
    <3>1. call.op # "none"
      BY <2>1 DEF AtaInv, DrqInv, Reads, Writes
    <3>2. QED
      BY <2>1, <3>1 DEF AtaInv, DrqInv
  <2>3. Len(<<>>) # WORDS
    BY AtaAssumption
  <2>4. QED
    BY <1>3, <2>2, <2>3 DEF DriveReady, DriveStores, DriveFlushes
<1>4. CASE DriveRequests
  BY <1>4 DEF DriveRequests
<1>5. CASE DriveDestages \/ UNCHANGED vars
  BY <1>5 DEF DriveDestages, vars, driverVars, driveVars, RefusedBad
<1>6. CASE PowerLoss
  BY <1>6 DEF PowerLoss
<1>7. CASE \E lba \in Lbas : ReadSector(lba) \/ \E data \in Sectors : WriteSector(lba, data)
  BY <1>7 DEF ReadSector, WriteSector, Goto
<1>8. QED
  BY <1>1, <1>2, <1>3, <1>4, <1>5, <1>6, <1>7 DEF Next, Drive

LEMMA SomeoneMoves == AtaInv /\ RefusedBad => NeverBothWait
<1>. SUFFICES ASSUME AtaInv, RefusedBad, call # NoCall, call.lba \notin BadSectors
              PROVE  DriverCanMove \/ DriveCanMove
  BY DEF NeverBothWait
<1>1. pc \in {"wait", "command", "drq", "data", "flush", "wait_flush"}
  BY CalledAt DEF AtaInv, AtaTypes
<1>2. CASE pc \in {"command", "data", "flush"}
  BY <1>2 DEF DriverCanMove
<1>3. CASE pc = "wait"
  BY <1>3 DEF AtaInv, AtaTypes, CalledInv, Quiet, DriverCanMove, DriveCanMove, ata_wait
<1>4. CASE pc = "drq"
  <2>1. drq \/ bsy
    BY <1>4 DEF RefusedBad
  <2>2. call.op # "none"
    BY <1>4 DEF AtaInv, DrqInv, Reads, Writes
  <2>3. QED
    BY <1>4, <2>1, <2>2 DEF AtaInv, DrqInv, DriverCanMove, DriveCanMove
<1>5. CASE pc = "wait_flush"
  <2>1. call.data \in Sectors /\ (Storing \/ Stored)
    BY <1>5 DEF AtaInv, FlushInv, Writes
  <2>2. Len(call.data) = WORDS
    BY <2>1, AtaAssumption DEF Sectors
  <2>3. CASE Storing
    BY <2>2, <2>3 DEF Storing, DriveCanMove
  <2>4. CASE Stored
    BY <1>5, <2>4 DEF Stored, DriverCanMove, DriveCanMove, ata_wait
  <2>5. QED
    BY <2>1, <2>3, <2>4
<1>6. QED
  BY <1>1, <1>2, <1>3, <1>4, <1>5

(* ata_wait and ata_wait_drq never wait for a drive that waits for them,   *)
(* unless the sector is bad.                                               *)
THEOREM AtaNeverBothWait == Spec => []NeverBothWait
<1>1. Init => RefusedBad
  BY DEF Init, RefusedBad
<1>2. QED
  BY <1>1, RefusedStep, SomeoneMoves, AtaInitInv, AtaStep, PTL DEF Spec

(* what of a transfer is still to be done, by the driver and by the drive *)
One(condition) == IF condition THEN 1 ELSE 0
Moved == Len(IF call.op = "read" THEN buf ELSE port)

TransferAhead ==
  CASE pc = "wait"       -> WORDS + 8 + One(bsy)
    [] pc = "command"    -> WORDS + 7
    [] pc = "drq"        -> WORDS + 5 + One(bsy)
    [] pc = "data"       -> WORDS - Moved + 4
    [] pc = "flush"      -> 3 + One(command # "none")
    [] pc = "wait_flush" -> One(command # "none") + One(flush)

(* A step inside a read or a write ends the call, lowers what is ahead of  *)
(* it, or is the drive destaging its cache, which leaves it alone.         *)
TransferDescends ==
  call # NoCall =>
    /\ TransferAhead \in Nat
    /\ \/ call' = NoCall
       \/ TransferAhead' < TransferAhead
       \/ DriveDestages /\ TransferAhead' = TransferAhead

LEMMA MovedSoFar == AtaInv /\ pc = "data" => Moved \in 0 .. WORDS - 1
<1>. SUFFICES ASSUME AtaInv, pc = "data" PROVE Moved \in 0 .. WORDS - 1
  OBVIOUS
<1>1. \A data \in Sectors : \A words : Part(words, data) => Len(words) \in 0 .. WORDS - 1
  BY FirstFacts DEF Part
<1>2. CASE Reads /\ port = Contents(call.lba) /\ Part(buf, port)
  <2>1. port \in Sectors /\ call.op = "read"
    BY <1>2, ContentsType DEF AtaInv, Reads
  <2>2. QED
    BY <1>1, <1>2, <2>1 DEF Moved
<1>3. CASE Writes /\ Part(port, call.data)
  <2>1. call.data \in Sectors /\ call.op = "write"
    BY <1>3 DEF Writes
  <2>2. QED
    BY <1>1, <1>3, <2>1 DEF Moved
<1>4. QED
  BY <1>2, <1>3 DEF AtaInv, DataInv

LEMMA AheadType ==
  AtaInv /\ call # NoCall => TransferAhead \in Nat
<1>. SUFFICES ASSUME AtaInv, call # NoCall PROVE TransferAhead \in Nat
  OBVIOUS
<1>1. pc \in {"wait", "command", "drq", "data", "flush", "wait_flush"}
  BY CalledAt DEF AtaInv, AtaTypes
<1>2. WORDS \in Nat
  BY AtaAssumption
<1>3. CASE pc = "data"
  <2>1. TransferAhead = WORDS - Moved + 4
    BY <1>3 DEF TransferAhead
  <2>2. Moved \in 0 .. WORDS - 1
    BY <1>3, MovedSoFar
  <2>3. QED
    BY <1>2, <2>1, <2>2
<1>4. CASE pc # "data"
  BY <1>1, <1>2, <1>4 DEF TransferAhead, One
<1>5. QED
  BY <1>3, <1>4

(* one more word moved: one fewer ahead, or the sector is complete *)
LEMMA MovesOne ==
  ASSUME NEW words, NEW data \in Sectors, Part(words, data)
  PROVE  /\ Len(words) \in 0 .. WORDS - 1
         /\ Len(Append(words, data[Len(words) + 1])) = Len(words) + 1
<1>1. PICK n \in 0 .. WORDS - 1 : words = First(n, data)
  BY DEF Part
<1>2. QED
  BY <1>1, FirstFacts

LEMMA DriverDescends ==
  ASSUME AtaInv, call # NoCall, Driver
  PROVE  call' = NoCall \/ TransferAhead' < TransferAhead
<1>1. WORDS \in Nat \ {0}
  BY AtaAssumption
<1>2. CASE ata_init
  BY <1>2, CalledAt DEF ata_init, Goto
<1>3. CASE Wait
  BY <1>1, <1>3 DEF Wait, Goto, TransferAhead, One
<1>4. CASE Command
  BY <1>1, <1>4 DEF Command, Goto, TransferAhead, One
<1>5. CASE ata_wait_drq
  <2>1. /\ pc = "drq" /\ pc' = "data" /\ drq
        /\ UNCHANGED <<call, buf, port>>
    BY <1>5 DEF ata_wait_drq, Goto, driveVars
  <2>2. ~bsy
    BY <2>1 DEF AtaInv, DrqInv
  <2>3. TransferAhead = WORDS + 5
    BY <1>1, <2>1, <2>2 DEF TransferAhead, One
  <2>4. Moved' = 0
    <3>1. CASE call.op = "read"
      BY <2>1, <3>1 DEF AtaInv, DrqInv, Moved, Writes
    <3>2. CASE call.op # "read"
      BY <2>1, <3>2 DEF AtaInv, DrqInv, Moved
    <3>3. QED
      BY <3>1, <3>2
  <2>5. TransferAhead' = WORDS - Moved' + 4
    BY <2>1 DEF TransferAhead
  <2>6. QED
    BY <1>1, <2>3, <2>4, <2>5
<1>6. CASE ReadWord
  <2>1. pc = "data" /\ call.op = "read"
    BY <1>6 DEF ReadWord
  <2>2. port \in Sectors /\ Part(buf, port)
    BY <2>1, ContentsType DEF AtaInv, DataInv, Reads, Writes
  <2>3. Len(buf) \in 0 .. WORDS - 1 /\ Len(Append(buf, port[Len(buf) + 1])) = Len(buf) + 1
    BY <2>2, MovesOne
  <2>4. \/ call' = NoCall
        \/ buf' = Append(buf, port[Len(buf) + 1]) /\ UNCHANGED <<pc, call>>
    BY <1>6 DEF ReadWord, Returns
  <2>5. CASE buf' = Append(buf, port[Len(buf) + 1]) /\ UNCHANGED <<pc, call>>
    <3>1. Moved = Len(buf) /\ Moved' = Len(buf) + 1
      BY <2>1, <2>3, <2>5 DEF Moved
    <3>2. TransferAhead = WORDS - Moved + 4 /\ TransferAhead' = WORDS - Moved' + 4
      BY <2>1, <2>5 DEF TransferAhead
    <3>3. QED
      BY <1>1, <2>3, <3>1, <3>2
  <2>6. QED
    BY <2>4, <2>5
<1>7. CASE WriteWord
  <2>1. /\ pc = "data" /\ call.op = "write" /\ call' = call
        /\ port' = Append(port, call.data[Len(port) + 1])
        /\ pc' = IF Len(port') = WORDS THEN "flush" ELSE pc
    BY <1>7 DEF WriteWord
  <2>2. call.data \in Sectors /\ Part(port, call.data)
    BY <2>1 DEF AtaInv, DataInv, Reads, Writes
  <2>3. Len(port) \in 0 .. WORDS - 1 /\ Len(port') = Len(port) + 1
    BY <2>1, <2>2, MovesOne
  <2>4. TransferAhead = WORDS - Len(port) + 4
    BY <2>1 DEF TransferAhead, Moved
  <2>5. CASE Len(port') = WORDS
    <3>1. TransferAhead' \in {3, 4}
      BY <2>1, <2>5 DEF TransferAhead, One
    <3>2. TransferAhead = 5
      BY <1>1, <2>3, <2>4, <2>5
    <3>3. QED
      BY <3>1, <3>2
  <2>6. CASE Len(port') # WORDS
    <3>1. TransferAhead' = WORDS - Len(port') + 4
      BY <2>1, <2>6 DEF TransferAhead, Moved
    <3>2. QED
      BY <1>1, <2>3, <2>4, <3>1
  <2>7. QED
    BY <2>5, <2>6
<1>8. CASE Flush
  <2>1. pc = "flush" /\ pc' = "wait_flush" /\ command' = command
    BY <1>8 DEF Flush, Goto
  <2>2. QED
    BY <2>1 DEF TransferAhead, One
<1>9. CASE WriteReturns
  BY <1>9 DEF WriteReturns, Returns
<1>10. QED
  BY <1>2, <1>3, <1>4, <1>5, <1>6, <1>7, <1>8, <1>9 DEF Driver

LEMMA DriveDescends ==
  ASSUME AtaInv, call # NoCall, Drive
  PROVE  TransferAhead' < TransferAhead
<1>1. WORDS \in Nat \ {0}
  BY AtaAssumption
<1>2. pc \in {"wait", "command", "drq", "data", "flush", "wait_flush"}
  BY CalledAt DEF AtaInv, AtaTypes
<1>3. UNCHANGED <<pc, call, buf>>
  BY DEF Drive, DriveReady, DriveRequests, DriveRefuses, DriveStores, DriveFlushes, driverVars
<1>4. CASE DriveReady
  <2>1. bsy /\ ~bsy' /\ command = "none" /\ ~flush
    BY <1>4 DEF DriveReady
  <2>2. pc # "drq"
    <3>1. pc = "drq" => call.op # "none"
      BY DEF AtaInv, DrqInv, Reads, Writes
    <3>2. QED
      BY <2>1, <3>1 DEF AtaInv, DrqInv
  <2>3. pc = "wait"
    BY <1>2, <2>1, <2>2 DEF AtaInv, CalledInv, DataInv, FlushInv, Storing, Stored
  <2>4. QED
    BY <1>1, <1>3, <2>1, <2>3 DEF TransferAhead, One
<1>5. CASE DriveRequests \/ DriveRefuses
  <2>1. bsy /\ ~bsy' /\ command # "none" /\ port = <<>>
    BY <1>5 DEF DriveRequests, DriveRefuses
  <2>2. pc = "drq"
    BY <2>1, AskedAtDrq
  <2>3. QED
    BY <1>1, <1>3, <2>1, <2>2 DEF TransferAhead, One
<1>6. CASE DriveStores
  <2>1. /\ bsy /\ command = "write" /\ Len(port) = WORDS
        /\ command' = "none" /\ flush' = flush
    BY <1>6 DEF DriveStores
  <2>2. pc # "drq"
    <3>1. Len(<<>>) # WORDS
      BY <1>1
    <3>2. QED
      BY <2>1, <3>1 DEF AtaInv, DrqInv
  <2>3. pc \in {"flush", "wait_flush"}
    BY <1>2, <2>1, <2>2 DEF AtaInv, CalledInv, DataInv, Quiet
  <2>4. QED
    BY <1>3, <2>1, <2>3 DEF TransferAhead, One
<1>7. CASE DriveFlushes
  <2>1. flush /\ command = "none" /\ ~flush' /\ command' = command
    BY <1>7 DEF DriveFlushes
  <2>2. pc = "wait_flush"
    BY <1>2, <2>1 DEF AtaInv, CalledInv, DrqInv, DataInv, FlushInv, Quiet, Storing, Stored
  <2>3. QED
    BY <1>3, <2>1, <2>2 DEF TransferAhead, One
<1>8. QED
  BY <1>4, <1>5, <1>6, <1>7 DEF Drive

(* In a transfer every step of the driver or of the drive comes nearer to  *)
(* its end, on a bad sector too; the drive's own destaging changes nothing *)
(* about it.  With AtaNeverBothWait: no poll loop goes round for ever.     *)
THEOREM AtaTransferDescends == Spec => [][TransferDescends]_vars
<1>1. AtaInv /\ [Next]_vars => [TransferDescends]_vars
  <2>. SUFFICES ASSUME AtaInv, Next, call # NoCall PROVE TransferDescends
    BY DEF TransferDescends
  <2>1. TransferAhead \in Nat
    BY AheadType
  <2>2. CASE Driver
    BY <2>1, <2>2, DriverDescends DEF TransferDescends
  <2>3. CASE Drive
    BY <2>1, <2>3, DriveDescends DEF TransferDescends
  <2>4. CASE DriveDestages
    <3>1. TransferAhead' = TransferAhead
      BY <2>4 DEF DriveDestages, driverVars, TransferAhead, Moved, One
    <3>2. QED
      BY <2>1, <2>4, <3>1 DEF TransferDescends
  <2>5. CASE PowerLoss
    BY <2>1, <2>5 DEF PowerLoss, TransferDescends
  <2>6. CASE \E lba \in Lbas : ReadSector(lba) \/ \E data \in Sectors : WriteSector(lba, data)
    BY <2>6, CalledAt DEF ReadSector, WriteSector, Goto
  <2>7. QED
    BY <2>2, <2>3, <2>4, <2>5, <2>6 DEF Next
<1>2. QED
  BY <1>1, AtaInitInv, AtaStep, PTL DEF Spec
=============================================================================
