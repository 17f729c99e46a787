-------------------------------- MODULE Disk --------------------------------
(***************************************************************************)
(* What the ATA driver promises the file system: sectors, and calls that   *)
(* read or write one whole sector.  A write takes effect at one instant,   *)
(* before it returns.  Losing power ends the call that is running, tears   *)
(* no sector, and undoes what has not settled, which on a disk that is not *)
(* lazy is at most the write it interrupts.                                *)
(***************************************************************************)
EXTENDS Integers

CONSTANTS Lbas, Sectors

VARIABLES
  sectors,     \* lba |-> contents
  stable,      \* lba |-> contents after a loss of power
  lazy,        \* does it let a write return that has not settled
  call,        \* the call that is running, or NoCall
  result       \* what the last read returned

vars == <<sectors, stable, lazy, call, result>>

NoCall == [op |-> "none"]
NoResult == <<>>
Reading(lba) == [op |-> "read", lba |-> lba]
Writing(lba, data) == [op |-> "write", lba |-> lba, data |-> data]

Init ==
  /\ stable \in [Lbas -> Sectors] /\ sectors = stable /\ lazy \in BOOLEAN
  /\ call = NoCall /\ result = NoResult

Starts ==
  /\ call = NoCall
  /\ \E lba \in Lbas :
       \/ call' = Reading(lba)
       \/ \E data \in Sectors : call' = Writing(lba, data)
  /\ UNCHANGED <<sectors, stable, lazy, result>>

ReadReturns ==
  /\ call.op = "read" /\ call' = NoCall
  /\ result' = sectors[call.lba] /\ UNCHANGED <<sectors, stable, lazy>>

(* at once for good, or not yet *)
WriteTakesEffect ==
  /\ call.op = "write"
  /\ sectors' = [sectors EXCEPT ![call.lba] = call.data]
  /\ stable' \in {stable, sectors'}
  /\ UNCHANGED <<lazy, call, result>>

(* some sectors, in any order *)
Settles ==
  /\ \E S \in SUBSET Lbas :
       stable' = [l \in Lbas |-> IF l \in S THEN sectors[l] ELSE stable[l]]
  /\ UNCHANGED <<sectors, lazy, call, result>>

WriteReturns ==
  /\ call.op = "write" /\ sectors[call.lba] = call.data
  /\ lazy \/ stable = sectors
  /\ call' = NoCall /\ UNCHANGED <<sectors, stable, lazy, result>>

PowerLoss ==
  /\ sectors' = stable /\ call' = NoCall /\ result' = NoResult
  /\ UNCHANGED <<stable, lazy>>

Next ==
  Starts \/ ReadReturns \/ WriteTakesEffect \/ Settles \/ WriteReturns \/ PowerLoss

Spec == Init /\ [][Next]_vars
=============================================================================
