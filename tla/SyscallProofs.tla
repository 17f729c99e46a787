---------------------------- MODULE SyscallProofs ---------------------------
(***************************************************************************)
(* Proofs about the descriptor table, for every table size, any number of  *)
(* files and any program.                                                  *)
(***************************************************************************)
EXTENDS Syscall, WellFoundedInduction, TLAPS

(* A program runs only inside a keyboard interrupt that was never          *)
(* acknowledged, so no shell command can run beside it; and it starts with *)
(* no descriptor but the standard ones.  Descriptor 0 keeps the name it    *)
(* never got.                                                              *)
SyscallInv ==
  /\ DOMAIN fds = Fds
  /\ machine \in {"shell", "user", "halted"}
  /\ machine = "user" => in_service
  /\ machine = "shell" => \A fd \in Fds \ Standard : ~fds[fd].used
  /\ fds[0].name \in Uninit /\ DOMAIN files \subseteq Names
  /\ OpenFilesExist
  /\ OpenedExactly

(* the free slots have a least element, which SYS_OPEN takes *)
LEMMA LowestFree ==
  ASSUME FreeSlots # {}
  PROVE  (CHOOSE f \in FreeSlots : \A g \in FreeSlots : f <= g) \in FreeSlots
<1>. DEFINE Less == {ss \in Nat \X Nat : ss[1] < ss[2]}
<1>a. IsWellFoundedOn(Less, Nat)
  BY NatLessThanWellFounded DEF OpToRel
<1>b. \A x, y \in Nat : y < x => <<y, x>> \in Less
  OBVIOUS
<1>c. FreeSlots \in SUBSET Nat
  BY SyscallAssumption DEF FreeSlots, Fds
<1>. HIDE DEF Less
<1>1. \E x \in FreeSlots : \A y \in FreeSlots : ~(<<y, x>> \in Less)
  BY <1>a, <1>c, WFMin
<1>2. \E x \in FreeSlots : \A y \in FreeSlots : x <= y
  <2>1. PICK x \in FreeSlots : \A y \in FreeSlots : ~(<<y, x>> \in Less)
    BY <1>1
  <2>2. \A y \in FreeSlots : ~(y < x)
    BY <1>b, <1>c, <2>1
  <2>3. QED
    BY <1>c, <2>2
<1>3. QED
  BY <1>2

(* a fresh descriptor table has only the standard descriptors *)
LEMMA FreshTable ==
  ASSUME NEW f \in FreshFds
  PROVE  /\ DOMAIN f = Fds /\ f[0].name \in Uninit
         /\ \A fd \in Fds \ Standard : ~f[fd].used
<1>1. f \in [Fds -> [used : BOOLEAN, name : Uninit]]
      /\ \A fd \in Fds : f[fd].used <=> fd \in Standard
  BY DEF FreshFds
<1>2. 0 \in Fds
  BY SyscallAssumption DEF Fds
<1>3. QED
  BY <1>1, <1>2

(* at power on *)
LEMMA SyscallInitInv == Init => SyscallInv
<1>. SUFFICES ASSUME Init PROVE SyscallInv
  OBVIOUS
<1>1. DOMAIN fds = Fds /\ fds[0].name \in Uninit /\ \A fd \in Fds \ Standard : ~fds[fd].used
  BY FreshTable DEF Init
<1>2. QED
  BY <1>1 DEF Init, SyscallInv, OpenFilesExist, OpenedExactly, InProgram

(* the commands of the shell run only when no program does *)
LEMMA CommandInv ==
  ASSUME SyscallInv, Deliverable, UNCHANGED <<fds, opened>>,
         machine' = machine \/ (machine' = "user" /\ in_service'),
         in_service' = in_service \/ machine' = "user",
         DOMAIN files' \subseteq Names
  PROVE  SyscallInv'
<1>1. machine = "shell"
  BY DEF SyscallInv, Deliverable
<1>2. \A fd \in Fds \ Standard : ~fds'[fd].used
  BY <1>1 DEF SyscallInv
<1>3. QED
  BY <1>1, <1>2 DEF SyscallInv, OpenFilesExist, OpenedExactly, InProgram

(* a system call that touches neither the table nor the set of files *)
LEMMA PlainCallInv ==
  ASSUME SyscallInv, InProgram, UNCHANGED <<in_service, fds, opened>>,
         DOMAIN files' = DOMAIN files, machine' \in {"user", "halted"}
  PROVE  SyscallInv'
BY DEF SyscallInv, OpenFilesExist, OpenedExactly, InProgram

(* SYS_OPEN that succeeds *)
LEMMA OpenInv ==
  ASSUME SyscallInv, NEW n \in Names, SysOpen(n)
  PROVE  SyscallInv'
<1>. DEFINE fd == CHOOSE f \in FreeSlots : \A g \in FreeSlots : f <= g
<1>1. fd \in Fds \ Standard /\ ~fds[fd].used
  <2>1. fd \in FreeSlots
    BY LowestFree DEF SysOpen
  <2>2. QED
    BY <2>1 DEF FreeSlots
<1>2. /\ fds' = [fds EXCEPT ![fd] = [used |-> TRUE, name |-> n]]
      /\ opened' = opened \cup {<<fd, n>>}
      /\ UNCHANGED <<machine, in_service, files>> /\ machine = "user"
  BY DEF SysOpen, InProgram
<1>. HIDE DEF fd
<1>3. n \in DOMAIN files
  BY SyscallAssumption DEF SysOpen, fs_read, Error
<1>4. DOMAIN fds' = Fds
  BY <1>2 DEF SyscallInv
<1>5. fds'[fd].used /\ fds'[fd].name = n
  BY <1>1, <1>2 DEF SyscallInv
<1>6. \A g \in Fds : g # fd => fds'[g] = fds[g]
  BY <1>2 DEF SyscallInv
<1>7. fds'[0].name \in Uninit
  BY <1>1, <1>6, SyscallAssumption DEF SyscallInv, Fds, Standard
<1>8. OpenFilesExist'
  BY <1>2, <1>3, <1>5, <1>6 DEF SyscallInv, OpenFilesExist, InProgram
<1>9. OpenedExactly'
  BY <1>1, <1>2, <1>5, <1>6 DEF SyscallInv, OpenedExactly
<1>10. QED
  BY <1>2, <1>4, <1>7, <1>8, <1>9 DEF SyscallInv

(* SYS_CLOSE that succeeds *)
LEMMA CloseInv ==
  ASSUME SyscallInv, NEW fd \in AnyFd, SysClose(fd)
  PROVE  SyscallInv'
<1>1. fd \in Fds \ Standard
  BY DEF SysClose, Usable
<1>2. /\ fds' = [fds EXCEPT ![fd].used = FALSE]
      /\ opened' = {o \in opened : o[1] # fd}
      /\ UNCHANGED <<machine, in_service, files>> /\ machine = "user"
  BY DEF SysClose, InProgram
<1>3. DOMAIN fds' = Fds /\ \A g \in Fds : g # fd => fds'[g] = fds[g]
  BY <1>2 DEF SyscallInv
<1>4. ~fds'[fd].used
  BY <1>1, <1>2 DEF SyscallInv
<1>5. fds'[0].name \in Uninit
  BY <1>1, <1>3, SyscallAssumption DEF SyscallInv, Fds, Standard
<1>6. OpenFilesExist'
  BY <1>2, <1>3, <1>4 DEF SyscallInv, OpenFilesExist, InProgram
<1>7. OpenedExactly'
  BY <1>1, <1>2, <1>3, <1>4 DEF SyscallInv, OpenedExactly
<1>8. QED
  BY <1>2, <1>3, <1>5, <1>6, <1>7 DEF SyscallInv

(* reset: a fresh table and no program *)
LEMMA ResetInv == SyscallInv /\ Reset => SyscallInv'
<1>. SUFFICES ASSUME SyscallInv, Reset PROVE SyscallInv'
  OBVIOUS
<1>1. DOMAIN fds' = Fds /\ fds'[0].name \in Uninit /\ \A fd \in Fds \ Standard : ~fds'[fd].used
  BY FreshTable DEF Reset
<1>2. QED
  BY <1>1 DEF Reset, SyscallInv, OpenFilesExist, OpenedExactly, InProgram

(* SYS_WRITE changes at most the contents of a file that exists *)
LEMMA WriteKeepsNames ==
  ASSUME NEW fd, NEW data, SysWrite(fd, data)
  PROVE  DOMAIN files' = DOMAIN files
BY DEF SysWrite, fs_write

LEMMA SyscallStepInv == SyscallInv /\ [Next]_vars => SyscallInv'
<1>. SUFFICES ASSUME SyscallInv, [Next]_vars PROVE SyscallInv'
  OBVIOUS
<1>1. ASSUME NEW n \in Names, cmd_touch(n) \/ cmd_rm(n) \/ cmd_run(n)
                              \/ \E data \in Payloads : cmd_write(n, data)
      PROVE  SyscallInv'
  <2>1. DOMAIN files' \subseteq Names
    BY <1>1 DEF cmd_touch, cmd_rm, cmd_run, cmd_write, fs_write, SyscallInv
  <2>2. QED
    BY <1>1, <2>1, CommandInv DEF cmd_touch, cmd_rm, cmd_run, cmd_write
<1>2. ASSUME NEW n \in Names, SysOpen(n) PROVE SyscallInv'
  BY <1>2, OpenInv
<1>3. ASSUME NEW n \in Names, SysOpenFails(n) PROVE SyscallInv'
  BY <1>3, PlainCallInv DEF SysOpenFails, InProgram
<1>4. ASSUME NEW fd \in AnyFd, SysClose(fd) PROVE SyscallInv'
  BY <1>4, CloseInv
<1>5. ASSUME NEW fd \in AnyFd, SysCloseFails(fd) PROVE SyscallInv'
  BY <1>5, PlainCallInv DEF SysCloseFails, InProgram
<1>6. ASSUME NEW fd \in AnyFd, NEW data \in Payloads, SysWrite(fd, data)
      PROVE  SyscallInv'
  BY <1>6, PlainCallInv, WriteKeepsNames DEF SysWrite, InProgram
<1>7. ASSUME NEW fd \in AnyFd, NEW size \in Sizes, SysRead(fd, size)
      PROVE  SyscallInv'
  BY <1>7, PlainCallInv DEF SysRead, InProgram
<1>8. CASE SysExit \/ Exception \/ SysUnknown
  BY <1>8, PlainCallInv DEF SysExit, Exception, SysUnknown, InProgram
<1>9. CASE Reset
  BY <1>9, ResetInv
<1>10. CASE UNCHANGED vars
  BY <1>10 DEF vars, SyscallInv, OpenFilesExist, OpenedExactly, InProgram
<1>11. QED
  BY <1>1, <1>2, <1>3, <1>4, <1>5, <1>6, <1>7, <1>8, <1>9, <1>10 DEF Next

LEMMA SyscallInvariant == Spec => []SyscallInv
BY SyscallInitInv, SyscallStepInv, PTL DEF Spec

(* No file disappears under a program that has it open, for any number of  *)
(* files and descriptors.                                                  *)
THEOREM OpenFilesStay == Spec => []OpenFilesExist
<1>1. SyscallInv => OpenFilesExist
  BY DEF SyscallInv
<1>2. QED
  BY <1>1, SyscallInvariant, PTL

(* SYS_OPEN and SYS_CLOSE keep the descriptor table exact, for a table of  *)
(* any size, full or not.                                                  *)
THEOREM TableExact == Spec => []OpenedExactly
<1>1. SyscallInv => OpenedExactly
  BY DEF SyscallInv
<1>2. QED
  BY <1>1, SyscallInvariant, PTL

(* the descriptors that reach a file are the program's own *)
LEMMA WriteChangesOpened ==
  ASSUME SyscallInv, NEW fd, NEW data, SysWrite(fd, data),
         NEW n \in DOMAIN files, files'[n] # files[n]
  PROVE  \E o \in opened : o[2] = n
<1>1. fd \in Fds /\ fds[fd].used /\ fd \notin {1, 2} /\ n = fds[fd].name
  BY DEF SysWrite, fs_write, Usable
<1>2. fd \in Fds \ Standard
  BY <1>1, SyscallAssumption DEF Standard, Fds, SyscallInv
<1>3. <<fd, n>> \in opened
  BY <1>1, <1>2 DEF SyscallInv, OpenedExactly
<1>4. QED
  BY <1>3

(* While a program runs, no file changes but the ones it has open, for any *)
(* sequence of system calls on any descriptors.                            *)
THEOREM OnlyOwnFilesChange == Spec => OnlyOpenedChange
<1>. DEFINE Kept == InProgram /\ machine' = "user" =>
              /\ DOMAIN files' = DOMAIN files
              /\ \A n \in DOMAIN files : files'[n] # files[n] => \E o \in opened : o[2] = n
<1>1. SyscallInv /\ [Next]_vars => [Kept]_vars
  <2>. SUFFICES ASSUME SyscallInv, Next, InProgram, machine' = "user" PROVE Kept
    OBVIOUS
  <2>1. ~Deliverable
    BY DEF SyscallInv, Deliverable, InProgram
  <2>2. CASE \E fd \in AnyFd, data \in Payloads : SysWrite(fd, data)
    BY <2>2, WriteKeepsNames, WriteChangesOpened
  <2>3. CASE UNCHANGED files
    BY <2>3
  <2>4. QED
    BY <2>1, <2>2, <2>3 DEF Next, cmd_touch, cmd_rm, cmd_run, cmd_write, SysOpen,
       SysOpenFails, SysClose, SysCloseFails, SysRead, SysExit, Exception, SysUnknown, Reset
<1>2. QED
  BY <1>1, SyscallInvariant, PTL DEF Spec, OnlyOpenedChange
=============================================================================
