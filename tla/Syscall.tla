------------------------------ MODULE Syscall -------------------------------
(***************************************************************************)
(* A user program and the system calls it makes (kernel/syscall.c), next   *)
(* to the shell commands that change files and start it.  Any call may be  *)
(* made, also one no wrapper of user/libash.h makes (its sys_write always  *)
(* passes descriptor 1).  A system call runs with interrupts off and is    *)
(* one step; the file system underneath is as abstract as FileStore.       *)
(* The fields position and size of a descriptor are written by SYS_OPEN    *)
(* and read by nobody; they are left out.                                  *)
(***************************************************************************)
EXTENDS Integers, Sequences, FiniteSets

CONSTANTS
  MAX_FD,
  Names,        \* names of files
  Payloads,     \* contents that are written
  Programs,     \* those of them that are valid ELF executables
  Sizes,        \* buffer sizes SYS_READ is called with
  Uninit        \* what the names of descriptors 0 to 2, never set, may hold

ASSUME SyscallAssumption ==
  /\ MAX_FD \in Nat /\ MAX_FD > 3
  /\ \A data \in Payloads : Len(data) \in Nat
  /\ Programs \subseteq Payloads /\ Sizes \subseteq Nat
  /\ Uninit \cap Names = {} /\ Uninit # {}

VARIABLES
  machine,      \* "shell", "user" or "halted"
  in_service,   \* the PIC waits for the EOI of the keyboard interrupt
  files,        \* name |-> contents
  fds,          \* current_process->fds
  eax,          \* what the last system call returned
  opened        \* history: the program's open <<descriptor, name>> pairs

vars == <<machine, in_service, files, fds, eax, opened>>

Fds == 0 .. MAX_FD - 1
Standard == 0 .. 2
Error == -1

(* process_init: three descriptors in use, their names never written *)
FreshFds ==
  {f \in [Fds -> [used : BOOLEAN, name : Uninit]] :
     /\ \A fd \in Fds : f[fd].used <=> fd \in Standard
     /\ \A fd, fe \in Fds : f[fd].name = f[fe].name}

Init ==
  /\ machine = "shell" /\ in_service = FALSE
  /\ files = [n \in {} |-> <<>>]
  /\ fds \in FreshFds /\ eax = 0 /\ opened = {}

-----------------------------------------------------------------------------
(* The file system, as its callers see it *)

(* no such file, too large or no space: nothing changes *)
fs_write(n, data) ==
  \/ n \in DOMAIN files /\ files' = [files EXCEPT ![n] = data]
  \/ UNCHANGED files

fs_read(n, size) ==
  IF n \notin DOMAIN files THEN Error
  ELSE IF size < Len(files[n]) THEN size ELSE Len(files[n])

-----------------------------------------------------------------------------
(* Shell commands, run inside the keyboard interrupt *)

Deliverable == machine # "halted" /\ ~in_service

cmd_touch(n) ==
  /\ Deliverable /\ n \notin DOMAIN files
  /\ files' = [m \in DOMAIN files \cup {n} |-> IF m = n THEN <<>> ELSE files[m]]
  /\ UNCHANGED <<machine, in_service, fds, eax, opened>>

(* The name is copied into name[64] without a bound; names are taken to    *)
(* fit.                                                                    *)
cmd_write(n, data) ==
  /\ Deliverable /\ fs_write(n, data)
  /\ UNCHANGED <<machine, in_service, fds, eax, opened>>

cmd_rm(n) ==
  /\ Deliverable /\ n \in DOMAIN files
  /\ files' = [m \in DOMAIN files \ {n} |-> files[m]]
  /\ UNCHANGED <<machine, in_service, fds, eax, opened>>

Loadable(n) == fs_read(n, 8192) > 0 /\ files[n] \in Programs

cmd_runMutant(n) ==
  /\ Deliverable /\ Loadable(n)
  /\ machine' = "user"
  /\ UNCHANGED <<in_service, files, fds, eax, opened>>

(* elf_load succeeds and enter_usermode does not come back: the interrupt  *)
(* is never acknowledged.  (A load that fails changes nothing here.)       *)
cmd_run(n) ==
  /\ Deliverable /\ Loadable(n)
  /\ machine' = "user" /\ in_service' = TRUE
  /\ UNCHANGED <<files, fds, eax, opened>>

-----------------------------------------------------------------------------
(* syscall_handler *)

InProgram == machine = "user"

Usable(fd) == fd \in Fds /\ fds[fd].used

(* process_exit with interrupts off: nothing runs any more *)
SysExit ==
  /\ InProgram /\ machine' = "halted"
  /\ UNCHANGED <<in_service, files, fds, eax, opened>>

(* isr_handler: any CPU exception stops the machine *)
Exception ==
  /\ InProgram /\ machine' = "halted"
  /\ UNCHANGED <<in_service, files, fds, eax, opened>>

SysWriteMutant(fd, data) ==
  /\ InProgram
  /\ \/ fd \in {1, 2} /\ eax' = Len(data) /\ UNCHANGED files
     \/ fd \in Fds \ {1, 2} /\ eax' = Len(data) /\ fs_write(fds[fd].name, data)
     \/ fd \notin Fds /\ eax' = Error /\ UNCHANGED files
  /\ UNCHANGED <<machine, in_service, fds, opened>>

(* Standard output and error go to the terminal; another descriptor in use *)
(* to its file, and the length is returned whether or not fs_write works.  *)
SysWrite(fd, data) ==
  /\ InProgram
  /\ \/ fd \in {1, 2} /\ eax' = Len(data) /\ UNCHANGED files
     \/ fd \notin {1, 2} /\ Usable(fd) /\ eax' = Len(data) /\ fs_write(fds[fd].name, data)
     \/ ~Usable(fd) /\ eax' = Error /\ UNCHANGED files
  /\ UNCHANGED <<machine, in_service, fds, opened>>

SysRead(fd, size) ==
  /\ InProgram
  /\ eax' = IF Usable(fd) THEN fs_read(fds[fd].name, size) ELSE Error
  /\ UNCHANGED <<machine, in_service, files, fds, opened>>

FreeSlots == {fd \in Fds \ Standard : ~fds[fd].used}

SysOpenMutant(n) ==
  /\ InProgram /\ FreeSlots # {}
  /\ LET fd == CHOOSE f \in FreeSlots : \A g \in FreeSlots : f <= g
     IN  /\ fds' = [fds EXCEPT ![fd] = [used |-> TRUE, name |-> n]]
         /\ eax' = IF n \in DOMAIN files THEN fd ELSE Error
         /\ opened' = IF n \in DOMAIN files THEN opened \cup {<<fd, n>>} ELSE opened
  /\ UNCHANGED <<machine, in_service, files>>

(* The lowest free descriptor from 3, if the file can be read. *)
SysOpen(n) ==
  /\ InProgram /\ FreeSlots # {} /\ fs_read(n, 512) >= 0
  /\ LET fd == CHOOSE f \in FreeSlots : \A g \in FreeSlots : f <= g
     IN  /\ fds' = [fds EXCEPT ![fd] = [used |-> TRUE, name |-> n]]
         /\ eax' = fd /\ opened' = opened \cup {<<fd, n>>}
  /\ UNCHANGED <<machine, in_service, files>>

SysOpenFails(n) ==
  /\ InProgram /\ (FreeSlots = {} \/ fs_read(n, 512) < 0)
  /\ eax' = Error
  /\ UNCHANGED <<machine, in_service, files, fds, opened>>

SysClose(fd) ==
  /\ InProgram /\ Usable(fd) /\ fd \notin Standard
  /\ fds' = [fds EXCEPT ![fd].used = FALSE]
  /\ eax' = 0 /\ opened' = {o \in opened : o[1] # fd}
  /\ UNCHANGED <<machine, in_service, files>>

SysCloseFails(fd) ==
  /\ InProgram /\ (~Usable(fd) \/ fd \in Standard)
  /\ eax' = Error
  /\ UNCHANGED <<machine, in_service, files, fds, opened>>

(* the default case *)
SysUnknown ==
  /\ InProgram /\ eax' = Error
  /\ UNCHANGED <<machine, in_service, files, fds, opened>>

(* the machine is reset: only the files stay *)
Reset ==
  /\ machine # "shell"
  /\ machine' = "shell" /\ in_service' = FALSE
  /\ fds' \in FreshFds /\ eax' = 0 /\ opened' = {}
  /\ UNCHANGED files

(* a program may pass any number as a descriptor *)
AnyFd == Fds \cup {MAX_FD}

Next ==
  \/ \E n \in Names : \/ cmd_touch(n) \/ cmd_rm(n) \/ cmd_run(n)
                      \/ SysOpen(n) \/ SysOpenFails(n)
                      \/ \E data \in Payloads : cmd_write(n, data)
  \/ \E fd \in AnyFd : \/ SysClose(fd) \/ SysCloseFails(fd)
                       \/ \E data \in Payloads : SysWrite(fd, data)
                       \/ \E size \in Sizes : SysRead(fd, size)
  \/ SysExit \/ Exception \/ SysUnknown \/ Reset

Spec == Init /\ [][Next]_vars

-----------------------------------------------------------------------------
(* A file a program has open exists for as long as it is open, so that     *)
(* reading it never fails: descriptors hold names, nothing locks a file,   *)
(* and it is only because run never acknowledges the keyboard interrupt    *)
(* that no rm can come in between.                                         *)
OpenFilesExist ==
  InProgram => \A fd \in Fds \ Standard : fds[fd].used => fds[fd].name \in DOMAIN files

(* The descriptor table and the program agree: the descriptors in use from *)
(* 3 on are those SYS_OPEN returned and SYS_CLOSE did not take back, each  *)
(* with the name it was opened with.  A failed open leaks no descriptor    *)
(* and none is handed out twice, also when the table was full.             *)
OpenedExactly ==
  opened = {<<fd, fds[fd].name>> : fd \in {f \in Fds \ Standard : fds[f].used}}

(* While a program runs, no file changes but the ones it has open - not    *)
(* through a descriptor it closed, nor through the standard ones, whose    *)
(* names were never set.                                                   *)
OnlyOpenedChange ==
  [][InProgram /\ machine' = "user" =>
       /\ DOMAIN files' = DOMAIN files
       /\ \A n \in DOMAIN files : files'[n] # files[n] => \E o \in opened : o[2] = n]_vars
=============================================================================
