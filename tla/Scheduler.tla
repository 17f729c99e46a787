------------------------------ MODULE Scheduler ------------------------------
(***************************************************************************)
(* Processes, the timer interrupt that schedules them and the interrupt    *)
(* controller state that decides whether it can arrive: kernel/process.c,  *)
(* process.s, the interrupt stubs of idt.s and irq_handler of idt.c.       *)
(*                                                                         *)
(* An interrupt handler runs with interrupts off (every gate is an         *)
(* interrupt gate and the stubs start with cli), so a handler is one step  *)
(* up to its iret - or up to the context switch it makes.                  *)
(***************************************************************************)
EXTENDS Integers

CONSTANT MaxProcs    \* how many processes are ever created

ASSUME MaxProcsAssumption == MaxProcs \in Nat \ {0}

None == -1
Pids == 0 .. MaxProcs - 1
TIMER == 0
KEYBOARD == 1

VARIABLES
  current_process, process_list,    \* a pid, or None before process_init
  next_pid,
  state,        \* pid |-> "NONE", "RUNNING", "READY", "DEAD"
  next,         \* pid |-> the next process in the list, or None
  resume,       \* pid |-> where its saved stack continues: "entry", "tick"
  mode,         \* pid |-> "kernel", "user" or "halted"
  making,       \* pid |-> the process_create it is in the middle of
  IF_flag,      \* the processor's interrupt flag
  in_service    \* the interrupts the PIC has delivered and got no EOI for

vars == <<current_process, process_list, next_pid, state, next, resume, mode,
          making, IF_flag, in_service>>

NotMaking == [new |-> None, tail |-> None]

-----------------------------------------------------------------------------
(* The interrupt controller: an interrupt is delivered if the processor    *)
(* accepts it and no interrupt of the same or a higher priority (a lower   *)
(* number) is in service; the EOI command ends the highest one.            *)

CanDeliver(irq) == IF_flag /\ \A k \in in_service : irq < k

EndOfInterrupt(served) == served \ {CHOOSE k \in served : \A m \in served : k <= m}

-----------------------------------------------------------------------------
(* Boot *)

(* The end of idt_init: sti, long before there is a process.  The gates    *)
(* and the set-up of the PIC are not modelled.                             *)
IdtInit ==
  /\ ~IF_flag /\ current_process = None
  /\ IF_flag' = TRUE
  /\ UNCHANGED <<current_process, process_list, next_pid, state, next, resume,
                 mode, making, in_service>>

(* process_init: the kernel itself becomes PID 0 *)
ProcessInit ==
  /\ IF_flag /\ current_process = None
  /\ current_process' = 0 /\ process_list' = 0 /\ next_pid' = 1
  /\ state' = [state EXCEPT ![0] = "RUNNING"]
  /\ UNCHANGED <<next, resume, mode, making, IF_flag, in_service>>

-----------------------------------------------------------------------------
(* process_create, called by the current process *)

InKernel == current_process # None /\ mode[current_process] = "kernel"

(* allocate and fill in the process structure and its first stack frame *)
CreateAlloc ==
  /\ InKernel /\ making[current_process] = NotMaking
  /\ next_pid < MaxProcs
  /\ state' = [state EXCEPT ![next_pid] = "READY"]
  /\ next' = [next EXCEPT ![next_pid] = None]
  /\ resume' = [resume EXCEPT ![next_pid] = "entry"]
  /\ making' = [making EXCEPT ![current_process].new = next_pid]
  /\ next_pid' = next_pid + 1
  /\ UNCHANGED <<current_process, process_list, mode, IF_flag, in_service>>

Linked(p) == p = process_list \/ \E q \in Pids : next[q] = p

(* walk to the end of the list *)
CreateFindTail ==
  /\ InKernel
  /\ making[current_process].new # None /\ making[current_process].tail = None
  /\ \E t \in Pids :
       /\ Linked(t) /\ next[t] = None
       /\ making' = [making EXCEPT ![current_process].tail = t]
  /\ UNCHANGED <<current_process, process_list, next_pid, state, next, resume,
                 mode, IF_flag, in_service>>

CreateLinkMutant ==
  LET m == making[current_process]
  IN  /\ InKernel /\ m.tail # None
      /\ next' = [next EXCEPT ![process_list] = m.new]
      /\ making' = [making EXCEPT ![current_process] = NotMaking]
      /\ UNCHANGED <<current_process, process_list, next_pid, state, resume, mode,
                     IF_flag, in_service>>

(* curr->next = proc *)
CreateLink ==
  LET m == making[current_process]
  IN  /\ InKernel /\ m.tail # None
      /\ next' = [next EXCEPT ![m.tail] = m.new]
      /\ making' = [making EXCEPT ![current_process] = NotMaking]
      /\ UNCHANGED <<current_process, process_list, next_pid, state, resume, mode,
                     IF_flag, in_service>>

-----------------------------------------------------------------------------
(* scheduler_tick *)

After(p) == IF next[p] = None THEN process_list ELSE next[p]

(* the loop that skips dead processes, after k iterations *)
Scan ==
  LET q[k \in 0 .. MaxProcs] ==
        IF k = 0 THEN After(current_process)
        ELSE IF state[q[k - 1]] = "DEAD" /\ q[k - 1] # current_process
             THEN After(q[k - 1]) ELSE q[k - 1]
  IN  q[MaxProcs]

DemoteMutant == [state EXCEPT ![Scan] = "RUNNING"]

(* the states after the switch: a dead process stays dead *)
Demote ==
  [state EXCEPT ![Scan] = "RUNNING",
                ![current_process] = IF @ = "DEAD" THEN @ ELSE "READY"]

(* The timer interrupt: scheduler_tick, then EOI and iret.  If there is no *)
(* other process to run, it returns to the code it interrupted.            *)
TimerReturns ==
  /\ CanDeliver(TIMER)
  /\ current_process # None => Scan = current_process
  /\ UNCHANGED vars

TimerSwitchesMutant ==
  /\ CanDeliver(TIMER)
  /\ current_process # None /\ Scan # current_process
  /\ current_process' = Scan
  /\ state' = Demote
  /\ resume' = [resume EXCEPT ![current_process] = "tick"]
  /\ IF_flag' = TRUE
  /\ in_service' = IF resume[Scan] = "tick" THEN EndOfInterrupt(in_service \cup {TIMER})
                    ELSE in_service \cup {TIMER}
  /\ UNCHANGED <<process_list, next_pid, next, mode, making>>

(* Otherwise context_switch leaves this handler on the old stack.  A       *)
(* process that was switched away from earlier continues in its own        *)
(* handler: EOI, iret, interrupts on.  A new process continues at its      *)
(* entry point: no EOI is sent and interrupts stay off.                    *)
TimerSwitches ==
  /\ CanDeliver(TIMER)
  /\ current_process # None /\ Scan # current_process
  /\ current_process' = Scan
  /\ state' = Demote
  /\ resume' = [resume EXCEPT ![current_process] = "tick"]
  /\ LET served == in_service \cup {TIMER}
     IN  IF resume[Scan] = "tick"
         THEN IF_flag' = TRUE /\ in_service' = EndOfInterrupt(served)
         ELSE IF_flag' = FALSE /\ in_service' = served
  /\ UNCHANGED <<process_list, next_pid, next, mode, making>>

-----------------------------------------------------------------------------
(* The other ways control moves *)

(* The shell command "run", executed inside the keyboard interrupt: the    *)
(* program starts in ring 3 with interrupts on and the handler never gets  *)
(* to its EOI.  (Other keys are handled and acknowledged: no change.)      *)
KeyboardRun ==
  /\ CanDeliver(KEYBOARD) /\ InKernel
  /\ mode' = [mode EXCEPT ![current_process] = "user"]
  /\ in_service' = in_service \cup {KEYBOARD}
  /\ UNCHANGED <<current_process, process_list, next_pid, state, next, resume,
                 making, IF_flag>>

(* process_exit: the process is dead and halts for ever; SYS_EXIT gets     *)
(* here through int 0x80, with interrupts off                              *)
ProcessExit ==
  /\ current_process # None /\ mode[current_process] # "halted"
  /\ current_process = 0 => mode[0] = "user"
  /\ state' = [state EXCEPT ![current_process] = "DEAD"]
  /\ mode' = [mode EXCEPT ![current_process] = "halted"]
  /\ IF_flag' = (IF mode[current_process] = "user" THEN FALSE ELSE IF_flag)
  /\ UNCHANGED <<current_process, process_list, next_pid, next, resume, making,
                 in_service>>

-----------------------------------------------------------------------------
Init ==
  /\ current_process = None /\ process_list = None /\ next_pid = 0
  /\ state = [p \in Pids |-> "NONE"]
  /\ next = [p \in Pids |-> None]
  /\ resume = [p \in Pids |-> "entry"]
  /\ mode = [p \in Pids |-> "kernel"]
  /\ making = [p \in Pids |-> NotMaking]
  /\ IF_flag = FALSE /\ in_service = {}

Timer == TimerReturns \/ TimerSwitches
Creating == CreateFindTail \/ CreateLink

Next == IdtInit \/ ProcessInit \/ CreateAlloc \/ Creating \/ Timer
        \/ KeyboardRun \/ ProcessExit

Spec == Init /\ [][Next]_vars

(* The timer keeps ticking, so an interrupt the processor and the PIC      *)
(* accept is delivered; boot and a started process_create make progress.   *)
FairSpec == /\ Spec /\ WF_vars(Timer)
            /\ WF_vars(IdtInit \/ ProcessInit) /\ WF_vars(Creating)

-----------------------------------------------------------------------------
(* Properties *)

(* Exactly the current process is marked RUNNING (or DEAD, once it exited) *)
(* after any sequence of switches, so that "ps" tells the truth.           *)
OneRunning ==
  current_process # None =>
    /\ state[current_process] \in {"RUNNING", "DEAD"}
    /\ \A p \in Pids : state[p] = "RUNNING" => p = current_process

(* Interrupts are never on while the timer interrupt waits for its EOI: a  *)
(* processor that accepts interrupts can be preempted, whatever it runs.   *)
MaskedUntilEOI == IF_flag => TIMER \notin in_service

(* a set of processes that the walk over the list cannot leave *)
Walked(S) == process_list \in S /\ \A q \in S : next[q] \in S \cup {None}

(* Every process that was created is on the walk over the list that        *)
(* scheduler_tick, process_create and "ps" make from its head, however     *)
(* creation and ticks interleave: it is in every set that has the head and *)
(* is closed under next.                                                   *)
NoneLost ==
  \A p \in Pids :
    state[p] # "NONE" /\ (\A q \in Pids : making[q].new # p) =>
      \A S \in SUBSET Pids : Walked(S) => p \in S

(* README: "cooperative/preemptive round-robin scheduler".  A process that *)
(* is ready to run runs eventually.                                        *)
EveryReadyRuns ==
  \A p \in Pids : state[p] = "READY" /\ Linked(p) ~> current_process = p
=============================================================================
