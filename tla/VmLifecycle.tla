----------------------------- MODULE VmLifecycle -----------------------------
(***************************************************************************)
(* The VM's threads and how they stop (src/vmm/vm.cpp).                   *)
(*                                                                         *)
(* Vm::Run sets running_, starts the console-input thread and one thread  *)
(* per vCPU, and joins the vCPU threads.  A vCPU thread loops "while       *)
(* (running_) RunOnce()": the hypervisor run returns an exit action, or   *)
(* returns early because WHvCancelRunVirtualProcessor cancelled it.       *)
(* Vm::RequestStop clears running_ and cancels every vCPU; it is called   *)
(* from a vCPU thread on a shutdown or error exit, from inside a PIO exit *)
(* when the guest writes S5 to the ACPI PM1_CNT register (the shutdown   *)
(* callback), and from the controller's IPC thread.  ~Vm clears running_ *)
(* again and joins the input thread.                                       *)
(*                                                                         *)
(* The hypervisor's cancel is modelled as latched: a cancel issued while  *)
(* the vCPU is outside the run makes its next run return at once.        *)
(*                                                                         *)
(* The Vm is first built by Vm::Create (VmCreate); a failed Create        *)
(* destroys the partly built Vm, and ~Vm ends with VmCreate's release of  *)
(* what Create acquired.                                                   *)
(***************************************************************************)
EXTENDS Naturals, FiniteSets, VmCreate

CONSTANTS
  StdinModes,           \* kinds of stdin the runtime may be started with
  ControllerStopPhases, \* phases of the main thread in which the IPC thread
                        \* may call RequestStop
  AcpiWrites,           \* guest PIO writes to the PM block: <<offset, size, value>>
  SlpTypS5, ResetValue

ASSUME VCpus # {}
ASSUME StdinModes \subseteq {"console", "pipe", "none"}

VARIABLES
  main,          \* the main thread: in Run, or in ~Vm
  running,       \* running_
  vcpu,          \* pc of each vCPU thread
  action,        \* the exit action RunOnce returned to each vCPU thread
  cancelPending, \* a cancel the hypervisor holds for each vCPU
  exitCode,      \* exit_code_
  input,         \* pc of the console-input thread
  stdinMode,     \* what GetStdHandle(STD_INPUT_HANDLE) refers to
  acpi,          \* the ACPI PM1 registers
  stopRequested, \* history: RequestStop has been called
  errored,       \* history: the vCPUs that took an error exit
  runResult      \* the value Run returned

lifeVars == <<main, running, vcpu, action, cancelPending, exitCode, input,
              stdinMode, acpi, stopRequested, errored, runResult>>
vars == <<lifeVars, createVars>>

Pm == INSTANCE AcpiPm

MainPcs  == {"creating", "created", "joinVcpus", "returned", "joinInput",
             "release", "members", "destroyed"}
VCpuPcs  == {"idle", "check", "inrun", "dispatch", "done"}
InputPcs == {"idle", "loop", "read", "done"}
Actions  == {"continue", "halt", "shutdown", "error"}

TypeOK ==
  /\ main \in MainPcs
  /\ running \in BOOLEAN
  /\ vcpu \in [VCpus -> VCpuPcs]
  /\ action \in [VCpus -> Actions]
  /\ cancelPending \in [VCpus -> BOOLEAN]
  /\ exitCode \in {0, 1}
  /\ input \in InputPcs
  /\ stdinMode \in StdinModes
  /\ Pm!TypeOK
  /\ stopRequested \in BOOLEAN
  /\ errored \subseteq VCpus
  /\ runResult \in {0, 1}
  /\ CreateTypeOK

Init ==
  /\ main = "creating"
  /\ running = FALSE
  /\ vcpu = [v \in VCpus |-> "idle"]
  /\ action = [v \in VCpus |-> "continue"]
  /\ cancelPending = [v \in VCpus |-> FALSE]
  /\ exitCode = 0
  /\ input = "idle"
  /\ stdinMode \in StdinModes
  /\ Pm!Init
  /\ stopRequested = FALSE
  /\ errored = {}
  /\ runResult = 0
  /\ CreateInit

(* Mutant of RequestStop: running_ is cleared but no run is cancelled.   *)
RequestStopWithoutCancel ==
  /\ running' = FALSE
  /\ UNCHANGED cancelPending
  /\ stopRequested' = TRUE

(* Vm::RequestStop: clear running_ and cancel the run of every vCPU.      *)
RequestStop ==
  /\ running' = FALSE
  /\ cancelPending' = [v \in VCpus |-> TRUE]
  /\ stopRequested' = TRUE

(* Vm::Run: set running_, start the input thread and the vCPU threads.    *)
Run ==
  /\ main = "created"
  /\ running' = TRUE
  /\ input' = "loop"
  /\ vcpu' = [v \in VCpus |-> "check"]
  /\ main' = "joinVcpus"
  /\ UNCHANGED <<action, cancelPending, exitCode, stdinMode, acpi,
                 stopRequested, errored, runResult>>

(* Mutant of RunReturns: Run returns once any one vCPU thread has ended.  *)
RunReturnsOnFirstJoin ==
  /\ main = "joinVcpus"
  /\ \E v \in VCpus : vcpu[v] = "done"
  /\ main' = "returned"
  /\ runResult' = exitCode
  /\ UNCHANGED <<running, vcpu, action, cancelPending, exitCode, input,
                 stdinMode, acpi, stopRequested, errored>>

(* Run: all vCPU threads joined; return exit_code_.                        *)
RunReturns ==
  /\ main = "joinVcpus"
  /\ \A v \in VCpus : vcpu[v] = "done"
  /\ main' = "returned"
  /\ runResult' = exitCode
  /\ UNCHANGED <<running, vcpu, action, cancelPending, exitCode, input,
                 stdinMode, acpi, stopRequested, errored>>

(* ~Vm: clear running_, then join the input thread (the vCPU threads were *)
(* joined by Run), then release the partition and guest memory.           *)
Destroy ==
  /\ main = "returned"
  /\ running' = FALSE
  /\ main' = "joinInput"
  /\ UNCHANGED <<vcpu, action, cancelPending, exitCode, input, stdinMode,
                 acpi, stopRequested, errored, runResult>>

JoinInput ==
  /\ main = "joinInput"
  /\ input = "done"
  /\ main' = "release"
  /\ UNCHANGED <<running, vcpu, action, cancelPending, exitCode, input,
                 stdinMode, acpi, stopRequested, errored, runResult>>

(* ~Vm's body after the joins: the partition, the vCPUs and guest memory. *)
DestroyBody ==
  /\ main = "release"
  /\ ReleaseBody
  /\ main' = "members"
  /\ UNCHANGED <<running, vcpu, action, cancelPending, exitCode, input,
                 stdinMode, acpi, stopRequested, errored, runResult>>

(* ~Vm's member destructors.                                                *)
DestroyMembers ==
  /\ main = "members"
  /\ ReleaseMembers
  /\ main' = "destroyed"
  /\ UNCHANGED <<running, vcpu, action, cancelPending, exitCode, input,
                 stdinMode, acpi, stopRequested, errored, runResult>>

(* A step of Vm::Create.  Create returning the Vm lets Run be called;     *)
(* returning nullptr destroys the partly built Vm; without a hypervisor   *)
(* there is no Vm at all.                                                   *)
CreateStep(A) ==
  /\ main = "creating"
  /\ A
  /\ main' = CASE create' = "vm"     -> "created"
              [] create' = "null"   -> "release"
              [] create' = "absent" -> "destroyed"
              [] OTHER              -> "creating"
  /\ UNCHANGED <<running, vcpu, action, cancelPending, exitCode, input,
                 stdinMode, acpi, stopRequested, errored, runResult>>

-----------------------------------------------------------------------------
(* The console-input thread.  A console stdin is polled (Sleep(16) when   *)
(* no event is queued), so running_ is re-read; a pipe stdin is read with *)
(* a blocking ReadFile; an invalid handle makes the thread return.        *)

InputExit ==
  /\ input = "loop"
  /\ ~running \/ stdinMode = "none"
  /\ input' = "done"
  /\ UNCHANGED <<main, running, vcpu, action, cancelPending, exitCode,
                 stdinMode, acpi, stopRequested, errored, runResult>>

InputBlockingRead ==
  /\ input = "loop"
  /\ running
  /\ stdinMode = "pipe"
  /\ input' = "read"
  /\ UNCHANGED <<main, running, vcpu, action, cancelPending, exitCode,
                 stdinMode, acpi, stopRequested, errored, runResult>>

(* ReadFile returns: a byte pushed to the UART with IRQ 4, or end of file. *)
InputReadReturns ==
  /\ input = "read"
  /\ input' = "loop"
  /\ UNCHANGED <<main, running, vcpu, action, cancelPending, exitCode,
                 stdinMode, acpi, stopRequested, errored, runResult>>

-----------------------------------------------------------------------------
(* A vCPU thread (Vm::VCpuThreadFunc).                                     *)

VCpuCheck(v) ==
  /\ vcpu[v] = "check"
  /\ vcpu' = [vcpu EXCEPT ![v] = IF running THEN "inrun" ELSE "done"]
  /\ UNCHANGED <<main, running, action, cancelPending, exitCode, input,
                 stdinMode, acpi, stopRequested, errored, runResult>>

(* The hypervisor run returns with a guest exit the vCPU handles itself.  *)
GuestExit(v, a) ==
  /\ vcpu[v] = "inrun"
  /\ vcpu' = [vcpu EXCEPT ![v] = "dispatch"]
  /\ action' = [action EXCEPT ![v] = a]
  /\ UNCHANGED <<main, running, cancelPending, exitCode, input, stdinMode,
                 acpi, stopRequested, errored, runResult>>

(* A PIO exit to the ACPI PM block, dispatched inside RunOnce; an S5      *)
(* write calls the shutdown callback, which is Vm::RequestStop.  No reset *)
(* callback is registered by Vm::SetupDevices.                             *)
AcpiExit(v, w) ==
  /\ vcpu[v] = "inrun"
  /\ Pm!PioWrite(w[1], w[2], w[3])
  /\ IF Pm!ShutdownFires(w[1], w[3])
       THEN RequestStop
       ELSE UNCHANGED <<running, cancelPending, stopRequested>>
  /\ vcpu' = [vcpu EXCEPT ![v] = "dispatch"]
  /\ action' = [action EXCEPT ![v] = "continue"]
  /\ UNCHANGED <<main, exitCode, input, stdinMode, errored, runResult>>

(* The run returns because of a pending cancel.                           *)
Cancelled(v) ==
  /\ vcpu[v] = "inrun"
  /\ cancelPending[v]
  /\ cancelPending' = [cancelPending EXCEPT ![v] = FALSE]
  /\ vcpu' = [vcpu EXCEPT ![v] = "dispatch"]
  /\ action' = [action EXCEPT ![v] = "continue"]
  /\ UNCHANGED <<main, running, exitCode, input, stdinMode, acpi,
                 stopRequested, errored, runResult>>

(* Mutant of RecordError: exit_code_ is incremented instead of stored.    *)
RecordErrorByIncrement(v) ==
  /\ exitCode' = exitCode + 1
  /\ errored' = errored \cup {v}

(* kError: exit_code_.store(1) (errored is the history of it).            *)
RecordError(v) ==
  /\ exitCode' = 1
  /\ errored' = errored \cup {v}

(* The switch on the exit action.                                          *)
Dispatch(v) ==
  /\ vcpu[v] = "dispatch"
  /\ \/ /\ action[v] \in {"continue", "halt"}
        /\ vcpu' = [vcpu EXCEPT ![v] = "check"]
        /\ UNCHANGED <<running, cancelPending, exitCode, stopRequested, errored>>
     \/ /\ action[v] = "shutdown"
        /\ RequestStop
        /\ vcpu' = [vcpu EXCEPT ![v] = "done"]
        /\ UNCHANGED <<exitCode, errored>>
     \/ /\ action[v] = "error"
        /\ RecordError(v)
        /\ RequestStop
        /\ vcpu' = [vcpu EXCEPT ![v] = "done"]
  /\ UNCHANGED <<main, action, input, stdinMode, acpi, runResult>>

-----------------------------------------------------------------------------
(* The controller's "stop" or "reboot" command on the IPC thread.         *)
ControllerStop ==
  /\ main \in ControllerStopPhases
  /\ RequestStop
  /\ UNCHANGED <<main, vcpu, action, exitCode, input, stdinMode, acpi,
                 errored, runResult>>

(* The process exits after ~Vm.                                            *)
Terminated ==
  /\ main = "destroyed"
  /\ UNCHANGED vars

(* A step of the running Vm, which leaves what Create built alone.       *)
LifeStep(A) == A /\ UNCHANGED createVars

Next ==
  \/ CreateStep(CreateNext)
  \/ LifeStep(Run \/ RunReturns \/ Destroy \/ JoinInput)
  \/ DestroyBody \/ DestroyMembers
  \/ LifeStep(InputExit \/ InputBlockingRead \/ InputReadReturns)
  \/ \E v \in VCpus :
       LifeStep(\/ VCpuCheck(v) \/ Cancelled(v) \/ Dispatch(v)
                \/ \E a \in Actions : GuestExit(v, a)
                \/ \E w \in AcpiWrites : AcpiExit(v, w))
  \/ LifeStep(ControllerStop)
  \/ Terminated

(* The OS runs every thread that is runnable, and the hypervisor honours  *)
(* a cancel; a guest need not ever exit, and a pipe need not ever be      *)
(* written to, so GuestExit, AcpiExit and InputReadReturns are not fair.  *)
Fairness ==
  /\ WF_vars(CreateStep(CreateNext))
  /\ WF_vars(LifeStep(Run)) /\ WF_vars(LifeStep(RunReturns))
  /\ WF_vars(LifeStep(Destroy)) /\ WF_vars(LifeStep(JoinInput))
  /\ WF_vars(DestroyBody) /\ WF_vars(DestroyMembers)
  /\ WF_vars(LifeStep(InputExit)) /\ WF_vars(LifeStep(InputBlockingRead))
  /\ \A v \in VCpus : /\ WF_vars(LifeStep(VCpuCheck(v)))
                      /\ WF_vars(LifeStep(Cancelled(v)))
                      /\ WF_vars(LifeStep(Dispatch(v)))

Spec == Init /\ [][Next]_vars /\ Fairness

-----------------------------------------------------------------------------
RunHasReturned == main \in {"returned", "joinInput", "release", "members", "destroyed"}

(* Run's result is 1 exactly when some vCPU took an error exit: the exit  *)
(* code is read only after every vCPU thread is joined (VCpuThreadFunc's  *)
(* kError branch, Run's join loop).                                        *)
ExitCodeReportsError ==
  RunHasReturned => (runResult = 1 <=> errored # {})

(* Once RequestStop has been called, from any thread, Run eventually     *)
(* returns: every vCPU leaves the hypervisor run and observes running_.   *)
StopTerminatesRun == stopRequested ~> RunHasReturned

(* Once Run has returned, the destructor eventually finishes: the input  *)
(* thread observes running_ and is joined.                                 *)
DestructorCompletes == (main = "returned") ~> (main = "destroyed")

=============================================================================
