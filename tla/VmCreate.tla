------------------------------ MODULE VmCreate ------------------------------
(***************************************************************************)
(* Vm::Create and the release of what it acquired (src/vmm/vm.cpp).       *)
(*                                                                         *)
(* Create takes its steps in order on the main thread, and each fallible  *)
(* call ends it with nullptr: the hypervisor check, the partition,        *)
(* AllocateMemory (VirtualAlloc, then the low and the high mapping),      *)
(* SetupVirtioBlk (the disk's Open), SetupVirtioNet (the backend's        *)
(* Start), LoadKernel, one WhvpVCpu::Create per vCPU and SetRegisters.    *)
(* Returning nullptr destroys the partly built Vm: ~Vm's body resets the *)
(* partition and the vCPUs and frees guest memory when mem_.base is set, *)
(* and then the member destructors tear the devices and the network       *)
(* backend down.                                                           *)
(*                                                                         *)
(* The calls into the hypervisor, the disk and the backend succeed or     *)
(* fail nondeterministically; `members` holds what the Vm owns.           *)
(***************************************************************************)
EXTENDS Naturals, FiniteSets

CONSTANTS
  VCpus,     \* the vCPU indices: config.cpu_count of them
  Configs    \* the VmConfigs Create may be called with: [disk, net, highMem]

VirtioDevs == {"blk", "net"}

VARIABLES
  create,    \* where Create is: the next step, or its result
  config,    \* the VmConfig: a disk path, networking, RAM above the gap
  members    \* what the Vm owns

createVars == <<create, config, members>>

CreatePcs == {"check", "partition", "memory", "devices", "blk", "net", "acpi",
              "kernel", "vcpus", "registers", "vm", "null", "absent"}

Members ==
  [partition : BOOLEAN,          \* whvp_vm_ holds a partition
   allocated : BOOLEAN,          \* a VirtualAlloc block not yet freed
   memBase   : BOOLEAN,          \* mem_.base records it
   mapped    : SUBSET {"low", "high"},  \* GPA ranges mapped
   devices   : BOOLEAN,          \* SetupDevices registered the legacy devices
   blk       : {"none", "made", "mmio"},  \* virtio_blk_, and virtio_mmio_
   net       : {"none", "registered", "started"},  \* backend and virtio_mmio_net_
   acpiDevs  : SUBSET VirtioDevs, \* virtio_acpi_devs_
   kernel    : BOOLEAN,          \* LoadKernel has run
   kernelDevs : SUBSET VirtioDevs, \* the virtio_devs LoadKernel was given
   vcpus     : 0 .. Cardinality(VCpus),  \* vcpus_.size()
   regs      : BOOLEAN]          \* the BSP's initial registers are set

CreateTypeOK ==
  /\ create \in CreatePcs
  /\ config \in Configs
  /\ members \in Members

CreateInit ==
  /\ create = "check"
  /\ config \in Configs
  /\ members = [partition |-> FALSE, allocated |-> FALSE, memBase |-> FALSE,
                mapped |-> {}, devices |-> FALSE, blk |-> "none", net |-> "none",
                acpiDevs |-> {}, kernel |-> FALSE, kernelDevs |-> {},
                vcpus |-> 0, regs |-> FALSE]

(* A step of Create that either goes on to `next` or returns nullptr.     *)
Proceed(ok, next) == create' = IF ok THEN next ELSE "null"

-----------------------------------------------------------------------------
(* whvp::IsHypervisorPresent: without it Create returns before any Vm     *)
(* object exists.                                                          *)
CheckHypervisor ==
  /\ create = "check"
  /\ create' \in {"partition", "absent"}
  /\ UNCHANGED <<config, members>>

(* WhvpVm::Create for config.cpu_count processors.                         *)
CreatePartition ==
  /\ create = "partition"
  /\ \E ok \in BOOLEAN :
       /\ members' = [members EXCEPT !.partition = ok]
       /\ Proceed(ok, "memory")
  /\ UNCHANGED config

AllocateMemory(outcome) ==
  /\ create = "memory"
  /\ outcome # "highFail" \/ config.highMem
  /\ members' = [members EXCEPT
                   !.allocated = outcome # "allocFail",
                   !.memBase = outcome # "allocFail",
                   !.mapped = CASE outcome = "ok" /\ config.highMem -> {"low", "high"}
                                [] outcome \in {"ok", "highFail"} -> {"low"}
                                [] OTHER -> {}]
  /\ Proceed(outcome = "ok", "devices")
  /\ UNCHANGED config

(* Vm::SetupDevices registers the UART, PIT, RTC, IOAPIC, PM block, PICs, *)
(* PCI host and the port sinks, and cannot fail.                          *)
SetupDevices ==
  /\ create = "devices"
  /\ members' = [members EXCEPT !.devices = TRUE]
  /\ create' = "blk"
  /\ UNCHANGED config

(* Vm::SetupVirtioBlk, when a disk path is given: virtio_blk_ is made,    *)
(* and only when Open succeeds virtio_mmio_ is made and registered.       *)
SetupVirtioBlk ==
  /\ create = "blk"
  /\ IF config.disk
       THEN \E ok \in BOOLEAN :
              /\ members' = [members EXCEPT !.blk = IF ok THEN "mmio" ELSE "made"]
              /\ Proceed(ok, "net")
       ELSE /\ create' = "net"
            /\ UNCHANGED members
  /\ UNCHANGED config

(* Vm::SetupVirtioNet, when networking is on: the backend, the device and *)
(* virtio_mmio_net_ are made and registered, then the backend is started. *)
SetupVirtioNet ==
  /\ create = "net"
  /\ IF config.net
       THEN \E ok \in BOOLEAN :
              /\ members' = [members EXCEPT !.net = IF ok THEN "started" ELSE "registered"]
              /\ Proceed(ok, "acpi")
       ELSE /\ create' = "acpi"
            /\ UNCHANGED members
  /\ UNCHANGED config

(* The DSDT entries: one for virtio_mmio_, one for virtio_mmio_net_.       *)
RegisterAcpiDevs ==
  /\ create = "acpi"
  /\ members' = [members EXCEPT !.acpiDevs =
                   {d \in VirtioDevs : IF d = "blk" THEN members.blk = "mmio"
                                                    ELSE members.net # "none"}]
  /\ create' = "kernel"
  /\ UNCHANGED config

(* Vm::LoadKernel: the boot configuration copies virtio_acpi_devs_.       *)
LoadKernel ==
  /\ create = "kernel"
  /\ \E ok \in BOOLEAN :
       /\ members' = [members EXCEPT !.kernel = TRUE,
                                     !.kernelDevs = members.acpiDevs]
       /\ Proceed(ok, "vcpus")
  /\ UNCHANGED config

(* One iteration of the vCPU loop: WhvpVCpu::Create and push_back.        *)
CreateVCpu ==
  /\ create = "vcpus"
  /\ \E ok \in BOOLEAN :
       /\ members' = [members EXCEPT !.vcpus = IF ok THEN @ + 1 ELSE @]
       /\ create' = CASE ~ok -> "null"
                      [] members.vcpus + 1 = Cardinality(VCpus) -> "registers"
                      [] OTHER -> "vcpus"
  /\ UNCHANGED config

(* The BSP's initial registers; Create returns the Vm.                    *)
SetRegisters ==
  /\ create = "registers"
  /\ \E ok \in BOOLEAN :
       /\ members' = [members EXCEPT !.regs = ok]
       /\ Proceed(ok, "vm")
  /\ UNCHANGED config

CreateNext ==
  \/ CheckHypervisor \/ CreatePartition
  \/ \E o \in {"allocFail", "lowFail", "highFail", "ok"} : AllocateMemory(o)
  \/ SetupDevices \/ SetupVirtioBlk \/ SetupVirtioNet \/ RegisterAcpiDevs
  \/ LoadKernel \/ CreateVCpu \/ SetRegisters

-----------------------------------------------------------------------------
(* ~Vm's body after the joins: vcpus_.clear(), whvp_vm_.reset() (which    *)
(* unmaps guest memory), and VirtualFree when mem_.base is set.           *)
ReleaseBody ==
  /\ members' = [members EXCEPT !.vcpus = 0, !.partition = FALSE, !.mapped = {},
                                !.allocated = @ /\ ~members.memBase,
                                !.memBase = FALSE]
  /\ UNCHANGED <<create, config>>

(* The member destructors, after the body: the network backend stops and *)
(* the devices go.                                                          *)
ReleaseMembers ==
  /\ members' = [members EXCEPT !.net = "none", !.blk = "none", !.devices = FALSE]
  /\ UNCHANGED <<create, config>>
=============================================================================
