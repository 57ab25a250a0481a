------------------------------- MODULE VmIrq -------------------------------
(***************************************************************************)
(* The VM-wide interrupt and timer calls of VmFd (src/src/ioctls/vm.rs):   *)
(* set_tss_address, create_irq_chip, get_irqchip / set_irqchip,            *)
(* create_pit2, get_pit2 / set_pit2, get_clock / set_clock, signal_msi,    *)
(* enable_cap, set_gsi_routing, and register_irqfd / unregister_irqfd      *)
(* composed with the irqfd table of IoEvents.  Each call issues one ioctl  *)
(* and turns a zero return into Ok and anything else (a negative return    *)
(* for signal_msi) into Err(errno).  The state is the kernel's VM: its     *)
(* interrupt controller, PIT, kvmclock, vCPU count and GSI routing, under *)
(* the x86 KVM contract for these ioctls.                                  *)
(***************************************************************************)
EXTENDS IoEvents, Integers

CONSTANTS
  ChipVals,     \* contents of one interrupt-controller chip; 0 is the reset state
  PitVals,      \* contents of kvm_pit_state2; 0 is the reset state
  ClockVals,    \* kvmclock readings, 0..MaxClock
  MaxVcpus,     \* vCPUs the VM accepts
  Pins,         \* args[0] of KVM_CAP_SPLIT_IRQCHIP that callers pass
  Offsets,      \* page-aligned offsets passed to set_tss_address, in pages
  DefaultRoutes \* the GSIs KVM_CREATE_IRQCHIP routes by default

ASSUME VmIrqAssumption ==
  /\ 0 \in ChipVals /\ 0 \in PitVals
  /\ ClockVals \subseteq Nat /\ ClockVals # {}
  /\ MaxVcpus \in Nat
  /\ Pins \subseteq Nat /\ Offsets \subseteq Nat
  /\ DefaultRoutes \subseteq Gsis

(* The x86 PIC master, PIC slave and IOAPIC; other chip ids are EINVAL. *)
ChipIds == {0, 1, 2}
(* MAX_NR_RESERVED_IOAPIC_PINS of KVM_CAP_SPLIT_IRQCHIP. *)
MaxReservedPins == 48
(* The highest TSS address KVM_SET_TSS_ADDR accepts, 2^32 - 3 pages,    *)
(* counted in 4 KiB pages.                                                 *)
TssLimit == 1048576 - 3

VARIABLES
  irqchip,   \* "none", "full" (KVM_CREATE_IRQCHIP) or "split" (KVM_CAP_SPLIT_IRQCHIP)
  chip,      \* chip[id]: the state of the in-kernel PIC or IOAPIC
  pit,       \* the in-kernel PIT exists
  pitState,  \* its kvm_pit_state2
  clock,     \* the VM's kvmclock
  vcpus,     \* vCPUs created so far
  routes,    \* the GSIs of the current GSI routing table
  result,    \* <<v>>: the last getter returned v; << >> before any getter
  believed   \* ghost: the irqchip mode the caller was told it set up

vmVars == <<irqchip, chip, pit, pitState, clock, vcpus, routes, result>>
allVars == <<vars, vmVars, believed>>

VmTypeOK ==
  /\ TypeOK
  /\ irqchip \in {"none", "full", "split"}
  /\ chip \in [ChipIds -> ChipVals]
  /\ pit \in BOOLEAN /\ pitState \in PitVals
  /\ clock \in ClockVals
  /\ vcpus \in 0..MaxVcpus
  /\ routes \subseteq Gsis
  /\ result \in {<< >>} \cup {<<v>> : v \in ChipVals \cup PitVals \cup ClockVals}
  /\ believed \in {"none", "full", "split"}

VmInit ==
  /\ Init
  /\ irqchip = "none"
  /\ chip = [i \in ChipIds |-> 0]
  /\ pit = FALSE /\ pitState = 0
  /\ clock \in ClockVals
  /\ vcpus = 0
  /\ routes = {}
  /\ result = << >>
  /\ believed = "none"

(* A call that fails with errno e and changes nothing. *)
Fails(e) == lastErr' = e /\ UNCHANGED <<vmVars, ioevents, irqfds, requested, routed>>

(* A call that succeeds and changes only the variables it names. *)
Succeeds == lastErr' = "Ok" /\ UNCHANGED <<ioevents, irqfds, requested, routed>>

-----------------------------------------------------------------------------
(* VmFd::set_tss_address(offset). *)
SetTssAddress(offset) ==
  IF offset > TssLimit THEN Fails("EINVAL")
  ELSE Succeeds /\ UNCHANGED vmVars

(* KVM_CREATE_IRQCHIP: a PIC pair and an IOAPIC, with default routing,   *)
(* once, and only before the first vCPU.                                   *)
KernelCreateIrqChip ==
  IF irqchip # "none" THEN Fails("EEXIST")
  ELSE IF vcpus > 0 THEN Fails("EINVAL")
  ELSE /\ Succeeds
       /\ irqchip' = "full" /\ chip' = [i \in ChipIds |-> 0]
       /\ routes' = DefaultRoutes
       /\ UNCHANGED <<pit, pitState, clock, vcpus, result>>

(* KVM_ENABLE_CAP: KVM_CAP_SPLIT_IRQCHIP puts the local APICs in the     *)
(* kernel and leaves the IOAPIC to the VMM; any other capability, and     *)
(* the Default one, is EINVAL here.                                        *)
KernelEnableCap(cap, pins) ==
  IF cap # "SplitIrqchip" \/ pins > MaxReservedPins THEN Fails("EINVAL")
  ELSE IF irqchip # "none" \/ vcpus > 0 THEN Fails("EEXIST")
  ELSE /\ Succeeds
       /\ irqchip' = "split" /\ routes' = {}
       /\ UNCHANGED <<chip, pit, pitState, clock, vcpus, result>>

(* Mutant: create_irq_chip that discards the ioctl's return value. *)
CreateIrqChipIgnoreRet == KernelCreateIrqChip /\ believed' = "full"

(* VmFd::create_irq_chip: Ok exactly when the ioctl returned 0. *)
CreateIrqChip ==
  /\ KernelCreateIrqChip
  /\ believed' = IF lastErr' = "Ok" THEN "full" ELSE believed

(* VmFd::enable_cap(cap): Ok exactly when the ioctl returned 0. *)
EnableCap(cap, pins) ==
  /\ KernelEnableCap(cap, pins)
  /\ believed' = IF lastErr' = "Ok" THEN "split" ELSE believed

(* VmFd::get_irqchip(irqchip): only a full in-kernel irqchip has chips. *)
GetIrqchip(id) ==
  IF irqchip # "full" THEN Fails("ENXIO")
  ELSE IF id \notin ChipIds THEN Fails("EINVAL")
  ELSE Succeeds /\ result' = <<chip[id]>>
       /\ UNCHANGED <<irqchip, chip, pit, pitState, clock, vcpus, routes>>

(* VmFd::set_irqchip(irqchip). *)
SetIrqchip(id, v) ==
  IF irqchip # "full" THEN Fails("ENXIO")
  ELSE IF id \notin ChipIds THEN Fails("EINVAL")
  ELSE Succeeds /\ chip' = [chip EXCEPT ![id] = v]
       /\ UNCHANGED <<irqchip, pit, pitState, clock, vcpus, routes, result>>

(* VmFd::create_pit2(pit_config). *)
CreatePit2 ==
  IF pit THEN Fails("EEXIST")
  ELSE Succeeds /\ pit' = TRUE /\ pitState' = 0
       /\ UNCHANGED <<irqchip, chip, clock, vcpus, routes, result>>

(* VmFd::get_pit2. *)
GetPit2 ==
  IF ~pit THEN Fails("ENXIO")
  ELSE Succeeds /\ result' = <<pitState>>
       /\ UNCHANGED <<irqchip, chip, pit, pitState, clock, vcpus, routes>>

(* VmFd::set_pit2(pitstate). *)
SetPit2(v) ==
  IF ~pit THEN Fails("ENXIO")
  ELSE Succeeds /\ pitState' = v
       /\ UNCHANGED <<irqchip, chip, pit, clock, vcpus, routes, result>>

(* VmFd::get_clock: a reading taken after the clock has advanced since  *)
(* the last call.                                                          *)
GetClock ==
  /\ clock + 1 \in ClockVals
  /\ Succeeds /\ clock' = clock + 1 /\ result' = <<clock + 1>>
  /\ UNCHANGED <<irqchip, chip, pit, pitState, vcpus, routes>>

(* VmFd::set_clock(clock). *)
SetClock(v) ==
  Succeeds /\ clock' = v /\ UNCHANGED <<irqchip, chip, pit, pitState, vcpus, routes, result>>

(* VmFd::signal_msi(msi): EINVAL without an in-kernel irqchip, else the   *)
(* kernel returns how many vCPUs took it (0: blocked by the guest) or -1. *)
SignalMsi(ret) ==
  IF irqchip = "none" \/ ret < 0 THEN Fails("EINVAL")
  ELSE Succeeds /\ UNCHANGED vmVars

(* VmFd::set_gsi_routing(irq_routing), after the count checks FamWrapper  *)
(* models: the table replaces the whole routing.                          *)
SetGsiRoutingVm(gsis) ==
  IF irqchip = "none" THEN Fails("EINVAL")
  ELSE Succeeds /\ routes' = gsis
       /\ UNCHANGED <<irqchip, chip, pit, pitState, clock, vcpus, result>>

(* VmFd::create_vcpu(id) as far as the VM goes: the code issues          *)
(* KVM_CREATE_VCPU and returns Err on a negative return, with no check of *)
(* its own.  The kernel answers EEXIST for an id already taken (possible  *)
(* once a vCPU exists; ids are not modelled) and EINVAL at its vCPU limit. *)
CreateVcpuVm ==
  \/ vcpus > 0 /\ Fails("EEXIST")
  \/ IF vcpus = MaxVcpus THEN Fails("EINVAL")
     ELSE Succeeds /\ vcpus' = vcpus + 1
          /\ UNCHANGED <<irqchip, chip, pit, pitState, clock, routes, result>>

(* VmFd::register_irqfd: KVM_IRQFD assign needs an in-kernel irqchip. *)
RegisterIrqfdVm(fd, gsi) ==
  IF irqchip = "none" THEN Fails("EINVAL")
  ELSE RegisterIrqfd(fd, gsi) /\ UNCHANGED vmVars

(* VmFd::unregister_irqfd: deassign does not look at the irqchip. *)
UnregisterIrqfdVm(fd, gsi) == UnregisterIrqfd(fd, gsi) /\ UNCHANGED vmVars

(* The calls that leave the interrupt-controller mode alone. *)
OtherCalls ==
  \/ \E o \in Offsets : SetTssAddress(o)
  \/ \E id \in ChipIds : GetIrqchip(id) \/ \E v \in ChipVals : SetIrqchip(id, v)
  \/ CreatePit2 \/ GetPit2 \/ \E v \in PitVals : SetPit2(v)
  \/ GetClock \/ \E v \in ClockVals : SetClock(v)
  \/ \E ret \in {-1, 0, 1} : SignalMsi(ret)
  \/ \E gsis \in SUBSET Gsis : SetGsiRoutingVm(gsis)
  \/ CreateVcpuVm
  \/ \E fd \in EventFds, gsi \in Gsis : RegisterIrqfdVm(fd, gsi) \/ UnregisterIrqfdVm(fd, gsi)

VmNext ==
  \/ CreateIrqChip
  \/ \E cap \in {"SplitIrqchip", "None"}, p \in Pins : EnableCap(cap, p)
  \/ OtherCalls /\ UNCHANGED believed

VmSpec == VmInit /\ [][VmNext]_allVars

-----------------------------------------------------------------------------
(* The caller is told the interrupt-controller mode it set up, and no     *)
(* other: the mode it believes after create_irq_chip and enable_cap, in   *)
(* any order and with any vCPUs created in between, is the kernel's.       *)
ChipAsReported == believed = irqchip

=============================================================================
