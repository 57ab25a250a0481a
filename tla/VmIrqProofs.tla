----------------------------- MODULE VmIrqProofs -----------------------------
(***************************************************************************)
(* Proofs, for any value sets and any vCPU limit, that create_irq_chip and *)
(* enable_cap tell the caller exactly the interrupt-controller mode the    *)
(* kernel set up, and that the VM model is well typed.                     *)
(***************************************************************************)
EXTENDS VmIrq, TLAPS

USE VmIrqAssumption

(* The inductive invariant: the mode is one of the three, the vCPU count  *)
(* is a number, and the caller's belief is the kernel's mode.              *)
IInv ==
  /\ irqchip \in {"none", "full", "split"}
  /\ vcpus \in Nat
  /\ believed = irqchip

-----------------------------------------------------------------------------
(* The initial state satisfies the inductive invariant. *)
LEMMA InitIInv == VmInit => IInv
BY DEF VmInit, IInv

(* Every call other than create_irq_chip and enable_cap leaves the mode   *)
(* alone and creates at most one vCPU.                                     *)
LEMMA OtherCallsFrame ==
  ASSUME IInv, OtherCalls
  PROVE  irqchip' = irqchip /\ vcpus' \in {vcpus, vcpus + 1}
<1>1. CASE \E o \in Offsets : SetTssAddress(o)
  BY <1>1 DEF SetTssAddress, Fails, Succeeds, vmVars
<1>2. CASE \E id \in ChipIds : GetIrqchip(id) \/ \E v \in ChipVals : SetIrqchip(id, v)
  BY <1>2 DEF GetIrqchip, SetIrqchip, Fails, Succeeds, vmVars
<1>3. CASE CreatePit2 \/ GetPit2 \/ \E v \in PitVals : SetPit2(v)
  BY <1>3 DEF CreatePit2, GetPit2, SetPit2, Fails, Succeeds, vmVars
<1>4. CASE GetClock \/ \E v \in ClockVals : SetClock(v)
  BY <1>4 DEF GetClock, SetClock, Succeeds
<1>5. CASE \E ret \in {-1, 0, 1} : SignalMsi(ret)
  BY <1>5 DEF SignalMsi, Fails, Succeeds, vmVars
<1>6. CASE \E gsis \in SUBSET Gsis : SetGsiRoutingVm(gsis)
  BY <1>6 DEF SetGsiRoutingVm, Fails, Succeeds, vmVars
<1>7. CASE CreateVcpuVm
  BY <1>7 DEF CreateVcpuVm, Fails, Succeeds, vmVars
<1>8. CASE \E fd \in EventFds, gsi \in Gsis : RegisterIrqfdVm(fd, gsi) \/ UnregisterIrqfdVm(fd, gsi)
  BY <1>8 DEF RegisterIrqfdVm, UnregisterIrqfdVm, Fails, vmVars
<1> QED
  BY <1>1, <1>2, <1>3, <1>4, <1>5, <1>6, <1>7, <1>8 DEF OtherCalls

(* create_irq_chip: the kernel answers EEXIST or EINVAL and nothing       *)
(* changes, or it sets up a full irqchip and the caller is told so; it    *)
(* succeeds only with no irqchip and no vCPU.                              *)
LEMMA CreateIrqChipStep ==
  ASSUME IInv, CreateIrqChip
  PROVE  /\ vcpus' = vcpus
         /\ \/ irqchip' = irqchip /\ believed' = believed
            \/ irqchip = "none" /\ vcpus = 0 /\ irqchip' = "full" /\ believed' = "full"
<1>1. CASE irqchip # "none"
  BY <1>1 DEF CreateIrqChip, KernelCreateIrqChip, Fails, vmVars
<1>2. CASE irqchip = "none" /\ vcpus > 0
  BY <1>2 DEF CreateIrqChip, KernelCreateIrqChip, Fails, vmVars
<1>3. CASE irqchip = "none" /\ vcpus = 0
  BY <1>3 DEF CreateIrqChip, KernelCreateIrqChip, Succeeds
<1> QED
  BY <1>1, <1>2, <1>3 DEF IInv

(* enable_cap: EINVAL for another capability or too many pins, EEXIST    *)
(* once an irqchip or a vCPU exists, else a split irqchip the caller is   *)
(* told of.                                                                *)
LEMMA EnableCapStep ==
  ASSUME IInv, NEW cap, NEW p, EnableCap(cap, p)
  PROVE  /\ vcpus' = vcpus
         /\ \/ irqchip' = irqchip /\ believed' = believed
            \/ irqchip = "none" /\ vcpus = 0 /\ irqchip' = "split" /\ believed' = "split"
<1>1. CASE cap # "SplitIrqchip" \/ p > MaxReservedPins
  BY <1>1 DEF EnableCap, KernelEnableCap, Fails, vmVars
<1>2. CASE ~(cap # "SplitIrqchip" \/ p > MaxReservedPins) /\ (irqchip # "none" \/ vcpus > 0)
  BY <1>2 DEF EnableCap, KernelEnableCap, Fails, vmVars
<1>3. CASE ~(cap # "SplitIrqchip" \/ p > MaxReservedPins) /\ irqchip = "none" /\ vcpus = 0
  BY <1>3 DEF EnableCap, KernelEnableCap, Succeeds
<1> QED
  BY <1>1, <1>2, <1>3 DEF IInv

(* Every step keeps the inductive invariant. *)
LEMMA NextIInv == IInv /\ [VmNext]_allVars => IInv'
<1> SUFFICES ASSUME IInv, [VmNext]_allVars PROVE IInv'
  OBVIOUS
<1>1. CASE CreateIrqChip
  BY <1>1, CreateIrqChipStep DEF IInv
<1>2. CASE \E cap \in {"SplitIrqchip", "None"}, p \in Pins : EnableCap(cap, p)
  BY <1>2, EnableCapStep DEF IInv
<1>3. CASE OtherCalls /\ UNCHANGED believed
  BY <1>3, OtherCallsFrame DEF IInv
<1>4. CASE UNCHANGED allVars
  BY <1>4 DEF IInv, allVars, vmVars
<1> QED
  BY <1>1, <1>2, <1>3, <1>4 DEF VmNext

-----------------------------------------------------------------------------
(* create_irq_chip and enable_cap tell the caller the mode the kernel set *)
(* up, in every order of calls and with any vCPUs created in between.      *)
THEOREM ChipAsReportedHolds == VmSpec => []ChipAsReported
<1>1. IInv => ChipAsReported
  BY DEF IInv, ChipAsReported
<1> QED
  BY <1>1, InitIInv, NextIInv, PTL DEF VmSpec

-----------------------------------------------------------------------------
(* The initial state is well typed. *)
LEMMA InitTypeOK == VmInit => VmTypeOK
<1> SUFFICES ASSUME VmInit PROVE VmTypeOK
  OBVIOUS
<1>1. TypeOK
  BY DEF VmInit, Init, TypeOK, Errors
<1>2. chip \in [ChipIds -> ChipVals]
  BY DEF VmInit
<1>3. result \in {<< >>} \cup {<<v>> : v \in ChipVals \cup PitVals \cup ClockVals}
  BY DEF VmInit
<1>4. vcpus \in 0..MaxVcpus /\ routes \subseteq Gsis
  BY DEF VmInit
<1> QED
  BY <1>1, <1>2, <1>3, <1>4 DEF VmInit, VmTypeOK

(* A failing call changes nothing but the error, which is one of the     *)
(* errnos the model knows.                                                 *)
LEMMA FailsTypeOK ==
  ASSUME VmTypeOK, NEW e \in Errors, Fails(e), UNCHANGED believed
  PROVE  VmTypeOK'
BY DEF Fails, vmVars, VmTypeOK, TypeOK

(* The calls other than create_irq_chip and enable_cap keep the types:   *)
(* create_vcpu stops at the VM's limit, and the getters return a chip,   *)
(* PIT or clock value.                                                     *)
LEMMA OtherCallsTypeOK ==
  ASSUME VmTypeOK, OtherCalls, UNCHANGED believed
  PROVE  VmTypeOK'
<1>1. CASE \E o \in Offsets : SetTssAddress(o)
  BY <1>1, FailsTypeOK DEF SetTssAddress, Succeeds, vmVars, VmTypeOK, TypeOK, Errors
<1>2. CASE \E id \in ChipIds : GetIrqchip(id) \/ \E v \in ChipVals : SetIrqchip(id, v)
  BY <1>2, FailsTypeOK DEF GetIrqchip, SetIrqchip, Succeeds, VmTypeOK, TypeOK, Errors
<1>3. CASE CreatePit2 \/ GetPit2 \/ \E v \in PitVals : SetPit2(v)
  BY <1>3, FailsTypeOK DEF CreatePit2, GetPit2, SetPit2, Succeeds, VmTypeOK, TypeOK, Errors
<1>4. CASE GetClock \/ \E v \in ClockVals : SetClock(v)
  BY <1>4 DEF GetClock, SetClock, Succeeds, VmTypeOK, TypeOK, Errors
<1>5. CASE \E ret \in {-1, 0, 1} : SignalMsi(ret)
  BY <1>5, FailsTypeOK DEF SignalMsi, Succeeds, vmVars, VmTypeOK, TypeOK, Errors
<1>6. CASE \E gsis \in SUBSET Gsis : SetGsiRoutingVm(gsis)
  BY <1>6, FailsTypeOK DEF SetGsiRoutingVm, Succeeds, VmTypeOK, TypeOK, Errors
<1>7. CASE CreateVcpuVm
  BY <1>7, FailsTypeOK DEF CreateVcpuVm, Succeeds, VmTypeOK, TypeOK, Errors
<1>8. CASE \E fd \in EventFds, gsi \in Gsis : RegisterIrqfdVm(fd, gsi) \/ UnregisterIrqfdVm(fd, gsi)
  BY <1>8, FailsTypeOK DEF RegisterIrqfdVm, UnregisterIrqfdVm, RegisterIrqfd,
                           UnregisterIrqfd, Irqfd, vmVars, VmTypeOK, TypeOK, Errors
<1> QED
  BY <1>1, <1>2, <1>3, <1>4, <1>5, <1>6, <1>7, <1>8 DEF OtherCalls

(* Every step keeps the types. *)
LEMMA NextTypeOK == VmTypeOK /\ [VmNext]_allVars => VmTypeOK'
<1> SUFFICES ASSUME VmTypeOK, [VmNext]_allVars PROVE VmTypeOK'
  OBVIOUS
<1>1. CASE CreateIrqChip
  <2>1. CASE irqchip # "none" \/ vcpus > 0
    <3>1. Fails("EEXIST") \/ Fails("EINVAL")
      BY <1>1, <2>1 DEF CreateIrqChip, KernelCreateIrqChip
    <3>2. believed' = believed
      BY <1>1, <3>1 DEF CreateIrqChip, Fails
    <3> QED
      BY <3>1, <3>2, FailsTypeOK DEF Errors
  <2>2. CASE irqchip = "none" /\ vcpus = 0
    <3>1. /\ Succeeds
          /\ irqchip' = "full" /\ chip' = [i \in ChipIds |-> 0]
          /\ routes' = DefaultRoutes
          /\ UNCHANGED <<pit, pitState, clock, vcpus, result>>
          /\ believed' = "full"
      BY <1>1, <2>2 DEF CreateIrqChip, KernelCreateIrqChip, Succeeds
    <3> QED
      BY <3>1 DEF Succeeds, VmTypeOK, TypeOK, Errors
  <2> QED
    BY <2>1, <2>2 DEF VmTypeOK
<1>2. CASE \E cap \in {"SplitIrqchip", "None"}, p \in Pins : EnableCap(cap, p)
  <2>1. PICK cap \in {"SplitIrqchip", "None"}, p \in Pins : EnableCap(cap, p)
    BY <1>2
  <2>2. CASE cap # "SplitIrqchip" \/ p > MaxReservedPins \/ irqchip # "none" \/ vcpus > 0
    <3>1. Fails("EINVAL") \/ Fails("EEXIST")
      BY <2>1, <2>2 DEF EnableCap, KernelEnableCap
    <3>2. believed' = believed
      BY <2>1, <3>1 DEF EnableCap, Fails
    <3> QED
      BY <3>1, <3>2, FailsTypeOK DEF Errors
  <2>3. CASE ~(cap # "SplitIrqchip" \/ p > MaxReservedPins \/ irqchip # "none" \/ vcpus > 0)
    <3>1. /\ Succeeds
          /\ irqchip' = "split" /\ routes' = {}
          /\ UNCHANGED <<chip, pit, pitState, clock, vcpus, result>>
          /\ believed' = "split"
      BY <2>1, <2>3 DEF EnableCap, KernelEnableCap, Succeeds
    <3> QED
      BY <3>1 DEF Succeeds, VmTypeOK, TypeOK, Errors
  <2> QED
    BY <2>2, <2>3
<1>3. CASE OtherCalls /\ UNCHANGED believed
  BY <1>3, OtherCallsTypeOK
<1>4. CASE UNCHANGED allVars
  BY <1>4 DEF allVars, vars, vmVars, VmTypeOK, TypeOK
<1> QED
  BY <1>1, <1>2, <1>3, <1>4 DEF VmNext

(* Every reachable state of the VM model is well typed: each getter's     *)
(* result is a value of its kernel struct and the caller's belief one of  *)
(* the three modes.  The bound on the vCPU count in VmTypeOK is the        *)
(* kernel's KVM_CREATE_VCPU limit, which create_vcpu does not check.       *)
THEOREM TypeCorrect == VmSpec => []VmTypeOK
BY InitTypeOK, NextTypeOK, PTL DEF VmSpec

=============================================================================
