------------------------------ MODULE VmTests ------------------------------
(***************************************************************************)
(* The unit tests and doc examples of VmFd (src/src/ioctls/vm.rs), each a *)
(* trace of calls with the outcome the test asserts, replayed against the *)
(* models of the kernel's VM: VmIrq (with the ioeventfd and irqfd tables  *)
(* of IoEvents) and DirtyLog.  These tests run against real KVM, so a     *)
(* trace the models cannot follow is a kernel contract modelled wrongly.  *)
(* As in trace validation, a step conjoins the model's own action with    *)
(* the expectations of the logged call, and the trace is accepted when   *)
(* its last step is taken.                                                 *)
(***************************************************************************)
EXTENDS VmIrq, Sequences, TLC

CONSTANTS Evt1, Evt2, Evt3   \* the EventFds the tests create

ASSUME TestFdsAssumption == {Evt1, Evt2, Evt3} \subseteq EventFds

VARIABLES
  region, logging, bitmapWords, writtenWords,   \* DirtyLog's kernel slots
  test,    \* the test being replayed
  step,    \* the index of its next call
  saved    \* saved[n]: <<v>>, a value the test kept in a local binding

DL == INSTANCE DirtyLog WITH Slots <- {0}, RegionSizes <- {0, 16384},
                             PageSize <- 4096, AnySize <- FALSE

dlVars == <<region, logging, bitmapWords, writtenWords>>
ioVars == <<ioevents, irqfds, requested, routed>>
traceVars == <<allVars, dlVars, test, step, saved>>

-----------------------------------------------------------------------------
(* A logged call: its name, its arguments, whether the test asserts Ok,   *)
(* Err or nothing ("Any"), the local it binds the result to, and the      *)
(* comparisons it asserts of the result.                                   *)
Step(c, a, e, sv, ch) == [call |-> c, args |-> a, expect |-> e, save |-> sv, checks |-> ch]
Ok(c, a) == Step(c, a, "Ok", "", {})
Err(c, a) == Step(c, a, "Err", "", {})
(* A comparison of the result with a literal or with a saved local. *)
Cmp(rel, ref, lit) == [rel |-> rel, ref |-> ref, lit |-> lit]

SaveNames == {"pit2", "orig"}

Apply(c, a) ==
  CASE c = "SetUserMemoryRegion" ->
         DL!SetUserMemoryRegion(a[1], a[2], a[3]) /\ UNCHANGED <<ioVars, vmVars, believed>>
    [] c = "GetDirtyLog" ->
         DL!GetDirtyLog(a[1], a[2]) /\ UNCHANGED <<ioVars, vmVars, believed>>
    [] c = "RegisterIoevent" ->
         RegisterIoevent(a[1], a[2], a[3], a[4], a[5]) /\ UNCHANGED <<vmVars, believed, dlVars>>
    [] c = "UnregisterIoevent" ->
         UnregisterIoevent(a[1], a[2], a[3]) /\ UNCHANGED <<vmVars, believed, dlVars>>
    [] c = "CreateIrqChip" -> CreateIrqChip /\ UNCHANGED dlVars
    [] c = "EnableCap" -> EnableCap(a[1], a[2]) /\ UNCHANGED dlVars
    [] OTHER -> UNCHANGED <<believed, dlVars>> /\
       CASE c = "SetTssAddress" -> SetTssAddress(a[1])
         [] c = "GetIrqchip" -> GetIrqchip(a[1])
         [] c = "SetIrqchip" -> SetIrqchip(a[1], a[2])
         [] c = "CreatePit2" -> CreatePit2
         [] c = "GetPit2" -> GetPit2
         [] c = "SetPit2" -> SetPit2(a[1])
         [] c = "SetPit2Saved" -> SetPit2(saved[a[1]][1])
         [] c = "GetClock" -> GetClock
         [] c = "SetClock" -> SetClock(a[1])
         [] c = "SignalMsi" -> \E ret \in {-1, 0, 1} : SignalMsi(ret)
         [] c = "SetGsiRouting" -> SetGsiRoutingVm(a[1])
         [] c = "CreateVcpu" -> CreateVcpuVm
         [] c = "RegisterIrqfd" -> RegisterIrqfdVm(a[1], a[2])
         [] c = "UnregisterIrqfd" -> UnregisterIrqfdVm(a[1], a[2])

Operand(k) == IF k.ref = "" THEN k.lit ELSE saved[k.ref][1]

Holds(k) ==
  CASE k.rel = "eq" -> result'[1] = Operand(k)
    [] k.rel = "gt" -> result'[1] > Operand(k)
    [] k.rel = "lt" -> result'[1] < Operand(k)

-----------------------------------------------------------------------------
(* The doc examples, in the order of vm.rs.  0x4000 bytes is 16384; the   *)
(* TSS address 0xfffb_d000 is page 1048509; Pio(0xf4) and Mmio(0x1000) are *)
(* 244 and 4096.                                                           *)
DocSetUserMemoryRegion == << Ok("SetUserMemoryRegion", <<0, 16384, FALSE>>) >>
DocSetTssAddress == << Ok("SetTssAddress", <<1048509>>) >>
DocCreateIrqChip == << Ok("CreateIrqChip", << >>) >>
DocGetIrqchip == << Ok("CreateIrqChip", << >>), Ok("GetIrqchip", <<0>>) >>
DocSetIrqchip == << Ok("CreateIrqChip", << >>), Ok("SetIrqchip", <<0, 0>>) >>
DocCreatePit2 == << Ok("CreatePit2", << >>) >>
DocGetPit2 == << Ok("CreatePit2", << >>), Ok("GetPit2", << >>) >>
DocSetPit2 == << Ok("CreatePit2", << >>), Ok("SetPit2", <<0>>) >>
DocGetClock == << Ok("GetClock", << >>) >>
DocSetClock == << Ok("SetClock", <<0>>) >>
DocSignalMsi == << Ok("CreateIrqChip", << >>) >>
DocSetGsiRouting == << Ok("CreateIrqChip", << >>), Ok("SetGsiRouting", <<{}>>) >>
DocRegisterIoevent ==
  << Ok("RegisterIoevent", <<Evt1, "pio", 244, 0, 0>>),
     Ok("RegisterIoevent", <<Evt1, "mmio", 4096, 0, 0>>) >>
DocUnregisterIoevent ==
  << Ok("RegisterIoevent", <<Evt1, "pio", 244, 0, 0>>),
     Ok("RegisterIoevent", <<Evt1, "mmio", 4096, 0, 0>>),
     Ok("UnregisterIoevent", <<Evt1, "pio", 244>>),
     Ok("UnregisterIoevent", <<Evt1, "mmio", 4096>>) >>
DocGetDirtyLog ==
  << Ok("SetUserMemoryRegion", <<0, 16384, TRUE>>), Ok("CreateVcpu", << >>),
     Ok("GetDirtyLog", <<0, 16384>>) >>
DocRegisterIrqfd == << Ok("CreateIrqChip", << >>), Ok("RegisterIrqfd", <<Evt1, 0>>) >>
DocUnregisterIrqfd ==
  << Ok("CreateIrqChip", << >>), Ok("RegisterIrqfd", <<Evt1, 0>>),
     Ok("UnregisterIrqfd", <<Evt1, 0>>) >>
DocCreateVcpu == << Step("CreateVcpu", << >>, "Any", "", {}) >>
DocEnableCap == << Ok("EnableCap", <<"SplitIrqchip", 24>>) >>

(* The unit tests of vm.rs that run on x86.  The datamatch values 0x7f,  *)
(* 0x1337, 0xdead_beef and 0xdead_beef_dead_beef are 1, 2, 3 and 4;       *)
(* Pio(0xc1), (0xc2), (0xc4), (0xc8) are 193, 194, 196 and 200.           *)
TestSetInvalidMemory == << Err("SetUserMemoryRegion", <<0, 0, FALSE>>) >>
TestSetTssAddress == << Ok("SetTssAddress", <<1048509>>) >>
TestIrqChip ==
  << Ok("CreateIrqChip", << >>), Ok("SetIrqchip", <<0, 10>>),
     Step("GetIrqchip", <<0>>, "Ok", "", {Cmp("eq", "", 10)}) >>
TestPit2 ==
  << Ok("CreatePit2", << >>), Step("GetPit2", << >>, "Ok", "pit2", {}),
     Ok("SetPit2Saved", <<"pit2">>),
     Step("GetPit2", << >>, "Ok", "", {Cmp("eq", "pit2", 0)}) >>
TestClock ==
  << Step("GetClock", << >>, "Ok", "orig", {}), Ok("SetClock", <<10>>),
     Step("GetClock", << >>, "Ok", "", {Cmp("gt", "", 10), Cmp("lt", "orig", 0)}) >>
TestRegisterIoevent ==
  << Ok("RegisterIoevent", <<Evt1, "pio", 244, 0, 0>>),
     Ok("RegisterIoevent", <<Evt1, "mmio", 4096, 0, 0>>),
     Ok("RegisterIoevent", <<Evt1, "pio", 193, 1, 1>>),
     Ok("RegisterIoevent", <<Evt1, "pio", 194, 2, 2>>),
     Ok("RegisterIoevent", <<Evt1, "pio", 196, 4, 3>>),
     Ok("RegisterIoevent", <<Evt1, "pio", 200, 8, 4>>) >>
TestUnregisterIoevent ==
  << Err("UnregisterIoevent", <<Evt1, "pio", 244>>),
     Err("UnregisterIoevent", <<Evt1, "mmio", 4096>>) >> \o DocUnregisterIoevent
TestRegisterIrqfd ==
  << Ok("CreateIrqChip", << >>), Ok("RegisterIrqfd", <<Evt1, 4>>),
     Ok("RegisterIrqfd", <<Evt2, 8>>), Ok("RegisterIrqfd", <<Evt3, 4>>),
     Err("RegisterIrqfd", <<Evt3, 4>>), Err("RegisterIrqfd", <<Evt3, 5>>) >>
TestUnregisterIrqfd ==
  << Ok("CreateIrqChip", << >>), Ok("RegisterIrqfd", <<Evt1, 4>>),
     Ok("RegisterIrqfd", <<Evt2, 8>>), Ok("RegisterIrqfd", <<Evt3, 4>>),
     Ok("UnregisterIrqfd", <<Evt2, 8>>), Ok("UnregisterIrqfd", <<Evt2, 8>>),
     Err("RegisterIrqfd", <<Evt3, 4>>), Err("RegisterIrqfd", <<Evt3, 5>>),
     Ok("UnregisterIrqfd", <<Evt3, 5>>) >>
TestSignalMsiFailure == << Err("SignalMsi", << >>) >>
TestEnableCapFailure == << Err("EnableCap", <<"None", 0>>) >>
TestEnableSplitIrqchipCap == << Ok("EnableCap", <<"SplitIrqchip", 24>>) >>
TestSetGsiRouting ==
  << Err("SetGsiRouting", <<{}>>), Ok("CreateIrqChip", << >>),
     Ok("SetGsiRouting", <<{}>>) >>

Tests ==
  "set_user_memory_region" :> DocSetUserMemoryRegion @@
  "set_tss_address" :> DocSetTssAddress @@ "create_irq_chip" :> DocCreateIrqChip @@
  "get_irqchip" :> DocGetIrqchip @@ "set_irqchip" :> DocSetIrqchip @@
  "create_pit2" :> DocCreatePit2 @@ "get_pit2" :> DocGetPit2 @@ "set_pit2" :> DocSetPit2 @@
  "get_clock" :> DocGetClock @@ "set_clock" :> DocSetClock @@
  "signal_msi" :> DocSignalMsi @@ "set_gsi_routing" :> DocSetGsiRouting @@
  "register_ioevent" :> DocRegisterIoevent @@ "unregister_ioevent" :> DocUnregisterIoevent @@
  "get_dirty_log" :> DocGetDirtyLog @@ "register_irqfd" :> DocRegisterIrqfd @@
  "unregister_irqfd" :> DocUnregisterIrqfd @@ "create_vcpu" :> DocCreateVcpu @@
  "enable_cap" :> DocEnableCap @@
  "test_set_invalid_memory" :> TestSetInvalidMemory @@
  "test_set_tss_address" :> TestSetTssAddress @@ "test_irq_chip" :> TestIrqChip @@
  "test_pit2" :> TestPit2 @@ "test_clock" :> TestClock @@
  "test_register_ioevent" :> TestRegisterIoevent @@
  "test_unregister_ioevent" :> TestUnregisterIoevent @@
  "test_register_irqfd" :> TestRegisterIrqfd @@
  "test_unregister_irqfd" :> TestUnregisterIrqfd @@
  "test_signal_msi_failure" :> TestSignalMsiFailure @@
  "test_enable_cap_failure" :> TestEnableCapFailure @@
  "test_enable_split_irqchip_cap" :> TestEnableSplitIrqchipCap @@
  "test_set_gsi_routing" :> TestSetGsiRouting

-----------------------------------------------------------------------------
(* Each test runs on a fresh VM; the kvmclock has passed 10 ns by the time *)
(* test_clock first reads it, and leaves room in ClockVals for the two     *)
(* readings a test takes.                                                  *)
TraceInit ==
  /\ VmInit /\ DL!Init
  /\ clock > 10 /\ clock + 2 \in ClockVals
  /\ test \in DOMAIN Tests
  /\ step = 1
  /\ saved = [n \in SaveNames |-> << >>]

(* The test's next call, taken by the model with the outcome it asserts. *)
TraceNext ==
  /\ step \in DOMAIN Tests[test]
  /\ LET e == Tests[test][step] IN
       /\ Apply(e.call, e.args)
       /\ e.expect = "Ok" => lastErr' = "Ok"
       /\ e.expect = "Err" => lastErr' # "Ok"
       /\ \A k \in e.checks : Holds(k)
       /\ saved' = IF e.save = "" THEN saved ELSE [saved EXCEPT ![e.save] = result']
  /\ step' = step + 1
  /\ UNCHANGED test

(* A test body is straight-line code whose calls all return, so it is not *)
(* stopped forever while its next call can be taken.                       *)
TraceSpec == TraceInit /\ [][TraceNext]_traceVars /\ WF_traceVars(TraceNext)

(* Every test and doc example of vm.rs that runs on x86 passes on the     *)
(* model: the kernel contracts VmIrq, IoEvents and DirtyLog assume agree   *)
(* with what KVM answered these calls.                                     *)
TestsPass == <>(step = Len(Tests[test]) + 1)

=============================================================================
