----------------------------- MODULE MCVmTests -----------------------------
(* The values the tests of vm.rs use: three eventfds, the addresses and  *)
(* datamatch widths of test_register_ioevent, the gsis 0, 4, 5 and 8 of   *)
(* the irqfd tests, the chip states 0 and 10, kvmclock readings around    *)
(* the 10 test_clock sets, and the x86 limits (one vCPU is all any test   *)
(* creates).                                                               *)
EXTENDS VmTests

CONSTANTS e1, e2, e3

MCEventFds == {e1, e2, e3}

=============================================================================
