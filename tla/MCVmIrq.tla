------------------------------ MODULE MCVmIrq ------------------------------
(* A small instance of VmIrq: two eventfds and two gsis for the irqfds,  *)
(* one of them routed by default; two chip and PIT states; a clock of     *)
(* four readings; one vCPU; a valid and a too large split-irqchip pin     *)
(* count; the doc example's TSS page and the first page past the limit.   *)
EXTENDS VmIrq, TLC

CONSTANTS e1, e2

MCEventFds == {e1, e2}
MCSymmetry == Permutations(MCEventFds)

=============================================================================
