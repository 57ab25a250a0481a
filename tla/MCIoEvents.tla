----------------------------- MODULE MCIoEvents -----------------------------
(* A small instance of IoEvents: two eventfds, one address in each space, *)
(* NoDatamatch and a one-byte datamatch, two values, two gsis.             *)
EXTENDS IoEvents, TLC

CONSTANTS e1, e2

MCEventFds == {e1, e2}
MCSymmetry == Permutations(MCEventFds)

=============================================================================
