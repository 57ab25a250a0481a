--------------------------- MODULE MCNestedState ---------------------------
(* The x86 sizes of a VMCS12 and a VMCB12 (one page each) and two vCPUs,  *)
(* each saved through its own buffer.                                      *)
EXTENDS NestedState, TLC

CONSTANTS c1, c2

MCVcpus == {c1, c2}
MCSymmetry == Permutations(MCVcpus)

=============================================================================
