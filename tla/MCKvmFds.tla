------------------------------ MODULE MCKvmFds ------------------------------
(* Small instance of KvmFds for TLC: four fd numbers with stdin at 0, three *)
(* wrapper values.                                                         *)
EXTENDS KvmFds, TLC

CONSTANTS h1, h2, h3

MCHandles == {h1, h2, h3}
MCFds == 0..3
MCSymmetry == Permutations(MCHandles)
=============================================================================
