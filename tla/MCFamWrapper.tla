---------------------------- MODULE MCFamWrapper ----------------------------
(* Small instance of FamWrapper for TLC: two wrappers, max_len 2, two      *)
(* entry values (the zero entry and one other), flags 0 or 1.              *)
EXTENDS FamWrapper, TLC

CONSTANTS w1, w2, z, v1, garbage

MCHandles == {w1, w2}
MCValues == {z, v1}
MCFlags == {0, 1}
MCSymmetry == Permutations(MCHandles)
=============================================================================
