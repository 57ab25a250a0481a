----------------------------- MODULE MCKvmCaps -----------------------------
(* Hosts with 2 and with 8 online CPUs; the x86 KVM_MAX_VCPUS (1024) and   *)
(* KVM_USER_MEM_SLOTS (32764); a kvm_run mapping of three pages.  TLC's    *)
(* integers are 32-bit, so usize is 30 bits wide here: the wrap of -1 to   *)
(* the largest usize is the same far-out-of-range count as with 64 bits.   *)
EXTENDS KvmCaps

MCUsizeModulus == 2^30

=============================================================================
