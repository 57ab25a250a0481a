------------------------------ MODULE KvmCaps ------------------------------
(***************************************************************************)
(* The capability queries of Kvm (src/src/ioctls/system.rs):              *)
(* get_api_version, check_extension, get_vcpu_mmap_size, get_nr_vcpus,    *)
(* get_nr_memslots and get_max_vcpus.  Each issues one ioctl on the       *)
(* /dev/kvm fd and interprets the int it returns: a count, 0 for a        *)
(* capability the kernel does not implement, -1 when the ioctl fails (a   *)
(* Kvm built from a bad fd, as test_bad_kvm_fd does).  The state is the   *)
(* host (the fd, the capabilities its KVM implements, its online CPUs)    *)
(* and what each getter last returned to the caller.                      *)
(***************************************************************************)
EXTENDS Integers

CONSTANTS
  OnlineCpus,    \* the numbers of online host CPUs considered
  KvmMaxVcpus,   \* the kernel's KVM_MAX_VCPUS
  UserMemSlots,  \* the kernel's KVM_USER_MEM_SLOTS
  RunSize,       \* the size of struct kvm_run's mapping KVM_GET_VCPU_MMAP_SIZE returns
  UsizeModulus   \* 2^w for the caller's usize of w bits

(* KVM_MAX_VCPUS is at least 4 on every x86 kernel (255 and up), a usize *)
(* is at least 16 bits wide (Rust's guarantee), and it holds every count  *)
(* the kernel reports.                                                     *)
ASSUME KvmCapsAssumption ==
  /\ OnlineCpus \subseteq Nat \ {0}
  /\ KvmMaxVcpus \in Nat /\ KvmMaxVcpus >= 4
  /\ UserMemSlots \in Nat \ {0}
  /\ RunSize \in Nat \ {0}
  /\ UsizeModulus \in Nat /\ UsizeModulus >= 65536
  /\ UsizeModulus > KvmMaxVcpus /\ UsizeModulus > UserMemSlots /\ UsizeModulus > RunSize

(* The Cap variants the getters and the tests ask about. *)
Caps == {"UserMemory", "NrVcpus", "MaxVcpus", "NrMemslots"}
(* The getters whose last answer the caller holds. *)
Getters == {"api", "ext", "mmap", "nr", "memslots", "max"}

VARIABLES
  fdOk,     \* the Kvm wraps an open /dev/kvm fd
  caps,     \* the capabilities this kernel's KVM_CHECK_EXTENSION knows
  online,   \* online host CPUs
  got,      \* got[g]: <<v>>, what getter g last returned; << >> before
  lastErr   \* "Ok" or the errno of get_vcpu_mmap_size's Err

vars == <<fdOk, caps, online, got, lastErr>>

TypeOK ==
  /\ fdOk \in BOOLEAN
  /\ caps \subseteq Caps
  /\ online \in OnlineCpus
  /\ DOMAIN got = Getters /\ \A g \in Getters : DOMAIN got[g] \subseteq {1}
  /\ \A i \in DOMAIN got["api"] : got["api"][i] \in Int
  /\ \A i \in DOMAIN got["ext"] : got["ext"][i] \in BOOLEAN
  /\ \A g \in {"mmap", "nr", "memslots", "max"} :
       \A i \in DOMAIN got[g] : got[g][i] \in 0..(UsizeModulus - 1)
  /\ lastErr \in {"Ok", "EBADF"}

Init ==
  /\ fdOk \in BOOLEAN
  /\ caps \in SUBSET Caps
  /\ online \in OnlineCpus
  /\ got = [g \in Getters |-> << >>]
  /\ lastErr = "Ok"

(* Mutant: the i32 taken as its value, as a checked conversion would. *)
AsUsizeNoWrap(x) == x

(* `x as usize` of an i32: two's complement wraps a negative x. *)
AsUsize(x) == x % UsizeModulus

(* What KVM_CHECK_EXTENSION answers on x86 for a capability it knows:     *)
(* the recommended vCPUs are the online CPUs, at most KVM_MAX_VCPUS.      *)
KernelCap(c) ==
  CASE c = "NrVcpus" -> IF online < KvmMaxVcpus THEN online ELSE KvmMaxVcpus
    [] c = "MaxVcpus" -> KvmMaxVcpus
    [] c = "NrMemslots" -> UserMemSlots
    [] c = "UserMemory" -> 1

(* Kvm::check_extension_int: the raw ioctl return. *)
CheckExtensionInt(c) ==
  IF ~fdOk THEN -1
  ELSE IF c \notin caps THEN 0
  ELSE KernelCap(c)

(* Mutant: the fallback taken only for a negative answer. *)
NrVcpusOfNegOnly == LET x == CheckExtensionInt("NrVcpus") IN IF x >= 0 THEN AsUsize(x) ELSE 4

(* The value get_nr_vcpus computes. *)
NrVcpusOf == LET x == CheckExtensionInt("NrVcpus") IN IF x > 0 THEN AsUsize(x) ELSE 4

(* A getter returns v; nothing else changes. *)
Return(g, v) == got' = [got EXCEPT ![g] = <<v>>] /\ UNCHANGED <<fdOk, caps, online, lastErr>>

-----------------------------------------------------------------------------
(* Kvm::get_api_version: the raw KVM_GET_API_VERSION return. *)
GetApiVersion == Return("api", IF fdOk THEN 12 ELSE -1)

(* Kvm::check_extension(c): check_extension_int(c) > 0. *)
CheckExtension(c) == Return("ext", CheckExtensionInt(c) > 0)

(* Kvm::get_vcpu_mmap_size: Ok(res as usize) for a positive return, else *)
(* Err(errno::Error::last()).                                             *)
GetVcpuMmapSize ==
  IF fdOk
    THEN got' = [got EXCEPT !["mmap"] = <<AsUsize(RunSize)>>] /\ lastErr' = "Ok"
         /\ UNCHANGED <<fdOk, caps, online>>
    ELSE lastErr' = "EBADF" /\ UNCHANGED <<fdOk, caps, online, got>>

(* Kvm::get_nr_vcpus: the recommended vCPUs, 4 when the answer is not     *)
(* positive.                                                               *)
GetNrVcpus == Return("nr", NrVcpusOf)

(* Kvm::get_nr_memslots: KVM_CAP_NR_MEMSLOTS, 32 when not positive. *)
GetNrMemslots ==
  LET x == CheckExtensionInt("NrMemslots") IN Return("memslots", IF x > 0 THEN AsUsize(x) ELSE 32)

(* Mutant: get_nr_vcpus's default 4 for an answer of 0. *)
GetMaxVcpusDefault4 ==
  LET x == CheckExtensionInt("MaxVcpus") IN Return("max", IF x = 0 THEN 4 ELSE AsUsize(x))

(* Kvm::get_max_vcpus: get_nr_vcpus() for an answer of 0, any other      *)
(* answer cast to usize.                                                   *)
GetMaxVcpus ==
  LET x == CheckExtensionInt("MaxVcpus") IN Return("max", IF x = 0 THEN NrVcpusOf ELSE AsUsize(x))

Next ==
  \/ GetApiVersion
  \/ \E c \in Caps : CheckExtension(c)
  \/ GetVcpuMmapSize \/ GetNrVcpus \/ GetNrMemslots \/ GetMaxVcpus

Spec == Init /\ [][Next]_vars

-----------------------------------------------------------------------------
(* Every count getter returns a positive count, whether the kernel         *)
(* implements the capability, does not (0), or the ioctl fails (-1): the  *)
(* doc examples of get_nr_vcpus, get_nr_memslots and get_max_vcpus assert *)
(* > 0, and callers size vCPU and slot tables from these.                 *)
CountsPositive == \A g \in {"nr", "memslots", "max"} : got[g] # << >> => got[g][1] > 0

(* The recommended maximum is never below the recommended number, as      *)
(* test_kvm_getters asserts, on every host and whichever of the two        *)
(* capabilities its kernel implements, and in whichever order they are    *)
(* queried.                                                                *)
MaxAtLeastNr ==
  got["max"] # << >> /\ got["nr"] # << >> => got["max"][1] >= got["nr"][1]

=============================================================================
