----------------------------- MODULE FamWrapper -----------------------------
(***************************************************************************)
(* A FamStructWrapper: one contiguous allocation holding a kernel header   *)
(* whose count field (`len`, i.e. nent / nmsrs / nr / n) says how many     *)
(* entries of the trailing flexible array are valid, followed by `cap`     *)
(* allocated entries.  A few wrappers live side by side (Handles) so that  *)
(* clone can be checked, and the kernel reads and writes them through the  *)
(* raw pointer handed over by the ioctls of src/src/ioctls/system.rs and   *)
(* vm.rs.  The wrapper itself lives in vmm-sys-util, outside this          *)
(* repository: its operations are modelled from spec.md section 4.1 and    *)
(* 4.3; the kernel calls and the header equality come from the source.     *)
(*                                                                         *)
(* Entry memory is a function over 1..MaxLen.  A slot beyond the           *)
(* allocation, or allocated without being initialized, holds Garbage:      *)
(* reading it through as_slice is reading memory the wrapper never wrote.  *)
(***************************************************************************)
EXTENDS Naturals, Sequences

CONSTANTS
  Handles,   \* wrapper objects that may be alive at the same time
  MaxLen,    \* the max_len of the FamStruct impl (ARM64_REGS_MAX, 1024, KVM_MAX_MSR_ENTRIES)
  Values,    \* entry values the kernel or the caller may store
  Zero,      \* the zero entry, what a zeroed allocation holds
  Flags,     \* values of the header's other field (kvm_irq_routing.flags)
  Garbage    \* content of memory that was never initialized

ASSUME MaxLenAssumption == MaxLen \in Nat \ {0}
ASSUME ZeroAssumption == Zero \in Values
ASSUME GarbageAssumption == Garbage \notin Values
ASSUME FlagsAssumption == 0 \in Flags

VARIABLES
  live,      \* live[w]: the wrapper w exists (has an owner)
  cap,       \* cap[w]: number of entries the allocation holds
  len,       \* len[w]: the header's count field
  flags,     \* flags[w]: the header's other field
  mem,       \* mem[w][i]: content of entry slot i
  lastErr    \* outcome of the last operation, as the caller sees it

vars == <<live, cap, len, flags, mem, lastErr>>

Slots == 1..MaxLen
Cell == Values \cup {Garbage}
Outcomes == {"Ok", "SizeLimitExceeded", "SerdeMismatch", "Errno"}

(* A fresh allocation of n zeroed entries: slots past n are not allocated. *)
Zeroed(n) == [i \in Slots |-> IF i <= n THEN Zero ELSE Garbage]

TypeOK ==
  /\ live \in [Handles -> BOOLEAN]
  /\ cap \in [Handles -> 0..MaxLen]
  /\ len \in [Handles -> Nat]
  /\ flags \in [Handles -> Flags]
  /\ mem \in [Handles -> [Slots -> Cell]]
  /\ lastErr \in Outcomes

Init ==
  /\ live = [w \in Handles |-> FALSE]
  /\ cap = [w \in Handles |-> 0]
  /\ len = [w \in Handles |-> 0]
  /\ flags = [w \in Handles |-> 0]
  /\ mem = [w \in Handles |-> Zeroed(0)]
  /\ lastErr = "Ok"

(* Installs a new wrapper w with the given allocation and header. *)
Install(w, c, l, f, m) ==
  /\ live' = [live EXCEPT ![w] = TRUE]
  /\ cap' = [cap EXCEPT ![w] = c]
  /\ len' = [len EXCEPT ![w] = l]
  /\ flags' = [flags EXCEPT ![w] = f]
  /\ mem' = [mem EXCEPT ![w] = m]

Fail(e) == lastErr' = e /\ UNCHANGED <<live, cap, len, flags, mem>>

-----------------------------------------------------------------------------
(* Mutant: new(n) without the max_len check. *)
NewUnchecked(w, n) ==
  /\ ~live[w]
  /\ Install(w, n, n, 0, Zeroed(n))
  /\ lastErr' = "Ok"

(* FamStructWrapper::new(n): n zeroed entries and the count set to n, or  *)
(* SizeLimitExceeded when n > max_len.                                     *)
New(w, n) ==
  /\ ~live[w]
  /\ IF n > MaxLen
       THEN Fail("SizeLimitExceeded")
       ELSE /\ Install(w, n, n, 0, Zeroed(n))
            /\ lastErr' = "Ok"

(* Mutant: set_len(n) that grows the allocation without initializing the *)
(* new slots.                                                              *)
SetLenNoZero(w, n) ==
  /\ live[w]
  /\ IF n > MaxLen
       THEN Fail("SizeLimitExceeded")
       ELSE LET c == IF n > cap[w] THEN n ELSE cap[w]
            IN /\ cap' = [cap EXCEPT ![w] = c]
               /\ len' = [len EXCEPT ![w] = n]
               /\ mem' = [mem EXCEPT ![w] =
                            [i \in Slots |->
                               IF i <= len[w] /\ i <= n THEN mem[w][i]
                               ELSE IF i <= cap[w] THEN Zero ELSE Garbage]]
               /\ lastErr' = "Ok"
               /\ UNCHANGED <<live, flags>>

(* set_len(n): grows the allocation when n exceeds it (never shrinks it),  *)
(* keeps the first min(len, n) entries and zeroes the rest of the array.   *)
SetLen(w, n) ==
  /\ live[w]
  /\ IF n > MaxLen
       THEN Fail("SizeLimitExceeded")
       ELSE LET c == IF n > cap[w] THEN n ELSE cap[w]
            IN /\ cap' = [cap EXCEPT ![w] = c]
               /\ len' = [len EXCEPT ![w] = n]
               /\ mem' = [mem EXCEPT ![w] =
                            [i \in Slots |->
                               IF i <= len[w] /\ i <= n THEN mem[w][i]
                               ELSE IF i <= c THEN Zero ELSE Garbage]]
               /\ lastErr' = "Ok"
               /\ UNCHANGED <<live, flags>>

(* as_mut_slice()[i] = v: a bounds-checked write into the first len entries. *)
SetEntry(w, i, v) ==
  /\ live[w]
  /\ i \in 1..len[w]
  /\ mem' = [mem EXCEPT ![w][i] = v]
  /\ lastErr' = "Ok"
  /\ UNCHANGED <<live, cap, len, flags>>

(* clone(): a new allocation sized for the source's len entries, holding a *)
(* copy of the header and of those entries.                                *)
Clone(src, dst) ==
  /\ live[src] /\ ~live[dst]
  /\ Install(dst, len[src], len[src], flags[src],
             [i \in Slots |-> IF i <= len[src] THEN mem[src][i] ELSE Garbage])
  /\ lastErr' = "Ok"

(* Mutant: deserialization that trusts the header's count. *)
DeserializeUnchecked(w, hlen, hflags, ents) ==
  /\ ~live[w]
  /\ IF Len(ents) > MaxLen
       THEN Fail("SizeLimitExceeded")
       ELSE /\ Install(w, Len(ents), hlen, hflags,
                     [i \in Slots |-> IF i <= Len(ents) THEN ents[i] ELSE Garbage])
          /\ lastErr' = "Ok"

(* Deserialization of (header, entries): the entries vector must fit       *)
(* max_len and must be exactly as long as the header's count says.         *)
Deserialize(w, hlen, hflags, ents) ==
  /\ ~live[w]
  /\ IF Len(ents) > MaxLen THEN Fail("SizeLimitExceeded")
     ELSE IF hlen # Len(ents) THEN Fail("SerdeMismatch")
     ELSE /\ Install(w, Len(ents), hlen, hflags,
                     [i \in Slots |-> IF i <= Len(ents) THEN ents[i] ELSE Garbage])
          /\ lastErr' = "Ok"

(* The owner of w goes out of scope. *)
Drop(w) ==
  /\ live[w]
  /\ live' = [live EXCEPT ![w] = FALSE]
  /\ lastErr' = "Ok"
  /\ UNCHANGED <<cap, len, flags, mem>>

-----------------------------------------------------------------------------
(* Mutant: get_cpuid that ignores the ioctl's return: on E2BIG the kernel  *)
(* has stored the number of entries it has, m > n, in the count, and the   *)
(* CpuId is returned with it.                                              *)
GetCpuidIgnoreRet(w, n) ==
  /\ ~live[w]
  /\ n <= MaxLen
  /\ \/ \E m \in n + 1..MaxLen :
          /\ Install(w, n, m, 0, Zeroed(n))
          /\ lastErr' = "Ok"
     \/ \E k \in 0..n : \E vals \in [1..k -> Values] :
          /\ Install(w, n, k, 0,
                     [i \in Slots |-> IF i <= k THEN vals[i] ELSE Zeroed(n)[i]])
          /\ lastErr' = "Ok"

(* Kvm::get_cpuid(kind, n): CpuId::new(n) sets the count to n, then the   *)
(* KVM_GET_SUPPORTED_CPUID / KVM_GET_EMULATED_CPUID ioctl gets the raw     *)
(* pointer.  The kernel reads its limit from the count, writes k <= limit  *)
(* entries and stores k in the count, or fails (E2BIG when it has more     *)
(* than the limit, after storing how many); on failure the CpuId, count    *)
(* and all, is dropped and Err returned.  CpuId::new is infallible in the  *)
(* wrapper version this crate uses, so only the n it can allocate, n <=    *)
(* max_len, are explored; the callers pass KVM_MAX_CPUID_ENTRIES, which is *)
(* max_len.                                                                *)
GetCpuid(w, n) ==
  /\ ~live[w]
  /\ n <= MaxLen
  /\ \/ Fail("Errno")
     \/ \E k \in 0..n : \E vals \in [1..k -> Values] :
          /\ Install(w, n, k, 0,
                     [i \in Slots |-> IF i <= k THEN vals[i] ELSE Zeroed(n)[i]])
          /\ lastErr' = "Ok"

(* Kvm::get_msr_index_list(): the same fill of MsrList::new(KVM_MAX_MSR_ENTRIES), *)
(* whose max_len is KVM_MAX_MSR_ENTRIES as well.  The kernel rewrites      *)
(* nmsrs with the count it has on success and on E2BIG alike; on E2BIG,    *)
(* with a count above the allocation, the code returns Err and the list    *)
(* is dropped, which is the Fail branch.                                   *)
GetMsrIndexList(w) == GetCpuid(w, MaxLen)

(* VmFd::set_gsi_routing(routing.as_fam_struct_ref()) for a KvmIrqRouting *)
(* wrapper w: the kernel reads the header and len entries after it; the   *)
(* call returns Ok or the errno.  A bare kvm_irq_routing passed instead is *)
(* modelled in FamBareHeader.                                              *)
SetGsiRouting(w) ==
  /\ live[w]
  /\ lastErr' \in {"Ok", "Errno"}
  /\ UNCHANGED <<live, cap, len, flags, mem>>

(* Byte strings a deserializer may be handed: entry vectors up to one past *)
(* max_len.                                                                *)
Payloads == UNION {[1..k -> Values] : k \in 0..MaxLen + 1}

(* The steps that create, change or drop a wrapper. *)
WrapperNext ==
  \E w \in Handles :
    \/ \E n \in 0..MaxLen + 1 : New(w, n) \/ SetLen(w, n) \/ GetCpuid(w, n)
    \/ \E i \in Slots, v \in Values : SetEntry(w, i, v)
    \/ \E src \in Handles : Clone(src, w)
    \/ \E hl \in 0..MaxLen + 1, hf \in Flags, ents \in Payloads :
         Deserialize(w, hl, hf, ents)
    \/ Drop(w)
    \/ GetMsrIndexList(w)

Next == WrapperNext \/ \E w \in Handles : SetGsiRouting(w)

Spec == Init /\ [][Next]_vars

-----------------------------------------------------------------------------
(* A wrapper's count never exceeds the entries it allocated: every        *)
(* operation that sets the count (new, set_len, clone, a kernel fill that   *)
(* rewrites it, deserialization of an untrusted header) keeps it within    *)
(* the allocation.  So the header a KvmIrqRouting wrapper hands to         *)
(* set_gsi_routing, and the as_slice of a filled CpuId or MsrList, stay     *)
(* inside the allocation; a bare kvm_irq_routing is another matter          *)
(* (FamBareHeader).                                                         *)
CountWithinAllocation ==
  \A w \in Handles : live[w] => len[w] <= cap[w]

(* as_slice() never exposes memory that was not allocated or not           *)
(* initialized: every entry within the count was zeroed or written.        *)
NoUninitExposed ==
  \A w \in Handles : live[w] => \A i \in 1..len[w] : mem[w][i] # Garbage

(* The inductive strengthening of both: a live wrapper's count fits its   *)
(* allocation and every allocated slot (not only the first len) holds an   *)
(* initialized value, so that set_len may later expose any of them.        *)
AllocInit ==
  \A w \in Handles :
    live[w] => /\ len[w] <= cap[w]
               /\ \A i \in 1..cap[w] : mem[w][i] \in Values

IInv == TypeOK /\ AllocInit

-----------------------------------------------------------------------------
(* as_slice(): the first len entries of the array. *)
AsSlice(w) == [i \in 1..len[w] |-> mem[w][i]]

(* The container a wrapper is to its caller: its header's other field and *)
(* its slice while it is alive; nothing once dropped.                      *)
AbsHdr == [w \in Handles |-> IF live[w] THEN flags[w] ELSE 0]
AbsSlice == [w \in Handles |-> IF live[w] THEN AsSlice(w) ELSE << >>]

Container == INSTANCE FamContainer
               WITH alive <- live, hdr <- AbsHdr, slice <- AbsSlice

(* The wrapper implements the container of spec.md 4.1: every operation   *)
(* (new, set_len, the as_mut_slice write, clone, deserialization, the      *)
(* kernel's fill in get_cpuid and get_msr_index_list, drop) is, seen       *)
(* through as_slice and the header, a container step, and every error path *)
(* and set_gsi_routing changes nothing the caller can see.  In particular  *)
(* regrowth keeps the first min(old, new) entries and zeroes the rest, and *)
(* clone copies header and entries exactly.                                *)
FamRefines == Container!ContainerSpec

=============================================================================
