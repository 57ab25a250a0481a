------------------------------ MODULE DirtyLog ------------------------------
(***************************************************************************)
(* VmFd::set_user_memory_region and VmFd::get_dirty_log                    *)
(* (src/src/ioctls/vm.rs).  get_dirty_log allocates a Vec<u64> of          *)
(* div_round_up(memory_size, page_size * 64) words from the memory_size    *)
(* the caller passes and hands its pointer to KVM_GET_DIRTY_LOG; the       *)
(* kernel writes one bit per page of the slot as the kernel knows it,      *)
(* i.e. ceil(npages / 64) words, whatever memory_size said.  The kernel    *)
(* side of both ioctls follows the KVM_SET_USER_MEMORY_REGION and          *)
(* KVM_GET_DIRTY_LOG contract.                                             *)
(***************************************************************************)
EXTENDS Naturals

CONSTANTS
  Slots,        \* memory slot ids
  RegionSizes,  \* memory_size values of the kvm_userspace_memory_region
  PageSize,     \* page_size in get_dirty_log (4 << 10)
  AnySize       \* TRUE: the caller may pass get_dirty_log any memory_size

ASSUME PageSizeAssumption == PageSize \in Nat \ {0}
ASSUME RegionSizesAssumption == RegionSizes \subseteq Nat /\ 0 \in RegionSizes
ASSUME AnySizeAssumption == AnySize \in BOOLEAN

VARIABLES
  region,       \* region[s]: the slot's memory_size in the kernel, 0 when absent
  logging,      \* logging[s]: the slot has KVM_MEM_LOG_DIRTY_PAGES
  bitmapWords,  \* words of the Vec the last get_dirty_log allocated
  writtenWords, \* words the kernel wrote into it
  lastErr       \* the Result of the last call

vars == <<region, logging, bitmapWords, writtenWords, lastErr>>

BitsPerWord == 64

TypeOK ==
  /\ region \in [Slots -> RegionSizes]
  /\ logging \in [Slots -> BOOLEAN]
  /\ bitmapWords \in Nat
  /\ writtenWords \in Nat
  /\ lastErr \in {"Ok", "EINVAL", "ENOENT", "EFAULT"}

Init ==
  /\ region = [s \in Slots |-> 0]
  /\ logging = [s \in Slots |-> FALSE]
  /\ bitmapWords = 0
  /\ writtenWords = 0
  /\ lastErr = "Ok"

(* Mutant: div_round_up one below the quotient. *)
DivRoundUpLess(dividend, divisor) == (dividend + divisor - 1) \div divisor - 1

(* Mutant: the division of get_dirty_log rounding down. *)
DivRoundDown(dividend, divisor) == dividend \div divisor

(* The closure div_round_up of get_dirty_log. *)
DivRoundUp(dividend, divisor) == (dividend + divisor - 1) \div divisor

(* The kernel's kvm_dirty_bitmap_bytes, in u64 words: npages rounded up   *)
(* to a multiple of BITS_PER_LONG, one bit each.                           *)
KernelBitmapWords(npages) ==
  LET aligned == IF npages % BitsPerWord = 0 THEN npages
                 ELSE npages + BitsPerWord - (npages % BitsPerWord)
  IN aligned \div BitsPerWord

-----------------------------------------------------------------------------
(* VmFd::set_user_memory_region: one KVM_SET_USER_MEMORY_REGION.  The     *)
(* kernel rejects a size that is not a multiple of the page size, a        *)
(* deletion of an absent slot and a change of an existing slot's size; a  *)
(* size of 0 deletes the slot; the same size changes only the flags.       *)
SetUserMemoryRegion(s, size, log) ==
  /\ \/ /\ size % PageSize # 0 \/ (size = 0 /\ region[s] = 0)
           \/ (size # 0 /\ region[s] # 0 /\ size # region[s])
        /\ lastErr' = "EINVAL"
        /\ UNCHANGED <<region, logging>>
     \/ /\ size % PageSize = 0
        /\ size = 0 => region[s] # 0
        /\ region[s] # 0 => size \in {0, region[s]}
        /\ region' = [region EXCEPT ![s] = size]
        /\ logging' = [logging EXCEPT ![s] = size # 0 /\ log]
        /\ lastErr' = "Ok"
  /\ UNCHANGED <<bitmapWords, writtenWords>>

(* VmFd::get_dirty_log(slot, memory_size): the Vec is sized from          *)
(* memory_size; the kernel fails with ENOENT for a slot that does not      *)
(* exist or does not log, else copies a bit per page of its own slot to    *)
(* the Vec's pointer.  An empty Vec's pointer is dangling (no allocation), *)
(* so that copy_to_user faults, nothing is written and the ioctl returns  *)
(* EFAULT; a non-empty Vec lies in mapped heap, so the copy succeeds even  *)
(* where it runs past the Vec.                                             *)
GetDirtyLog(s, memorySize) ==
  /\ bitmapWords' = DivRoundUp(memorySize, PageSize * BitsPerWord)
  /\ CASE region[s] = 0 \/ ~logging[s] ->
            writtenWords' = 0 /\ lastErr' = "ENOENT"
       [] bitmapWords' = 0 ->
            writtenWords' = 0 /\ lastErr' = "EFAULT"
       [] OTHER ->
            /\ writtenWords' = KernelBitmapWords(region[s] \div PageSize)
            /\ lastErr' = "Ok"
  /\ UNCHANGED <<region, logging>>

(* The memory_size a caller passes: the size it gave the slot, as the doc *)
(* example does, or with AnySize any size at all.                          *)
DirtyLogSizes(s) == IF AnySize THEN RegionSizes ELSE {region[s]}

Next ==
  \E s \in Slots :
    \/ \E size \in RegionSizes, log \in BOOLEAN : SetUserMemoryRegion(s, size, log)
    \/ \E m \in DirtyLogSizes(s) : GetDirtyLog(s, m)

Spec == Init /\ [][Next]_vars

-----------------------------------------------------------------------------
(* The kernel never writes more of the dirty bitmap than get_dirty_log     *)
(* allocated: the Vec covers one bit per page of the slot.                 *)
BitmapCoversSlot == writtenWords <= bitmapWords

=============================================================================
