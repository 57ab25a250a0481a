---------------------------- MODULE NestedState ----------------------------
(***************************************************************************)
(* KvmNestedStateBuffer (src/kvm-bindings/src/x86_64/nested.rs): a        *)
(* repr(C) struct of the kvm_nested_state header and a union of the VMX   *)
(* and SVM data, made by empty() with its size field set to               *)
(* size_of::<Self>() so that KVM_GET_NESTED_STATE knows how much it may   *)
(* write.  The layout is computed by the repr(C) rules; the vCPU's nested *)
(* state and the ioctl follow the kernel's x86 contract: the state needs  *)
(* the 128-byte header, plus one VMCS12 (and one shadow VMCS12) on VMX or *)
(* one VMCB12 on SVM while a nested guest is set up; a buffer whose size  *)
(* field is smaller gets E2BIG and the needed size written into it;       *)
(* otherwise the kernel writes the state and the header with its size.    *)
(***************************************************************************)
EXTENDS Naturals, Sequences

CONSTANTS
  VmcsSize,  \* KVM_STATE_NESTED_VMX_VMCS_SIZE
  VmcbSize,  \* KVM_STATE_NESTED_SVM_VMCB_SIZE
  Vcpus      \* the vCPUs whose nested state the caller saves

ASSUME NestedSizesAssumption == VmcsSize \in Nat \ {0} /\ VmcbSize \in Nat \ {0}

-----------------------------------------------------------------------------
(* repr(C) layout.  A type is its size and alignment.                      *)
RoundUp(n, a) == ((n + a - 1) \div a) * a
MaxOf(S) == CHOOSE m \in S : \A x \in S : x <= m

(* A struct: each field at the next offset aligned for it, the whole      *)
(* rounded up to the largest alignment.                                    *)
Struct(fs) ==
  LET align == MaxOf({fs[i].align : i \in 1..Len(fs)} \cup {1})
      end[i \in 0..Len(fs)] ==
        IF i = 0 THEN 0 ELSE RoundUp(end[i - 1], fs[i].align) + fs[i].size
  IN [size |-> RoundUp(end[Len(fs)], align), align |-> align]

(* A union: its largest member, rounded up to its largest alignment. *)
Union(ms) ==
  LET align == MaxOf({m.align : m \in ms})
  IN [size |-> RoundUp(MaxOf({m.size : m \in ms}), align), align |-> align]

U8s(n) == [size |-> n, align |-> 1]
U16 == [size |-> 2, align |-> 2]
U32 == [size |-> 4, align |-> 4]
(* kvm_nested_state__bindgen_ty_1: the VMX and SVM headers and pad[120];  *)
(* the VMX header holds u64s.                                              *)
HdrUnion == [size |-> 120, align |-> 8]

(* kvm_vmx_nested_state_data and kvm_svm_nested_state_data. *)
VmxData == Struct(<<U8s(VmcsSize), U8s(VmcsSize)>>)
SvmData == Struct(<<U8s(VmcbSize)>>)

(* Mutant: the data union sized by its SVM member. *)
NestedDataSvmOnly == SvmData

(* kvm_nested_state__data: the union of the two. *)
NestedData == Union({VmxData, SvmData})

(* The bindgen kvm_nested_state: the header and an empty flexible array. *)
RawNestedState == Struct(<<U16, U16, U32, HdrUnion>>)

(* KvmNestedStateBuffer: flags, format, size, hdr, data. *)
KvmNestedStateBuffer == Struct(<<U16, U16, U32, HdrUnion, NestedData>>)

-----------------------------------------------------------------------------
(* The vCPU's nested state: none, or a nested guest with its VMCS12 (and  *)
(* shadow VMCS12) on VMX, or its VMCB12 on SVM.                            *)
Modes(v) == IF v = "vmx" THEN {"none", "vmcs", "shadow"} ELSE {"none", "guest"}

(* The bytes the kernel's get_state reports for a mode. *)
KernelNeed(m) ==
  RawNestedState.size +
    CASE m = "none" -> 0
      [] m = "vmcs" -> VmcsSize
      [] m = "shadow" -> 2 * VmcsSize
      [] m = "guest" -> VmcbSize

VARIABLES
  vendor,   \* "vmx" or "svm"
  mode,     \* mode[c]: vCPU c's nested state
  buf,      \* buf[c]: the size field of the caller's buffer for vCPU c and
            \* what it holds ("absent": no buffer yet)
  fresh,    \* ghost: fresh[c], buf[c] came from empty() and no ioctl has written it since
  lastCall, \* the last step taken
  lastErr   \* "Ok" or "E2BIG"

vars == <<vendor, mode, buf, fresh, lastCall, lastErr>>

TypeOK ==
  /\ vendor \in {"vmx", "svm"}
  /\ mode \in [Vcpus -> Modes(vendor)]
  /\ buf \in [Vcpus -> [size : 0..KvmNestedStateBuffer.size, state : {"absent", "empty"} \cup Modes(vendor)]]
  /\ fresh \in [Vcpus -> BOOLEAN]
  /\ lastCall \in {"init", "empty", "get", "guest"}
  /\ lastErr \in {"Ok", "E2BIG"}

Init ==
  /\ vendor \in {"vmx", "svm"}
  /\ mode = [c \in Vcpus |-> "none"]
  /\ buf = [c \in Vcpus |-> [size |-> 0, state |-> "absent"]]
  /\ fresh = [c \in Vcpus |-> FALSE]
  /\ lastCall = "init"
  /\ lastErr = "Ok"

(* Mutant: size set to size_of the bindgen kvm_nested_state. *)
EmptyRawSize(c) ==
  /\ buf' = [buf EXCEPT ![c] = [size |-> RawNestedState.size, state |-> "empty"]]
  /\ fresh' = [fresh EXCEPT ![c] = TRUE] /\ lastCall' = "empty" /\ lastErr' = "Ok"
  /\ UNCHANGED <<vendor, mode>>

(* KvmNestedStateBuffer::empty() (and default()) for vCPU c: zeroed, with *)
(* size set to size_of::<Self>().                                         *)
Empty(c) ==
  /\ buf' = [buf EXCEPT ![c] = [size |-> KvmNestedStateBuffer.size, state |-> "empty"]]
  /\ fresh' = [fresh EXCEPT ![c] = TRUE] /\ lastCall' = "empty" /\ lastErr' = "Ok"
  /\ UNCHANGED <<vendor, mode>>

(* The guest of vCPU c enters or leaves nested virtualization. *)
GuestStep(c) ==
  /\ \E m \in Modes(vendor) : mode' = [mode EXCEPT ![c] = m]
  /\ lastCall' = "guest"
  /\ UNCHANGED <<vendor, buf, fresh, lastErr>>

(* KVM_GET_NESTED_STATE of vCPU c into buf[c]. *)
GetNestedState(c) ==
  /\ buf[c].state # "absent"
  /\ LET need == KernelNeed(mode[c]) IN
       IF need > buf[c].size
         THEN buf' = [buf EXCEPT ![c].size = need] /\ lastErr' = "E2BIG"
         ELSE buf' = [buf EXCEPT ![c] = [size |-> need, state |-> mode[c]]] /\ lastErr' = "Ok"
  /\ fresh' = [fresh EXCEPT ![c] = FALSE] /\ lastCall' = "get"
  /\ UNCHANGED <<vendor, mode>>

Next == \E c \in Vcpus : Empty(c) \/ GuestStep(c) \/ GetNestedState(c)

Spec == Init /\ [][Next]_vars

-----------------------------------------------------------------------------
(* A buffer fresh from empty() takes the nested state of its vCPU in any  *)
(* mode on either vendor, whatever the other vCPUs' buffers went through: *)
(* KVM_GET_NESTED_STATE never answers E2BIG to it, as the type's doc       *)
(* comment promises ("ready for nested state to be stored in by KVM").    *)
EmptyTakesState ==
  [][\A c \in Vcpus : GetNestedState(c) /\ fresh[c] => lastErr' = "Ok"]_vars

(* test_layout: a buffer from empty() reports 8320 bytes, more than the   *)
(* bindgen kvm_nested_state, whose alignment it keeps.                     *)
LayoutAsTested ==
  \A c \in Vcpus : buf[c].state = "empty" =>
    /\ buf[c].size = 8320
    /\ KvmNestedStateBuffer.size > RawNestedState.size
    /\ KvmNestedStateBuffer.align = RawNestedState.align

=============================================================================
