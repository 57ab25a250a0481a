--------------------------- MODULE NestedStateProofs ---------------------------
(***************************************************************************)
(* Proofs, for every VMCS12 and VMCB12 size, that a KvmNestedStateBuffer  *)
(* made by empty() is large enough for any nested state the kernel        *)
(* reports, so that KVM_GET_NESTED_STATE never answers E2BIG to it, and   *)
(* that with the x86 sizes it has the layout test_layout checks.  The     *)
(* repr(C) layout is a recursive function over a struct's fields; for the *)
(* structs of nested.rs (at most five fields) its value follows from an   *)
(* explicit table of offsets, unfolded one field at a time.               *)
(***************************************************************************)
EXTENDS NestedState, TLAPS

-----------------------------------------------------------------------------
(* The largest of a set of numbers is the member no other exceeds. *)
LEMMA MaxOfIs ==
  ASSUME NEW S \in SUBSET Nat, NEW m \in S, \A x \in S : x <= m
  PROVE  MaxOf(S) = m
<1>1. \E x \in S : \A y \in S : y <= x
  OBVIOUS
<1>2. MaxOf(S) \in S /\ \A y \in S : y <= MaxOf(S)
  BY <1>1, Zenon DEF MaxOf
<1>3. m <= MaxOf(S) /\ MaxOf(S) <= m
  BY <1>2
<1>4. MaxOf(S) \in Nat /\ m \in Nat
  BY <1>2
<1> QED
  BY <1>3, <1>4

(* Rounding up to a positive alignment gives a multiple of it that is    *)
(* no smaller, and rounding to 1 changes nothing.                          *)
LEMMA RoundUpBounds ==
  ASSUME NEW n \in Nat, NEW a \in Nat \ {0}
  PROVE  /\ RoundUp(n, a) \in Nat
         /\ n <= RoundUp(n, a)
         /\ RoundUp(n, a) < n + a
BY DEF RoundUp

LEMMA RoundUpOne ==
  ASSUME NEW n \in Nat PROVE RoundUp(n, 1) = n
BY DEF RoundUp

(* An index of a struct of at most five fields is one of them. *)
LEMMA UpToFive ==
  ASSUME NEW n \in 0..5, NEW i \in 0..n
  PROVE  \/ i = 0 \/ (i = 1 /\ 1 <= n) \/ (i = 2 /\ 2 <= n)
         \/ (i = 3 /\ 3 <= n) \/ (i = 4 /\ 4 <= n) \/ (i = 5 /\ 5 <= n)
OBVIOUS

(* The layout of a repr(C) struct of at most five fields, from the table  *)
(* g of where each field ends: the recursive end of Struct is g, because  *)
(* g satisfies its defining equation and, field by field, so does only g. *)
LEMMA StructIs ==
  ASSUME NEW n \in 0..5, NEW fs \in [1..n -> [size : Nat, align : Nat \ {0}]],
         Len(fs) = n,
         NEW g \in [0..n -> Nat], g[0] = 0,
         \A i \in 1..n : g[i] = RoundUp(g[i - 1], fs[i].align) + fs[i].size
  PROVE  Struct(fs) =
           [size |-> RoundUp(g[n], MaxOf({fs[i].align : i \in 1..n} \cup {1})),
            align |-> MaxOf({fs[i].align : i \in 1..n} \cup {1})]
<1> DEFINE Def(f) == [i \in 0..Len(fs) |->
                        IF i = 0 THEN 0 ELSE RoundUp(f[i - 1], fs[i].align) + fs[i].size]
           e == CHOOSE f : f = Def(f)
<1>1. g = Def(g)
  OBVIOUS
<1>2. e = Def(e)
  BY <1>1, Zenon
<1> HIDE DEF Def, e
<1>3. ASSUME NEW i \in 0..n PROVE e[i] = g[i]
  <2>0. e[0] = g[0]
    BY <1>2 DEF Def
  <2>1. 1 <= n => e[1] = g[1]
    BY <1>2, <2>0 DEF Def
  <2>2. 2 <= n => e[2] = g[2]
    BY <1>2, <2>1 DEF Def
  <2>3. 3 <= n => e[3] = g[3]
    BY <1>2, <2>2 DEF Def
  <2>4. 4 <= n => e[4] = g[4]
    BY <1>2, <2>3 DEF Def
  <2>5. 5 <= n => e[5] = g[5]
    BY <1>2, <2>4 DEF Def
  <2>6. \/ i = 0 \/ (i = 1 /\ 1 <= n) \/ (i = 2 /\ 2 <= n)
        \/ (i = 3 /\ 3 <= n) \/ (i = 4 /\ 4 <= n) \/ (i = 5 /\ 5 <= n)
    BY UpToFive
  <2> QED
    BY <2>0, <2>1, <2>2, <2>3, <2>4, <2>5, <2>6, Zenon
<1>4. e[n] = g[n]
  BY <1>3
<1> QED
  BY <1>4 DEF Struct, Def, e

-----------------------------------------------------------------------------
USE NestedSizesAssumption

(* The size of the data union: its larger member, the VMX pair of VMCS12 *)
(* pages or the SVM VMCB12.                                                *)
DataSize == IF 2 * VmcsSize >= VmcbSize THEN 2 * VmcsSize ELSE VmcbSize

(* kvm_vmx_nested_state_data: two VMCS12 byte arrays, byte aligned. *)
LEMMA VmxDataIs == VmxData = [size |-> 2 * VmcsSize, align |-> 1]
<1> DEFINE fs == <<U8s(VmcsSize), U8s(VmcsSize)>>
           g == [i \in 0..2 |-> i * VmcsSize]
<1>1. /\ fs \in [1..2 -> [size : Nat, align : Nat \ {0}]] /\ Len(fs) = 2
      /\ g \in [0..2 -> Nat] /\ g[0] = 0
      /\ \A i \in 1..2 : g[i] = RoundUp(g[i - 1], fs[i].align) + fs[i].size
  BY RoundUpOne DEF U8s
<1>2. MaxOf({fs[i].align : i \in 1..2} \cup {1}) = 1
  BY MaxOfIs DEF U8s
<1>3. RoundUp(g[2], 1) = 2 * VmcsSize
  BY RoundUpOne
<1>4. Struct(fs) = [size |-> RoundUp(g[2], MaxOf({fs[i].align : i \in 1..2} \cup {1})),
                    align |-> MaxOf({fs[i].align : i \in 1..2} \cup {1})]
  <2>1. 2 \in 0..5
    OBVIOUS
  <2> HIDE DEF fs, g
  <2> QED
    BY <1>1, <2>1, StructIs, Zenon
<1>5. VmxData = Struct(fs)
  BY DEF VmxData
<1> HIDE DEF fs, g
<1> QED
  BY <1>2, <1>3, <1>4, <1>5

(* kvm_svm_nested_state_data: one VMCB12 byte array. *)
LEMMA SvmDataIs == SvmData = [size |-> VmcbSize, align |-> 1]
<1> DEFINE fs == <<U8s(VmcbSize)>>
           g == [i \in 0..1 |-> i * VmcbSize]
<1>1. /\ fs \in [1..1 -> [size : Nat, align : Nat \ {0}]] /\ Len(fs) = 1
      /\ g \in [0..1 -> Nat] /\ g[0] = 0
      /\ \A i \in 1..1 : g[i] = RoundUp(g[i - 1], fs[i].align) + fs[i].size
  BY RoundUpOne DEF U8s
<1>2. MaxOf({fs[i].align : i \in 1..1} \cup {1}) = 1
  BY MaxOfIs DEF U8s
<1>3. RoundUp(g[1], 1) = VmcbSize
  BY RoundUpOne
<1>4. Struct(fs) = [size |-> RoundUp(g[1], MaxOf({fs[i].align : i \in 1..1} \cup {1})),
                    align |-> MaxOf({fs[i].align : i \in 1..1} \cup {1})]
  <2>1. 1 \in 0..5
    OBVIOUS
  <2> HIDE DEF fs, g
  <2> QED
    BY <1>1, <2>1, StructIs, Zenon
<1>5. SvmData = Struct(fs)
  BY DEF SvmData
<1> HIDE DEF fs, g
<1> QED
  BY <1>2, <1>3, <1>4, <1>5

(* kvm_nested_state__data: the union is as large as its larger member. *)
LEMMA NestedDataIs == NestedData = [size |-> DataSize, align |-> 1]
<1>1. {m.align : m \in {VmxData, SvmData}} = {1}
  BY VmxDataIs, SvmDataIs
<1>2. {m.size : m \in {VmxData, SvmData}} = {2 * VmcsSize, VmcbSize}
  BY VmxDataIs, SvmDataIs
<1>3. MaxOf({1}) = 1
  BY MaxOfIs
<1>4. MaxOf({2 * VmcsSize, VmcbSize}) = DataSize
  BY MaxOfIs DEF DataSize
<1>5. DataSize \in Nat
  BY DEF DataSize
<1> QED
  BY <1>1, <1>2, <1>3, <1>4, <1>5, RoundUpOne DEF NestedData, Union

(* The bindgen kvm_nested_state: flags, format and size (u16, u16, u32)  *)
(* and the 120-byte header union at offset 8, 128 bytes aligned to 8.     *)
LEMMA RawNestedStateIs == RawNestedState = [size |-> 128, align |-> 8]
<1> DEFINE fs == <<U16, U16, U32, HdrUnion>>
           g == [i \in 0..4 |-> IF i = 0 THEN 0 ELSE IF i = 1 THEN 2
                                ELSE IF i = 2 THEN 4 ELSE IF i = 3 THEN 8 ELSE 128]
<1>1. /\ fs \in [1..4 -> [size : Nat, align : Nat \ {0}]] /\ Len(fs) = 4
      /\ g \in [0..4 -> Nat] /\ g[0] = 0
      /\ \A i \in 1..4 : g[i] = RoundUp(g[i - 1], fs[i].align) + fs[i].size
  BY DEF U16, U32, HdrUnion, RoundUp
<1>2. MaxOf({fs[i].align : i \in 1..4} \cup {1}) = 8
  <2>1. {fs[i].align : i \in 1..4} \cup {1} = {2, 4, 8, 1}
    BY DEF U16, U32, HdrUnion
  <2> QED
    BY <2>1, MaxOfIs
<1>3. RoundUp(g[4], 8) = 128
  BY DEF RoundUp
<1>4. Struct(fs) = [size |-> RoundUp(g[4], MaxOf({fs[i].align : i \in 1..4} \cup {1})),
                    align |-> MaxOf({fs[i].align : i \in 1..4} \cup {1})]
  <2>1. 4 \in 0..5
    OBVIOUS
  <2> HIDE DEF fs, g
  <2> QED
    BY <1>1, <2>1, StructIs, Zenon
<1>5. RawNestedState = Struct(fs)
  BY DEF RawNestedState
<1> HIDE DEF fs, g
<1> QED
  BY <1>2, <1>3, <1>4, <1>5

(* KvmNestedStateBuffer: the 128-byte header, then the byte-aligned data *)
(* union, the whole rounded up to the header's alignment of 8.            *)
LEMMA BufferIs ==
  KvmNestedStateBuffer = [size |-> RoundUp(128 + DataSize, 8), align |-> 8]
<1> DEFINE D == [size |-> DataSize, align |-> 1]
           fs == <<U16, U16, U32, HdrUnion, D>>
           g == [i \in 0..5 |-> IF i = 0 THEN 0 ELSE IF i = 1 THEN 2
                                ELSE IF i = 2 THEN 4 ELSE IF i = 3 THEN 8
                                ELSE IF i = 4 THEN 128 ELSE 128 + DataSize]
<1>0. DataSize \in Nat
  BY DEF DataSize
<1>1. /\ fs \in [1..5 -> [size : Nat, align : Nat \ {0}]] /\ Len(fs) = 5
      /\ g \in [0..5 -> Nat] /\ g[0] = 0
      /\ \A i \in 1..5 : g[i] = RoundUp(g[i - 1], fs[i].align) + fs[i].size
  BY <1>0 DEF U16, U32, HdrUnion, RoundUp
<1>2. MaxOf({fs[i].align : i \in 1..5} \cup {1}) = 8
  <2>1. {fs[i].align : i \in 1..5} \cup {1} = {2, 4, 8, 1}
    BY DEF U16, U32, HdrUnion
  <2> QED
    BY <2>1, MaxOfIs
<1>4. Struct(fs) = [size |-> RoundUp(g[5], MaxOf({fs[i].align : i \in 1..5} \cup {1})),
                    align |-> MaxOf({fs[i].align : i \in 1..5} \cup {1})]
  <2>1. 5 \in 0..5
    OBVIOUS
  <2> HIDE DEF fs, g
  <2> QED
    BY <1>1, <2>1, StructIs, Zenon
<1>5. KvmNestedStateBuffer = Struct(fs)
  BY NestedDataIs DEF KvmNestedStateBuffer
<1>6. g[5] = 128 + DataSize
  OBVIOUS
<1> HIDE DEF fs, g
<1> QED
  BY <1>2, <1>4, <1>5, <1>6

(* The size field empty() writes is a byte count at least the header and *)
(* the larger data member.                                                 *)
LEMMA BufferSizeBound ==
  /\ KvmNestedStateBuffer.size \in Nat
  /\ 128 + DataSize <= KvmNestedStateBuffer.size
<1>1. 128 + DataSize \in Nat
  BY DEF DataSize
<1>2. 8 \in Nat \ {0}
  OBVIOUS
<1>3. RoundUp(128 + DataSize, 8) \in Nat /\ 128 + DataSize <= RoundUp(128 + DataSize, 8)
  BY <1>1, <1>2, RoundUpBounds
<1> QED
  BY <1>3, BufferIs

(* Every nested state the kernel reports fits a buffer from empty(): the *)
(* header plus at most the larger of the VMX and SVM data.                 *)
LEMMA NeedFits ==
  ASSUME NEW m \in {"none", "vmcs", "shadow", "guest"}
  PROVE  KernelNeed(m) \in 0..KvmNestedStateBuffer.size
<1>1. KernelNeed(m) \in Nat /\ KernelNeed(m) <= 128 + DataSize
  BY RawNestedStateIs DEF KernelNeed, DataSize
<1>2. DataSize \in Nat
  BY DEF DataSize
<1> QED
  BY <1>1, <1>2, BufferSizeBound

-----------------------------------------------------------------------------
(* The inductive invariant: the types, and a buffer fresh from empty()   *)
(* or never yet written by the kernel still has size_of::<Self>() in its  *)
(* size field.                                                             *)
FreshIsEmpty ==
  \A c \in Vcpus : fresh[c] \/ buf[c].state = "empty" =>
    buf[c] = [size |-> KvmNestedStateBuffer.size, state |-> "empty"]

IInv == TypeOK /\ FreshIsEmpty

(* The initial state satisfies it: no vCPU has a buffer yet. *)
LEMMA InitIInv == Init => IInv
<1> SUFFICES ASSUME Init PROVE IInv
  OBVIOUS
<1>1. KvmNestedStateBuffer.size \in Nat
  BY BufferSizeBound
<1> QED
  BY <1>1 DEF Init, IInv, TypeOK, FreshIsEmpty, Modes

(* empty() sets the size field to size_of::<Self>() and marks the buffer *)
(* fresh.                                                                  *)
LEMMA EmptyIInv ==
  ASSUME IInv, NEW c \in Vcpus, Empty(c) PROVE IInv'
<1>1. KvmNestedStateBuffer.size \in Nat
  BY BufferSizeBound
<1> QED
  BY <1>1 DEF Empty, IInv, TypeOK, FreshIsEmpty

(* The guest's nested state changes; the buffers do not. *)
LEMMA GuestStepIInv ==
  ASSUME IInv, NEW c \in Vcpus, GuestStep(c) PROVE IInv'
BY DEF GuestStep, IInv, TypeOK, FreshIsEmpty

(* KVM_GET_NESTED_STATE writes a size that fits the buffer type, and a   *)
(* buffer still marked empty is large enough, so it never keeps "empty"   *)
(* with a size the kernel wrote.                                           *)
LEMMA GetNestedStateIInv ==
  ASSUME IInv, NEW c \in Vcpus, GetNestedState(c) PROVE IInv'
<1> DEFINE need == KernelNeed(mode[c])
<1>1. mode[c] \in Modes(vendor) /\ Modes(vendor) \subseteq {"none", "vmcs", "shadow", "guest"}
  BY DEF IInv, TypeOK, Modes
<1>2. need \in 0..KvmNestedStateBuffer.size
  BY <1>1, NeedFits
<1>3. buf[c].state = "empty" => ~(need > buf[c].size)
  <2> SUFFICES ASSUME buf[c].state = "empty" PROVE ~(need > buf[c].size)
    OBVIOUS
  <2>1. buf[c].size = KvmNestedStateBuffer.size
    BY DEF IInv, FreshIsEmpty
  <2> QED
    BY <1>2, <2>1, BufferSizeBound
<1>4. CASE need > buf[c].size
  <2>1. buf' = [buf EXCEPT ![c].size = need] /\ lastErr' = "E2BIG"
    BY <1>4 DEF GetNestedState
  <2>2. buf[c].state # "empty"
    BY <1>3, <1>4
  <2> QED
    BY <1>2, <2>1, <2>2 DEF GetNestedState, IInv, TypeOK, FreshIsEmpty
<1>5. CASE ~(need > buf[c].size)
  <2>1. buf' = [buf EXCEPT ![c] = [size |-> need, state |-> mode[c]]] /\ lastErr' = "Ok"
    BY <1>5 DEF GetNestedState
  <2>2. mode[c] # "empty"
    BY <1>1
  <2> QED
    BY <1>1, <1>2, <2>1, <2>2 DEF GetNestedState, IInv, TypeOK, FreshIsEmpty
<1> QED
  BY <1>4, <1>5

LEMMA NextIInv == IInv /\ [Next]_vars => IInv'
<1> SUFFICES ASSUME IInv, [Next]_vars PROVE IInv'
  OBVIOUS
<1>1. CASE UNCHANGED vars
  BY <1>1 DEF vars, IInv, TypeOK, FreshIsEmpty
<1> QED
  BY <1>1, EmptyIInv, GuestStepIInv, GetNestedStateIInv DEF Next

(* A step of KVM_GET_NESTED_STATE on a fresh buffer succeeds: its size  *)
(* field is size_of::<Self>(), which every reported state fits.            *)
LEMMA FreshStepOk ==
  ASSUME IInv, [Next]_vars
  PROVE  [\A c \in Vcpus : GetNestedState(c) /\ fresh[c] => lastErr' = "Ok"]_vars
<1> SUFFICES ASSUME NEW c \in Vcpus, GetNestedState(c), fresh[c] PROVE lastErr' = "Ok"
  OBVIOUS
<1>1. mode[c] \in {"none", "vmcs", "shadow", "guest"}
  BY DEF IInv, TypeOK, Modes
<1>2. KernelNeed(mode[c]) \in 0..KvmNestedStateBuffer.size
  BY <1>1, NeedFits
<1>3. buf[c].size = KvmNestedStateBuffer.size
  BY DEF IInv, FreshIsEmpty
<1>4. ~(KernelNeed(mode[c]) > buf[c].size)
  BY <1>2, <1>3, BufferSizeBound
<1> QED
  BY <1>4 DEF GetNestedState

(* With the x86 sizes of a VMCS12 and a VMCB12, one 4 KiB page each, the *)
(* buffer is 8320 bytes.                                                   *)
LEMMA X86BufferSize ==
  ASSUME VmcsSize = 4096, VmcbSize = 4096
  PROVE  KvmNestedStateBuffer.size = 8320
<1>1. DataSize = 8192
  BY DEF DataSize
<1> QED
  BY <1>1, BufferIs DEF RoundUp

-----------------------------------------------------------------------------
(* Every reachable state is well typed: the size field of every buffer,  *)
(* whatever the kernel wrote into it, is a byte count the buffer's type   *)
(* can hold.                                                               *)
THEOREM TypeCorrect == Spec => []TypeOK
<1>1. IInv => TypeOK
  BY DEF IInv
<1> QED
  BY <1>1, InitIInv, NextIInv, PTL DEF Spec

(* KVM_GET_NESTED_STATE never answers E2BIG to a buffer fresh from       *)
(* empty(), whatever the vCPU's nested mode, on either vendor, and for    *)
(* every VMCS12 and VMCB12 size (the action property EmptyTakesState the  *)
(* run checks).                                                            *)
THEOREM EmptyTakesStateHolds == Spec => EmptyTakesState
BY InitIInv, NextIInv, FreshStepOk, PTL DEF Spec, EmptyTakesState

(* With the x86 sizes, a buffer from empty() reports 8320 bytes, more    *)
(* than the bindgen kvm_nested_state, and keeps its alignment, as         *)
(* test_layout asserts (the invariant LayoutAsTested the run checks).     *)
THEOREM LayoutAsTestedHolds ==
  ASSUME VmcsSize = 4096, VmcbSize = 4096
  PROVE  Spec => []LayoutAsTested
<1>1. IInv => LayoutAsTested
  <2> SUFFICES ASSUME IInv, NEW c \in Vcpus, buf[c].state = "empty"
               PROVE  /\ buf[c].size = 8320
                      /\ KvmNestedStateBuffer.size > RawNestedState.size
                      /\ KvmNestedStateBuffer.align = RawNestedState.align
    BY DEF LayoutAsTested
  <2>1. buf[c].size = KvmNestedStateBuffer.size
    BY DEF IInv, FreshIsEmpty
  <2> QED
    BY <2>1, X86BufferSize, BufferIs, RawNestedStateIs
<1> QED
  BY <1>1, InitIInv, NextIInv, PTL DEF Spec

=============================================================================
