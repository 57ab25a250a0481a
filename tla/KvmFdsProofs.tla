---------------------------- MODULE KvmFdsProofs ----------------------------
(***************************************************************************)
(* Proofs, for any number of fds and wrapper values, that the fd-owning    *)
(* constructors of Kvm, VmFd, VcpuFd and DeviceFd give every open fd       *)
(* exactly one owner and leak none, on their success and error paths,     *)
(* whatever the caller does with dup, close and drop, so long as           *)
(* create_device is never asked for KVM_CREATE_DEVICE_TEST.                *)
(***************************************************************************)
EXTENDS KvmFds, TLAPS

USE FdsAssumption, DeviceTestAssumption

(* The inductive invariant: the type invariant and both properties. *)
IInv == TypeOK /\ OwnershipSound /\ NoLeak

(* The initial state satisfies the inductive invariant. *)
LEMMA InitIInv == Init => IInv
BY DEF Init, IInv, TypeOK, OwnershipSound, NoLeak, Live, None, Free, Kinds, FileTypes

(* A failed call changes no fd and no wrapper. *)
LEMMA FailIInv == IInv /\ Fail => IInv'
BY DEF IInv, TypeOK, OwnershipSound, NoLeak, Live, FreeFds, Wrap, Fail, Answers, KindOf, None, Free, Kinds, FileTypes

(* open_with_cloexec hands the caller a fresh fd, or fails. *)
LEMMA OpenIInv == IInv /\ OpenWithCloexec => IInv'
BY DEF OpenWithCloexec, IInv, TypeOK, OwnershipSound, NoLeak, Live, FreeFds, Wrap, Fail, Answers, KindOf, None, Free, Kinds, FileTypes

(* Kvm::new wraps a fresh /dev/kvm fd, or fails. *)
LEMMA KvmNewIInv ==
  ASSUME IInv, NEW h \in Handles, KvmNew(h) PROVE IInv'
BY DEF KvmNew, IInv, TypeOK, OwnershipSound, NoLeak, Live, FreeFds, Wrap, Fail, Answers, KindOf, None, Free, Kinds, FileTypes

(* Kvm::new_with_fd_number and DeviceFd::from_raw_fd take over a RawFd. *)
LEMMA FromRawFdIInv ==
  ASSUME IInv, NEW h \in Handles, NEW fd \in Fds,
         KvmFromRawFd(h, fd) \/ DeviceFromRawFd(h, fd)
  PROVE  IInv'
BY DEF KvmFromRawFd, DeviceFromRawFd, IInv, TypeOK, OwnershipSound, NoLeak, Live, FreeFds, Wrap, Fail, Answers, KindOf, None, Free, Kinds, FileTypes

(* create_vm wraps the new VM fd before the call that may fail. *)
LEMMA CreateVmIInv ==
  ASSUME IInv, NEW o \in Handles, NEW h \in Handles, CreateVm(o, h) PROVE IInv'
BY DEF CreateVm, IInv, TypeOK, OwnershipSound, NoLeak, Live, FreeFds, Wrap, Fail, Answers, KindOf, None, Free, Kinds, FileTypes

(* create_vcpu wraps the new vCPU fd before the call that may fail. *)
LEMMA CreateVcpuIInv ==
  ASSUME IInv, NEW o \in Handles, NEW h \in Handles, CreateVcpu(o, h) PROVE IInv'
BY DEF CreateVcpu, IInv, TypeOK, OwnershipSound, NoLeak, Live, FreeFds, Wrap, Fail, Answers, KindOf, None, Free, Kinds, FileTypes

(* create_vmfd_from_rawfd takes the fd only once nothing can fail. *)
LEMMA CreateVmfdFromRawfdIInv ==
  ASSUME IInv, NEW o \in Handles, NEW h \in Handles, NEW fd \in Fds,
         CreateVmfdFromRawfd(o, h, fd)
  PROVE  IInv'
BY DEF CreateVmfdFromRawfd, IInv, TypeOK, OwnershipSound, NoLeak, Live, FreeFds, Wrap, Fail, Answers, KindOf, None, Free, Kinds, FileTypes

(* create_vcpu_from_rawfd takes the fd first and closes it on failure. *)
LEMMA CreateVcpuFromRawfdIInv ==
  ASSUME IInv, NEW o \in Handles, NEW h \in Handles, NEW fd \in Fds,
         CreateVcpuFromRawfd(o, h, fd)
  PROVE  IInv'
BY DEF CreateVcpuFromRawfd, IInv, TypeOK, OwnershipSound, NoLeak, Live, FreeFds, Wrap, Fail, Answers, KindOf, None, Free, Kinds, FileTypes

(* create_device without KVM_CREATE_DEVICE_TEST wraps the new device fd. *)
LEMMA CreateDeviceIInv ==
  ASSUME IInv, NEW o \in Handles, NEW h \in Handles, NEW field \in DeviceField,
         CreateDevice(o, h, FALSE, field)
  PROVE  IInv'
BY DEF CreateDevice, IInv, TypeOK, OwnershipSound, NoLeak, Live, FreeFds, Wrap, Fail, Answers, KindOf, None, Free, Kinds, FileTypes

(* Dropping a wrapper closes the fd it alone owns. *)
LEMMA DropFileIInv ==
  ASSUME IInv, NEW h \in Handles, DropFile(h) PROVE IInv'
BY DEF DropFile, IInv, TypeOK, OwnershipSound, NoLeak, Live, FreeFds, Wrap, Fail, Answers, KindOf, None, Free, Kinds, FileTypes

(* A dup hands the caller a fresh fd for the same object. *)
LEMMA DupIInv ==
  ASSUME IInv, NEW h \in Handles, Dup(h) PROVE IInv'
BY DEF Dup, IInv, TypeOK, OwnershipSound, NoLeak, Live, FreeFds, Wrap, Fail, Answers, KindOf, None, Free, Kinds, FileTypes

(* The caller closes a RawFd it holds. *)
LEMMA CloseRawIInv ==
  ASSUME IInv, NEW fd \in Fds, CloseRaw(fd) PROVE IInv'
BY DEF CloseRaw, IInv, TypeOK, OwnershipSound, NoLeak, Live, FreeFds, Wrap, Fail, Answers, KindOf, None, Free, Kinds, FileTypes

(* Every step keeps the inductive invariant, when create_device is never  *)
(* given KVM_CREATE_DEVICE_TEST.                                           *)
LEMMA NextIInv ==
  ASSUME TRUE \notin DeviceTest
  PROVE  IInv /\ [Next]_vars => IInv'
<1> SUFFICES ASSUME IInv, [Next]_vars PROVE IInv'
  OBVIOUS
<1>1. CASE UNCHANGED vars
  BY <1>1 DEF vars, IInv, TypeOK, OwnershipSound, NoLeak, Live, Answers, FreeFds
<1>2. CASE OpenWithCloexec
  BY <1>2, OpenIInv
<1>3. CASE \E fd \in Fds : CloseRaw(fd)
  BY <1>3, CloseRawIInv
<1>4. CASE \E h \in Handles :
             \/ KvmNew(h) \/ DropFile(h) \/ Dup(h)
             \/ \E fd \in Fds : KvmFromRawFd(h, fd) \/ DeviceFromRawFd(h, fd)
             \/ \E o \in Handles :
                  \/ CreateVm(o, h) \/ CreateVcpu(o, h)
                  \/ \E fd \in Fds : CreateVmfdFromRawfd(o, h, fd) \/ CreateVcpuFromRawfd(o, h, fd)
                  \/ \E test \in DeviceTest, field \in DeviceField : CreateDevice(o, h, test, field)
  <2>1. PICK h \in Handles :
             \/ KvmNew(h) \/ DropFile(h) \/ Dup(h)
             \/ \E fd \in Fds : KvmFromRawFd(h, fd) \/ DeviceFromRawFd(h, fd)
             \/ \E o \in Handles :
                  \/ CreateVm(o, h) \/ CreateVcpu(o, h)
                  \/ \E fd \in Fds : CreateVmfdFromRawfd(o, h, fd) \/ CreateVcpuFromRawfd(o, h, fd)
                  \/ \E test \in DeviceTest, field \in DeviceField : CreateDevice(o, h, test, field)
    BY <1>4
  <2>2. ASSUME NEW o \in Handles, NEW test \in DeviceTest, NEW field \in DeviceField,
               CreateDevice(o, h, test, field)
        PROVE  IInv'
    <3>1. test = FALSE
      OBVIOUS
    <3>2. QED BY <2>2, <3>1, CreateDeviceIInv
  <2>3. QED
    BY <2>1, <2>2, KvmNewIInv, DropFileIInv, DupIInv, FromRawFdIInv, CreateVmIInv,
       CreateVcpuIInv, CreateVmfdFromRawfdIInv, CreateVcpuFromRawfdIInv
<1>5. QED BY <1>1, <1>2, <1>3, <1>4 DEF Next

(* Type correctness does not need the hypothesis on DeviceTest: each     *)
(* step writes a kind, a wrapper type, an fd of the process (a fresh one, *)
(* one the caller held, or the device.fd field) or a result.               *)
LEMMA InitTypeOK == Init => TypeOK
BY DEF Init, TypeOK, None, Free, Kinds, FileTypes

LEMMA NextTypeOK == TypeOK /\ [Next]_vars => TypeOK'
<1> SUFFICES ASSUME TypeOK, [Next]_vars PROVE TypeOK'
  OBVIOUS
<1> USE DEF TypeOK, FreeFds, Wrap, Fail, Live, Answers, Free, None, Kinds, FileTypes
<1>1. CASE UNCHANGED vars
  BY <1>1 DEF vars
<1>2. CASE OpenWithCloexec
  BY <1>2 DEF OpenWithCloexec
<1>3. CASE \E fd \in Fds : CloseRaw(fd)
  BY <1>3 DEF CloseRaw
<1>4. ASSUME NEW h \in Handles PROVE
        /\ KvmNew(h) => TypeOK'
        /\ DropFile(h) => TypeOK'
        /\ Dup(h) => TypeOK'
        /\ \A fd \in Fds : KvmFromRawFd(h, fd) \/ DeviceFromRawFd(h, fd) => TypeOK'
  BY DEF KvmNew, DropFile, Dup, KvmFromRawFd, DeviceFromRawFd
<1>5. ASSUME NEW h \in Handles, NEW o \in Handles PROVE
        /\ CreateVm(o, h) => TypeOK'
        /\ CreateVcpu(o, h) => TypeOK'
        /\ \A fd \in Fds : CreateVmfdFromRawfd(o, h, fd) \/ CreateVcpuFromRawfd(o, h, fd) => TypeOK'
  BY DEF CreateVm, CreateVcpu, CreateVmfdFromRawfd, CreateVcpuFromRawfd
<1>6. ASSUME NEW h \in Handles, NEW o \in Handles, NEW test \in DeviceTest,
             NEW field \in DeviceField, CreateDevice(o, h, test, field)
      PROVE  TypeOK'
  <2>1. CASE test
    BY <1>6, <2>1 DEF CreateDevice
  <2>2. CASE ~test
    BY <1>6, <2>2 DEF CreateDevice
  <2> QED
    BY <2>1, <2>2
<1> QED
  BY <1>1, <1>2, <1>3, <1>4, <1>5, <1>6 DEF Next

(* The type invariant holds in every reachable state, whatever            *)
(* create_device is asked for, KVM_CREATE_DEVICE_TEST included: the        *)
(* wrappers' fds are always fds of the process.                           *)
THEOREM TypeCorrect == Spec => []TypeOK
BY InitTypeOK, NextTypeOK, PTL DEF Spec

(* No two owners ever share an fd, and every wrapper's fd refers to the   *)
(* object it was made for (the property OwnershipSound the runs check),    *)
(* for any number of fds and wrappers, as long as create_device is never  *)
(* asked for KVM_CREATE_DEVICE_TEST (the run kvm_fds_device_test shows    *)
(* what happens then).                                                     *)
THEOREM OwnershipSoundHolds ==
  ASSUME TRUE \notin DeviceTest
  PROVE  Spec => []OwnershipSound
<1>1. IInv => OwnershipSound
  BY DEF IInv
<1>2. QED BY <1>1, InitIInv, NextIInv, PTL DEF Spec

(* No error path of create_vm, create_vcpu or the from_rawfd constructors *)
(* leaves an open fd without an owner (the property NoLeak the runs check). *)
THEOREM NoLeakHolds ==
  ASSUME TRUE \notin DeviceTest
  PROVE  Spec => []NoLeak
<1>1. IInv => NoLeak
  BY DEF IInv
<1>2. QED BY <1>1, InitIInv, NextIInv, PTL DEF Spec

=============================================================================
