------------------------------- MODULE KvmFds -------------------------------
(***************************************************************************)
(* Ownership of the file descriptors behind Kvm, VmFd, VcpuFd and DeviceFd *)
(* (src/src/ioctls/system.rs, vm.rs, device.rs).  Each of these wraps a    *)
(* std File that closes its fd when dropped, so each open fd must have     *)
(* exactly one owner: one wrapper, the caller holding it as a RawFd, or    *)
(* the rest of the process (stdin).  The kernel's fd table says what each  *)
(* fd refers to; a new fd may be any free number, so a closed number is    *)
(* soon reused for an unrelated object.                                    *)
(***************************************************************************)
EXTENDS Integers

CONSTANTS
  Fds,          \* fd numbers of the process
  Std,          \* fds the rest of the process owns from the start (stdin)
  Handles,      \* Rust wrapper values that may be alive at once
  DeviceTest,   \* values of KVM_CREATE_DEVICE_TEST in kvm_create_device.flags
  DeviceField   \* values the caller leaves in kvm_create_device.fd

ASSUME FdsAssumption == Fds # {} /\ Std \subseteq Fds /\ DeviceField \subseteq Fds
ASSUME DeviceTestAssumption == DeviceTest \subseteq BOOLEAN

VARIABLES
  kind,     \* kind[fd]: the kernel object fd refers to, or Free
  ftype,    \* ftype[h]: which wrapper h is (Kvm, VmFd, ...), or None
  ffd,      \* ffd[h]: the fd wrapper h owns
  raw,      \* fds the caller holds as RawFd and has to close or wrap
  ext,      \* fds the rest of the process owns
  lastErr   \* Ok or Errno: the Result the last call returned

vars == <<kind, ftype, ffd, raw, ext, lastErr>>

Free == "free"
None == "none"
Kinds == {"stdin", "kvm", "vm", "vcpu", "device"}
FileTypes == {"Kvm", "VmFd", "VcpuFd", "DeviceFd"}

(* The kernel object each wrapper type is meant to own. *)
KindOf == [Kvm |-> "kvm", VmFd |-> "vm", VcpuFd |-> "vcpu", DeviceFd |-> "device"]

Live(h) == ftype[h] # None
FreeFds == {fd \in Fds : kind[fd] = Free}

TypeOK ==
  /\ kind \in [Fds -> Kinds \cup {Free}]
  /\ ftype \in [Handles -> FileTypes \cup {None}]
  /\ ffd \in [Handles -> Fds]
  /\ raw \in SUBSET Fds
  /\ ext \in SUBSET Fds
  /\ lastErr \in {"Ok", "Errno"}

Init ==
  /\ kind = [fd \in Fds |-> IF fd \in Std THEN "stdin" ELSE Free]
  /\ ftype = [h \in Handles |-> None]
  /\ ffd = [h \in Handles |-> CHOOSE fd \in Fds : TRUE]
  /\ raw = {}
  /\ ext = Std
  /\ lastErr = "Ok"

(* File::from_raw_fd(fd) wrapped into a wrapper of type t. *)
Wrap(h, t, fd) ==
  /\ ftype' = [ftype EXCEPT ![h] = t]
  /\ ffd' = [ffd EXCEPT ![h] = fd]

(* A call that returns Err and changes nothing. *)
Fail == lastErr' = "Errno" /\ UNCHANGED <<kind, ftype, ffd, raw, ext>>

(* The kernel can answer an ioctl on wrapper h's fd only when that fd still *)
(* refers to the object h was made for.                                    *)
Answers(h) == kind[ffd[h]] = KindOf[ftype[h]]

-----------------------------------------------------------------------------
(* Mutant: open_with_cloexec without the ret < 0 check, returning -1. *)
OpenUnchecked ==
  \/ /\ raw' = raw \cup {-1}
     /\ lastErr' = "Ok"
     /\ UNCHANGED <<kind, ftype, ffd, ext>>
  \/ \E fd \in FreeFds :
       /\ kind' = [kind EXCEPT ![fd] = "kvm"]
       /\ raw' = raw \cup {fd}
       /\ lastErr' = "Ok"
       /\ UNCHANGED <<ftype, ffd, ext>>

(* Kvm::open_with_cloexec: open("/dev/kvm") returns a new fd, or Err.      *)
(* The fd is handed to the caller as a RawFd.                              *)
OpenWithCloexec ==
  \/ Fail
  \/ \E fd \in FreeFds :
       /\ kind' = [kind EXCEPT ![fd] = "kvm"]
       /\ raw' = raw \cup {fd}
       /\ lastErr' = "Ok"
       /\ UNCHANGED <<ftype, ffd, ext>>

(* Kvm::new: open_with_cloexec(true)? then new_with_fd_number(fd). *)
KvmNew(h) ==
  /\ ~Live(h)
  /\ \/ Fail
     \/ \E fd \in FreeFds :
          /\ kind' = [kind EXCEPT ![fd] = "kvm"]
          /\ Wrap(h, "Kvm", fd)
          /\ lastErr' = "Ok"
          /\ UNCHANGED <<raw, ext>>

(* Kvm::new_with_fd_number / Kvm::from_raw_fd on a /dev/kvm fd the caller  *)
(* holds (the unsafe contract: it is a /dev/kvm fd the caller owns).       *)
KvmFromRawFd(h, fd) ==
  /\ ~Live(h)
  /\ fd \in raw /\ kind[fd] = "kvm"
  /\ Wrap(h, "Kvm", fd)
  /\ raw' = raw \ {fd}
  /\ lastErr' = "Ok"
  /\ UNCHANGED <<kind, ext>>

(* Kvm::create_vm: KVM_CREATE_VM returns a new VM fd, which is wrapped in  *)
(* a File at once; then get_vcpu_mmap_size()? may fail, and the File is    *)
(* dropped (the fd closed) on that early return.                           *)
CreateVm(k, h) ==
  /\ Live(k) /\ ftype[k] = "Kvm" /\ ~Live(h)
  /\ \/ Fail
     \/ /\ Answers(k)
        /\ \E fd \in FreeFds :
             \/ /\ kind' = [kind EXCEPT ![fd] = "vm"]
                /\ Wrap(h, "VmFd", fd)
                /\ lastErr' = "Ok"
                /\ UNCHANGED <<raw, ext>>
             \/ Fail

(* Mutant: create_vmfd_from_rawfd wrapping the fd before the fallible    *)
(* get_vcpu_mmap_size()?, so that Err closes an fd the caller still holds. *)
CreateVmfdFromRawfdEarlyWrap(k, h, fd) ==
  /\ Live(k) /\ ftype[k] = "Kvm" /\ ~Live(h)
  /\ fd \in raw /\ kind[fd] = "vm"
  /\ \/ /\ kind' = [kind EXCEPT ![fd] = Free]
        /\ lastErr' = "Errno"
        /\ UNCHANGED <<ftype, ffd, raw, ext>>
     \/ /\ Answers(k)
        /\ Wrap(h, "VmFd", fd)
        /\ raw' = raw \ {fd}
        /\ lastErr' = "Ok"
        /\ UNCHANGED <<kind, ext>>

(* Kvm::create_vmfd_from_rawfd(fd): get_vcpu_mmap_size()? first, and only  *)
(* then File::from_raw_fd(fd): on Err the caller still holds the fd.       *)
CreateVmfdFromRawfd(k, h, fd) ==
  /\ Live(k) /\ ftype[k] = "Kvm" /\ ~Live(h)
  /\ fd \in raw /\ kind[fd] = "vm"
  /\ \/ Fail
     \/ /\ Answers(k)
        /\ Wrap(h, "VmFd", fd)
        /\ raw' = raw \ {fd}
        /\ lastErr' = "Ok"
        /\ UNCHANGED <<kind, ext>>

(* Mutant: create_vcpu wrapping the new fd only after mmap_from_fd(..)?,  *)
(* so that the early return leaves the vCPU fd open with no owner.         *)
CreateVcpuLateWrap(v, h) ==
  /\ Live(v) /\ ftype[v] = "VmFd" /\ ~Live(h)
  /\ \/ Fail
     \/ /\ Answers(v)
        /\ \E fd \in FreeFds :
             /\ kind' = [kind EXCEPT ![fd] = "vcpu"]
             /\ UNCHANGED <<raw, ext>>
             /\ \/ Wrap(h, "VcpuFd", fd) /\ lastErr' = "Ok"
                \/ UNCHANGED <<ftype, ffd>> /\ lastErr' = "Errno"

(* VmFd::create_vcpu: KVM_CREATE_VCPU returns a new vCPU fd, wrapped in a  *)
(* File before mmap_from_fd(..)? so that its failure closes the fd.        *)
CreateVcpu(v, h) ==
  /\ Live(v) /\ ftype[v] = "VmFd" /\ ~Live(h)
  /\ \/ Fail
     \/ /\ Answers(v)
        /\ \E fd \in FreeFds :
             \/ /\ kind' = [kind EXCEPT ![fd] = "vcpu"]
                /\ Wrap(h, "VcpuFd", fd)
                /\ lastErr' = "Ok"
                /\ UNCHANGED <<raw, ext>>
             \/ Fail

(* VmFd::create_vcpu_from_rawfd(fd): File::from_raw_fd(fd) first, then     *)
(* mmap_from_fd(..)?: on Err the File is dropped and the fd closed.        *)
CreateVcpuFromRawfd(v, h, fd) ==
  /\ Live(v) /\ ftype[v] = "VmFd" /\ ~Live(h)
  /\ fd \in raw /\ kind[fd] = "vcpu"
  /\ raw' = raw \ {fd}
  /\ UNCHANGED ext
  /\ \/ /\ Wrap(h, "VcpuFd", fd)
        /\ lastErr' = "Ok"
        /\ UNCHANGED kind
     \/ /\ kind' = [kind EXCEPT ![fd] = Free]
        /\ lastErr' = "Errno"
        /\ UNCHANGED <<ftype, ffd>>

(* VmFd::create_device(&mut device): on ioctl success, new_device wraps    *)
(* device.fd.  With KVM_CREATE_DEVICE_TEST the kernel only checks that the *)
(* type is supported: it creates no device and leaves device.fd as the     *)
(* caller set it.                                                          *)
CreateDevice(v, h, test, field) ==
  /\ Live(v) /\ ftype[v] = "VmFd" /\ ~Live(h)
  /\ \/ Fail
     \/ /\ Answers(v)
        /\ IF test
             THEN /\ Wrap(h, "DeviceFd", field)
                  /\ UNCHANGED kind
             ELSE \E fd \in FreeFds :
                    /\ kind' = [kind EXCEPT ![fd] = "device"]
                    /\ Wrap(h, "DeviceFd", fd)
        /\ lastErr' = "Ok"
        /\ UNCHANGED <<raw, ext>>

(* DeviceFd::from_raw_fd on a device fd the caller holds. *)
DeviceFromRawFd(h, fd) ==
  /\ ~Live(h)
  /\ fd \in raw /\ kind[fd] = "device"
  /\ Wrap(h, "DeviceFd", fd)
  /\ raw' = raw \ {fd}
  /\ lastErr' = "Ok"
  /\ UNCHANGED <<kind, ext>>

-----------------------------------------------------------------------------
(* The environment: dropping a wrapper closes its fd (std's File), the     *)
(* caller dups a wrapper's fd (libc::dup(x.as_raw_fd()), as the tests and  *)
(* examples do) or closes a RawFd it holds.                                *)
DropFile(h) ==
  /\ Live(h)
  /\ kind' = [kind EXCEPT ![ffd[h]] = Free]
  /\ ftype' = [ftype EXCEPT ![h] = None]
  /\ lastErr' = "Ok"
  /\ UNCHANGED <<ffd, raw, ext>>

Dup(h) ==
  /\ Live(h) /\ kind[ffd[h]] # Free
  /\ \E fd \in FreeFds :
       /\ kind' = [kind EXCEPT ![fd] = kind[ffd[h]]]
       /\ raw' = raw \cup {fd}
  /\ lastErr' = "Ok"
  /\ UNCHANGED <<ftype, ffd, ext>>

CloseRaw(fd) ==
  /\ fd \in raw
  /\ kind' = [kind EXCEPT ![fd] = Free]
  /\ raw' = raw \ {fd}
  /\ lastErr' = "Ok"
  /\ UNCHANGED <<ftype, ffd, ext>>

Next ==
  \/ OpenWithCloexec
  \/ \E fd \in Fds : CloseRaw(fd)
  \/ \E h \in Handles :
       \/ KvmNew(h) \/ DropFile(h) \/ Dup(h)
       \/ \E fd \in Fds : KvmFromRawFd(h, fd) \/ DeviceFromRawFd(h, fd)
       \/ \E o \in Handles :
            \/ CreateVm(o, h) \/ CreateVcpu(o, h)
            \/ \E fd \in Fds : CreateVmfdFromRawfd(o, h, fd) \/ CreateVcpuFromRawfd(o, h, fd)
            \/ \E test \in DeviceTest, field \in DeviceField : CreateDevice(o, h, test, field)

Spec == Init /\ [][Next]_vars

-----------------------------------------------------------------------------
(* Every open fd has at most one owner and every owner's fd is open and    *)
(* refers to the object it was made for: no wrapper shares its fd with     *)
(* another wrapper, with a RawFd the caller holds or with stdin, so no     *)
(* drop closes an fd someone else still uses (and that the kernel may      *)
(* already have reused for another object).                                *)
OwnershipSound ==
  /\ \A h1, h2 \in Handles :
       Live(h1) /\ Live(h2) /\ h1 # h2 => ffd[h1] # ffd[h2]
  /\ \A h \in Handles : Live(h) => ffd[h] \notin raw \cup ext /\ Answers(h)
  /\ raw \cap ext = {}
  /\ \A fd \in raw : kind[fd] # Free
  /\ \A fd \in ext : kind[fd] = "stdin"

(* No fd leaks on an error path: every fd the kernel holds open has an     *)
(* owner who will close it (create_vm and create_vcpu wrap the new fd      *)
(* before the call that may fail).                                         *)
NoLeak ==
  \A fd \in Fds :
    kind[fd] # Free =>
      \/ fd \in raw \cup ext
      \/ \E h \in Handles : Live(h) /\ ffd[h] = fd

=============================================================================
