# A TLA+ verification of kvm-ioctls and kvm-bindings

This directory models the parts of this repository that hold state and
can go wrong across several calls. It has three kinds of files:

- TLA+ modules;
- the TLC configurations that check those modules on small instances;
- TLAPS proofs of the main invariants for every value of the constants.

The repository has two crates:

- `src/src/ioctls` (kvm-ioctls): `Kvm`, `VmFd` and `DeviceFd`. These are
  wrappers over the fds of `/dev/kvm`, of a VM, of a vCPU and of a
  device, and they issue the ioctls on them.
- `src/kvm-bindings/src` (kvm-bindings): the kernel ABI structures. These
  include the flexible-array-member (FAM) structures (`kvm_reg_list`,
  `kvm_irq_routing`, `kvm_cpuid2`, `kvm_msr_list`), the oversized
  `KvmNestedStateBuffer`, and the serde impls of the bare bindings.

## 1. Inventory of the system

| Component | Code | State | Operations | Interacts with |
|---|---|---|---|---|
| FAM container (`FamStructWrapper<T>`) | vmm-sys-util (outside the repository); instantiated in `arm64/fam_wrappers.rs` (max_len 500 and 1024, header `PartialEq`) | one allocation: the header with its count field (`n`, `nr`, `nent`, `nmsrs`), then `cap` entries | `new`, `set_len`, `as_slice`, `as_mut_slice`, `clone`, `eq`, serde, drop | the kernel, which reads the count as its limit and rewrites it (`get_cpuid`, `get_msr_index_list`, `set_gsi_routing`) |
| Bare bindings and their serde | `riscv64/serialize.rs` | a header value with no entries | `Default`, literals, deserialize | `VmFd::set_gsi_routing` takes `&kvm_irq_routing` |
| fd-owning wrappers | `system.rs`, `vm.rs`, `device.rs` | a `File` per wrapper; the kernel's fd table | `open_with_cloexec`, `Kvm::new`, `new_with_fd_number`/`from_raw_fd`, `create_vm`, `create_vmfd_from_rawfd`, `create_vcpu`, `create_vcpu_from_rawfd`, `create_device`, `DeviceFd::from_raw_fd`, drop | the kernel (new fds, any free number) and the caller (raw fds, `dup`, `close`, stdin) |
| Capability and size queries | `system.rs` 105-240 | none in the code; the host's KVM answers | `get_api_version`, `check_extension(_int)`, `get_vcpu_mmap_size`, `get_nr_vcpus`, `get_nr_memslots`, `get_max_vcpus` | the kernel, through `KVM_CHECK_EXTENSION` on the `/dev/kvm` fd (or a bad fd) |
| ioeventfd and irqfd | `vm.rs` 560-880 | the kernel's registration table | `register_ioevent`, `unregister_ioevent`, `register_irqfd`, `unregister_irqfd` | EventFds of the caller |
| Memory slots and dirty log | `vm.rs` 100-110, 755-797 | the kernel's slots; a bitmap sized from `memory_size` | `set_user_memory_region`, `get_dirty_log` | the kernel writes one bit per page of the slot |
| `KvmNestedStateBuffer` | `x86_64/nested.rs` | a fixed 8320-byte buffer with a `size` field | `empty()` / `default()` | the kernel's `KVM_GET_NESTED_STATE` rewrites `size` |
| VM interrupt and timer calls | `vm.rs` 131-1086 | the kernel's VM: irqchip mode, PIC/IOAPIC, PIT, kvmclock, vCPU count, GSI routing | `set_tss_address`, `create_irq_chip`, `get/set_irqchip`, `create_pit2`, `get/set_pit2`, `get/set_clock`, `signal_msi`, `enable_cap`, `set_gsi_routing`, `create_vcpu`, irqfds | the kernel's ordering rules: an irqchip once, and only before the first vCPU |
| Unit tests and doc examples | `vm.rs` tests and `///` examples | the sequence of calls of one test | each call and its asserted result | the VM calls above and `DirtyLog`/`IoEvents` |
| `DeviceFd::set/has_device_attr` | `device.rs` 36-42 | none in this code | one ioctl each | not modelled |

The code runs in a single thread; the crate has no locking and no
callbacks. The hard behaviours come from three sources:

- **The kernel as a collaborator.** The kernel reads a count it is
  handed, writes fewer entries and rewrites the count. It also reuses a
  closed fd number at once, and it answers `KVM_CREATE_DEVICE_TEST`
  without creating anything.
- **Error paths in the middle of an operation.** A `?` comes after a new
  fd was made, so who owns that fd on `Err` decides between a leak and a
  double close.
- **Numeric conversions.** An `i32` ioctl result is cast to `usize`, and
  `div_round_up` computes on the `usize` width.

Properties per component:

- **FAM container:**
  - the count never exceeds the allocation: the kernel's limit is the
    count;
  - `as_slice` never exposes uninitialized memory;
  - clone equals its source.
- **fd wrappers:**
  - each open fd has exactly one owner, whether a wrapper, a RawFd the
    caller holds, or stdin;
  - a wrapper's fd refers to the object it was made for;
  - no fd leaks on an error path.
- **ioeventfd and irqfd:** each guest write signals exactly the eventfds
  the caller registered and has not unregistered; every registration can
  be unregistered.
- **Dirty log:** the bitmap covers the slot.
- **Nested state:** a buffer from `empty()` is large enough for every
  nested state of either vendor, so the kernel never answers E2BIG to it.
- **Capability queries:** the counts are positive and the maximum is not
  below the recommended number, whatever the kernel answers.
- **VM calls:** the irqchip mode the caller is told is the kernel's.

## 2. Modules

| Module | Models | Correspondence |
|---|---|---|
| `FamWrapper` | The FAM container together with its kernel fills. | Variables, for each of a few wrappers `w`: `live[w]`, the allocation `cap[w]`, the header's count `len[w]`, its other field `flags[w]`, and the entry memory `mem[w]`. `mem[w]` is a function on `1..MaxLen`: `Garbage` marks unallocated or uninitialized memory. `lastErr` is the last call's result. The actions are `New`, `SetLen`, `SetEntry`, `Clone`, `Deserialize` and `Drop`, all from spec.md 4.1 and 4.3, because `FamStructWrapper` is in vmm-sys-util. `GetCpuid`, `GetMsrIndexList` and `SetGsiRouting` come from `system.rs` and `vm.rs`. |
| `FamContainer` | The abstract FAM container of spec.md 3 and 4.1, what a caller may rely on. | Variables `alive[w]`, the header's other fields `hdr[w]` and `slice[w]`, the sequence `as_slice` returns (at most `MaxLen` entries). Actions `MakeNew` (zero entries), `Resize` (keep the first min(old, new), zero the rest), `Write`, `MakeClone`, `Load` (deserialization or a kernel fill) and `Destroy`. No allocation, no garbage. `FamWrapper` instantiates it as `Container` with `alive <- live`, `hdr <- AbsHdr`, `slice <- AbsSlice` (the flags and `AsSlice(w)` of a live wrapper, `0` and `<< >>` otherwise). |
| `FamBareHeader` | `FamWrapper` plus the bare `kvm_irq_routing` values that `set_gsi_routing` also accepts. | `BareRouting(w, n)` is a bare value with `nr = n` and room for no entries, as `kvm_irq_routing::default()` (the doc example, `test_set_gsi_routing`) or a struct literal builds it. `SetGsiRoutingRead` is `SetGsiRouting` plus the history variable `kernelRead`: how many entries the kernel read on the last successful call and how many the value held. `MCFamBareHeader` instantiates it for TLC. |
| `KvmFds` | The fd-owning wrappers. | `kind[fd]` is the kernel's fd table. `ftype[h]` and `ffd[h]` give each wrapper value's type and its `File`'s fd. `raw` holds the fds the caller holds as `RawFd`. `ext` holds the fds owned by the rest of the process (stdin). There is one action per constructor, with a disjunct per error path in the code's order. `DropFile`, `Dup` and `CloseRaw` are the caller's environment. |
| `IoEvents` | `register_ioevent`, `unregister_ioevent`, `register_irqfd`, `unregister_irqfd` with the kernel's tables. | `ioevents` and `irqfds` are the kernel's tables. `RegisterArgs` and `UnregisterArgs` are the `kvm_ioeventfd` the code builds. `Ioeventfd` and `Irqfd` are the kernel's answers (EINVAL, EEXIST on a collision, ENOENT when deassign finds no exact match; EBUSY for an irqfd already routed). The ghosts `requested` and `routed` hold what the caller was told succeeded. |
| `DirtyLog` | `set_user_memory_region` and `get_dirty_log`. | `region[s]` and `logging[s]` are the kernel's slots. `bitmapWords` is the length of the `Vec` that `get_dirty_log` allocates with `div_round_up`. `writtenWords` is what the kernel writes: `ceil(npages / 64)` words of the slot it knows. An empty `Vec` has a dangling pointer, so the kernel's copy faults and the call fails with EFAULT, writing nothing. |
| `VmIrq` | The VM-wide interrupt and timer calls, composed with `IoEvents` (its irqfd table). | `irqchip`, `chip[id]`, `pit`, `pitState`, `clock`, `vcpus` and `routes` are the kernel's VM; `result` is what the last getter returned. `KernelCreateIrqChip` and `KernelEnableCap` are the kernel's answers (EEXIST once an irqchip or a vCPU exists, EINVAL for too many pins). `create_vcpu` makes no check of its own: the kernel answers EEXIST for an id already taken (ids are not modelled, so any call after the first vCPU may get it) and EINVAL at its vCPU limit. One action per `VmFd` method; `Fails(e)` and `Succeeds` are the `Ok`/`Err(errno)` conversion every method ends in. The ghost `believed` is the mode the caller was told it set up. |
| `VmTests` | The unit tests and doc examples of `vm.rs` as traces. | `Tests[t]` is the sequence of calls of test `t`, each with the result the test asserts; `TraceNext` takes the next call as the model's action (`VmIrq`, `DirtyLog`, `IoEvents`) conjoined with the assertion. |
| `KvmCaps` | The capability queries of `Kvm`. | `fdOk`, `caps` and `online` are the host: an open `/dev/kvm` or a bad fd, the capabilities its KVM knows, its online CPUs. `got[g]` is what getter `g` last returned. `AsUsize(x) == x % UsizeModulus` is the `as usize` cast of the `i32` result. |
| `NestedState` | `KvmNestedStateBuffer::empty()` and `KVM_GET_NESTED_STATE` for a few vCPUs. | `Struct` and `Union` compute repr(C) sizes and alignments of the bindgen types. `buf[c]` is the buffer's `size` field and contents; `mode[c]` the vCPU's nested mode; `KernelNeed` the bytes the kernel needs. The ghost `fresh[c]` marks a buffer straight from `empty()`. |
| `FamWrapperProofs`, `KvmFdsProofs`, `KvmCapsProofs`, `IoEventsProofs`, `DirtyLogProofs`, `VmIrqProofs`, `NestedStateProofs` | TLAPS proofs, one module per component; each EXTENDS its component and `TLAPS`. | See section 5. |

The `MC*.tla` modules give TLC model values for handles and entries and
declare symmetry over the handles. Symmetry is sound here because no
action or property names a particular handle.

How the code is modelled, and why:

- **A kernel's checks are an `IF`/`ELSE IF` chain.** `Ioeventfd`,
  `KernelCreateIrqChip`, `KernelEnableCap`, `Deserialize` and the other
  calls with several error paths test their conditions in the code's
  (or the kernel's) order, each an early return. A `CASE` with
  overlapping guards would leave the choice between them open.

- **The kernel is modelled as a contract.**
  - `GetCpuid` installs a wrapper whose count is `n`. The kernel then
    writes `k <= n` entries and stores `k`, or it fails.
  - A new fd is any free fd. "Lowest free" is one of these choices, so
    every reuse of a just-closed number happens in the runs.
- **`create_device` in test mode** wraps `device.fd` as the caller set
  it. The constant `DeviceTest` says whether the run may set the flag.
- **Wrappers may ask for one more than `max_len`.** `New`, `SetLen` and
  the payloads of `Deserialize` use sizes up to `MaxLen + 1`, so the
  capacity error happens. `GetCpuid` is called with `n <= MaxLen`,
  because this version calls the infallible `CpuId::new`.

## 3. Runs

| Run | cfg | Expect | Checks | Shows |
|---|---|---|---|---|
| `fam_wrapper` | `MCFamWrapper.cfg` | pass | `TypeOK`, `CountWithinAllocation`, `NoUninitExposed`, `FamRefines` | After every sequence of new, set_len, writes, clone, deserialization, kernel fills (including the E2BIG count rewrite, which the code must answer with Err and a drop) and drops, each wrapper's count fits its allocation and `as_slice` reads only written or zeroed memory. `FamRefines` (the PROPERTY `Container!ContainerSpec`) checks that every step, seen through the header and `as_slice`, is a step of `FamContainer` or invisible: a `set_len` that forgot to zero regrown slots re-exposes old entries and breaks it. |
| `fam_bare_routing` | `MCFamWrapperBare.cfg` (module `MCFamBareHeader`) | violation | `GsiRoutingReadsWithin` | `set_gsi_routing` handed a bare `kvm_irq_routing` with `nr = 1` returns Ok after the kernel read one entry past the value, against its SAFETY comment. |
| `kvm_fds` | `MCKvmFds.cfg` | pass | `TypeOK`, `OwnershipSound`, `NoLeak` | In every interleaving of the constructors, their failures, drops, dups and closes, each open fd has one owner, refers to the right object, and does not leak. |
| `io_events` | `MCIoEvents.cfg` | pass | `TypeOK`, `SignalsAsRequested` | After every sequence of register and unregister calls with and without datamatch, on both buses, each guest write signals exactly the eventfds the caller believes registered, and the irqfd table equals what the caller routed. |
| `io_events_unregister` | `MCIoEventsUnregister.cfg` | violation | `Unregisterable` | A registration with a datamatch value cannot be removed by `unregister_ioevent`. |
| `dirty_log` | `MCDirtyLog.cfg` | pass | `TypeOK`, `BitmapCoversSlot` | When `get_dirty_log` is given the slot's own size, the bitmap covers every page, including sizes that are not a multiple of 64 pages. |
| `dirty_log_any_size` | `MCDirtyLogAnySize.cfg` | violation | `BitmapCoversSlot` | With a non-zero `memory_size` smaller than the slot (one page for a 65-page slot), the call returns Ok after the kernel wrote two words into a one-word `Vec`. |
| `kvm_fds_device_test` | `MCKvmFdsDeviceTest.cfg` | violation | `OwnershipSound` | With `KVM_CREATE_DEVICE_TEST`, `create_device` returns a `DeviceFd` that owns fd 0 (stdin). |
| `vm_irq` | `MCVmIrq.cfg` | pass | `ChipAsReported` | In every order of the VM calls and vCPU creation, whatever error the kernel answers, `create_irq_chip` and `enable_cap(SplitIrqchip)` report exactly the irqchip mode the kernel set up. |
| `vm_tests` | `MCVmTests.cfg` | pass | `TestsPass` | Every unit test and doc example of `vm.rs` that is modelled runs to its end with each assertion true: the model agrees with the results the tests expect. |
| `kvm_caps` | `MCKvmCaps.cfg` | pass | `TypeOK`, `CountsPositive`, `MaxAtLeastNr` | On a host with or without each capability, and on a bad fd, the count getters return positive counts and `get_max_vcpus >= get_nr_vcpus`. |
| `nested_state` | `MCNestedState.cfg` | pass | `TypeOK`, `LayoutAsTested`, `EmptyTakesState` | The repr(C) size of `KvmNestedStateBuffer` is 8320, as `test_layout` asserts, and a buffer from `empty()` takes the nested state of a vCPU in every mode on both vendors, while another vCPU's reused buffer gets E2BIG. |

Bounds, and why they are enough:

- **FAM runs.** There are 2 handles, `MaxLen = 2`, two values (the zero
  entry and one other) and flags {0, 1}. Two handles are needed for
  `clone`. `MaxLen = 2` with sizes up to 3 reaches the following cases:
  - a capacity error;
  - growth from 1 to 2, which exposes the newly allocated slot;
  - a kernel fill that writes fewer entries than its limit;
  - a header whose count differs from its entries.
- **fd runs.** There are 3 handles and fds 0..3, with 0 as stdin. Three
  handles are needed for a Kvm, a VmFd and a vCPU or device at once. Four
  fds let a closed fd be reused while others stay open.
- **ioevent runs.** There are 2 eventfds (symmetric), one address on
  each bus, sizes {0, 1} (NoDatamatch and a one-byte datamatch), values
  {0, 1} and 2 gsis. These reach every kernel branch: a collision of a
  wildcard with a datamatch entry, two datamatch entries that differ
  only in value, a deassign that finds no exact match, and an irqfd
  already routed. A second address or size only multiplies the states
  (more than 20 million with 2 addresses and 3 sizes).
- **Dirty-log runs.** There are 2 slots, a page of 4096 bytes and sizes
  0, half a page, one page, 64 pages and 65 pages. These cover a size
  that is not page aligned, an exact word of pages and one page past it,
  where a rounding error in `div_round_up` would show.

Each property of a passing run is also checked against a mutant of the
code: a dropped guard, an off-by-one, or a swapped order. These are
listed in `PROJECT.json` and TLC finds each one.

- **VM runs.** One vCPU (`MaxVcpus = 1`) is enough to freeze the
  irqchip setup; the pin counts 24 and 49 lie on both sides of the
  limit 48, the offsets on both sides of the TSS limit; two eventfds and
  two gsis, one routed by default, reach the irqfd interaction.
- **Test traces.** The constants are the values the tests use (addresses
  0x1000, 0xc1..0xf4, sizes 0-8, gsis 0, 4, 5, 8, pins 0 and 24, the
  clock read back from a set of 10), so each trace is the test itself.
- **Capability queries.** Two online CPU counts, 2 (below the 4 that
  `test_kvm_getters` expects) and 8, `KVM_MAX_VCPUS = 1024`,
  `KVM_USER_MEM_SLOTS = 32764` and every subset of the four
  capabilities, on a good and a bad fd. TLC's integers are 32 bits, so
  `usize` is modelled as 2^30; every count the kernel reports fits and
  -1 wraps to the largest value, as on a 64-bit usize.
- **Nested state.** Two vCPUs (symmetric) on both vendors, with the
  kernel's 4096-byte VMCS12 and VMCB12: one vCPU's buffer can be reused
  after a get while the other's is fresh.

Each property of a passing run is also checked against a mutant of the
code: a dropped guard, an off-by-one, or a swapped order. These are
listed in `PROJECT.json` and TLC finds each one.

Fairness. The crate is single-threaded and every call returns, so all
properties but one are safety properties and assume no fairness. The
exception is `TestsPass` in `VmTests`: it states that each test reaches
its last call, `<>(step = Len(Tests[test]) + 1)`, under weak fairness of
`TraceNext`. This is justified because a test body is straight-line code
whose every call returns: the next call is always taken. The run has
`CHECK_DEADLOCK FALSE` because a finished test really stops.

Observations without a run (they need a fd no real caller holds, or a
host the tests do not describe):

- `get_max_vcpus` (`system.rs:238`) casts the answer with `as usize`, so
  on a failing fd (-1) it returns `usize::MAX`, although its doc comment
  promises the fallback to `get_nr_vcpus`. A `Kvm` on a non-`/dev/kvm`
  fd, as `test_bad_kvm_fd` builds, reaches it. `MaxAtLeastNr` still
  holds there.
- `test_kvm_getters` asserts `get_nr_vcpus() >= 4`, but on x86 the
  kernel answers `min(online CPUs, KVM_MAX_VCPUS)`, which is below 4 on
  a host with fewer CPUs.

## 4. Findings

1. **`vm.rs:992`**: `create_device` wraps `device.fd` whenever the ioctl
   returns 0.
   - With `KVM_CREATE_DEVICE_TEST`, the kernel creates no device and
     leaves `device.fd` untouched. The repository's own doc example and
     test leave it at 0.
   - The returned `DeviceFd` then owns stdin and closes it when dropped.
2. **`vm.rs:519`**: `set_gsi_routing` is safe, takes `&kvm_irq_routing`,
   and claims that the kernel reads exactly the size of the structure.
   - The kernel reads `nr` entries after the header.
   - A bare value, from `kvm_irq_routing::default()` as the doc example
     and `test_set_gsi_routing` build it or from a struct literal with
     `nr` set (its fields are public), has no room for them.
   - The run hands it a bare value with `nr = 1`; the call returns Ok
     and the kernel has read one entry past it. The serde impls of the
     bare bindings are riscv64-only, where `set_gsi_routing` does not
     exist, so they are not a way in.
3. **`vm.rs:643`**: `unregister_ioevent` builds a `kvm_ioeventfd` with
   `len` 0 and no datamatch flag.
   - The kernel's deassign matches length and datamatch exactly, so a
     registration made with a datamatch value (`len` > 0) can never be
     removed through this function; it returns ENOENT.
   - Its doc comment says it unregisters an event from an address it was
     registered to.
4. **`vm.rs:765`**: `get_dirty_log` sizes the bitmap from the caller's
   `memory_size`, and the function is safe.
   - The kernel writes one bit per page of the slot it knows.
   - A non-zero `memory_size` smaller than the slot gives a `Vec` the
     kernel writes past, and the call returns Ok: 4096 bytes for a
     65-page slot allocates one word and the kernel writes two.
   - A `memory_size` of 0 does not overrun: the empty `Vec` has a
     dangling pointer, the kernel's copy faults and the call fails with
     EFAULT.

## 5. Proofs

`FamWrapperProofs` proves the following theorems for every
`MaxLen > 0` and every set of values, under the assumptions
`MaxLenAssumption`, `ZeroAssumption`, `GarbageAssumption` and
`FlagsAssumption`:

- `Spec => []TypeOK`;
- `Spec => []CountWithinAllocation`;
- `Spec => []NoUninitExposed`;
- `Spec => FamRefines` (`RefinesContainer`): the wrapper implements the
  abstract container `FamContainer`.

Neither property is inductive on its own. `set_len` may raise the count
up to the allocation, so it would expose any slot between the old count
and the allocation. The proofs therefore use the strengthening
`IInv == TypeOK /\ AllocInit`. `AllocInit` says that every allocated
slot of a live wrapper, not only the first `len`, holds a value.

The proof is laid out as follows:

- `InitIInv` shows that the initial state satisfies `IInv`.
- There is one lemma per action: `NewIInv`, `SetLenIInv`,
  `SetEntryIInv`, `CloneIInv`, `DeserializeIInv`, `GetCpuidIInv` and
  `DropIInv`. Each splits on the action's error branches.
- `NextIInv` combines the action lemmas.
- `IInvHolds` (`Spec => []IInv`) follows by PTL, and each theorem
  from it.

The refinement proof uses the same `IInv`: a live wrapper's count is at
most `MaxLen` and every entry within it is a value, which is what lets a
regrown, cloned or loaded slice be a sequence of `Bounded`. `InitRefines`
maps the initial state (no wrapper alive). One lemma per action
(`NewRefines`, `SetLenRefines`, `SetEntryRefines`, `CloneRefines`,
`DeserializeRefines`, `GetCpuidRefines`, `DropRefines`) names the
container step it maps to (`MakeNew`, `Resize`, `Write`, `MakeClone`,
`Load`, `Load`, `Destroy`); error paths and `set_gsi_routing` map to a
stutter (`StutterView`). `FrameView`, `InstallOthers` and `PointView`
say that an update of one wrapper changes the abstract view at that
wrapper alone. `NextRefines` combines them, and `RefinesContainer`
follows by PTL from `InitIInv`, `NextIInv`, `InitRefines` and
`NextRefines`.

`KvmFdsProofs` proves `Spec => []TypeOK` (`TypeCorrect`) for every set
of fds and handles under `FdsAssumption` and `DeviceTestAssumption`,
with or without `KVM_CREATE_DEVICE_TEST` (`InitTypeOK`, `NextTypeOK`:
the type invariant is inductive by itself). With the hypothesis
`TRUE \notin DeviceTest` (`create_device` is never asked for
`KVM_CREATE_DEVICE_TEST`; finding 1 is what happens otherwise) it also
proves:

- `Spec => []OwnershipSound` (`OwnershipSoundHolds`);
- `Spec => []NoLeak` (`NoLeakHolds`).

Here `IInv == TypeOK /\ OwnershipSound /\ NoLeak` is inductive as it
stands once the type invariant is part of it: each constructor either
wraps a fresh fd into a fresh handle or closes it on its error path. The
proof has one lemma per action (and one for the shared failure branch
`Fail`), combined in `NextIInv`.

`KvmCapsProofs` proves `Spec => []CountsPositive`
(`CountsPositiveHolds`), `Spec => []MaxAtLeastNr`
(`MaxAtLeastNrHolds`) and `Spec => []TypeOK` (`TypeCorrect`). These hold
for every set of online CPU counts, every `KVM_MAX_VCPUS >= 4` and every
usize of at least 16 bits that holds the kernel's counts
(`KvmCapsAssumption`). Rust guarantees the 16 bits, and `TypeOK` needs
them: the fallback 32 of `get_nr_memslots` must be a usize. The
properties speak of stored answers, so the strengthening `IInv` says
that the host never changes and that each stored count is what its
getter computes on this host (`NrVcpusOf`, `MemslotsOf`,
`MaxVcpusOf`). Lemmas about the cast (`AsUsizeSmall`,
`AsUsizeMinusOne`, `AsUsizeRange`) and the kernel's answers bound each
computed value; `IInvProperties` derives both properties. `TypeOK` is
inductive by itself, given `CountsAreUsize`.

`IoEventsProofs` proves, under `SizesAssumption` and
`DataValsAssumption`, `Spec => []TypeOK` and
`Spec => []SignalsAsRequested` (`SignalsAsRequestedHolds`), for any sets
of eventfds, address spaces, addresses, sizes and values.
`SignalsAsRequested` is not inductive. The strengthening is
`IInv == TypeOK /\ ioevents = {Reg(q) : q \in requested} /\ NoCollision
/\ irqfds = routed`:

- the kernel's table is exactly the image of the caller's live
  requests;
- no two of its entries collide;
- the irqfd table is the routed set.

The collision-freedom is what makes `unregister_ioevent` sound.
`UnregisterIoeventIInv` picks the entry that deassign removes. It shows
that no other live request matches it, since such a request would have
collided when it was registered. `IoeventfdAssign` and
`IoeventfdDeassign` state what the kernel's check chain does in each
branch. `RegFields`, `CollideSym` and `SignalsReg` are lemmas about
the argument encoding.

`DirtyLogProofs` proves `Spec => []TypeOK` for any callers, and
`~AnySize => (Spec => []BitmapCoversSlot)` (`BitmapCoversSlotHolds`):

- the result holds for every page size and every set of region sizes;
- the hypothesis says that callers pass the slot's own `memory_size`,
  as the doc example does;
- the run `dirty_log_any_size` shows the hypothesis is needed.

The argument is the arithmetic lemma `CoverBound`:
`ceil((n div P) / 64) <= div_round_up(n, P * 64)`. It is proved from
`DivBounds`, `KernelWordsBound`, and the monotonicity and cancellation
lemmas `MulMono` and `MulCancel`. `BitmapCoversSlot` is then inductive
together with `TypeOK`.

`VmIrqProofs` proves, under `VmIrqAssumption`:

- `VmSpec => []ChipAsReported` (`ChipAsReportedHolds`), from
  `IInv == irqchip \in {...} /\ vcpus \in Nat /\ believed = irqchip`,
  with one lemma for `create_irq_chip`, one for `enable_cap` (each split
  on the kernel's EEXIST/EINVAL/success cases) and one frame lemma for
  all other calls;
- `VmSpec => []VmTypeOK` (`TypeCorrect`): every getter returns a value
  of its kernel struct and the caller's belief is one of the three
  modes, whatever the kernel answers. `VmTypeOK` is inductive by
  itself. The success branches of `create_irq_chip` and `enable_cap`
  install the default routes (a subset of `Gsis` by `VmIrqAssumption`)
  or none. Its bound on the vCPU count is the kernel's limit, which
  `create_vcpu` does not check; no run lists it.

`NestedStateProofs` proves three theorems:

- `Spec => []TypeOK` (`TypeCorrect`) and `Spec => EmptyTakesState`
  (`EmptyTakesStateHolds`, the action property), both for every VMCS12
  and VMCB12 size;
- `Spec => []LayoutAsTested` (`LayoutAsTestedHolds`), under the x86
  sizes `VmcsSize = VmcbSize = 4096` that `test_layout` assumes.

The proof rests on the repr(C) layout:

- `Struct`'s field offsets are a recursive function. TLAPS defines it
  as `CHOOSE f : f = [i \in 0..Len(fs) |-> ...]`.
- `StructIs` computes it for structs of at most five fields. An explicit
  offset table `g` satisfies the defining equation, so the `CHOOSE` is
  well defined. Unfolding one field at a time, for five steps and with
  no induction, shows that any solution equals `g`.
- From `StructIs`, `VmxDataIs`, `SvmDataIs`, `NestedDataIs`,
  `RawNestedStateIs` and `BufferIs` give the layouts. In particular
  `KvmNestedStateBuffer` is
  `[size |-> RoundUp(128 + max(2 * VmcsSize, VmcbSize), 8), align |-> 8]`.
- `NeedFits` bounds every size the kernel reports by that size.

The inductive invariant is `TypeOK /\ FreshIsEmpty`. `FreshIsEmpty`
says that a buffer fresh from `empty()`, or still marked empty, holds
`size_of::<Self>()` in its size field. It is needed because
`KVM_GET_NESTED_STATE`'s E2BIG path rewrites the size field but keeps
the contents. The invariant shows that this path never runs on an empty
buffer.

Left to TLC alone:

- `TestsPass`: a liveness property (every test trace reaches its end),
  out of TLAPS's reach;
- the violation runs, which show what fails and need no proof.

Every safety invariant and action property that a passing run checks
is also a theorem.

Out of TLAPS's reach in general: liveness, `ENABLED`, and induction
over data: what a recursive definition computes for every input. The
layout proofs avoid the last by fixing the number of fields.

## 6. Not modelled, and the plan

Left out for good:

- **`DeviceFd::set_device_attr` / `has_device_attr`.** Each is one ioctl
  on a device the model does not describe, with no state in this code.
- **Byte layout of the other bindings and of serde.** Compile-time facts
  the crate's layout tests assert; only the nested-state buffer, whose
  size is a runtime contract with the kernel, is computed here.
- **`get_host_ipa_limit`** (arm64) and **`test_faulty_vm_fd`**: the first
  is not on x86, whose kernel contract the VM model follows; the second
  tests closed-fd errors `KvmFds` already covers.
- **The callers of `KVM_GET_NESTED_STATE`** live in `vcpu.rs`, outside the
  modelled sources; `NestedState` models the kernel's side from its
  contract.

Planned, in this order:

1. A fault model for `VmTests`: a test run against a kernel that may
   fail any call, to check which assertions depend on success.
