------------------------------ MODULE IoEvents ------------------------------
(***************************************************************************)
(* VmFd::register_ioevent / unregister_ioevent and register_irqfd /        *)
(* unregister_irqfd (src/src/ioctls/vm.rs).  Each builds a kvm_ioeventfd   *)
(* or kvm_irqfd from its arguments and issues one ioctl; the kernel keeps  *)
(* the tables.  The kernel side is the KVM_IOEVENTFD / KVM_IRQFD contract: *)
(* assign rejects a registration that collides with one in the table,      *)
(* deassign removes the entry that matches fd, bus, address, length and    *)
(* datamatch exactly, and irqfd deassign succeeds whether or not anything  *)
(* matched.  Two ghost variables record what the caller asked for and was  *)
(* told succeeded, so that the tables can be compared with it.             *)
(***************************************************************************)
EXTENDS Naturals

CONSTANTS
  EventFds,   \* the caller's EventFds
  Addrs,      \* guest addresses, in either space
  Sizes,      \* size_of::<T>() of the datamatch types used (0 for NoDatamatch)
  DataVals,   \* datamatch values
  Gsis        \* interrupt lines

ASSUME SizesAssumption == Sizes \subseteq {0, 1, 2, 4, 8}
ASSUME DataValsAssumption == 0 \in DataVals

VARIABLES
  ioevents,   \* the kernel's ioeventfd table: a set of registrations
  irqfds,     \* the kernel's irqfd table: a set of [fd, gsi]
  requested,  \* ghost: the ioevents the caller registered and has not unregistered
  routed,     \* ghost: the irqfds the caller registered and has not unregistered
  lastErr     \* the Result of the last call

vars == <<ioevents, irqfds, requested, routed, lastErr>>

Spaces == {"pio", "mmio"}
Errors == {"Ok", "EINVAL", "EEXIST", "ENOENT", "EBUSY", "ENXIO"}

(* An entry of the kernel's table (struct _ioeventfd). *)
Entry == [fd : EventFds, pio : BOOLEAN, addr : Addrs, len : Sizes,
          wildcard : BOOLEAN, datamatch : DataVals]

(* A request as the caller states it: size 0 means NoDatamatch. *)
Request == [fd : EventFds, space : Spaces, addr : Addrs, size : Sizes, val : DataVals]

TypeOK ==
  /\ ioevents \subseteq Entry
  /\ irqfds \subseteq [fd : EventFds, gsi : Gsis]
  /\ requested \subseteq Request
  /\ routed \subseteq [fd : EventFds, gsi : Gsis]
  /\ lastErr \in Errors

Init ==
  /\ ioevents = {}
  /\ irqfds = {}
  /\ requested = {}
  /\ routed = {}
  /\ lastErr = "Ok"

-----------------------------------------------------------------------------
(* The kernel's KVM_IOEVENTFD.                                             *)

EntryOf(a) ==
  [fd |-> a.fd, pio |-> a.pio, addr |-> a.addr, len |-> a.len,
   wildcard |-> ~a.datamatchFlag,
   datamatch |-> IF a.datamatchFlag THEN a.datamatch ELSE 0]

(* ioeventfd_check_collision: same bus and address, and either length 0, *)
(* or equal lengths with overlapping datamatch.                            *)
Collide(p, q) ==
  /\ p.pio = q.pio /\ p.addr = q.addr
  /\ \/ p.len = 0 \/ q.len = 0
     \/ p.len = q.len /\ (p.wildcard \/ q.wildcard \/ p.datamatch = q.datamatch)

(* kvm_deassign_ioeventfd_idx: the entry must match exactly. *)
DeassignMatches(a, p) ==
  /\ p.fd = a.fd /\ p.pio = a.pio /\ p.addr = a.addr /\ p.len = a.len
  /\ p.wildcard = ~a.datamatchFlag
  /\ p.wildcard \/ p.datamatch = a.datamatch

(* kvm_ioeventfd: the checks in the kernel's order, each an early return. *)
Ioeventfd(a) ==
  IF a.len \notin {0, 1, 2, 4, 8} \/ (a.len = 0 /\ a.datamatchFlag)
    THEN lastErr' = "EINVAL" /\ UNCHANGED ioevents
  ELSE IF ~a.deassign
    THEN IF \E p \in ioevents : Collide(p, EntryOf(a))
           THEN lastErr' = "EEXIST" /\ UNCHANGED ioevents
           ELSE ioevents' = ioevents \cup {EntryOf(a)} /\ lastErr' = "Ok"
  ELSE IF ~\E p \in ioevents : DeassignMatches(a, p)
    THEN lastErr' = "ENOENT" /\ UNCHANGED ioevents
    ELSE ioevents' = {p \in ioevents : ~DeassignMatches(a, p)} /\ lastErr' = "Ok"

-----------------------------------------------------------------------------
(* Mutant: register_ioevent that gives len in bits, not bytes. *)
RegisterArgsBits(fd, space, addr, size, val) ==
  [fd |-> fd, pio |-> space = "pio", addr |-> addr, len |-> 8 * size,
   datamatchFlag |-> size > 0, datamatch |-> val, deassign |-> FALSE]

(* Mutant: register_ioevent that forgets the PIO flag for a Pio address. *)
RegisterArgsNoPio(fd, space, addr, size, val) ==
  [fd |-> fd, pio |-> FALSE, addr |-> addr, len |-> size,
   datamatchFlag |-> size > 0, datamatch |-> val, deassign |-> FALSE]

(* The kvm_ioeventfd register_ioevent(fd, addr, datamatch: T) builds: the  *)
(* DATAMATCH flag when size_of::<T>() > 0, the PIO flag for a Pio address, *)
(* len = size_of::<T>().                                                   *)
RegisterArgs(fd, space, addr, size, val) ==
  [fd |-> fd, pio |-> space = "pio", addr |-> addr, len |-> size,
   datamatchFlag |-> size > 0, datamatch |-> val, deassign |-> FALSE]

(* The kvm_ioeventfd unregister_ioevent(fd, addr) builds: the DEASSIGN     *)
(* flag, the PIO flag for a Pio address, everything else Default (len 0,   *)
(* no DATAMATCH flag, datamatch 0).                                        *)
UnregisterArgs(fd, space, addr) ==
  [fd |-> fd, pio |-> space = "pio", addr |-> addr, len |-> 0,
   datamatchFlag |-> FALSE, datamatch |-> 0, deassign |-> TRUE]

(* VmFd::register_ioevent: Ok when the ioctl returns 0. *)
RegisterIoevent(fd, space, addr, size, val) ==
  /\ Ioeventfd(RegisterArgs(fd, space, addr, size, val))
  /\ requested' = IF lastErr' = "Ok"
                    THEN requested \cup {[fd |-> fd, space |-> space, addr |-> addr,
                                          size |-> size, val |-> val]}
                    ELSE requested
  /\ UNCHANGED <<irqfds, routed>>

(* VmFd::unregister_ioevent: on Ok the caller takes its registration of fd *)
(* at addr to be gone.                                                     *)
UnregisterIoevent(fd, space, addr) ==
  /\ Ioeventfd(UnregisterArgs(fd, space, addr))
  /\ requested' = IF lastErr' = "Ok"
                    THEN {q \in requested : ~(q.fd = fd /\ q.space = space /\ q.addr = addr)}
                    ELSE requested
  /\ UNCHANGED <<irqfds, routed>>

-----------------------------------------------------------------------------
(* The kernel's KVM_IRQFD: assign fails with EBUSY when the eventfd is     *)
(* already routed to any gsi; deassign removes the matching route and      *)
(* returns 0 whether or not one existed.                                   *)
Irqfd(fd, gsi, deassign) ==
  IF deassign
    THEN /\ irqfds' = irqfds \ {[fd |-> fd, gsi |-> gsi]}
         /\ lastErr' = "Ok"
    ELSE IF \E e \in irqfds : e.fd = fd
           THEN lastErr' = "EBUSY" /\ UNCHANGED irqfds
           ELSE irqfds' = irqfds \cup {[fd |-> fd, gsi |-> gsi]} /\ lastErr' = "Ok"

(* VmFd::register_irqfd(fd, gsi): a kvm_irqfd with no flags. *)
RegisterIrqfd(fd, gsi) ==
  /\ Irqfd(fd, gsi, FALSE)
  /\ routed' = IF lastErr' = "Ok" THEN routed \cup {[fd |-> fd, gsi |-> gsi]} ELSE routed
  /\ UNCHANGED <<ioevents, requested>>

(* VmFd::unregister_irqfd(fd, gsi): a kvm_irqfd with KVM_IRQFD_FLAG_DEASSIGN. *)
UnregisterIrqfd(fd, gsi) ==
  /\ Irqfd(fd, gsi, TRUE)
  /\ routed' = IF lastErr' = "Ok" THEN routed \ {[fd |-> fd, gsi |-> gsi]} ELSE routed
  /\ UNCHANGED <<ioevents, requested>>

Next ==
  \E fd \in EventFds :
    \/ \E space \in Spaces, addr \in Addrs :
         \/ \E size \in Sizes, val \in DataVals : RegisterIoevent(fd, space, addr, size, val)
         \/ UnregisterIoevent(fd, space, addr)
    \/ \E gsi \in Gsis : RegisterIrqfd(fd, gsi) \/ UnregisterIrqfd(fd, gsi)

Spec == Init /\ [][Next]_vars

-----------------------------------------------------------------------------
(* Guest writes: a size of 1, 2, 4 or 8 bytes and a value at an address.  *)
Writes == [space : Spaces, addr : Addrs, size : Sizes \ {0}, val : DataVals]

(* ioeventfd_in_range: whether table entry p signals its eventfd on w. *)
Signals(p, w) ==
  /\ p.pio = (w.space = "pio") /\ p.addr = w.addr
  /\ \/ p.len = 0
     \/ p.len = w.size /\ (p.wildcard \/ p.datamatch = w.val)

(* What the caller asked for: any write at addr for NoDatamatch, else a   *)
(* write of size_of::<T>() bytes of the datamatch value.                   *)
Intended(q, w) ==
  /\ q.space = w.space /\ q.addr = w.addr
  /\ q.size = 0 \/ (q.size = w.size /\ q.val = w.val)

(* After any sequence of register and unregister calls, each guest write   *)
(* signals exactly the eventfds whose registrations the caller made, was   *)
(* told succeeded and has not since unregistered, and each eventfd         *)
(* injects exactly the gsis the caller routed it to: the arguments         *)
(* register_ioevent, unregister_ioevent and unregister_irqfd build say     *)
(* what the caller means.                                                  *)
SignalsAsRequested ==
  /\ \A w \in Writes, fd \in EventFds :
       (\E p \in ioevents : p.fd = fd /\ Signals(p, w))
         <=> (\E q \in requested : q.fd = fd /\ Intended(q, w))
  /\ irqfds = routed

(* Every ioevent registered through register_ioevent can be removed again *)
(* through unregister_ioevent with the same eventfd and address: the doc   *)
(* comment of unregister_ioevent says it unregisters an event from an      *)
(* address it was registered to.                                           *)
Unregisterable ==
  \A q \in requested :
    \E p \in ioevents : DeassignMatches(UnregisterArgs(q.fd, q.space, q.addr), p)

=============================================================================
