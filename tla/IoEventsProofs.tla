---------------------------- MODULE IoEventsProofs ----------------------------
(***************************************************************************)
(* Proofs, for any sets of eventfds, addresses, datamatch sizes and values *)
(* and gsis, that register_ioevent, unregister_ioevent, register_irqfd and *)
(* unregister_irqfd keep the kernel's tables what the caller was told:    *)
(* each guest write signals exactly the eventfds the caller registered.   *)
(***************************************************************************)
EXTENDS IoEvents, TLAPS


(* The table entry the kernel holds for a registration the caller made. *)
Reg(q) == EntryOf(RegisterArgs(q.fd, q.space, q.addr, q.size, q.val))

(* No two entries of the kernel's table collide: KVM_IOEVENTFD assign     *)
(* refuses one that would.                                                 *)
NoCollision == \A p, r \in ioevents : p # r => ~Collide(p, r)

(* The inductive invariant: the ioeventfd table is the image of what the  *)
(* caller believes registered, its entries do not collide, and the irqfd  *)
(* table is what the caller routed.                                        *)
IInv ==
  /\ TypeOK
  /\ ioevents = {Reg(q) : q \in requested}
  /\ NoCollision
  /\ irqfds = routed

-----------------------------------------------------------------------------
(* A datamatch size is one of the lengths KVM_IOEVENTFD accepts. *)
LEMMA SizeValid == ASSUME NEW s \in Sizes PROVE s \in {0, 1, 2, 4, 8}
BY SizesAssumption

(* The entry of a request: its length is the datamatch size, it is a      *)
(* wildcard exactly when the size is 0, and then its datamatch is 0.       *)
LEMMA RegFields ==
  ASSUME NEW q \in Request
  PROVE  /\ Reg(q) \in Entry
         /\ Reg(q).fd = q.fd /\ Reg(q).pio = (q.space = "pio") /\ Reg(q).addr = q.addr
         /\ Reg(q).len = q.size /\ Reg(q).wildcard = (q.size = 0)
         /\ Reg(q).datamatch = IF q.size > 0 THEN q.val ELSE 0
<1>1. q.size \in Sizes /\ q.val \in DataVals /\ q.fd \in EventFds /\ q.addr \in Addrs
  BY DEF Request
<1>2. q.size \in {0, 1, 2, 4, 8}
  BY <1>1, SizeValid
<1>3. Reg(q) = [fd |-> q.fd, pio |-> q.space = "pio", addr |-> q.addr, len |-> q.size,
                wildcard |-> ~(q.size > 0), datamatch |-> IF q.size > 0 THEN q.val ELSE 0]
  BY Zenon DEF Reg, EntryOf, RegisterArgs
<1>4. ~(q.size > 0) <=> (q.size = 0)
  BY <1>2
<1>5. Reg(q) \in Entry
  BY <1>1, <1>3, DataValsAssumption DEF Entry
<1> QED
  BY <1>3, <1>4, <1>5

(* Collision is symmetric. *)
LEMMA CollideSym == \A p, r : Collide(p, r) <=> Collide(r, p)
BY DEF Collide

(* A table entry made by register_ioevent signals exactly the writes the  *)
(* caller meant by its request.                                           *)
LEMMA SignalsReg ==
  ASSUME NEW q \in Request, NEW w \in Writes
  PROVE  Signals(Reg(q), w) <=> Intended(q, w)
<1>1. w.space \in Spaces /\ q.space \in Spaces /\ w.size \in Sizes \ {0}
  BY DEF Writes, Request
<1>2. w.size # 0 /\ (q.size = 0 \/ q.size > 0)
  BY <1>1, SizeValid DEF Request
<1>3. ((q.space = "pio") = (w.space = "pio")) <=> q.space = w.space
  BY <1>1 DEF Spaces
<1> QED
  BY <1>2, <1>3, RegFields DEF Signals, Intended

(* KVM_IOEVENTFD assign of a valid request: EEXIST on a collision, else *)
(* the entry is added.                                                    *)
LEMMA IoeventfdAssign ==
  ASSUME NEW a, ~(a.len \notin {0, 1, 2, 4, 8} \/ (a.len = 0 /\ a.datamatchFlag)), ~a.deassign
  PROVE  Ioeventfd(a) <=>
           IF \E p \in ioevents : Collide(p, EntryOf(a))
             THEN lastErr' = "EEXIST" /\ UNCHANGED ioevents
             ELSE ioevents' = ioevents \cup {EntryOf(a)} /\ lastErr' = "Ok"
BY DEF Ioeventfd

(* KVM_IOEVENTFD deassign: ENOENT when no entry matches exactly, else the *)
(* matching entries are removed.                                          *)
LEMMA IoeventfdDeassign ==
  ASSUME NEW a, ~(a.len \notin {0, 1, 2, 4, 8} \/ (a.len = 0 /\ a.datamatchFlag)), a.deassign
  PROVE  Ioeventfd(a) <=>
           IF ~\E p \in ioevents : DeassignMatches(a, p)
             THEN lastErr' = "ENOENT" /\ UNCHANGED ioevents
             ELSE ioevents' = {p \in ioevents : ~DeassignMatches(a, p)} /\ lastErr' = "Ok"
BY DEF Ioeventfd

-----------------------------------------------------------------------------
(* The initial state satisfies the inductive invariant. *)
LEMMA InitIInv == Init => IInv
BY DEF Init, IInv, TypeOK, NoCollision, Errors

(* register_ioevent: EEXIST when the new entry collides with one in the   *)
(* table, and nothing changes; otherwise both the table and the caller's  *)
(* view gain the registration.                                            *)
LEMMA RegisterIoeventIInv ==
  ASSUME IInv, NEW fd \in EventFds, NEW space \in Spaces, NEW addr \in Addrs,
         NEW size \in Sizes, NEW val \in DataVals,
         RegisterIoevent(fd, space, addr, size, val)
  PROVE  IInv'
<1> DEFINE q == [fd |-> fd, space |-> space, addr |-> addr, size |-> size, val |-> val]
           a == RegisterArgs(fd, space, addr, size, val)
<1>1. q \in Request /\ EntryOf(a) = Reg(q)
  <2>1. q \in Request
    BY DEF Request
  <2>2. EntryOf(a) = Reg(q)
    BY Zenon DEF Reg
  <2> QED
    BY <2>1, <2>2
<1>2. ~(a.len \notin {0, 1, 2, 4, 8} \/ (a.len = 0 /\ a.datamatchFlag)) /\ ~a.deassign
  <2>1. a.len = size /\ (a.datamatchFlag <=> size > 0) /\ ~a.deassign
    BY Zenon DEF RegisterArgs
  <2>2. size \in {0, 1, 2, 4, 8} /\ (size = 0 => ~(size > 0))
    BY SizeValid
  <2> QED
    BY <2>1, <2>2, Zenon
<1>3. CASE \E p \in ioevents : Collide(p, Reg(q))
  <2>1. lastErr' = "EEXIST" /\ UNCHANGED ioevents
    BY <1>1, <1>2, <1>3, IoeventfdAssign DEF RegisterIoevent
  <2> QED
    BY <2>1 DEF RegisterIoevent, IInv, TypeOK, NoCollision, Errors
<1>4. CASE ~\E p \in ioevents : Collide(p, Reg(q))
  <2>1. ioevents' = ioevents \cup {Reg(q)} /\ lastErr' = "Ok"
    BY <1>1, <1>2, <1>4, IoeventfdAssign DEF RegisterIoevent
  <2>2. requested' = requested \cup {q} /\ UNCHANGED <<irqfds, routed>>
    BY <2>1 DEF RegisterIoevent
  <2>3. NoCollision'
    BY <2>1, <1>4, CollideSym DEF IInv, NoCollision
  <2> QED
    BY <1>1, <2>1, <2>2, <2>3, RegFields DEF IInv, TypeOK, Errors
<1> QED
  BY <1>3, <1>4

(* unregister_ioevent: ENOENT unless a NoDatamatch entry of the eventfd   *)
(* is at the address; when one is, no other entry is (they would collide) *)
(* and both the table and the caller's view lose exactly that one.         *)
LEMMA UnregisterIoeventIInv ==
  ASSUME IInv, NEW fd \in EventFds, NEW space \in Spaces, NEW addr \in Addrs,
         UnregisterIoevent(fd, space, addr)
  PROVE  IInv'
<1> DEFINE a == UnregisterArgs(fd, space, addr)
           Match(q) == q.fd = fd /\ q.space = space /\ q.addr = addr
<1>1. ~(a.len \notin {0, 1, 2, 4, 8} \/ (a.len = 0 /\ a.datamatchFlag)) /\ a.deassign
  BY DEF UnregisterArgs
<1>2. CASE ~\E p \in ioevents : DeassignMatches(a, p)
  <2>1. lastErr' = "ENOENT" /\ UNCHANGED ioevents
    BY <1>1, <1>2, IoeventfdDeassign DEF UnregisterIoevent
  <2> QED
    BY <2>1 DEF UnregisterIoevent, IInv, TypeOK, NoCollision, Errors
<1>3. CASE \E p \in ioevents : DeassignMatches(a, p)
  <2>1. ioevents' = {p \in ioevents : ~DeassignMatches(a, p)} /\ lastErr' = "Ok"
    BY <1>1, <1>3, IoeventfdDeassign DEF UnregisterIoevent
  <2>2. requested' = {q \in requested : ~Match(q)} /\ UNCHANGED <<irqfds, routed>>
    BY <2>1 DEF UnregisterIoevent
  <2>3. PICK p0 \in ioevents : DeassignMatches(a, p0)
    BY <1>3
  <2>4. \A q \in requested : DeassignMatches(a, Reg(q)) <=> Match(q)
    <3> SUFFICES ASSUME NEW q \in requested PROVE DeassignMatches(a, Reg(q)) <=> Match(q)
      OBVIOUS
    <3>1. q \in Request /\ Reg(q) \in ioevents
      BY DEF IInv, TypeOK
    <3>2. p0.len = 0 /\ p0.pio = (space = "pio") /\ p0.addr = addr
      BY <2>3 DEF DeassignMatches, UnregisterArgs
    <3>3. Match(q) => q.size = 0
      <4> SUFFICES ASSUME Match(q), q.size # 0 PROVE FALSE
        OBVIOUS
      <4>1. Collide(p0, Reg(q)) /\ p0 # Reg(q)
        BY <3>1, <3>2, RegFields DEF Collide
      <4> QED
        BY <4>1, <3>1 DEF IInv, NoCollision
    <3>4. q.space \in Spaces
      BY <3>1 DEF Request
    <3> QED
      BY <3>1, <3>3, <3>4, RegFields DEF DeassignMatches, UnregisterArgs, Spaces
  <2>5. ioevents' = {Reg(q) : q \in requested'}
    BY <2>1, <2>2, <2>4 DEF IInv
  <2> QED
    BY <2>1, <2>2, <2>5 DEF IInv, TypeOK, NoCollision, Errors
<1> QED
  BY <1>2, <1>3

(* register_irqfd and unregister_irqfd change the irqfd table and the     *)
(* caller's view alike: EBUSY changes neither.                            *)
LEMMA IrqfdIInv ==
  ASSUME IInv, NEW fd \in EventFds, NEW gsi \in Gsis,
         RegisterIrqfd(fd, gsi) \/ UnregisterIrqfd(fd, gsi)
  PROVE  IInv'
<1>1. CASE RegisterIrqfd(fd, gsi)
  BY <1>1 DEF RegisterIrqfd, Irqfd, IInv, TypeOK, NoCollision, Errors
<1>2. CASE UnregisterIrqfd(fd, gsi)
  BY <1>2 DEF UnregisterIrqfd, Irqfd, IInv, TypeOK, NoCollision, Errors
<1> QED
  BY <1>1, <1>2

(* Every step keeps the inductive invariant. *)
LEMMA NextIInv == IInv /\ [Next]_vars => IInv'
<1> SUFFICES ASSUME IInv, [Next]_vars PROVE IInv'
  OBVIOUS
<1>1. CASE Next
  BY <1>1, RegisterIoeventIInv, UnregisterIoeventIInv, IrqfdIInv DEF Next
<1>2. CASE UNCHANGED vars
  BY <1>2 DEF vars, IInv, TypeOK, NoCollision
<1> QED
  BY <1>1, <1>2

(* The inductive invariant gives the property. *)
LEMMA IInvSignals == IInv => SignalsAsRequested
<1> SUFFICES ASSUME IInv, NEW w \in Writes, NEW fd \in EventFds
             PROVE  (\E p \in ioevents : p.fd = fd /\ Signals(p, w))
                      <=> (\E q \in requested : q.fd = fd /\ Intended(q, w))
  BY DEF IInv, SignalsAsRequested
<1>1. \A q \in requested : q \in Request
  BY DEF IInv, TypeOK
<1> QED
  BY <1>1, SignalsReg, RegFields DEF IInv

-----------------------------------------------------------------------------
(* Every reachable state is well typed. *)
THEOREM TypeCorrect == Spec => []TypeOK
BY InitIInv, NextIInv, PTL DEF Spec, IInv

(* After any sequence of register and unregister calls, each guest write  *)
(* signals exactly the eventfds the caller registered and was told        *)
(* succeeded, and the irqfd table is what the caller routed.              *)
THEOREM SignalsAsRequestedHolds == Spec => []SignalsAsRequested
BY InitIInv, NextIInv, IInvSignals, PTL DEF Spec

=============================================================================
