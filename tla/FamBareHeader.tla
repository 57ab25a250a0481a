---------------------------- MODULE FamBareHeader ----------------------------
(***************************************************************************)
(* The FamStructWrapper lifecycle of FamWrapper, plus the bare header      *)
(* values that VmFd::set_gsi_routing also accepts: it takes a              *)
(* &kvm_irq_routing, and a kvm_irq_routing value by itself, from           *)
(* kvm_irq_routing::default() as the doc example and test_set_gsi_routing  *)
(* build it or from a struct literal (its fields are public), has room for *)
(* no entries whatever its nr field says.  The kernel reads nr entries     *)
(* after the header it is handed; kernelRead records, for the last         *)
(* successful call, how many it read and how many the value held.          *)
(***************************************************************************)
EXTENDS FamWrapper

VARIABLE
  kernelRead   \* [nr, room]: entries the kernel read, entries the routing value held

bareVars == <<vars, kernelRead>>

BareInit == Init /\ kernelRead = [nr |-> 0, room |-> 0]

(* A bare kvm_irq_routing whose nr is n, owned by the caller as w: an      *)
(* allocation of no entries.                                               *)
BareRouting(w, n) ==
  /\ ~live[w]
  /\ Install(w, 0, n, 0, Zeroed(0))
  /\ lastErr' = "Ok"

(* set_gsi_routing(&routing) for the routing value w, a wrapper's header  *)
(* or a bare one: on success the kernel has read nr entries after the     *)
(* header.                                                                 *)
SetGsiRoutingRead(w) ==
  /\ SetGsiRouting(w)
  /\ kernelRead' = IF lastErr' = "Ok" THEN [nr |-> len[w], room |-> cap[w]]
                   ELSE kernelRead

NextWithBare ==
  \/ WrapperNext /\ UNCHANGED kernelRead
  \/ \E w \in Handles : SetGsiRoutingRead(w)
  \/ \E w \in Handles, n \in 0..MaxLen : BareRouting(w, n) /\ UNCHANGED kernelRead

SpecWithBare == BareInit /\ [][NextWithBare]_bareVars

-----------------------------------------------------------------------------
(* set_gsi_routing's SAFETY comment: the kernel reads exactly the size of *)
(* the structure it is handed, never an entry past the routing value.     *)
GsiRoutingReadsWithin == kernelRead.nr <= kernelRead.room

=============================================================================
