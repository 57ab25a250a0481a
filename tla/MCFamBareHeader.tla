--------------------------- MODULE MCFamBareHeader ---------------------------
(* The instance of MCFamWrapper, with the bare kvm_irq_routing values a   *)
(* caller may also hand to set_gsi_routing.                                *)
EXTENDS MCFamWrapper, FamBareHeader
=============================================================================
