-------------------------- MODULE VmResourceClaims --------------------------
(***************************************************************************)
(* What a comment says of hyperv_vm and the code does not keep, stated as  *)
(* a property.  A run refutes it.                                          *)
(***************************************************************************)
EXTENDS VmResource

\* Create's comment: "An attach failure leaves the VM partially configured;
\* the next plan reconciles rather than rolling back."  So no plan creates
\* the VM again while one with some of its devices is there.
NextPlanReconciles ==
    step = "new" /\ vm # NoVm => \A p \in Places : vm.at[p] = Empty

=============================================================================
