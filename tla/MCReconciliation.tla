-------------------------- MODULE MCReconciliation --------------------------
(***************************************************************************)
(* The reconciliation on the small company of module Company.              *)
(***************************************************************************)
EXTENDS Reconciliation, Company

\* What the theorems on counting suppose of a company, this one has.
ASSUME CountingSupposes == MetricsApart /\ NoCarrierHoldsMirrors
=============================================================================
