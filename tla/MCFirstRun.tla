----------------------------- MODULE MCFirstRun -----------------------------
(***************************************************************************)
(* The first run of the plans of a small company.                          *)
(***************************************************************************)
EXTENDS FirstRun, Company

\* What the theorem on the projected batch supposes of a company, this one has.
ASSUME BatchSupposes == MetricsApart
=============================================================================
