----------------------------- MODULE MCRemoval -----------------------------
(***************************************************************************)
(* Removing and restoring the mirrors of one plan of a small company.      *)
(***************************************************************************)
EXTENDS Removal, Company

\* Rows of both variables of the plan; the sellers carry one each.
MCSellerRows == {<<"instaladas", "bia", "jul">>, <<"movel", "ana", "jul">>}

\* What the theorem on the cleanup supposes of a company, this one has.
ASSUME CleanupSupposes == SubtreesNest
=============================================================================
