------------------------------ MODULE Company ------------------------------
(***************************************************************************)
(* Values for the constants of DealBase: a small company.  The Executivo   *)
(* leads two sellers and may lose one; the Gerente stands above the        *)
(* Executivo.  The model-checking modules share it.                        *)
(***************************************************************************)
EXTENDS DealBase

MCUsers == {"gerente", "executivo", "lider", "ana", "bia"}

\* One or two sales, of two sellers.
MCSellerOf == [o \in Originals |-> IF o = "sale1" THEN "ana" ELSE "bia"]

\* installed and corrected are two values of a sale the metric of "instaladas"
\* selects, mobile one the metric of "movel" does.
\* late is an installed sale dated in the next competence.
MCPeriodOf == [c \in Contents |-> IF c = "late" THEN "ago" ELSE "jul"]
MCSelects == [v \in Variables |->
  Contents \cap IF v = "movel" THEN {"mobile"}
                ELSE {"installed", "corrected", "late"}]

MCParticipants == [p \in Plans |-> IF p = "gerentes" THEN {"gerente"}
                                                     ELSE {"executivo"}]
MCPlanVariables == [p \in Plans |-> Variables]

\* The subtrees when the Executivo leads the given team and the PAP leader,
\* who reports to the Executivo, the given part of it.
Seats(team, pap) ==
  [u \in MCUsers |-> CASE u = "gerente" -> {"gerente", "executivo", "lider"} \cup team
                       [] u = "executivo" -> {"executivo", "lider"} \cup team
                       [] u = "lider" -> {"lider"} \cup pap
                       [] OTHER -> {u}]
MCHierarchies == {Seats({"ana", "bia"}, {}), Seats({"ana"}, {})}
MCPapHierarchies == {Seats({"ana", "bia"}, {"ana"}), Seats({"ana", "bia"}, {"bia"})}
MCFixedHierarchy == {Seats({"ana", "bia"}, {})}

MCCarrierRows == {<<"instaladas", "bia", "jul">>}
MCPathRows == {<<"movel", "ana", "jul">>, <<"instaladas", "executivo", "jul">>}
MCPap == {<<"executivos", "instaladas">>}
MCTooLong == {<<"sale2", "executivo">>}
MCNone == {}
=============================================================================
