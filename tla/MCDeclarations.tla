--------------------------- MODULE MCDeclarations ---------------------------
(***************************************************************************)
(* Two plan statements that can be accepted, one without incentives of a   *)
(* type the other has, and two accepted ones, with and without signature;  *)
(* a paged list of panels, a paged list without panels, the rankings and   *)
(* the collaborative deals.                                                *)
(***************************************************************************)
EXTENDS Declarations

MCStatements == {"plan1", "plan2", "plan3", "plan4"}
MCIncentivesOf ==
  [s \in MCStatements |->
    CASE s = "plan1" -> [deal |-> {"d1"}, ranking |-> {"r1"}]
      [] s = "plan2" -> [deal |-> {"d2"}, ranking |-> {}]
      [] s = "plan3" -> [deal |-> {}, ranking |-> {"r3"}]
      [] s = "plan4" -> [deal |-> {"d4"}, ranking |-> {}]]

MCRowCounts ==
  [dealCommissionings |-> {0, 3, 4}, accumulatedDeals |-> {0, 3},
   rankings |-> {1}, collaborativeDealCommissionings |-> {1}]
=============================================================================
