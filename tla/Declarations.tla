---------------------------- MODULE Declarations ----------------------------
(***************************************************************************)
(* The two declarations somebody signs: that of the rule, read on the plan *)
(* statement screen, and that of the result, read on the statement screen. *)
(* One application shows one of them; the two screens are independent      *)
(* implementations of the same lock and share no state.                    *)
(***************************************************************************)
EXTENDS PlanStatementShow, StatementShow

VARIABLE screen

vars == <<screen, planVars, resultVars>>

ResultUnopened ==
  /\ ResultInit
  /\ total = CHOOSE f \in Totals : TRUE
  /\ ~accepts /\ ~goesOn /\ ~spins /\ ~reviewing

PlanUnopened ==
  /\ PlanInit
  /\ planStatementId = CHOOSE s \in Statements : TRUE
  /\ ~shouldExpandOnLoad

Init ==
  \/ screen = "rule" /\ PlanInit /\ ResultUnopened
  \/ screen = "result" /\ PlanUnopened /\ ResultInit

Next ==
  /\ UNCHANGED screen
  /\ \/ screen = "rule" /\ PlanNext /\ UNCHANGED resultVars
     \/ screen = "result" /\ ResultNext /\ UNCHANGED planVars

Spec == Init /\ [][Next]_vars

FairSpec ==
  /\ Spec
  /\ screen = "rule" => PlanFairness
  /\ screen = "result" => ResultFairness

\* Both screens are well typed, also when one of them is never opened.
TypeOK == PlanTypeOK /\ ResultTypeOK

\* On the rule screen the statement the route stays on appears.
RuleAppears == screen = "rule" => StatementAppears

\* On the result screen a statement under review unlocks.
ResultUnlocks == screen = "result" => UnderReviewUnlocks

\* Neither declaration keeps its reader waiting for ever.
GoesOn == RuleAppears /\ ResultUnlocks
=============================================================================
