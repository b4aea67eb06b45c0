-------------------------- MODULE PlanStatementShow --------------------------
(***************************************************************************)
(* PlanStatementShowComponent: the screen on which the rule declaration of *)
(* a plan is read and signed.  The route may move to another statement     *)
(* while answers are under way, none of them is cancelled, and the button  *)
(* that opens the signature is locked until every panel is expanded.       *)
(***************************************************************************)
EXTENDS Integers, FiniteSets

CONSTANTS
  Statements,     \* plan statements the route can name
  Types,          \* types of incentive, five in the code
  Incentives,     \* panels
  IncentivesOf,   \* the panels of a statement, by type
  Accepts,        \* statements whose actions include accept
  Accepted,       \* statements with an acceptment
  Signed,         \* those whose acceptment has a signature
  MaxRoutes,      \* bound on route changes
  MaxClicks,      \* bound on clicks on panels and on the toggle
  MaxFaults,      \* bound on answers without data and on failures
  None

ASSUME IncentivesOfAssumption == IncentivesOf \in [Statements -> [Types -> SUBSET Incentives]]
ASSUME StatementSetsAssumption ==
  Accepts \subseteq Statements /\ Accepted \subseteq Statements /\ Signed \subseteq Accepted
ASSUME NoneAssumption == None \notin Statements
ASSUME PlanBoundsAssumption == {MaxRoutes, MaxClicks, MaxFaults} \subseteq Nat

VARIABLES
  planStatementId,     \* what the route names
  shouldExpandOnLoad,
  planStatement,       \* what the screen shows
  incentives,          \* dealIncentives .. redemptionIncentives
  expanded,            \* panels whose expanded is true
  loading,
  goalPlans,           \* the statement whose goals are shown
  signature,           \* the statement whose signature the page has
  pending,             \* queries without an answer
  dialog,              \* the signature dialog: what it signs, what was read
  calm,                \* history: since the last route, no answer failed or was left behind
  left                 \* what is left of each bound

planVars == <<planStatementId, shouldExpandOnLoad, planStatement, incentives, expanded, loading,
              goalPlans, signature, pending, dialog, calm, left>>
page == <<planStatement, incentives, expanded, goalPlans, signature>>

Queries == {"planStatement", "goalPlan", "signature"} \X Statements

AllIncentives(s) == UNION {IncentivesOf[s][t] : t \in Types}

panels == UNION {incentives[t] : t \in Types}

allExpanded == panels \subseteq expanded

readyToSign == allExpanded /\ ~loading

\* The page has a place for a signature under an acceptment.
signatureDrawn == IF planStatement \in Accepted THEN signature ELSE None

Use(bound) ==
  /\ left[bound] > 0
  /\ left' = [left EXCEPT ![bound] = @ - 1]

----------------------------------------------------------------------------
(* The route: queryParams and params of ngOnInit, then getPlanStatement.   *)

\* Faulty: a route that shows no spinner.
RouteQuiet(s, expand) ==
  /\ s # planStatementId
  /\ Use("routes")
  /\ planStatementId' = s
  /\ shouldExpandOnLoad' = expand
  /\ pending' = pending \cup {<<"planStatement", s>>}
  /\ calm' = (pending = {})
  /\ UNCHANGED <<loading, page, dialog>>

Route(s, expand) ==
  /\ s # planStatementId
  /\ Use("routes")
  /\ planStatementId' = s
  /\ shouldExpandOnLoad' = expand
  /\ loading' = TRUE
  /\ pending' = pending \cup {<<"planStatement", s>>}
  /\ calm' = (pending = {})
  /\ UNCHANGED <<page, dialog>>

\* The query string alone: no statement is asked for again.
RouteExpands(expand) ==
  /\ expand # shouldExpandOnLoad
  /\ Use("routes")
  /\ shouldExpandOnLoad' = expand
  /\ UNCHANGED <<planStatementId, loading, pending, calm, page, dialog>>

\* Faulty: the panels of a type are assigned once.
AssignFirst(s) == [t \in Types |-> IF incentives[t] = {} THEN IncentivesOf[s][t] ELSE incentives[t]]

\* Only the types the new statement has are assigned.
Assign(s) == [t \in Types |-> IF IncentivesOf[s][t] # {} THEN IncentivesOf[s][t] ELSE incentives[t]]

\* Faulty: the signature of the statement that was on the page.
getSignatureShown(s) == IF planStatement \in Signed THEN {<<"signature", planStatement>>} ELSE {}

getSignature(s) == IF s \in Signed THEN {<<"signature", s>>} ELSE {}

\* Faulty: the spinner stays and every panel opens.
AnsweredSilent(s) ==
  /\ <<"planStatement", s>> \in pending
  /\ planStatement' = s
  /\ incentives' = Assign(s)
  /\ expanded' = expanded \cup AllIncentives(s)
  /\ pending' = (pending \ {<<"planStatement", s>>}) \cup {<<"goalPlan", s>>} \cup getSignature(s)
  /\ UNCHANGED <<planStatementId, shouldExpandOnLoad, loading, goalPlans, signature, dialog, calm, left>>

\* The panels of an answer are new objects, expanded only by expandPanels.
Answered(s) ==
  /\ <<"planStatement", s>> \in pending
  /\ planStatement' = s
  /\ incentives' = Assign(s)
  /\ expanded' = IF shouldExpandOnLoad \/ s \in Accepts
                   THEN expanded \cup panels'
                   ELSE expanded \ AllIncentives(s)
  /\ loading' = FALSE
  /\ pending' = (pending \ {<<"planStatement", s>>}) \cup {<<"goalPlan", s>>} \cup getSignature(s)
  /\ UNCHANGED <<planStatementId, shouldExpandOnLoad, goalPlans, signature, dialog, calm, left>>

\* An answer without data leaves the page that was there, ready for use.
AnsweredEmpty(s) ==
  /\ <<"planStatement", s>> \in pending
  /\ Use("faults")
  /\ loading' = FALSE
  /\ pending' = pending \ {<<"planStatement", s>>}
  /\ calm' = FALSE
  /\ UNCHANGED <<planStatementId, shouldExpandOnLoad, page, dialog>>

GoalsAnswered(s) ==
  /\ <<"goalPlan", s>> \in pending
  /\ goalPlans' = s
  /\ pending' = pending \ {<<"goalPlan", s>>}
  /\ UNCHANGED <<planStatementId, shouldExpandOnLoad, planStatement, incentives, expanded, loading,
                 signature, dialog, calm, left>>

\* Goals without data: the answer looked at is that of the statement.
GoalsAnsweredEmpty(s) ==
  /\ <<"goalPlan", s>> \in pending
  /\ Use("faults")
  /\ goalPlans' = None
  /\ pending' = pending \ {<<"goalPlan", s>>}
  /\ calm' = FALSE
  /\ UNCHANGED <<planStatementId, shouldExpandOnLoad, planStatement, incentives, expanded, loading,
                 signature, dialog>>

SignatureAnswered(s) ==
  /\ <<"signature", s>> \in pending
  /\ signature' = s
  /\ pending' = pending \ {<<"signature", s>>}
  /\ UNCHANGED <<planStatementId, shouldExpandOnLoad, planStatement, incentives, expanded, loading,
                 goalPlans, dialog, calm, left>>

\* No query has an error handler: the spinner of a statement stays.
QueryFails(q) ==
  /\ Use("faults")
  /\ pending' = pending \ {q}
  /\ calm' = FALSE
  /\ UNCHANGED <<planStatementId, shouldExpandOnLoad, page, loading, dialog>>

----------------------------------------------------------------------------
(* The reader, while the spinner and the dialog are not in the way.        *)

Reading == ~loading /\ dialog = None

ClickPanel(p) ==
  /\ Reading
  /\ p \in panels
  /\ Use("clicks")
  /\ expanded' = IF p \in expanded THEN expanded \ {p} ELSE expanded \cup {p}
  /\ UNCHANGED <<planStatementId, shouldExpandOnLoad, planStatement, incentives, loading,
                 goalPlans, signature, pending, dialog, calm>>

togglePanels ==
  /\ Reading
  /\ Use("clicks")
  /\ expanded' = IF allExpanded THEN expanded \ panels ELSE expanded \cup panels
  /\ UNCHANGED <<planStatementId, shouldExpandOnLoad, planStatement, incentives, loading,
                 goalPlans, signature, pending, dialog, calm>>

\* Faulty: whoever reads may sign.
openSignatureDialogAnyone ==
  /\ Reading
  /\ readyToSign
  /\ dialog' = [signs |-> planStatementId, shown |-> planStatement,
                read |-> panels \cap expanded, calm |-> calm]
  /\ UNCHANGED <<planStatementId, shouldExpandOnLoad, page, loading, pending, calm, left>>

\* The dialog is handed what the route names, not what the page shows.
openSignatureDialog ==
  /\ Reading
  /\ planStatement \in Accepts
  /\ readyToSign
  /\ dialog' = [signs |-> planStatementId, shown |-> planStatement,
                read |-> panels \cap expanded, calm |-> calm]
  /\ UNCHANGED <<planStatementId, shouldExpandOnLoad, page, loading, pending, calm, left>>

CloseDialog ==
  /\ dialog # None
  /\ dialog' = None
  /\ UNCHANGED <<planStatementId, shouldExpandOnLoad, page, loading, pending, calm, left>>

----------------------------------------------------------------------------
PlanBounds == [routes |-> MaxRoutes, clicks |-> MaxClicks, faults |-> MaxFaults]

PlanInit ==
  /\ planStatementId \in Statements
  /\ shouldExpandOnLoad \in BOOLEAN
  /\ planStatement = None
  /\ incentives = [t \in Types |-> {}]
  /\ expanded = {}
  /\ loading = TRUE
  /\ goalPlans = None
  /\ signature = None
  /\ pending = {<<"planStatement", planStatementId>>}
  /\ dialog = None
  /\ calm = TRUE
  /\ left = PlanBounds

PlanAnswers == \E s \in Statements : Answered(s) \/ GoalsAnswered(s) \/ SignatureAnswered(s)

PlanNext ==
  \/ \E s \in Statements, expand \in BOOLEAN : Route(s, expand)
  \/ \E expand \in BOOLEAN : RouteExpands(expand)
  \/ PlanAnswers
  \/ \E s \in Statements : AnsweredEmpty(s) \/ GoalsAnsweredEmpty(s)
  \/ \E q \in pending : QueryFails(q)
  \/ \E p \in Incentives : ClickPanel(p)
  \/ togglePanels
  \/ openSignatureDialog
  \/ CloseDialog

PlanSpec == PlanInit /\ [][PlanNext]_planVars

\* Every query is answered, or fails.
PlanFairness == WF_planVars(PlanAnswers)

----------------------------------------------------------------------------
Dialogs == [signs : Statements, shown : Statements, read : SUBSET Incentives, calm : BOOLEAN]

PlanTypeOK ==
  /\ planStatementId \in Statements
  /\ shouldExpandOnLoad \in BOOLEAN
  /\ planStatement \in Statements \cup {None}
  /\ incentives \in [Types -> SUBSET Incentives]
  /\ expanded \subseteq Incentives
  /\ loading \in BOOLEAN
  /\ goalPlans \in Statements \cup {None}
  /\ signature \in Statements \cup {None}
  /\ pending \subseteq Queries
  /\ dialog \in Dialogs \cup {None}
  /\ calm \in BOOLEAN
  /\ left \in [DOMAIN PlanBounds -> Nat]

\* Whoever opens the signature of the statement the page shows has every one
\* of its panels expanded, in whatever order answers, routes and clicks came.
ShownIsReviewed ==
  dialog # None /\ dialog.signs = dialog.shown => AllIncentives(dialog.signs) \subseteq dialog.read

\* When no answer failed or was left behind by the route, what is signed is
\* what the page shows.
CalmSignsShown == dialog # None /\ dialog.calm => dialog.signs = dialog.shown

\* And once every answer is in, the goals on the page are those of its
\* statement, and so is the signature drawn; only under a statement accepted
\* without one may the signature of a former statement still be drawn.
CalmPageSettles ==
  calm /\ pending = {} =>
    /\ planStatement = planStatementId
    /\ goalPlans = planStatementId
    /\ \/ signatureDrawn = IF planStatementId \in Signed THEN planStatementId ELSE None
       \/ planStatementId \in Accepted \ Signed

\* A statement the route stays on appears, unless an answer failed.
StatementAppears ==
  \A s \in Statements :
    planStatementId = s ~> ((planStatement = s /\ ~loading) \/ planStatementId # s \/ ~calm)

\* CHANGELOG: "Full content review required before signing a declaration".
FullReviewBeforeSigning ==
  dialog # None => AllIncentives(dialog.signs) \subseteq dialog.read
=============================================================================
