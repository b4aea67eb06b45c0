------------------------- MODULE Declarations_proofs -------------------------
(***************************************************************************)
(* Proofs about the two declarations, for any statements, panels, lists    *)
(* and rows and any order of routes, answers, failures, pages and clicks:  *)
(* each screen by itself, then the application that shows one of them.     *)
(***************************************************************************)
EXTENDS Declarations, TLAPS

(* The rule declaration: who signs has read what is shown.                 *)

\* The lists on the page hold every panel of the statement shown: an answer
\* assigns the types it has, and those it has not are in no list of its own.
ShownPanels == planStatement # None => AllIncentives(planStatement) \subseteq panels

\* A dialog was opened over the whole of what the page showed.
DialogRead == dialog # None => AllIncentives(dialog.shown) \subseteq dialog.read

ReviewInv == PlanTypeOK /\ ShownPanels /\ DialogRead

LEMMA PlanBoundsType ==
  /\ DOMAIN PlanBounds = {"routes", "clicks", "faults"}
  /\ PlanBounds \in [DOMAIN PlanBounds -> Nat]
BY PlanBoundsAssumption DEF PlanBounds

LEMMA UseType ==
  ASSUME PlanTypeOK, NEW b \in DOMAIN PlanBounds, Use(b)
  PROVE  left' \in [DOMAIN PlanBounds -> Nat]
BY DEF PlanTypeOK, Use

LEMMA IncentivesType ==
  ASSUME NEW s \in Statements, NEW t \in Types
  PROVE  IncentivesOf[s][t] \subseteq Incentives
BY IncentivesOfAssumption

LEMMA AllIncentivesType ==
  ASSUME NEW s \in Statements
  PROVE  AllIncentives(s) \subseteq Incentives
BY IncentivesType DEF AllIncentives

LEMMA PanelsType == PlanTypeOK => panels \subseteq Incentives
BY DEF PlanTypeOK, panels

LEMMA AssignType ==
  ASSUME PlanTypeOK, NEW s \in Statements
  PROVE  /\ Assign(s) \in [Types -> SUBSET Incentives]
         /\ AllIncentives(s) \subseteq UNION {Assign(s)[t] : t \in Types}
<1>1. Assign(s) \in [Types -> SUBSET Incentives]
  BY IncentivesType DEF Assign, PlanTypeOK
<1>2. ASSUME NEW t \in Types, NEW p \in IncentivesOf[s][t]
      PROVE  p \in Assign(s)[t]
  BY <1>2 DEF Assign
<1> QED
  BY <1>1, <1>2 DEF AllIncentives

LEMMA SignatureQueryType ==
  ASSUME NEW s \in Statements
  PROVE  getSignature(s) \subseteq Queries /\ <<"goalPlan", s>> \in Queries
BY DEF getSignature, Queries

LEMMA InitReview == PlanInit => ReviewInv
<1> SUFFICES ASSUME PlanInit PROVE ReviewInv
  OBVIOUS
<1>1. left \in [DOMAIN PlanBounds -> Nat]
  BY PlanBoundsType DEF PlanInit
<1>2. pending \subseteq Queries
  BY DEF PlanInit, Queries
<1> QED
  BY <1>1, <1>2 DEF PlanInit, ReviewInv, PlanTypeOK, ShownPanels, DialogRead

\* What leaves the page and the dialog alone only has types to keep.
LEMMA PageStays ==
  ASSUME ReviewInv, UNCHANGED <<planStatement, incentives, dialog>>
  PROVE  ShownPanels' /\ DialogRead'
BY DEF ReviewInv, ShownPanels, DialogRead, panels, AllIncentives

LEMMA RouteReview ==
  ASSUME ReviewInv, NEW s \in Statements, NEW expand \in BOOLEAN, Route(s, expand)
  PROVE  ReviewInv'
<1>1. left' \in [DOMAIN PlanBounds -> Nat]
  BY UseType, PlanBoundsType DEF Route, ReviewInv
<1>2. pending' \subseteq Queries
  BY DEF Route, ReviewInv, PlanTypeOK, Queries
<1>3. PlanTypeOK'
  BY <1>1, <1>2 DEF Route, page, ReviewInv, PlanTypeOK
<1> QED
  BY <1>3, PageStays DEF Route, page, ReviewInv

LEMMA RouteExpandsReview ==
  ASSUME ReviewInv, NEW expand \in BOOLEAN, RouteExpands(expand)
  PROVE  ReviewInv'
<1>1. left' \in [DOMAIN PlanBounds -> Nat]
  BY UseType, PlanBoundsType DEF RouteExpands, ReviewInv
<1>2. PlanTypeOK'
  BY <1>1 DEF RouteExpands, page, ReviewInv, PlanTypeOK
<1> QED
  BY <1>2, PageStays DEF RouteExpands, page, ReviewInv

LEMMA AnsweredReview ==
  ASSUME ReviewInv, NEW s \in Statements, Answered(s)
  PROVE  ReviewInv'
<1>1. /\ incentives' \in [Types -> SUBSET Incentives]
      /\ AllIncentives(s) \subseteq panels'
      /\ panels' \subseteq Incentives
  BY AssignType DEF Answered, ReviewInv, panels
<1>2. expanded' \subseteq Incentives
  BY <1>1 DEF Answered, ReviewInv, PlanTypeOK
<1>3. pending' \subseteq Queries
  BY SignatureQueryType DEF Answered, ReviewInv, PlanTypeOK
<1>4. PlanTypeOK'
  BY <1>1, <1>2, <1>3 DEF Answered, ReviewInv, PlanTypeOK
<1>5. ShownPanels'
  BY <1>1 DEF Answered, ShownPanels, AllIncentives
<1>6. DialogRead'
  BY DEF Answered, ReviewInv, DialogRead, AllIncentives
<1> QED
  BY <1>4, <1>5, <1>6 DEF ReviewInv

\* An answer without data, and a query that fails.
LEMMA LostReview ==
  ASSUME ReviewInv,
         \/ \E s \in Statements : AnsweredEmpty(s) \/ GoalsAnsweredEmpty(s)
         \/ \E q \in pending : QueryFails(q)
  PROVE  ReviewInv'
<1>1. left' \in [DOMAIN PlanBounds -> Nat]
  BY UseType, PlanBoundsType DEF AnsweredEmpty, GoalsAnsweredEmpty, QueryFails, ReviewInv
<1>2. PlanTypeOK'
  BY <1>1 DEF AnsweredEmpty, GoalsAnsweredEmpty, QueryFails, page, ReviewInv, PlanTypeOK
<1> QED
  BY <1>2, PageStays DEF AnsweredEmpty, GoalsAnsweredEmpty, QueryFails, page, ReviewInv

LEMMA DetailsReview ==
  ASSUME ReviewInv, NEW s \in Statements, GoalsAnswered(s) \/ SignatureAnswered(s)
  PROVE  ReviewInv'
<1>1. PlanTypeOK'
  BY DEF GoalsAnswered, SignatureAnswered, ReviewInv, PlanTypeOK
<1> QED
  BY <1>1, PageStays DEF GoalsAnswered, SignatureAnswered, ReviewInv

LEMMA ClickReview ==
  ASSUME ReviewInv, (\E p \in Incentives : ClickPanel(p)) \/ togglePanels
  PROVE  ReviewInv'
<1>1. left' \in [DOMAIN PlanBounds -> Nat]
  BY UseType, PlanBoundsType DEF ClickPanel, togglePanels, ReviewInv
<1>2. expanded' \subseteq Incentives
  BY PanelsType DEF ClickPanel, togglePanels, ReviewInv, PlanTypeOK
<1>3. PlanTypeOK'
  BY <1>1, <1>2 DEF ClickPanel, togglePanels, ReviewInv, PlanTypeOK
<1> QED
  BY <1>3, PageStays DEF ClickPanel, togglePanels, ReviewInv

\* The dialog opens over panels that are all expanded, and those are the
\* panels of the statement shown.
LEMMA DialogReview ==
  ASSUME ReviewInv, openSignatureDialog
  PROVE  ReviewInv'
<1>1. planStatement \in Statements /\ planStatement # None
  BY StatementSetsAssumption, NoneAssumption DEF openSignatureDialog
<1>2. panels \subseteq expanded /\ panels \subseteq Incentives
  BY PanelsType DEF openSignatureDialog, readyToSign, allExpanded, ReviewInv
<1>3. dialog' = [signs |-> planStatementId, shown |-> planStatement,
                 read |-> panels \cap expanded, calm |-> calm]
  BY DEF openSignatureDialog
<1>4. dialog' \in Dialogs
  BY <1>1, <1>2, <1>3 DEF Dialogs, ReviewInv, PlanTypeOK
<1>5. AllIncentives(dialog'.shown) \subseteq dialog'.read
  BY <1>1, <1>2, <1>3 DEF ReviewInv, ShownPanels
<1>6. PlanTypeOK'
  BY <1>4 DEF openSignatureDialog, page, ReviewInv, PlanTypeOK
<1>7. DialogRead'
  BY <1>5 DEF DialogRead, AllIncentives
<1>8. ShownPanels'
  BY DEF openSignatureDialog, page, ReviewInv, ShownPanels, panels, AllIncentives
<1> QED
  BY <1>6, <1>7, <1>8 DEF ReviewInv

LEMMA CloseReview ==
  ASSUME ReviewInv, CloseDialog
  PROVE  ReviewInv'
BY DEF CloseDialog, page, ReviewInv, PlanTypeOK, ShownPanels, DialogRead, panels, AllIncentives

LEMMA NextReview == ReviewInv /\ [PlanNext]_planVars => ReviewInv'
<1> SUFFICES ASSUME ReviewInv, [PlanNext]_planVars PROVE ReviewInv'
  OBVIOUS
<1>1. CASE \E s \in Statements, expand \in BOOLEAN : Route(s, expand)
  BY <1>1, RouteReview
<1>2. CASE \E expand \in BOOLEAN : RouteExpands(expand)
  BY <1>2, RouteExpandsReview
<1>3. CASE PlanAnswers
  BY <1>3, AnsweredReview, DetailsReview DEF PlanAnswers
<1>4. CASE \/ \E s \in Statements : AnsweredEmpty(s) \/ GoalsAnsweredEmpty(s)
           \/ \E q \in pending : QueryFails(q)
  BY <1>4, LostReview
<1>5. CASE (\E p \in Incentives : ClickPanel(p)) \/ togglePanels
  BY <1>5, ClickReview
<1>6. CASE openSignatureDialog
  BY <1>6, DialogReview
<1>7. CASE CloseDialog
  BY <1>7, CloseReview
<1>8. CASE UNCHANGED planVars
  BY <1>8 DEF planVars, ReviewInv, PlanTypeOK, ShownPanels, DialogRead, panels, AllIncentives
<1> QED
  BY <1>1, <1>2, <1>3, <1>4, <1>5, <1>6, <1>7, <1>8 DEF PlanNext

LEMMA ReviewInvariant == PlanSpec => []ReviewInv
<1>1. PlanInit => ReviewInv
  BY InitReview
<1>2. ReviewInv /\ [PlanNext]_planVars => ReviewInv'
  BY NextReview
<1> QED
  BY <1>1, <1>2, PTL DEF PlanSpec

\* The state of the screen stays well formed.
THEOREM PlanTypeCorrect == PlanSpec => []PlanTypeOK
<1>1. ReviewInv => PlanTypeOK
  BY DEF ReviewInv
<1> QED
  BY <1>1, ReviewInvariant, PTL

\* The lock of readyToSign holds for whatever the page shows: who opens the
\* signature of the statement shown has every panel of it expanded.
THEOREM ShownStatementIsReviewed == PlanSpec => []ShownIsReviewed
<1>1. ReviewInv => ShownIsReviewed
  BY DEF ReviewInv, DialogRead, ShownIsReviewed
<1> QED
  BY <1>1, ReviewInvariant, PTL

----------------------------------------------------------------------------
(* Without failures and answers left behind, the page is that of the route.*)

\* The only statement awaited is the route's, and it is the one shown when the
\* spinner is gone.
CalmPage ==
  calm =>
    /\ \A s \in Statements : <<"planStatement", s>> \in pending => s = planStatementId
    /\ ~loading => planStatement = planStatementId

CalmInv == CalmPage /\ CalmSignsShown

LEMMA InitCalm == PlanInit => CalmInv
BY DEF PlanInit, CalmInv, CalmPage, CalmSignsShown

LEMMA RouteCalm ==
  ASSUME CalmInv, NEW s \in Statements, NEW expand \in BOOLEAN, Route(s, expand)
  PROVE  CalmInv'
<1>1. CalmPage'
  BY DEF Route, CalmPage
<1> QED
  BY <1>1 DEF Route, page, CalmInv, CalmSignsShown

LEMMA AnsweredCalm ==
  ASSUME CalmInv, NEW s \in Statements, Answered(s)
  PROVE  CalmInv'
<1>1. CalmPage'
  <2> SUFFICES ASSUME calm PROVE CalmPage'
    BY DEF CalmPage, Answered
  <2>1. s = planStatementId
    BY DEF CalmInv, CalmPage, Answered
  <2>2. \A r \in Statements : <<"planStatement", r>> \in pending' => <<"planStatement", r>> \in pending
    BY DEF Answered, getSignature
  <2> QED
    BY <2>1, <2>2 DEF CalmInv, CalmPage, Answered
<1> QED
  BY <1>1 DEF Answered, CalmInv, CalmSignsShown

LEMMA DialogCalm ==
  ASSUME CalmInv, openSignatureDialog
  PROVE  CalmInv'
<1>1. dialog' = [signs |-> planStatementId, shown |-> planStatement,
                 read |-> panels \cap expanded, calm |-> calm]
  BY DEF openSignatureDialog
<1>2. calm => planStatement = planStatementId
  BY DEF openSignatureDialog, Reading, CalmInv, CalmPage
<1>3. CalmSignsShown'
  BY <1>1, <1>2 DEF CalmSignsShown
<1> QED
  BY <1>3 DEF openSignatureDialog, page, CalmInv, CalmPage

LEMMA NextCalm == CalmInv /\ [PlanNext]_planVars => CalmInv'
<1> SUFFICES ASSUME CalmInv, [PlanNext]_planVars PROVE CalmInv'
  OBVIOUS
<1> USE DEF CalmInv, CalmPage, CalmSignsShown
<1>1. CASE \E s \in Statements, expand \in BOOLEAN : Route(s, expand)
  BY <1>1, RouteCalm
<1>2. CASE \E expand \in BOOLEAN : RouteExpands(expand)
  BY <1>2 DEF RouteExpands, page
<1>3. CASE \E s \in Statements : Answered(s)
  BY <1>3, AnsweredCalm
<1>4. CASE \E s \in Statements : GoalsAnswered(s) \/ SignatureAnswered(s)
  BY <1>4 DEF GoalsAnswered, SignatureAnswered
<1>5. CASE \/ \E s \in Statements : AnsweredEmpty(s) \/ GoalsAnsweredEmpty(s)
           \/ \E q \in pending : QueryFails(q)
  BY <1>5 DEF AnsweredEmpty, GoalsAnsweredEmpty, QueryFails, page
<1>6. CASE (\E p \in Incentives : ClickPanel(p)) \/ togglePanels
  BY <1>6 DEF ClickPanel, togglePanels
<1>7. CASE openSignatureDialog
  BY <1>7, DialogCalm
<1>8. CASE CloseDialog
  BY <1>8 DEF CloseDialog, page
<1>9. CASE UNCHANGED planVars
  BY <1>9 DEF planVars
<1> QED
  BY <1>1, <1>2, <1>3, <1>4, <1>5, <1>6, <1>7, <1>8, <1>9 DEF PlanNext, PlanAnswers

\* With no answer lost or left behind by the route, openSignatureDialog hands
\* over the statement the page shows.
THEOREM CalmSignatureIsOfThePage == PlanSpec => []CalmSignsShown
<1>1. PlanInit => CalmInv
  BY InitCalm
<1>2. CalmInv /\ [PlanNext]_planVars => CalmInv'
  BY NextCalm
<1>3. CalmInv => CalmSignsShown
  BY DEF CalmInv
<1> QED
  BY <1>1, <1>2, <1>3, PTL DEF PlanSpec
----------------------------------------------------------------------------
(* Where the page settles.                                                 *)

\* While calm, all that is asked for is about the statement of the route: the
\* statement itself is under way, or it is on the page and its goals and its
\* signature are there or under way.
Awaits(kind) == <<kind, planStatementId>> \in pending

Settling ==
  calm =>
    /\ \A q \in pending : q[2] = planStatementId
    /\ \/ Awaits("planStatement")
       \/ /\ planStatement = planStatementId
          /\ Awaits("goalPlan") \/ goalPlans = planStatementId
          /\ planStatementId \in Signed => Awaits("signature") \/ signature = planStatementId

LEMMA RouteSettling ==
  ASSUME NEW s \in Statements, NEW expand \in BOOLEAN, Route(s, expand)
  PROVE  Settling'
<1>1. planStatementId' = s /\ <<"planStatement", s>> \in pending'
  BY DEF Route
<1>2. calm' <=> pending = {}
  BY DEF Route
<1>3. \A q \in pending' : q \in pending \/ q = <<"planStatement", s>>
  BY DEF Route
<1>4. calm' => \A q \in pending' : q[2] = s
  BY <1>2, <1>3
<1> QED
  BY <1>1, <1>4 DEF Settling, Awaits

\* Panels, spinner and dialog are no part of what settles.
LEMMA StillSettling ==
  ASSUME Settling,
         UNCHANGED <<planStatementId, planStatement, goalPlans, signature, pending, calm>>
  PROVE  Settling'
BY DEF Settling, Awaits

LEMMA AnsweredSettling ==
  ASSUME Settling, NEW s \in Statements, Answered(s)
  PROVE  Settling'
<1> SUFFICES ASSUME calm PROVE Settling'
  BY DEF Answered, Settling
<1>1. s = planStatementId
  BY DEF Answered, Settling
<1>2. <<"goalPlan", s>> \in pending' /\ getSignature(s) \subseteq pending'
  BY DEF Answered
<1>3. s \in Signed => <<"signature", s>> \in pending'
  BY <1>2 DEF getSignature
<1>4. \A q \in pending' : q[2] = s
  BY <1>1 DEF Answered, Settling, getSignature
<1> QED
  BY <1>1, <1>2, <1>3, <1>4 DEF Answered, Settling, Awaits

LEMMA GoalsSettling ==
  ASSUME Settling, NEW s \in Statements, GoalsAnswered(s)
  PROVE  Settling'
<1> SUFFICES ASSUME calm PROVE Settling'
  BY DEF GoalsAnswered, Settling
<1>1. s = planStatementId
  BY DEF GoalsAnswered, Settling
<1>2. \A q : q # <<"goalPlan", s>> => (q \in pending' <=> q \in pending)
  BY DEF GoalsAnswered
<1>3. /\ <<"planStatement", s>> # <<"goalPlan", s>>
      /\ <<"signature", s>> # <<"goalPlan", s>>
  OBVIOUS
<1> QED
  BY <1>1, <1>2, <1>3 DEF GoalsAnswered, Settling, Awaits

LEMMA SignatureSettling ==
  ASSUME Settling, NEW s \in Statements, SignatureAnswered(s)
  PROVE  Settling'
<1> SUFFICES ASSUME calm PROVE Settling'
  BY DEF SignatureAnswered, Settling
<1>1. s = planStatementId
  BY DEF SignatureAnswered, Settling
<1>2. \A q : q # <<"signature", s>> => (q \in pending' <=> q \in pending)
  BY DEF SignatureAnswered
<1>3. /\ <<"planStatement", s>> # <<"signature", s>>
      /\ <<"goalPlan", s>> # <<"signature", s>>
  OBVIOUS
<1> QED
  BY <1>1, <1>2, <1>3 DEF SignatureAnswered, Settling, Awaits

LEMMA NextSettling == Settling /\ [PlanNext]_planVars => Settling'
<1> SUFFICES ASSUME Settling, [PlanNext]_planVars PROVE Settling'
  OBVIOUS
<1>1. CASE \E s \in Statements, expand \in BOOLEAN : Route(s, expand)
  BY <1>1, RouteSettling
<1>2. CASE \E expand \in BOOLEAN : RouteExpands(expand)
  BY <1>2, StillSettling DEF RouteExpands, page
<1>3. CASE PlanAnswers
  BY <1>3, AnsweredSettling, GoalsSettling, SignatureSettling DEF PlanAnswers
<1>4. CASE \/ \E s \in Statements : AnsweredEmpty(s) \/ GoalsAnsweredEmpty(s)
           \/ \E q \in pending : QueryFails(q)
  BY <1>4 DEF AnsweredEmpty, GoalsAnsweredEmpty, QueryFails, Settling
<1>5. CASE (\E p \in Incentives : ClickPanel(p)) \/ togglePanels
  BY <1>5, StillSettling DEF ClickPanel, togglePanels
<1>6. CASE openSignatureDialog \/ CloseDialog
  BY <1>6, StillSettling DEF openSignatureDialog, CloseDialog, page
<1>7. CASE UNCHANGED planVars
  BY <1>7, StillSettling DEF planVars
<1> QED
  BY <1>1, <1>2, <1>3, <1>4, <1>5, <1>6, <1>7 DEF PlanNext

\* Once every answer is in, and none failed or was left behind, the statement
\* and the goals the screen shows are those of its route, and the signature
\* drawn is the one of that statement, or none where there is nothing to sign
\* under; a statement accepted without signature is the one exception.
THEOREM CalmPageIsOfTheRoute == PlanSpec => []CalmPageSettles
<1>1. PlanInit => Settling
  BY DEF PlanInit, Settling, Awaits
<1>2. Settling => CalmPageSettles
  BY StatementSetsAssumption DEF Settling, Awaits, CalmPageSettles, signatureDrawn
<1> QED
  BY <1>1, <1>2, NextSettling, PTL DEF PlanSpec
----------------------------------------------------------------------------
(* The result declaration: its lock, for any number of lists and pages.    *)

\* A paged list still has its first answer under way, or it is read to its end,
\* or its last page was full: the spinner or the lock is there until its end.
AnsweredLists ==
  statement => \A l \in DrainedLists :
    l \in asked \ answered \/ loaded[l] = total[l] \/ hasMore(l)

\* Before the statement nothing is asked, so nothing is there.
NothingBefore ==
  ~statement => asked = {} /\ answered = {} /\ \A l \in Lists : loaded[l] = 0

ResultInv == ResultTypeOK /\ NothingBefore /\ AnsweredLists

LEMMA ResultStarts == ResultInit => ResultInv
<1> SUFFICES ASSUME ResultInit PROVE ResultInv
  OBVIOUS
<1>1. ResultTypeOK
  <2>1. panel \in [Lists -> [Positions -> {"unset", "open", "shut"}]]
    BY DEF ResultInit
  <2>2. total \in [Lists -> 0 .. MaxRows] /\ \A l \in Lists : loaded[l] <= total[l]
    BY RowsOfListsAssumption DEF ResultInit, Totals
  <2>3. loaded \in [Lists -> Nat] /\ lastPage \in [Lists -> 0 .. PageRows]
    BY RowsOfListsAssumption DEF ResultInit
  <2>4. presses \in Nat
    BY PressesAssumption DEF ResultInit
  <2>5. /\ {accepts, goesOn, spins, statement} \subseteq BOOLEAN /\ reviewing \in BOOLEAN
        /\ {asked, answered} \subseteq SUBSET Lists
    BY DEF ResultInit
  <2> QED BY <2>1, <2>2, <2>3, <2>4, <2>5 DEF ResultTypeOK
<1> QED BY <1>1 DEF ResultInit, ResultInv, NothingBefore, AnsweredLists

\* The page that arrives is full, or it is the last.
LEMMA PageKeeps ==
  ASSUME ResultInv, NEW l \in Lists, PageArrives(l) PROVE ResultInv'
<1> DEFINE rest == total[l] - loaded[l]
           n == IF rest < PageRows THEN rest ELSE PageRows
<1>1. /\ loaded' = [loaded EXCEPT ![l] = @ + n]
      /\ lastPage' = [lastPage EXCEPT ![l] = n]
      /\ asked' = IF goesOn /\ reviewing /\ n = PageRows THEN asked ELSE asked \ {l}
      /\ answered' = answered \cup {l}
      /\ UNCHANGED <<total, accepts, goesOn, spins, statement, reviewing, panel, presses>>
  BY DEF PageArrives, given
<1>2. /\ total[l] \in Nat /\ loaded[l] \in Nat /\ loaded[l] <= total[l]
      /\ PageRows \in Nat \ {0}
      /\ loaded \in [Lists -> Nat] /\ lastPage \in [Lists -> 0 .. PageRows]
      /\ total \in [Lists -> 0 .. MaxRows] /\ {asked, answered} \subseteq SUBSET Lists
  BY RowsOfListsAssumption DEF ResultInv, ResultTypeOK
<1>3. n \in 0 .. PageRows /\ loaded[l] + n <= total[l] /\ (n = PageRows \/ loaded[l] + n = total[l])
  BY <1>2
<1> HIDE DEF n
<1>4. /\ loaded'[l] = loaded[l] + n /\ lastPage'[l] = n
      /\ \A k \in Lists \ {l} : loaded'[k] = loaded[k] /\ lastPage'[k] = lastPage[k]
      /\ loaded' \in [Lists -> Nat] /\ lastPage' \in [Lists -> 0 .. PageRows]
  BY <1>1, <1>2, <1>3
<1>5. ResultTypeOK'
  <2>1. \A k \in Lists : loaded'[k] <= total'[k]
    BY <1>1, <1>2, <1>3, <1>4 DEF ResultInv, ResultTypeOK
  <2>2. {asked', answered'} \subseteq SUBSET Lists
    BY <1>1, <1>2
  <2> QED BY <1>1, <1>4, <2>1, <2>2 DEF ResultInv, ResultTypeOK
<1>6. AnsweredLists'
  <2> SUFFICES ASSUME statement, NEW k \in DrainedLists
               PROVE  k \in asked' \ answered' \/ loaded'[k] = total[k] \/ hasMore(k)'
    BY <1>1 DEF AnsweredLists
  <2>1. CASE k = l
    BY <1>1, <1>2, <1>3, <1>4, <2>1 DEF hasMore
  <2>2. CASE k # l
    <3>1. k \in Lists
      BY ListsAssumption
    <3>2. loaded'[k] = loaded[k] /\ (hasMore(k)' <=> hasMore(k))
      BY <1>4, <2>2, <3>1 DEF hasMore
    <3>3. k \in asked \ answered => k \in asked' \ answered'
      BY <1>1, <2>2
    <3> QED BY <3>2, <3>3 DEF ResultInv, AnsweredLists
  <2> QED BY <2>1, <2>2
<1>7. statement
  BY DEF PageArrives, ResultInv, NothingBefore
<1> QED BY <1>1, <1>5, <1>6, <1>7 DEF ResultInv, NothingBefore

\* What comes in one piece leaves the paged lists alone.
LEMMA ListKeeps ==
  ASSUME ResultInv, NEW l \in Lists, ListArrives(l) PROVE ResultInv'
<1>1. /\ loaded' = [loaded EXCEPT ![l] = total[l]]
      /\ asked' = asked \ {l} /\ answered' = answered \cup {l} /\ l \notin DrainedLists
      /\ UNCHANGED <<total, accepts, goesOn, spins, statement, reviewing, lastPage, panel, presses>>
  BY DEF ListArrives, given
<1>2. /\ loaded \in [Lists -> Nat] /\ total \in [Lists -> 0 .. MaxRows] /\ MaxRows \in Nat
      /\ {asked, answered} \subseteq SUBSET Lists
  BY RowsOfListsAssumption DEF ResultInv, ResultTypeOK
<1>3. loaded' \in [Lists -> Nat] /\ \A k \in Lists : loaded'[k] <= total'[k]
  BY <1>1, <1>2 DEF ResultInv, ResultTypeOK
<1>4. {asked', answered'} \subseteq SUBSET Lists
  BY <1>1, <1>2
<1>5. ResultTypeOK'
  BY <1>1, <1>3, <1>4 DEF ResultInv, ResultTypeOK
<1>6. ASSUME statement, NEW k \in DrainedLists
      PROVE  k \in asked' \ answered' \/ loaded'[k] = total[k] \/ hasMore(k)'
  <2>1. k \in Lists /\ k # l
    BY <1>1, ListsAssumption
  <2>2. loaded'[k] = loaded[k] /\ (hasMore(k)' <=> hasMore(k))
    BY <1>1, <1>2, <2>1 DEF hasMore
  <2>3. k \in asked \ answered => k \in asked' \ answered'
    BY <1>1, <2>1
  <2> QED BY <1>6, <2>2, <2>3 DEF ResultInv, AnsweredLists
<1>7. statement
  BY DEF ListArrives, ResultInv, NothingBefore
<1> QED BY <1>1, <1>5, <1>6, <1>7 DEF ResultInv, NothingBefore, AnsweredLists

\* A step that takes no row, page or question away keeps what was answered.
LEMMA AnswersStay ==
  ASSUME ResultInv, asked \subseteq asked', statement \/ asked' = asked,
         UNCHANGED <<total, statement, loaded, lastPage, answered>>
  PROVE  NothingBefore' /\ AnsweredLists'
<1>1. NothingBefore'
  BY DEF ResultInv, NothingBefore
<1>2. \A l \in Lists : hasMore(l)' <=> hasMore(l)
  BY DEF hasMore
<1>3. AnsweredLists'
  BY <1>2, ListsAssumption DEF ResultInv, AnsweredLists
<1> QED BY <1>1, <1>3

LEMMA ResultStep == ResultInv /\ [ResultNext]_resultVars => ResultInv'
<1> SUFFICES ASSUME ResultInv, [ResultNext]_resultVars PROVE ResultInv'
  OBVIOUS
<1> USE DEF ResultInv
<1>1. CASE UNCHANGED resultVars
  BY <1>1, AnswersStay DEF resultVars, given, ResultTypeOK
<1>2. CASE StatementArrives
  <2>1. ResultTypeOK'
    BY <1>2 DEF StatementArrives, given, ResultTypeOK
  <2>2. statement' /\ asked' = Lists /\ answered' = {}
    BY <1>2 DEF StatementArrives, NothingBefore
  <2> QED BY <2>1, <2>2, ListsAssumption DEF NothingBefore, AnsweredLists
<1>3. CASE toggleResultPanels
  <2>1. panel' \in [Lists -> [Positions -> {"unset", "open", "shut"}]]
    BY <1>3 DEF toggleResultPanels, expandPanels, ResultTypeOK
  <2>2. asked' \subseteq Lists /\ asked \subseteq asked'
    BY <1>3, ListsAssumption DEF toggleResultPanels, expandPanels, loadAllPages, ResultTypeOK
  <2>3. reviewing' \in BOOLEAN /\ presses' \in Nat
    BY <1>3 DEF toggleResultPanels, expandPanels, Press, ResultTypeOK
  <2>4. UNCHANGED <<total, accepts, goesOn, spins, statement, loaded, lastPage, answered>>
    BY <1>3 DEF toggleResultPanels, given
  <2>5. statement
    BY <1>3 DEF toggleResultPanels
  <2> QED BY <2>1, <2>2, <2>3, <2>4, <2>5, AnswersStay DEF ResultTypeOK
<1>4. ASSUME NEW l \in Lists, LoadMore(l) PROVE ResultInv'
  <2>1. ResultTypeOK'
    BY <1>4 DEF LoadMore, Press, given, ResultTypeOK
  <2>2. statement
    BY <1>4 DEF LoadMore, hasMore, NothingBefore
  <2> QED BY <1>4, <2>1, <2>2, AnswersStay DEF LoadMore, given
<1>5. ASSUME NEW l \in Lists, NEW i \in Positions, ClickResultPanel(l, i) PROVE ResultInv'
  <2>1. panel' \in [Lists -> [Positions -> {"unset", "open", "shut"}]]
    BY <1>5 DEF ClickResultPanel, ResultTypeOK
  <2>2. ResultTypeOK'
    BY <1>5, <2>1 DEF ClickResultPanel, Press, given, ResultTypeOK
  <2> QED BY <1>5, <2>2, AnswersStay DEF ClickResultPanel, given
<1> QED BY <1>1, <1>2, <1>3, <1>4, <1>5, PageKeeps, ListKeeps DEF ResultNext

LEMMA ReadyFollows == ResultInv => ReadyMeansAllRead
<1> SUFFICES ASSUME ResultInv, resultReady, NEW l \in DrainedLists
             PROVE  WhollyOpen(l)
  BY DEF ReadyMeansAllRead
<1>1. statement /\ ~hasMore(l) /\ l \notin asked \ answered
  BY ListsAssumption DEF resultReady, resultExpanded, resultLoading, paginationDrained
<1>2. loaded[l] = total[l]
  BY <1>1 DEF ResultInv, AnsweredLists
<1> QED BY <1>2 DEF resultReady, resultExpanded, WhollyOpen

\* In every reachable state the screen of the result declaration is well typed.
THEOREM ResultTypeCorrect == ResultSpec => []ResultTypeOK
PROOF
  <1>1. ResultInv => ResultTypeOK
    BY DEF ResultInv
  <1> QED BY <1>1, ResultStarts, ResultStep, PTL DEF ResultSpec

\* The signature of a result declaration unlocks only when the paged lists were
\* shown whole, however many lists, pages and clicks there were, and whether or
\* not the spinner waits for the pages after the first.
THEOREM NothingIsSignedUnread == ResultSpec => []ReadyMeansAllRead
BY ResultStarts, ResultStep, ReadyFollows, PTL DEF ResultSpec
----------------------------------------------------------------------------
(* The application that shows one of the two.                              *)

\* Whichever screen is opened, each screen sees a behaviour of its own: the one
\* that stays closed is one that has not started.
THEOREM ScreensStandAlone == Spec => PlanSpec /\ ResultSpec
<1>1. Init => PlanInit /\ ResultInit
  BY DEF Init, PlanUnopened, ResultUnopened
<1>2. [Next]_vars => [PlanNext]_planVars
  BY DEF Next, vars
<1>3. [Next]_vars => [ResultNext]_resultVars
  BY DEF Next, vars
<1> QED
  BY <1>1, <1>2, <1>3, PTL DEF Spec, PlanSpec, ResultSpec

\* The state of both screens stays well formed in the application.
THEOREM DeclarationsTypeCorrect == Spec => []TypeOK
<1>1. PlanTypeOK /\ ResultTypeOK => TypeOK
  BY DEF TypeOK
<1> QED
  BY <1>1, ScreensStandAlone, PlanTypeCorrect, ResultTypeCorrect, PTL

\* In the application, who opens either signature has read what is shown:
\* every panel of the plan statement, every row of the paged lists of the result.
THEOREM NothingShownIsSignedUnread == Spec => [](ShownIsReviewed /\ ReadyMeansAllRead)
BY ScreensStandAlone, ShownStatementIsReviewed, NothingIsSignedUnread, PTL

\* In the application, while no answer fails or is left behind, the statement
\* signed, the page and its goals are those of the route, and so is the signature
\* drawn, except under a statement that was accepted without one.
THEOREM CalmScreenIsOfTheRoute == Spec => [](CalmSignsShown /\ CalmPageSettles)
BY ScreensStandAlone, CalmSignatureIsOfThePage, CalmPageIsOfTheRoute, PTL
=============================================================================
