------------------------------ MODULE Dashboard ------------------------------
(***************************************************************************)
(* DashboardPlanComponent: the dashboard of a plan.  Every move of the     *)
(* viewer sends queries whose answers send others, each composed from what *)
(* the component holds when it is sent; no answer is tied to the move that *)
(* asked for it and none is ever cancelled.                                *)
(***************************************************************************)
EXTENDS CommissionTotals, SequencesExt

CONSTANTS
  Plans,         \* what a route names: a plan with its period or calendar
  Users,
  Me,            \* the viewer
  Sorts,         \* orders of the ranking
  FirstSort,     \* the one it opens with, highest_value in the code
  Routes,        \* the <<plan, user>> routes name
  FirstRoutes,   \* those the dashboard is opened on
  Ranking,       \* the users in each order
  Wages,         \* what a ranking may show: the money of each user, by plan
  Listed,        \* the <<plan, user>> in the ranking
  Paid,          \* the <<plan, user>> with a commission, NoUser being everybody
  Selling,       \* the <<plan, user>> with a deal above zero
  WithPicture,   \* plans and users with a profile picture
  MaxMoves,      \* bound on the moves of the viewer
  MaxTroubles,   \* bound on failures and on answers overtaken by a later one
  NoUser, None

Viewed == Users \cup {NoUser}
Seats == {"SalesRepresentative", "Manager"}
Kinds == {"period", "variables", "indicators", "commission", "deals", "incentives", "goals",
          "ranking", "profiles"}

ASSUME RankingAssumption == Ranking \in [Sorts -> Seq(Users)] /\ Me \in Users
ASSUME FirstAssumption == FirstSort \in Sorts /\ FirstRoutes \subseteq Routes /\ Routes \subseteq Plans \X Viewed
ASSUME WagesAssumption == Wages \subseteq [Plans -> [Users -> Int \cup {NoMoney}]]
ASSUME CommissionsAssumption == {Listed, Paid, Selling} \subseteq SUBSET (Plans \X Viewed)
ASSUME NoUserAssumption == NoUser \notin Users /\ None \notin Plans
ASSUME DashboardBoundsAssumption == {MaxMoves, MaxTroubles} \subseteq Nat

VARIABLES
  seat, wages,           \* the viewer's seat and the base, which stay
  planId, userId, userSort, currentUserSeat,
  plan,                  \* this.plan and this.calendar, which come together
  commission,            \* userCommissionDatasets, as what they were asked for
  shown,                 \* dealDatasets, incentiveDatasets and goalDatasets, the same
  period, variables, lineCharts,
  list,                  \* userAggregatedUserCommissionDatasets
  totalMoney, averageMoneyUser, above, below,
  selected,              \* selectedUser and what is shown of it
  loadingGoalDatasets, loadingProfiles,
  pending,               \* queries under way, in the order they were sent
  asked,                 \* history: the user of the last move
  carried,               \* history: the route moved with a user selected
  viewers, charted,      \* history: whom the page was about since the last move, and
                         \* since the last route
  rankedFor,             \* history: the user of the last ranking asked for
  overtaken, failed,     \* history: answers out of order, or missing
  left                   \* what is left of each bound

world == <<seat, wages>>
route == <<planId, userId, userSort>>
figures == <<totalMoney, averageMoneyUser, above, below>>
charts == <<period, variables, lineCharts>>
spinner == <<loadingGoalDatasets, loadingProfiles>>
history == <<asked, carried, viewers, charted, rankedFor>>
vars == <<world, route, currentUserSeat, plan, commission, shown, charts, list, figures, selected,
          spinner, pending, history, overtaken, failed, left>>

loading == loadingGoalDatasets \/ loadingProfiles

Trouble ==
  /\ left["troubles"] > 0
  /\ left' = [left EXCEPT !["troubles"] = @ - 1]

\* Sending queries: a query identical to the last one of its kind under way
\* shares its answer.
Sent(queries, asks) ==
  [k \in Kinds |->
    IF k \notin DOMAIN asks \/ (queries[k] # <<>> /\ Last(queries[k]) = asks[k])
      THEN queries[k]
      ELSE Append(queries[k], asks[k])]

----------------------------------------------------------------------------
(* Moves of the viewer.                                                    *)

Move ==
  /\ left["moves"] > 0
  /\ left' = [left EXCEPT !["moves"] = @ - 1]

\* What a move is remembered by: its user, who was charted before, and the user
\* of the ranking that was asked for.
Remembers(u, before, ranks) ==
  /\ asked' = u
  /\ viewers' = {u}
  /\ charted' = before \cup {u}
  /\ rankedFor' = ranks

\* Faulty: the variables asked for before the period is there.
AskedByRouteEager(p, u, s) ==
  [period |-> p, variables |-> p, commission |-> <<p, u>>, ranking |-> <<p, s, u>>]

AskedByRoute(p, u, s) == [period |-> p, commission |-> <<p, u>>, ranking |-> <<p, s, u>>]

Route(p, u) ==
  /\ <<p, u>> # <<planId, userId>>
  /\ Move
  /\ planId' = p
  /\ userId' = u
  /\ pending' = Sent(pending, AskedByRoute(p, u, userSort))
  /\ Remembers(u, {}, u)
  /\ carried' = (selected # None)
  /\ UNCHANGED <<world, userSort, currentUserSeat, plan, commission, shown, charts, list, figures,
                 selected, spinner, overtaken, failed>>

\* The list is drawn under the spinner's condition, for whoever has a team.
Viewing == ~loading /\ currentUserSeat # "SalesRepresentative"

SelectedFrom(row) == [user |-> row.user, money |-> row.money, ranking |-> row.ranking]

\* Faulty: a selection that asks for nothing.
AskedBySelectNothing(u) == [k \in {} |-> u]

AskedBySelect(u) == [commission |-> <<planId, u>>]

\* The average each row was handed with the ranking.
AverageOfRow(i) == list.average

selectUser(i) ==
  /\ Viewing
  /\ list # None
  /\ list.rows[i].user # userId
  /\ Move
  /\ averageMoneyUser' = AverageOfRow(i)
  /\ selected' = SelectedFrom(list.rows[i])
  /\ userId' = list.rows[i].user
  /\ pending' = Sent(pending, AskedBySelect(userId'))
  /\ Remembers(userId', charted, rankedFor)
  /\ carried' = FALSE
  /\ UNCHANGED <<world, planId, userSort, currentUserSeat, plan, commission, shown, charts, list,
                 totalMoney, above, below, spinner, overtaken, failed>>

\* Faulty: the panel outlives the selection.
DeselectKeepingPanel(s) ==
  /\ Viewing
  /\ Move
  /\ averageMoneyUser' = None
  /\ userId' = NoUser
  /\ pending' = Sent(pending, [commission |-> <<planId, NoUser>>, ranking |-> <<planId, s, NoUser>>])
  /\ Remembers(NoUser, charted, NoUser)
  /\ carried' = FALSE
  /\ UNCHANGED <<world, planId, currentUserSeat, plan, commission, shown, charts, list, totalMoney,
                 above, below, selected, spinner, overtaken, failed>>

\* What clearUser and selectSort share.
Deselect(s) ==
  /\ Viewing
  /\ Move
  /\ selected' = None
  /\ averageMoneyUser' = None
  /\ userId' = NoUser
  /\ pending' = Sent(pending, [commission |-> <<planId, NoUser>>, ranking |-> <<planId, s, NoUser>>])
  /\ Remembers(NoUser, charted, NoUser)
  /\ carried' = FALSE
  /\ UNCHANGED <<world, planId, currentUserSeat, plan, commission, shown, charts, list, totalMoney,
                 above, below, spinner, overtaken, failed>>

clearUser ==
  /\ userId # NoUser
  /\ Deselect(userSort)
  /\ UNCHANGED userSort

selectSort(s) ==
  /\ s # userSort
  /\ userSort' = s
  /\ Deselect(s)

----------------------------------------------------------------------------
(* Answers.  The first of a kind is next, unless a later one overtakes it. *)

Arrives(k, i) ==
  /\ i \in DOMAIN pending[k]
  /\ \/ i = 1 /\ UNCHANGED <<left, overtaken>>
     \/ i = 2 /\ Trouble /\ overtaken' = TRUE

Without(k, i) == [pending EXCEPT ![k] = RemoveAt(@, i)]

Now == <<planId, userId>>

PeriodAnswered(i) ==
  /\ Arrives("period", i)
  /\ period' = pending["period"][i]
  /\ pending' = Sent(Without("period", i), [variables |-> planId])
  /\ UNCHANGED <<world, route, currentUserSeat, plan, commission, shown, variables, lineCharts, list,
                 figures, selected, spinner, history, failed>>

AskedByVariables == [goals |-> Now, indicators |-> <<period, planId, userId>>]

VariablesAnswered(i) ==
  /\ Arrives("variables", i)
  /\ variables' = pending["variables"][i]
  /\ pending' = Sent(Without("variables", i), AskedByVariables)
  /\ UNCHANGED <<world, route, currentUserSeat, plan, commission, shown, period, lineCharts, list,
                 figures, selected, spinner, history, failed>>

\* processLineCharts joins the answer to the variables of that instant.
IndicatorsAnswered(i) ==
  /\ Arrives("indicators", i)
  /\ lineCharts' = [variables |-> variables, indicators |-> pending["indicators"][i]]
  /\ pending' = Without("indicators", i)
  /\ UNCHANGED <<world, route, currentUserSeat, plan, commission, shown, period, variables, list,
                 figures, selected, spinner, history, failed>>

\* Without a commission there is no calendar, and no deals are asked for.
AskedByCommission(calendar) ==
  IF calendar = None
    THEN [incentives |-> Now, goals |-> Now]
    ELSE [deals |-> <<calendar, planId, userId>>, incentives |-> Now, goals |-> Now]

CommissionAnswered(i) ==
  /\ Arrives("commission", i)
  /\ LET r == pending["commission"][i] IN
       /\ commission' = r
       /\ plan' = IF r \in Paid THEN r[1] ELSE None
  /\ pending' = Sent(Without("commission", i), AskedByCommission(plan'))
  /\ UNCHANGED <<world, route, currentUserSeat, shown, charts, list, figures, selected, spinner,
                 history, failed>>

IncentivesAnswered(i) ==
  /\ Arrives("incentives", i)
  /\ shown' = [shown EXCEPT !["incentives"] = pending["incentives"][i]]
  /\ pending' = Without("incentives", i)
  /\ UNCHANGED <<world, route, currentUserSeat, plan, commission, charts, list, figures, selected,
                 spinner, history, failed>>

\* Deals none of which is above zero leave those that were there.
DealsAnswered(i) ==
  /\ Arrives("deals", i)
  /\ LET r == pending["deals"][i] IN
       shown' = IF <<r[2], r[3]>> \in Selling THEN [shown EXCEPT !["deals"] = r] ELSE shown
  /\ pending' = Without("deals", i)
  /\ UNCHANGED <<world, route, currentUserSeat, plan, commission, charts, list, figures, selected,
                 spinner, history, failed>>

ListUsers == IF list = None THEN {} ELSE {list.rows[i].user : i \in DOMAIN list.rows}

getProfileIds == ({plan} \cup ListUsers) \cap WithPicture

\* Faulty: the flag set with no request to clear it.
AwaitsPicturesAlways == TRUE

AwaitsPictures == getProfileIds # {}

\* getTemporaryProfiles follows, and asks for nothing when nobody has a picture.
GoalsAnswered(i) ==
  /\ Arrives("goals", i)
  /\ shown' = [shown EXCEPT !["goals"] = pending["goals"][i]]
  /\ loadingGoalDatasets' = FALSE
  /\ loadingProfiles' = AwaitsPictures
  /\ pending' = IF getProfileIds = {}
                  THEN Without("goals", i)
                  ELSE Sent(Without("goals", i), [profiles |-> getProfileIds])
  /\ UNCHANGED <<world, route, currentUserSeat, plan, commission, charts, list, figures, selected,
                 history, failed>>

ProfilesAnswered(i) ==
  /\ Arrives("profiles", i)
  /\ loadingProfiles' = FALSE
  /\ pending' = Without("profiles", i)
  /\ UNCHANGED <<world, route, currentUserSeat, plan, commission, shown, charts, list, figures,
                 selected, loadingGoalDatasets, history, failed>>

\* Who the server answers with: everybody listed, the user asked for, or the
\* viewer alone.
Ranks(p, u, x) ==
  /\ <<p, x>> \in Listed
  /\ u # NoUser => x = u
  /\ seat = "SalesRepresentative" => x = Me

\* The ranking the server answers, in the order asked for.
RankedUsers(p, s, u) ==
  LET order == Ranking[s]
      ranked[i \in 0 .. Len(order)] ==
        IF i = 0 THEN <<>>
        ELSE IF Ranks(p, u, order[i]) THEN Append(ranked[i - 1], order[i]) ELSE ranked[i - 1]
  IN  ranked[Len(order)]

Rows(p, s, u) ==
  LET users == RankedUsers(p, s, u) IN
    [i \in DOMAIN users |-> [user |-> users[i], money |-> wages[p][users[i]], ranking |-> i]]

\* A single row becomes the selection of whoever sees only that row.
Adopts(rows) ==
  Len(rows) = 1 /\ (currentUserSeat = "SalesRepresentative" \/ userId # NoUser)

RankingAnswered(i) ==
  /\ Arrives("ranking", i)
  /\ LET r == pending["ranking"][i]
         rows == Rows(r[1], r[2], r[3])
         total == SumMoney(rows)
         average == <<total, Len(rows)>> IN
       IF rows = <<>>
         THEN /\ list' = None
              /\ UNCHANGED <<figures, selected, userId>>
         ELSE /\ list' = [plan |-> r[1], rows |-> rows, average |-> average, sort |-> userSort]
              /\ totalMoney' = total
              /\ averageMoneyUser' = average
              /\ above' = countUsersAboveAverage(rows, total)
              /\ below' = countUsersBelowAverage(rows, total)
              /\ IF Adopts(rows)
                   THEN selected' = SelectedFrom(rows[1]) /\ userId' = rows[1].user
                   ELSE UNCHANGED <<selected, userId>>
  /\ carried' = (carried /\ selected' = selected)
  /\ viewers' = viewers \cup {userId'}
  /\ charted' = charted \cup {userId'}
  /\ pending' = Without("ranking", i)
  /\ UNCHANGED <<world, planId, userSort, currentUserSeat, plan, commission, shown, charts, spinner,
                 asked, rankedFor, failed>>

MeAnswered ==
  /\ currentUserSeat = None
  /\ currentUserSeat' = seat
  /\ UNCHANGED <<world, route, plan, commission, shown, charts, list, figures, selected, spinner,
                 pending, history, overtaken, failed, left>>

\* A query that fails, or answers without data, changes nothing; only failed
\* goals take the spinner away.
Fails(k) ==
  /\ pending[k] # <<>>
  /\ Trouble
  /\ pending' = Without(k, 1)
  /\ failed' = TRUE
  /\ loadingGoalDatasets' \in IF k = "goals" THEN {loadingGoalDatasets, FALSE} ELSE {loadingGoalDatasets}
  /\ UNCHANGED <<world, route, currentUserSeat, plan, commission, shown, charts, list, figures,
                 selected, loadingProfiles, history, overtaken>>

----------------------------------------------------------------------------
DashboardBounds == [moves |-> MaxMoves, troubles |-> MaxTroubles]

Init ==
  /\ seat \in Seats
  /\ wages \in Wages
  /\ \E r \in FirstRoutes : planId = r[1] /\ userId = r[2]
  /\ userSort = FirstSort
  /\ currentUserSeat = None
  /\ plan = None
  /\ commission = None
  /\ shown = [k \in {"deals", "incentives", "goals"} |-> None]
  /\ period = None /\ variables = None /\ lineCharts = None
  /\ list = None
  /\ totalMoney = None /\ averageMoneyUser = None /\ above = None /\ below = None
  /\ selected = None
  /\ loadingGoalDatasets = TRUE
  /\ loadingProfiles = FALSE
  /\ pending = Sent([k \in Kinds |-> <<>>], AskedByRoute(planId, userId, userSort))
  /\ asked = userId /\ viewers = {userId} /\ charted = {userId} /\ rankedFor = userId
  /\ carried = FALSE
  /\ overtaken = FALSE
  /\ failed = FALSE
  /\ left = DashboardBounds

Answered(i) ==
  \/ PeriodAnswered(i) \/ VariablesAnswered(i) \/ IndicatorsAnswered(i)
  \/ CommissionAnswered(i) \/ DealsAnswered(i) \/ IncentivesAnswered(i)
  \/ GoalsAnswered(i) \/ ProfilesAnswered(i) \/ RankingAnswered(i)

Next ==
  \/ \E r \in Routes : Route(r[1], r[2])
  \/ list # None /\ \E i \in DOMAIN list.rows : selectUser(i)
  \/ clearUser
  \/ \E s \in Sorts : selectSort(s)
  \/ \E i \in 1 .. 2 : Answered(i)
  \/ MeAnswered
  \/ \E k \in Kinds : Fails(k)

Spec == Init /\ [][Next]_vars

----------------------------------------------------------------------------
Key == Plans \X Viewed

TypeOK ==
  /\ planId \in Plans /\ {userId, asked, rankedFor} \subseteq Viewed /\ userSort \in Sorts
  /\ currentUserSeat \in {seat, None}
  /\ plan \in Plans \cup {None}
  /\ commission \in Key \cup {None}
  /\ shown["deals"] \in (Plans \X Plans \X Viewed) \cup {None}
  /\ {shown["incentives"], shown["goals"]} \subseteq Key \cup {None}
  /\ {period, variables} \subseteq Plans \cup {None}
  /\ lineCharts # None => lineCharts.variables \in Plans /\ lineCharts.indicators \in Plans \X Plans \X Viewed
  /\ {viewers, charted} \subseteq SUBSET Viewed
  /\ {loadingGoalDatasets, loadingProfiles, carried, overtaken, failed} \subseteq BOOLEAN
  /\ DOMAIN pending = Kinds

Quiet == pending = [k \in Kinds |-> <<>>]

InOrder == Quiet /\ ~overtaken /\ ~failed

\* The commission is that of the user of the last move; the figures that follow
\* it are each of a user the page was about since then, and that is the same
\* user unless a ranking that was answered meanwhile put its single row there.
FiguresOfRoute ==
  InOrder =>
    /\ commission = <<planId, asked>>
    /\ {shown["goals"], shown["incentives"]} \subseteq {planId} \X viewers
    /\ commission \in Paid /\ {planId} \X viewers \subseteq Selling =>
         shown["deals"] \in {planId} \X {planId} \X viewers

\* The charts join the variables and the indicators of the route, for a user the
\* page was about since it: a selection does not ask for charts again.
ChartsOfRoute ==
  InOrder =>
    /\ lineCharts.variables = planId
    /\ lineCharts.indicators \in {planId} \X {planId} \X charted

RankedAsAsked ==
  LET rows == Rows(planId, userSort, rankedFor) IN
  IF rows = <<>> THEN list = None
                 ELSE list.plan = planId /\ list.rows = rows

\* The ranking is that of the plan, in the order that was chosen, for the user it
\* was last asked for: a selection does not ask for it again.
RankingOfRoute == InOrder => RankedAsAsked

\* Once every answer is in, in order, the whole page is of one plan and one order,
\* and every part of it of a user the page was about since the move that asked
\* for that part, whatever moves were made while earlier answers were under way.
Settled == FiguresOfRoute /\ ChartsOfRoute /\ RankingOfRoute

\* The user whose figures the panel shows is the one every query is about,
\* unless the route moved on under it.
SelectionMatches == selected # None /\ ~carried => selected.user = userId

\* Whatever is selected, cleared and selected again, an average on the screen
\* is that of the list on the screen.
AverageIsOfTheList == list # None => averageMoneyUser \in {None, list.average}

\* What the panel says of a user agrees with the queries and with the list.
SelectionAgrees == SelectionMatches /\ AverageIsOfTheList

Countable(rows) ==
  /\ \A i \in DOMAIN rows : Amount(rows[i]) >= 0
  /\ ExactCents(rows) < Cents * WordLimit

\* With commissions that are not negative and a sum that fits a word, the total
\* loses less than a unit a row, and nobody above the exact average is left out
\* of those counted above, nor anybody counted below who is not.
TotalErrsLow ==
  list # None /\ Countable(list.rows) =>
    LET n == Len(list.rows) exact == ExactCents(list.rows) IN
    /\ totalMoney * Cents \in (exact - n * (Cents - 1)) .. exact
    /\ above >= Cardinality({i \in 1 .. n : list.rows[i].money # NoMoney /\ list.rows[i].money * n > exact})
    /\ below <= Cardinality({i \in 1 .. n : list.rows[i].money # NoMoney /\ list.rows[i].money * n < exact})

\* Once every answer is in, in whatever order, the spinner is gone, unless a
\* query failed.
SpinnerEnds == Quiet /\ ~failed => ~loading
=============================================================================
