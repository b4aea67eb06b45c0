---------------------------- MODULE StatementShow ----------------------------
(***************************************************************************)
(* StatementShowComponent: the screen on which the result declaration is   *)
(* read and signed.  The statement asks for its lists, some of which come   *)
(* in pages.  A panel nobody clicked is expanded while the statement is    *)
(* under review, and the signature is locked until the paged lists are     *)
(* drained, the panels that are there expanded and the spinner gone.       *)
(***************************************************************************)
EXTENDS Integers, FiniteSets

CONSTANTS
  Lists,          \* what a statement asks for when it arrives
  DrainedLists,   \* paged lists, those paginationDrained looks at
  AwaitedLists,   \* lists the spinner waits for: all but goals, rankings and
                  \* signature
  PanelLists,     \* lists whose rows are panels
  RowCounts,      \* the numbers of rows each list may have
  MaxRows,        \* bound on the rows of a list
  PageRows,       \* rows of a page, 9 in the code
  MaxPresses      \* bound on clicks and presses

ASSUME ListsAssumption ==
  DrainedLists \subseteq AwaitedLists /\ AwaitedLists \subseteq Lists /\ PanelLists \subseteq Lists
ASSUME RowsOfListsAssumption ==
  /\ MaxRows \in Nat /\ PageRows \in Nat \ {0}
  /\ RowCounts \in [Lists -> SUBSET (0 .. MaxRows)]
ASSUME PressesAssumption == MaxPresses \in Nat

VARIABLES
  total,          \* the rows each list has in the base
  accepts,        \* the statement's actions include accept
  goesOn,         \* a list under review asks for the page after a full one
  spins,          \* the spinner also waits for the pages after the first
  statement,      \* the statement has arrived
  reviewing,
  loaded,         \* the rows of each list that have arrived
  lastPage,       \* the length of the last page of each list
  asked,          \* lists with an answer under way
  answered,       \* lists with an answer
  panel,          \* panel.expanded: unset, open or shut
  presses

given == <<total, accepts, goesOn, spins>>
resultVars ==
  <<given, statement, reviewing, loaded, lastPage, asked, answered, panel, presses>>

Positions == 1 .. MaxRows

isExpanded(l, i) == panel[l][i] = "open" \/ (panel[l][i] = "unset" /\ reviewing)

\* What the screen asks of a list, as its lists are used here.
hasMore(l) == loaded[l] > 0 /\ lastPage[l] >= PageRows

\* Faulty: only the lists of panels are asked.
paginationDrainedPanels == \A l \in DrainedLists \cap PanelLists : ~hasMore(l)

paginationDrained == \A l \in DrainedLists : ~hasMore(l)

resultExpanded ==
  /\ \A l \in PanelLists : \A i \in 1 .. loaded[l] : isExpanded(l, i)
  /\ paginationDrained

resultLoading ==
  ~statement \/ \E l \in asked \cap AwaitedLists : spins \/ l \notin answered

resultReady == resultExpanded /\ ~resultLoading

Press ==
  /\ presses > 0
  /\ presses' = presses - 1

----------------------------------------------------------------------------
StatementArrives ==
  /\ ~statement
  /\ statement' = TRUE
  /\ reviewing' = (reviewing \/ accepts)
  /\ asked' = Lists
  /\ UNCHANGED <<given, loaded, lastPage, answered, panel, presses>>

\* The next page of a paged list.
PageArrives(l) ==
  /\ l \in asked \cap DrainedLists
  /\ LET rest == total[l] - loaded[l]
         n == IF rest < PageRows THEN rest ELSE PageRows IN
       /\ loaded' = [loaded EXCEPT ![l] = @ + n]
       /\ lastPage' = [lastPage EXCEPT ![l] = n]
       /\ asked' = IF goesOn /\ reviewing /\ n = PageRows THEN asked ELSE asked \ {l}
  /\ answered' = answered \cup {l}
  /\ UNCHANGED <<given, statement, reviewing, panel, presses>>

\* A list that comes in one piece.
ListArrives(l) ==
  /\ l \in asked \ DrainedLists
  /\ loaded' = [loaded EXCEPT ![l] = total[l]]
  /\ asked' = asked \ {l}
  /\ answered' = answered \cup {l}
  /\ UNCHANGED <<given, statement, reviewing, lastPage, panel, presses>>

\* The button is there while the list has more and nobody reviews.
LoadMore(l) ==
  /\ Press
  /\ l \in DrainedLists
  /\ hasMore(l) /\ ~reviewing
  /\ asked' = asked \cup {l}
  /\ UNCHANGED <<given, statement, reviewing, loaded, lastPage, answered, panel>>

loadAllPages == {l \in DrainedLists : lastPage[l] = PageRows}

expandPanels(open) ==
  /\ panel' = [l \in Lists |-> [i \in Positions |->
                 IF i <= loaded[l] THEN (IF open THEN "open" ELSE "shut") ELSE panel[l][i]]]
  /\ reviewing' = open
  /\ asked' = IF open THEN asked \cup loadAllPages ELSE asked

toggleResultPanels ==
  /\ statement
  /\ Press
  /\ expandPanels(~reviewing)
  /\ UNCHANGED <<given, statement, loaded, lastPage, answered>>

\* A click negates panel.expanded: unset becomes open.
ClickResultPanel(l, i) ==
  /\ l \in PanelLists
  /\ Press
  /\ i <= loaded[l]
  /\ panel' = [panel EXCEPT ![l][i] = IF @ = "open" THEN "shut" ELSE "open"]
  /\ UNCHANGED <<given, statement, reviewing, loaded, lastPage, asked, answered>>

----------------------------------------------------------------------------
Totals == {f \in [Lists -> 0 .. MaxRows] : \A l \in Lists : f[l] \in RowCounts[l]}

ResultInit ==
  /\ total \in Totals
  /\ accepts \in BOOLEAN /\ goesOn \in BOOLEAN /\ spins \in BOOLEAN
  /\ statement = FALSE
  /\ reviewing \in BOOLEAN
  /\ loaded = [l \in Lists |-> 0]
  /\ lastPage = [l \in Lists |-> 0]
  /\ asked = {} /\ answered = {}
  /\ panel = [l \in Lists |-> [i \in Positions |-> "unset"]]
  /\ presses = MaxPresses

ResultNext ==
  \/ StatementArrives
  \/ toggleResultPanels
  \/ \E l \in Lists :
       \/ PageArrives(l) \/ ListArrives(l)
       \/ LoadMore(l)
       \/ \E i \in Positions : ClickResultPanel(l, i)

ResultSpec == ResultInit /\ [][ResultNext]_resultVars

\* What is asked for arrives.
ResultFairness == \A l \in Lists : WF_resultVars(PageArrives(l) \/ ListArrives(l))

----------------------------------------------------------------------------
ResultTypeOK ==
  /\ total \in [Lists -> 0 .. MaxRows]
  /\ {accepts, goesOn, spins, statement} \subseteq BOOLEAN /\ reviewing \in BOOLEAN
  /\ loaded \in [Lists -> Nat]
  /\ \A l \in Lists : loaded[l] <= total[l]
  /\ lastPage \in [Lists -> 0 .. PageRows]
  /\ {asked, answered} \subseteq SUBSET Lists
  /\ panel \in [Lists -> [Positions -> {"unset", "open", "shut"}]]
  /\ presses \in Nat

WhollyOpen(l) ==
  /\ loaded[l] = total[l]
  /\ l \in PanelLists => \A i \in 1 .. total[l] : isExpanded(l, i)

\* The signature unlocks only over the whole of the paged lists: every row has
\* arrived and its panel is open, whatever was collapsed, expanded or asked
\* for while pages were under way, and whether or not the spinner waits for
\* the pages after the first.
\* It says nothing of the rankings, a section with panels of its own: the
\* lock does not wait for them, and unlocks before they arrive.
ReadyMeansAllRead == resultReady => \A l \in DrainedLists : WhollyOpen(l)

\* A statement under review unlocks by itself when its lists go on to the last
\* page, unless somebody presses something.
UnderReviewUnlocks ==
  statement /\ reviewing /\ goesOn ~> (resultReady \/ presses < MaxPresses)
=============================================================================
