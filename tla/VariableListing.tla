--------------------------- MODULE VariableListing ---------------------------
(***************************************************************************)
(* VariableComponent: the infinite-scroll listing that some ninety screens *)
(* share.  A page is asked with the cursor and the filter of that instant, *)
(* at most one request is listened to, and the filter may be edited, rows  *)
(* disabled and the page reloaded by a timer while it is under way.        *)
(***************************************************************************)
EXTENDS Integers, FiniteSets

CONSTANTS
  Rows,          \* variables of the base, numbered in the order it lists them
  PageLength,    \* pageLength, 9 in the code
  MaxVisits,     \* bound on the times the route delivers a filter
  MaxEdits,      \* bound on edits of the filter form
  MaxScrolls,    \* bound on the scrolls of one visit
  MaxMutations,  \* bound on the rows disabled or enabled
  MaxFaults,     \* bound on requests that fail
  NoRequest

ASSUME RowsAssumption == Rows \subseteq Nat \ {0} /\ IsFiniteSet(Rows)
ASSUME PageLengthAssumption == PageLength \in Nat \ {0}
ASSUME BoundsAssumption == {MaxVisits, MaxEdits, MaxScrolls, MaxMutations, MaxFaults} \subseteq Nat

Filters == {"true", "false", ""}     \* filter.enabled: "" lists both

VARIABLES
  enabled,         \* the base: the rows that are enabled
  url,             \* the filter of the last queryParams
  filter,          \* this.filter, edited in place by the form
  endCursor,       \* this.endCursor, as the rows up to it: {} while undefined
  defined,         \* this.variables !== undefined
  listed,          \* this.variables, how many times each row is in it
  lastPageLength,
  loading,
  loadingMore,
  request,         \* variablesSubscription: the page it waits for
  mutations,       \* mutations under way, each heard by the page that sent it or not
  timers,          \* reloads due, one for each message shown
  spent,           \* what is left of each bound
  asked,           \* history: the filters the rows listed were asked with
  moved            \* history: the base moved since the list was started over

screen == <<filter, endCursor, defined, listed, lastPageLength, loading, loadingMore, request>>
history == <<asked, moved>>
vars == <<enabled, url, screen, mutations, timers, spent, history>>

----------------------------------------------------------------------------
(* The service of the listing.                                             *)

Matching(f) ==
  CASE f = "true"  -> enabled
    [] f = "false" -> Rows \ enabled
    [] OTHER       -> Rows

\* The first PageLength rows of the filter after the cursor.
Page(f, c) ==
  {i \in Matching(f) \ c : Cardinality({j \in Matching(f) \ c : j <= i}) <= PageLength}

\* Faulty: a page that ends one row further.
UpToNext(page) == {i + 1 : i \in {k \in Rows : \E j \in page : k <= j}}

UpTo(page) == {i \in Rows : \E j \in page : i <= j}

Request(c, f) == [cursor |-> c, filter |-> f]

\* Faulty: a full page is not taken for a sign of more.
hasMorePastFull == defined /\ (\E i \in Rows : listed[i] > 0) /\ lastPageLength > PageLength

hasMore == defined /\ (\E i \in Rows : listed[i] > 0) /\ lastPageLength >= PageLength

Spend(bound) ==
  /\ spent[bound] > 0
  /\ spent' = [spent EXCEPT ![bound] = @ - 1]

----------------------------------------------------------------------------
(* ngOnInit, which subscribes to the query parameters: a new visit, or a   *)
(* filter submitted by the form.                                           *)

\* Faulty: the cursor survives a new filter.
StartOverKeepsCursor(f) ==
  /\ filter' = f
  /\ defined' = FALSE
  /\ listed' = [i \in Rows |-> 0]
  /\ loading' = TRUE
  /\ loadingMore' = TRUE
  /\ request' = Request(endCursor, f)
  /\ asked' = {}
  /\ moved' = FALSE
  /\ UNCHANGED endCursor

\* Faulty: the rows survive a new filter.
StartOverKeepsRows(f) ==
  /\ filter' = f
  /\ endCursor' = {}
  /\ loading' = TRUE
  /\ loadingMore' = TRUE
  /\ request' = Request({}, f)
  /\ asked' = {}
  /\ moved' = FALSE
  /\ UNCHANGED <<defined, listed>>

StartOver(f) ==
  /\ filter' = f
  /\ endCursor' = {}
  /\ defined' = FALSE
  /\ listed' = [i \in Rows |-> 0]
  /\ loading' = TRUE
  /\ loadingMore' = TRUE
  /\ request' = Request({}, f)
  /\ asked' = {}
  /\ moved' = FALSE

QueryParams(f) ==
  /\ spent["visits"] > 0
  /\ spent' = [spent EXCEPT !["visits"] = @ - 1, !["scrolls"] = MaxScrolls]
  /\ url' = f
  /\ StartOver(f)
  /\ UNCHANGED <<enabled, lastPageLength, mutations, timers>>

\* The setters of the form edit this.filter, which the next page is asked with.
EditFilter(f) ==
  /\ Spend("edits")
  /\ filter' = f
  /\ UNCHANGED <<enabled, url, endCursor, defined, listed, lastPageLength, loading, loadingMore,
                 request, mutations, timers, history>>

\* handleScroll calls getVariables, which drops the request it was waiting for.
HandleScroll ==
  /\ Spend("scrolls")
  /\ loadingMore' = TRUE
  /\ request' = Request(endCursor, filter)
  /\ UNCHANGED <<enabled, url, filter, endCursor, defined, listed, lastPageLength, loading,
                 mutations, timers, history>>

\* Faulty: the request that was answered is still listened to.
AnswerHeardTwice ==
  /\ request # NoRequest
  /\ LET page == Page(request.filter, request.cursor) IN
       /\ lastPageLength' = Cardinality(page)
       /\ listed' = [i \in Rows |-> IF i \in page THEN listed[i] + 1 ELSE listed[i]]
       /\ endCursor' = endCursor \cup UpTo(page)
  /\ defined' = TRUE
  /\ loading' = FALSE
  /\ loadingMore' = FALSE
  /\ request' \in {request, NoRequest}
  /\ asked' = asked \cup {request.filter}
  /\ UNCHANGED <<enabled, url, filter, mutations, timers, spent, moved>>

\* The page is read and taken in.
Answer ==
  /\ request # NoRequest
  /\ LET page == Page(request.filter, request.cursor) IN
       /\ lastPageLength' = Cardinality(page)
       /\ listed' = [i \in Rows |-> IF i \in page THEN listed[i] + 1 ELSE listed[i]]
       /\ endCursor' = endCursor \cup UpTo(page)
  /\ defined' = TRUE
  /\ loading' = FALSE
  /\ loadingMore' = FALSE
  /\ request' = NoRequest
  /\ asked' = asked \cup {request.filter}
  /\ UNCHANGED <<enabled, url, filter, mutations, timers, spent, moved>>

\* The subscription has no error handler: both spinners stay.
RequestFails ==
  /\ request # NoRequest
  /\ Spend("faults")
  /\ request' = NoRequest
  /\ UNCHANGED <<enabled, url, filter, endCursor, defined, listed, lastPageLength, loading,
                 loadingMore, mutations, timers, history>>

----------------------------------------------------------------------------
(* Disabling and enabling a row: the mutation, the message, the reload.    *)

Mutation(i, to) == [row |-> i, to |-> to, applied |-> FALSE, heard |-> TRUE]

Send(i, to) ==
  /\ listed[i] > 0
  /\ Spend("mutations")
  /\ mutations' = mutations \cup {Mutation(i, to)}
  /\ UNCHANGED <<enabled, url, screen, timers, history>>

disabledButton(i) == Send(i, FALSE)
enabledButton(i) == Send(i, TRUE)

Apply(m) ==
  /\ ~m.applied
  /\ enabled' = IF m.to THEN enabled \cup {m.row} ELSE enabled \ {m.row}
  /\ mutations' = (mutations \ {m}) \cup {[m EXCEPT !.applied = TRUE]}
  /\ moved' = TRUE
  /\ UNCHANGED <<url, screen, timers, spent, asked>>

MutationFails(m) ==
  /\ ~m.applied
  /\ Spend("faults")
  /\ mutations' = mutations \ {m}
  /\ UNCHANGED <<enabled, url, screen, timers, history>>

\* Faulty: the message does not reload.
MutationOnlyAnnounced(m) ==
  /\ m.applied
  /\ mutations' = mutations \ {m}
  /\ UNCHANGED <<enabled, url, screen, timers, spent, history>>

\* Its answer shows the message and sets the timer that reloads the page; a
\* page that was reloaded since is not there to hear it.
MutationAnswered(m) ==
  /\ m.applied
  /\ mutations' = mutations \ {m}
  /\ timers' = IF m.heard THEN timers + 1 ELSE timers
  /\ UNCHANGED <<enabled, url, screen, spent, history>>

\* The first timer to fire reloads the page: the others, the edits of the
\* form and whoever waited for a mutation are gone.
Reload ==
  /\ timers > 0
  /\ timers' = 0
  /\ lastPageLength' = 0
  /\ mutations' = {[m EXCEPT !.heard = FALSE] : m \in mutations}
  /\ StartOver(url)
  /\ spent' = [spent EXCEPT !["scrolls"] = MaxScrolls]
  /\ UNCHANGED <<enabled, url>>

----------------------------------------------------------------------------
Bounds == [visits |-> MaxVisits, edits |-> MaxEdits, scrolls |-> MaxScrolls,
           mutations |-> MaxMutations, faults |-> MaxFaults]

Init ==
  /\ enabled \in SUBSET Rows
  /\ url \in Filters
  /\ filter = url
  /\ endCursor = {}
  /\ defined = FALSE
  /\ listed = [i \in Rows |-> 0]
  /\ lastPageLength = 0
  /\ loading = TRUE
  /\ loadingMore = TRUE
  /\ request = Request({}, url)
  /\ mutations = {}
  /\ timers = 0
  /\ spent = Bounds
  /\ asked = {}
  /\ moved = FALSE

Network ==
  \/ Answer
  \/ RequestFails
  \/ \E m \in mutations : Apply(m) \/ MutationFails(m) \/ MutationAnswered(m)
  \/ Reload

User ==
  \/ \E f \in Filters : QueryParams(f) \/ EditFilter(f)
  \/ HandleScroll
  \/ \E i \in Rows : disabledButton(i) \/ enabledButton(i)

Next == Network \/ User

Spec == Init /\ [][Next]_vars

\* A page asked for is answered or fails, a mutation is applied and answered,
\* a timer fires; nobody is bound to scroll, edit or press anything.
Fairness ==
  /\ WF_vars(Answer)
  /\ WF_vars(\E m \in mutations : Apply(m) \/ MutationAnswered(m))
  /\ WF_vars(Reload)

FairSpec == Spec /\ Fairness

----------------------------------------------------------------------------
TypeOK ==
  /\ enabled \subseteq Rows
  /\ url \in Filters /\ filter \in Filters
  /\ endCursor \subseteq Rows
  /\ defined \in BOOLEAN /\ loading \in BOOLEAN /\ loadingMore \in BOOLEAN
  /\ listed \in [Rows -> Nat]
  /\ lastPageLength \in Nat
  /\ request \in [cursor : SUBSET Rows, filter : Filters] \cup {NoRequest}
  /\ mutations \subseteq [row : Rows, to : BOOLEAN, applied : BOOLEAN, heard : BOOLEAN]
  /\ timers \in Nat
  /\ spent \in [DOMAIN Bounds -> Nat]
  /\ asked \subseteq Filters
  /\ moved \in BOOLEAN

\* Whatever is scrolled, edited, disabled or reloaded while pages are under
\* way, no row is listed twice, and none beyond the cursor.
ListedOnce == \A i \in Rows : listed[i] <= (IF i \in endCursor THEN 1 ELSE 0)

\* The rows of one filter over a base that stood still: the list holds all of
\* them up to the cursor and no other.
Steady(f) == ~moved /\ asked = {f}

NothingSkipped ==
  \A f \in Filters : Steady(f) =>
    \A i \in Rows : listed[i] > 0 <=> i \in Matching(f) /\ i \in endCursor

\* When the listing is at rest and offers no more, or says that there are no
\* variables, every row of its filter is on the screen.
NoMoreMeansAll ==
  \A f \in Filters : Steady(f) /\ request = NoRequest /\ ~hasMore =>
    \A i \in Matching(f) : listed[i] > 0

Listing == INSTANCE CursorListing WITH
  matching <- [f \in Filters |-> Matching(f)],
  cursor <- endCursor

\* However requests are dropped and asked again, the list only starts over or
\* grows by the page after its cursor.
RefinesListing == Listing!Spec

\* The spinner of the first page ends, unless a request failed.
LoadingEnds == loading ~> (~loading \/ spent["faults"] < MaxFaults)

\* Once the page hears that a row was disabled or enabled, it starts over and
\* lists the base as it is.
HeardIsShown == (\E m \in mutations : m.applied /\ m.heard) ~> ~moved

\* The listing never stays behind what it is waiting for.
CatchesUp == LoadingEnds /\ HeardIsShown
=============================================================================
