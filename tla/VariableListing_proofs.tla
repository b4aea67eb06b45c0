------------------------ MODULE VariableListing_proofs ------------------------
(***************************************************************************)
(* Proofs about the listing, for any base, page length and number of       *)
(* scrolls, edits, mutations and failures.                                 *)
(***************************************************************************)
EXTENDS VariableListing, FiniteSetTheorems, TLAPS

\* A page under way follows the cursor of the list: StartOver resets both, a
\* scroll asks with the present one, and only an answer moves it.
RequestIsCurrent == request # NoRequest => request.cursor = endCursor

\* A list nothing was answered to since it started over is empty.
FreshIsEmpty == asked = {} => endCursor = {} /\ \A i \in Rows : listed[i] = 0

ListingInv == TypeOK /\ RequestIsCurrent /\ ListedOnce /\ FreshIsEmpty

LEMMA MatchingType ==
  ASSUME TypeOK, NEW f
  PROVE  Matching(f) \subseteq Rows
BY DEF TypeOK, Matching

LEMMA PageType ==
  ASSUME TypeOK, NEW f, NEW c
  PROVE  /\ Page(f, c) \subseteq Matching(f) \ c
         /\ Page(f, c) \subseteq Rows
         /\ Cardinality(Page(f, c)) \in Nat
         /\ Page(f, c) \subseteq UpTo(Page(f, c))
         /\ UpTo(Page(f, c)) \subseteq Rows
<1>1. Page(f, c) \subseteq Matching(f) \ c
  BY DEF Page
<1>2. Page(f, c) \subseteq Rows
  BY <1>1, MatchingType
<1>3. IsFiniteSet(Page(f, c))
  BY <1>2, FS_Subset, RowsAssumption
<1>4. Cardinality(Page(f, c)) \in Nat
  BY <1>3, FS_CardinalityType
<1>5. ASSUME NEW i \in Page(f, c) PROVE i \in Rows /\ i <= i
  <2>1. i \in Nat
    BY <1>2, RowsAssumption
  <2> QED
    BY <1>2, <2>1
<1> QED
  BY <1>1, <1>2, <1>4, <1>5 DEF UpTo

LEMMA RequestType ==
  ASSUME NEW c \in SUBSET Rows, NEW f \in Filters
  PROVE  /\ Request(c, f) \in [cursor : SUBSET Rows, filter : Filters]
         /\ Request(c, f).cursor = c
BY DEF Request

LEMMA SpendType ==
  ASSUME TypeOK, NEW b \in DOMAIN Bounds, Spend(b)
  PROVE  spent' \in [DOMAIN Bounds -> Nat]
BY DEF TypeOK, Spend

LEMMA BoundsType ==
  /\ DOMAIN Bounds = {"visits", "edits", "scrolls", "mutations", "faults"}
  /\ Bounds \in [DOMAIN Bounds -> Nat]
  /\ MaxScrolls \in Nat
BY BoundsAssumption DEF Bounds

LEMMA InitListing == Init => ListingInv
<1> SUFFICES ASSUME Init PROVE ListingInv
  OBVIOUS
<1>1. request \in [cursor : SUBSET Rows, filter : Filters] /\ request.cursor = {}
  BY RequestType DEF Init
<1>2. spent \in [DOMAIN Bounds -> Nat]
  BY BoundsType DEF Init
<1>3. TypeOK
  BY <1>1, <1>2 DEF Init, TypeOK
<1>4. endCursor = {} /\ \A i \in Rows : listed[i] = 0
  BY DEF Init
<1>5. RequestIsCurrent
  BY <1>1, <1>4 DEF RequestIsCurrent
<1> QED
  BY <1>3, <1>4, <1>5 DEF ListingInv, ListedOnce, FreshIsEmpty

\* Starting over empties the list, whatever was under way.
LEMMA StartOverListing ==
  ASSUME ListingInv, NEW f \in Filters, StartOver(f)
  PROVE  /\ filter' \in Filters /\ endCursor' = {} /\ defined' = FALSE /\ listed' \in [Rows -> Nat]
         /\ loading' \in BOOLEAN /\ loadingMore' \in BOOLEAN
         /\ request' \in [cursor : SUBSET Rows, filter : Filters]
         /\ asked' = {} /\ moved' = FALSE
         /\ RequestIsCurrent' /\ ListedOnce' /\ FreshIsEmpty'
<1>1. listed' = [i \in Rows |-> 0] /\ endCursor' = {} /\ request' = Request({}, f)
  BY DEF StartOver
<1>2. request' \in [cursor : SUBSET Rows, filter : Filters] /\ request'.cursor = {}
  BY <1>1, RequestType
<1> QED
  BY <1>1, <1>2 DEF StartOver, RequestIsCurrent, ListedOnce, FreshIsEmpty

LEMMA QueryParamsListing ==
  ASSUME ListingInv, NEW f \in Filters, QueryParams(f)
  PROVE  ListingInv'
<1>1. StartOver(f)
  BY DEF QueryParams
<1>2. spent' \in [DOMAIN Bounds -> Nat]
  BY BoundsType DEF QueryParams, ListingInv, TypeOK
<1>3. TypeOK'
  BY <1>1, <1>2, StartOverListing DEF QueryParams, ListingInv, TypeOK
<1> QED
  BY <1>1, <1>3, StartOverListing DEF ListingInv

LEMMA EditListing ==
  ASSUME ListingInv, NEW f \in Filters, EditFilter(f)
  PROVE  ListingInv'
<1>1. spent' \in [DOMAIN Bounds -> Nat]
  BY SpendType, BoundsType DEF EditFilter, ListingInv
<1> QED
  BY <1>1 DEF EditFilter, ListingInv, TypeOK, RequestIsCurrent, ListedOnce, FreshIsEmpty, history

\* A scroll drops the page under way and asks with the cursor of the list.
LEMMA ScrollListing ==
  ASSUME ListingInv, HandleScroll
  PROVE  ListingInv'
<1>1. spent' \in [DOMAIN Bounds -> Nat]
  BY SpendType, BoundsType DEF HandleScroll, ListingInv
<1>2. /\ request' \in [cursor : SUBSET Rows, filter : Filters]
      /\ request'.cursor = endCursor
  BY RequestType DEF HandleScroll, ListingInv, TypeOK
<1> QED
  BY <1>1, <1>2 DEF HandleScroll, ListingInv, TypeOK, RequestIsCurrent, ListedOnce, FreshIsEmpty, history

\* The page that is answered lies beyond the cursor, so none of its rows is
\* listed yet.
LEMMA AnswerListing ==
  ASSUME ListingInv, Answer
  PROVE  ListingInv'
<1> DEFINE page == Page(request.filter, request.cursor)
<1>1. request.cursor = endCursor /\ request.filter \in Filters
  BY DEF ListingInv, TypeOK, RequestIsCurrent, Answer
<1>2. /\ page \subseteq Rows /\ page \cap endCursor = {}
      /\ page \subseteq UpTo(page) /\ UpTo(page) \subseteq Rows /\ Cardinality(page) \in Nat
  BY <1>1, PageType DEF ListingInv
<1>3. /\ listed' = [i \in Rows |-> IF i \in page THEN listed[i] + 1 ELSE listed[i]]
      /\ endCursor' = endCursor \cup UpTo(page)
      /\ lastPageLength' = Cardinality(page)
  BY DEF Answer
<1> HIDE DEF page
<1>4. listed' \in [Rows -> Nat]
  BY <1>3 DEF ListingInv, TypeOK
<1>5. TypeOK'
  BY <1>1, <1>2, <1>3, <1>4 DEF Answer, ListingInv, TypeOK
<1>6. ListedOnce'
  BY <1>2, <1>3 DEF ListingInv, TypeOK, ListedOnce
<1> QED
  BY <1>1, <1>5, <1>6 DEF Answer, ListingInv, RequestIsCurrent, FreshIsEmpty

LEMMA FailListing ==
  ASSUME ListingInv, RequestFails
  PROVE  ListingInv'
<1>1. spent' \in [DOMAIN Bounds -> Nat]
  BY SpendType, BoundsType DEF RequestFails, ListingInv
<1> QED
  BY <1>1 DEF RequestFails, ListingInv, TypeOK, RequestIsCurrent, ListedOnce, FreshIsEmpty, history

LEMMA SendListing ==
  ASSUME ListingInv, NEW i \in Rows, NEW to \in BOOLEAN, Send(i, to)
  PROVE  ListingInv'
<1>1. spent' \in [DOMAIN Bounds -> Nat]
  BY SpendType, BoundsType DEF Send, ListingInv
<1>2. Mutation(i, to) \in [row : Rows, to : BOOLEAN, applied : BOOLEAN, heard : BOOLEAN]
  BY DEF Mutation
<1> QED
  BY <1>1, <1>2 DEF Send, ListingInv, TypeOK, RequestIsCurrent, ListedOnce, FreshIsEmpty, history, screen

LEMMA MutationListing ==
  ASSUME ListingInv, NEW m \in mutations, Apply(m) \/ MutationFails(m) \/ MutationAnswered(m)
  PROVE  ListingInv'
<1> USE DEF ListingInv, TypeOK, RequestIsCurrent, ListedOnce, FreshIsEmpty, screen
<1>1. CASE Apply(m)
  <2>1. [m EXCEPT !.applied = TRUE] \in [row : Rows, to : BOOLEAN, applied : BOOLEAN, heard : BOOLEAN]
    OBVIOUS
  <2> QED
    BY <1>1, <2>1 DEF Apply
<1>2. CASE MutationFails(m)
  <2>1. spent' \in [DOMAIN Bounds -> Nat]
    BY <1>2, SpendType, BoundsType DEF MutationFails
  <2> QED
    BY <1>2, <2>1 DEF MutationFails, history
<1>3. CASE MutationAnswered(m)
  BY <1>3 DEF MutationAnswered, history
<1> QED
  BY <1>1, <1>2, <1>3

LEMMA ReloadListing ==
  ASSUME ListingInv, Reload
  PROVE  ListingInv'
<1>1. StartOver(url) /\ url \in Filters
  BY DEF Reload, ListingInv, TypeOK
<1>2. spent' \in [DOMAIN Bounds -> Nat]
  BY BoundsType DEF Reload, ListingInv, TypeOK
<1>3. mutations' \subseteq [row : Rows, to : BOOLEAN, applied : BOOLEAN, heard : BOOLEAN]
  BY DEF Reload, ListingInv, TypeOK
<1>4. TypeOK'
  BY <1>1, <1>2, <1>3, StartOverListing DEF Reload, ListingInv, TypeOK
<1> QED
  BY <1>1, <1>4, StartOverListing DEF ListingInv

LEMMA NextListing == ListingInv /\ [Next]_vars => ListingInv'
<1> SUFFICES ASSUME ListingInv, [Next]_vars PROVE ListingInv'
  OBVIOUS
<1>1. CASE Answer
  BY <1>1, AnswerListing
<1>2. CASE RequestFails
  BY <1>2, FailListing
<1>3. CASE \E m \in mutations : Apply(m) \/ MutationFails(m) \/ MutationAnswered(m)
  BY <1>3, MutationListing
<1>4. CASE Reload
  BY <1>4, ReloadListing
<1>5. CASE \E f \in Filters : QueryParams(f) \/ EditFilter(f)
  BY <1>5, QueryParamsListing, EditListing
<1>6. CASE HandleScroll
  BY <1>6, ScrollListing
<1>7. CASE \E i \in Rows : disabledButton(i) \/ enabledButton(i)
  BY <1>7, SendListing DEF disabledButton, enabledButton
<1>8. CASE UNCHANGED vars
  BY <1>8 DEF vars, screen, history, ListingInv, TypeOK, RequestIsCurrent, ListedOnce, FreshIsEmpty
<1> QED
  BY <1>1, <1>2, <1>3, <1>4, <1>5, <1>6, <1>7, <1>8 DEF Next, Network, User

LEMMA ListingInvariant == Spec => []ListingInv
<1>1. Init => ListingInv
  BY InitListing
<1>2. ListingInv /\ [Next]_vars => ListingInv'
  BY NextListing
<1> QED
  BY <1>1, <1>2, PTL DEF Spec

\* The state of the listing stays well formed.
THEOREM ListingTypeCorrect == Spec => []TypeOK
<1>1. ListingInv => TypeOK
  BY DEF ListingInv
<1> QED
  BY <1>1, ListingInvariant, PTL

\* However pages are dropped, asked again and answered, getVariables never puts
\* a row on the screen twice, nor one beyond the cursor.
THEOREM NoRowIsListedTwice == Spec => []ListedOnce
<1>1. ListingInv => ListedOnce
  BY DEF ListingInv
<1> QED
  BY <1>1, ListingInvariant, PTL

----------------------------------------------------------------------------
(* Nothing is skipped.                                                     *)

\* A page has no holes: a matching row beyond the cursor and before one of its
\* rows is in it.
LEMMA PageHasNoHoles ==
  ASSUME TypeOK, NEW f, NEW c, NEW j \in Page(f, c), NEW i \in Matching(f) \ c, i <= j
  PROVE  i \in Page(f, c)
<1> DEFINE Upto(k) == {h \in Matching(f) \ c : h <= k}
<1>1. Matching(f) \subseteq Rows /\ Rows \subseteq Nat
  BY MatchingType, RowsAssumption
<1>2. j \in Matching(f) /\ Cardinality(Upto(j)) <= PageLength
  BY DEF Page
<1>3. Upto(i) \subseteq Upto(j)
  <2>1. i \in Nat /\ j \in Nat
    BY <1>1, <1>2
  <2>2. \A h \in Matching(f) \ c : h \in Nat /\ (h <= i => h <= j)
    BY <1>1, <2>1
  <2> QED
    BY <2>2
<1>4. IsFiniteSet(Upto(j))
  BY <1>1, FS_Subset, RowsAssumption
<1>5. /\ Cardinality(Upto(i)) <= Cardinality(Upto(j))
      /\ Cardinality(Upto(i)) \in Nat /\ Cardinality(Upto(j)) \in Nat
  <2>1. IsFiniteSet(Upto(i))
    BY <1>3, <1>4, FS_Subset
  <2> HIDE DEF Upto
  <2> QED
    BY <1>3, <1>4, <2>1, FS_Subset, FS_CardinalityType
<1>6. Cardinality(Upto(i)) <= PageLength
  BY <1>2, <1>5, PageLengthAssumption
<1> QED
  BY <1>6 DEF Page

LEMMA SkipsNothingStill ==
  ASSUME NothingSkipped, UNCHANGED <<enabled, listed, endCursor, history>>
  PROVE  NothingSkipped'
<1>1. \A f \in Filters : Matching(f)' = Matching(f)
  BY DEF Matching
<1> QED
  BY <1>1 DEF NothingSkipped, Steady, history

\* A list that started over was answered with no filter yet.
LEMMA SkipsNothingAnew ==
  ASSUME asked' = {} \/ moved' = TRUE
  PROVE  NothingSkipped'
BY DEF NothingSkipped, Steady

LEMMA SkipsNothingAnswered ==
  ASSUME ListingInv, NothingSkipped, Answer
  PROVE  NothingSkipped'
<1> SUFFICES ASSUME NEW f \in Filters, Steady(f)', NEW i \in Rows
             PROVE  listed'[i] > 0 <=> i \in Matching(f)' /\ i \in endCursor'
  BY DEF NothingSkipped
<1> DEFINE page == Page(f, endCursor)
<1>1. request.cursor = endCursor /\ request.filter \in Filters
  BY DEF ListingInv, TypeOK, RequestIsCurrent, Answer
<1>2. request.filter = f /\ (asked = {} \/ asked = {f}) /\ ~moved
  BY DEF Steady, Answer
<1>3. listed[i] > 0 <=> i \in Matching(f) /\ i \in endCursor
  <2>1. CASE asked = {}
    BY <2>1 DEF ListingInv, FreshIsEmpty
  <2>2. CASE asked = {f}
    BY <1>2, <2>2 DEF NothingSkipped, Steady
  <2> QED
    BY <1>2, <2>1, <2>2
<1>4. Matching(f)' = Matching(f)
  BY DEF Matching, Answer
<1>5. /\ listed'[i] = IF i \in page THEN listed[i] + 1 ELSE listed[i]
      /\ endCursor' = endCursor \cup UpTo(page)
  BY <1>1, <1>2 DEF Answer
<1>6. page \subseteq Matching(f) \ endCursor /\ page \subseteq UpTo(page)
  BY PageType DEF ListingInv
<1>7. ASSUME i \in Matching(f) \ endCursor, i \in UpTo(page)
      PROVE  i \in page
  BY <1>7, PageHasNoHoles DEF UpTo, ListingInv
<1>8. listed[i] \in Nat
  BY DEF ListingInv, TypeOK
<1> HIDE DEF page
<1> QED
  BY <1>3, <1>4, <1>5, <1>6, <1>7, <1>8

LEMMA NextSkipsNothing == ListingInv /\ NothingSkipped /\ [Next]_vars => NothingSkipped'
<1> SUFFICES ASSUME ListingInv, NothingSkipped, [Next]_vars PROVE NothingSkipped'
  OBVIOUS
<1>1. CASE Answer
  BY <1>1, SkipsNothingAnswered
<1>2. CASE RequestFails \/ HandleScroll
  BY <1>2, SkipsNothingStill DEF RequestFails, HandleScroll
<1>3. CASE \E m \in mutations : Apply(m)
  BY <1>3, SkipsNothingAnew DEF Apply
<1>4. CASE \E m \in mutations : MutationFails(m) \/ MutationAnswered(m)
  BY <1>4, SkipsNothingStill DEF MutationFails, MutationAnswered, screen
<1>5. CASE Reload
  BY <1>5, SkipsNothingAnew DEF Reload, StartOver
<1>6. CASE \E f \in Filters : QueryParams(f)
  BY <1>6, SkipsNothingAnew DEF QueryParams, StartOver
<1>7. CASE \E f \in Filters : EditFilter(f)
  BY <1>7, SkipsNothingStill DEF EditFilter
<1>8. CASE \E i \in Rows : disabledButton(i) \/ enabledButton(i)
  BY <1>8, SkipsNothingStill DEF disabledButton, enabledButton, Send, screen
<1>9. CASE UNCHANGED vars
  BY <1>9, SkipsNothingStill DEF vars, screen
<1> QED
  BY <1>1, <1>2, <1>3, <1>4, <1>5, <1>6, <1>7, <1>8, <1>9 DEF Next, Network, User

\* Over a base that stands still, a list read with one filter holds every row
\* of that filter up to the cursor, in whatever order pages were asked.
THEOREM NoRowIsSkipped == Spec => []NothingSkipped
<1>1. Init => NothingSkipped
  BY DEF Init, NothingSkipped, Steady
<1>2. ListingInv /\ NothingSkipped /\ [Next]_vars => NothingSkipped'
  BY NextSkipsNothing
<1> QED
  BY <1>1, <1>2, ListingInvariant, PTL DEF Spec

----------------------------------------------------------------------------
(* What a short page says.                                                 *)

\* The least of a finite set: the one with the smallest set of others up to it.
LEMMA LeastNatural ==
  ASSUME NEW S, S \subseteq Nat, S # {}, IsFiniteSet(S)
  PROVE  \E i \in S : \A j \in S : i <= j
<1> DEFINE Below(k) == {j \in S : j <= k}
           belows == {Below(k) : k \in S}
<1>1. belows \subseteq SUBSET S /\ belows # {}
  OBVIOUS
<1>2. belows \subseteq FiniteSubsetsOf(S)
  BY <1>1, FS_FiniteSubsetsOfFinite
<1> HIDE DEF belows
<1>3. PICK B \in belows : \A C \in belows : ~ (<<C, B>> \in StrictSubsetOrdering(S))
  BY <1>1, <1>2, FS_StrictSubsetOrderingWellFounded, WFMin
<1>4. \A C \in belows : C \subseteq B => C = B
  BY <1>1, <1>3 DEF StrictSubsetOrdering
<1> USE DEF belows
<1>5. PICK i \in S : B = Below(i)
  OBVIOUS
<1>6. ASSUME NEW j \in S PROVE i <= j
  <2> SUFFICES ASSUME ~ (i <= j) PROVE FALSE
    OBVIOUS
  <2>1. i \in Nat /\ j \in Nat
    OBVIOUS
  <2>2. ASSUME NEW k \in S, k <= j PROVE k <= i
    <3>1. k \in Nat
      OBVIOUS
    <3> QED
      BY <2>1, <2>2, <3>1
  <2>3. Below(j) \subseteq Below(i)
    BY <2>2
  <2>4. i \in Below(i) /\ i \notin Below(j)
    BY <2>1
  <2>5. Below(j) = B
    BY <1>4, <1>5, <2>3
  <2> QED
    BY <1>5, <2>4, <2>5
<1> QED
  BY <1>6

\* A page that is not full holds all there is after the cursor: the first row
\* left out would have no more than the page before it.
LEMMA ShortPageIsLast ==
  ASSUME TypeOK, NEW f, NEW c, Cardinality(Page(f, c)) < PageLength
  PROVE  Matching(f) \ c \subseteq Page(f, c)
<1> DEFINE rest == Matching(f) \ c
           left_out == rest \ Page(f, c)
<1>1. rest \subseteq Rows /\ rest \subseteq Nat
  BY MatchingType, RowsAssumption
<1> SUFFICES ASSUME left_out # {} PROVE FALSE
  OBVIOUS
<1>2. PICK i \in left_out : \A j \in left_out : i <= j
  <2>1. IsFiniteSet(left_out)
    BY <1>1, FS_Subset, RowsAssumption
  <2> HIDE DEF left_out
  <2>2. left_out \subseteq Nat
    BY <1>1 DEF left_out
  <2> QED
    BY <2>1, <2>2, LeastNatural
<1> DEFINE before == {j \in rest : j <= i}
<1>3. before \subseteq Page(f, c) \cup {i}
  <2> SUFFICES ASSUME NEW j \in before, j \notin Page(f, c) PROVE j = i
    OBVIOUS
  <2>1. j \in left_out /\ j \in Nat /\ i \in Nat
    BY <1>1, <1>2
  <2> QED
    BY <1>2, <2>1
<1>4. IsFiniteSet(Page(f, c)) /\ i \notin Page(f, c)
  BY <1>2, PageType, FS_Subset, RowsAssumption
<1>5. /\ IsFiniteSet(Page(f, c) \cup {i})
      /\ Cardinality(Page(f, c) \cup {i}) = Cardinality(Page(f, c)) + 1
  BY <1>4, FS_AddElement
<1>6. /\ Cardinality(before) <= Cardinality(Page(f, c) \cup {i})
      /\ IsFiniteSet(before)
  <2> HIDE DEF before
  <2> QED
    BY <1>3, <1>5, FS_Subset
<1>7. Cardinality(before) \in Nat /\ Cardinality(Page(f, c)) \in Nat
  BY <1>6, PageType, FS_CardinalityType
<1>8. Cardinality(before) <= PageLength
  BY <1>5, <1>6, <1>7, PageLengthAssumption
<1>9. i \in Page(f, c)
  BY <1>2, <1>8 DEF Page
<1> QED
  BY <1>4, <1>9

\* The length that is kept is that of the last page of the list.
LastPage ==
  \A f \in Filters : Steady(f) =>
    /\ defined
    /\ lastPageLength > 0 => \E i \in Rows : listed[i] > 0
    /\ lastPageLength < PageLength => Matching(f) \subseteq endCursor

LEMMA LastPageStill ==
  ASSUME LastPage, UNCHANGED <<enabled, defined, listed, endCursor, lastPageLength, history>>
  PROVE  LastPage'
<1>1. \A f \in Filters : Matching(f)' = Matching(f)
  BY DEF Matching
<1> QED
  BY <1>1 DEF LastPage, Steady, history

LEMMA LastPageAnew ==
  ASSUME asked' = {} \/ moved' = TRUE
  PROVE  LastPage'
BY DEF LastPage, Steady

LEMMA LastPageAnswered ==
  ASSUME ListingInv, Answer
  PROVE  LastPage'
<1> SUFFICES ASSUME NEW f \in Filters, Steady(f)'
             PROVE  /\ defined'
                    /\ lastPageLength' > 0 => \E i \in Rows : listed'[i] > 0
                    /\ lastPageLength' < PageLength => Matching(f)' \subseteq endCursor'
  BY DEF LastPage
<1> DEFINE page == Page(f, endCursor)
<1>1. request.cursor = endCursor
  BY DEF ListingInv, RequestIsCurrent, Answer
<1>2. request.filter = f
  BY DEF Steady, Answer
<1>3. /\ lastPageLength' = Cardinality(page)
      /\ \A i \in Rows : listed'[i] = IF i \in page THEN listed[i] + 1 ELSE listed[i]
      /\ endCursor' = endCursor \cup UpTo(page)
      /\ defined'
  BY <1>1, <1>2 DEF Answer
<1>4. Matching(f)' = Matching(f)
  BY DEF Matching, Answer
<1>5. page \subseteq Rows /\ page \subseteq UpTo(page)
  BY PageType DEF ListingInv
<1>6. ASSUME lastPageLength' > 0 PROVE \E i \in Rows : listed'[i] > 0
  <2>1. page # {}
    BY <1>3, <1>6, FS_EmptySet
  <2>2. PICK i \in Rows : i \in page
    BY <1>5, <2>1
  <2>3. listed'[i] = listed[i] + 1 /\ listed[i] \in Nat
    BY <1>3, <2>2 DEF ListingInv, TypeOK
  <2> QED
    BY <2>3
<1>7. ASSUME lastPageLength' < PageLength PROVE Matching(f)' \subseteq endCursor'
  <2>1. Matching(f) \ endCursor \subseteq page
    BY <1>3, <1>7, ShortPageIsLast DEF ListingInv
  <2> HIDE DEF page
  <2> QED
    BY <1>3, <1>4, <1>5, <2>1
<1> QED
  BY <1>3, <1>6, <1>7

LEMMA NextLastPage == ListingInv /\ LastPage /\ [Next]_vars => LastPage'
<1> SUFFICES ASSUME ListingInv, LastPage, [Next]_vars PROVE LastPage'
  OBVIOUS
<1>1. CASE Answer
  BY <1>1, LastPageAnswered
<1>2. CASE RequestFails \/ HandleScroll
  BY <1>2, LastPageStill DEF RequestFails, HandleScroll
<1>3. CASE \E m \in mutations : Apply(m)
  BY <1>3, LastPageAnew DEF Apply
<1>4. CASE \E m \in mutations : MutationFails(m) \/ MutationAnswered(m)
  BY <1>4, LastPageStill DEF MutationFails, MutationAnswered, screen
<1>5. CASE Reload
  BY <1>5, LastPageAnew DEF Reload, StartOver
<1>6. CASE \E f \in Filters : QueryParams(f)
  BY <1>6, LastPageAnew DEF QueryParams, StartOver
<1>7. CASE \E f \in Filters : EditFilter(f)
  BY <1>7, LastPageStill DEF EditFilter
<1>8. CASE \E i \in Rows : disabledButton(i) \/ enabledButton(i)
  BY <1>8, LastPageStill DEF disabledButton, enabledButton, Send, screen
<1>9. CASE UNCHANGED vars
  BY <1>9, LastPageStill DEF vars, screen
<1> QED
  BY <1>1, <1>2, <1>3, <1>4, <1>5, <1>6, <1>7, <1>8, <1>9 DEF Next, Network, User

LEMMA NoMoreIsAll == ListingInv /\ NothingSkipped /\ LastPage => NoMoreMeansAll
<1> SUFFICES ASSUME ListingInv, NothingSkipped, LastPage, NEW f \in Filters, Steady(f),
                    ~hasMore, NEW i \in Matching(f)
             PROVE  listed[i] > 0
  BY DEF NoMoreMeansAll
<1>1. lastPageLength \in Nat /\ i \in Rows
  BY MatchingType DEF ListingInv, TypeOK
<1>2. lastPageLength < PageLength
  BY <1>1, PageLengthAssumption DEF LastPage, hasMore
<1>3. i \in endCursor
  BY <1>2 DEF LastPage
<1> QED
  BY <1>1, <1>3 DEF NothingSkipped

\* Over a base that stands still, a list read with one filter that offers no
\* more, or that says it is empty, holds every row of the filter, for any rows
\* and any page length.
THEOREM NoMoreIsNoMore == Spec => []NoMoreMeansAll
<1>1. Init => NothingSkipped /\ LastPage
  BY DEF Init, NothingSkipped, LastPage, Steady
<1> QED
  BY <1>1, NextSkipsNothing, NextLastPage, NoMoreIsAll, ListingInvariant, PTL DEF Spec

----------------------------------------------------------------------------
(* The listing implements the cursor listing.                              *)

LEMMA SameCardinality == ASSUME NEW S PROVE Listing!Cardinality(S) = Cardinality(S)
BY DEF Listing!Cardinality, Cardinality

\* The page of the code and that of the abstract listing are one.
LEMMA SamePage ==
  ASSUME NEW f \in Filters, NEW c
  PROVE  /\ Listing!Page(f, c) = Page(f, c)
         /\ Listing!UpTo(Page(f, c)) = UpTo(Page(f, c))
<1>1. [g \in Filters |-> Matching(g)][f] = Matching(f)
  OBVIOUS
<1> QED
  BY <1>1, SameCardinality DEF Listing!Page, Page, Listing!UpTo, UpTo

LEMMA InitRefines == Init => Listing!Init
<1> SUFFICES ASSUME Init PROVE Listing!Init
  OBVIOUS
<1>1. \A f \in Filters : Matching(f) \in SUBSET Rows
  BY DEF Init, Matching
<1> QED
  BY <1>1 DEF Init, Listing!Init

\* What does not write the base nor the list is a stutter.
LEMMA StutterRefines ==
  ASSUME UNCHANGED <<enabled, listed, endCursor>>
  PROVE  [Listing!Next]_<<[f \in Filters |-> Matching(f)], listed, endCursor>>
<1>1. \A f \in Filters : Matching(f)' = Matching(f)
  BY DEF Matching
<1> QED
  BY <1>1

LEMMA StartOverRefines ==
  ASSUME NEW f \in Filters, StartOver(f), UNCHANGED enabled
  PROVE  Listing!Next
<1>1. \A g \in Filters : Matching(g)' = Matching(g)
  BY DEF Matching
<1> QED
  BY <1>1 DEF StartOver, Listing!Next, Listing!StartOver

\* An answer extends the list from its cursor, since its request was asked with it.
LEMMA AnswerRefines ==
  ASSUME ListingInv, Answer
  PROVE  Listing!Next
<1>1. request.cursor = endCursor /\ request.filter \in Filters
  BY DEF ListingInv, TypeOK, RequestIsCurrent, Answer
<1>2. \A g \in Filters : Matching(g)' = Matching(g)
  BY DEF Matching, Answer
<1>3. Listing!Extend(request.filter)
  BY <1>1, <1>2, SamePage DEF Answer, Listing!Extend
<1> QED
  BY <1>1, <1>3 DEF Listing!Next

LEMMA ApplyRefines ==
  ASSUME ListingInv, NEW m \in mutations, Apply(m)
  PROVE  Listing!Next
<1>1. enabled' \subseteq Rows
  BY DEF Apply, ListingInv, TypeOK
<1>2. \A f \in Filters : Matching(f)' \in SUBSET Rows
  BY <1>1 DEF Matching
<1>3. Listing!BaseMoves
  BY <1>2 DEF Apply, screen, Listing!BaseMoves
<1> QED
  BY <1>3 DEF Listing!Next

LEMMA StepRefines ==
  ASSUME ListingInv, [Next]_vars
  PROVE  [Listing!Next]_<<[f \in Filters |-> Matching(f)], listed, endCursor>>
<1>1. CASE Answer
  BY <1>1, AnswerRefines
<1>2. CASE RequestFails \/ HandleScroll
  BY <1>2, StutterRefines DEF RequestFails, HandleScroll
<1>3. ASSUME NEW m \in mutations, Apply(m) \/ MutationFails(m) \/ MutationAnswered(m)
      PROVE  [Listing!Next]_<<[f \in Filters |-> Matching(f)], listed, endCursor>>
  <2>1. CASE Apply(m)
    BY <2>1, ApplyRefines
  <2>2. CASE MutationFails(m) \/ MutationAnswered(m)
    BY <2>2, StutterRefines DEF MutationFails, MutationAnswered, screen
  <2> QED
    BY <1>3, <2>1, <2>2
<1>4. CASE Reload
  BY <1>4, StartOverRefines DEF Reload, ListingInv, TypeOK
<1>5. ASSUME NEW f \in Filters, QueryParams(f) \/ EditFilter(f)
      PROVE  [Listing!Next]_<<[g \in Filters |-> Matching(g)], listed, endCursor>>
  <2>1. CASE QueryParams(f)
    BY <2>1, StartOverRefines DEF QueryParams
  <2>2. CASE EditFilter(f)
    BY <2>2, StutterRefines DEF EditFilter
  <2> QED
    BY <1>5, <2>1, <2>2
<1>6. CASE \E i \in Rows : disabledButton(i) \/ enabledButton(i)
  BY <1>6, StutterRefines DEF disabledButton, enabledButton, Send, screen
<1>7. CASE UNCHANGED vars
  BY <1>7, StutterRefines DEF vars, screen
<1> QED
  BY <1>1, <1>2, <1>3, <1>4, <1>5, <1>6, <1>7 DEF Next, Network, User

\* However pages are dropped and asked again, the listing of VariableComponent
\* only starts over or grows by the page that follows its cursor.
THEOREM ListingRefines == Spec => RefinesListing
<1>1. Init => Listing!Init
  BY InitRefines
<1>2. ListingInv /\ [Next]_vars => [Listing!Next]_<<[f \in Filters |-> Matching(f)], listed, endCursor>>
  BY StepRefines
<1> QED
  BY <1>1, <1>2, ListingInvariant, PTL DEF Spec, RefinesListing, Listing!Spec
=============================================================================
