---------------------------- MODULE CursorListing ----------------------------
(***************************************************************************)
(* What an infinite-scroll listing promises, with no word of requests: it  *)
(* starts over empty, or it grows by the page that follows its cursor, the *)
(* page of one filter over the base of that instant.  Rows are counted, so *)
(* that a page taken in twice would show.                                  *)
(***************************************************************************)
EXTENDS Integers, FiniteSets

CONSTANTS Rows,        \* rows of the base, numbered in the order it lists them
          Filters, PageLength
VARIABLES matching,    \* the rows each filter selects
          listed,      \* how many times each row is on the screen
          cursor       \* the rows up to the last one of the last page

Page(f, c) ==
  {i \in matching[f] \ c : Cardinality({j \in matching[f] \ c : j <= i}) <= PageLength}

UpTo(page) == {i \in Rows : \E j \in page : i <= j}

Init ==
  /\ matching \in [Filters -> SUBSET Rows]
  /\ listed = [i \in Rows |-> 0]
  /\ cursor = {}

StartOver ==
  /\ listed' = [i \in Rows |-> 0]
  /\ cursor' = {}
  /\ UNCHANGED matching

Extend(f) ==
  /\ listed' = [i \in Rows |-> IF i \in Page(f, cursor) THEN listed[i] + 1 ELSE listed[i]]
  /\ cursor' = cursor \cup UpTo(Page(f, cursor))
  /\ UNCHANGED matching

BaseMoves ==
  /\ matching' \in [Filters -> SUBSET Rows]
  /\ UNCHANGED <<listed, cursor>>

Next == StartOver \/ BaseMoves \/ \E f \in Filters : Extend(f)

Spec == Init /\ [][Next]_<<matching, listed, cursor>>
=============================================================================
