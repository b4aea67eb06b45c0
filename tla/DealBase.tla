------------------------------ MODULE DealBase ------------------------------
(***************************************************************************)
(* The live base that every script of the deal-mirror routine reads and    *)
(* writes (active/commcenter-premiacao-cargos).  Originals are the deals   *)
(* of the integration (external: true); a mirror (external: false) is the  *)
(* copy of one original on one target, under the identity                  *)
(* (<external_id>_<target id>, installment), so a pair <<original, target>>*)
(* names it.  The eight fields the calculation reads (sold_price, quantity,*)
(* status_id, date, client_id, product_id, originated_at, owner_id) are    *)
(* one element of Contents: the scripts only copy them, compare them, look *)
(* at the period of the date and at what a metric selects.                 *)
(*                                                                         *)
(* Everybody else who writes to the base while a script runs -- the        *)
(* integration and the client correcting deals, the hierarchy being        *)
(* reimported, Indicator rows being written -- is the Environment.         *)
(***************************************************************************)
EXTENDS Integers, FiniteSets

CONSTANTS
  Originals,     \* deals with external: true
  Users,         \* every user of the company
  Targets,       \* the users some plan mirrors deals onto
  Plans,         \* the plans the routine may run on
  Periods,       \* the competences
  Variables,     \* the variables that carry a metric
  Contents,      \* values of the eight compared fields
  PeriodOf,      \* PeriodOf[c]: the competence the date of c falls in
  Selects,       \* Selects[v]: the contents the metric of v selects
  SellerOf,      \* SellerOf[o]: the user the original o belongs to
  Participants,  \* Participants[p]: the users of the commission of plan p
  PlanVariables, \* PlanVariables[p]: plan.variables.with_metrics
  Override,      \* the plans with override?
  PapVariables,  \* <<p, v>>: v is cut to the PAP population under plan p
  PapLeaders,    \* the users of the PAP leaders' commission
  TooLong,       \* identities whose external_id would pass 36 characters
  Hierarchies,   \* the seat trees the base may hold, as recursive subtrees
  CarrierRows,   \* the Indicator rows <<v, u, period>> that may exist
  MaxMoves       \* bound on the moves of the environment

ASSUME BaseAssumption ==
  /\ Targets \subseteq Users
  /\ PeriodOf \in [Contents -> Periods]
  /\ Selects \in [Variables -> SUBSET Contents]
  /\ SellerOf \in [Originals -> Users]
  /\ Participants \in [Plans -> SUBSET Targets]
  /\ PlanVariables \in [Plans -> SUBSET Variables]
  /\ Override \subseteq Plans
  /\ TooLong \subseteq Originals \X Targets
  /\ Hierarchies \subseteq [Users -> SUBSET Users]
  /\ CarrierRows \subseteq Variables \X Users \X Periods
  /\ MaxMoves \in Nat
  /\ IsFiniteSet(Originals)
  /\ Contents # {}

\* One user holds one cargo, and plan_ids names the live plan of each cargo.
ASSUME ParticipantsDisjoint ==
  \A p, q \in Plans : p # q => Participants[p] \cap Participants[q] = {}

(* Of some companies more is true than the models ask for.  The theorems   *)
(* that need it name it; the model-checking modules say that theirs are.   *)

\* No value of a sale is selected by the metrics of two variables of a plan.
MetricsApart ==
  \A p \in Plans : \A v, w \in PlanVariables[p] :
    v # w => Selects[v] \cap Selects[w] = {}

\* Nobody below a participant of a plan with override both holds mirrors and
\* carries an Indicator row.
NoCarrierHoldsMirrors ==
  \A h \in Hierarchies, p \in Override :
    \A t \in Participants[p], row \in CarrierRows :
      row[2] \in h[t] \ {t} => row[2] \notin Targets

\* Who is below someone below t is below t.
SubtreesNest ==
  \A h \in Hierarchies : \A t, u \in Users : u \in h[t] \ {t} => h[u] \subseteq h[t] \ {t}

VARIABLES
  original,      \* the originals as they stand
  subtree,       \* subtree[u]: what UserScope resolves for u now
  indicators,    \* the Indicator rows of the competences
  mirror,        \* the mirrors, by identity
  moves          \* how often the environment has moved

sourceVars == <<original, subtree, indicators, moves>>

Identities == Originals \X Targets
DealState == [enabled : BOOLEAN, content : Contents]
\* "absent": no row under the identity, whatever content says.
MirrorState == [state : {"absent", "enabled", "disabled"}, content : Contents]

BaseTypeOK ==
  /\ original \in [Originals -> DealState]
  /\ subtree \in Hierarchies
  /\ indicators \subseteq CarrierRows
  /\ mirror \in [Identities -> MirrorState]
  /\ moves \in 0 .. MaxMoves

NoMirror == [state |-> "absent", content |-> CHOOSE c \in Contents : TRUE]

BaseInit ==
  /\ original \in [Originals -> DealState]
  /\ subtree \in Hierarchies
  /\ indicators \in SUBSET CarrierRows
  /\ mirror = [i \in Identities |-> NoMirror]
  /\ moves = 0

-----------------------------------------------------------------------------
(* What the scripts compute from the base.                                 *)

\* UserScope resolves the user too; the scripts take the target out.
Below(t) == subtree[t] \ {t}

PapPopulation(t) == UNION {subtree[l] : l \in PapLeaders \cap Below(t)}

\* Faulty: the cut forgotten.
VariableUsersUncut(p, v, below, pap) == below

VariableUsers(p, v, below, pap) ==
  IF <<p, v>> \in PapVariables THEN below \cap pap ELSE below

\* Faulty: the exclusion not gated by override.
CarriersUngated(p, per, v) == {u \in Users : <<v, u, per>> \in indicators}

\* Whoever holds an Indicator row of v is already reached by the recursive
\* walk, which only a plan with override takes.
Carriers(p, per, v) ==
  IF p \in Override THEN {u \in Users : <<v, u, per>> \in indicators} ELSE {}

\* The metric filter of one variable over a set of sellers.
DealsOf(sellers, per, v) ==
  {o \in Originals : /\ SellerOf[o] \in sellers
                     /\ original[o].enabled
                     /\ PeriodOf[original[o].content] = per
                     /\ original[o].content \in Selects[v]}

SelectedFrom(p, per, v, below, pap) ==
  DealsOf(VariableUsers(p, v, below, pap) \ Carriers(p, per, v), per, v)

Selected(p, per, t, v) == SelectedFrom(p, per, v, Below(t), PapPopulation(t))

\* The source set of a target: what its mirrors should be copies of.
Source(p, per, t) == UNION {Selected(p, per, t, v) : v \in PlanVariables[p]}

HasRow(o, t) == mirror[<<o, t>>].state # "absent"

\* The mirrors of a target dated in the competence, the disabled ones too.
Existing(per, t) ==
  {o \in Originals : HasRow(o, t) /\ PeriodOf[mirror[<<o, t>>].content] = per}

Live(per, t) == {o \in Existing(per, t) : mirror[<<o, t>>].state = "enabled"}

\* The ways the revenue of o reaches the variable v of t: a mirror on t, or,
\* under override, the Indicator row of someone below who sold or mirrors it.
Ways(p, per, t, v, o) ==
  {u \in {t} : o \in Live(per, t)} \cup
  {u \in Below(t) : /\ p \in Override
                    /\ <<v, u, per>> \in indicators
                    /\ SellerOf[o] = u \/ (u \in Targets /\ o \in Live(per, u))}

-----------------------------------------------------------------------------
(* The rest of the world.                                                  *)

\* The client corrects a sale: a value, a status, a date.
CorrectDeal(o) ==
  /\ \E c \in Contents \ {original[o].content} :
       original' = [original EXCEPT ![o].content = c]
  /\ UNCHANGED <<subtree, indicators>>

\* A sale is registered, deactivated or brought back.
ToggleDeal(o) ==
  /\ original' = [original EXCEPT ![o].enabled = ~@]
  /\ UNCHANGED <<subtree, indicators>>

\* Seats are rewritten in place, so the subtree is always the one of now.
MoveSeats ==
  /\ subtree' \in Hierarchies \ {subtree}
  /\ UNCHANGED <<original, indicators>>

\* An Indicator row of the competence is written or removed.
ToggleIndicator(row) ==
  /\ indicators' = IF row \in indicators THEN indicators \ {row}
                                         ELSE indicators \cup {row}
  /\ UNCHANGED <<original, subtree>>

Environment ==
  /\ moves < MaxMoves
  /\ moves' = moves + 1
  /\ \/ \E o \in Originals : CorrectDeal(o) \/ ToggleDeal(o)
     \/ MoveSeats
     \/ \E row \in CarrierRows : ToggleIndicator(row)
=============================================================================
