-------------------------- MODULE FirstRun_proofs --------------------------
(***************************************************************************)
(* Proofs about the first run, for any company, batch and order of pastes. *)
(***************************************************************************)
EXTENDS FirstRun, TLAPS

\* What the writes rest on: the shape of the base, where candidates come from,
\* and that the batch being written was clean when its gate was passed.
WriteType ==
  /\ original \in [Originals -> DealState]
  /\ mirror \in [Identities -> MirrorState]
  /\ round \in Rounds
  /\ waiting \subseteq Targets
  /\ phase = "reading" => target \in Targets
  /\ phase = "reading" => unread \subseteq Variables
  /\ candidates \subseteq Candidates
  /\ todo \subseteq candidates

WriteInv == WriteType /\ NothingOverExisting

LEMMA IdType ==
  ASSUME NEW c \in Candidates
  PROVE  Id(c) \in Identities /\ Id(c) = <<c[3], c[1]>> /\ c[3] \in Originals
BY DEF Id, Candidates, Identities

LEMMA CopyType ==
  ASSUME WriteType, NEW o \in Originals
  PROVE  [state |-> "enabled", content |-> original[o].content] \in MirrorState
BY DEF WriteType, DealState, MirrorState

LEMMA InitWrite == Init => WriteInv
<1> SUFFICES ASSUME Init PROVE WriteInv
  OBVIOUS
<1>1. NoMirror \in MirrorState
  BY BaseAssumption DEF NoMirror, MirrorState
<1>2. mirror \in [Identities -> MirrorState]
  BY <1>1 DEF Init, BaseInit
<1> QED
  BY <1>2 DEF Init, BaseInit, WriteInv, WriteType, NothingOverExisting

\* A script that ends leaves the base as it is and holds no batch.
LEMMA LeaveWrite ==
  ASSUME WriteInv, Leave
  PROVE  WriteInv'
BY DEF WriteInv, WriteType, NothingOverExisting, Leave, sourceVars

LEMMA BeginWrite ==
  ASSUME WriteInv, NEW name, NEW r \in Rounds, Begin(name, r, Participants[r[1]])
  PROVE  WriteInv'
<1>1. Participants[r[1]] \subseteq Targets
  BY BaseAssumption DEF Rounds
<1> QED
  BY <1>1 DEF WriteInv, WriteType, NothingOverExisting, Begin, sourceVars

\* A scan of variable v by the target adds well formed candidates.
LEMMA ScanWrite ==
  ASSUME WriteType, phase = "reading", NEW v \in Variables,
         NEW found \in SUBSET FirstSource(v)
  PROVE  {<<target, v, o>> : o \in found} \subseteq Candidates
<1>1. target \in Targets
  BY DEF WriteType
<1>2. ASSUME NEW o \in found
      PROVE  o \in Originals
  BY DEF FirstSource, DealsOf
<1>3. ASSUME NEW o \in found
      PROVE  <<target, v, o>> \in Candidates
  BY <1>1, <1>2 DEF Candidates
<1> QED
  BY <1>3

LEMMA CreateWrite ==
  ASSUME WriteInv, NEW c \in Candidates, Create(c)
  PROVE  WriteInv'
<1> USE DEF WriteInv
<1>1. /\ phase = "writing" /\ phase' = "writing"
      /\ UNCHANGED <<original, round, waiting, target, unread, candidates>>
      /\ todo' \subseteq todo
  BY DEF Create, Writing, sourceVars, scanVars
<1>2. rows \subseteq rows'
  BY DEF Create, Outcome
<1>3. CASE UNCHANGED mirror
  <2>1. \A d \in candidates : HasRow(d[3], d[1])' = HasRow(d[3], d[1])
    BY <1>3 DEF HasRow
  <2> QED
    BY <1>1, <1>2, <1>3, <2>1 DEF WriteType, NothingOverExisting
<1>4. CASE mirror' = [mirror EXCEPT ![Id(c)] = Copy(c)] /\ Outcome(c, "CREATED")
  <2>1. Copy(c) \in MirrorState /\ Id(c) \in Identities
    BY IdType, CopyType DEF Copy
  <2>2. WriteType'
    BY <1>1, <1>4, <2>1 DEF WriteType
  <2>3. ASSUME NEW d \in candidates, HasRow(d[3], d[1])'
        PROVE  \E r \in rows' : r.outcome = "CREATED" /\ Id(r.candidate) = Id(d)
    <3>1. CASE Id(d) = Id(c)
      <4> DEFINE new == [candidate |-> c, outcome |-> "CREATED"]
      <4>1. new \in rows'
        BY <1>4 DEF Outcome
      <4>2. new.outcome = "CREATED" /\ new.candidate = c
        OBVIOUS
      <4> HIDE DEF new
      <4> QED
        BY <3>1, <4>1, <4>2
    <3>2. CASE Id(d) # Id(c)
      <4>1. d \in Candidates
        BY DEF WriteType
      <4>2. mirror'[Id(d)] = mirror[Id(d)]
        BY <1>4, <3>2, <4>1, IdType DEF WriteType
      <4>3. HasRow(d[3], d[1])
        BY <2>3, <4>1, <4>2, IdType DEF HasRow
      <4> QED
        BY <1>1, <1>2, <4>3 DEF NothingOverExisting
    <3> QED
      BY <3>1, <3>2
  <2> QED
    BY <1>1, <2>2, <2>3 DEF NothingOverExisting
<1> QED
  BY <1>3, <1>4 DEF Create

LEMMA WriteInductive ==
  ASSUME WriteInv, [Next]_vars
  PROVE  WriteInv'
<1> USE DEF WriteInv
<1>1. ASSUME NEW r \in Rounds, StartPreflight(r) \/ StartMutation(r)
      PROVE  WriteInv'
  BY <1>1, BeginWrite DEF StartPreflight, StartMutation
<1>2. ASSUME NEW t \in Targets, BeginTarget(t)
      PROVE  WriteInv'
  <2>1. PlanVariables[round[1]] \subseteq Variables
    BY BaseAssumption DEF WriteType, Rounds
  <2> QED
    BY <1>2, <2>1 DEF BeginTarget, WriteType, NothingOverExisting, sourceVars
<1>3. ASSUME NEW v \in Variables, ScanVariable(v)
      PROVE  WriteInv'
  <2>1. {<<target, v, o>> : o \in FirstSource(v)} \subseteq Candidates
    BY <1>3, ScanWrite DEF ScanVariable
  <2> QED
    BY <1>3, <2>1 DEF ScanVariable, WriteType, NothingOverExisting, sourceVars
<1>4. CASE EndTarget
  BY <1>4 DEF EndTarget, WriteType, NothingOverExisting, sourceVars
<1>5. ASSUME NEW t \in Targets, TargetRaises(t)
      PROVE  WriteInv'
  <2>1. CASE Leave
    BY <2>1, LeaveWrite
  <2>2. CASE ~Leave
    BY <1>5, <2>2 DEF TargetRaises, WriteType, NothingOverExisting, sourceVars
  <2> QED
    BY <2>1, <2>2
<1>6. ASSUME NEW v \in Variables, VariableRaises(v)
      PROVE  WriteInv'
  <2>1. CASE Leave
    BY <2>1, LeaveWrite
  <2>2. CASE ~Leave
    <3>1. PICK read \in SUBSET FirstSource(v) :
            candidates' = candidates \cup {<<target, v, o>> : o \in read}
      BY <1>6, <2>2 DEF VariableRaises
    <3>2. {<<target, v, o>> : o \in read} \subseteq Candidates
      BY <1>6, ScanWrite DEF VariableRaises
    <3> QED
      BY <1>6, <2>2, <3>1, <3>2 DEF VariableRaises, WriteType, NothingOverExisting,
         sourceVars
  <2> QED
    BY <2>1, <2>2
<1>7. CASE EndPreflight \/ GateRefuses \/ EndMutation \/ LoseConsole
  BY <1>7, LeaveWrite DEF EndPreflight, GateRefuses, EndMutation, LoseConsole
<1>8. CASE GatePasses
  BY <1>8 DEF GatePasses, SomeExists, HasRow, WriteType, NothingOverExisting,
     sourceVars, scanVars
<1>9. ASSUME NEW c \in Candidates, Create(c)
      PROVE  WriteInv'
  BY <1>9, CreateWrite
<1>10. CASE Moves
  <2>1. original' \in [Originals -> DealState]
    <3>1. ASSUME NEW o \in Originals, CorrectDeal(o)
          PROVE  original' \in [Originals -> DealState]
      BY <3>1 DEF CorrectDeal, WriteType, DealState
    <3>2. ASSUME NEW o \in Originals, ToggleDeal(o)
          PROVE  original' \in [Originals -> DealState]
      BY <3>2 DEF ToggleDeal, WriteType, DealState
    <3> QED
      BY <1>10, <3>1, <3>2 DEF Moves, Environment, MoveSeats, ToggleIndicator, WriteType
  <2>2. NothingOverExisting'
    BY <1>10 DEF Moves, scriptVars, scanVars, NothingOverExisting, HasRow
  <2> QED
    BY <1>10, <2>1, <2>2 DEF Moves, scriptVars, scanVars, WriteType
<1>11. CASE UNCHANGED vars
  BY <1>11 DEF vars, sourceVars, scriptVars, scanVars, WriteType,
     NothingOverExisting, HasRow
<1> QED
  BY <1>1, <1>2, <1>3, <1>4, <1>5, <1>6, <1>7, <1>8, <1>9, <1>10, <1>11 DEF Next

\* In every company, no batch of the first run is written over mirrors that
\* were there before it.
THEOREM NothingIsOverwritten == Spec => []NothingOverExisting
<1>1. WriteInv => NothingOverExisting
  BY DEF WriteInv
<1> QED
  BY <1>1, InitWrite, WriteInductive, PTL DEF Spec

-----------------------------------------------------------------------------
(* Type correctness.                                                       *)

LEMMA EnvironmentType ==
  ASSUME BaseTypeOK, Environment, UNCHANGED mirror
  PROVE  BaseTypeOK'
<1>1. moves' \in 0 .. MaxMoves
  BY BaseAssumption DEF Environment, BaseTypeOK
<1>2. ASSUME NEW o \in Originals, CorrectDeal(o)
      PROVE  BaseTypeOK'
  <2>1. original' \in [Originals -> DealState]
    BY <1>2 DEF CorrectDeal, BaseTypeOK, DealState
  <2> QED
    BY <1>1, <1>2, <2>1 DEF CorrectDeal, BaseTypeOK, Identities
<1>3. ASSUME NEW o \in Originals, ToggleDeal(o)
      PROVE  BaseTypeOK'
  <2>1. original' \in [Originals -> DealState]
    BY <1>3 DEF ToggleDeal, BaseTypeOK, DealState
  <2> QED
    BY <1>1, <1>3, <2>1 DEF ToggleDeal, BaseTypeOK, Identities
<1>4. CASE MoveSeats
  BY <1>1, <1>4 DEF MoveSeats, BaseTypeOK
<1>5. ASSUME NEW row \in CarrierRows, ToggleIndicator(row)
      PROVE  BaseTypeOK'
  BY <1>1, <1>5 DEF ToggleIndicator, BaseTypeOK
<1> QED
  BY <1>2, <1>3, <1>4, <1>5 DEF Environment

\* What a script holds, whatever it is doing.
Held ==
  /\ script \in {"none", "preflight", "mutation"}
  /\ round \in Rounds
  /\ phase \in {"idle", "scanning", "reading", "writing"}
  /\ waiting \subseteq Targets
  /\ target \in Targets \cup {NoTarget}
  /\ recursive \subseteq Users
  /\ unread \subseteq Variables
  /\ candidates \subseteq Candidates
  /\ todo \subseteq candidates
  /\ rows \subseteq Rows
  /\ whole \in BOOLEAN

Kept ==
  /\ faults \in 0 .. MaxFaults
  /\ projected \in Projections \cup {NoCsv}
  /\ csv \in Csvs \cup {NoCsv}
  /\ still \in {"preflight", "mutation", "neither"}

LEMMA TypeParts == TypeOK <=> BaseTypeOK /\ Held /\ Kept
BY DEF TypeOK, Held, Kept

ScriptInv == TypeOK /\ WriteInv

LEMMA FaultType ==
  ASSUME Kept, Fault
  PROVE  faults' \in 0 .. MaxFaults
BY FirstRunAssumption DEF Kept, Fault

LEMMA BaseStays ==
  ASSUME BaseTypeOK, UNCHANGED <<sourceVars, mirror>>
  PROVE  BaseTypeOK'
BY DEF BaseTypeOK, sourceVars

LEMMA LeaveType ==
  ASSUME TypeOK, Leave
  PROVE  BaseTypeOK' /\ Held'
BY DEF TypeOK, BaseTypeOK, Held, Leave, sourceVars

LEMMA BeginType ==
  ASSUME TypeOK, NEW r \in Rounds, NEW name \in {"preflight", "mutation"},
         Begin(name, r, Participants[r[1]])
  PROVE  BaseTypeOK' /\ Held' /\ csv' = NoCsv /\ faults' = faults
<1>1. Participants[r[1]] \subseteq Targets
  BY BaseAssumption DEF Rounds
<1> QED
  BY <1>1 DEF TypeOK, BaseTypeOK, Held, Begin, sourceVars

LEMMA StartsType ==
  ASSUME TypeOK, NEW r \in Rounds, StartPreflight(r) \/ StartMutation(r)
  PROVE  TypeOK'
<1>1. BaseTypeOK' /\ Held' /\ csv' = NoCsv /\ faults' = faults
  BY BeginType DEF StartPreflight, StartMutation
<1>2. projected' \in Projections \cup {NoCsv} /\ still' \in {"preflight", "mutation", "neither"}
  BY DEF StartPreflight, StartMutation, TypeOK
<1>3. Kept'
  BY <1>1, <1>2, TypeParts DEF Kept
<1> QED
  BY <1>1, <1>3 DEF TypeOK, Held, Kept

LEMMA BeginTargetType ==
  ASSUME TypeOK, NEW t \in Targets, BeginTarget(t)
  PROVE  TypeOK'
<1>1. Below(t) \subseteq Users
  BY BaseAssumption DEF TypeOK, BaseTypeOK, Below
<1>2. PlanVariables[round[1]] \subseteq Variables
  BY BaseAssumption DEF TypeOK, Rounds
<1>3. BaseTypeOK'
  BY BaseStays DEF BeginTarget, TypeOK
<1> QED
  BY <1>1, <1>2, <1>3 DEF TypeOK, BeginTarget

LEMMA ScanType ==
  ASSUME ScriptInv, NEW v \in Variables, ScanVariable(v)
  PROVE  TypeOK'
<1>1. {<<target, v, o>> : o \in FirstSource(v)} \subseteq Candidates
  BY ScanWrite DEF ScanVariable, ScriptInv, WriteInv
<1>2. BaseTypeOK'
  BY BaseStays DEF ScanVariable, ScriptInv, TypeOK
<1> QED
  BY <1>1, <1>2 DEF ScriptInv, TypeOK, ScanVariable

LEMMA TargetRaisesType ==
  ASSUME TypeOK, NEW t \in Targets, TargetRaises(t)
  PROVE  TypeOK'
<1>1. faults' \in 0 .. MaxFaults
  BY FaultType, TypeParts DEF TargetRaises
<1>2. CASE Leave
  <2>1. BaseTypeOK' /\ Held'
    BY <1>2, LeaveType
  <2>2. Kept'
    BY <1>1, <1>2 DEF TargetRaises, Leave, TypeOK, Kept
  <2> QED
    BY <2>1, <2>2 DEF TypeOK, Held, Kept
<1>3. CASE ~Leave
  <2>1. BaseTypeOK'
    BY <1>3, BaseStays DEF TargetRaises, TypeOK
  <2> QED
    BY <1>1, <1>3, <2>1 DEF TargetRaises, TypeOK
<1> QED
  BY <1>2, <1>3

LEMMA VariableRaisesType ==
  ASSUME ScriptInv, NEW v \in Variables, VariableRaises(v)
  PROVE  TypeOK'
<1>1. faults' \in 0 .. MaxFaults
  BY FaultType, TypeParts DEF VariableRaises, ScriptInv
<1>2. CASE Leave
  <2>1. BaseTypeOK' /\ Held'
    BY <1>2, LeaveType DEF ScriptInv
  <2>2. Kept'
    BY <1>1, <1>2 DEF VariableRaises, Leave, ScriptInv, TypeOK, Kept
  <2> QED
    BY <2>1, <2>2 DEF TypeOK, Held, Kept
<1>3. CASE ~Leave
  <2>1. PICK read \in SUBSET FirstSource(v) :
          candidates' = candidates \cup {<<target, v, o>> : o \in read}
    BY <1>3 DEF VariableRaises
  <2>2. {<<target, v, o>> : o \in read} \subseteq Candidates
    BY ScanWrite DEF VariableRaises, ScriptInv, WriteInv
  <2>3. BaseTypeOK'
    BY <1>3, BaseStays DEF VariableRaises, ScriptInv, TypeOK
  <2> QED
    BY <1>1, <1>3, <2>1, <2>2, <2>3 DEF VariableRaises, ScriptInv, TypeOK
<1> QED
  BY <1>2, <1>3

LEMMA EndsType ==
  ASSUME TypeOK, EndPreflight \/ GateRefuses \/ EndMutation \/ LoseConsole
  PROVE  TypeOK'
<1>1. BaseTypeOK' /\ Held'
  BY LeaveType DEF EndPreflight, GateRefuses, EndMutation, LoseConsole
<1>2. faults' \in 0 .. MaxFaults
  BY FaultType, TypeParts DEF EndPreflight, GateRefuses, EndMutation, LoseConsole, TypeOK
<1>3. projected' \in Projections \cup {NoCsv}
  <2>1. [round |-> round, batch |-> candidates, whole |-> whole,
         too_long |-> SomeTooLong, already_exists |-> SomeExists] \in Projections
    BY DEF TypeOK, Projections, SomeTooLong, SomeExists
  <2> QED
    BY <2>1 DEF EndPreflight, GateRefuses, EndMutation, LoseConsole, TypeOK
<1>4. csv' \in Csvs \cup {NoCsv}
  <2>1. [round |-> round, rows |-> rows] \in Csvs
    BY DEF TypeOK, Csvs
  <2> QED
    BY <2>1 DEF EndPreflight, GateRefuses, EndMutation, LoseConsole, TypeOK
<1>5. still' = still
  BY DEF EndPreflight, GateRefuses, EndMutation, LoseConsole, Leave
<1> QED
  BY <1>1, <1>2, <1>3, <1>4, <1>5 DEF TypeOK, Held, Kept

LEMMA OutcomeType ==
  ASSUME TypeOK, NEW c \in Candidates, NEW out \in Outcomes, Outcome(c, out)
  PROVE  rows' \subseteq Rows
BY DEF TypeOK, Outcome, Rows

LEMMA CreateType ==
  ASSUME ScriptInv, NEW c \in Candidates, Create(c)
  PROVE  TypeOK'
<1>1. rows' \subseteq Rows
  BY OutcomeType DEF Create, Outcomes, ScriptInv
<1>2. faults' \in 0 .. MaxFaults
  BY FaultType, TypeParts DEF Create, ScriptInv, TypeOK
<1>3. mirror' \in [Identities -> MirrorState]
  <2>1. Copy(c) \in MirrorState /\ Id(c) \in Identities
    BY IdType, CopyType DEF Copy, ScriptInv, WriteInv
  <2> QED
    BY <2>1 DEF Create, ScriptInv, TypeOK, BaseTypeOK
<1>4. BaseTypeOK'
  BY <1>3 DEF Create, Writing, sourceVars, ScriptInv, TypeOK, BaseTypeOK
<1> QED
  BY <1>1, <1>2, <1>4 DEF Create, Writing, scanVars, ScriptInv, TypeOK

LEMMA StepType ==
  ASSUME ScriptInv, [Next]_vars
  PROVE  TypeOK'
<1>1. ASSUME NEW r \in Rounds, StartPreflight(r) \/ StartMutation(r)
      PROVE  TypeOK'
  BY <1>1, StartsType DEF ScriptInv
<1>2. ASSUME NEW t \in Targets, BeginTarget(t) \/ TargetRaises(t)
      PROVE  TypeOK'
  BY <1>2, BeginTargetType, TargetRaisesType DEF ScriptInv
<1>3. ASSUME NEW v \in Variables, ScanVariable(v) \/ VariableRaises(v)
      PROVE  TypeOK'
  BY <1>3, ScanType, VariableRaisesType
<1>4. CASE EndTarget
  <2>1. BaseTypeOK'
    BY <1>4, BaseStays DEF EndTarget, ScriptInv, TypeOK
  <2> QED
    BY <1>4, <2>1 DEF EndTarget, ScriptInv, TypeOK
<1>5. CASE EndPreflight \/ GateRefuses \/ EndMutation \/ LoseConsole
  BY <1>5, EndsType DEF ScriptInv
<1>6. CASE GatePasses
  <2>1. BaseTypeOK'
    BY <1>6, BaseStays DEF GatePasses, ScriptInv, TypeOK
  <2> QED
    BY <1>6, <2>1 DEF GatePasses, scanVars, ScriptInv, TypeOK
<1>7. ASSUME NEW c \in Candidates, Create(c)
      PROVE  TypeOK'
  BY <1>7, CreateType
<1>8. CASE Moves
  <2>1. BaseTypeOK'
    BY <1>8, EnvironmentType DEF Moves, ScriptInv, TypeOK
  <2> QED
    BY <1>8, <2>1 DEF Moves, scriptVars, scanVars, ScriptInv, TypeOK
<1>9. CASE UNCHANGED vars
  <2>1. BaseTypeOK'
    BY <1>9, BaseStays DEF vars, ScriptInv, TypeOK
  <2> QED
    BY <1>9, <2>1 DEF vars, scriptVars, scanVars, ScriptInv, TypeOK
<1> QED
  BY <1>1, <1>2, <1>3, <1>4, <1>5, <1>6, <1>7, <1>8, <1>9 DEF Next

LEMMA InitScript == Init => ScriptInv
<1> SUFFICES ASSUME Init PROVE ScriptInv
  OBVIOUS
<1>1. WriteInv
  BY InitWrite
<1>2. moves \in 0 .. MaxMoves /\ faults \in 0 .. MaxFaults
  BY BaseAssumption, FirstRunAssumption DEF Init, BaseInit
<1>3. BaseTypeOK
  BY <1>1, <1>2 DEF Init, BaseInit, BaseTypeOK, WriteInv, WriteType
<1> QED
  BY <1>1, <1>2, <1>3 DEF Init, ScriptInv, TypeOK

LEMMA ScriptInvariant == Spec => []ScriptInv
<1>1. ScriptInv /\ [Next]_vars => ScriptInv'
  BY StepType, WriteInductive DEF ScriptInv
<1> QED
  BY <1>1, InitScript, PTL DEF Spec

\* Every reachable state of the pre-flight and of the mutation is well typed.
THEOREM FirstRunTypeCorrect == Spec => []TypeOK
<1>1. ScriptInv => TypeOK
  BY DEF ScriptInv
<1> QED
  BY <1>1, ScriptInvariant, PTL

-----------------------------------------------------------------------------
(* What a mutation over a base that stands still has found and written.    *)

\* The deals a complete scan of t finds on v.
Wanted(t, v) ==
  DealsOf(Below(t) \ {u \in Users : <<v, u, round[2]>> \in indicators}, round[2], v)

Found(t, v) == \A o \in Wanted(t, v) : <<t, v, o>> \in candidates

\* A participant is still to come, is being scanned, or all of it was found.
ScanFound ==
  script = "mutation" /\ still # "neither" =>
    \A t \in Participants[round[1]] :
      \/ t \in waiting
      \/ /\ phase = "reading" /\ t = target /\ recursive = Below(t)
         /\ \A v \in PlanVariables[round[1]] \ unread : Found(t, v)
      \/ \A v \in PlanVariables[round[1]] : Found(t, v)

\* A candidate is still to come, was not created, or stands as it should.
Accounted(c) ==
  \/ c \in todo
  \/ \E r \in rows : r.candidate = c /\ r.outcome # "CREATED"
  \/ mirror[Id(c)] = Copy(c)

BatchWritten ==
  phase = "writing" =>
    /\ script = "mutation" /\ waiting = {}
    /\ still # "neither" => \A c \in candidates : Accounted(c)

\* The CSV at hand is that of the last mutation, and nothing runs.
CsvIsLast == csv # NoCsv => phase = "idle"

CoverInv == ScriptInv /\ ScanFound /\ BatchWritten /\ CsvIsLast /\ FirstRunCovers

LEMMA SourceStands ==
  ASSUME UNCHANGED sourceVars, NEW p, NEW per, NEW t
  PROVE  Source(p, per, t)' = Source(p, per, t)
<1>1. ASSUME NEW v
      PROVE  Selected(p, per, t, v)' = Selected(p, per, t, v)
  BY DEF sourceVars, Selected, SelectedFrom, VariableUsers, Carriers, DealsOf, Below,
     PapPopulation
<1> QED
  BY <1>1 DEF Source

LEMMA CoverStands ==
  ASSUME FirstRunCovers, UNCHANGED <<sourceVars, mirror, csv, still>>
  PROVE  FirstRunCovers'
<1>1. \A p, per, t : Source(p, per, t)' = Source(p, per, t)
  BY SourceStands
<1> QED
  BY <1>1 DEF FirstRunCovers, sourceVars

\* Nothing the cover speaks of changes when a script ends without a CSV.
LEMMA LeaveCover ==
  ASSUME CoverInv, Leave, UNCHANGED csv
  PROVE  (ScanFound /\ BatchWritten /\ CsvIsLast /\ FirstRunCovers)'
<1>1. ScanFound' /\ BatchWritten' /\ CsvIsLast'
  BY DEF Leave, ScanFound, BatchWritten, CsvIsLast
<1>2. FirstRunCovers'
  BY CoverStands DEF CoverInv, Leave
<1> QED
  BY <1>1, <1>2

LEMMA StartCover ==
  ASSUME CoverInv, NEW r \in Rounds, StartPreflight(r) \/ StartMutation(r)
  PROVE  (ScanFound /\ BatchWritten /\ CsvIsLast /\ FirstRunCovers)'
<1>1. ScanFound' /\ BatchWritten' /\ CsvIsLast'
  BY DEF StartPreflight, StartMutation, Begin, ScanFound, BatchWritten, CsvIsLast
<1>2. FirstRunCovers'
  BY DEF StartPreflight, StartMutation, Begin, FirstRunCovers
<1> QED
  BY <1>1, <1>2

\* While a script runs there is no CSV at hand.
LEMMA RunningCover ==
  ASSUME CoverInv, phase # "idle", UNCHANGED csv
  PROVE  CsvIsLast' /\ FirstRunCovers'
BY DEF CoverInv, CsvIsLast, FirstRunCovers

LEMMA BeginTargetCover ==
  ASSUME CoverInv, NEW t \in Targets, BeginTarget(t)
  PROVE  (ScanFound /\ BatchWritten /\ CsvIsLast /\ FirstRunCovers)'
<1>1. ScanFound'
  <2> SUFFICES ASSUME script = "mutation", still # "neither",
                      NEW s \in Participants[round[1]]
               PROVE  \/ s \in waiting'
                      \/ /\ phase' = "reading" /\ s = target' /\ recursive' = Below(s)'
                         /\ \A v \in PlanVariables[round[1]] \ unread' : Found(s, v)'
                      \/ \A v \in PlanVariables[round[1]] : Found(s, v)'
    BY DEF BeginTarget, ScanFound
  <2>1. CASE s = t
    BY <2>1 DEF BeginTarget, Below, sourceVars
  <2>2. CASE s # t /\ s \in waiting
    BY <2>2 DEF BeginTarget
  <2>3. CASE s # t /\ s \notin waiting
    <3>1. \A v \in PlanVariables[round[1]] : Found(s, v)
      BY <2>3 DEF CoverInv, ScanFound, BeginTarget
    <3> QED
      BY <3>1 DEF BeginTarget, Found, Wanted, DealsOf, Below, sourceVars
  <2> QED
    BY <2>1, <2>2, <2>3
<1>2. BatchWritten'
  BY DEF BeginTarget, BatchWritten
<1> QED
  BY <1>1, <1>2, RunningCover DEF BeginTarget

LEMMA ScanCover ==
  ASSUME CoverInv, NEW v \in Variables, ScanVariable(v)
  PROVE  (ScanFound /\ BatchWritten /\ CsvIsLast /\ FirstRunCovers)'
<1>1. ASSUME NEW s, NEW w, Found(s, w)
      PROVE  Found(s, w)'
  BY <1>1 DEF ScanVariable, Found, Wanted, DealsOf, Below, sourceVars
<1>2. ScanFound'
  <2> SUFFICES ASSUME script = "mutation", still # "neither",
                      NEW s \in Participants[round[1]], s \notin waiting
               PROVE  \/ /\ s = target /\ recursive = Below(s)'
                         /\ \A w \in PlanVariables[round[1]] \ unread' : Found(s, w)'
                      \/ \A w \in PlanVariables[round[1]] : Found(s, w)'
    BY DEF ScanVariable, ScanFound
  <2>1. CASE \A w \in PlanVariables[round[1]] : Found(s, w)
    BY <1>1, <2>1
  <2>2. CASE /\ s = target /\ recursive = Below(s)
             /\ \A w \in PlanVariables[round[1]] \ unread : Found(s, w)
    <3>1. Found(s, v)'
      BY <2>2 DEF ScanVariable, Found, Wanted, FirstSource, DealsOf, Below, sourceVars
    <3>2. \A w \in PlanVariables[round[1]] \ unread' : w = v \/ Found(s, w)
      BY <2>2 DEF ScanVariable
    <3>3. Below(s)' = Below(s)
      BY DEF ScanVariable, Below, sourceVars
    <3> QED
      BY <1>1, <2>2, <3>1, <3>2, <3>3
  <2> QED
    BY <2>1, <2>2 DEF CoverInv, ScanFound
<1>3. BatchWritten'
  BY DEF ScanVariable, BatchWritten
<1> QED
  BY <1>2, <1>3, RunningCover DEF ScanVariable

LEMMA EndTargetCover ==
  ASSUME CoverInv, EndTarget
  PROVE  (ScanFound /\ BatchWritten /\ CsvIsLast /\ FirstRunCovers)'
<1>1. ASSUME NEW s, NEW w, Found(s, w)
      PROVE  Found(s, w)'
  BY <1>1 DEF EndTarget, Found, Wanted, DealsOf, Below, sourceVars
<1>2. ScanFound'
  <2> SUFFICES ASSUME script = "mutation", still # "neither",
                      NEW s \in Participants[round[1]], s \notin waiting
               PROVE  \A w \in PlanVariables[round[1]] : Found(s, w)'
    BY DEF EndTarget, ScanFound
  <2>1. \A w \in PlanVariables[round[1]] : Found(s, w)
    BY DEF CoverInv, ScanFound, EndTarget
  <2> QED
    BY <1>1, <2>1
<1>3. BatchWritten'
  BY DEF EndTarget, BatchWritten
<1> QED
  BY <1>2, <1>3, RunningCover DEF EndTarget

\* The pre-flight goes on without what raised; nothing is claimed of it.
LEMMA RaisesCover ==
  ASSUME CoverInv,
         \/ \E t \in Targets : TargetRaises(t)
         \/ \E v \in Variables : VariableRaises(v)
  PROVE  (ScanFound /\ BatchWritten /\ CsvIsLast /\ FirstRunCovers)'
<1>1. CASE Leave
  BY <1>1, LeaveCover DEF TargetRaises, VariableRaises
<1>2. CASE ~Leave
  <2>1. /\ script' = "preflight" /\ phase' = phase
        /\ phase \in {"scanning", "reading"} /\ csv' = csv
    BY <1>2 DEF TargetRaises, VariableRaises
  <2>2. ScanFound' /\ BatchWritten'
    BY <2>1 DEF ScanFound, BatchWritten
  <2> QED
    BY <2>1, <2>2, RunningCover
<1> QED
  BY <1>1, <1>2

LEMMA GateCover ==
  ASSUME CoverInv, GatePasses
  PROVE  (ScanFound /\ BatchWritten /\ CsvIsLast /\ FirstRunCovers)'
<1>1. ScanFound'
  BY DEF CoverInv, ScanFound, GatePasses, scanVars, sourceVars, Found, Wanted, DealsOf,
     Below
<1>2. BatchWritten'
  BY DEF GatePasses, scanVars, BatchWritten, Accounted
<1> QED
  BY <1>1, <1>2, RunningCover DEF GatePasses

LEMMA CreateCover ==
  ASSUME CoverInv, NEW c \in Candidates, Create(c)
  PROVE  (ScanFound /\ BatchWritten /\ CsvIsLast /\ FirstRunCovers)'
<1> USE DEF Create, Writing
<1>1. ScanFound'
  BY DEF CoverInv, ScanFound, scanVars, sourceVars, Found, Wanted, DealsOf, Below
<1>2. ASSUME still # "neither", NEW d \in candidates
      PROVE  Accounted(d)'
  <2>1. d \in Candidates /\ mirror \in [Identities -> MirrorState]
    BY DEF CoverInv, ScriptInv, WriteInv, WriteType
  <2>2. Copy(d)' = Copy(d)
    BY DEF Copy, sourceVars
  <2>3. \A r \in rows : r \in rows'
    BY DEF Outcome
  <2>4. CASE d = c
    <3>1. CASE mirror' = [mirror EXCEPT ![Id(c)] = Copy(c)]
      BY <2>1, <2>2, <2>4, <3>1, IdType DEF Accounted
    <3>2. CASE \E out \in {"FAILED", "ERROR"} : Outcome(c, out)
      <4>1. PICK out \in {"FAILED", "ERROR"} : Outcome(c, out)
        BY <3>2
      <4>2. [candidate |-> d, outcome |-> out] \in rows'
        BY <2>4, <4>1 DEF Outcome
      <4> QED
        BY <4>2 DEF Accounted
    <3> QED
      BY <3>1, <3>2
  <2>5. CASE d # c
    <3>1. Accounted(d)
      BY <1>2 DEF CoverInv, BatchWritten
    <3>2. CASE d \in todo
      BY <2>5, <3>2 DEF Accounted
    <3>3. CASE \E r \in rows : r.candidate = d /\ r.outcome # "CREATED"
      BY <2>3, <3>3 DEF Accounted
    <3>4. CASE mirror[Id(d)] = Copy(d)
      <4>1. mirror'[Id(d)] = Copy(d)
        <5>1. CASE UNCHANGED mirror
          BY <3>4, <5>1
        <5>2. CASE mirror' = [mirror EXCEPT ![Id(c)] = Copy(c)]
          <6>1. CASE Id(d) = Id(c)
            <7>1. Copy(d) = Copy(c)
              BY <2>1, <6>1, IdType DEF Copy
            <7> QED
              BY <2>1, <5>2, <6>1, <7>1, IdType
          <6>2. CASE Id(d) # Id(c)
            BY <2>1, <3>4, <5>2, <6>2, IdType
          <6> QED
            BY <6>1, <6>2
        <5> QED
          BY <5>1, <5>2
      <4>2. Id(d)' = Id(d)
        BY DEF Id
      <4> QED
        BY <2>2, <4>1, <4>2 DEF Accounted
    <3> QED
      BY <3>1, <3>2, <3>3, <3>4 DEF Accounted
  <2> QED
    BY <2>4, <2>5
<1>3. BatchWritten'
  BY <1>2 DEF CoverInv, BatchWritten, scanVars
<1> QED
  BY <1>1, <1>3, RunningCover

\* The one step that claims the cover: every candidate stands, and the scan
\* found on each target all that the reconciliation will look for.
LEMMA EndMutationCover ==
  ASSUME CoverInv, EndMutation
  PROVE  (ScanFound /\ BatchWritten /\ CsvIsLast /\ FirstRunCovers)'
<1>1. CASE UNCHANGED csv
  BY <1>1, LeaveCover DEF EndMutation
<1>2. CASE csv' = [round |-> round, rows |-> rows]
  <2>1. ScanFound' /\ BatchWritten' /\ CsvIsLast'
    BY DEF EndMutation, Leave, ScanFound, BatchWritten, CsvIsLast
  <2>2. ASSUME still # "neither", round[1] \in Override, \A r \in rows : r.outcome = "CREATED",
               NEW t \in Participants[round[1]],
               NEW o \in Source(round[1], round[2], t)
        PROVE  mirror[<<o, t>>] = [state |-> "enabled", content |-> original[o].content]
    <3>1. script = "mutation" /\ waiting = {} /\ phase = "writing" /\ todo = {}
      BY DEF CoverInv, BatchWritten, EndMutation
    <3>2. PICK v \in PlanVariables[round[1]] : o \in Selected(round[1], round[2], t, v)
      BY <2>2 DEF Source
    <3>3. o \in Wanted(t, v)
      BY <2>2, <3>2 DEF Wanted, Selected, SelectedFrom, VariableUsers, Carriers, DealsOf
    <3>4. <<t, v, o>> \in candidates
      BY <2>2, <3>1, <3>3 DEF CoverInv, ScanFound, Found
    <3>5. Accounted(<<t, v, o>>)
      BY <2>2, <3>1, <3>4 DEF CoverInv, BatchWritten
    <3>6. mirror[Id(<<t, v, o>>)] = Copy(<<t, v, o>>)
      BY <2>2, <3>1, <3>5 DEF Accounted
    <3> QED
      BY <3>6 DEF Id, Copy
  <2>3. UNCHANGED <<sourceVars, mirror, still>>
    BY DEF EndMutation, Leave
  <2>4. csv'.round = round /\ csv'.rows = rows
    BY <1>2
  <2>5. \A p, per, t : Source(p, per, t)' = Source(p, per, t)
    BY <2>3, SourceStands
  <2>6. FirstRunCovers'
    BY <2>2, <2>3, <2>4, <2>5 DEF FirstRunCovers, sourceVars
  <2> QED
    BY <2>1, <2>6
<1> QED
  BY <1>1, <1>2 DEF EndMutation

LEMMA CoverInductive ==
  ASSUME CoverInv, [Next]_vars
  PROVE  CoverInv'
<1> DEFINE Covering == ScanFound /\ BatchWritten /\ CsvIsLast /\ FirstRunCovers
<1>1. SUFFICES Covering'
  BY StepType, WriteInductive DEF CoverInv, ScriptInv
<1>2. ASSUME NEW r \in Rounds, StartPreflight(r) \/ StartMutation(r)
      PROVE  Covering'
  BY <1>2, StartCover
<1>3. ASSUME NEW t \in Targets, BeginTarget(t)
      PROVE  Covering'
  BY <1>3, BeginTargetCover
<1>4. ASSUME NEW v \in Variables, ScanVariable(v)
      PROVE  Covering'
  BY <1>4, ScanCover
<1>5. CASE EndTarget
  BY <1>5, EndTargetCover
<1>6. CASE \/ \E t \in Targets : TargetRaises(t)
           \/ \E v \in Variables : VariableRaises(v)
  BY <1>6, RaisesCover
<1>7. CASE EndPreflight \/ GateRefuses \/ LoseConsole
  BY <1>7, LeaveCover DEF EndPreflight, GateRefuses, LoseConsole
<1>8. CASE GatePasses
  BY <1>8, GateCover
<1>9. ASSUME NEW c \in Candidates, Create(c)
      PROVE  Covering'
  BY <1>9, CreateCover
<1>10. CASE EndMutation
  BY <1>10, EndMutationCover
<1>11. CASE Moves
  BY <1>11 DEF CoverInv, Moves, scriptVars, scanVars, ScanFound, BatchWritten, CsvIsLast,
     FirstRunCovers
<1>12. CASE UNCHANGED vars
  <2>1. ScanFound'
    BY <1>12 DEF CoverInv, vars, sourceVars, scriptVars, scanVars, ScanFound, Found,
       Wanted, DealsOf, Below
  <2>2. BatchWritten' /\ CsvIsLast'
    BY <1>12 DEF CoverInv, vars, sourceVars, scriptVars, scanVars, BatchWritten,
       CsvIsLast, Accounted, Copy, Id
  <2>3. FirstRunCovers'
    BY <1>12, CoverStands DEF CoverInv, vars
  <2> QED
    BY <2>1, <2>2, <2>3
<1> QED
  BY <1>2, <1>3, <1>4, <1>5, <1>6, <1>7, <1>8, <1>9, <1>10, <1>11, <1>12 DEF Next

LEMMA InitCover == Init => CoverInv
<1> SUFFICES ASSUME Init PROVE CoverInv
  OBVIOUS
<1>1. ScriptInv
  BY InitScript
<1> QED
  BY <1>1 DEF Init, CoverInv, ScanFound, BatchWritten, CsvIsLast, FirstRunCovers

\* In every company, a mutation that created every row over a base that stood
\* still leaves on every target of a plan with override an up-to-date mirror of
\* each deal the daily reconciliation will look for.
THEOREM FirstRunIsComplete == Spec => []FirstRunCovers
<1>1. CoverInv /\ [Next]_vars => CoverInv'
  BY CoverInductive
<1>2. CoverInv => FirstRunCovers
  BY DEF CoverInv
<1> QED
  BY <1>1, <1>2, InitCover, PTL DEF Spec

-----------------------------------------------------------------------------
(* The batch that was projected is the one that is created.                *)

\* The base is the one the pre-flight saw, and nothing raised.
Undisturbed == still = "preflight" /\ faults = 0

\* What a complete scan of the round finds over the base as it stands.
Batch ==
  {c \in Candidates : /\ c[1] \in Participants[round[1]]
                      /\ c[2] \in PlanVariables[round[1]]
                      /\ c[3] \in Wanted(c[1], c[2])}

\* What is pasted, what it was edited for, and which results are at hand.
Pasted ==
  /\ projected # NoCsv => projected.round = round
  /\ script = "preflight" => projected = NoCsv
  /\ script = "mutation" => projected # NoCsv
  /\ script = "none" => phase = "idle"
  /\ phase = "writing" => script = "mutation" /\ waiting = {}
  /\ phase # "writing" => rows = {}
  /\ waiting \subseteq Participants[round[1]]
  /\ phase = "reading" =>
       target \in Participants[round[1]] /\ unread \subseteq PlanVariables[round[1]]
  /\ csv # NoCsv => phase = "idle"

\* What of the batch has not been found is on a target or a variable to come.
ToCome(c) ==
  \/ c[1] \in waiting
  \/ phase = "reading" /\ c[1] = target /\ c[2] \in unread

Scanned ==
  Undisturbed /\ phase # "idle" =>
    /\ candidates \subseteq Batch
    /\ phase = "reading" => recursive = Below(target)
    /\ \A c \in Batch \ candidates : ToCome(c)

BatchProjected == Undisturbed /\ projected # NoCsv => projected.batch = Batch

CreatedOf(batch) == {[candidate |-> c, outcome |-> "CREATED"] : c \in batch}

\* Nothing to come is there yet, and all that went before was created.
BatchCreated ==
  Undisturbed /\ phase = "writing" =>
    /\ \A c \in todo : ~HasRow(c[3], c[1])
    /\ rows = CreatedOf(candidates \ todo)

Projecting == Scanned /\ BatchProjected /\ BatchCreated /\ PreflightIsCreated

PreflightInv == ScriptInv /\ Pasted /\ Projecting

LEMMA BatchStands ==
  ASSUME UNCHANGED <<sourceVars, round>>
  PROVE  Batch' = Batch
BY DEF Batch, Wanted, DealsOf, Below, sourceVars

LEMMA StepPasted ==
  ASSUME ScriptInv, Pasted, [Next]_vars
  PROVE  Pasted'
<1> USE DEF Pasted
<1>1. ASSUME NEW r \in Rounds, StartPreflight(r) \/ StartMutation(r)
      PROVE  Pasted'
  BY <1>1 DEF StartPreflight, StartMutation, Begin
<1>2. ASSUME NEW t \in Targets, BeginTarget(t)
      PROVE  Pasted'
  BY <1>2 DEF BeginTarget
<1>3. ASSUME NEW v \in Variables, ScanVariable(v)
      PROVE  Pasted'
  BY <1>3 DEF ScanVariable
<1>4. CASE EndTarget
  BY <1>4 DEF EndTarget
<1>5. ASSUME NEW t \in Targets, TargetRaises(t)
      PROVE  Pasted'
  BY <1>5 DEF TargetRaises, Leave
<1>6. ASSUME NEW v \in Variables, VariableRaises(v)
      PROVE  Pasted'
  BY <1>6 DEF VariableRaises, Leave
<1>7. CASE EndPreflight
  <2>1. projected' # NoCsv => projected'.round = round
    BY <1>7 DEF EndPreflight
  <2> QED
    BY <1>7, <2>1 DEF EndPreflight, Leave
<1>8. CASE GateRefuses \/ EndMutation \/ LoseConsole
  BY <1>8 DEF GateRefuses, EndMutation, LoseConsole, Leave
<1>9. CASE GatePasses
  BY <1>9 DEF GatePasses, scanVars
<1>10. ASSUME NEW c \in Candidates, Create(c)
       PROVE  Pasted'
  BY <1>10 DEF Create, Writing, scanVars
<1>11. CASE Moves \/ UNCHANGED vars
  BY <1>11 DEF Moves, vars, scriptVars, scanVars
<1> QED
  BY <1>1, <1>2, <1>3, <1>4, <1>5, <1>6, <1>7, <1>8, <1>9, <1>10, <1>11 DEF Next

\* A script that ends without results holds no batch any more.
LEMMA LeaveProjecting ==
  ASSUME PreflightInv, Leave, UNCHANGED <<projected, csv>>, faults' = 0 => faults = 0
  PROVE  Projecting'
<1>1. Batch' = Batch
  BY BatchStands DEF Leave
<1>2. Scanned' /\ BatchCreated'
  BY DEF Leave, Scanned, BatchCreated
<1>3. BatchProjected'
  BY <1>1 DEF PreflightInv, Projecting, Leave, BatchProjected, Undisturbed
<1>4. PreflightIsCreated'
  BY DEF PreflightInv, Projecting, Leave, PreflightIsCreated
<1> QED
  BY <1>1, <1>2, <1>3, <1>4 DEF Projecting

LEMMA FaultCounts ==
  ASSUME ScriptInv, Fault
  PROVE  faults' # 0
BY DEF ScriptInv, TypeOK, Fault

LEMMA StartProjecting ==
  ASSUME PreflightInv, NEW r \in Rounds, StartPreflight(r) \/ StartMutation(r)
  PROVE  Projecting'
<1>1. Scanned'
  <2>1. ASSUME NEW c \in Batch'
        PROVE  c[1] \in waiting'
    BY DEF Batch, StartPreflight, StartMutation, Begin
  <2> QED
    BY <2>1 DEF Scanned, ToCome, StartPreflight, StartMutation, Begin
<1>2. BatchCreated' /\ PreflightIsCreated'
  BY DEF BatchCreated, PreflightIsCreated, StartPreflight, StartMutation, Begin
<1>3. ASSUME StartPreflight(r) PROVE BatchProjected'
  BY <1>3 DEF BatchProjected, StartPreflight
<1>4. ASSUME StartMutation(r) PROVE BatchProjected'
  <2>1. round' = round
    BY <1>4 DEF PreflightInv, Pasted, StartMutation, Begin
  <2>2. Batch' = Batch
    BY <1>4, <2>1, BatchStands DEF StartMutation, Begin
  <2>3. Undisturbed' => Undisturbed
    BY <1>4 DEF Undisturbed, StartMutation, Begin
  <2> QED
    BY <1>4, <2>2, <2>3 DEF PreflightInv, Projecting, BatchProjected, StartMutation
<1>5. BatchProjected'
  BY <1>3, <1>4
<1> QED
  BY <1>1, <1>2, <1>5 DEF Projecting

\* While a script scans or writes, only what it scanned and wrote is at stake.
LEMMA RunningProjecting ==
  ASSUME PreflightInv, phase # "idle",
         UNCHANGED <<sourceVars, round, projected, csv, still, faults>>,
         Scanned', BatchCreated'
  PROVE  Projecting'
<1>1. Batch' = Batch
  BY BatchStands
<1>2. csv' = NoCsv
  BY DEF PreflightInv, Pasted
<1> QED
  BY <1>1, <1>2 DEF PreflightInv, Projecting, BatchProjected, Undisturbed, PreflightIsCreated

LEMMA BeginTargetProjecting ==
  ASSUME PreflightInv, NEW t \in Targets, BeginTarget(t)
  PROVE  Projecting'
<1>1. Batch' = Batch /\ Below(t)' = Below(t)
  BY BatchStands DEF BeginTarget, Below, sourceVars
<1>2. Scanned'
  <2> SUFFICES ASSUME Undisturbed'
               PROVE  /\ candidates' \subseteq Batch'
                      /\ recursive' = Below(target)'
                      /\ \A c \in Batch' \ candidates' : ToCome(c)'
    BY DEF Scanned
  <2>1. /\ candidates \subseteq Batch
        /\ \A c \in Batch \ candidates : c[1] \in waiting
    BY DEF PreflightInv, Projecting, Scanned, ToCome, BeginTarget, Undisturbed
  <2>2. recursive' = Below(target)'
    BY <1>1 DEF BeginTarget, Below, sourceVars
  <2>3. ASSUME NEW c \in Batch \ candidates
        PROVE  ToCome(c)'
    BY <2>1 DEF BeginTarget, ToCome, Batch
  <2> QED
    BY <1>1, <2>1, <2>2, <2>3 DEF BeginTarget
<1>3. BatchCreated'
  BY DEF BatchCreated, BeginTarget
<1> QED
  BY <1>2, <1>3, RunningProjecting DEF BeginTarget

LEMMA ScanProjecting ==
  ASSUME PreflightInv, NEW v \in Variables, ScanVariable(v)
  PROVE  Projecting'
<1>1. Batch' = Batch /\ Below(target)' = Below(target)
  BY BatchStands DEF ScanVariable, Below, sourceVars
<1>2. Scanned'
  <2> SUFFICES ASSUME Undisturbed'
               PROVE  /\ candidates' \subseteq Batch
                      /\ recursive' = Below(target)
                      /\ \A c \in Batch \ candidates' : ToCome(c)'
    BY <1>1 DEF Scanned, ScanVariable, Below, sourceVars
  <2>1. /\ candidates \subseteq Batch
        /\ recursive = Below(target)
        /\ \A c \in Batch \ candidates : ToCome(c)
    BY DEF PreflightInv, Projecting, Scanned, ScanVariable, Undisturbed
  <2>2. FirstSource(v) = Wanted(target, v)
    BY <2>1 DEF FirstSource, Wanted
  <2>3. /\ candidates' = candidates \cup {<<target, v, o>> : o \in FirstSource(v)}
        /\ phase = "reading" /\ phase' = "reading"
        /\ UNCHANGED <<waiting, target, recursive>>
        /\ v \in unread /\ unread' = unread \ {v}
    BY DEF ScanVariable
  <2>4. {<<target, v, o>> : o \in FirstSource(v)} \subseteq Batch
    <3>1. {<<target, v, o>> : o \in FirstSource(v)} \subseteq Candidates
      BY <2>3, ScanWrite DEF PreflightInv, ScriptInv, WriteInv
    <3>2. target \in Participants[round[1]] /\ v \in PlanVariables[round[1]]
      BY <2>3 DEF PreflightInv, Pasted
    <3> QED
      BY <2>2, <3>1, <3>2 DEF Batch
  <2>5. ASSUME NEW c \in Batch \ candidates', ~(c[1] \in waiting)
        PROVE  c[2] \in unread' /\ c[1] = target
    <3>1. c \in Batch \ candidates
      BY <2>3
    <3>2. c[1] = target /\ c[2] \in unread
      BY <2>1, <2>5, <3>1 DEF ToCome
    <3>3. c[2] # v
      <4> SUFFICES ASSUME c[2] = v PROVE FALSE
        OBVIOUS
      <4>1. c = <<c[1], c[2], c[3]>>
        BY <3>1 DEF Batch, Candidates
      <4>2. c[3] \in FirstSource(v)
        BY <2>2, <3>1, <3>2 DEF Batch
      <4>3. c \in {<<target, v, o>> : o \in FirstSource(v)}
        BY <3>2, <4>1, <4>2
      <4> QED
        BY <2>3, <2>5, <4>3
    <3> QED
      BY <2>3, <3>2, <3>3
  <2>6. \A c \in Batch \ candidates' : ToCome(c)'
    BY <2>3, <2>5 DEF ToCome
  <2> QED
    BY <2>1, <2>3, <2>4, <2>6
<1>3. BatchCreated'
  BY DEF BatchCreated, ScanVariable
<1> QED
  BY <1>2, <1>3, RunningProjecting DEF ScanVariable

LEMMA EndTargetProjecting ==
  ASSUME PreflightInv, EndTarget
  PROVE  Projecting'
<1>1. Batch' = Batch
  BY BatchStands DEF EndTarget
<1>2. Scanned'
  BY <1>1 DEF PreflightInv, Projecting, Scanned, ToCome, EndTarget, Undisturbed
<1>3. BatchCreated'
  BY DEF BatchCreated, EndTarget
<1> QED
  BY <1>2, <1>3, RunningProjecting DEF EndTarget

\* After an exception nothing is claimed any more.
LEMMA FaultProjecting ==
  ASSUME PreflightInv, faults' # 0
  PROVE  Projecting'
BY DEF Projecting, Scanned, BatchProjected, BatchCreated, PreflightIsCreated, Undisturbed

LEMMA EndPreflightProjecting ==
  ASSUME PreflightInv, EndPreflight
  PROVE  Projecting'
<1>1. CASE Fault
  BY <1>1, FaultCounts, FaultProjecting DEF PreflightInv
<1>2. CASE ~Fault
  <2>1. Batch' = Batch
    BY BatchStands DEF EndPreflight, Leave
  <2>2. BatchProjected'
    <3>1. projected'.batch = candidates
      BY <1>2 DEF EndPreflight
    <3>2. Undisturbed => candidates = Batch
      BY DEF PreflightInv, Projecting, Scanned, ToCome, EndPreflight
    <3>3. Undisturbed' => Undisturbed
      BY <1>2 DEF Undisturbed, EndPreflight, Leave
    <3> QED
      BY <2>1, <3>1, <3>2, <3>3 DEF BatchProjected
  <2>3. Scanned' /\ BatchCreated'
    BY DEF EndPreflight, Leave, Scanned, BatchCreated
  <2>4. csv' = NoCsv
    BY DEF EndPreflight, PreflightInv, Pasted
  <2>5. PreflightIsCreated'
    BY <2>4 DEF PreflightIsCreated
  <2> QED
    BY <2>2, <2>3, <2>5 DEF Projecting
<1> QED
  BY <1>1, <1>2

LEMMA GateProjecting ==
  ASSUME PreflightInv, GatePasses
  PROVE  Projecting'
<1>1. Batch' = Batch
  BY BatchStands DEF GatePasses
<1>2. Scanned'
  BY <1>1 DEF PreflightInv, Projecting, Scanned, ToCome, GatePasses, scanVars, Undisturbed
<1>3. rows = {} /\ rows' = {}
  BY DEF PreflightInv, Pasted, GatePasses
<1>4. CreatedOf(candidates' \ todo') = {}
  BY DEF GatePasses, CreatedOf
<1>5. \A c \in candidates : ~HasRow(c[3], c[1])'
  BY DEF GatePasses, SomeExists, HasRow
<1>6. BatchCreated'
  BY <1>3, <1>4, <1>5 DEF GatePasses, BatchCreated
<1> QED
  BY <1>2, <1>6, RunningProjecting DEF GatePasses

\* Two candidates of the batch never share an identity.
LEMMA BatchApart ==
  ASSUME MetricsApart, ScriptInv, NEW c \in Batch, NEW d \in Batch, Id(c) = Id(d)
  PROVE  c = d
<1>1. c = <<c[1], c[2], c[3]>> /\ d = <<d[1], d[2], d[3]>>
  BY DEF Batch, Candidates
<1>2. c[1] = d[1] /\ c[3] = d[3]
  BY DEF Id
<1>3. original[c[3]].content \in Selects[c[2]] /\ original[d[3]].content \in Selects[d[2]]
  BY DEF Batch, Wanted, DealsOf
<1>4. round[1] \in Plans
  BY DEF ScriptInv, TypeOK, Rounds
<1>5. c[2] = d[2]
  BY <1>2, <1>3, <1>4 DEF MetricsApart, Batch
<1> QED
  BY <1>1, <1>2, <1>5

LEMMA CreateProjecting ==
  ASSUME MetricsApart, PreflightInv, NEW c \in Candidates, Create(c)
  PROVE  Projecting'
<1>1. CASE faults' # 0
  BY <1>1, FaultProjecting
<1>2. CASE faults' = 0
  <2>1. ~Fault
    BY <1>2, FaultCounts DEF PreflightInv
  <2>2. /\ phase = "writing" /\ phase' = "writing" /\ c \in todo /\ todo' = todo \ {c}
        /\ UNCHANGED <<sourceVars, round, waiting, target, recursive, unread, candidates,
                       projected, csv, still, faults>>
    BY <2>1 DEF Create, Writing, scanVars
  <2>3. Batch' = Batch
    BY <2>2, BatchStands
  <2>4. Scanned'
    BY <2>2, <2>3 DEF PreflightInv, Projecting, Scanned, ToCome, Undisturbed
  <2>5. ASSUME Undisturbed
        PROVE  /\ \A d \in todo' : ~HasRow(d[3], d[1])'
               /\ rows' = CreatedOf(candidates \ todo')
    <3>1. /\ \A d \in todo : ~HasRow(d[3], d[1])
          /\ rows = CreatedOf(candidates \ todo)
          /\ candidates \subseteq Batch
      BY <2>2, <2>5 DEF PreflightInv, Projecting, BatchCreated, Scanned
    <3>2. todo \subseteq candidates /\ mirror \in [Identities -> MirrorState]
      BY DEF PreflightInv, ScriptInv, WriteInv, WriteType
    <3>3. mirror' = [mirror EXCEPT ![Id(c)] = Copy(c)] /\ Outcome(c, "CREATED")
      BY <2>1, <2>2, <3>1 DEF Create
    <3>4. ASSUME NEW d \in todo'
          PROVE  ~HasRow(d[3], d[1])'
      <4>1. d \in todo /\ d # c /\ d \in Batch /\ c \in Batch
        BY <2>2, <3>1, <3>2
      <4>2. Id(d) # Id(c)
        BY <4>1, BatchApart DEF PreflightInv
      <4>3. d \in Candidates
        BY <4>1 DEF Batch
      <4>4. mirror'[<<d[3], d[1]>>] = mirror[<<d[3], d[1]>>]
        BY <3>2, <3>3, <4>2, <4>3, IdType
      <4> QED
        BY <3>1, <4>1, <4>4 DEF HasRow
    <3>5. candidates \ todo' = (candidates \ todo) \cup {c}
      BY <2>2, <3>2
    <3>6. rows' = CreatedOf(candidates \ todo')
      BY <3>1, <3>3, <3>5 DEF Outcome, CreatedOf
    <3> QED
      BY <3>4, <3>6
  <2>6. BatchCreated'
    BY <2>2, <2>5 DEF BatchCreated, Undisturbed
  <2> QED
    BY <2>2, <2>4, <2>6, RunningProjecting
<1> QED
  BY <1>1, <1>2

\* The step that hands over the rows: the batch found by this scan is the one
\* that was projected, and every candidate of it was created.
LEMMA EndMutationProjecting ==
  ASSUME PreflightInv, EndMutation
  PROVE  Projecting'
<1>1. CASE Fault
  BY <1>1, FaultCounts, FaultProjecting DEF PreflightInv
<1>2. CASE ~Fault
  <2>1. csv' = [round |-> round, rows |-> rows] /\ faults' = faults
    BY <1>2 DEF EndMutation
  <2>2. Batch' = Batch
    BY BatchStands DEF EndMutation, Leave
  <2>3. Undisturbed' => Undisturbed
    BY <2>1 DEF Undisturbed, EndMutation, Leave
  <2>4. Scanned' /\ BatchCreated'
    BY DEF EndMutation, Leave, Scanned, BatchCreated
  <2>5. BatchProjected'
    BY <2>2, <2>3 DEF PreflightInv, Projecting, BatchProjected, EndMutation
  <2>6. ASSUME Undisturbed, projected # NoCsv
        PROVE  rows = CreatedOf(projected.batch)
    <3>1. waiting = {}
      BY DEF PreflightInv, Pasted, EndMutation
    <3>2. candidates = Batch
      BY <2>6, <3>1 DEF PreflightInv, Projecting, Scanned, ToCome, EndMutation
    <3>3. rows = CreatedOf(candidates \ {})
      BY <2>6 DEF PreflightInv, Projecting, BatchCreated, EndMutation
    <3>4. projected.batch = Batch /\ candidates \ {} = candidates
      BY <2>6 DEF PreflightInv, Projecting, BatchProjected
    <3> QED
      BY <3>2, <3>3, <3>4
  <2>7. PreflightIsCreated'
    <3>1. csv'.rows = rows
      BY <2>1
    <3> QED
      BY <2>3, <2>6, <3>1 DEF PreflightIsCreated, CreatedOf, Undisturbed, EndMutation, Leave
  <2> QED
    BY <2>4, <2>5, <2>7 DEF Projecting
<1> QED
  BY <1>1, <1>2

LEMMA PreflightInductive ==
  ASSUME MetricsApart, PreflightInv, [Next]_vars
  PROVE  PreflightInv'
<1>1. SUFFICES Projecting'
  BY StepType, WriteInductive, StepPasted DEF PreflightInv, ScriptInv
<1>2. ASSUME NEW r \in Rounds, StartPreflight(r) \/ StartMutation(r)
      PROVE  Projecting'
  BY <1>2, StartProjecting
<1>3. ASSUME NEW t \in Targets, BeginTarget(t)
      PROVE  Projecting'
  BY <1>3, BeginTargetProjecting
<1>4. ASSUME NEW v \in Variables, ScanVariable(v)
      PROVE  Projecting'
  BY <1>4, ScanProjecting
<1>5. CASE EndTarget
  BY <1>5, EndTargetProjecting
<1>6. CASE \/ \E t \in Targets : TargetRaises(t)
           \/ \E v \in Variables : VariableRaises(v)
           \/ LoseConsole
  <2>1. Fault
    BY <1>6 DEF TargetRaises, VariableRaises, LoseConsole
  <2> QED
    BY <2>1, FaultCounts, FaultProjecting DEF PreflightInv
<1>7. CASE GateRefuses
  BY <1>7, LeaveProjecting DEF GateRefuses
<1>8. CASE EndPreflight
  BY <1>8, EndPreflightProjecting
<1>9. CASE GatePasses
  BY <1>9, GateProjecting
<1>10. ASSUME NEW c \in Candidates, Create(c)
       PROVE  Projecting'
  BY <1>10, CreateProjecting
<1>11. CASE EndMutation
  BY <1>11, EndMutationProjecting
<1>12. CASE Moves
  BY <1>12 DEF Moves, Projecting, Scanned, BatchProjected, BatchCreated,
     PreflightIsCreated, Undisturbed
<1>13. CASE UNCHANGED vars
  <2>1. Batch' = Batch
    BY <1>13, BatchStands DEF vars, scriptVars
  <2>2. Scanned'
    BY <1>13, <2>1 DEF vars, scriptVars, scanVars, sourceVars, PreflightInv, Projecting,
       Scanned, ToCome, Undisturbed, Below
  <2>3. BatchProjected' /\ PreflightIsCreated'
    BY <1>13, <2>1 DEF vars, PreflightInv, Projecting, BatchProjected, Undisturbed,
       PreflightIsCreated
  <2>4. BatchCreated'
    BY <1>13 DEF vars, scriptVars, PreflightInv, Projecting, BatchCreated, Undisturbed,
       HasRow, CreatedOf
  <2> QED
    BY <2>2, <2>3, <2>4 DEF Projecting
<1> QED
  BY <1>2, <1>3, <1>4, <1>5, <1>6, <1>7, <1>8, <1>9, <1>10, <1>11, <1>12, <1>13 DEF Next

LEMMA InitPreflight == Init => PreflightInv
<1> SUFFICES ASSUME Init PROVE PreflightInv
  OBVIOUS
<1>1. ScriptInv
  BY InitScript
<1>2. Pasted
  BY DEF Init, Pasted
<1>3. Projecting
  BY DEF Init, Projecting, Scanned, BatchProjected, BatchCreated, PreflightIsCreated
<1> QED
  BY <1>1, <1>2, <1>3 DEF PreflightInv

\* Where no sale is selected by two variables of a plan, a mutation over the
\* base its pre-flight saw, in which nothing raised, creates the batch that was
\* projected: all of it, once each, and nothing else.
THEOREM ProjectedBatchIsCreated ==
  ASSUME MetricsApart
  PROVE  Spec => []PreflightIsCreated
<1>1. PreflightInv /\ [Next]_vars => PreflightInv'
  BY PreflightInductive
<1>2. PreflightInv => PreflightIsCreated
  BY DEF PreflightInv, Projecting
<1> QED
  BY <1>1, <1>2, InitPreflight, PTL DEF Spec

-----------------------------------------------------------------------------
(* What the CSV tells of the base.                                         *)

TellingInv ==
  /\ ScriptInv /\ Pasted
  /\ phase = "writing" => Tells(rows)
  /\ EachIdentityOnce

\* Rows that are kept while no mirror is written tell the truth still; a fault
\* only takes from what they have to tell.
LEMMA TellsStands ==
  ASSUME TellingInv, UNCHANGED mirror, faults' = 0 => faults = 0
  PROVE  /\ phase = "writing" /\ rows' = rows => Tells(rows)'
         /\ csv' = csv => EachIdentityOnce'
<1>1. \A c : HasRow(c[3], c[1])' = HasRow(c[3], c[1])
  BY DEF HasRow
<1>2. ASSUME phase = "writing", rows' = rows
      PROVE  Tells(rows)'
  BY <1>1, <1>2 DEF TellingInv, Tells, CreatedFor, Id
<1>3. ASSUME csv' = csv
      PROVE  EachIdentityOnce'
  BY <1>1, <1>3 DEF TellingInv, EachIdentityOnce, Tells, CreatedFor, Id
<1> QED
  BY <1>2, <1>3

LEMMA FaultsOnlyRise ==
  ASSUME ScriptInv, faults' = faults \/ Fault
  PROVE  faults' = 0 => faults = 0
BY DEF ScriptInv, TypeOK, Fault

\* The row of a write adds to what is known of its own identity alone.
LEMMA CreateTells ==
  ASSUME TellingInv, NEW c \in Candidates, Create(c)
  PROVE  Tells(rows)'
<1> DEFINE row(out) == [candidate |-> c, outcome |-> out]
<1>1. /\ Tells(rows) /\ c \in candidates /\ rows \subseteq Rows
      /\ mirror \in [Identities -> MirrorState] /\ NothingOverExisting
  BY DEF TellingInv, ScriptInv, TypeOK, BaseTypeOK, WriteInv, Create, Writing
<1>2. HasRow(c[3], c[1]) <=> CreatedFor(rows, c) # {}
  <2>1. HasRow(c[3], c[1]) => CreatedFor(rows, c) # {}
    BY <1>1 DEF NothingOverExisting, CreatedFor, Create, Writing
  <2>2. ASSUME NEW x \in CreatedFor(rows, c)
        PROVE  HasRow(c[3], c[1])
    <3>1. x \in CreatedFor(rows, x.candidate) /\ x \in rows /\ Id(x.candidate) = Id(c)
      BY DEF CreatedFor
    <3>2. HasRow(x.candidate[3], x.candidate[1])
      BY <1>1, <3>1 DEF Tells
    <3> QED
      BY <3>1, <3>2 DEF Id, HasRow
  <2> QED
    BY <2>1, <2>2
<1>3. \A x, y \in CreatedFor(rows, c) : x = y
  <2> SUFFICES ASSUME NEW x \in CreatedFor(rows, c), NEW y \in CreatedFor(rows, c)
               PROVE  x = y
    OBVIOUS
  <2>1. x \in rows /\ x \in CreatedFor(rows, x.candidate) /\ y \in CreatedFor(rows, x.candidate)
    BY DEF CreatedFor
  <2> QED
    BY <1>1, <2>1 DEF Tells
<1>4. CASE mirror' = [mirror EXCEPT ![Id(c)] = Copy(c)] /\ Outcome(c, "CREATED")
           /\ ~HasRow(c[3], c[1]) /\ faults' = faults
  <2>1. Id(c) = <<c[3], c[1]>> /\ Id(c) \in Identities
    BY IdType
  <2>2. rows' = rows \cup {row("CREATED")} /\ CreatedFor(rows, c) = {}
    BY <1>2, <1>4 DEF Outcome
  <2>3. ASSUME NEW d \in Candidates, Id(d) = Id(c)
        PROVE  CreatedFor(rows', d) = {row("CREATED")} /\ HasRow(d[3], d[1])'
    <3>1. CreatedFor(rows', d) = CreatedFor(rows, c) \cup {row("CREATED")}
      BY <2>2, <2>3 DEF CreatedFor
    <3>2. <<d[3], d[1]>> = Id(c)
      BY <2>3, IdType
    <3>3. mirror'[<<d[3], d[1]>>].state = "enabled"
      BY <1>1, <1>4, <2>1, <3>2 DEF Copy
    <3> QED
      BY <2>2, <3>1, <3>3 DEF HasRow
  <2>4. ASSUME NEW d \in Candidates, Id(d) # Id(c)
        PROVE  CreatedFor(rows', d) = CreatedFor(rows, d)
               /\ HasRow(d[3], d[1])' = HasRow(d[3], d[1])
    <3>1. CreatedFor(rows', d) = CreatedFor(rows, d)
      BY <2>2, <2>4 DEF CreatedFor
    <3>2. <<d[3], d[1]>> # Id(c) /\ <<d[3], d[1]>> \in Identities
      BY <2>4, IdType
    <3>3. mirror'[<<d[3], d[1]>>] = mirror[<<d[3], d[1]>>]
      BY <1>1, <1>4, <3>2
    <3> QED
      BY <3>1, <3>3 DEF HasRow
  <2>5. ASSUME NEW r \in rows'
        PROVE  /\ HasRow(r.candidate[3], r.candidate[1])' <=> CreatedFor(rows', r.candidate) # {}
               /\ \A x, y \in CreatedFor(rows', r.candidate) : x = y
               /\ faults' = 0 => CreatedFor(rows', r.candidate) # {}
    <3>1. r.candidate \in Candidates
      BY <1>1, <2>2 DEF Rows
    <3>2. CASE Id(r.candidate) = Id(c)
      BY <2>3, <3>1, <3>2
    <3>3. CASE Id(r.candidate) # Id(c)
      <4>1. r \in rows
        BY <2>2, <3>3
      <4> QED
        BY <1>1, <1>4, <2>4, <3>1, <3>3, <4>1 DEF Tells
    <3> QED
      BY <3>2, <3>3
  <2> QED
    BY <2>5 DEF Tells, CreatedFor, Id
<1>5. ASSUME NEW out \in {"FAILED", "ERROR"}, Outcome(c, out), UNCHANGED mirror,
             faults' = 0 => HasRow(c[3], c[1]), faults' = 0 => faults = 0
      PROVE  Tells(rows)'
  <2>1. rows' = rows \cup {row(out)}
    BY <1>5 DEF Outcome
  <2>2. \A d : CreatedFor(rows', d) = CreatedFor(rows, d)
    BY <2>1 DEF CreatedFor
  <2>3. \A d : HasRow(d[3], d[1])' = HasRow(d[3], d[1])
    BY <1>5 DEF HasRow
  <2>4. ASSUME NEW r \in rows'
        PROVE  /\ HasRow(r.candidate[3], r.candidate[1])' <=> CreatedFor(rows', r.candidate) # {}
               /\ \A x, y \in CreatedFor(rows', r.candidate) : x = y
               /\ faults' = 0 => CreatedFor(rows', r.candidate) # {}
    <3>1. CASE r \in rows
      BY <1>1, <1>5, <2>2, <2>3, <3>1 DEF Tells
    <3>2. CASE r = row(out)
      <4>1. r.candidate = c
        BY <3>2
      <4> QED
        BY <1>2, <1>3, <1>5, <2>2, <2>3, <4>1
    <3> QED
      BY <2>1, <3>1, <3>2
  <2> QED
    BY <2>4 DEF Tells, CreatedFor, Id
<1>6. CASE Fault /\ UNCHANGED mirror
  <2>1. faults' # 0
    BY <1>6, FaultCounts DEF TellingInv
  <2>2. PICK out \in {"FAILED", "ERROR"} : Outcome(c, out)
    <3>1. UNCHANGED mirror => ~(~HasRow(c[3], c[1]) /\ mirror' = [mirror EXCEPT ![Id(c)] = Copy(c)])
      <4>1. Id(c) = <<c[3], c[1]>> /\ Id(c) \in Identities
        BY IdType
      <4> QED
        BY <1>1, <4>1 DEF HasRow, Copy
    <3> QED
      BY <1>6, <3>1 DEF Create
  <2> QED
    BY <1>5, <1>6, <2>1, <2>2
<1>7. CASE HasRow(c[3], c[1]) /\ Outcome(c, "FAILED") /\ UNCHANGED <<mirror, faults>>
  BY <1>5, <1>7
<1> QED
  BY <1>4, <1>6, <1>7 DEF Create

LEMMA TellingInductive ==
  ASSUME TellingInv, [Next]_vars
  PROVE  TellingInv'
<1>1. SUFFICES (phase' = "writing" => Tells(rows)') /\ EachIdentityOnce'
  BY StepType, WriteInductive, StepPasted DEF TellingInv, ScriptInv
<1>2. ASSUME NEW r \in Rounds, StartPreflight(r) \/ StartMutation(r)
      PROVE  phase' # "writing" /\ csv' = NoCsv
  BY <1>2 DEF StartPreflight, StartMutation, Begin
<1>3. CASE GatePasses
  <2>1. rows' = {} /\ csv' = csv /\ UNCHANGED <<mirror, faults>>
    BY <1>3 DEF GatePasses, TellingInv, Pasted
  <2> QED
    BY <2>1, TellsStands DEF Tells
<1>4. ASSUME NEW c \in Candidates, Create(c)
      PROVE  Tells(rows)' /\ EachIdentityOnce'
  <2>1. csv' = csv /\ csv = NoCsv
    BY <1>4 DEF Create, Writing, TellingInv, Pasted
  <2> QED
    BY <1>4, <2>1, CreateTells DEF EachIdentityOnce
<1>5. CASE EndMutation
  <2>1. phase' # "writing" /\ UNCHANGED mirror /\ phase = "writing"
    BY <1>5 DEF EndMutation, Leave
  <2>2. CASE csv' = [round |-> round, rows |-> rows] /\ faults' = faults
    <3>1. csv'.rows = rows
      BY <2>2
    <3>2. \A c : HasRow(c[3], c[1])' = HasRow(c[3], c[1])
      BY <2>1 DEF HasRow
    <3>3. Tells(rows)
      BY <2>1 DEF TellingInv
    <3>4. Tells(csv.rows)'
      BY <2>2, <3>1, <3>2, <3>3 DEF Tells, CreatedFor, Id
    <3> QED
      BY <2>1, <3>4 DEF EachIdentityOnce
  <2>3. CASE Fault /\ csv' = csv
    BY <2>1, <2>3, TellsStands, FaultsOnlyRise DEF TellingInv
  <2> QED
    BY <1>5, <2>2, <2>3 DEF EndMutation
<1>6. CASE /\ UNCHANGED <<mirror, csv>>
           /\ faults' = faults \/ Fault
           /\ phase' = "writing" => phase = "writing" /\ rows' = rows
  BY <1>6, TellsStands, FaultsOnlyRise DEF TellingInv
<1>7. CASE \/ \E t \in Targets : BeginTarget(t) \/ TargetRaises(t)
           \/ \E v \in Variables : ScanVariable(v) \/ VariableRaises(v)
           \/ EndTarget \/ EndPreflight \/ GateRefuses \/ LoseConsole
           \/ Moves \/ UNCHANGED vars
  <2>1. /\ UNCHANGED <<mirror, csv>>
        /\ faults' = faults \/ Fault
        /\ phase' = "writing" => phase = "writing" /\ rows' = rows
    BY <1>7 DEF BeginTarget, TargetRaises, ScanVariable, VariableRaises, EndTarget,
       EndPreflight, GateRefuses, LoseConsole, Moves, Leave, vars, scriptVars
  <2> QED
    BY <1>6, <2>1
<1> QED
  BY <1>2, <1>3, <1>4, <1>5, <1>7 DEF Next, EachIdentityOnce

LEMMA InitTelling == Init => TellingInv
BY InitScript DEF Init, TellingInv, Pasted, EachIdentityOnce

\* In every company, one where two variables of a plan select a sale included,
\* the CSV of a mutation accounts for the base: whatever insert was refused and
\* however the base moved, a record under an identity of the batch is the work
\* of the one row that says so, and without a fault every identity has one.
THEOREM CsvAccountsForTheBase == Spec => []EachIdentityOnce
<1>1. TellingInv /\ [Next]_vars => TellingInv'
  BY TellingInductive
<1>2. TellingInv => EachIdentityOnce
  BY DEF TellingInv
<1> QED
  BY <1>1, <1>2, InitTelling, PTL DEF Spec
=============================================================================
