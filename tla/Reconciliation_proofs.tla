------------------------ MODULE Reconciliation_proofs ------------------------
(***************************************************************************)
(* Proofs about the reconciliation, for any company: any set of deals,     *)
(* users, plans, competences and hierarchies.                              *)
(***************************************************************************)
EXTENDS Reconciliation, FiniteSetTheorems, TLAPS

LEMMA EnvironmentType ==
  ASSUME BaseTypeOK, Environment, UNCHANGED mirror
  PROVE  BaseTypeOK'
<1>1. moves' \in 0 .. MaxMoves
  BY BaseAssumption DEF Environment, BaseTypeOK
<1>2. ASSUME NEW o \in Originals, CorrectDeal(o)
      PROVE  BaseTypeOK'
  <2>1. PICK c \in Contents : original' = [original EXCEPT ![o].content = c]
    BY <1>2 DEF CorrectDeal
  <2>2. original' \in [Originals -> DealState]
    BY <2>1 DEF BaseTypeOK, DealState
  <2> QED
    BY <1>1, <1>2, <2>2 DEF CorrectDeal, BaseTypeOK, Identities
<1>3. ASSUME NEW o \in Originals, ToggleDeal(o)
      PROVE  BaseTypeOK'
  <2>1. original' \in [Originals -> DealState]
    BY <1>3 DEF ToggleDeal, BaseTypeOK, DealState
  <2> QED
    BY <1>1, <1>3, <2>1 DEF ToggleDeal, BaseTypeOK, Identities
<1>4. CASE MoveSeats
  BY <1>1, <1>4 DEF MoveSeats, BaseTypeOK
<1>5. ASSUME NEW row \in CarrierRows, ToggleIndicator(row)
      PROVE  BaseTypeOK'
  BY <1>1, <1>5 DEF ToggleIndicator, BaseTypeOK
<1> QED
  BY <1>2, <1>3, <1>4, <1>5 DEF Environment

\* A write into the base keeps it a function from identities to mirrors.
LEMMA MirrorWriteType ==
  ASSUME TypeOK, NEW i \in Identities
  PROVE  /\ \A c \in Contents :
              [mirror EXCEPT ![i] = [state |-> "enabled", content |-> c]]
                \in [Identities -> MirrorState]
         /\ \A s \in {"enabled", "disabled"} :
              [mirror EXCEPT ![i].state = s] \in [Identities -> MirrorState]
         /\ \A c \in Contents :
              [mirror EXCEPT ![i].content = c] \in [Identities -> MirrorState]
<1>1. mirror \in [Identities -> MirrorState] /\ mirror[i] \in MirrorState
  BY DEF TypeOK, BaseTypeOK
<1>2. \A s \in {"enabled", "disabled"} :
        [mirror[i] EXCEPT !.state = s] \in MirrorState
  BY <1>1 DEF MirrorState
<1>3. \A c \in Contents : [mirror[i] EXCEPT !.content = c] \in MirrorState
  BY <1>1 DEF MirrorState
<1>4. \A c \in Contents : [state |-> "enabled", content |-> c] \in MirrorState
  BY DEF MirrorState
<1> QED
  BY <1>1, <1>2, <1>3, <1>4

LEMMA CountType ==
  ASSUME TypeOK, NEW names, Count(names)
  PROVE  counts' \in [Counters -> Nat]
BY DEF TypeOK, Count

LEMMA LogType ==
  ASSUME TypeOK, NEW action \in RowActions, NEW o \in Originals,
         target \in Targets, NEW outcome \in Outcomes, Log(action, o, outcome)
  PROVE  rows' \subseteq Rows
BY DEF TypeOK, Log, Rows

LEMMA FaultType ==
  ASSUME TypeOK, Fault
  PROVE  faults' \in 0 .. MaxFaults
BY ReconciliationAssumption DEF TypeOK, Fault

\* A pass that runs has a job, and its loops have a target of the plan.
Handling ==
  /\ phase # "idle" => job \in Jobs /\ waiting \subseteq Participants[job.plan]
  /\ phase \in {"reading", "expected", "orphans"} =>
       target \in Participants[job.plan]

TypeInv == TypeOK /\ Handling

LEMMA TargetType ==
  ASSUME TypeInv, phase \in {"reading", "expected", "orphans"}
  PROVE  target \in Targets
BY BaseAssumption DEF TypeInv, Handling, Jobs

\* What a step of either loop leaves alone.
LEMMA TakingType ==
  ASSUME TypeInv, NEW loop \in {"expected", "orphans"}, NEW o \in Originals,
         Taking(loop, o),
         mirror' \in [Identities -> MirrorState], rows' \subseteq Rows,
         counts' \in [Counters -> Nat], faults' \in 0 .. MaxFaults
  PROVE  TypeInv'
<1>1. BaseTypeOK'
  BY DEF TypeInv, TypeOK, BaseTypeOK, Taking, sourceVars
<1>2. Handling'
  BY DEF TypeInv, Handling, Taking
<1> QED
  BY <1>1, <1>2 DEF TypeInv, TypeOK, Taking, historyVars

LEMMA WriteType ==
  ASSUME TypeOK, target \in Targets, NEW o \in Originals,
         NEW action \in RowActions, NEW onError \in RowActions,
         NEW written \in [Identities -> MirrorState],
         Write(action, onError, o, written)
  PROVE  /\ mirror' \in [Identities -> MirrorState]
         /\ rows' \subseteq Rows
         /\ counts' \in [Counters -> Nat]
         /\ faults' \in 0 .. MaxFaults
<1>1. counts' \in [Counters -> Nat]
  BY CountType DEF Write
<1>2. PICK a \in RowActions, out \in Outcomes : Log(a, o, out)
  BY DEF Write, Outcomes
<1>3. rows' \subseteq Rows
  BY <1>2, LogType
<1>4. mirror' \in [Identities -> MirrorState]
  BY DEF Write, TypeOK, BaseTypeOK
<1>5. faults' \in 0 .. MaxFaults
  BY FaultType DEF Write, TypeOK
<1> QED
  BY <1>1, <1>3, <1>4, <1>5

LEMMA RecordType ==
  ASSUME TypeInv, phase # "idle", NEW clean, Record(clean)
  PROVE  streak' \in [Rounds -> 0 .. 2]
<1>1. Round \in Rounds
  BY DEF TypeInv, Handling, Round, Rounds, Jobs
<1> QED
  BY <1>1 DEF Record, TypeInv, TypeOK

LEMMA ResetType ==
  ASSUME Reset
  PROVE  /\ job' = NoJob /\ phase' = "idle" /\ waiting' = {}
         /\ target' = NoTarget /\ reach' = NoReach /\ unread' = {} /\ expected' = {}
         /\ existing' = {} /\ todo' = {} /\ rows' = {}
         /\ counts' \in [Counters -> Nat] /\ skipped' \in BOOLEAN
BY DEF Reset

LEMMA DeltaType ==
  ASSUME TypeOK
  PROVE  Delta(rows) \in SUBSET Deltas
BY DEF TypeOK, Delta, Rows, Deltas

LEMMA NoReachType == NoReach \in [below : SUBSET Users, pap : SUBSET Users]
BY DEF NoReach

LEMMA ReachType ==
  ASSUME TypeOK, NEW t \in Targets
  PROVE  ReachOf(t) \in [below : SUBSET Users, pap : SUBSET Users]
<1>1. subtree \in [Users -> SUBSET Users] /\ t \in Users
  BY BaseAssumption DEF TypeOK, BaseTypeOK
<1>2. Below(t) \subseteq Users
  BY <1>1 DEF Below
<1>3. PapPopulation(t) \subseteq Users
  BY <1>1, <1>2 DEF PapPopulation
<1> QED
  BY <1>2, <1>3 DEF ReachOf

LEMMA InitType == Init => TypeInv
<1> SUFFICES ASSUME Init PROVE TypeInv
  OBVIOUS
<1>1. BaseTypeOK
  <2>1. NoMirror \in MirrorState
    BY BaseAssumption DEF NoMirror, MirrorState
  <2>2. mirror \in [Identities -> MirrorState]
    BY <2>1 DEF Init, BaseInit
  <2> QED
    BY <2>2, BaseAssumption DEF Init, BaseInit, BaseTypeOK
<1>2. report \in [Rounds -> (SUBSET Deltas) \cup {NoCsv}]
  BY DEF Init
<1>3. /\ job \in Jobs \cup {NoJob} /\ target \in Targets \cup {NoTarget}
      /\ counts \in [Counters -> Nat] /\ streak \in [Rounds -> 0 .. 2]
      /\ csv \in [round : Rounds, rows : SUBSET Rows, complete : BOOLEAN] \cup {NoCsv}
      /\ faults \in 0 .. MaxFaults
  BY ReconciliationAssumption DEF Init
<1>4. Handling
  BY DEF Init, Handling
<1>5. /\ waiting \subseteq Targets /\ unread \subseteq Variables
      /\ reach \in [below : SUBSET Users, pap : SUBSET Users]
      /\ expected \subseteq Originals /\ existing \subseteq Originals
      /\ todo \subseteq Originals /\ rows \subseteq Rows /\ fresh \subseteq Rounds
      /\ quiet \in BOOLEAN /\ skipped \in BOOLEAN /\ phase = "idle"
  BY NoReachType DEF Init
<1> QED
  BY <1>1, <1>2, <1>3, <1>4, <1>5 DEF TypeInv, TypeOK

LEMMA StepType ==
  ASSUME TypeInv, Step
  PROVE  TypeInv'
<1> USE DEF TypeInv
<1>1. ASSUME NEW t \in Targets, BeginTarget(t)
      PROVE  TypeInv'
  <2>1. job \in Jobs /\ t \in Participants[job.plan]
    BY <1>1 DEF BeginTarget, Handling
  <2>2. unread' \subseteq Variables
    BY <1>1, <2>1, BaseAssumption DEF BeginTarget, Jobs
  <2>3. Handling'
    BY <1>1, <2>1 DEF BeginTarget, Handling
  <2> QED
    BY <1>1, <2>2, <2>3, ReachType DEF BeginTarget, TypeOK, BaseTypeOK, sourceVars,
                            bookVars, historyVars
<1>2. ASSUME NEW v \in Variables, ReadVariable(v)
      PROVE  TypeInv'
  <2>1. expected' \subseteq Originals
    BY <1>2 DEF ReadVariable, TypeOK, SelectedFrom, DealsOf
  <2>2. Handling'
    BY <1>2 DEF ReadVariable, Handling
  <2> QED
    BY <1>2, <2>1, <2>2 DEF ReadVariable, TypeOK, BaseTypeOK, sourceVars,
                            bookVars, historyVars
<1>3. CASE ReadMirrors
  <2>1. existing' \subseteq Originals
    BY <1>3 DEF ReadMirrors, Existing
  <2>2. /\ Cardinality(expected) \in Nat
        /\ Cardinality(existing') \in Nat
    BY <2>1, BaseAssumption, FS_Subset, FS_CardinalityType DEF TypeOK
  <2>3. counts' \in [Counters -> Nat]
    BY <1>3, <2>2 DEF ReadMirrors, TypeOK, Counters
  <2>4. Handling'
    BY <1>3 DEF ReadMirrors, Handling
  <2> QED
    BY <1>3, <2>1, <2>3, <2>4, NoReachType DEF ReadMirrors, TypeOK, BaseTypeOK, sourceVars,
                                  historyVars
<1>4. CASE SkipTarget
  <2>1. faults' \in 0 .. MaxFaults
    BY <1>4, FaultType DEF SkipTarget
  <2>2. Handling'
    BY <1>4 DEF SkipTarget, Handling
  <2> QED
    BY <1>4, <2>1, <2>2, NoReachType DEF SkipTarget, TypeOK, BaseTypeOK, sourceVars,
                            bookVars, historyVars
<1>5. ASSUME NEW o \in Originals, Expectation(o) \/ Orphan(o)
      PROVE  TypeInv'
  <2>1. target \in Targets
    BY <1>5, TargetType DEF Expectation, Orphan, LookupFails, RefuseLong, Create,
         CreateCollides, Enable, Keep, Update, LeaveDisabled, Disable, Taking
  <2>2. /\ Id(o) \in Identities
        /\ original[o].content \in Contents
        /\ mirror \in [Identities -> MirrorState]
        /\ rows \subseteq Rows /\ counts \in [Counters -> Nat]
        /\ faults \in 0 .. MaxFaults
    BY <2>1 DEF Id, Identities, TypeOK, BaseTypeOK, DealState
  <2>3. ASSUME NEW loop \in {"expected", "orphans"},
               NEW onError \in {"EXPECTED", "ORPHAN"},
               LookupFails(loop, onError, o)
        PROVE  TypeInv'
    <3>1. rows' \subseteq Rows /\ faults' \in 0 .. MaxFaults
      BY <2>1, <2>3, LogType, FaultType DEF LookupFails, RowActions, Outcomes
    <3> QED
      BY <2>2, <2>3, <3>1, TakingType DEF LookupFails
  <2>4. CASE RefuseLong(o)
    <3>1. rows' \subseteq Rows /\ counts' \in [Counters -> Nat]
      BY <2>1, <2>4, LogType, CountType DEF RefuseLong, RowActions, Outcomes
    <3> QED
      BY <2>2, <2>4, <3>1, TakingType DEF RefuseLong
  <2>5. CASE Create(o)
    <3>1. [mirror EXCEPT ![Id(o)] = Copied(o)] \in [Identities -> MirrorState]
      BY <2>2, MirrorWriteType DEF Copied
    <3>2. /\ mirror' \in [Identities -> MirrorState] /\ rows' \subseteq Rows
          /\ counts' \in [Counters -> Nat] /\ faults' \in 0 .. MaxFaults
      BY <2>1, <2>5, <3>1, WriteType DEF Create, RowActions
    <3> QED
      BY <2>5, <3>2, TakingType DEF Create
  <2>6. CASE CreateCollides(o)
    <3>1. rows' \subseteq Rows /\ counts' \in [Counters -> Nat]
      BY <2>1, <2>6, LogType, CountType DEF CreateCollides, RowActions, Outcomes
    <3> QED
      BY <2>2, <2>6, <3>1, TakingType DEF CreateCollides
  <2>7. CASE Enable(o)
    <3>1. [mirror EXCEPT ![Id(o)].state = "enabled"] \in [Identities -> MirrorState]
      BY <2>2, MirrorWriteType
    <3>2. /\ mirror' \in [Identities -> MirrorState] /\ rows' \subseteq Rows
          /\ counts' \in [Counters -> Nat] /\ faults' \in 0 .. MaxFaults
      BY <2>1, <2>7, <3>1, WriteType DEF Enable, RowActions
    <3> QED
      BY <2>7, <3>2, TakingType DEF Enable
  <2>8. CASE Keep(o)
    BY <2>2, <2>8, CountType, TakingType DEF Keep
  <2>9. CASE Update(o)
    <3>1. [mirror EXCEPT ![Id(o)].content = original[o].content]
            \in [Identities -> MirrorState]
      BY <2>2, MirrorWriteType
    <3>2. /\ mirror' \in [Identities -> MirrorState] /\ rows' \subseteq Rows
          /\ counts' \in [Counters -> Nat] /\ faults' \in 0 .. MaxFaults
      BY <2>1, <2>9, <3>1, WriteType DEF Update, RowActions
    <3> QED
      BY <2>9, <3>2, TakingType DEF Update
  <2>10. CASE LeaveDisabled(o)
    BY <2>2, <2>10, CountType, TakingType DEF LeaveDisabled
  <2>11. CASE Disable(o)
    <3>1. [mirror EXCEPT ![Id(o)].state = "disabled"] \in [Identities -> MirrorState]
      BY <2>2, MirrorWriteType
    <3>2. /\ mirror' \in [Identities -> MirrorState] /\ rows' \subseteq Rows
          /\ counts' \in [Counters -> Nat] /\ faults' \in 0 .. MaxFaults
      BY <2>1, <2>11, <3>1, WriteType DEF Disable, RowActions
    <3> QED
      BY <2>11, <3>2, TakingType DEF Disable
  <2> QED
    BY <1>5, <2>3, <2>4, <2>5, <2>6, <2>7, <2>8, <2>9, <2>10, <2>11
       DEF Expectation, Orphan
<1>6. CASE BeginOrphans
  <2>1. Handling'
    BY <1>6 DEF BeginOrphans, Handling
  <2> QED
    BY <1>6, <2>1 DEF BeginOrphans, TypeOK, BaseTypeOK, sourceVars, bookVars,
                      historyVars
<1>7. CASE EndTarget
  <2>1. Handling'
    BY <1>7 DEF EndTarget, Handling
  <2> QED
    BY <1>7, <2>1 DEF EndTarget, TypeOK, BaseTypeOK, sourceVars, bookVars,
                      historyVars
<1>8. CASE EndTargets
  <2>1. Handling'
    BY <1>8 DEF EndTargets, Handling, loopVars
  <2> QED
    BY <1>8, <2>1 DEF EndTargets, TypeOK, BaseTypeOK, sourceVars, loopVars,
                      bookVars, historyVars
<1>9. CASE Close
  <2>1. phase # "idle" /\ job \in Jobs /\ Round \in Rounds
    BY <1>9 DEF Close, Handling, Round, Rounds, Jobs
  <2>2. streak' \in [Rounds -> 0 .. 2]
    BY <1>9, <2>1, RecordType DEF Close
  <2>3. faults' \in 0 .. MaxFaults
    BY <1>9, FaultType DEF Close, TypeOK
  <2>4. report' \in [Rounds -> (SUBSET Deltas) \cup {NoCsv}]
    BY <1>9, DeltaType DEF Close, TypeOK
  <2>5. csv' \in [round : Rounds, rows : SUBSET Rows, complete : BOOLEAN] \cup {NoCsv}
    <3>1. [round |-> Round, rows |-> rows, complete |-> ~skipped]
            \in [round : Rounds, rows : SUBSET Rows, complete : BOOLEAN]
      BY <2>1 DEF TypeOK
    <3> QED
      BY <1>9, <3>1 DEF Close, TypeOK
  <2>6. fresh' \subseteq Rounds
    BY <1>9, <2>1 DEF Close, TypeOK
  <2>7. Handling'
    BY <1>9, ResetType DEF Close, Handling
  <2> QED
    BY <1>9, <2>2, <2>3, <2>4, <2>5, <2>6, <2>7, ResetType, NoReachType
       DEF Close, TypeOK, BaseTypeOK, sourceVars
<1> QED
  BY <1>1, <1>2, <1>3, <1>4, <1>5, <1>6, <1>7, <1>8, <1>9 DEF Step

LEMMA NextType ==
  ASSUME TypeInv, [Next]_vars
  PROVE  TypeInv'
<1>1. ASSUME NEW p \in Plans, NEW per \in Periods, NEW dry \in BOOLEAN,
             StartPass(p, per, dry)
      PROVE  TypeInv'
  <2>1. job' \in Jobs /\ job'.plan = p
    BY <1>1 DEF StartPass, Jobs
  <2>2. waiting' = Participants[p] /\ waiting' \subseteq Targets
    BY <1>1, BaseAssumption DEF StartPass
  <2>3. Handling'
    BY <1>1, <2>1, <2>2 DEF StartPass, Handling
  <2>4. BaseTypeOK'
    BY <1>1 DEF StartPass, TypeInv, TypeOK, BaseTypeOK, sourceVars
  <2>5. phase' = "next" /\ csv' = NoCsv /\ quiet' = TRUE /\ skipped' = FALSE
    BY <1>1 DEF StartPass
  <2> QED
    BY <1>1, <2>1, <2>2, <2>3, <2>4, <2>5
       DEF StartPass, TypeInv, TypeOK, bookVars
<1>2. CASE Step
  BY <1>2, StepType
<1>3. CASE LoseConsole
  <2>1. streak' \in [Rounds -> 0 .. 2]
    BY <1>3, RecordType DEF LoseConsole
  <2>2. faults' \in 0 .. MaxFaults
    BY <1>3, FaultType DEF LoseConsole, TypeInv
  <2>3. report' \in [Rounds -> (SUBSET Deltas) \cup {NoCsv}]
    BY <1>3 DEF LoseConsole, TypeInv, TypeOK
  <2>4. fresh' \subseteq Rounds
    BY <1>3 DEF LoseConsole, TypeInv, TypeOK
  <2>5. Handling'
    BY <1>3, ResetType DEF LoseConsole, Handling
  <2> QED
    BY <1>3, <2>1, <2>2, <2>3, <2>4, <2>5, ResetType, NoReachType
       DEF LoseConsole, TypeInv, TypeOK, BaseTypeOK, sourceVars
<1>4. CASE Moves
  <2>1. BaseTypeOK'
    BY <1>4, EnvironmentType DEF Moves, TypeInv, TypeOK
  <2>2. Handling'
    BY <1>4 DEF Moves, TypeInv, Handling, passVars, loopVars
  <2>3. streak' \in [Rounds -> 0 .. 2]
    <3>1. streak' = [r \in Rounds |-> 0]
      BY <1>4 DEF Moves
    <3> QED
      BY <3>1
  <2>4. quiet' \in BOOLEAN /\ fresh' \subseteq Rounds
    BY <1>4 DEF Moves
  <2> QED
    BY <1>4, <2>1, <2>2, <2>3, <2>4 DEF Moves, TypeInv, TypeOK, passVars, loopVars, bookVars
<1>5. CASE UNCHANGED vars
  BY <1>5 DEF vars, TypeInv, TypeOK, BaseTypeOK, Handling, sourceVars, passVars,
              loopVars, bookVars, historyVars
<1> QED
  BY <1>1, <1>2, <1>3, <1>4, <1>5 DEF Next

LEMMA TypeInvariant == Spec => []TypeInv
<1>1. Init => TypeInv
  BY InitType
<1>2. TypeInv /\ [Next]_vars => TypeInv'
  BY NextType
<1> QED
  BY <1>1, <1>2, PTL DEF Spec

\* Every reachable state of the reconciliation is well typed.
THEOREM TypeCorrect == Spec => []TypeOK
<1>1. TypeInv => TypeOK
  BY DEF TypeInv
<1> QED
  BY <1>1, TypeInvariant, PTL

-----------------------------------------------------------------------------
(* The reconciliation implements MirrorLifecycle.                          *)

\* A write is one step in the life of one mirror.
LEMMA WriteRefines ==
  ASSUME TypeInv, Step
  PROVE  Lifecycle!Mirroring \/ UNCHANGED <<original, mirror>>
<1> USE DEF TypeInv, TypeOK, BaseTypeOK
<1> DEFINE Stutters == UNCHANGED <<original, mirror>>
<1>1. ASSUME NEW o \in Originals, Expectation(o) \/ Orphan(o)
      PROVE  Lifecycle!Mirroring \/ Stutters
  <2>1. target \in Targets
    BY <1>1, TargetType DEF Expectation, Orphan, LookupFails, RefuseLong, Create,
         CreateCollides, Enable, Keep, Update, LeaveDisabled, Disable, Taking
  <2>2. /\ Id(o) \in Lifecycle!AllIdentities
        /\ Lifecycle!Source(Id(o)) = original[o].content
    BY <2>1 DEF Id, Lifecycle!AllIdentities, Lifecycle!Source
  <2>3. UNCHANGED original
    BY <1>1 DEF Expectation, Orphan, LookupFails, RefuseLong, Create,
         CreateCollides, Enable, Keep, Update, LeaveDisabled, Disable, Taking,
         sourceVars
  <2>4. CASE UNCHANGED mirror
    BY <2>3, <2>4
  <2>5. CASE Create(o)
    <3>1. mirror[Id(o)] \in MirrorState /\ mirror[Id(o)].state = "absent"
      BY <2>1, <2>5 DEF Create, HasRow, Id, Identities
    <3>2. mirror' = [mirror EXCEPT ![Id(o)] = Copied(o)] \/ UNCHANGED mirror
      BY <2>5 DEF Create, Write
    <3>3. CASE mirror' = [mirror EXCEPT ![Id(o)] = Copied(o)]
      BY <2>2, <2>3, <3>1, <3>3 DEF Copied, Lifecycle!Insert, Lifecycle!Mirroring
    <3> QED
      BY <2>3, <3>2, <3>3
  <2>6. CASE Enable(o)
    <3>1. \/ mirror' = [mirror EXCEPT ![Id(o)].state = "enabled"]
          \/ UNCHANGED mirror
      BY <2>6 DEF Enable, Write
    <3>2. CASE mirror' = [mirror EXCEPT ![Id(o)].state = "enabled"]
      BY <2>2, <2>3, <2>6, <3>2 DEF Enable, Lifecycle!Revive, Lifecycle!Mirroring
    <3> QED
      BY <2>3, <3>1, <3>2
  <2>7. CASE Update(o)
    <3>1. \/ mirror' = [mirror EXCEPT ![Id(o)].content = original[o].content]
          \/ UNCHANGED mirror
      BY <2>7 DEF Update, Write
    <3>2. CASE mirror' = [mirror EXCEPT ![Id(o)].content = original[o].content]
      BY <2>2, <2>3, <2>7, <3>2 DEF Update, Lifecycle!Refresh, Lifecycle!Mirroring
    <3> QED
      BY <2>3, <3>1, <3>2
  <2>8. CASE Disable(o)
    <3>1. \/ mirror' = [mirror EXCEPT ![Id(o)].state = "disabled"]
          \/ UNCHANGED mirror
      BY <2>8 DEF Disable, Write
    <3>2. CASE mirror' = [mirror EXCEPT ![Id(o)].state = "disabled"]
      BY <2>2, <2>3, <2>8, <3>2 DEF Disable, Lifecycle!Retire, Lifecycle!Mirroring
    <3> QED
      BY <2>3, <3>1, <3>2
  <2> QED
    BY <1>1, <2>4, <2>5, <2>6, <2>7, <2>8 DEF Expectation, Orphan, LookupFails,
       RefuseLong, CreateCollides, Keep, LeaveDisabled
<1> QED
  BY <1>1 DEF Step, BeginTarget, ReadVariable, ReadMirrors, SkipTarget,
     BeginOrphans, EndTarget, EndTargets, Close, sourceVars

\* Every behaviour of the reconciliation, seen from the originals and the
\* mirrors alone, is one of the lifecycle: no mirror is destroyed, a disabled
\* one keeps its content, and what is written is the original of that instant.
THEOREM LifecycleRefined == Spec => RefinesLifecycle
<1>1. Init => Lifecycle!Init
  <2> SUFFICES ASSUME Init PROVE Lifecycle!Init
    OBVIOUS
  <2>1. NoMirror \in MirrorState /\ NoMirror.state = "absent"
    BY BaseAssumption DEF NoMirror, MirrorState
  <2> QED
    BY <2>1 DEF Init, BaseInit, Lifecycle!Init, Lifecycle!AllIdentities,
                Identities, DealState, MirrorState
<1>2. TypeInv /\ [Next]_vars => [Lifecycle!Next]_<<original, mirror>>
  <2> SUFFICES ASSUME TypeInv, [Next]_vars
               PROVE  [Lifecycle!Next]_<<original, mirror>>
    OBVIOUS
  <2>1. CASE Step
    BY <2>1, WriteRefines DEF Lifecycle!Next
  <2>2. CASE Moves
    <3>1. BaseTypeOK'
      BY <2>2, EnvironmentType DEF Moves, TypeInv, TypeOK
    <3> QED
      BY <2>2, <3>1 DEF Moves, BaseTypeOK, DealState, Lifecycle!Next, Lifecycle!Selling
  <2>3. CASE UNCHANGED vars
    BY <2>3 DEF vars, sourceVars
  <2> QED
    BY <2>1, <2>2, <2>3 DEF Next, StartPass, LoseConsole, sourceVars
<1> QED
  BY <1>1, <1>2, TypeInvariant, PTL DEF Spec, RefinesLifecycle, Lifecycle!Spec

-----------------------------------------------------------------------------
(* No legitimate mirror is taken down while the base stands still.         *)

SourceVars == <<original, subtree, indicators>>

\* What the pass holds of the target it handles: while the base stands still,
\* what it has read is the source as it is; the second loop keeps off it.
ReadTrue ==
  /\ phase = "reading" /\ quiet => reach = ReachOf(target)
  /\ phase = "reading" /\ quiet =>
       \A v \in PlanVariables[job.plan] \ unread :
         Selected(job.plan, job.period, target, v) \subseteq expected
  /\ phase \in {"expected", "orphans"} /\ quiet =>
       Source(job.plan, job.period, target) \subseteq expected
  /\ phase = "orphans" => todo \cap expected = {}

ReadInv == TypeInv /\ ReadTrue

\* The source depends on the originals, the hierarchy and the Indicator rows.
LEMMA SourceStands ==
  ASSUME UNCHANGED SourceVars, NEW p, NEW per, NEW t
  PROVE  /\ \A v : Selected(p, per, t, v)' = Selected(p, per, t, v)
         /\ Source(p, per, t)' = Source(p, per, t)
<1>1. \A v : Selected(p, per, t, v)' = Selected(p, per, t, v)
  BY DEF SourceVars, Selected, SelectedFrom, DealsOf, VariableUsers, Below,
         PapPopulation, Carriers
<1> QED
  BY <1>1 DEF Source

LEMMA ReachStands ==
  ASSUME UNCHANGED SourceVars, UNCHANGED <<reach, target>>, reach = ReachOf(target)
  PROVE  (reach = ReachOf(target))'
BY DEF SourceVars, ReachOf, Below, PapPopulation

\* With a base that stands still the people resolved when the target was begun
\* are those the source set is defined by.
LEMMA ReadsSelected ==
  ASSUME ReadTrue, phase = "reading", quiet, NEW v
  PROVE  SelectedFrom(job.plan, job.period, v, reach.below, reach.pap)
           = Selected(job.plan, job.period, target, v)
BY DEF ReadTrue, ReachOf, Selected

\* A step that handles one record of a loop moves neither the source nor what
\* was read.
LEMMA TakingReads ==
  ASSUME ReadInv, NEW loop, NEW o, Taking(loop, o)
  PROVE  ReadTrue'
<1>1. UNCHANGED SourceVars
  BY DEF Taking, sourceVars, SourceVars
<1> QED
  <2>1. UNCHANGED <<reach, target, job, phase, quiet, unread, expected>> /\ todo' \subseteq todo
    BY DEF Taking, historyVars
  <2>2. (phase = "reading" /\ quiet => reach = ReachOf(target))'
    BY <1>1, <2>1, ReachStands DEF ReadInv, ReadTrue
  <2>3. (phase = "reading" /\ quiet =>
           \A v \in PlanVariables[job.plan] \ unread :
             Selected(job.plan, job.period, target, v) \subseteq expected)'
    BY <1>1, <2>1, SourceStands DEF ReadInv, ReadTrue
  <2>4. (phase \in {"expected", "orphans"} /\ quiet =>
           Source(job.plan, job.period, target) \subseteq expected)'
    BY <1>1, <2>1, SourceStands DEF ReadInv, ReadTrue
  <2>5. (phase = "orphans" => todo \cap expected = {})'
    BY <2>1 DEF ReadInv, ReadTrue
  <2> QED
    BY <2>2, <2>3, <2>4, <2>5 DEF ReadTrue

LEMMA ReadInductive ==
  ASSUME ReadInv, [Next]_vars
  PROVE  ReadTrue'
<1> USE DEF ReadInv
<1>1. ASSUME NEW t \in Targets, BeginTarget(t)
      PROVE  ReadTrue'
  <2>1. reach' = ReachOf(t) /\ target' = t /\ UNCHANGED SourceVars
    BY <1>1 DEF BeginTarget, sourceVars, SourceVars
  <2>2. (reach = ReachOf(target))'
    BY <2>1 DEF ReachOf, Below, PapPopulation, SourceVars
  <2> QED
    BY <1>1, <2>2 DEF BeginTarget, ReadTrue
<1>2. ASSUME NEW v \in Variables, ReadVariable(v)
      PROVE  ReadTrue'
  <2>1. UNCHANGED SourceVars
    BY <1>2 DEF ReadVariable, sourceVars, SourceVars
  <2>2. UNCHANGED <<job, target, phase, quiet>> /\ phase = "reading"
    BY <1>2 DEF ReadVariable, historyVars
  <2>3. ASSUME quiet, NEW w \in PlanVariables[job.plan] \ unread'
        PROVE  Selected(job.plan, job.period, target, w) \subseteq expected'
    BY <1>2, <2>2, <2>3, ReadsSelected DEF ReadVariable, ReadTrue
  <2> QED
    <3>1. (phase = "reading" /\ quiet => reach = ReachOf(target))'
      BY <1>2, <2>1, <2>2, ReachStands DEF ReadVariable, ReadTrue
    <3> QED
      BY <2>1, <2>2, <2>3, <3>1, SourceStands DEF ReadTrue
<1>3. CASE ReadMirrors
  <2>1. UNCHANGED SourceVars
    BY <1>3 DEF ReadMirrors, sourceVars, SourceVars
  <2>2. quiet => Source(job.plan, job.period, target) \subseteq expected
    BY <1>3 DEF ReadMirrors, ReadTrue, Source
  <2> QED
    BY <1>3, <2>1, <2>2, SourceStands DEF ReadMirrors, ReadTrue, historyVars
<1>4. ASSUME NEW o \in Originals, Expectation(o) \/ Orphan(o)
      PROVE  ReadTrue'
  BY <1>4, TakingReads DEF Expectation, Orphan, LookupFails, RefuseLong, Create,
     CreateCollides, Enable, Keep, Update, LeaveDisabled, Disable
<1>5. CASE BeginOrphans
  <2>1. UNCHANGED SourceVars
    BY <1>5 DEF BeginOrphans, sourceVars, SourceVars
  <2> QED
    BY <1>5, <2>1, SourceStands DEF BeginOrphans, ReadTrue, historyVars
<1>6. CASE SkipTarget \/ EndTarget \/ EndTargets \/ Close \/ LoseConsole
  BY <1>6 DEF SkipTarget, EndTarget, EndTargets, Close, LoseConsole, Reset, ReadTrue
<1>7. ASSUME NEW p \in Plans, NEW per \in Periods, NEW dry \in BOOLEAN,
             StartPass(p, per, dry)
      PROVE  ReadTrue'
  BY <1>7 DEF StartPass, ReadTrue
<1>8. CASE Moves
  BY <1>8 DEF Moves, ReadTrue, passVars, loopVars
<1>9. CASE UNCHANGED vars
  <2>1. UNCHANGED SourceVars
    BY <1>9 DEF vars, sourceVars, SourceVars
  <2> QED
    BY <1>9, <2>1, SourceStands, ReachStands
       DEF vars, passVars, loopVars, historyVars, ReadTrue
<1> QED
  BY <1>1, <1>2, <1>3, <1>4, <1>5, <1>6, <1>7, <1>8, <1>9 DEF Next, Step

\* The step half: the only write that takes an enabled mirror down is Disable,
\* and what it disables was not read as expected.
LEMMA LegitimateStep ==
  ASSUME ReadInv, [Next]_vars, NEW i \in Identities,
         quiet, i[1] \in Source(job.plan, job.period, i[2]),
         mirror[i].state = "enabled"
  PROVE  mirror'[i].state = "enabled"
<1> USE DEF ReadInv, TypeInv, TypeOK, BaseTypeOK
<1>1. i \in DOMAIN mirror
  OBVIOUS
<1>2. ASSUME NEW o \in Originals, Expectation(o) \/ Orphan(o)
      PROVE  mirror'[i].state = "enabled"
  <2>1. target \in Targets
    BY <1>2, TargetType DEF Expectation, Orphan, LookupFails, RefuseLong, Create,
         CreateCollides, Enable, Keep, Update, LeaveDisabled, Disable, Taking
  <2>2. Id(o) \in Identities /\ mirror[Id(o)] \in MirrorState /\ mirror[i] \in MirrorState
    BY <2>1 DEF Id, Identities
  <2>3. CASE UNCHANGED mirror
    BY <2>3
  <2>4. CASE Create(o)
    BY <2>2, <2>4 DEF Create, Write, Copied
  <2>5. CASE Enable(o)
    BY <2>2, <2>5 DEF Enable, Write, MirrorState
  <2>6. CASE Update(o)
    BY <2>2, <2>6 DEF Update, Write, MirrorState
  <2>7. CASE Disable(o)
    <3>1. o \notin Source(job.plan, job.period, target)
      BY <2>7 DEF Disable, Taking, ReadTrue
    <3>2. i # Id(o)
      BY <3>1 DEF Id
    <3> QED
      BY <2>2, <2>7, <3>2 DEF Disable, Write
  <2> QED
    BY <1>2, <2>3, <2>4, <2>5, <2>6, <2>7 DEF Expectation, Orphan, LookupFails,
       RefuseLong, CreateCollides, Keep, LeaveDisabled
<1>3. CASE UNCHANGED mirror
  BY <1>3
<1> QED
  BY <1>2, <1>3 DEF Next, Step, StartPass, LoseConsole, Moves, BeginTarget,
     ReadVariable, ReadMirrors, SkipTarget, BeginOrphans, EndTarget, EndTargets,
     Close, vars

\* In every company and every behaviour, no step of a pass over a base that
\* stands still disables the enabled mirror of a deal of its target's source.
THEOREM LegitimateStays == Spec => LegitimateMirrorStays
<1>1. Init => ReadTrue
  BY DEF Init, ReadTrue
<1>2. ReadInv /\ [Next]_vars => ReadTrue'
  BY ReadInductive
<1>3. ReadInv /\ [Next]_vars =>
        [\A i \in Identities :
           /\ job # NoJob /\ quiet
           /\ i[2] \in Participants[job.plan]
           /\ i[1] \in Source(job.plan, job.period, i[2])
           /\ mirror[i].state = "enabled"
           => mirror'[i].state = "enabled"]_vars
  BY LegitimateStep
<1>4. ReadInv <=> TypeInv /\ ReadTrue
  BY DEF ReadInv
<1> QED
  BY <1>1, <1>2, <1>3, <1>4, TypeInvariant, PTL DEF Spec, LegitimateMirrorStays

-----------------------------------------------------------------------------
(* The two sums of PLAN.md.                                                *)

NoError == \A r \in rows : r.outcome # "ERROR"

\* Counters c with so many existing mirrors and so many expected originals of
\* the target still to come.  An orphan already disabled is counted as
\* UNCHANGED, so the second sum may be over by as many.
Balance(c, mirrorsLeft, originalsLeft) ==
  /\ c["EXISTING"] = c["UNCHANGED"] + c["UPDATE"] + c["ENABLE"] + c["DISABLE"] + mirrorsLeft
  /\ c["CREATE"] + c["ENABLE"] + c["UPDATE"] + c["UNCHANGED"]
       + originalsLeft - c["EXPECTED"] \in 0 .. c["UNCHANGED"]

Balanced(mirrorsLeft, originalsLeft) == Balance(counts, mirrorsLeft, originalsLeft)

Tally ==
  NoError =>
    /\ phase \in {"idle", "next", "reading", "closing"} => Balanced(0, 0)
    /\ phase = "expected" =>
         Balanced(Cardinality(todo \cap existing) + Cardinality(existing \ expected),
                  Cardinality(todo))
    /\ phase = "orphans" => Balanced(Cardinality(todo), 0)

TallyInv == TypeInv /\ Tally

LEMMA LogGrows ==
  ASSUME NEW action, NEW o, NEW outcome, Log(action, o, outcome)
  PROVE  rows \subseteq rows' /\ (outcome = "ERROR" => ~NoError')
<1> DEFINE row == [action |-> action, deal |-> o, target |-> target,
                   outcome |-> outcome]
<1>1. rows' = rows \cup {row} /\ row.outcome = outcome
  BY DEF Log
<1> HIDE DEF row
<1> QED
  BY <1>1 DEF NoError

LEMMA WriteCounts ==
  ASSUME NEW action, NEW onError, NEW o, NEW written, Write(action, onError, o, written)
  PROVE  Count({action}) /\ rows \subseteq rows'
<1>1. Count({action}) /\ \E a, outcome : Log(a, o, outcome)
  BY DEF Write
<1> QED
  BY <1>1, LogGrows

\* Whatever becomes of a record, it is counted once, or an error row remains.
LEMMA ExpectationCounts ==
  ASSUME NEW o, Expectation(o), NoError'
  PROVE  /\ Taking("expected", o) /\ rows \subseteq rows'
         /\ \E a : Count({a}) /\ IF o \in existing THEN a \in {"ENABLE", "UPDATE", "UNCHANGED"}
                                                   ELSE a = "CREATE"
<1>1. CASE LookupFails("expected", "EXPECTED", o)
  BY <1>1, LogGrows DEF LookupFails
<1>2. CASE RefuseLong(o) \/ CreateCollides(o)
  BY <1>2, LogGrows DEF RefuseLong, CreateCollides
<1>3. CASE Create(o)
  BY <1>3, WriteCounts DEF Create
<1>4. CASE Enable(o)
  BY <1>4, WriteCounts DEF Enable
<1>5. CASE Update(o)
  BY <1>5, WriteCounts DEF Update
<1>6. CASE Keep(o)
  BY <1>6 DEF Keep
<1> QED
  BY <1>1, <1>2, <1>3, <1>4, <1>5, <1>6 DEF Expectation

LEMMA OrphanCounts ==
  ASSUME NEW o, Orphan(o), NoError'
  PROVE  /\ Taking("orphans", o) /\ rows \subseteq rows'
         /\ \E a \in {"UNCHANGED", "DISABLE"} : Count({a})
<1>1. CASE LookupFails("orphans", "ORPHAN", o)
  BY <1>1, LogGrows DEF LookupFails
<1>2. CASE LeaveDisabled(o)
  BY <1>2 DEF LeaveDisabled
<1>3. CASE Disable(o)
  BY <1>3, WriteCounts DEF Disable
<1> QED
  BY <1>1, <1>2, <1>3 DEF Orphan

\* A record of the first loop is one original less, and one mirror less if it
\* had one; a record of the second is one mirror less.
LEMMA CountedBalance ==
  ASSUME NEW c \in [Counters -> Nat], NEW m \in Nat, NEW n \in Nat, Balance(c, m, n),
         NEW a \in Counters, NEW k \in Nat, NEW l \in Nat,
         NEW d, d = [x \in Counters |-> IF x \in {a} THEN c[x] + 1 ELSE c[x]],
         \/ a = "CREATE" /\ m = k /\ n = l + 1
         \/ a \in {"ENABLE", "UPDATE", "UNCHANGED"} /\ m = k + 1 /\ n = l + 1
         \/ a \in {"UNCHANGED", "DISABLE"} /\ m = k + 1 /\ n = l
  PROVE  Balance(d, k, l)
<1>1. /\ c["EXISTING"] \in Nat /\ c["UNCHANGED"] \in Nat /\ c["UPDATE"] \in Nat
      /\ c["ENABLE"] \in Nat /\ c["DISABLE"] \in Nat /\ c["CREATE"] \in Nat
      /\ c["EXPECTED"] \in Nat
  BY DEF Counters
<1>2. \A x \in Counters : d[x] = IF x = a THEN c[x] + 1 ELSE c[x]
  OBVIOUS
<1>3. CASE a = "CREATE"
  BY <1>1, <1>2, <1>3 DEF Balance, Counters
<1>4. CASE a = "ENABLE"
  BY <1>1, <1>2, <1>4 DEF Balance, Counters
<1>5. CASE a = "UPDATE"
  BY <1>1, <1>2, <1>5 DEF Balance, Counters
<1>6. CASE a = "UNCHANGED"
  BY <1>1, <1>2, <1>6 DEF Balance, Counters
<1>7. CASE a = "DISABLE"
  <2>1. m = k + 1 /\ n = l
    BY <1>7
  <2>2. /\ d["DISABLE"] = c["DISABLE"] + 1
        /\ \A x \in Counters \ {"DISABLE"} : d[x] = c[x]
    BY <1>2, <1>7
  <2>3. /\ d["EXISTING"] = c["EXISTING"] /\ d["UNCHANGED"] = c["UNCHANGED"]
        /\ d["UPDATE"] = c["UPDATE"] /\ d["ENABLE"] = c["ENABLE"]
        /\ d["CREATE"] = c["CREATE"] /\ d["EXPECTED"] = c["EXPECTED"]
    BY <2>2 DEF Counters
  <2> QED
    <3>1. d["EXISTING"] = d["UNCHANGED"] + d["UPDATE"] + d["ENABLE"] + d["DISABLE"] + k
      <4>1. d["DISABLE"] = c["DISABLE"] + 1
        BY <2>2
      <4>2. c["EXISTING"] = c["UNCHANGED"] + c["UPDATE"] + c["ENABLE"] + c["DISABLE"] + (k + 1)
        BY <2>1 DEF Balance
      <4> QED
        BY <1>1, <2>3, <4>1, <4>2
    <3>2. d["CREATE"] + d["ENABLE"] + d["UPDATE"] + d["UNCHANGED"] + l - d["EXPECTED"]
            \in 0 .. d["UNCHANGED"]
      BY <1>1, <2>1, <2>3 DEF Balance
    <3> QED
      BY <3>1, <3>2 DEF Balance
<1> QED
  BY <1>3, <1>4, <1>5, <1>6, <1>7

LEMMA CountersAreNat ==
  ASSUME TypeOK
  PROVE  \A c \in Counters : counts[c] \in Nat
BY DEF TypeOK

\* Of the target's own sets, all finite.
LEMMA SetsAreFinite ==
  ASSUME TypeOK
  PROVE  /\ IsFiniteSet(todo) /\ IsFiniteSet(existing) /\ IsFiniteSet(expected)
         /\ Cardinality(todo) \in Nat /\ Cardinality(todo \cap existing) \in Nat
         /\ Cardinality(existing \ expected) \in Nat
<1>1. IsFiniteSet(todo) /\ IsFiniteSet(existing) /\ IsFiniteSet(expected)
  BY BaseAssumption, FS_Subset DEF TypeOK
<1>2. IsFiniteSet(todo \cap existing) /\ IsFiniteSet(existing \ expected)
  BY <1>1, FS_Intersection, FS_Difference
<1> QED
  BY <1>1, <1>2, FS_CardinalityType

LEMMA ExpectationTally ==
  ASSUME TallyInv, NEW o \in Originals, Expectation(o)
  PROVE  Tally'
<1> SUFFICES ASSUME NoError'
             PROVE  Tally'
  BY DEF Tally
<1>1. /\ Taking("expected", o) /\ rows \subseteq rows'
      /\ \E a : Count({a}) /\ IF o \in existing THEN a \in {"ENABLE", "UPDATE", "UNCHANGED"}
                                                ELSE a = "CREATE"
  BY ExpectationCounts
<1>2. PICK a : Count({a}) /\ IF o \in existing THEN a \in {"ENABLE", "UPDATE", "UNCHANGED"}
                                               ELSE a = "CREATE"
  BY <1>1
<1>3. /\ phase = "expected" /\ phase' = phase /\ o \in todo /\ todo' = todo \ {o}
      /\ UNCHANGED <<existing, expected>> /\ NoError
  BY <1>1 DEF Taking, NoError
<1>4. Balanced(Cardinality(todo \cap existing) + Cardinality(existing \ expected),
               Cardinality(todo))
  BY <1>3 DEF TallyInv, Tally
<1>5. /\ Cardinality(todo') = Cardinality(todo) - 1
      /\ Cardinality(todo' \cap existing) =
           IF o \in existing THEN Cardinality(todo \cap existing) - 1
                             ELSE Cardinality(todo \cap existing)
  <2>1. IsFiniteSet(todo) /\ IsFiniteSet(todo \cap existing)
    BY SetsAreFinite, FS_Intersection DEF TallyInv, TypeInv
  <2>2. todo' \cap existing = (todo \cap existing) \ {o}
    BY <1>3
  <2> QED
    BY <1>3, <2>1, <2>2, FS_RemoveElement
<1>6. /\ counts \in [Counters -> Nat] /\ Cardinality(todo) \in Nat
      /\ Cardinality(todo \cap existing) \in Nat /\ Cardinality(existing \ expected) \in Nat
      /\ a \in Counters
  BY <1>2, SetsAreFinite DEF TallyInv, TypeInv, TypeOK, Counters
<1>7. Cardinality(todo') \in Nat /\ Cardinality(todo' \cap existing) \in Nat
  <2>1. IsFiniteSet(todo') /\ IsFiniteSet(todo' \cap existing)
    BY <1>3, SetsAreFinite, FS_RemoveElement, FS_Intersection DEF TallyInv, TypeInv
  <2> QED
    BY <2>1, FS_CardinalityType
<1>8. Balance(counts', Cardinality(todo' \cap existing) + Cardinality(existing \ expected),
              Cardinality(todo'))
  <2> DEFINE m == Cardinality(todo \cap existing) + Cardinality(existing \ expected)
             n == Cardinality(todo)
             k == Cardinality(todo' \cap existing) + Cardinality(existing \ expected)
             l == Cardinality(todo')
  <2>1. m \in Nat /\ n \in Nat /\ k \in Nat /\ l \in Nat
    BY <1>6, <1>7
  <2>2. \/ a = "CREATE" /\ m = k /\ n = l + 1
        \/ a \in {"ENABLE", "UPDATE", "UNCHANGED"} /\ m = k + 1 /\ n = l + 1
    BY <1>2, <1>5, <1>6
  <2>3. Balance(counts, m, n)
    BY <1>4 DEF Balanced
  <2>4. counts' = [x \in Counters |-> IF x \in {a} THEN counts[x] + 1 ELSE counts[x]]
    BY <1>2 DEF Count
  <2> HIDE DEF m, n, k, l
  <2>5. Balance(counts', k, l)
    BY <1>6, <2>1, <2>2, <2>3, <2>4, CountedBalance
  <2> QED
    BY <2>5 DEF k, l
<1> QED
  BY <1>3, <1>8 DEF Tally, Balanced

LEMMA OrphanTally ==
  ASSUME TallyInv, NEW o \in Originals, Orphan(o)
  PROVE  Tally'
<1> SUFFICES ASSUME NoError'
             PROVE  Tally'
  BY DEF Tally
<1>1. /\ Taking("orphans", o) /\ rows \subseteq rows'
      /\ \E a \in {"UNCHANGED", "DISABLE"} : Count({a})
  BY OrphanCounts
<1>2. PICK a \in {"UNCHANGED", "DISABLE"} : Count({a})
  BY <1>1
<1>3. /\ phase = "orphans" /\ phase' = phase /\ o \in todo /\ todo' = todo \ {o}
      /\ NoError
  BY <1>1 DEF Taking, NoError
<1>4. Balanced(Cardinality(todo), 0)
  BY <1>3 DEF TallyInv, Tally
<1>5. Cardinality(todo') = Cardinality(todo) - 1
  BY <1>3, SetsAreFinite, FS_RemoveElement DEF TallyInv, TypeInv
<1>6. /\ counts \in [Counters -> Nat] /\ Cardinality(todo) \in Nat
      /\ Cardinality(todo') \in Nat /\ a \in Counters
  <2>1. IsFiniteSet(todo')
    BY <1>3, SetsAreFinite, FS_RemoveElement DEF TallyInv, TypeInv
  <2> QED
    BY <1>2, <2>1, SetsAreFinite, FS_CardinalityType DEF TallyInv, TypeInv, TypeOK, Counters
<1>7. counts' = [x \in Counters |-> IF x \in {a} THEN counts[x] + 1 ELSE counts[x]]
  BY <1>2 DEF Count
<1>8. Balance(counts', Cardinality(todo'), 0)
  <2>1. Cardinality(todo) = Cardinality(todo') + 1
    BY <1>5, <1>6
  <2> QED
    BY <1>2, <1>4, <1>6, <1>7, <2>1, CountedBalance DEF Balanced
<1> QED
  BY <1>3, <1>8 DEF Tally, Balanced

\* Both sums open with the sets of the target.
LEMMA ReadTally ==
  ASSUME TallyInv, ReadMirrors
  PROVE  Tally'
<1> SUFFICES ASSUME NoError'
             PROVE  Tally'
  BY DEF Tally
<1>1. /\ phase = "reading" /\ phase' = "expected" /\ NoError /\ todo' = expected
      /\ expected' = expected
      /\ counts' = [counts EXCEPT !["EXPECTED"] = @ + Cardinality(expected),
                                  !["EXISTING"] = @ + Cardinality(existing')]
  BY DEF ReadMirrors, NoError
<1>2. Balanced(0, 0)
  BY <1>1 DEF TallyInv, Tally
<1>3. IsFiniteSet(existing') /\ IsFiniteSet(expected)
  <2>1. existing' \subseteq Originals
    BY DEF ReadMirrors, Existing
  <2> QED
    BY <2>1, BaseAssumption, SetsAreFinite, FS_Subset DEF TallyInv, TypeInv
<1>4. /\ Cardinality(existing' \ expected) =
           Cardinality(existing') - Cardinality(existing' \cap expected)
      /\ Cardinality(existing') \in Nat /\ Cardinality(expected) \in Nat
      /\ Cardinality(existing' \cap expected) \in Nat
  BY <1>3, FS_Difference, FS_Intersection, FS_CardinalityType
<1>5. todo' \cap existing' = existing' \cap expected
  BY <1>1
<1>6. /\ counts'["EXPECTED"] = counts["EXPECTED"] + Cardinality(expected)
      /\ counts'["EXISTING"] = counts["EXISTING"] + Cardinality(existing')
      /\ \A c \in {"CREATE", "UPDATE", "ENABLE", "DISABLE", "UNCHANGED"} :
           counts'[c] = counts[c]
  BY <1>1 DEF TallyInv, TypeInv, TypeOK, Counters
<1>7. \A c \in Counters : counts[c] \in Nat
  BY CountersAreNat DEF TallyInv, TypeInv
<1>8. Balance(counts', Cardinality(todo' \cap existing') + Cardinality(existing' \ expected'),
              Cardinality(todo'))
  <2>1. Cardinality(todo' \cap existing') + Cardinality(existing' \ expected')
          = Cardinality(existing')
    <3>1. existing' \ expected' = existing' \ expected
      BY <1>1
    <3> QED
      <4>1. Cardinality(todo' \cap existing') = Cardinality(existing' \cap expected)
        BY <1>5
      <4>2. Cardinality(existing' \ expected') = Cardinality(existing' \ expected)
        BY <3>1
      <4> QED
        BY <1>4, <4>1, <4>2
  <2>2. Cardinality(todo') = Cardinality(expected)
    BY <1>1
  <2>3. Balance(counts', Cardinality(existing'), Cardinality(expected))
    BY <1>2, <1>4, <1>6, <1>7 DEF Balanced, Balance, Counters
  <2> QED
    BY <2>1, <2>2, <2>3
<1> QED
  BY <1>1, <1>8 DEF Tally, Balanced

LEMMA BetweenTally ==
  ASSUME TallyInv, BeginOrphans \/ EndTarget
  PROVE  Tally'
<1>1. UNCHANGED <<rows, counts>> /\ todo = {}
  BY DEF BeginOrphans, EndTarget, bookVars
<1>2. \A c \in Counters : counts[c] \in Nat
  BY CountersAreNat DEF TallyInv, TypeInv
<1>3. Cardinality(todo) = 0 /\ Cardinality(todo \cap existing) = 0
      /\ Cardinality(existing \ expected) \in Nat
  <2>1. todo \cap existing = {}
    BY <1>1
  <2> QED
    BY <1>1, <2>1, FS_EmptySet, SetsAreFinite DEF TallyInv, TypeInv
<1>4. CASE BeginOrphans
  <2>1. phase = "expected" /\ phase' = "orphans" /\ todo' = existing \ expected
    BY <1>4 DEF BeginOrphans
  <2>2. NoError => Balanced(Cardinality(existing \ expected), 0)
    BY <1>2, <1>3, <2>1 DEF TallyInv, Tally, Balanced, Balance, Counters
  <2> QED
    BY <1>1, <2>1, <2>2 DEF Tally, Balanced, Balance, NoError
<1>5. CASE EndTarget
  <2>1. phase = "orphans" /\ phase' = "next"
    BY <1>5 DEF EndTarget
  <2> QED
    BY <1>1, <1>3, <2>1 DEF TallyInv, Tally, Balanced, Balance, NoError
<1> QED
  BY <1>4, <1>5

LEMMA TallyInductive ==
  ASSUME TallyInv, [Next]_vars
  PROVE  Tally'
<1>1. ASSUME NEW o \in Originals, Expectation(o) \/ Orphan(o)
      PROVE  Tally'
  BY <1>1, ExpectationTally, OrphanTally
<1>2. CASE Reset
  BY <1>2 DEF Reset, Tally, Balanced, Balance, Counters
<1>3. CASE /\ UNCHANGED <<rows, counts>>
           /\ phase \in {"idle", "next", "reading"}
           /\ phase' \in {"next", "reading", "closing"}
  BY <1>3 DEF TallyInv, Tally, Balanced, Balance, NoError
<1>4. CASE UNCHANGED <<rows, counts, phase, todo, existing, expected>>
  BY <1>4 DEF TallyInv, Tally, Balanced, Balance, NoError
<1>5. (\E p \in Plans, per \in Periods, dry \in BOOLEAN : StartPass(p, per, dry)) =>
        /\ UNCHANGED <<rows, counts>> /\ phase = "idle" /\ phase' = "next"
  BY DEF StartPass, bookVars
<1>6. (\E t \in Targets : BeginTarget(t)) \/ (\E v \in Variables : ReadVariable(v))
      \/ SkipTarget \/ EndTargets =>
        /\ UNCHANGED <<rows, counts>> /\ phase \in {"next", "reading"}
        /\ phase' \in {"next", "reading", "closing"}
  BY DEF BeginTarget, ReadVariable, SkipTarget, EndTargets, bookVars
<1>7. Close \/ LoseConsole => Reset
  BY DEF Close, LoseConsole
<1>8. Moves \/ UNCHANGED vars => UNCHANGED <<rows, counts, phase, todo, existing, expected>>
  BY DEF Moves, vars, passVars, loopVars, bookVars
<1> QED
  BY <1>1, <1>2, <1>3, <1>4, <1>5, <1>6, <1>7, <1>8, ReadTally, BetweenTally DEF Next, Step

\* In every company, both sums of PLAN.md close at the end of every pass that
\* met no exception, whatever moved meanwhile.
THEOREM SumsClose == Spec => []DeltaCloses
<1>1. Init => Tally
  BY DEF Init, Tally, Balanced, Balance, Counters
<1>2. TallyInv /\ [Next]_vars => Tally'
  BY TallyInductive
<1>3. TallyInv => DeltaCloses
  <2> SUFFICES ASSUME TallyInv, phase = "closing", NoError
               PROVE  DeltaCloses
    BY DEF DeltaCloses, NoError
  <2>1. Balanced(0, 0)
    BY DEF TallyInv, Tally
  <2>2. \A c \in Counters : counts[c] \in Nat
    BY CountersAreNat DEF TallyInv, TypeInv
  <2> QED
    BY <2>1, <2>2 DEF Balanced, Balance, DeltaCloses, Counters
<1>4. TallyInv <=> TypeInv /\ Tally
  BY DEF TallyInv
<1> QED
  BY <1>1, <1>2, <1>3, <1>4, TypeInvariant, PTL DEF Spec
=============================================================================
