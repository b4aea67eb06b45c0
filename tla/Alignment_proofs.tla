--------------------------- MODULE Alignment_proofs ---------------------------
(***************************************************************************)
(* Two clean applies in a row over a base that stands still leave a plan   *)
(* in line, in any company.  Every pass handles the targets of one plan,   *)
(* so the argument follows one target through a pass and shows that the    *)
(* others, and the other competences, are left alone.                      *)
(***************************************************************************)
EXTENDS Reconciliation_proofs

SetInLine(p, per, t) ==
  Live(per, t) = {o \in Source(p, per, t) : <<o, t>> \notin TooLong}

CopiesInLine(per, t) ==
  \A o \in Live(per, t) : mirror[<<o, t>>].content = original[o].content

\* An identity too long for the column never gets a row.
LongAbsent == \A i \in TooLong : mirror[i].state = "absent"

\* A move of the environment ends every streak.
MovesForgotten == ~quiet => \A r \in Rounds : streak[r] = 0

\* One clean apply aligns who is mirrored, a second one what they hold.
Streaks ==
  \A r \in Rounds :
    /\ streak[r] >= 1 => \A t \in Participants[r[1]] : SetInLine(r[1], r[2], t)
    /\ streak[r] = 2 => \A t \in Participants[r[1]] : CopiesInLine(r[2], t)

\* An apply that may still end clean.
Applying == phase # "idle" /\ quiet /\ ~job.dry /\ ~skipped /\ Undone = {}

\* The targets the pass is done with.
Finished ==
  Applying => \A t \in Participants[job.plan] \ (waiting \cup {target}) :
    /\ SetInLine(job.plan, job.period, t)
    /\ streak[Round] >= 1 => CopiesInLine(job.period, t)

\* Where a pass is, and what it holds of the target it handles.
Place ==
  /\ phase \in {"idle", "next", "closing"} => expected = {} /\ target = NoTarget
  /\ phase = "closing" => waiting = {}
  /\ phase = "reading" =>
       /\ unread \subseteq PlanVariables[job.plan]
       /\ quiet => expected \subseteq Source(job.plan, job.period, target)
  /\ phase \in {"expected", "orphans"} /\ quiet =>
       /\ expected = Source(job.plan, job.period, target)
       /\ existing \subseteq Existing(job.period, target)
  /\ phase = "expected" => todo \subseteq expected
  /\ phase = "orphans" => todo \subseteq existing \ expected

\* o has been handled: it is mirrored, and faithfully if it was before.
Handled(o) ==
  <<o, target>> \notin TooLong =>
    /\ o \in Live(job.period, target)
    /\ streak[Round] >= 1 =>
         mirror[<<o, target>>].content = original[o].content

Progress ==
  Applying =>
    /\ phase = "expected" =>
         /\ \A o \in expected \ todo : Handled(o)
         /\ Existing(job.period, target) \subseteq existing \cup expected
    /\ phase = "orphans" =>
         /\ \A o \in expected : Handled(o)
         /\ Live(job.period, target) \subseteq expected \cup todo

Aligning ==
  /\ LongAbsent /\ MovesForgotten /\ Streaks
  /\ Finished /\ Place /\ Progress

AlignInv == ReadInv /\ Aligning

-----------------------------------------------------------------------------
(* What does not change.                                                   *)

LEMMA SourceFacts ==
  ASSUME TypeOK, NEW p, NEW per, NEW t,
         NEW o \in Source(p, per, t)
  PROVE  o \in Originals /\ PeriodOf[original[o].content] = per
BY DEF Source, Selected, SelectedFrom, DealsOf

\* A target none of whose live mirrors of a competence is touched stays as it
\* is with regard to that competence.
LEMMA LiveFrame ==
  ASSUME UNCHANGED SourceVars, NEW p, NEW per, NEW t,
         \A o \in Originals :
           \/ mirror'[<<o, t>>] = mirror[<<o, t>>]
           \/ o \notin Live(per, t) /\ o \notin Live(per, t)'
  PROVE  /\ Live(per, t)' = Live(per, t)
         /\ SetInLine(p, per, t)' <=> SetInLine(p, per, t)
         /\ CopiesInLine(per, t)' <=> CopiesInLine(per, t)
<1>1. Live(per, t)' = Live(per, t)
  <2>1. ASSUME NEW o \in Originals
        PROVE  o \in Live(per, t)' <=> o \in Live(per, t)
    BY <2>1 DEF Live, Existing, HasRow
  <2> QED
    BY <2>1 DEF Live, Existing
<1>2. Source(p, per, t)' = Source(p, per, t)
  BY SourceStands
<1>3. SetInLine(p, per, t)' <=> SetInLine(p, per, t)
  BY <1>1, <1>2 DEF SetInLine
<1>4. ASSUME NEW o \in Live(per, t)
      PROVE  mirror'[<<o, t>>] = mirror[<<o, t>>] /\ original'[o] = original[o]
  BY <1>1, <1>4 DEF Live, Existing, SourceVars
<1>5. CopiesInLine(per, t)' <=> CopiesInLine(per, t)
  BY <1>1, <1>4 DEF CopiesInLine
<1> QED
  BY <1>1, <1>3, <1>5

\* In particular when no mirror changes at all.
LEMMA MirrorFrame ==
  ASSUME UNCHANGED SourceVars, UNCHANGED mirror, NEW p, NEW per, NEW t
  PROVE  /\ Live(per, t)' = Live(per, t)
         /\ Existing(per, t)' = Existing(per, t)
         /\ SetInLine(p, per, t)' <=> SetInLine(p, per, t)
         /\ CopiesInLine(per, t)' <=> CopiesInLine(per, t)
<1>1. Existing(per, t)' = Existing(per, t)
  BY DEF Existing, HasRow
<1> QED
  BY <1>1, LiveFrame

\* Rows are only added, so a pass that failed once never ends clean.
LEMMA UndoneStays ==
  ASSUME NEW action, NEW o, NEW outcome, Log(action, o, outcome)
  PROVE  /\ Undone' = {} => Undone = {}
         /\ outcome \in {"FAILED", "ERROR"} => Undone' # {}
<1>1. rows \subseteq rows'
  BY DEF Log
<1> DEFINE row == [action |-> action, deal |-> o, target |-> target,
                   outcome |-> outcome]
<1>2. row \in rows' /\ row.outcome = outcome
  BY DEF Log
<1> QED
  BY <1>1, <1>2 DEF Undone
-----------------------------------------------------------------------------
(* The steps of the two loops.                                             *)

\* What every step of a loop says of its record.
LEMMA TakingFacts ==
  ASSUME AlignInv, NEW loop \in {"expected", "orphans"}, NEW o \in Originals,
         Taking(loop, o)
  PROVE  /\ job \in Jobs /\ Round \in Rounds /\ Round = <<job.plan, job.period>>
         /\ target \in Participants[job.plan] /\ target \in Targets
         /\ Id(o) = <<o, target>> /\ Id(o) \in Identities
         /\ mirror[Id(o)] \in MirrorState
         /\ UNCHANGED SourceVars /\ Round' = Round
         /\ phase = loop /\ phase' = phase
         /\ quiet \in BOOLEAN /\ streak[Round] \in 0 .. 2
<1>1. job \in Jobs /\ target \in Participants[job.plan] /\ target \in Targets
  BY TargetType DEF AlignInv, ReadInv, TypeInv, Handling, Taking
<1>2. Round \in Rounds /\ Round = <<job.plan, job.period>>
  BY <1>1 DEF Round, Rounds, Jobs
<1>3. Id(o) = <<o, target>> /\ Id(o) \in Identities
  BY <1>1 DEF Id, Identities
<1>4. mirror[Id(o)] \in MirrorState /\ streak[Round] \in 0 .. 2 /\ quiet \in BOOLEAN
  BY <1>2, <1>3 DEF AlignInv, ReadInv, TypeInv, TypeOK, BaseTypeOK
<1> QED
  BY <1>1, <1>2, <1>3, <1>4 DEF Taking, SourceVars, sourceVars, Round

\* With the base moving, or moved, nothing is claimed of the mirrors.
LEMMA TakingMoved ==
  ASSUME AlignInv, NEW loop \in {"expected", "orphans"}, NEW o \in Originals,
         Taking(loop, o), ~quiet, LongAbsent'
  PROVE  Aligning'
BY DEF AlignInv, Aligning, Taking, MovesForgotten, Streaks, Finished, Place,
       Progress, Applying, historyVars

\* A write of a row that is, or becomes, one of the competence leaves every
\* other target, and every other competence of this one, as they were.
LEMMA OthersStand ==
  ASSUME AlignInv, NEW loop \in {"expected", "orphans"}, NEW o \in Originals,
         Taking(loop, o), NEW x \in MirrorState,
         mirror' = [mirror EXCEPT ![Id(o)] = x],
         \/ mirror[Id(o)].state = "absent"
         \/ PeriodOf[mirror[Id(o)].content] = job.period,
         PeriodOf[x.content] = job.period,
         NEW p, NEW per, NEW t \in Targets, t # target \/ per # job.period
  PROVE  /\ SetInLine(p, per, t)' <=> SetInLine(p, per, t)
         /\ CopiesInLine(per, t)' <=> CopiesInLine(per, t)
<1>1. mirror \in [Identities -> MirrorState] /\ Id(o) \in Identities
  BY TakingFacts DEF AlignInv, ReadInv, TypeInv, TypeOK, BaseTypeOK
<1>2. Id(o) = <<o, target>> /\ UNCHANGED SourceVars
  BY TakingFacts
<1>3. ASSUME NEW q \in Originals
      PROVE  \/ mirror'[<<q, t>>] = mirror[<<q, t>>]
             \/ q \notin Live(per, t) /\ q \notin Live(per, t)'
  <2>1. <<q, t>> \in Identities
    BY DEF Identities
  <2>2. CASE <<q, t>> # Id(o)
    BY <1>1, <2>1, <2>2
  <2>3. CASE <<q, t>> = Id(o)
    <3>1. per # job.period /\ mirror'[<<q, t>>] = x
      BY <1>1, <1>2, <2>3
    <3> QED
      BY <2>3, <3>1 DEF Live, Existing, HasRow
  <2> QED
    BY <2>2, <2>3
<1> QED
  BY <1>2, <1>3, LiveFrame

\* The parts of the invariant that are not about the target being handled.
LEMMA WriteAway ==
  ASSUME AlignInv, NEW loop \in {"expected", "orphans"}, NEW o \in Originals,
         Taking(loop, o), quiet, NEW x \in MirrorState,
         mirror' = [mirror EXCEPT ![Id(o)] = x],
         \/ mirror[Id(o)].state = "absent"
         \/ PeriodOf[mirror[Id(o)].content] = job.period,
         PeriodOf[x.content] = job.period, x.state # "absent",
         Undone' = {} => Undone = {},
         streak[Round] >= 1 => SetInLine(job.plan, job.period, target)',
         streak[Round] = 2 => CopiesInLine(job.period, target)'
  PROVE  MovesForgotten' /\ Streaks' /\ Finished' /\ Place'
<1> USE TakingFacts
<1>1. MovesForgotten'
  BY DEF Taking, historyVars, AlignInv, Aligning, MovesForgotten
<1>2. Streaks'
  <2>1. SUFFICES ASSUME NEW r \in Rounds, NEW t \in Participants[r[1]]
                 PROVE  /\ streak[r] >= 1 => SetInLine(r[1], r[2], t)'
                        /\ streak[r] = 2 => CopiesInLine(r[2], t)'
    BY DEF Streaks, Taking, historyVars
  <2>2. t \in Targets /\ r[1] \in Plans /\ r = <<r[1], r[2]>>
    BY BaseAssumption DEF Rounds
  <2>3. /\ streak[r] >= 1 => SetInLine(r[1], r[2], t)
        /\ streak[r] = 2 => CopiesInLine(r[2], t)
    BY DEF AlignInv, Aligning, Streaks
  <2>4. CASE t = target /\ r[2] = job.period
    <3>1. r[1] = job.plan
      BY <2>2, <2>4, ParticipantsDisjoint DEF Jobs
    <3>2. r = Round
      BY <2>2, <2>4, <3>1
    <3> QED
      BY <2>4, <3>1, <3>2 DEF Taking
  <2>5. CASE t # target \/ r[2] # job.period
    <3>1. /\ SetInLine(r[1], r[2], t)' <=> SetInLine(r[1], r[2], t)
          /\ CopiesInLine(r[2], t)' <=> CopiesInLine(r[2], t)
      BY <2>2, <2>5, OthersStand
    <3> QED
      BY <2>3, <3>1
  <2> QED
    BY <2>4, <2>5
<1>3. Finished'
  <2>1. SUFFICES ASSUME Applying',
                        NEW t \in Participants[job.plan] \ (waiting \cup {target})
                 PROVE  /\ SetInLine(job.plan, job.period, t)'
                        /\ streak[Round] >= 1 => CopiesInLine(job.period, t)'
    BY DEF Finished, Taking, historyVars
  <2>2. Applying
    BY <2>1 DEF Applying, Taking, historyVars
  <2>3. t \in Targets /\ t # target
    BY BaseAssumption DEF Jobs
  <2>4. /\ SetInLine(job.plan, job.period, t)' <=> SetInLine(job.plan, job.period, t)
        /\ CopiesInLine(job.period, t)' <=> CopiesInLine(job.period, t)
    BY <2>3, OthersStand DEF Taking
  <2> QED
    BY <2>2, <2>4 DEF AlignInv, Aligning, Finished
<1>4. Place'
  <2>1. /\ expected = Source(job.plan, job.period, target)
        /\ existing \subseteq Existing(job.period, target)
    BY DEF AlignInv, Aligning, Place
  <2>2. Source(job.plan, job.period, target)' = Source(job.plan, job.period, target)
    BY SourceStands DEF Taking
  <2>3. existing \subseteq Existing(job.period, target)'
    <3>1. SUFFICES ASSUME NEW q \in existing
                   PROVE  q \in Existing(job.period, target)'
      OBVIOUS
    <3>2. q \in Originals /\ <<q, target>> \in Identities
      BY <2>1 DEF Existing, Identities
    <3>3. mirror'[<<q, target>>] = mirror[<<q, target>>] \/ mirror'[<<q, target>>] = x
      BY <3>2 DEF AlignInv, ReadInv, TypeInv, TypeOK, BaseTypeOK
    <3>4. q \in Existing(job.period, target)
      BY <2>1
    <3> QED
      BY <3>2, <3>3, <3>4 DEF Existing, HasRow, Taking
  <2> QED
    BY <2>1, <2>2, <2>3 DEF AlignInv, Aligning, Place, Taking, historyVars
<1> QED
  BY <1>1, <1>2, <1>3, <1>4

\* The first loop writes an enabled row for a deal of the source.
LEMMA ExpectedWrite ==
  ASSUME AlignInv, NEW o \in Originals, Taking("expected", o), quiet,
         NEW x \in MirrorState, mirror' = [mirror EXCEPT ![Id(o)] = x],
         \/ mirror[Id(o)].state = "absent"
         \/ PeriodOf[mirror[Id(o)].content] = job.period,
         x.state = "enabled", PeriodOf[x.content] = job.period,
         streak[Round] >= 1 => x.content = original[o].content,
         Undone' = {} => Undone = {}
  PROVE  Progress'
<1> USE TakingFacts
<1>1. SUFFICES ASSUME Applying'
               PROVE  /\ \A q \in expected \ todo' : Handled(q)'
                      /\ Existing(job.period, target)' \subseteq existing \cup expected
  BY DEF Progress, Taking
<1>2. Applying
  BY <1>1 DEF Applying, Taking, historyVars
<1>3. o \in expected /\ expected \subseteq Originals
  BY DEF AlignInv, Aligning, Place, Taking, ReadInv, TypeInv, TypeOK
<1>4. /\ \A q \in expected \ todo : Handled(q)
      /\ Existing(job.period, target) \subseteq existing \cup expected
  BY <1>2 DEF AlignInv, Aligning, Progress
<1>5. mirror'[Id(o)] = x
  BY DEF AlignInv, ReadInv, TypeInv, TypeOK, BaseTypeOK
<1>6. ASSUME NEW q \in Originals, q # o
      PROVE  mirror'[<<q, target>>] = mirror[<<q, target>>]
  BY <1>6 DEF AlignInv, ReadInv, TypeInv, TypeOK, BaseTypeOK, Identities
<1>7. ASSUME NEW q \in expected \ todo'
      PROVE  Handled(q)'
  <2>1. CASE q = o
    BY <1>3, <1>5, <2>1 DEF Handled, Live, Existing, HasRow, Taking, historyVars,
       SourceVars
  <2>2. CASE q # o
    <3>1. Handled(q) /\ q \in Originals
      BY <1>3, <1>4, <2>2 DEF Taking
    <3>2. mirror'[<<q, target>>] = mirror[<<q, target>>]
      BY <1>6, <2>2, <3>1
    <3>3. q \in Live(job.period, target) => q \in Live(job.period, target)'
      BY <3>2 DEF Live, Existing, HasRow, Taking
    <3> QED
      BY <3>1, <3>2, <3>3 DEF Handled, Taking, historyVars, SourceVars
  <2> QED
    BY <2>1, <2>2
<1>8. Existing(job.period, target)' \subseteq existing \cup expected
  <2>1. SUFFICES ASSUME NEW q \in Existing(job.period, target)', q # o
                 PROVE  q \in existing \cup expected
    BY <1>3
  <2>2. q \in Originals
    BY DEF Existing
  <2>3. q \in Existing(job.period, target)
    BY <1>6, <2>1, <2>2 DEF Existing, HasRow, Taking
  <2> QED
    BY <1>4, <2>3
<1> QED
  BY <1>7, <1>8

\* The second loop takes down a row no deal of the source is copied in.
LEMMA OrphanWrite ==
  ASSUME AlignInv, NEW o \in Originals, Taking("orphans", o), quiet,
         NEW x \in MirrorState, mirror' = [mirror EXCEPT ![Id(o)] = x],
         x.state = "disabled", Undone' = {} => Undone = {}
  PROVE  Progress'
<1> USE TakingFacts
<1>1. SUFFICES ASSUME Applying'
               PROVE  /\ \A q \in expected : Handled(q)'
                      /\ Live(job.period, target)' \subseteq expected \cup todo'
  BY DEF Progress, Taking
<1>2. Applying
  BY <1>1 DEF Applying, Taking, historyVars
<1>3. o \notin expected /\ expected \subseteq Originals
  BY DEF AlignInv, Aligning, Place, Taking, ReadInv, TypeInv, TypeOK
<1>4. /\ \A q \in expected : Handled(q)
      /\ Live(job.period, target) \subseteq expected \cup todo
  BY <1>2 DEF AlignInv, Aligning, Progress, Taking
<1>5. mirror'[Id(o)] = x
  BY DEF AlignInv, ReadInv, TypeInv, TypeOK, BaseTypeOK
<1>6. ASSUME NEW q \in Originals, q # o
      PROVE  mirror'[<<q, target>>] = mirror[<<q, target>>]
  BY <1>6 DEF AlignInv, ReadInv, TypeInv, TypeOK, BaseTypeOK, Identities
<1>7. ASSUME NEW q \in expected
      PROVE  Handled(q)'
  <2>1. Handled(q) /\ q \in Originals /\ q # o
    BY <1>3, <1>4
  <2>2. mirror'[<<q, target>>] = mirror[<<q, target>>]
    BY <1>6, <2>1
  <2>3. q \in Live(job.period, target) => q \in Live(job.period, target)'
    BY <2>2 DEF Live, Existing, HasRow, Taking
  <2> QED
    BY <2>1, <2>2, <2>3 DEF Handled, Taking, historyVars, SourceVars
<1>8. Live(job.period, target)' \subseteq expected \cup todo'
  <2>1. SUFFICES ASSUME NEW q \in Live(job.period, target)'
                 PROVE  q \in expected \cup todo'
    OBVIOUS
  <2>2. q \in Originals /\ mirror'[<<q, target>>].state = "enabled"
    BY DEF Live, Existing, Taking
  <2>3. q # o
    BY <1>5, <2>2
  <2>4. q \in Live(job.period, target)
    BY <1>6, <2>2, <2>3 DEF Live, Existing, HasRow, Taking
  <2> QED
    BY <1>4, <2>3, <2>4 DEF Taking
<1> QED
  BY <1>7, <1>8

\* A record left as it is: the pass can end clean only if it needed nothing.
LEMMA NoWrite ==
  ASSUME AlignInv, NEW loop \in {"expected", "orphans"}, NEW o \in Originals,
         Taking(loop, o), UNCHANGED mirror, Undone' = {} => Undone = {},
         Applying' => \/ loop = "expected" /\ Handled(o)
                      \/ loop = "orphans" /\ o \notin Live(job.period, target)
  PROVE  Aligning'
<1> USE TakingFacts
<1>1. LongAbsent' /\ MovesForgotten'
  BY DEF AlignInv, Aligning, LongAbsent, MovesForgotten, Taking, historyVars
<1>2. Streaks'
  <2>1. ASSUME NEW r \in Rounds, NEW t \in Participants[r[1]]
        PROVE  /\ SetInLine(r[1], r[2], t)' <=> SetInLine(r[1], r[2], t)
               /\ CopiesInLine(r[2], t)' <=> CopiesInLine(r[2], t)
    BY MirrorFrame
  <2> QED
    BY <2>1 DEF AlignInv, Aligning, Streaks, Taking, historyVars
<1>3. Applying' => Applying
  BY DEF Applying, Taking, historyVars
<1>4. Finished'
  <2>1. \A t : /\ SetInLine(job.plan, job.period, t)' <=>
                    SetInLine(job.plan, job.period, t)
               /\ CopiesInLine(job.period, t)' <=> CopiesInLine(job.period, t)
    BY MirrorFrame DEF Taking
  <2> QED
    BY <1>3, <2>1 DEF AlignInv, Aligning, Finished, Taking, historyVars
<1>5. Place'
  <2>1. /\ Source(job.plan, job.period, target)' = Source(job.plan, job.period, target)
        /\ Existing(job.period, target)' = Existing(job.period, target)
    BY SourceStands, MirrorFrame DEF Taking
  <2> QED
    BY <2>1 DEF AlignInv, Aligning, Place, Taking, historyVars
<1>6. Progress'
  <2>1. /\ Existing(job.period, target)' = Existing(job.period, target)
        /\ Live(job.period, target)' = Live(job.period, target)
    BY MirrorFrame DEF Taking
  <2>2. \A q : Handled(q)' <=> Handled(q)
    BY <2>1 DEF Handled, Taking, historyVars, SourceVars
  <2> QED
    BY <1>3, <2>1, <2>2 DEF AlignInv, Aligning, Progress, Taking
<1> QED
  BY <1>1, <1>2, <1>4, <1>5, <1>6 DEF Aligning

\* A write takes, or the pass cannot end as a clean apply.
LEMMA WriteOutcome ==
  ASSUME NEW loop, NEW o, Taking(loop, o), NEW action, NEW onError, NEW written,
         Write(action, onError, o, written)
  PROVE  /\ Undone' = {} => Undone = {}
         /\ \/ mirror' = written
            \/ UNCHANGED mirror /\ ~Applying'
<1>1. CASE ~job.dry /\ Log(action, o, "DONE") /\ mirror' = written
  BY <1>1, UndoneStays
<1>2. CASE Log(action, o, "FAILED") /\ UNCHANGED mirror
  BY <1>2, UndoneStays DEF Applying
<1>3. CASE Log(onError, o, "ERROR") /\ UNCHANGED mirror
  BY <1>3, UndoneStays DEF Applying
<1>4. CASE job.dry /\ Log(action, o, "PLANNED") /\ UNCHANGED <<mirror, faults>>
  BY <1>4, UndoneStays DEF Applying, Taking
<1> QED
  BY <1>1, <1>2, <1>3, <1>4 DEF Write

\* What is known of the record when the base has stood still.
LEMMA RecordFacts ==
  ASSUME AlignInv, NEW loop \in {"expected", "orphans"}, NEW o \in Originals,
         Taking(loop, o), quiet
  PROVE  /\ loop = "expected" =>
              /\ o \in Source(job.plan, job.period, target)
              /\ PeriodOf[original[o].content] = job.period
         /\ o \in existing => /\ mirror[Id(o)].state # "absent"
                              /\ PeriodOf[mirror[Id(o)].content] = job.period
         /\ loop = "orphans" => /\ o \in existing
                                /\ o \notin Source(job.plan, job.period, target)
         /\ streak[Round] >= 1 => SetInLine(job.plan, job.period, target)
         /\ streak[Round] = 2 => CopiesInLine(job.period, target)
<1> USE TakingFacts
<1>1. loop = "expected" => o \in Source(job.plan, job.period, target)
  BY DEF AlignInv, Aligning, Place, Taking
<1>2. loop = "expected" => PeriodOf[original[o].content] = job.period
  BY <1>1, SourceFacts DEF AlignInv, ReadInv, TypeInv
<1>3. o \in existing => /\ mirror[Id(o)].state # "absent"
                        /\ PeriodOf[mirror[Id(o)].content] = job.period
  BY DEF AlignInv, Aligning, Place, Existing, HasRow
<1>4. loop = "orphans" => /\ o \in existing
                          /\ o \notin Source(job.plan, job.period, target)
  BY DEF AlignInv, Aligning, Place, Taking
<1>5. /\ streak[Round] >= 1 => SetInLine(job.plan, job.period, target)
      /\ streak[Round] = 2 => CopiesInLine(job.period, target)
  BY DEF AlignInv, Aligning, Streaks
<1> QED
  BY <1>1, <1>2, <1>3, <1>4, <1>5

LEMMA CreateAligning ==
  ASSUME AlignInv, NEW o \in Originals, Create(o)
  PROVE  Aligning'
<1>0. Taking("expected", o) /\ o \notin existing /\ Id(o) \notin TooLong
      /\ ~HasRow(o, target)
      /\ Write("CREATE", "EXPECTED", o, [mirror EXCEPT ![Id(o)] = Copied(o)])
  BY DEF Create
<1> USE <1>0, TakingFacts
<1>1. CASE UNCHANGED mirror /\ ~Applying'
  BY <1>1, WriteOutcome, NoWrite
<1>2. CASE mirror' = [mirror EXCEPT ![Id(o)] = Copied(o)]
  <2>1. Copied(o) \in MirrorState /\ mirror[Id(o)].state = "absent"
        /\ Copied(o).state = "enabled" /\ Copied(o).content = original[o].content
    BY DEF Copied, MirrorState, HasRow, AlignInv, ReadInv, TypeInv, TypeOK,
           BaseTypeOK, DealState
  <2>2. LongAbsent'
    <3>1. mirror' = [mirror EXCEPT ![Id(o)] = Copied(o)] /\ Id(o) \notin TooLong
      BY <1>2
    <3>2. \A i \in TooLong : i \in Identities
      BY BaseAssumption DEF Identities
    <3> QED
      BY <3>1, <3>2 DEF AlignInv, Aligning, LongAbsent, ReadInv, TypeInv, TypeOK,
         BaseTypeOK
  <2>3. CASE ~quiet
    BY <2>2, <2>3, TakingMoved
  <2>4. CASE quiet
    <3>1. PeriodOf[Copied(o).content] = job.period
      BY <2>1, <2>4, RecordFacts
    <3>2. streak[Round] = 0
      <4>1. o \notin Live(job.period, target)
        BY DEF Live, Existing
      <4>2. ~SetInLine(job.plan, job.period, target)
        BY <2>4, <4>1, RecordFacts DEF SetInLine
      <4>3. streak[Round] \in 0 .. 2 /\ ~(streak[Round] >= 1)
        BY <2>4, <4>2, RecordFacts
      <4> QED
        BY <4>3
    <3>3. Undone' = {} => Undone = {}
      BY WriteOutcome
    <3>4. Progress'
      BY <1>2, <2>1, <2>4, <3>1, <3>2, <3>3, ExpectedWrite
    <3>5. /\ ~(streak[Round] >= 1) /\ ~(streak[Round] = 2)
          /\ Copied(o).state # "absent" /\ "expected" \in {"expected", "orphans"}
      BY <2>1, <3>2
    <3>6. MovesForgotten' /\ Streaks' /\ Finished' /\ Place'
      BY ONLY <1>0, <1>2, <2>1, <2>4, <3>1, <3>3, <3>5, WriteAway, AlignInv, o \in Originals
    <3> QED
      BY <2>2, <3>4, <3>6 DEF Aligning
  <2> QED
    BY <2>3, <2>4
<1> QED
  BY <1>1, <1>2, WriteOutcome

\* A row already there belongs to an identity that is not too long.
LEMMA LongStays ==
  ASSUME AlignInv, NEW i \in Identities, mirror[i].state # "absent",
         NEW x, mirror' = [mirror EXCEPT ![i] = x]
  PROVE  i \notin TooLong /\ LongAbsent'
<1>1. i \notin TooLong
  BY DEF AlignInv, Aligning, LongAbsent
<1>2. TooLong \subseteq Identities
  BY BaseAssumption DEF Identities
<1> QED
  BY <1>1, <1>2 DEF AlignInv, Aligning, LongAbsent, ReadInv, TypeInv, TypeOK, BaseTypeOK

LEMMA EnableAligning ==
  ASSUME AlignInv, NEW o \in Originals, Enable(o)
  PROVE  Aligning'
<1> DEFINE x == [mirror[Id(o)] EXCEPT !.state = "enabled"]
<1>0. Taking("expected", o) /\ o \in existing /\ mirror[Id(o)].state = "disabled"
      /\ Write("ENABLE", "EXPECTED", o, [mirror EXCEPT ![Id(o)] = x])
  BY DEF Enable
<1>1. CASE UNCHANGED mirror /\ ~Applying'
  BY <1>0, <1>1, WriteOutcome, NoWrite
<1>2. CASE mirror' = [mirror EXCEPT ![Id(o)] = x]
  <2>1. x \in MirrorState /\ x.state = "enabled" /\ x.content = mirror[Id(o)].content
    BY <1>0, TakingFacts DEF MirrorState
  <2>2. Id(o) \notin TooLong /\ LongAbsent'
    BY <1>0, <1>2, TakingFacts, LongStays
  <2>3. CASE ~quiet
    BY <1>0, <2>2, <2>3, TakingMoved
  <2>4. CASE quiet
    <3>1. PeriodOf[mirror[Id(o)].content] = job.period /\ PeriodOf[x.content] = job.period
      BY <1>0, <2>1, <2>4, RecordFacts
    <3>2. ~(streak[Round] >= 1) /\ ~(streak[Round] = 2)
      <4>1. o \notin Live(job.period, target)
        BY <1>0 DEF Live, Id
      <4>2. o \in Source(job.plan, job.period, target) /\ <<o, target>> \notin TooLong
        BY <1>0, <2>2, <2>4, RecordFacts DEF Id
      <4>3. ~SetInLine(job.plan, job.period, target)
        BY <4>1, <4>2 DEF SetInLine
      <4>4. streak[Round] \in 0 .. 2 /\ ~(streak[Round] >= 1)
        BY <1>0, <2>4, <4>3, RecordFacts, TakingFacts
      <4> QED
        BY <4>4
    <3>3. Undone' = {} => Undone = {}
      BY <1>0, WriteOutcome
    <3>4. x.state # "absent" /\ "expected" \in {"expected", "orphans"}
      BY <2>1
    <3> HIDE DEF x
    <3>5. Progress'
      BY ONLY <1>0, <1>2, <2>1, <2>4, <3>1, <3>2, <3>3, ExpectedWrite, AlignInv,
         o \in Originals
    <3>6. MovesForgotten' /\ Streaks' /\ Finished' /\ Place'
      BY ONLY <1>0, <1>2, <2>1, <2>4, <3>1, <3>2, <3>3, <3>4, WriteAway, AlignInv,
         o \in Originals
    <3> QED
      BY <2>2, <3>5, <3>6 DEF Aligning
  <2> QED
    BY <1>0, <2>3, <2>4, TakingFacts
<1> HIDE DEF x
<1> QED
  BY <1>0, <1>1, <1>2, WriteOutcome

LEMMA UpdateAligning ==
  ASSUME AlignInv, NEW o \in Originals, Update(o)
  PROVE  Aligning'
<1> DEFINE x == [mirror[Id(o)] EXCEPT !.content = original[o].content]
<1>0. /\ Taking("expected", o) /\ o \in existing
      /\ mirror[Id(o)].state = "enabled"
      /\ mirror[Id(o)].content # original[o].content
      /\ Write("UPDATE", "EXPECTED", o, [mirror EXCEPT ![Id(o)] = x])
  BY DEF Update
<1>1. CASE UNCHANGED mirror /\ ~Applying'
  BY <1>0, <1>1, WriteOutcome, NoWrite
<1>2. CASE mirror' = [mirror EXCEPT ![Id(o)] = x]
  <2>1. x \in MirrorState /\ x.state = "enabled" /\ x.content = original[o].content
    BY <1>0, TakingFacts
       DEF MirrorState, AlignInv, ReadInv, TypeInv, TypeOK, BaseTypeOK, DealState
  <2>2. Id(o) \notin TooLong /\ LongAbsent'
    BY <1>0, <1>2, TakingFacts, LongStays
  <2>3. CASE ~quiet
    BY <1>0, <2>2, <2>3, TakingMoved
  <2>4. CASE quiet
    <3>1. PeriodOf[mirror[Id(o)].content] = job.period /\ PeriodOf[x.content] = job.period
      BY <1>0, <2>1, <2>4, RecordFacts
    <3>2. o \in Live(job.period, target)
      BY <1>0, <3>1, TakingFacts DEF Live, Existing, HasRow
    <3>3. ~(streak[Round] = 2)
      <4>1. ~CopiesInLine(job.period, target)
        BY <1>0, <3>2, TakingFacts DEF CopiesInLine
      <4> QED
        BY <1>0, <2>4, <4>1, RecordFacts
    <3>4. streak[Round] >= 1 => SetInLine(job.plan, job.period, target)'
      <4>1. ASSUME NEW q \in Originals
            PROVE  q \in Live(job.period, target)' <=> q \in Live(job.period, target)
        <5>1. <<q, target>> \in Identities
          BY <1>0, TakingFacts DEF Identities
        <5>2. mirror'[<<q, target>>] = mirror[<<q, target>>] \/ q = o
          BY <1>0, <1>2, <5>1, TakingFacts
             DEF AlignInv, ReadInv, TypeInv, TypeOK, BaseTypeOK
        <5>3. mirror'[<<o, target>>] = x
          BY <1>0, <1>2, TakingFacts
             DEF AlignInv, ReadInv, TypeInv, TypeOK, BaseTypeOK
        <5>4. CASE q = o
          BY <1>0, <2>1, <3>1, <3>2, <5>3, <5>4 DEF Live, Existing, HasRow, Taking
        <5>5. CASE mirror'[<<q, target>>] = mirror[<<q, target>>]
          BY <1>0, <5>5 DEF Live, Existing, HasRow, Taking
        <5> QED
          BY <5>2, <5>4, <5>5
      <4>2. Live(job.period, target)' = Live(job.period, target)
        BY <4>1 DEF Live, Existing
      <4>3. Source(job.plan, job.period, target)' = Source(job.plan, job.period, target)
        BY <1>0, SourceStands, TakingFacts DEF Taking
      <4>4. SetInLine(job.plan, job.period, target)' <=>
              SetInLine(job.plan, job.period, target)
        BY <1>0, <4>2, <4>3 DEF SetInLine, Taking
      <4> QED
        BY <1>0, <2>4, <4>4, RecordFacts
    <3>5. Undone' = {} => Undone = {}
      BY <1>0, WriteOutcome
    <3>6. x.state # "absent" /\ "expected" \in {"expected", "orphans"}
      BY <2>1
    <3> HIDE DEF x
    <3>7. Progress'
      BY ONLY <1>0, <1>2, <2>1, <2>4, <3>1, <3>5, ExpectedWrite, AlignInv,
         o \in Originals
    <3>8. MovesForgotten' /\ Streaks' /\ Finished' /\ Place'
      BY ONLY <1>0, <1>2, <2>1, <2>4, <3>1, <3>3, <3>4, <3>5, <3>6, WriteAway,
         AlignInv, o \in Originals
    <3> QED
      BY <2>2, <3>7, <3>8 DEF Aligning
  <2> QED
    BY <1>0, <2>3, <2>4, TakingFacts
<1> HIDE DEF x
<1> QED
  BY <1>0, <1>1, <1>2, WriteOutcome

LEMMA DisableAligning ==
  ASSUME AlignInv, NEW o \in Originals, Disable(o)
  PROVE  Aligning'
<1> DEFINE x == [mirror[Id(o)] EXCEPT !.state = "disabled"]
<1>0. Taking("orphans", o) /\ mirror[Id(o)].state = "enabled"
      /\ Write("DISABLE", "ORPHAN", o, [mirror EXCEPT ![Id(o)] = x])
  BY DEF Disable
<1>1. CASE UNCHANGED mirror /\ ~Applying'
  BY <1>0, <1>1, WriteOutcome, NoWrite
<1>2. CASE mirror' = [mirror EXCEPT ![Id(o)] = x]
  <2>1. x \in MirrorState /\ x.state = "disabled" /\ x.content = mirror[Id(o)].content
    BY <1>0, TakingFacts DEF MirrorState
  <2>2. Id(o) \notin TooLong /\ LongAbsent'
    BY <1>0, <1>2, TakingFacts, LongStays
  <2>3. CASE ~quiet
    BY <1>0, <2>2, <2>3, TakingMoved
  <2>4. CASE quiet
    <3>1. PeriodOf[mirror[Id(o)].content] = job.period /\ PeriodOf[x.content] = job.period
      BY <1>0, <2>1, <2>4, RecordFacts
    <3>2. ~(streak[Round] >= 1) /\ ~(streak[Round] = 2)
      <4>1. o \in Live(job.period, target)
        BY <1>0, <3>1, TakingFacts DEF Live, Existing, HasRow
      <4>2. ~SetInLine(job.plan, job.period, target)
        BY <1>0, <2>4, <4>1, RecordFacts DEF SetInLine
      <4>3. streak[Round] \in 0 .. 2 /\ ~(streak[Round] >= 1)
        BY <1>0, <2>4, <4>2, RecordFacts, TakingFacts
      <4> QED
        BY <4>3
    <3>3. Undone' = {} => Undone = {}
      BY <1>0, WriteOutcome
    <3>4. x.state # "absent" /\ "orphans" \in {"expected", "orphans"}
      BY <2>1
    <3> HIDE DEF x
    <3>5. Progress'
      BY ONLY <1>0, <1>2, <2>1, <2>4, <3>3, OrphanWrite, AlignInv, o \in Originals
    <3>6. MovesForgotten' /\ Streaks' /\ Finished' /\ Place'
      BY ONLY <1>0, <1>2, <2>1, <2>4, <3>1, <3>2, <3>3, <3>4, WriteAway, AlignInv,
         o \in Originals
    <3> QED
      BY <2>2, <3>5, <3>6 DEF Aligning
  <2> QED
    BY <1>0, <2>3, <2>4, TakingFacts
<1> HIDE DEF x
<1> QED
  BY <1>0, <1>1, <1>2, WriteOutcome

\* The steps that write nothing.
LEMMA RestAligning ==
  ASSUME AlignInv, NEW o \in Originals,
         \/ LookupFails("expected", "EXPECTED", o) \/ RefuseLong(o)
         \/ CreateCollides(o) \/ Keep(o)
         \/ LookupFails("orphans", "ORPHAN", o) \/ LeaveDisabled(o)
  PROVE  Aligning'
<1>1. ASSUME NEW loop \in {"expected", "orphans"}, NEW onError,
             LookupFails(loop, onError, o)
      PROVE  Aligning'
  BY <1>1, UndoneStays, NoWrite DEF LookupFails, Applying
<1>2. CASE RefuseLong(o)
  <2>1. Handled(o)
    BY <1>2 DEF RefuseLong, Id, Handled
  <2> QED
    BY <1>2, <2>1, UndoneStays, NoWrite DEF RefuseLong
<1>3. CASE CreateCollides(o)
  <2>1. ~Applying' /\ (Undone' = {} => Undone = {})
    BY <1>3, UndoneStays DEF CreateCollides, Taking, Applying
  <2> QED
    BY <1>3, <2>1, NoWrite DEF CreateCollides
<1>4. CASE Keep(o)
  <2>1. Undone' = Undone /\ Taking("expected", o) /\ UNCHANGED mirror
    BY <1>4 DEF Keep, Undone
  <2>2. Applying' => Handled(o)
    <3>1. SUFFICES ASSUME quiet PROVE Handled(o)
      BY <2>1 DEF Applying, Taking, historyVars
    <3>2. o \in Live(job.period, target)
      BY <1>4, <2>1, <3>1, RecordFacts, TakingFacts DEF Keep, Live, Existing, HasRow
    <3> QED
      BY <1>4, <2>1, <3>2, TakingFacts DEF Keep, Handled
  <2> QED
    BY <2>1, <2>2, NoWrite
<1>5. CASE LeaveDisabled(o)
  <2>1. Undone' = Undone /\ Taking("orphans", o) /\ UNCHANGED mirror
    BY <1>5 DEF LeaveDisabled, Undone
  <2>2. o \notin Live(job.period, target)
    BY <1>5 DEF LeaveDisabled, Live, Id
  <2> QED
    BY <2>1, <2>2, NoWrite
<1> QED
  BY <1>1, <1>2, <1>3, <1>4, <1>5

-----------------------------------------------------------------------------
(* The other steps write no mirror.                                        *)

LEMMA StillFrame ==
  ASSUME AlignInv, UNCHANGED SourceVars, UNCHANGED mirror
  PROVE  /\ LongAbsent'
         /\ UNCHANGED streak => Streaks'
         /\ \A p, per, t : /\ Source(p, per, t)' = Source(p, per, t)
                           /\ Existing(per, t)' = Existing(per, t)
                           /\ Live(per, t)' = Live(per, t)
                           /\ SetInLine(p, per, t)' <=> SetInLine(p, per, t)
                           /\ CopiesInLine(per, t)' <=> CopiesInLine(per, t)
<1>1. \A p, per, t : /\ Source(p, per, t)' = Source(p, per, t)
                     /\ Existing(per, t)' = Existing(per, t)
                     /\ Live(per, t)' = Live(per, t)
                     /\ SetInLine(p, per, t)' <=> SetInLine(p, per, t)
                     /\ CopiesInLine(per, t)' <=> CopiesInLine(per, t)
  BY SourceStands, MirrorFrame
<1>2. UNCHANGED streak => Streaks'
  <2>1. SUFFICES ASSUME UNCHANGED streak, NEW r \in Rounds, NEW t \in Participants[r[1]]
                 PROVE  /\ streak[r] >= 1 => SetInLine(r[1], r[2], t)'
                        /\ streak[r] = 2 => CopiesInLine(r[2], t)'
    BY DEF Streaks
  <2> QED
    BY <1>1 DEF AlignInv, Aligning, Streaks
<1> QED
  BY <1>1, <1>2 DEF AlignInv, Aligning, LongAbsent

\* A pass begins with every target of its plan before it.
LEMMA StartAligning ==
  ASSUME AlignInv, NEW p \in Plans, NEW per \in Periods, NEW dry \in BOOLEAN,
         StartPass(p, per, dry)
  PROVE  Aligning'
<1>1. UNCHANGED SourceVars /\ UNCHANGED <<mirror, streak>>
  BY DEF StartPass, sourceVars, SourceVars
<1>2. LongAbsent' /\ Streaks' /\ MovesForgotten'
  BY <1>1, StillFrame DEF StartPass, MovesForgotten
<1>3. Place' /\ Progress'
  BY DEF StartPass, AlignInv, Aligning, Place, Progress
<1>4. Finished'
  BY DEF StartPass, Finished
<1> QED
  BY <1>2, <1>3, <1>4 DEF Aligning

LEMMA BeginAligning ==
  ASSUME AlignInv, NEW t \in Targets, BeginTarget(t)
  PROVE  Aligning'
<1>1. UNCHANGED SourceVars /\ UNCHANGED <<mirror, historyVars, job, skipped, rows>>
  BY DEF BeginTarget, sourceVars, SourceVars, bookVars
<1>2. LongAbsent' /\ Streaks' /\ MovesForgotten'
  BY <1>1, StillFrame DEF historyVars, AlignInv, Aligning, MovesForgotten
<1>3. Place' /\ Progress'
  BY DEF BeginTarget, AlignInv, Aligning, Place, Progress
<1>4. Applying' => Applying
  BY <1>1 DEF BeginTarget, Applying, Undone, historyVars
<1>5. ASSUME Applying', NEW u \in Participants[job.plan] \ (waiting' \cup {target'})
      PROVE  /\ SetInLine(job.plan, job.period, u)
             /\ streak[Round] >= 1 => CopiesInLine(job.period, u)
  <2>1. target = NoTarget
    BY DEF BeginTarget, AlignInv, Aligning, Place
  <2>2. job \in Jobs
    BY DEF BeginTarget, AlignInv, ReadInv, TypeInv, Handling
  <2>3. u \notin waiting /\ u # target
    BY <1>5, <2>1, <2>2, ReconciliationAssumption, BaseAssumption DEF BeginTarget, Jobs
  <2> QED
    BY <1>4, <1>5, <2>3 DEF AlignInv, Aligning, Finished
<1>6. Finished'
  BY <1>1, <1>5, StillFrame DEF Finished, historyVars, Round
<1> QED
  BY <1>2, <1>3, <1>6 DEF Aligning

\* The reads, and the turn from one loop to the next, keep target, waiting and
\* what has been written.
LEMMA ReadingAligning ==
  ASSUME AlignInv,
         \/ \E v \in Variables : ReadVariable(v)
         \/ ReadMirrors
         \/ BeginOrphans
  PROVE  Aligning'
<1>1. /\ UNCHANGED SourceVars
      /\ UNCHANGED <<mirror, historyVars, job, skipped, rows, waiting, target>>
  BY DEF ReadVariable, ReadMirrors, BeginOrphans, sourceVars, SourceVars, bookVars
<1>2. LongAbsent' /\ Streaks' /\ MovesForgotten'
  BY <1>1, StillFrame DEF historyVars, AlignInv, Aligning, MovesForgotten
<1>3. Applying' => Applying
  BY <1>1 DEF ReadVariable, ReadMirrors, BeginOrphans, Applying, Undone, historyVars
<1>4. Finished'
  BY <1>1, <1>3, StillFrame DEF AlignInv, Aligning, Finished, historyVars, Round
<1>5. ASSUME NEW v \in Variables, ReadVariable(v)
      PROVE  Place' /\ Progress'
  <2>1. quiet => Selected(job.plan, job.period, target, v)
                   \subseteq Source(job.plan, job.period, target)
    BY <1>5 DEF ReadVariable, AlignInv, Aligning, Place, Source
  <2>2. Source(job.plan, job.period, target)' = Source(job.plan, job.period, target)
    BY <1>1, StillFrame
  <2>3. quiet => expected' = expected \cup Selected(job.plan, job.period, target, v)
    BY <1>5, ReadsSelected DEF ReadVariable, AlignInv, ReadInv
  <2> QED
    BY <1>1, <1>5, <2>1, <2>2, <2>3 DEF ReadVariable, AlignInv, Aligning, Place,
       Progress, historyVars
<1>6. ASSUME ReadMirrors PROVE Place' /\ Progress'
  <2>1. /\ Source(job.plan, job.period, target)' = Source(job.plan, job.period, target)
        /\ Existing(job.period, target)' = Existing(job.period, target)
    BY <1>1, StillFrame
  <2>2. quiet => expected = Source(job.plan, job.period, target)
    BY <1>6 DEF ReadMirrors, AlignInv, ReadInv, ReadTrue, Aligning, Place, Source
  <2>3. Place'
    BY <1>1, <1>6, <2>1, <2>2 DEF ReadMirrors, Place, historyVars
  <2>4. Progress'
    BY <1>1, <1>6, <2>1 DEF ReadMirrors, Progress
  <2> QED
    BY <2>3, <2>4
<1>7. ASSUME BeginOrphans PROVE Place' /\ Progress'
  <2>1. /\ Source(job.plan, job.period, target)' = Source(job.plan, job.period, target)
        /\ Existing(job.period, target)' = Existing(job.period, target)
        /\ Live(job.period, target)' = Live(job.period, target)
    BY <1>1, StillFrame
  <2>2. Place'
    BY <1>1, <1>7, <2>1 DEF BeginOrphans, AlignInv, Aligning, Place, historyVars
  <2>3. \A o : Handled(o)' <=> Handled(o)
    BY <1>1, <2>1 DEF Handled, historyVars, Round, SourceVars
  <2>4. Live(job.period, target) \subseteq Existing(job.period, target)
    BY DEF Live
  <2>5. Progress'
    BY <1>1, <1>3, <1>7, <2>1, <2>3, <2>4
       DEF BeginOrphans, AlignInv, Aligning, Progress
  <2> QED
    BY <2>2, <2>5
<1> QED
  BY <1>2, <1>4, <1>5, <1>6, <1>7 DEF Aligning

\* A target whose second loop ran out is in line.
LEMMA EndTargetAligning ==
  ASSUME AlignInv, EndTarget
  PROVE  Aligning'
<1>1. /\ UNCHANGED SourceVars
      /\ UNCHANGED <<mirror, historyVars, job, skipped, rows, waiting>>
  BY DEF EndTarget, sourceVars, SourceVars, bookVars
<1>2. LongAbsent' /\ Streaks' /\ MovesForgotten'
  BY <1>1, StillFrame DEF historyVars, AlignInv, Aligning, MovesForgotten
<1>3. Place' /\ Progress'
  BY DEF EndTarget, Place, Progress
<1>4. Applying' => Applying
  BY <1>1 DEF EndTarget, Applying, Undone, historyVars
<1>5. ASSUME Applying
      PROVE  /\ SetInLine(job.plan, job.period, target)
             /\ streak[Round] >= 1 => CopiesInLine(job.period, target)
  <2>1. /\ \A q \in expected : Handled(q)
        /\ Live(job.period, target) \subseteq expected
    BY <1>5 DEF EndTarget, AlignInv, Aligning, Progress
  <2>2. expected = Source(job.plan, job.period, target)
    BY <1>5 DEF EndTarget, AlignInv, Aligning, Place, Applying
  <2>3. target \in Targets
    BY TargetType DEF EndTarget, AlignInv, ReadInv
  <2>4. ASSUME NEW q \in Live(job.period, target)
        PROVE  <<q, target>> \notin TooLong
    <3>1. mirror[<<q, target>>].state = "enabled"
      BY <2>4 DEF Live
    <3> QED
      BY <3>1 DEF AlignInv, Aligning, LongAbsent
  <2>5. SetInLine(job.plan, job.period, target)
    BY <2>1, <2>2, <2>4 DEF SetInLine, Handled
  <2>6. streak[Round] >= 1 => CopiesInLine(job.period, target)
    BY <2>1, <2>4 DEF CopiesInLine, Handled
  <2> QED
    BY <2>5, <2>6
<1>6. Finished'
  <2>1. ASSUME Applying', NEW u \in Participants[job.plan] \ waiting
        PROVE  /\ SetInLine(job.plan, job.period, u)
               /\ streak[Round] >= 1 => CopiesInLine(job.period, u)
    BY <1>4, <1>5, <2>1 DEF AlignInv, Aligning, Finished
  <2> QED
    BY <1>1, <2>1, StillFrame DEF Finished, historyVars, Round
<1> QED
  BY <1>2, <1>3, <1>6 DEF Aligning

LEMMA EndTargetsAligning ==
  ASSUME AlignInv, EndTargets
  PROVE  Aligning'
<1>1. /\ UNCHANGED SourceVars
      /\ UNCHANGED <<mirror, historyVars, job, skipped, rows, waiting, target, expected>>
  BY DEF EndTargets, sourceVars, SourceVars, bookVars, loopVars
<1>2. LongAbsent' /\ Streaks' /\ MovesForgotten'
  BY <1>1, StillFrame DEF historyVars, AlignInv, Aligning, MovesForgotten
<1>3. Place' /\ Progress'
  BY <1>1 DEF EndTargets, AlignInv, Aligning, Place, Progress
<1>4. Applying' => Applying
  BY <1>1 DEF EndTargets, Applying, Undone, historyVars
<1>5. Finished'
  BY <1>1, <1>4, StillFrame DEF AlignInv, Aligning, Finished, historyVars, Round
<1> QED
  BY <1>2, <1>3, <1>5 DEF Aligning

LEMMA SkipAligning ==
  ASSUME AlignInv, SkipTarget
  PROVE  Aligning'
<1>1. UNCHANGED SourceVars /\ UNCHANGED <<mirror, historyVars>>
  BY DEF SkipTarget, sourceVars, SourceVars
<1>2. LongAbsent' /\ Streaks' /\ MovesForgotten'
  BY <1>1, StillFrame DEF historyVars, AlignInv, Aligning, MovesForgotten
<1>3. Place' /\ Progress' /\ Finished'
  BY DEF SkipTarget, Place, Progress, Finished, Applying
<1> QED
  BY <1>2, <1>3 DEF Aligning

\* A pass that ends counts for its round as far as its targets are in line.
LEMMA RecordAligning ==
  ASSUME AlignInv, phase # "idle", Reset, NEW clean \in BOOLEAN, Record(clean),
         UNCHANGED SourceVars, UNCHANGED <<mirror, quiet>>,
         clean => Clean /\ phase = "closing"
  PROVE  Aligning'
<1>1. LongAbsent'
  BY StillFrame
<1>2. Place' /\ Progress' /\ Finished'
  BY DEF Reset, Place, Progress, Finished, Applying
<1>3. job \in Jobs /\ Round = <<job.plan, job.period>> /\ Round \in Rounds
      /\ streak \in [Rounds -> 0 .. 2]
  BY DEF AlignInv, ReadInv, TypeInv, TypeOK, Handling, Round, Rounds, Jobs
<1>4. MovesForgotten'
  BY <1>3 DEF AlignInv, Aligning, MovesForgotten, Record, Clean
<1>5. ASSUME clean, ~job.dry, NEW t \in Participants[job.plan]
      PROVE  /\ SetInLine(job.plan, job.period, t)
             /\ streak[Round] >= 1 => CopiesInLine(job.period, t)
  <2>1. Applying /\ waiting = {} /\ target = NoTarget
    BY <1>5 DEF Clean, Applying, AlignInv, Aligning, Place
  <2>2. t # NoTarget
    BY <1>3, ReconciliationAssumption, BaseAssumption DEF Jobs
  <2> QED
    BY <2>1, <2>2 DEF AlignInv, Aligning, Finished
<1>6. Streaks'
  <2>1. SUFFICES ASSUME NEW r \in Rounds, NEW t \in Participants[r[1]]
                 PROVE  /\ streak'[r] >= 1 => SetInLine(r[1], r[2], t)
                        /\ streak'[r] = 2 => CopiesInLine(r[2], t)
    BY StillFrame DEF Streaks
  <2>2. CASE streak'[r] = streak[r]
    BY <2>2 DEF AlignInv, Aligning, Streaks
  <2>3. CASE streak'[r] # streak[r]
    <3>1. r = Round /\ ~job.dry
      BY <1>3, <2>3 DEF Record
    <3>2. CASE clean
      <4>1. streak'[r] = 2 => streak[Round] >= 1
        BY <1>3, <2>3, <3>1 DEF Record
      <4> QED
        BY <1>3, <1>5, <3>1, <3>2, <4>1
    <3>3. CASE ~clean
      BY <1>3, <3>1, <3>3 DEF Record
    <3> QED
      BY <3>2, <3>3
  <2> QED
    BY <2>2, <2>3
<1> QED
  BY <1>1, <1>2, <1>4, <1>6 DEF Aligning

LEMMA MovesAligning ==
  ASSUME AlignInv, Moves
  PROVE  Aligning'
<1>1. \A r \in Rounds : streak'[r] = 0
  BY DEF Moves
<1>2. quiet' = FALSE
  BY DEF Moves
<1>3. LongAbsent'
  BY DEF Moves, AlignInv, Aligning, LongAbsent
<1>4. Place'
  BY <1>2 DEF Moves, passVars, loopVars, AlignInv, Aligning, Place
<1> QED
  BY <1>1, <1>2, <1>3, <1>4 DEF Aligning, MovesForgotten, Streaks, Finished, Progress,
     Applying

LEMMA AlignInductive ==
  ASSUME AlignInv, [Next]_vars
  PROVE  Aligning'
<1>1. ASSUME NEW o \in Originals, Expectation(o) \/ Orphan(o)
      PROVE  Aligning'
  BY <1>1, CreateAligning, EnableAligning, UpdateAligning, DisableAligning,
     RestAligning DEF Expectation, Orphan
<1>2. CASE Close
  <2>1. Clean \in BOOLEAN /\ Record(Clean) /\ Reset /\ phase # "idle"
    BY <1>2 DEF Close, Clean, AlignInv, ReadInv, TypeInv, TypeOK
  <2>2. UNCHANGED SourceVars /\ UNCHANGED <<mirror, quiet>>
    BY <1>2 DEF Close, sourceVars, SourceVars
  <2> QED
    BY <1>2, <2>1, <2>2, RecordAligning DEF Close
<1>3. CASE LoseConsole
  <2>1. Record(FALSE) /\ Reset /\ phase # "idle"
    BY <1>3 DEF LoseConsole
  <2>2. UNCHANGED SourceVars /\ UNCHANGED <<mirror, quiet>>
    BY <1>3 DEF LoseConsole, sourceVars, SourceVars
  <2> QED
    BY <2>1, <2>2, RecordAligning
<1>4. CASE UNCHANGED vars
  <2>1. /\ UNCHANGED SourceVars
        /\ UNCHANGED <<mirror, job, phase, waiting, target, unread, expected,
                       existing, todo, rows, quiet, skipped, streak>>
    BY <1>4 DEF vars, sourceVars, SourceVars, passVars, loopVars, bookVars, historyVars
  <2>2. LongAbsent' /\ Streaks' /\ MovesForgotten'
    BY <2>1, StillFrame DEF AlignInv, Aligning, MovesForgotten
  <2>3. /\ Source(job.plan, job.period, target)' = Source(job.plan, job.period, target)
        /\ Existing(job.period, target)' = Existing(job.period, target)
        /\ Live(job.period, target)' = Live(job.period, target)
    BY <2>1, StillFrame
  <2>4. Place'
    BY <2>1, <2>3 DEF AlignInv, Aligning, Place
  <2>5. Applying' <=> Applying
    BY <2>1 DEF Applying, Undone
  <2>6. Finished'
    BY <2>1, <2>5, StillFrame DEF AlignInv, Aligning, Finished, Round
  <2>7. \A o : Handled(o)' <=> Handled(o)
    BY <2>1, <2>3 DEF Handled, Round, SourceVars
  <2>8. Progress'
    BY <2>1, <2>3, <2>5, <2>7 DEF AlignInv, Aligning, Progress
  <2> QED
    BY <2>2, <2>4, <2>6, <2>8 DEF Aligning
<1> QED
  BY <1>1, <1>2, <1>3, <1>4, StartAligning, BeginAligning, ReadingAligning,
     EndTargetAligning, EndTargetsAligning, SkipAligning, MovesAligning DEF Next, Step

LEMMA AlignInvariant == Spec => []AlignInv
<1>1. Init => Aligning
  BY BaseAssumption DEF Init, BaseInit, Aligning, LongAbsent, MovesForgotten, Streaks,
     Finished, Place, Progress, Applying, NoMirror, Identities
<1>2. Init => ReadTrue
  BY DEF Init, ReadTrue
<1>3. ReadInv /\ [Next]_vars => ReadTrue'
  BY ReadInductive
<1>4. AlignInv /\ [Next]_vars => Aligning'
  BY AlignInductive
<1>5. /\ AlignInv <=> ReadInv /\ Aligning
      /\ ReadInv <=> TypeInv /\ ReadTrue
  BY DEF AlignInv, ReadInv
<1> QED
  BY <1>1, <1>2, <1>3, <1>4, <1>5, TypeInvariant, PTL DEF Spec

\* In every company, when two applies of a plan in a row ended clean and the
\* base has not moved since the first began, the mirrors of the plan are
\* exactly the copies of its source: the second pass is what closes the case.
THEOREM TwoPassesClose == Spec => []TwoPassesAlign
<1>1. AlignInv => TwoPassesAlign
  <2>1. SUFFICES ASSUME AlignInv, NEW r \in Rounds, streak[r] = 2
                 PROVE  InLine(r[1], r[2])
    BY DEF TwoPassesAlign
  <2> QED
    BY <2>1 DEF AlignInv, Aligning, Streaks, InLine, SetInLine, CopiesInLine
<1> QED
  BY <1>1, AlignInvariant, PTL

-----------------------------------------------------------------------------
(* What the verification of an apply may rest on: every deal of the source *)
(* is mirrored as it stands or has a row that the verification compares,   *)
(* and every enabled mirror outside the source has a row too.  The rows    *)
(* name their target, so the argument needs nothing of the other plans.    *)

\* An apply that has lost no target, over a base that stood still.
Watched == phase # "idle" /\ quiet /\ ~job.dry /\ ~skipped

Compared == {"CREATE", "UPDATE", "ENABLE", "EXPECTED"}

Faithful(o, t) ==
  mirror[<<o, t>>].state = "enabled" /\ mirror[<<o, t>>].content = original[o].content

RowFor(o, t, actions) ==
  \E r \in rows : r.deal = o /\ r.target = t /\ r.action \in actions

Vouched(o, t) == Faithful(o, t) \/ RowFor(o, t, Compared)

Denounced(o, t) == RowFor(o, t, {"DISABLE", "ORPHAN"})

VouchedTargets ==
  Watched => \A t \in Participants[job.plan] \ (waiting \cup {target}) :
    /\ \A o \in Source(job.plan, job.period, t) : Vouched(o, t)
    /\ \A o \in Live(job.period, t) \ Source(job.plan, job.period, t) : Denounced(o, t)

VouchedTarget ==
  Watched =>
    /\ phase = "expected" =>
         /\ \A o \in expected \ todo : Vouched(o, target)
         /\ Live(job.period, target) \subseteq existing \cup expected
    /\ phase = "orphans" =>
         /\ \A o \in expected : Vouched(o, target)
         /\ \A o \in Live(job.period, target) \ expected : o \in todo \/ Denounced(o, target)

\* The CSV at hand is that of the last apply, and no pass is running.
CsvAtRest == csv # NoCsv => phase = "idle"

Vouching == VouchedTargets /\ VouchedTarget /\ CsvAtRest /\ VerifiedMeansInLine

VouchInv == AlignInv /\ Vouching

\* While a pass runs there is no CSV to verify.
LEMMA NothingToVerify ==
  ASSUME VouchInv, phase # "idle", UNCHANGED csv
  PROVE  CsvAtRest' /\ VerifiedMeansInLine'
BY DEF VouchInv, Vouching, CsvAtRest, VerifiedMeansInLine, VerificationPasses

LEMMA RowsOnlyGrow ==
  ASSUME rows \subseteq rows', NEW o, NEW t, NEW actions, RowFor(o, t, actions)
  PROVE  RowFor(o, t, actions)'
BY DEF RowFor

\* A record of the first loop ends vouched for, with nothing else written.
LEMMA ExpectationOutcome ==
  ASSUME AlignInv, NEW o \in Originals, Expectation(o)
  PROVE  /\ Taking("expected", o)
         /\ rows \subseteq rows'
         /\ Vouched(o, target)'
         /\ \A i \in Identities : i # <<o, target>> => mirror'[i] = mirror[i]
<1>1. Taking("expected", o)
  BY DEF Expectation, LookupFails, RefuseLong, Create, CreateCollides, Enable, Keep, Update
<1>2. /\ Id(o) = <<o, target>> /\ mirror \in [Identities -> MirrorState]
      /\ target' = target /\ original' = original
  BY <1>1, TakingFacts DEF AlignInv, ReadInv, TypeInv, TypeOK, BaseTypeOK, Taking, sourceVars
<1>3. ASSUME NEW action \in Compared, NEW outcome, Log(action, o, outcome)
      PROVE  rows \subseteq rows' /\ Vouched(o, target)'
  <2> DEFINE row == [action |-> action, deal |-> o, target |-> target,
                     outcome |-> outcome]
  <2>1. row \in rows' /\ rows \subseteq rows'
    BY <1>3 DEF Log
  <2>2. row.deal = o /\ row.target = target /\ row.action \in Compared
    OBVIOUS
  <2> HIDE DEF row
  <2> QED
    BY <1>2, <2>1, <2>2 DEF Vouched, RowFor
<1>4. ASSUME NEW action \in Compared, NEW written,
             Write(action, "EXPECTED", o, written)
      PROVE  /\ rows \subseteq rows' /\ Vouched(o, target)'
             /\ mirror' = mirror \/ mirror' = written
  <2>1. \E a \in Compared, outcome \in Outcomes : Log(a, o, outcome)
    BY <1>4 DEF Write, Compared, Outcomes
  <2> QED
    BY <1>3, <1>4, <2>1 DEF Write
<1>5. CASE LookupFails("expected", "EXPECTED", o)
  BY <1>3, <1>5 DEF LookupFails, Compared
<1>6. CASE RefuseLong(o)
  BY <1>3, <1>6 DEF RefuseLong, Compared
<1>7. CASE Create(o)
  <2> DEFINE written == [mirror EXCEPT ![Id(o)] = Copied(o)]
  <2>1. Write("CREATE", "EXPECTED", o, written)
    BY <1>7 DEF Create
  <2> HIDE DEF written
  <2>2. /\ rows \subseteq rows' /\ Vouched(o, target)'
        /\ mirror' = mirror \/ mirror' = written
    BY <1>4, <2>1 DEF Compared
  <2> QED
    BY <1>1, <1>2, <2>2 DEF written
<1>8. CASE CreateCollides(o)
  BY <1>3, <1>8 DEF CreateCollides, Compared
<1>9. CASE Enable(o)
  <2> DEFINE written == [mirror EXCEPT ![Id(o)].state = "enabled"]
  <2>1. Write("ENABLE", "EXPECTED", o, written)
    BY <1>9 DEF Enable
  <2> HIDE DEF written
  <2>2. /\ rows \subseteq rows' /\ Vouched(o, target)'
        /\ mirror' = mirror \/ mirror' = written
    BY <1>4, <2>1 DEF Compared
  <2> QED
    BY <1>1, <1>2, <2>2 DEF written
<1>10. CASE Keep(o)
  BY <1>2, <1>10 DEF Keep, Vouched, Faithful
<1>11. CASE Update(o)
  <2> DEFINE written == [mirror EXCEPT ![Id(o)].content = original[o].content]
  <2>1. Write("UPDATE", "EXPECTED", o, written)
    BY <1>11 DEF Update
  <2> HIDE DEF written
  <2>2. /\ rows \subseteq rows' /\ Vouched(o, target)'
        /\ mirror' = mirror \/ mirror' = written
    BY <1>4, <2>1 DEF Compared
  <2> QED
    BY <1>1, <1>2, <2>2 DEF written
<1> QED
  BY <1>1, <1>5, <1>6, <1>7, <1>8, <1>9, <1>10, <1>11 DEF Expectation

\* A record of the second loop ends disabled or denounced.
LEMMA OrphanOutcome ==
  ASSUME AlignInv, NEW o \in Originals, Orphan(o)
  PROVE  /\ Taking("orphans", o)
         /\ rows \subseteq rows'
         /\ Denounced(o, target)' \/ mirror'[<<o, target>>].state # "enabled"
         /\ \A i \in Identities : i # <<o, target>> => mirror'[i] = mirror[i]
<1>1. Taking("orphans", o)
  BY DEF Orphan, LookupFails, LeaveDisabled, Disable
<1>2. /\ Id(o) = <<o, target>> /\ mirror \in [Identities -> MirrorState]
      /\ target' = target
  BY <1>1, TakingFacts DEF AlignInv, ReadInv, TypeInv, TypeOK, BaseTypeOK, Taking
<1>3. ASSUME NEW action \in {"DISABLE", "ORPHAN"}, NEW outcome, Log(action, o, outcome)
      PROVE  rows \subseteq rows' /\ Denounced(o, target)'
  <2> DEFINE row == [action |-> action, deal |-> o, target |-> target,
                     outcome |-> outcome]
  <2>1. row \in rows' /\ rows \subseteq rows'
    BY <1>3 DEF Log
  <2>2. row.deal = o /\ row.target = target /\ row.action \in {"DISABLE", "ORPHAN"}
    OBVIOUS
  <2> HIDE DEF row
  <2> QED
    BY <1>2, <2>1, <2>2 DEF Denounced, RowFor
<1>4. CASE LookupFails("orphans", "ORPHAN", o)
  BY <1>3, <1>4 DEF LookupFails
<1>5. CASE LeaveDisabled(o)
  BY <1>2, <1>5 DEF LeaveDisabled
<1>6. CASE Disable(o)
  <2>1. \E a \in {"DISABLE", "ORPHAN"}, outcome \in Outcomes : Log(a, o, outcome)
    BY <1>6 DEF Disable, Write, Outcomes
  <2>2. mirror' = mirror \/ mirror' = [mirror EXCEPT ![Id(o)].state = "disabled"]
    BY <1>6 DEF Disable, Write
  <2> QED
    BY <1>1, <1>2, <1>3, <2>1, <2>2
<1> QED
  BY <1>1, <1>4, <1>5, <1>6 DEF Orphan

\* What is vouched for and what is denounced on a target no row of which is
\* written stays so.
LEMMA AwayStands ==
  ASSUME AlignInv, UNCHANGED SourceVars, rows \subseteq rows', NEW t \in Targets,
         NEW o \in Originals, mirror'[<<o, t>>] = mirror[<<o, t>>]
  PROVE  /\ Vouched(o, t) => Vouched(o, t)'
         /\ Denounced(o, t) => Denounced(o, t)'
         /\ \A per : o \in Live(per, t)' <=> o \in Live(per, t)
<1>1. Vouched(o, t) => Vouched(o, t)'
  BY RowsOnlyGrow DEF Vouched, Faithful, SourceVars
<1>2. Denounced(o, t) => Denounced(o, t)'
  BY RowsOnlyGrow DEF Denounced
<1>3. \A per : o \in Live(per, t)' <=> o \in Live(per, t)
  BY DEF Live, Existing, HasRow
<1> QED
  BY <1>1, <1>2, <1>3

\* A step that writes no row but one of the target leaves the others vouched
\* for.
LEMMA OthersVouched ==
  ASSUME VouchInv, UNCHANGED SourceVars, UNCHANGED <<job, waiting, target, quiet, skipped>>,
         phase # "idle", rows \subseteq rows',
         \A i \in Identities : i[2] # target => mirror'[i] = mirror[i]
  PROVE  VouchedTargets'
<1> SUFFICES ASSUME Watched, NEW t \in Participants[job.plan] \ (waiting \cup {target})
             PROVE  /\ \A o \in Source(job.plan, job.period, t)' : Vouched(o, t)'
                    /\ \A o \in Live(job.period, t)' \ Source(job.plan, job.period, t)' :
                         Denounced(o, t)'
  BY DEF VouchedTargets, Watched
<1>1. job \in Jobs
  BY DEF VouchInv, AlignInv, ReadInv, TypeInv, Handling, Watched
<1>2. t \in Targets
  BY <1>1, BaseAssumption DEF Jobs
<1>3. Source(job.plan, job.period, t)' = Source(job.plan, job.period, t)
  BY SourceStands
<1>4. \A o \in Originals : mirror'[<<o, t>>] = mirror[<<o, t>>]
  BY <1>2 DEF Identities
<1>5. \A o \in Source(job.plan, job.period, t) : o \in Originals
  BY DEF Source, Selected, SelectedFrom, DealsOf
<1>6. \A o \in Live(job.period, t)' : o \in Originals
  BY DEF Live, Existing
<1>7. /\ \A o \in Source(job.plan, job.period, t) : Vouched(o, t)
      /\ \A o \in Live(job.period, t) \ Source(job.plan, job.period, t) : Denounced(o, t)
  BY DEF VouchInv, Vouching, VouchedTargets
<1>8. \A o \in Originals : /\ Vouched(o, t) => Vouched(o, t)'
                           /\ Denounced(o, t) => Denounced(o, t)'
                           /\ o \in Live(job.period, t)' <=> o \in Live(job.period, t)
  BY <1>2, <1>4, AwayStands DEF VouchInv
<1> QED
  BY <1>3, <1>5, <1>6, <1>7, <1>8

LEMMA ExpectationVouching ==
  ASSUME VouchInv, NEW o \in Originals, Expectation(o)
  PROVE  Vouching'
<1>1. /\ Taking("expected", o) /\ rows \subseteq rows' /\ Vouched(o, target)'
      /\ \A i \in Identities : i # <<o, target>> => mirror'[i] = mirror[i]
  BY ExpectationOutcome DEF VouchInv
<1>2. /\ UNCHANGED SourceVars /\ target \in Targets
      /\ UNCHANGED <<job, phase, waiting, target, expected, existing, csv, quiet, skipped>>
      /\ phase = "expected" /\ todo' = todo \ {o} /\ o \in todo
  BY <1>1, TakingFacts DEF VouchInv, Taking, historyVars
<1>3. VouchedTargets'
  BY <1>1, <1>2, OthersVouched
<1>4. VouchedTarget'
  <2> SUFFICES ASSUME Watched
               PROVE  /\ \A q \in expected \ todo' : Vouched(q, target)'
                      /\ Live(job.period, target)' \subseteq existing \cup expected
    BY <1>2 DEF VouchedTarget, Watched
  <2>1. /\ \A q \in expected \ todo : Vouched(q, target)
        /\ Live(job.period, target) \subseteq existing \cup expected
    BY <1>2 DEF VouchInv, Vouching, VouchedTarget
  <2>2. o \in expected /\ expected \subseteq Originals
    BY <1>2 DEF VouchInv, AlignInv, Aligning, Place, ReadInv, TypeInv, TypeOK
  <2>3. \A q \in Originals : q # o => mirror'[<<q, target>>] = mirror[<<q, target>>]
    BY <1>1, <1>2 DEF Identities
  <2>4. \A q \in Originals : q # o =>
          /\ Vouched(q, target) => Vouched(q, target)'
          /\ q \in Live(job.period, target)' <=> q \in Live(job.period, target)
    <3> SUFFICES ASSUME NEW q \in Originals, q # o
                 PROVE  /\ Vouched(q, target) => Vouched(q, target)'
                        /\ q \in Live(job.period, target)' <=> q \in Live(job.period, target)
      OBVIOUS
    <3>1. Vouched(q, target) => Vouched(q, target)'
      BY <1>1, <1>2, <2>3, RowsOnlyGrow DEF Vouched, Faithful, SourceVars, RowFor
    <3>2. q \in Live(job.period, target)' <=> q \in Live(job.period, target)
      BY <1>2, <2>3 DEF Live, Existing, HasRow
    <3> QED
      BY <3>1, <3>2
  <2>5. \A q \in Live(job.period, target)' : q \in Originals
    BY DEF Live, Existing
  <2> QED
    BY <1>1, <1>2, <2>1, <2>2, <2>4, <2>5
<1> QED
  BY <1>2, <1>3, <1>4, NothingToVerify DEF Vouching

LEMMA OrphanVouching ==
  ASSUME VouchInv, NEW o \in Originals, Orphan(o)
  PROVE  Vouching'
<1>1. /\ Taking("orphans", o) /\ rows \subseteq rows'
      /\ Denounced(o, target)' \/ mirror'[<<o, target>>].state # "enabled"
      /\ \A i \in Identities : i # <<o, target>> => mirror'[i] = mirror[i]
  BY OrphanOutcome DEF VouchInv
<1>2. /\ UNCHANGED SourceVars /\ target \in Targets
      /\ UNCHANGED <<job, phase, waiting, target, expected, existing, csv, quiet, skipped>>
      /\ phase = "orphans" /\ todo' = todo \ {o} /\ o \in todo
  BY <1>1, TakingFacts DEF VouchInv, Taking, historyVars
<1>3. VouchedTargets'
  BY <1>1, <1>2, OthersVouched
<1>4. VouchedTarget'
  <2> SUFFICES ASSUME Watched
               PROVE  /\ \A q \in expected : Vouched(q, target)'
                      /\ \A q \in Live(job.period, target)' \ expected :
                           q \in todo' \/ Denounced(q, target)'
    BY <1>2 DEF VouchedTarget, Watched
  <2>1. /\ \A q \in expected : Vouched(q, target)
        /\ \A q \in Live(job.period, target) \ expected : q \in todo \/ Denounced(q, target)
    BY <1>2 DEF VouchInv, Vouching, VouchedTarget
  <2>2. o \notin expected /\ expected \subseteq Originals
    BY <1>2 DEF VouchInv, AlignInv, Aligning, Place, ReadInv, TypeInv, TypeOK
  <2>3. \A q \in Originals : q # o => mirror'[<<q, target>>] = mirror[<<q, target>>]
    BY <1>1, <1>2 DEF Identities
  <2>4. \A q \in Originals : q # o =>
          /\ Vouched(q, target) => Vouched(q, target)'
          /\ Denounced(q, target) => Denounced(q, target)'
          /\ q \in Live(job.period, target)' <=> q \in Live(job.period, target)
    <3> SUFFICES ASSUME NEW q \in Originals, q # o
                 PROVE  /\ Vouched(q, target) => Vouched(q, target)'
                        /\ Denounced(q, target) => Denounced(q, target)'
                        /\ q \in Live(job.period, target)' <=> q \in Live(job.period, target)
      OBVIOUS
    <3>1. /\ Vouched(q, target) => Vouched(q, target)'
          /\ Denounced(q, target) => Denounced(q, target)'
      BY <1>1, <1>2, <2>3 DEF Vouched, Denounced, Faithful, SourceVars, RowFor
    <3>2. q \in Live(job.period, target)' <=> q \in Live(job.period, target)
      BY <1>2, <2>3 DEF Live, Existing, HasRow
    <3> QED
      BY <3>1, <3>2
  <2>5. \A q \in Live(job.period, target)' :
          q \in Originals /\ mirror'[<<q, target>>].state = "enabled"
    BY <1>2 DEF Live, Existing
  <2> QED
    BY <1>1, <1>2, <2>1, <2>2, <2>4, <2>5
<1> QED
  BY <1>2, <1>3, <1>4, NothingToVerify DEF Vouching

\* Between the loops nothing is written.
LEMMA BaseVouched ==
  ASSUME VouchInv, UNCHANGED SourceVars, UNCHANGED <<mirror, rows>>
  PROVE  \A t : /\ \A p, per : Source(p, per, t)' = Source(p, per, t)
                /\ \A per : Live(per, t)' = Live(per, t)
                /\ \A o : /\ Vouched(o, t)' <=> Vouched(o, t)
                          /\ Denounced(o, t)' <=> Denounced(o, t)
<1>1. \A p, per, t : /\ Source(p, per, t)' = Source(p, per, t)
                     /\ Live(per, t)' = Live(per, t)
  BY StillFrame DEF VouchInv
<1>2. \A o, t : /\ Vouched(o, t)' <=> Vouched(o, t)
                /\ Denounced(o, t)' <=> Denounced(o, t)
  BY DEF Vouched, Denounced, Faithful, RowFor, SourceVars
<1> QED
  BY <1>1, <1>2

LEMMA StartVouching ==
  ASSUME VouchInv, NEW p \in Plans, NEW per \in Periods, NEW dry \in BOOLEAN,
         StartPass(p, per, dry)
  PROVE  Vouching'
BY DEF StartPass, VouchInv, Vouching, AlignInv, Aligning, Place, VouchedTargets,
       VouchedTarget, CsvAtRest, VerifiedMeansInLine, VerificationPasses

LEMMA StepVouching ==
  ASSUME VouchInv,
         \/ \E t \in Targets : BeginTarget(t)
         \/ \E v \in Variables : ReadVariable(v)
         \/ ReadMirrors \/ BeginOrphans \/ EndTarget \/ EndTargets
  PROVE  Vouching'
<1>1. /\ UNCHANGED SourceVars /\ UNCHANGED <<mirror, rows, job, csv, quiet, skipped>>
      /\ phase # "idle" /\ phase' # "idle"
  BY DEF BeginTarget, ReadVariable, ReadMirrors, BeginOrphans, EndTarget, EndTargets,
     sourceVars, SourceVars, bookVars, historyVars
<1>2. Watched' <=> Watched
  BY <1>1 DEF Watched
<1>3. \A t : /\ Source(job.plan, job.period, t)' = Source(job.plan, job.period, t)
             /\ Live(job.period, t)' = Live(job.period, t)
             /\ \A o : /\ Vouched(o, t)' <=> Vouched(o, t)
                       /\ Denounced(o, t)' <=> Denounced(o, t)
  BY <1>1, BaseVouched
<1>4. ASSUME Participants[job.plan] \ (waiting' \cup {target'})
               \subseteq Participants[job.plan] \ (waiting \cup {target})
      PROVE  VouchedTargets'
  BY <1>1, <1>2, <1>3, <1>4 DEF VouchInv, Vouching, VouchedTargets
<1>5. CASE \E t \in Targets : BeginTarget(t)
  <2>1. target = NoTarget /\ phase' = "reading"
    BY <1>5 DEF VouchInv, AlignInv, Aligning, Place, BeginTarget
  <2>2. Participants[job.plan] \ (waiting' \cup {target'})
          \subseteq Participants[job.plan] \ (waiting \cup {target})
    <3>1. NoTarget \notin Participants[job.plan]
      BY <1>1, BaseAssumption, ReconciliationAssumption
         DEF VouchInv, AlignInv, ReadInv, TypeInv, Handling, Jobs
    <3> QED
      BY <1>5, <2>1, <3>1 DEF BeginTarget
  <2> QED
    BY <1>1, <1>4, <2>1, <2>2, NothingToVerify DEF Vouching, VouchedTarget
<1>6. CASE \E v \in Variables : ReadVariable(v)
  <2>1. UNCHANGED <<waiting, target>> /\ phase' = "reading"
    BY <1>6 DEF ReadVariable
  <2> QED
    BY <1>1, <1>4, <2>1, NothingToVerify DEF Vouching, VouchedTarget
<1>7. CASE ReadMirrors
  <2>1. UNCHANGED <<waiting, target, expected>> /\ phase' = "expected"
    BY <1>7 DEF ReadMirrors
  <2>2. expected \ todo' = {} /\ Live(job.period, target) \subseteq existing'
    BY <1>7 DEF ReadMirrors, Live
  <2>3. VouchedTarget'
    BY <1>1, <1>3, <2>1, <2>2 DEF VouchedTarget
  <2> QED
    BY <1>1, <1>4, <2>1, <2>3, NothingToVerify DEF Vouching
<1>8. CASE BeginOrphans
  <2>1. /\ UNCHANGED <<waiting, target, expected, existing>> /\ phase = "expected"
        /\ phase' = "orphans" /\ todo = {} /\ todo' = existing \ expected
    BY <1>8 DEF BeginOrphans
  <2>2. VouchedTarget'
    BY <1>1, <1>2, <1>3, <2>1 DEF VouchInv, Vouching, VouchedTarget
  <2> QED
    BY <1>1, <1>4, <2>1, <2>2, NothingToVerify DEF Vouching
<1>9. CASE EndTarget
  <2>1. /\ UNCHANGED waiting /\ phase = "orphans" /\ phase' = "next" /\ todo = {}
        /\ target' = NoTarget
    BY <1>9 DEF EndTarget
  <2>2. ASSUME Watched
        PROVE  /\ \A o \in Source(job.plan, job.period, target) : Vouched(o, target)
               /\ \A o \in Live(job.period, target)
                             \ Source(job.plan, job.period, target) : Denounced(o, target)
    BY <2>1, <2>2 DEF VouchInv, Vouching, VouchedTarget, AlignInv, Aligning, Place, Watched
  <2>3. VouchedTargets'
    BY <1>1, <1>2, <1>3, <2>1, <2>2 DEF VouchInv, Vouching, VouchedTargets
  <2> QED
    BY <1>1, <2>1, <2>3, NothingToVerify DEF Vouching, VouchedTarget
<1>10. CASE EndTargets
  <2>1. UNCHANGED <<waiting, target>> /\ phase' = "closing"
    BY <1>10 DEF EndTargets, loopVars
  <2> QED
    BY <1>1, <1>4, <2>1, NothingToVerify DEF Vouching, VouchedTarget
<1> QED
  BY <1>5, <1>6, <1>7, <1>8, <1>9, <1>10

\* A pass that ends, by its CSV or not, leaves nothing under way.
LEMMA ResetVouching ==
  ASSUME Reset
  PROVE  VouchedTargets' /\ VouchedTarget' /\ CsvAtRest'
BY DEF Reset, VouchedTargets, VouchedTarget, Watched, CsvAtRest

\* The rows of an apply that lost nothing leave the verification no way to
\* pass but over mirrors that are in line.
LEMMA PassingRows ==
  ASSUME VouchInv, phase = "closing", Watched,
         \A r \in rows : RowPasses(r) /\ r.action # "ORPHAN"
  PROVE  InLine(job.plan, job.period)
<1> SUFFICES ASSUME NEW t \in Participants[job.plan]
             PROVE  /\ Live(job.period, t) =
                         {o \in Source(job.plan, job.period, t) : <<o, t>> \notin TooLong}
                    /\ \A o \in Live(job.period, t) :
                         mirror[<<o, t>>].content = original[o].content
  BY DEF InLine
<1>1. job \in Jobs /\ t \in Targets
  BY BaseAssumption DEF VouchInv, AlignInv, ReadInv, TypeInv, Handling, Jobs
<1>2. t \in Participants[job.plan] \ (waiting \cup {target})
  BY <1>1, ReconciliationAssumption DEF VouchInv, AlignInv, Aligning, Place
<1>3. ASSUME NEW o \in Source(job.plan, job.period, t)
      PROVE  Faithful(o, t) /\ o \in Live(job.period, t)
  <2>1. Vouched(o, t)
    BY <1>2 DEF VouchInv, Vouching, VouchedTargets
  <2>2. Faithful(o, t)
    <3>1. SUFFICES ASSUME NEW r \in rows, r.deal = o, r.target = t, r.action \in Compared
                   PROVE  Faithful(o, t)
      BY <2>1 DEF Vouched, RowFor
    <3>2. RowPasses(r)
      OBVIOUS
    <3> QED
      BY <3>1, <3>2 DEF RowPasses, Compared, Faithful
  <2>3. o \in Originals /\ PeriodOf[original[o].content] = job.period
    BY SourceFacts DEF VouchInv, AlignInv, ReadInv, TypeInv
  <2> QED
    BY <2>2, <2>3 DEF Faithful, Live, Existing, HasRow
<1>4. ASSUME NEW o \in Live(job.period, t)
      PROVE  o \in Source(job.plan, job.period, t) /\ <<o, t>> \notin TooLong
  <2>1. mirror[<<o, t>>].state = "enabled"
    BY DEF Live
  <2>2. o \in Source(job.plan, job.period, t)
    <3>1. SUFFICES ASSUME Denounced(o, t)
                   PROVE  FALSE
      BY <1>2 DEF VouchInv, Vouching, VouchedTargets
    <3>2. PICK r \in rows : r.deal = o /\ r.target = t /\ r.action \in {"DISABLE", "ORPHAN"}
      BY <3>1 DEF Denounced, RowFor
    <3>3. RowPasses(r) /\ r.action = "DISABLE"
      BY <3>2
    <3> QED
      BY <2>1, <3>2, <3>3 DEF RowPasses
  <2>3. <<o, t>> \notin TooLong
    BY <2>1 DEF VouchInv, AlignInv, Aligning, LongAbsent
  <2> QED
    BY <2>2, <2>3
<1> QED
  BY <1>3, <1>4 DEF Faithful

LEMMA CloseVouching ==
  ASSUME VouchInv, Close
  PROVE  Vouching'
<1>1. VouchedTargets' /\ VouchedTarget' /\ CsvAtRest'
  BY ResetVouching DEF Close
<1>2. UNCHANGED SourceVars /\ UNCHANGED <<mirror, quiet>> /\ phase = "closing"
  BY DEF Close, sourceVars, SourceVars
<1>3. CASE csv' = csv
  BY <1>1, <1>2, <1>3, NothingToVerify DEF Vouching
<1>4. CASE ~job.dry /\ csv' = [round |-> Round, rows |-> rows, complete |-> ~skipped]
  <2>1. /\ csv'.round[1] = job.plan /\ csv'.round[2] = job.period
        /\ csv'.rows = rows /\ csv'.complete = ~skipped
    BY <1>4 DEF Round
  <2>2. \A r : RowPasses(r)' <=> RowPasses(r)
    BY <1>2 DEF RowPasses, SourceVars
  <2>3. InLine(job.plan, job.period) => InLine(csv.round[1], csv.round[2])'
    <3>1. \A p, per, t : /\ Source(p, per, t)' = Source(p, per, t)
                         /\ Live(per, t)' = Live(per, t)
      BY <1>2, StillFrame DEF VouchInv
    <3> QED
      BY <1>2, <2>1, <3>1 DEF InLine, SourceVars
  <2>4. skipped \in BOOLEAN
    BY DEF VouchInv, AlignInv, ReadInv, TypeInv, TypeOK
  <2>5. VerifiedMeansInLine'
    <3> SUFFICES ASSUME quiet, csv'.complete,
                        \A r \in rows : RowPasses(r) /\ r.action # "ORPHAN"
                 PROVE  InLine(job.plan, job.period)
      BY <1>2, <2>1, <2>2, <2>3 DEF VerifiedMeansInLine, VerificationPasses
    <3>1. Watched
      BY <1>2, <1>4, <2>1, <2>4 DEF Watched
    <3> QED
      BY <1>2, <3>1, PassingRows
  <2> QED
    BY <1>1, <2>5 DEF Vouching
<1> QED
  BY <1>3, <1>4 DEF Close

LEMMA VouchInductive ==
  ASSUME VouchInv, [Next]_vars
  PROVE  Vouching'
<1>1. ASSUME NEW o \in Originals, Expectation(o) \/ Orphan(o)
      PROVE  Vouching'
  BY <1>1, ExpectationVouching, OrphanVouching
<1>2. CASE SkipTarget
  <2>1. phase # "idle" /\ csv' = csv /\ ~Watched'
    BY <1>2 DEF SkipTarget, Watched
  <2> QED
    BY <2>1, NothingToVerify DEF Vouching, VouchedTargets, VouchedTarget
<1>3. CASE LoseConsole
  <2>1. phase # "idle" /\ csv' = csv /\ Reset
    BY <1>3 DEF LoseConsole
  <2> QED
    BY <2>1, ResetVouching, NothingToVerify DEF Vouching
<1>4. CASE Moves
  BY <1>4 DEF Moves, passVars, VouchInv, Vouching, VouchedTargets, VouchedTarget, Watched,
     CsvAtRest, VerifiedMeansInLine
<1>5. CASE UNCHANGED vars
  <2>1. /\ UNCHANGED SourceVars
        /\ UNCHANGED <<mirror, rows, job, phase, waiting, target, expected, existing, todo,
                       csv, quiet, skipped>>
    BY <1>5 DEF vars, sourceVars, SourceVars, passVars, loopVars, bookVars, historyVars
  <2>2. \A t : /\ \A p, per : Source(p, per, t)' = Source(p, per, t)
               /\ \A per : Live(per, t)' = Live(per, t)
               /\ \A o : /\ Vouched(o, t)' <=> Vouched(o, t)
                         /\ Denounced(o, t)' <=> Denounced(o, t)
    BY <2>1, BaseVouched
  <2>3. VouchedTargets' /\ VouchedTarget' /\ CsvAtRest'
    BY <2>1, <2>2 DEF VouchInv, Vouching, VouchedTargets, VouchedTarget, Watched, CsvAtRest
  <2>4. VerifiedMeansInLine'
    <3>1. \A r : RowPasses(r)' <=> RowPasses(r)
      BY <2>1 DEF RowPasses, SourceVars
    <3>2. \A p, per : InLine(p, per)' <=> InLine(p, per)
      BY <2>1, <2>2 DEF InLine, SourceVars
    <3> QED
      BY <2>1, <3>1, <3>2 DEF VouchInv, Vouching, VerifiedMeansInLine, VerificationPasses
  <2> QED
    BY <2>3, <2>4 DEF Vouching
<1> QED
  BY <1>1, <1>2, <1>3, <1>4, <1>5, StartVouching, StepVouching, CloseVouching
     DEF Next, Step

\* In every company, when the verification pasted right after an apply over a
\* base that stood still prints no failure, no target was lost and no orphan
\* raised, the mirrors of the plan are exactly the copies of its source.
THEOREM VerifiedIsInLine == Spec => []VerifiedMeansInLine
<1>1. Init => Vouching
  BY DEF Init, Vouching, VouchedTargets, VouchedTarget, Watched, CsvAtRest,
     VerifiedMeansInLine, VerificationPasses
<1>2. VouchInv /\ [Next]_vars => Vouching'
  BY VouchInductive
<1>3. /\ VouchInv <=> AlignInv /\ Vouching
      /\ Vouching => VerifiedMeansInLine
  BY DEF VouchInv, Vouching
<1> QED
  BY <1>1, <1>2, <1>3, AlignInvariant, PTL DEF Spec

-----------------------------------------------------------------------------
(* What a plan brought in line is worth to the calculation.                *)

LEMMA AlignedRound ==
  ASSUME AlignInv, NEW r \in Rounds, streak[r] = 2, NEW t \in Participants[r[1]]
  PROVE  /\ Live(r[2], t) =
              {o \in Source(r[1], r[2], t) : <<o, t>> \notin TooLong}
         /\ \A o \in Live(r[2], t) : mirror[<<o, t>>].content = original[o].content
         /\ r[1] \in Plans /\ t \in Targets /\ PlanVariables[r[1]] \subseteq Variables
         /\ subtree \in Hierarchies /\ indicators \subseteq CarrierRows
BY BaseAssumption DEF AlignInv, Aligning, Streaks, SetInLine, CopiesInLine, Rounds,
   ReadInv, TypeInv, TypeOK, BaseTypeOK

\* A live mirror of a plan in line was selected by the one variable whose
\* metric takes its content.
LEMMA SelectedByItsVariable ==
  ASSUME MetricsApart, AlignInv, NEW r \in Rounds, streak[r] = 2,
         NEW t \in Participants[r[1]], NEW v \in PlanVariables[r[1]],
         NEW o \in Live(r[2], t), original[o].content \in Selects[v]
  PROVE  o \in Selected(r[1], r[2], t, v)
<1>1. PICK w \in PlanVariables[r[1]] : o \in Selected(r[1], r[2], t, w)
  <2>1. o \in Source(r[1], r[2], t)
    BY AlignedRound
  <2> QED
    BY <2>1 DEF Source
<1>2. original[o].content \in Selects[w]
  BY <1>1 DEF Selected, SelectedFrom, DealsOf
<1>3. r[1] \in Plans
  BY AlignedRound
<1> QED
  BY <1>1, <1>2, <1>3 DEF MetricsApart

\* In every company whose metrics are apart, what a PAP-restricted variable
\* counts on a target of a plan in line was sold under a PAP leader below it.
THEOREM PapCutIsKept ==
  ASSUME MetricsApart
  PROVE  Spec => []PapCutHolds
<1>1. AlignInv => PapCutHolds
  <2> SUFFICES ASSUME AlignInv, NEW r \in Rounds, streak[r] = 2,
                      NEW t \in Participants[r[1]], NEW v \in PlanVariables[r[1]],
                      <<r[1], v>> \in PapVariables, NEW o \in Live(r[2], t),
                      mirror[<<o, t>>].content \in Selects[v]
               PROVE  \E l \in PapLeaders : l \in Below(t) /\ SellerOf[o] \in subtree[l]
    BY DEF PapCutHolds
  <2>1. original[o].content \in Selects[v]
    BY AlignedRound
  <2>2. o \in Selected(r[1], r[2], t, v)
    BY <2>1, SelectedByItsVariable
  <2>3. SellerOf[o] \in PapPopulation(t)
    BY <2>2 DEF Selected, SelectedFrom, DealsOf, VariableUsers
  <2> QED
    BY <2>3 DEF PapPopulation
<1> QED
  BY <1>1, AlignInvariant, PTL

\* In every company whose metrics are apart, and where nobody below a
\* participant of an override plan both holds mirrors and carries a row, each
\* sale of the subtree reaches the target of a plan in line exactly once.
THEOREM SaleIsCountedOnce ==
  ASSUME MetricsApart, NoCarrierHoldsMirrors
  PROVE  Spec => []CountedOnce
<1>1. AlignInv => CountedOnce
  <2> SUFFICES ASSUME AlignInv, NEW r \in Rounds, streak[r] = 2,
                      NEW t \in Participants[r[1]], NEW v \in PlanVariables[r[1]],
                      <<r[1], v>> \notin PapVariables,
                      NEW o \in DealsOf(Below(t), r[2], v), <<o, t>> \notin TooLong
               PROVE  Cardinality(Ways(r[1], r[2], t, v, o)) = 1
    BY DEF CountedOnce
  <2> DEFINE seller == SellerOf[o]
             carried == r[1] \in Override /\ <<v, seller, r[2]>> \in indicators
  <2>1. /\ o \in Originals /\ seller \in Below(t)
        /\ original[o].content \in Selects[v]
    BY DEF DealsOf
  <2>2. o \in Selected(r[1], r[2], t, v) <=> ~carried
    BY BaseAssumption DEF Selected, SelectedFrom, VariableUsers, Carriers, DealsOf
  <2>3. o \in Live(r[2], t) <=> ~carried
    <3>1. ~carried => o \in Live(r[2], t)
      BY <2>2, AlignedRound DEF Source
    <3>2. o \in Live(r[2], t) => ~carried
      BY <2>1, <2>2, SelectedByItsVariable
    <3> QED
      BY <3>1, <3>2
  <2>4. ASSUME NEW u \in Below(t), r[1] \in Override, <<v, u, r[2]>> \in indicators
        PROVE  u \notin Targets
    <3> DEFINE row == <<v, u, r[2]>>
    <3>1. row \in CarrierRows /\ row[2] = u
      BY <2>4, AlignedRound
    <3>2. u \in subtree[t] \ {t}
      BY DEF Below
    <3> QED
      BY <2>4, <3>1, <3>2, AlignedRound DEF NoCarrierHoldsMirrors
  <2>5. Ways(r[1], r[2], t, v, o) = IF carried THEN {seller} ELSE {t}
    BY <2>1, <2>3, <2>4 DEF Ways
  <2> QED
    BY <2>5, FS_Singleton
<1> QED
  BY <1>1, AlignInvariant, PTL
-----------------------------------------------------------------------------
(* The report of a dry run, and the apply that follows it.                 *)

\* What a pass of plan p and competence per does with o on t, as the base is.
Due(p, per, t, o, action) ==
  \/ action = "CREATE" /\ o \in Source(p, per, t) \ Existing(per, t)
  \/ /\ action = "ENABLE" /\ o \in Source(p, per, t) \cap Existing(per, t)
     /\ mirror[<<o, t>>].state = "disabled"
  \/ /\ action = "UPDATE" /\ o \in Source(p, per, t) \cap Existing(per, t)
     /\ mirror[<<o, t>>].state = "enabled"
     /\ mirror[<<o, t>>].content # original[o].content
  \/ /\ action = "DISABLE" /\ o \in Existing(per, t) \ Source(p, per, t)
     /\ mirror[<<o, t>>].state = "enabled"

Reported(r, t, o, action) ==
  [action |-> action, deal |-> o, target |-> t] \in report[r]

Logged(t, o, action) ==
  \E row \in rows : row.action = action /\ row.deal = o /\ row.target = t

\* A pass that may still end with a delta worth comparing.
Reporting == phase # "idle" /\ quiet /\ ~skipped /\ NoError

\* What the pass is to have logged in the end.
Intended(t, o, action) ==
  IF job.dry THEN Due(job.plan, job.period, t, o, action) ELSE Reported(Round, t, o, action)

\* The pass has not decided on o for t.
Undecided(t, o) ==
  \/ t \in waiting
  \/ /\ t = target
     /\ \/ phase = "reading"
        \/ phase = "expected" /\ (o \in todo \/ o \notin expected)
        \/ phase = "orphans" /\ o \in todo

\* A report that no move made old says what an apply would do now, unless the
\* apply is under way.
FreshReports ==
  /\ ~quiet => fresh = {}
  /\ \A r \in fresh :
       /\ report[r] \subseteq {d \in Deltas : d.target \in Participants[r[1]]}
       /\ phase = "idle" \/ job.dry \/ Round # r =>
            \A t \in Participants[r[1]], o \in Originals, action \in RowActions :
              Reported(r, t, o, action) <=> Due(r[1], r[2], t, o, action)

\* What was decided was logged as intended, and what was not is still due as
\* intended: no write has changed it.
Decisions ==
  Reporting /\ (job.dry \/ Round \in fresh) =>
    \A t \in Participants[job.plan], o \in Originals, action \in RowActions :
      IF Undecided(t, o)
        THEN /\ ~Logged(t, o, action)
             /\ Intended(t, o, action) <=> Due(job.plan, job.period, t, o, action)
        ELSE Logged(t, o, action) <=> Intended(t, o, action)

\* Rows are of the pass, and the query for mirrors missed none that the loop
\* has not reached.
InView ==
  /\ phase = "idle" => rows = {}
  /\ phase # "idle" => \A row \in rows : row.target \in Participants[job.plan]
  /\ phase \in {"reading", "expected", "orphans"} => target \notin waiting
  /\ phase = "expected" /\ quiet =>
       \A o \in Existing(job.period, target) : o \in existing \/ o \in expected \ todo

Reports == FreshReports /\ Decisions /\ InView

ReportInv == AlignInv /\ Reports

LEMMA LogAdds ==
  ASSUME NEW action, NEW o, NEW outcome, Log(action, o, outcome)
  PROVE  /\ rows \subseteq rows'
         /\ \A row \in rows' : row \in rows \/ row.target = target
         /\ \A t, q, a : Logged(t, q, a)' <=>
              Logged(t, q, a) \/ (t = target /\ q = o /\ a = action)
<1> DEFINE new == [action |-> action, deal |-> o, target |-> target,
                   outcome |-> outcome]
<1>1. /\ rows' = rows \cup {new} /\ new.action = action /\ new.deal = o
      /\ new.target = target
  BY DEF Log
<1> HIDE DEF new
<1> QED
  BY <1>1 DEF Logged

\* What a record leaves behind: it is logged as it was due, and nothing else
\* is logged or written.
Decided(o) ==
  /\ rows \subseteq rows'
  /\ \A row \in rows' : row \in rows \/ row.target = target
  /\ \A t \in Targets, q \in Originals, a \in RowActions :
       Logged(t, q, a)' <=>
         Logged(t, q, a) \/ (t = target /\ q = o /\ Due(job.plan, job.period, target, o, a))
  /\ \A i \in Identities : i # <<o, target>> => mirror'[i] = mirror[i]
  /\ job.dry => mirror' = mirror

LEMMA LoggedOnce ==
  ASSUME NEW o \in Originals, NEW action, NEW outcome, Log(action, o, outcome),
         \A a \in RowActions : Due(job.plan, job.period, target, o, a) <=> a = action,
         \A i \in Identities : i # <<o, target>> => mirror'[i] = mirror[i],
         job.dry => mirror' = mirror
  PROVE  Decided(o)
BY LogAdds DEF Decided

LEMMA WriteDecided ==
  ASSUME AlignInv, NEW o \in Originals, NEW action, NEW onError, NEW x,
         Write(action, onError, o, x), NoError',
         \A a \in RowActions : Due(job.plan, job.period, target, o, a) <=> a = action,
         \A i \in Identities : i # <<o, target>> => x[i] = mirror[i]
  PROVE  Decided(o)
<1>1. CASE ~job.dry /\ Log(action, o, "DONE") /\ mirror' = x
  BY <1>1, LoggedOnce
<1>2. CASE ~job.dry /\ Log(action, o, "FAILED") /\ mirror' = mirror
  BY <1>2, LoggedOnce
<1>3. CASE Log(onError, o, "ERROR")
  BY <1>3, LogGrows
<1>4. CASE job.dry /\ Log(action, o, "PLANNED") /\ mirror' = mirror
  BY <1>4, LoggedOnce
<1> QED
  BY <1>1, <1>2, <1>3, <1>4 DEF Write

\* The first loop decides on a deal of the source as the base stands.
LEMMA ExpectationDecided ==
  ASSUME ReportInv, quiet, NEW o \in Originals, Expectation(o), NoError'
  PROVE  Taking("expected", o) /\ Decided(o)
<1>1. Taking("expected", o)
  BY DEF Expectation, LookupFails, RefuseLong, Create, CreateCollides, Enable, Keep, Update
<1>2. /\ Id(o) = <<o, target>> /\ mirror \in [Identities -> MirrorState]
      /\ Id(o) \in Identities
  BY <1>1, TakingFacts DEF ReportInv, AlignInv, ReadInv, TypeInv, TypeOK, BaseTypeOK
<1>3. o \in Source(job.plan, job.period, target)
  BY <1>1 DEF ReportInv, AlignInv, Aligning, Place, Taking
<1>4. o \in existing <=> o \in Existing(job.period, target)
  BY <1>1 DEF ReportInv, Reports, InView, AlignInv, Aligning, Place, Taking
<1>5. ASSUME o \notin existing
      PROVE  \A a : Due(job.plan, job.period, target, o, a) <=> a = "CREATE"
  BY <1>3, <1>4, <1>5 DEF Due
<1>6. ASSUME o \in existing
      PROVE  \A a : Due(job.plan, job.period, target, o, a) <=>
               \/ a = "ENABLE" /\ mirror[Id(o)].state = "disabled"
               \/ /\ a = "UPDATE" /\ mirror[Id(o)].state = "enabled"
                  /\ mirror[Id(o)].content # original[o].content
  BY <1>2, <1>3, <1>4, <1>6 DEF Due
<1>7. CASE LookupFails("expected", "EXPECTED", o)
  BY <1>7, LogGrows DEF LookupFails
<1>8. CASE RefuseLong(o) \/ CreateCollides(o)
  <2>1. o \notin existing /\ mirror' = mirror /\ \E outcome : Log("CREATE", o, outcome)
    BY <1>8 DEF RefuseLong, CreateCollides
  <2> QED
    BY <1>1, <1>5, <2>1, LoggedOnce
<1>9. CASE Create(o)
  <2> DEFINE x == [mirror EXCEPT ![Id(o)] = Copied(o)]
  <2>1. o \notin existing /\ Write("CREATE", "EXPECTED", o, x)
    BY <1>9 DEF Create
  <2>2. \A i \in Identities : i # <<o, target>> => x[i] = mirror[i]
    BY <1>2
  <2> HIDE DEF x
  <2> QED
    BY <1>1, <1>5, <2>1, <2>2, WriteDecided DEF ReportInv
<1>10. CASE Enable(o)
  <2> DEFINE x == [mirror EXCEPT ![Id(o)].state = "enabled"]
  <2>1. /\ o \in existing /\ mirror[Id(o)].state = "disabled"
        /\ Write("ENABLE", "EXPECTED", o, x)
    BY <1>10 DEF Enable
  <2>2. \A i \in Identities : i # <<o, target>> => x[i] = mirror[i]
    BY <1>2
  <2> HIDE DEF x
  <2>3. \A a : Due(job.plan, job.period, target, o, a) <=> a = "ENABLE"
    BY <1>6, <2>1
  <2> QED
    BY <1>1, <2>1, <2>2, <2>3, WriteDecided DEF ReportInv
<1>11. CASE Keep(o)
  <2>1. /\ mirror' = mirror /\ rows' = rows
        /\ \A a : ~Due(job.plan, job.period, target, o, a)
    BY <1>6, <1>11 DEF Keep
  <2> QED
    BY <1>1, <2>1 DEF Decided, Logged
<1>12. CASE Update(o)
  <2> DEFINE x == [mirror EXCEPT ![Id(o)].content = original[o].content]
  <2>1. /\ o \in existing /\ mirror[Id(o)].state = "enabled"
        /\ mirror[Id(o)].content # original[o].content
        /\ Write("UPDATE", "EXPECTED", o, x)
    BY <1>12 DEF Update
  <2>2. \A i \in Identities : i # <<o, target>> => x[i] = mirror[i]
    BY <1>2
  <2> HIDE DEF x
  <2>3. \A a : Due(job.plan, job.period, target, o, a) <=> a = "UPDATE"
    BY <1>6, <2>1
  <2> QED
    BY <1>1, <2>1, <2>2, <2>3, WriteDecided DEF ReportInv
<1> QED
  BY <1>7, <1>8, <1>9, <1>10, <1>11, <1>12 DEF Expectation

\* The second loop decides on a mirror outside the source.
LEMMA OrphanDecided ==
  ASSUME ReportInv, quiet, NEW o \in Originals, Orphan(o), NoError'
  PROVE  Taking("orphans", o) /\ Decided(o)
<1>1. Taking("orphans", o)
  BY DEF Orphan, LookupFails, LeaveDisabled, Disable
<1>2. /\ Id(o) = <<o, target>> /\ mirror \in [Identities -> MirrorState]
      /\ Id(o) \in Identities
  BY <1>1, TakingFacts DEF ReportInv, AlignInv, ReadInv, TypeInv, TypeOK, BaseTypeOK
<1>3. o \in Existing(job.period, target) \ Source(job.plan, job.period, target)
  BY <1>1 DEF ReportInv, AlignInv, Aligning, Place, Taking
<1>4. \A a : Due(job.plan, job.period, target, o, a) <=>
               a = "DISABLE" /\ mirror[Id(o)].state = "enabled"
  BY <1>2, <1>3 DEF Due
<1>5. CASE LookupFails("orphans", "ORPHAN", o)
  BY <1>5, LogGrows DEF LookupFails
<1>6. CASE LeaveDisabled(o)
  <2>1. /\ mirror' = mirror /\ rows' = rows
        /\ \A a : ~Due(job.plan, job.period, target, o, a)
    BY <1>4, <1>6 DEF LeaveDisabled
  <2> QED
    BY <1>1, <2>1 DEF Decided, Logged
<1>7. CASE Disable(o)
  <2> DEFINE x == [mirror EXCEPT ![Id(o)].state = "disabled"]
  <2>1. mirror[Id(o)].state = "enabled" /\ Write("DISABLE", "ORPHAN", o, x)
    BY <1>7 DEF Disable
  <2>2. \A i \in Identities : i # <<o, target>> => x[i] = mirror[i]
    BY <1>2
  <2> HIDE DEF x
  <2>3. \A a : Due(job.plan, job.period, target, o, a) <=> a = "DISABLE"
    BY <1>4, <2>1
  <2> QED
    BY <1>1, <2>1, <2>2, <2>3, WriteDecided DEF ReportInv
<1> QED
  BY <1>5, <1>6, <1>7 DEF Orphan

\* What is due on an identity that is not written stays due.
LEMMA DueStands ==
  ASSUME UNCHANGED SourceVars, NEW t, NEW o, mirror'[<<o, t>>] = mirror[<<o, t>>]
  PROVE  \A p, per, a : /\ Due(p, per, t, o, a)' <=> Due(p, per, t, o, a)
                        /\ o \in Existing(per, t)' <=> o \in Existing(per, t)
<1>1. \A p, per : Source(p, per, t)' = Source(p, per, t)
  BY SourceStands
<1>2. \A per : o \in Existing(per, t)' <=> o \in Existing(per, t)
  BY DEF Existing, HasRow
<1>3. original'[o] = original[o]
  BY DEF SourceVars
<1> QED
  BY <1>1, <1>2, <1>3 DEF Due

\* The row a record may be written in is, before and after, one of the
\* competence of the pass or none.
OfThePass(o) ==
  \/ mirror[<<o, target>>].state = "absent"
  \/ PeriodOf[mirror[<<o, target>>].content] = job.period

LEMMA ExpectationOfThePass ==
  ASSUME AlignInv, quiet, NEW o \in Originals, Expectation(o), mirror' # mirror
  PROVE  OfThePass(o) /\ OfThePass(o)' /\ PeriodOf[original[o].content] = job.period
<1>1. Taking("expected", o)
  BY DEF Expectation, LookupFails, RefuseLong, Create, CreateCollides, Enable, Keep, Update
<1>2. /\ Id(o) = <<o, target>> /\ mirror \in [Identities -> MirrorState]
      /\ Id(o) \in Identities /\ mirror[Id(o)] \in MirrorState
      /\ target' = target /\ job' = job
  BY <1>1, TakingFacts DEF AlignInv, ReadInv, TypeInv, TypeOK, BaseTypeOK, Taking
<1>3. /\ o \in Source(job.plan, job.period, target)
      /\ existing \subseteq Existing(job.period, target)
  BY <1>1 DEF AlignInv, Aligning, Place, Taking
<1>4. PeriodOf[original[o].content] = job.period
  BY <1>3, SourceFacts DEF AlignInv, ReadInv, TypeInv
<1>5. CASE Create(o)
  <2>1. ~HasRow(o, target) /\ mirror' = [mirror EXCEPT ![Id(o)] = Copied(o)]
    BY <1>5 DEF Create, Write
  <2>2. mirror'[Id(o)].content = original[o].content
    BY <1>2, <2>1 DEF Copied
  <2> QED
    BY <1>2, <1>4, <2>1, <2>2 DEF OfThePass, HasRow
<1>6. ASSUME o \in existing
      PROVE  PeriodOf[mirror[Id(o)].content] = job.period
  BY <1>2, <1>3, <1>6 DEF Existing
<1>7. CASE Enable(o)
  <2>1. o \in existing /\ mirror' = [mirror EXCEPT ![Id(o)].state = "enabled"]
    BY <1>7 DEF Enable, Write
  <2>2. mirror'[Id(o)].content = mirror[Id(o)].content
    BY <1>2, <2>1 DEF MirrorState
  <2> QED
    BY <1>2, <1>4, <1>6, <2>1, <2>2 DEF OfThePass
<1>8. CASE Update(o)
  <2>1. o \in existing /\ mirror' = [mirror EXCEPT ![Id(o)].content = original[o].content]
    BY <1>8 DEF Update, Write
  <2>2. mirror'[Id(o)].content = original[o].content
    BY <1>2, <2>1 DEF MirrorState
  <2> QED
    BY <1>2, <1>4, <1>6, <2>1, <2>2 DEF OfThePass
<1> QED
  BY <1>5, <1>7, <1>8 DEF Expectation, LookupFails, RefuseLong, CreateCollides, Keep

LEMMA OrphanOfThePass ==
  ASSUME AlignInv, quiet, NEW o \in Originals, Orphan(o), mirror' # mirror
  PROVE  OfThePass(o) /\ OfThePass(o)' /\ mirror'[<<o, target>>].state = "disabled"
<1>1. Taking("orphans", o) /\ Disable(o)
  BY DEF Orphan, LookupFails, LeaveDisabled, Disable
<1>2. /\ Id(o) = <<o, target>> /\ mirror \in [Identities -> MirrorState]
      /\ Id(o) \in Identities /\ mirror[Id(o)] \in MirrorState
      /\ target' = target /\ job' = job
  BY <1>1, TakingFacts DEF AlignInv, ReadInv, TypeInv, TypeOK, BaseTypeOK, Taking
<1>3. o \in Existing(job.period, target)
  BY <1>1 DEF AlignInv, Aligning, Place, Taking
<1>4. PeriodOf[mirror[Id(o)].content] = job.period
  BY <1>2, <1>3 DEF Existing
<1>5. mirror' = [mirror EXCEPT ![Id(o)].state = "disabled"]
  BY <1>1 DEF Disable, Write
<1>6. mirror'[Id(o)].content = mirror[Id(o)].content /\ mirror'[Id(o)].state = "disabled"
  BY <1>2, <1>5 DEF MirrorState
<1> QED
  BY <1>2, <1>4, <1>6 DEF OfThePass

\* What another competence has due on the target is not touched: before and
\* after, such a row is none of its mirrors, and for the deals of the source
\* of the pass none of its sales either.
LEMMA OtherCompetence ==
  ASSUME AlignInv, UNCHANGED SourceVars, UNCHANGED <<job, target>>, NEW o \in Originals,
         OfThePass(o), OfThePass(o)', NEW p, NEW per, per # job.period,
         NEW a
  PROVE  Due(p, per, target, o, a)' <=> Due(p, per, target, o, a)
<1>1. o \notin Existing(per, target) /\ o \notin Existing(per, target)'
  BY DEF OfThePass, Existing, HasRow
<1>2. Source(p, per, target)' = Source(p, per, target)
  BY SourceStands
<1> QED
  BY <1>1, <1>2 DEF Due

\* A record of an apply leaves the reports of the other rounds as they were.
LEMMA ReportsStand ==
  ASSUME ReportInv, NEW o \in Originals, NEW loop \in {"expected", "orphans"},
         Taking(loop, o),
         \A i \in Identities : i # <<o, target>> => mirror'[i] = mirror[i],
         job.dry => mirror' = mirror,
         quiet /\ mirror' # mirror => OfThePass(o) /\ OfThePass(o)'
  PROVE  FreshReports'
<1>1. /\ job \in Jobs /\ Round = <<job.plan, job.period>> /\ target \in Participants[job.plan]
      /\ target \in Targets /\ UNCHANGED SourceVars /\ Round' = Round /\ quiet \in BOOLEAN
      /\ phase # "idle"
  BY TakingFacts DEF ReportInv
<1>2. UNCHANGED <<job, phase, target, report, quiet, fresh>>
  BY DEF Taking, historyVars
<1>3. fresh \subseteq Rounds
  BY DEF ReportInv, AlignInv, ReadInv, TypeInv, TypeOK
<1>4. SUFFICES ASSUME NEW r \in fresh, job.dry \/ Round # r,
                      NEW t \in Participants[r[1]], NEW q \in Originals, NEW a \in RowActions
               PROVE  Due(r[1], r[2], t, q, a)' <=> Due(r[1], r[2], t, q, a)
  BY <1>1, <1>2 DEF ReportInv, Reports, FreshReports, Reported
<1>5. r[1] \in Plans /\ r = <<r[1], r[2]>> /\ t \in Targets
  BY <1>3, BaseAssumption DEF Rounds
<1>6. CASE mirror'[<<q, t>>] = mirror[<<q, t>>]
  BY <1>1, <1>6, DueStands
<1>7. CASE mirror'[<<q, t>>] # mirror[<<q, t>>]
  <2>1. q = o /\ t = target /\ ~job.dry
    BY <1>5, <1>7 DEF Identities
  <2>2. r[1] = job.plan
    BY <1>1, <1>5, <2>1, ParticipantsDisjoint DEF Jobs
  <2>3. r[2] # job.period
    BY <1>1, <1>4, <1>5, <2>1, <2>2
  <2>4. quiet
    BY <1>1 DEF ReportInv, Reports, FreshReports
  <2> QED
    BY <1>1, <1>2, <1>7, <2>1, <2>3, <2>4, OtherCompetence DEF ReportInv
<1> QED
  BY <1>6, <1>7

\* A record ends decided and logged; the others are as they were.
LEMMA RecordDecisions ==
  ASSUME ReportInv, NEW o \in Originals, NEW loop \in {"expected", "orphans"},
         Taking(loop, o), NoError' => Decided(o), rows \subseteq rows',
         loop = "expected" => o \in expected, loop = "orphans" => o \notin expected
  PROVE  Decisions'
<1>1. /\ job \in Jobs /\ Round = <<job.plan, job.period>> /\ target \in Participants[job.plan]
      /\ target \in Targets /\ UNCHANGED SourceVars /\ Round' = Round /\ phase = loop
  BY TakingFacts DEF ReportInv
<1>2. /\ UNCHANGED <<job, phase, waiting, target, expected, report, quiet, fresh, skipped>>
      /\ o \in todo /\ todo' = todo \ {o}
  BY DEF Taking, historyVars
<1>3. SUFFICES ASSUME Reporting', job.dry \/ Round \in fresh
               PROVE  \A t \in Participants[job.plan], q \in Originals, a \in RowActions :
                        IF Undecided(t, q)'
                          THEN /\ ~Logged(t, q, a)'
                               /\ Intended(t, q, a)' <=> Due(job.plan, job.period, t, q, a)'
                          ELSE Logged(t, q, a)' <=> Intended(t, q, a)'
  BY <1>1, <1>2 DEF Decisions
<1>4. NoError' /\ NoError /\ Reporting
  BY <1>2, <1>3 DEF Reporting, NoError
<1>5. Decided(o)
  BY <1>4
<1> SUFFICES ASSUME NEW t \in Participants[job.plan], NEW q \in Originals, NEW a \in RowActions
             PROVE  IF Undecided(t, q)'
                      THEN /\ ~Logged(t, q, a)'
                           /\ Intended(t, q, a)' <=> Due(job.plan, job.period, t, q, a)'
                      ELSE Logged(t, q, a)' <=> Intended(t, q, a)'
  OBVIOUS
<1>6. t \in Targets
  BY <1>1, BaseAssumption DEF Jobs
<1>7. IF Undecided(t, q)
        THEN /\ ~Logged(t, q, a)
             /\ Intended(t, q, a) <=> Due(job.plan, job.period, t, q, a)
        ELSE Logged(t, q, a) <=> Intended(t, q, a)
  BY <1>3, <1>4 DEF ReportInv, Reports, Decisions
<1>8. target \notin waiting
  BY <1>1 DEF ReportInv, Reports, InView
<1>9. Reported(Round, t, q, a)' <=> Reported(Round, t, q, a)
  BY <1>1, <1>2 DEF Reported
<1>10. CASE t = target /\ q = o
  <2>1. Undecided(t, q) /\ ~Undecided(t, q)'
    BY <1>1, <1>2, <1>8, <1>10 DEF Undecided
  <2>2. Logged(t, q, a)' <=> Due(job.plan, job.period, t, q, a)
    BY <1>5, <1>6, <1>7, <1>10, <2>1 DEF Decided
  <2>3. Intended(t, q, a)' <=> Intended(t, q, a)
    <3>1. CASE job.dry
      <4>1. mirror'[<<q, t>>] = mirror[<<q, t>>]
        BY <1>5, <3>1 DEF Decided
      <4>2. Due(job.plan, job.period, t, q, a)' <=> Due(job.plan, job.period, t, q, a)
        BY <1>1, <1>2, <4>1, DueStands
      <4> QED
        BY <1>2, <3>1, <4>2 DEF Intended
    <3>2. CASE ~job.dry
      BY <1>2, <1>9, <3>2 DEF Intended
    <3> QED
      BY <3>1, <3>2
  <2> QED
    BY <1>7, <2>1, <2>2, <2>3
<1>11. CASE ~(t = target /\ q = o)
  <2>1. mirror'[<<q, t>>] = mirror[<<q, t>>]
    <3>1. <<q, t>> \in Identities /\ <<q, t>> # <<o, target>>
      BY <1>6, <1>11 DEF Identities
    <3> QED
      BY <1>5, <3>1 DEF Decided
  <2>2. Due(job.plan, job.period, t, q, a)' <=> Due(job.plan, job.period, t, q, a)
    BY <1>1, <1>2, <2>1, DueStands
  <2>3. Logged(t, q, a)' <=> Logged(t, q, a)
    BY <1>5, <1>6, <1>11 DEF Decided
  <2>4. Undecided(t, q)' <=> Undecided(t, q)
    BY <1>2, <1>11 DEF Undecided
  <2>5. Intended(t, q, a)' <=> Intended(t, q, a)
    BY <1>2, <1>9, <2>2 DEF Intended
  <2> QED
    BY <1>7, <2>2, <2>3, <2>4, <2>5
<1> QED
  BY <1>10, <1>11

\* The query for mirrors misses none of those still to be handled.
LEMMA RecordInView ==
  ASSUME ReportInv, NEW o \in Originals, NEW loop \in {"expected", "orphans"},
         Taking(loop, o), loop = "expected" => o \in expected,
         \A row \in rows' : row \in rows \/ row.target = target,
         \A i \in Identities : i # <<o, target>> => mirror'[i] = mirror[i]
  PROVE  InView'
<1>1. /\ job \in Jobs /\ target \in Participants[job.plan] /\ target \in Targets
      /\ UNCHANGED SourceVars /\ phase = loop
  BY TakingFacts DEF ReportInv
<1>2. /\ UNCHANGED <<job, phase, waiting, target, existing, expected, quiet>>
      /\ todo' = todo \ {o}
  BY DEF Taking, historyVars
<1>3. /\ \A row \in rows : row.target \in Participants[job.plan]
      /\ target \notin waiting
      /\ phase = "expected" /\ quiet =>
           \A q \in Existing(job.period, target) : q \in existing \/ q \in expected \ todo
  BY <1>1 DEF ReportInv, Reports, InView
<1>4. ASSUME phase = "expected", quiet, NEW q \in Existing(job.period, target)'
      PROVE  q \in existing \/ q \in expected \ todo'
  <2>1. CASE q = o
    BY <1>1, <1>2, <1>4, <2>1
  <2>2. CASE q # o
    <3>1. q \in Originals
      BY DEF Existing
    <3>2. mirror'[<<q, target>>] = mirror[<<q, target>>]
      BY <1>1, <2>2, <3>1 DEF Identities
    <3>3. q \in Existing(job.period, target)
      BY <1>1, <1>2, <3>2, DueStands
    <3> QED
      BY <1>2, <1>3, <1>4, <3>3
  <2> QED
    BY <2>1, <2>2
<1>5. \A row \in rows' : row.target \in Participants[job.plan]
  BY <1>1, <1>3
<1> QED
  BY <1>1, <1>2, <1>3, <1>4, <1>5 DEF InView

\* Whatever a record does, in the first loop or in the second, it writes at
\* most its own row and logs at most its own.
LEMMA RecordShape ==
  ASSUME AlignInv, NEW o \in Originals, Expectation(o) \/ Orphan(o)
  PROVE  /\ \/ Taking("expected", o) /\ Expectation(o)
            \/ Taking("orphans", o) /\ Orphan(o)
         /\ rows \subseteq rows'
         /\ \A row \in rows' : row \in rows \/ row.target = target
         /\ \A i \in Identities : i # <<o, target>> => mirror'[i] = mirror[i]
         /\ job.dry => mirror' = mirror
<1>1. \/ Taking("expected", o) /\ Expectation(o)
      \/ Taking("orphans", o) /\ Orphan(o)
  BY DEF Expectation, Orphan, LookupFails, RefuseLong, Create, CreateCollides, Enable,
     Keep, Update, LeaveDisabled, Disable
<1>2. \/ rows' = rows
      \/ \E a, outcome : Log(a, o, outcome)
  BY DEF Expectation, Orphan, LookupFails, RefuseLong, Create, CreateCollides, Enable,
     Keep, Update, LeaveDisabled, Disable, Write
<1>3. rows \subseteq rows' /\ \A row \in rows' : row \in rows \/ row.target = target
  BY <1>2, LogAdds
<1>4. \A i \in Identities : i # <<o, target>> => mirror'[i] = mirror[i]
  BY ExpectationOutcome, OrphanOutcome
<1>5. job.dry => mirror' = mirror
  BY DEF Expectation, Orphan, LookupFails, RefuseLong, Create, CreateCollides, Enable,
     Keep, Update, LeaveDisabled, Disable, Write
<1> QED
  BY <1>1, <1>3, <1>4, <1>5

LEMMA RecordReports ==
  ASSUME ReportInv, NEW o \in Originals, Expectation(o) \/ Orphan(o)
  PROVE  Reports'
<1>1. /\ \/ Taking("expected", o) /\ Expectation(o)
         \/ Taking("orphans", o) /\ Orphan(o)
      /\ rows \subseteq rows'
      /\ \A row \in rows' : row \in rows \/ row.target = target
      /\ \A i \in Identities : i # <<o, target>> => mirror'[i] = mirror[i]
      /\ job.dry => mirror' = mirror
  BY RecordShape DEF ReportInv
<1>2. quiet /\ mirror' # mirror => OfThePass(o) /\ OfThePass(o)'
  BY ExpectationOfThePass, OrphanOfThePass DEF ReportInv
<1>3. FreshReports'
  BY <1>1, <1>2, ReportsStand
<1>4. /\ Taking("expected", o) => o \in expected
      /\ Taking("orphans", o) => o \notin expected
  BY DEF ReportInv, AlignInv, Aligning, Place, Taking
<1>5. InView'
  BY <1>1, <1>4, RecordInView
<1>6. CASE quiet
  <2>1. NoError' => Decided(o)
    BY <1>6, ExpectationDecided, OrphanDecided
  <2>2. Decisions'
    BY <1>1, <1>4, <2>1, RecordDecisions
  <2> QED
    BY <1>3, <1>5, <2>2 DEF Reports
<1>7. CASE ~quiet
  <2>1. ~quiet'
    BY <1>1, <1>7 DEF Taking, historyVars
  <2> QED
    BY <1>3, <1>5, <2>1 DEF Reports, Decisions, Reporting
<1> QED
  BY <1>6, <1>7

\* Where no mirror and no row is written, what was due, logged and reported is.
LEMMA NothingWritten ==
  ASSUME UNCHANGED SourceVars, UNCHANGED <<mirror, rows, job, report>>
  PROVE  /\ \A p, per, t, o, a : Due(p, per, t, o, a)' <=> Due(p, per, t, o, a)
         /\ \A t, o, a : /\ Logged(t, o, a)' <=> Logged(t, o, a)
                         /\ Reported(Round, t, o, a)' <=> Reported(Round, t, o, a)
                         /\ Intended(t, o, a)' <=> Intended(t, o, a)
         /\ \A r, t, o, a : Reported(r, t, o, a)' <=> Reported(r, t, o, a)
<1>1. \A p, per, t, o, a : Due(p, per, t, o, a)' <=> Due(p, per, t, o, a)
  BY DueStands
<1>2. \A r, t, o, a : Reported(r, t, o, a)' <=> Reported(r, t, o, a)
  BY DEF Reported
<1>3. \A t, o, a : Reported(Round, t, o, a)' <=> Reported(Round, t, o, a)
  BY DEF Reported, Round
<1>4. \A t, o, a : Intended(t, o, a)' <=> Intended(t, o, a)
  BY <1>1, <1>3 DEF Intended
<1>5. \A t, o, a : Logged(t, o, a)' <=> Logged(t, o, a)
  BY DEF Logged
<1> QED
  BY <1>1, <1>2, <1>3, <1>4, <1>5

\* A pass that goes on without writing keeps its decisions, as long as it
\* leaves the same ones to be taken or takes them where nothing was due.
LEMMA PassingOn ==
  ASSUME ReportInv, UNCHANGED SourceVars,
         UNCHANGED <<mirror, rows, job, report, fresh, quiet, skipped>>,
         phase # "idle", phase' # "idle",
         Reporting => \A t \in Participants[job.plan], o \in Originals :
           \/ Undecided(t, o)' <=> Undecided(t, o)
           \/ \A a \in RowActions : ~Due(job.plan, job.period, t, o, a)
              /\ ~Undecided(t, o)'
  PROVE  FreshReports' /\ Decisions'
<1>1. /\ \A p, per, t, o, a : Due(p, per, t, o, a)' <=> Due(p, per, t, o, a)
      /\ \A t, o, a : /\ Logged(t, o, a)' <=> Logged(t, o, a)
                      /\ Intended(t, o, a)' <=> Intended(t, o, a)
      /\ \A r, t, o, a : Reported(r, t, o, a)' <=> Reported(r, t, o, a)
  BY NothingWritten
<1>2. Round' = Round /\ (Reporting' <=> Reporting)
  BY DEF Round, Reporting, NoError
<1>3. FreshReports'
  BY <1>1, <1>2 DEF ReportInv, Reports, FreshReports
<1>4. Decisions'
  <2> SUFFICES ASSUME Reporting, job.dry \/ Round \in fresh,
                      NEW t \in Participants[job.plan], NEW o \in Originals,
                      NEW a \in RowActions
               PROVE  IF Undecided(t, o)'
                        THEN /\ ~Logged(t, o, a)
                             /\ Intended(t, o, a) <=> Due(job.plan, job.period, t, o, a)
                        ELSE Logged(t, o, a) <=> Intended(t, o, a)
    BY <1>1, <1>2 DEF Decisions
  <2>1. IF Undecided(t, o)
          THEN /\ ~Logged(t, o, a)
               /\ Intended(t, o, a) <=> Due(job.plan, job.period, t, o, a)
          ELSE Logged(t, o, a) <=> Intended(t, o, a)
    BY DEF ReportInv, Reports, Decisions
  <2> QED
    BY <2>1
<1> QED
  BY <1>3, <1>4

LEMMA StartReports ==
  ASSUME ReportInv, NEW p \in Plans, NEW per \in Periods, NEW dry \in BOOLEAN,
         StartPass(p, per, dry)
  PROVE  Reports'
<1>1. /\ UNCHANGED SourceVars /\ UNCHANGED <<mirror, rows, report, fresh>> /\ rows = {}
      /\ phase = "idle" /\ phase' = "next" /\ waiting' = Participants[p] /\ quiet'
      /\ job' = [plan |-> p, period |-> per, dry |-> dry]
  BY DEF StartPass, bookVars, sourceVars, SourceVars, ReportInv, Reports, InView
<1>2. job'.plan = p /\ job'.period = per /\ job'.dry = dry /\ Round' = <<p, per>>
  BY <1>1 DEF Round
<1>3. \A q, c, t, o, a : Due(q, c, t, o, a)' <=> Due(q, c, t, o, a)
  BY <1>1, DueStands
<1>4. \A r, t, o, a : Reported(r, t, o, a)' <=> Reported(r, t, o, a)
  BY <1>1 DEF Reported
<1>5. \A r \in fresh :
        /\ report[r] \subseteq {d \in Deltas : d.target \in Participants[r[1]]}
        /\ \A t \in Participants[r[1]], o \in Originals, a \in RowActions :
             Reported(r, t, o, a) <=> Due(r[1], r[2], t, o, a)
  BY <1>1 DEF ReportInv, Reports, FreshReports
<1>6. FreshReports'
  BY <1>1, <1>3, <1>4, <1>5 DEF FreshReports
<1>7. InView'
  BY <1>1 DEF InView
<1>8. Decisions'
  <2> SUFFICES ASSUME dry \/ <<p, per>> \in fresh, NEW t \in Participants[p],
                      NEW o \in Originals, NEW a \in RowActions
               PROVE  /\ Undecided(t, o)' /\ ~Logged(t, o, a)'
                      /\ Intended(t, o, a)' <=> Due(p, per, t, o, a)'
    BY <1>1, <1>2 DEF Decisions
  <2>1. Undecided(t, o)' /\ ~Logged(t, o, a)'
    BY <1>1 DEF Undecided, Logged
  <2>2. CASE dry
    <3>1. Due(job.plan, job.period, t, o, a)' <=> Due(p, per, t, o, a)'
      BY <1>2 DEF Due
    <3> QED
      BY <1>2, <2>1, <2>2, <3>1 DEF Intended
  <2>3. CASE ~dry
    <3>1. Reported(<<p, per>>, t, o, a)' <=> Due(p, per, t, o, a)'
      BY <1>3, <1>4, <1>5, <2>3
    <3>2. Reported(Round, t, o, a)' <=> Reported(<<p, per>>, t, o, a)'
      BY <1>2 DEF Reported
    <3>3. Intended(t, o, a)' <=> Reported(Round, t, o, a)'
      BY <1>2, <2>3 DEF Intended
    <3> QED
      BY <2>1, <3>1, <3>2, <3>3
  <2> QED
    BY <2>1, <2>2, <2>3
<1> QED
  BY <1>6, <1>7, <1>8 DEF Reports

LEMMA StepReports ==
  ASSUME ReportInv,
         \/ \E t \in Targets : BeginTarget(t)
         \/ \E v \in Variables : ReadVariable(v)
         \/ ReadMirrors \/ BeginOrphans \/ EndTarget \/ EndTargets
  PROVE  Reports'
<1>1. /\ UNCHANGED SourceVars
      /\ UNCHANGED <<mirror, rows, job, report, fresh, quiet, skipped>>
      /\ phase # "idle" /\ phase' # "idle"
  BY DEF BeginTarget, ReadVariable, ReadMirrors, BeginOrphans, EndTarget, EndTargets,
     sourceVars, SourceVars, bookVars, historyVars
<1>2. NoTarget \notin Participants[job.plan] /\ job \in Jobs
  BY <1>1, BaseAssumption, ReconciliationAssumption
     DEF ReportInv, AlignInv, ReadInv, TypeInv, Handling, Jobs
<1>3. ASSUME \/ phase' \in {"next", "reading", "closing"}
             \/ phase' = "expected" /\ Existing(job.period, target') \subseteq existing',
             phase' \in {"reading", "expected", "orphans"} => target' \notin waiting'
      PROVE  InView'
  <2>1. \A t : Existing(job.period, t)' = Existing(job.period, t)
    BY <1>1 DEF Existing, HasRow
  <2>2. CASE phase' # "expected"
    BY <1>1, <1>3, <2>2 DEF ReportInv, Reports, InView
  <2>3. CASE phase' = "expected"
    <3>1. Existing(job.period, target)' \subseteq existing'
      BY <1>1, <1>3, <2>1, <2>3 DEF Existing, HasRow
    <3> QED
      BY <1>1, <1>3, <2>3, <3>1 DEF ReportInv, Reports, InView
  <2> QED
    BY <2>2, <2>3
<1>4. CASE \E t \in Targets : BeginTarget(t)
  <2>1. /\ phase = "next" /\ phase' = "reading" /\ target = NoTarget /\ target' \in waiting
        /\ waiting' = waiting \ {target'}
    BY <1>4 DEF BeginTarget, ReportInv, AlignInv, Aligning, Place
  <2>2. \A t \in Participants[job.plan] : \A o : Undecided(t, o)' <=> Undecided(t, o)
    BY <1>2, <2>1 DEF Undecided
  <2> QED
    BY <1>1, <1>3, <2>1, <2>2, PassingOn DEF Reports
<1>5. CASE \E v \in Variables : ReadVariable(v)
  <2>1. UNCHANGED <<waiting, target, phase>> /\ phase = "reading" /\ target \notin waiting
    BY <1>5 DEF ReadVariable, ReportInv, Reports, InView
  <2>2. \A t, o : Undecided(t, o)' <=> Undecided(t, o)
    BY <2>1 DEF Undecided
  <2> QED
    BY <1>1, <1>3, <2>1, <2>2, PassingOn DEF Reports
<1>6. CASE ReadMirrors
  <2>1. /\ UNCHANGED <<waiting, target, expected>> /\ phase = "reading"
        /\ phase' = "expected" /\ todo' = expected /\ target \notin waiting
        /\ existing' = Existing(job.period, target)
    BY <1>6 DEF ReadMirrors, ReportInv, Reports, InView
  <2>2. \A t, o : Undecided(t, o)' <=> Undecided(t, o)
    BY <2>1 DEF Undecided
  <2> QED
    BY <1>1, <1>3, <2>1, <2>2, PassingOn DEF Reports
<1>7. CASE BeginOrphans
  <2>1. /\ UNCHANGED <<waiting, target, expected, existing>> /\ phase = "expected"
        /\ phase' = "orphans" /\ todo = {} /\ todo' = existing \ expected
        /\ target \notin waiting
    BY <1>7 DEF BeginOrphans, ReportInv, Reports, InView
  <2>2. ASSUME Reporting, NEW t \in Participants[job.plan], NEW o \in Originals
        PROVE  \/ Undecided(t, o)' <=> Undecided(t, o)
               \/ \A a \in RowActions : ~Due(job.plan, job.period, t, o, a)
                  /\ ~Undecided(t, o)'
    <3>1. CASE t # target \/ o \in expected \cup existing
      BY <2>1, <3>1 DEF Undecided
    <3>2. CASE t = target /\ o \notin expected \cup existing
      <4>1. o \notin Source(job.plan, job.period, target)
        BY <2>1, <2>2, <3>2 DEF ReportInv, AlignInv, Aligning, Place, Reporting
      <4>2. o \notin Existing(job.period, target)
        BY <2>1, <2>2, <3>2 DEF ReportInv, Reports, InView, Reporting
      <4> QED
        BY <2>1, <3>2, <4>1, <4>2 DEF Due, Undecided
    <3> QED
      BY <3>1, <3>2
  <2>3. InView'
    BY <1>1, <2>1 DEF ReportInv, Reports, InView
  <2> QED
    BY <1>1, <2>2, <2>3, PassingOn DEF Reports
<1>8. CASE EndTarget
  <2>1. /\ UNCHANGED waiting /\ phase = "orphans" /\ phase' = "next" /\ todo = {}
        /\ target' = NoTarget
    BY <1>8 DEF EndTarget
  <2>2. \A t \in Participants[job.plan] : \A o : Undecided(t, o)' <=> Undecided(t, o)
    BY <1>2, <2>1 DEF Undecided
  <2> QED
    BY <1>1, <1>3, <2>1, <2>2, PassingOn DEF Reports
<1>9. CASE EndTargets
  <2>1. UNCHANGED <<waiting, target>> /\ phase = "next" /\ phase' = "closing"
    BY <1>9 DEF EndTargets, loopVars
  <2>2. \A t, o : Undecided(t, o)' <=> Undecided(t, o)
    BY <2>1 DEF Undecided
  <2> QED
    BY <1>1, <1>3, <2>1, <2>2, PassingOn DEF Reports
<1> QED
  BY <1>4, <1>5, <1>6, <1>7, <1>8, <1>9

\* The CSV of a pass that ends and what its rows say.
LEMMA ClosingDelta ==
  ASSUME ReportInv, phase = "closing", Reporting, job.dry \/ Round \in fresh
  PROVE  /\ Delta(rows) \subseteq {d \in Deltas : d.target \in Participants[job.plan]}
         /\ \A t \in Participants[job.plan], o \in Originals, a \in RowActions :
              [action |-> a, deal |-> o, target |-> t] \in Delta(rows) <=> Intended(t, o, a)
<1>1. rows \subseteq Rows /\ waiting = {} /\ target = NoTarget /\ job \in Jobs
  BY DEF ReportInv, AlignInv, Aligning, Place, ReadInv, TypeInv, TypeOK, Handling
<1>2. \A row \in rows : row.target \in Participants[job.plan]
  BY DEF ReportInv, Reports, InView
<1>3. Delta(rows) \subseteq {d \in Deltas : d.target \in Participants[job.plan]}
  BY <1>1, <1>2 DEF Delta, Deltas, Rows
<1>4. ASSUME NEW t \in Participants[job.plan], NEW o \in Originals, NEW a \in RowActions
      PROVE  [action |-> a, deal |-> o, target |-> t] \in Delta(rows) <=> Intended(t, o, a)
  <2>1. ~Undecided(t, o)
    BY <1>1 DEF Undecided
  <2>2. Logged(t, o, a) <=> Intended(t, o, a)
    BY <2>1 DEF ReportInv, Reports, Decisions
  <2>3. [action |-> a, deal |-> o, target |-> t] \in Delta(rows) <=> Logged(t, o, a)
    BY DEF Delta, Logged
  <2> QED
    BY <2>2, <2>3
<1> QED
  BY <1>3, <1>4

\* A skipped target leaves the pass nothing to compare.
LEMMA SkipReports ==
  ASSUME ReportInv, SkipTarget
  PROVE  Reports'
<1>1. /\ UNCHANGED SourceVars /\ UNCHANGED <<mirror, rows, job, report, fresh, quiet>>
      /\ phase = "reading" /\ phase' = "next" /\ skipped'
  BY DEF SkipTarget, sourceVars, SourceVars, bookVars, historyVars
<1>2. /\ \A p, per, t, o, a : Due(p, per, t, o, a)' <=> Due(p, per, t, o, a)
      /\ \A r, t, o, a : Reported(r, t, o, a)' <=> Reported(r, t, o, a)
  BY <1>1, NothingWritten
<1>3. Round' = Round
  BY <1>1 DEF Round
<1>4. FreshReports'
  BY <1>1, <1>2, <1>3 DEF ReportInv, Reports, FreshReports
<1>5. Decisions'
  BY <1>1 DEF Decisions, Reporting
<1>6. InView'
  BY <1>1 DEF ReportInv, Reports, InView
<1> QED
  BY <1>4, <1>5, <1>6 DEF Reports

\* Once the pass is over, what it leaves of the fresh reports says what is due:
\* those of other rounds as before, its own by what it logged.
LEMMA OverReports ==
  ASSUME ReportInv, phase # "idle", Reset, UNCHANGED SourceVars,
         UNCHANGED <<mirror, quiet>>, fresh' \subseteq fresh \cup {Round},
         ~quiet => fresh' = {},
         \A r \in fresh' : r # Round => report'[r] = report[r],
         Round \in fresh' =>
           /\ job.dry
           /\ \/ Round \in fresh /\ report'[Round] = report[Round]
              \/ /\ Clean /\ phase = "closing"
                 /\ report'[Round] = Delta(rows)
  PROVE  Reports'
<1> DEFINE Says(r) ==
      /\ report'[r] \subseteq {d \in Deltas : d.target \in Participants[r[1]]}
      /\ \A t \in Participants[r[1]], o \in Originals, a \in RowActions :
           Reported(r, t, o, a)' <=> Due(r[1], r[2], t, o, a)'
<1> HIDE DEF Says
<1>1. \A p, per, t, o, a : Due(p, per, t, o, a)' <=> Due(p, per, t, o, a)
  BY DueStands
<1>2. /\ phase' = "idle" /\ rows' = {} /\ job \in Jobs
      /\ Round = <<job.plan, job.period>> /\ Round[1] = job.plan /\ Round[2] = job.period
  BY DEF Reset, Round, ReportInv, AlignInv, ReadInv, TypeInv, Handling
<1>3. InView' /\ Decisions'
  BY <1>2 DEF InView, Decisions, Reporting
<1>4. ASSUME NEW r \in fresh', r # Round \/ (Round \in fresh /\ report'[Round] = report[Round])
      PROVE  Says(r)
  <2>1. r \in fresh /\ report'[r] = report[r] /\ (job.dry \/ Round # r)
    BY <1>4
  <2>2. /\ report[r] \subseteq {d \in Deltas : d.target \in Participants[r[1]]}
        /\ \A t \in Participants[r[1]], o \in Originals, a \in RowActions :
             Reported(r, t, o, a) <=> Due(r[1], r[2], t, o, a)
    BY <2>1 DEF ReportInv, Reports, FreshReports
  <2>3. \A t, o, a : Reported(r, t, o, a)' <=> Reported(r, t, o, a)
    BY <2>1 DEF Reported
  <2> QED
    BY <1>1, <2>1, <2>2, <2>3 DEF Says
<1>5. ASSUME Round \in fresh', Clean, phase = "closing", report'[Round] = Delta(rows),
             job.dry
      PROVE  /\ report'[Round] \subseteq {d \in Deltas : d.target \in Participants[job.plan]}
             /\ \A t \in Participants[job.plan], o \in Originals, a \in RowActions :
                  [action |-> a, deal |-> o, target |-> t] \in report'[Round]
                    <=> Due(job.plan, job.period, t, o, a)
  <2>1. Reporting
    BY <1>5 DEF Reporting, Clean, Undone, NoError
  <2> QED
    BY <1>5, <2>1, ClosingDelta DEF Intended
<1>6. FreshReports'
  <2> SUFFICES ASSUME NEW r \in fresh'
               PROVE  Says(r)
    BY <1>2 DEF FreshReports, Says
  <2>1. CASE r # Round
    BY <1>4, <2>1
  <2>2. CASE r = Round
    <3>1. Round \in fresh'
      BY <2>2
    <3>2. CASE Round \in fresh /\ report'[Round] = report[Round]
      BY <1>4, <3>2
    <3>3. CASE Clean /\ phase = "closing" /\ report'[Round] = Delta(rows)
      <4>1. \A t, o, a : Reported(r, t, o, a)' <=>
                           [action |-> a, deal |-> o, target |-> t] \in report'[Round]
        BY <2>2 DEF Reported
      <4> QED
        BY <1>1, <1>2, <1>5, <2>2, <3>1, <3>3, <4>1 DEF Says
    <3> QED
      BY <3>1, <3>2, <3>3
  <2> QED
    BY <2>1, <2>2
<1> QED
  BY <1>3, <1>6 DEF Reports

LEMMA EndReports ==
  ASSUME ReportInv, Close \/ LoseConsole
  PROVE  Reports'
<1>1. /\ phase # "idle" /\ Reset /\ UNCHANGED SourceVars /\ UNCHANGED <<mirror, quiet>>
  BY DEF Close, LoseConsole, sourceVars, SourceVars, ReportInv, AlignInv, ReadInv,
     TypeInv, TypeOK
<1>2. /\ fresh \subseteq Rounds /\ (~quiet => fresh = {}) /\ job \in Jobs
      /\ report \in [Rounds -> (SUBSET Deltas) \cup {NoCsv}]
      /\ Round \in Rounds
  BY <1>1 DEF ReportInv, Reports, FreshReports, AlignInv, ReadInv, TypeInv, TypeOK,
     Handling, Jobs, Round, Rounds
<1>3. CASE /\ job.dry /\ phase = "closing"
           /\ report' = [report EXCEPT ![Round] = Delta(rows)]
           /\ fresh' = IF Clean THEN fresh \cup {Round} ELSE fresh \ {Round}
  <2>1. /\ fresh' \subseteq fresh \cup {Round}
        /\ \A r \in fresh' : r # Round => report'[r] = report[r]
        /\ report'[Round] = Delta(rows)
    BY <1>2, <1>3
  <2>2. Round \in fresh' => Clean
    BY <1>3
  <2>3. ~quiet => fresh' = {}
    BY <1>2, <1>3 DEF Clean
  <2> QED
    BY <1>1, <1>3, <2>1, <2>2, <2>3, OverReports
<1>4. CASE /\ ~job.dry /\ report' = [report EXCEPT ![Round] = NoCsv]
           /\ fresh' = fresh \ {Round}
  <2>1. /\ fresh' \subseteq fresh \cup {Round} /\ Round \notin fresh'
        /\ \A r \in fresh' : r # Round => report'[r] = report[r]
        /\ ~quiet => fresh' = {}
    BY <1>2, <1>4
  <2> QED
    BY <1>1, <2>1, OverReports
<1>5. CASE job.dry /\ report' = report /\ fresh' = fresh
  BY <1>1, <1>2, <1>5, OverReports
<1> QED
  BY <1>3, <1>4, <1>5 DEF Close, LoseConsole

LEMMA MovesReports ==
  ASSUME ReportInv, Moves
  PROVE  Reports'
<1>1. /\ ~quiet' /\ fresh' = {}
      /\ UNCHANGED <<phase, rows, job, waiting, target>>
  BY DEF Moves, passVars, loopVars, bookVars
<1>2. FreshReports' /\ Decisions'
  BY <1>1 DEF FreshReports, Decisions, Reporting
<1>3. InView'
  BY <1>1 DEF ReportInv, Reports, InView
<1> QED
  BY <1>2, <1>3 DEF Reports

LEMMA ReportsInductive ==
  ASSUME ReportInv, [Next]_vars
  PROVE  Reports'
<1>1. CASE UNCHANGED vars
  <2>1. /\ UNCHANGED SourceVars
        /\ UNCHANGED <<mirror, rows, job, report, fresh, quiet, skipped, phase,
                       waiting, target, existing, expected, todo>>
    BY <1>1 DEF vars, sourceVars, SourceVars, passVars, loopVars, bookVars, historyVars
  <2>2. CASE phase = "idle"
    <3>1. /\ \A p, per, t, o, a : Due(p, per, t, o, a)' <=> Due(p, per, t, o, a)
          /\ \A r, t, o, a : Reported(r, t, o, a)' <=> Reported(r, t, o, a)
      BY <2>1, NothingWritten
    <3>2. FreshReports'
      BY <2>1, <2>2, <3>1 DEF ReportInv, Reports, FreshReports
    <3> QED
      BY <2>1, <2>2, <3>2 DEF ReportInv, Reports, Decisions, InView, Reporting
  <2>3. CASE phase # "idle"
    <3>1. \A t, o : Undecided(t, o)' <=> Undecided(t, o)
      BY <2>1 DEF Undecided
    <3>2. FreshReports' /\ Decisions'
      BY <2>1, <2>3, <3>1, PassingOn
    <3>3. Existing(job.period, target)' = Existing(job.period, target)
      BY <2>1 DEF Existing, HasRow
    <3>4. InView'
      BY <2>1, <3>3 DEF ReportInv, Reports, InView
    <3> QED
      BY <3>2, <3>4 DEF Reports
  <2> QED
    BY <2>2, <2>3
<1> QED
  BY <1>1, StartReports, StepReports, SkipReports, EndReports, MovesReports, RecordReports
     DEF Next, Step

\* The apply of a dry run over a base that stood still writes what was
\* reported: nothing it writes changes what it has still to decide.
THEOREM ReportIsApplied == Spec => []QuietApplyMatchesReport
<1>1. Init => Reports
  BY DEF Init, Reports, FreshReports, Decisions, InView, Reporting
<1>2. ReportInv /\ [Next]_vars => Reports'
  BY ReportsInductive
<1>3. ReportInv => QuietApplyMatchesReport
  <2> SUFFICES ASSUME ReportInv, phase = "closing", ~job.dry, quiet, Round \in fresh,
                      ~skipped, \A r \in rows : r.outcome # "ERROR"
               PROVE  Delta(rows) = report[Round]
    BY DEF QuietApplyMatchesReport
  <2>1. Reporting /\ Round[1] = job.plan
    BY DEF Reporting, NoError, Round
  <2>2. /\ Delta(rows) \subseteq {d \in Deltas : d.target \in Participants[job.plan]}
        /\ \A t \in Participants[job.plan], o \in Originals, a \in RowActions :
             [action |-> a, deal |-> o, target |-> t] \in Delta(rows)
               <=> [action |-> a, deal |-> o, target |-> t] \in report[Round]
    BY <2>1, ClosingDelta DEF Intended, Reported
  <2>3. report[Round] \subseteq {d \in Deltas : d.target \in Participants[job.plan]}
    BY <2>1 DEF ReportInv, Reports, FreshReports
  <2>4. \A d \in Deltas : /\ d = [action |-> d.action, deal |-> d.deal, target |-> d.target]
                          /\ d.action \in RowActions /\ d.deal \in Originals
    BY DEF Deltas
  <2>5. ASSUME NEW d \in Deltas, d.target \in Participants[job.plan]
        PROVE  d \in Delta(rows) <=> d \in report[Round]
    BY <2>2, <2>4, <2>5
  <2> QED
    BY <2>2, <2>3, <2>5
<1>4. ReportInv <=> AlignInv /\ Reports
  BY DEF ReportInv
<1> QED
  BY <1>1, <1>2, <1>3, <1>4, AlignInvariant, PTL DEF Spec
=============================================================================
