------------------------------ MODULE FirstRun ------------------------------
(***************************************************************************)
(* 03-preflight.rb and 04-mutacao.rb: the first mirroring of a plan.  The  *)
(* pre-flight projects the batch and counts the gates; the mutation scans  *)
(* again, puts the whole batch through the same gates and then creates the *)
(* mirrors one by one, with no transaction.                                *)
(***************************************************************************)
EXTENDS DealBase

CONSTANTS
  MaxFaults,     \* bound on exceptions, refused writes and lost consoles
  NoTarget,      \* no target is being scanned
  NoCsv          \* no CSV of that kind is at hand

ASSUME FirstRunAssumption == MaxFaults \in Nat /\ NoTarget \notin Targets

VARIABLES
  script,        \* what is pasted in the console: none, preflight, mutation
  round,         \* the plan and competence it was edited for
  phase,         \* where the script is
  waiting,       \* targets the scan has not reached
  target,        \* the target being scanned
  recursive,     \* recursive_user_ids of the target
  unread,        \* its variables still to be queried
  candidates,    \* <<target, variable, original>> found so far
  todo,          \* candidates the write loop has left
  rows,          \* outcome per candidate
  whole,         \* no exception has cost the pre-flight a target or a variable
  faults,        \* how many faults happened
  projected,     \* the CSV and the gates of the last pre-flight
  csv,           \* the CSV of the mutation that has just ended
  still          \* history: since what point the base has not moved:
                 \* "preflight" began, "mutation" began, or neither

scanVars == <<waiting, target, recursive, unread>>
scriptVars == <<script, round, phase, scanVars, candidates, todo, rows, whole>>
vars == <<sourceVars, mirror, scriptVars, faults, projected, csv, still>>

Rounds == Plans \X Periods
Candidates == Targets \X Variables \X Originals
Outcomes == {"CREATED", "FAILED", "ERROR"}
Rows == [candidate : Candidates, outcome : Outcomes]
Projections == [round : Rounds, batch : SUBSET Candidates, whole : BOOLEAN,
                too_long : BOOLEAN, already_exists : BOOLEAN]
Csvs == [round : Rounds, rows : SUBSET Rows]

TypeOK ==
  /\ BaseTypeOK
  /\ script \in {"none", "preflight", "mutation"}
  /\ round \in Rounds
  /\ phase \in {"idle", "scanning", "reading", "writing"}
  /\ waiting \subseteq Targets
  /\ target \in Targets \cup {NoTarget}
  /\ recursive \subseteq Users
  /\ unread \subseteq Variables
  /\ candidates \subseteq Candidates
  /\ todo \subseteq candidates
  /\ rows \subseteq Rows
  /\ whole \in BOOLEAN
  /\ faults \in 0 .. MaxFaults
  /\ projected \in Projections \cup {NoCsv}
  /\ csv \in Csvs \cup {NoCsv}
  /\ still \in {"preflight", "mutation", "neither"}

Init ==
  /\ BaseInit
  /\ script = "none" /\ phase = "idle" /\ round \in Rounds
  /\ waiting = {} /\ target = NoTarget /\ recursive = {} /\ unread = {}
  /\ candidates = {} /\ todo = {} /\ rows = {} /\ whole = TRUE
  /\ faults = 0 /\ projected = NoCsv /\ csv = NoCsv /\ still = "neither"

-----------------------------------------------------------------------------
Fault == faults < MaxFaults /\ faults' = faults + 1

Id(c) == <<c[3], c[1]>>

\* Faulty: a seller who carries a row on one variable is left out of all.
FirstSourcePerTarget(v) ==
  DealsOf(recursive \ {u \in Users : \E w \in Variables : <<w, u, round[2]>> \in indicators},
          round[2], v)

\* The carriers are left out whatever the override flag of the plan, and no
\* PAP cut is made.
FirstSource(v) ==
  DealsOf(recursive \ {u \in Users : <<v, u, round[2]>> \in indicators}, round[2], v)

Begin(name, r, targets) ==
  /\ phase = "idle"
  /\ script' = name /\ round' = r /\ phase' = "scanning"
  /\ waiting' = targets
  /\ target' = NoTarget /\ recursive' = {} /\ unread' = {}
  /\ candidates' = {} /\ todo' = {} /\ rows' = {} /\ whole' = TRUE
  /\ csv' = NoCsv
  /\ UNCHANGED <<sourceVars, mirror, faults>>

\* Nothing pasted any more; what the script held in memory is gone.
Leave ==
  /\ script' = "none" /\ phase' = "idle"
  /\ waiting' = {} /\ target' = NoTarget /\ recursive' = {} /\ unread' = {}
  /\ candidates' = {} /\ todo' = {} /\ rows' = {} /\ whole' = TRUE
  /\ UNCHANGED <<sourceVars, mirror, round, still>>

\* Faulty: the targets taken from the people below, not from the commission.
StartPreflightBelow(r) ==
  /\ Begin("preflight", r, UNION {Below(t) : t \in Participants[r[1]]})
  /\ projected' = NoCsv
  /\ still' = "preflight"

StartPreflight(r) ==
  /\ Begin("preflight", r, Participants[r[1]])
  /\ projected' = NoCsv
  /\ still' = "preflight"

\* Faulty: the mutation is run whatever the pre-flight counted.
StartMutationAnyway(r) ==
  /\ projected # NoCsv
  /\ Begin("mutation", r, Participants[r[1]])
  /\ still' = IF still = "preflight" THEN still ELSE "mutation"
  /\ UNCHANGED projected

\* "The mutation must not run until too_long and already_exists are both zero."
StartMutation(r) ==
  /\ projected # NoCsv
  /\ projected.round = r
  /\ ~projected.too_long /\ ~projected.already_exists
  /\ Begin("mutation", r, Participants[r[1]])
  /\ still' = IF still = "preflight" THEN still ELSE "mutation"
  /\ UNCHANGED projected

\* UserScope resolves the people below once for all the variables.
BeginTarget(t) ==
  /\ phase = "scanning"
  /\ t \in waiting
  /\ phase' = "reading"
  /\ waiting' = waiting \ {t} /\ target' = t
  /\ recursive' = Below(t)
  /\ unread' = PlanVariables[round[1]]
  /\ UNCHANGED <<sourceVars, mirror, script, round, candidates, todo, rows,
                 whole, faults, projected, csv, still>>

ScanVariable(v) ==
  /\ phase = "reading"
  /\ v \in unread
  /\ unread' = unread \ {v}
  /\ candidates' = candidates \cup {<<target, v, o>> : o \in FirstSource(v)}
  /\ UNCHANGED <<sourceVars, mirror, script, round, phase, waiting, target,
                 recursive, todo, rows, whole, faults, projected, csv, still>>

EndTarget ==
  /\ phase = "reading"
  /\ unread = {}
  /\ phase' = "scanning"
  /\ target' = NoTarget /\ recursive' = {}
  /\ UNCHANGED <<sourceVars, mirror, script, round, waiting, unread, candidates,
                 todo, rows, whole, faults, projected, csv, still>>

\* The outer rescue of the pre-flight prints the target and goes on without
\* it; the mutation has no rescue there and ends.
TargetRaises(t) ==
  /\ phase = "scanning"
  /\ t \in waiting
  /\ Fault
  /\ UNCHANGED <<projected, csv>>
  /\ \/ /\ script = "preflight"
        /\ waiting' = waiting \ {t}
        /\ whole' = FALSE
        /\ UNCHANGED <<sourceVars, mirror, script, round, phase, target, recursive,
                       unread, candidates, todo, rows, still>>
     \/ script = "mutation" /\ Leave

\* The inner one leaves an ERROR row and what was projected of the variable.
VariableRaises(v) ==
  /\ phase = "reading"
  /\ v \in unread
  /\ Fault
  /\ UNCHANGED <<projected, csv>>
  /\ \/ /\ script = "preflight"
        /\ unread' = unread \ {v}
        /\ \E read \in SUBSET FirstSource(v) :
             candidates' = candidates \cup {<<target, v, o>> : o \in read}
        /\ whole' = FALSE
        /\ UNCHANGED <<sourceVars, mirror, script, round, phase, waiting, target,
                       recursive, todo, rows, still>>
     \/ script = "mutation" /\ Leave

\* The scripts count them and ask whether the count is positive.
SomeTooLong == \E c \in candidates : Id(c) \in TooLong
SomeExists == \E c \in candidates : HasRow(c[3], c[1])

\* The gates are printed and the CSV goes to S3, or fails to.
EndPreflight ==
  /\ phase = "scanning" /\ script = "preflight" /\ waiting = {}
  /\ Leave
  /\ \/ /\ projected' = [round |-> round, batch |-> candidates, whole |-> whole,
                         too_long |-> SomeTooLong, already_exists |-> SomeExists]
        /\ UNCHANGED faults
     \/ Fault /\ UNCHANGED projected
  /\ UNCHANGED csv

\* The gate runs over the whole batch before anything is written.
GateRefuses ==
  /\ phase = "scanning" /\ script = "mutation" /\ waiting = {}
  /\ SomeTooLong \/ SomeExists
  /\ Leave
  /\ UNCHANGED <<faults, projected, csv>>

\* Faulty: the gate only looks for identities that are too long.
GatePassesExisting ==
  /\ phase = "scanning" /\ script = "mutation" /\ waiting = {}
  /\ ~SomeTooLong
  /\ phase' = "writing"
  /\ todo' = candidates
  /\ UNCHANGED <<sourceVars, mirror, script, round, scanVars, candidates, rows,
                 whole, faults, projected, csv, still>>

GatePasses ==
  /\ phase = "scanning" /\ script = "mutation" /\ waiting = {}
  /\ ~SomeTooLong /\ ~SomeExists
  /\ phase' = "writing"
  /\ todo' = candidates
  /\ UNCHANGED <<sourceVars, mirror, script, round, scanVars, candidates, rows,
                 whole, faults, projected, csv, still>>

Copy(c) == [state |-> "enabled", content |-> original[c[3]].content]

Writing(c) ==
  /\ phase = "writing"
  /\ c \in todo
  /\ todo' = todo \ {c}
  /\ UNCHANGED <<sourceVars, script, round, phase, scanVars, candidates, whole,
                 projected, csv, still>>

Outcome(c, out) == rows' = rows \cup {[candidate |-> c, outcome |-> out]}

\* Faulty: the insert overwrites the row under the identity.
CreateUpserts(c) ==
  /\ Writing(c)
  /\ mirror' = [mirror EXCEPT ![Id(c)] = Copy(c)]
  /\ Outcome(c, "CREATED")
  /\ UNCHANGED faults

\* The original is read again and copied as it stands; the unique index
\* refuses a second row under the identity; any write may be refused or raise.
Create(c) ==
  /\ Writing(c)
  /\ \/ /\ ~HasRow(c[3], c[1])
        /\ mirror' = [mirror EXCEPT ![Id(c)] = Copy(c)]
        /\ Outcome(c, "CREATED")
        /\ UNCHANGED faults
     \/ /\ HasRow(c[3], c[1])
        /\ Outcome(c, "FAILED")
        /\ UNCHANGED <<mirror, faults>>
     \/ /\ Fault
        /\ \E out \in {"FAILED", "ERROR"} : Outcome(c, out)
        /\ UNCHANGED mirror

\* The CSV goes to S3 after every write, or fails to.
EndMutation ==
  /\ phase = "writing" /\ todo = {}
  /\ Leave
  /\ \/ csv' = [round |-> round, rows |-> rows] /\ UNCHANGED faults
     \/ Fault /\ UNCHANGED csv
  /\ UNCHANGED projected

LoseConsole ==
  /\ phase # "idle"
  /\ Fault
  /\ Leave
  /\ UNCHANGED <<projected, csv>>

Moves ==
  /\ Environment
  /\ still' = "neither"
  /\ UNCHANGED <<mirror, scriptVars, faults, projected, csv>>

Next ==
  \/ \E r \in Rounds : StartPreflight(r) \/ StartMutation(r)
  \/ \E t \in Targets : BeginTarget(t) \/ TargetRaises(t)
  \/ \E v \in Variables : ScanVariable(v) \/ VariableRaises(v)
  \/ EndTarget
  \/ EndPreflight \/ GateRefuses \/ GatePasses
  \/ \E c \in Candidates : Create(c)
  \/ EndMutation \/ LoseConsole
  \/ Moves

Spec == Init /\ [][Next]_vars

-----------------------------------------------------------------------------
(* Properties.                                                             *)

\* A mutation pasted over the base its pre-flight saw creates the batch that
\* was projected, all of it and nothing else, when nothing raises.
PreflightIsCreated ==
  /\ csv # NoCsv /\ projected # NoCsv
  /\ still = "preflight" /\ projected.whole /\ faults = 0
  => csv.rows = {[candidate |-> c, outcome |-> "CREATED"] : c \in projected.batch}

\* A mutation that created every row, over a base that stood still, leaves on
\* every target of a plan with override an up-to-date mirror of each deal of
\* its source set, the one the daily reconciliation will compare them with.
FirstRunCovers ==
  /\ csv # NoCsv /\ still # "neither" /\ csv.round[1] \in Override
  /\ \A r \in csv.rows : r.outcome = "CREATED"
  => \A t \in Participants[csv.round[1]] :
       \A o \in Source(csv.round[1], csv.round[2], t) :
         mirror[<<o, t>>] = [state |-> "enabled", content |-> original[o].content]

\* No batch is written over mirrors that were there before it: while one is
\* being written, an identity of the batch has a row only if this mutation
\* inserted it, whatever was pasted, lost and pasted again before.
NothingOverExisting ==
  phase = "writing" =>
    \A c \in candidates : HasRow(c[3], c[1]) =>
      \E r \in rows : r.outcome = "CREATED" /\ Id(r.candidate) = Id(c)

\* The rows of rs that say the identity of candidate c was created.
CreatedFor(rs, c) == {r \in rs : r.outcome = "CREATED" /\ Id(r.candidate) = Id(c)}

\* What rs tells of each identity in it is what the base holds: there is a
\* record just when one row, and no other, says CREATED, and when nothing has
\* raised there is one.
Tells(rs) ==
  \A r \in rs :
    /\ HasRow(r.candidate[3], r.candidate[1]) <=> CreatedFor(rs, r.candidate) # {}
    /\ \A x, y \in CreatedFor(rs, r.candidate) : x = y
    /\ faults = 0 => CreatedFor(rs, r.candidate) # {}

\* The CSV of a mutation accounts for the base identity by identity, though a
\* sale two variables select is in the batch twice, the second insert is refused
\* and any insert may be, and the base moves between the gate and the writes.
EachIdentityOnce == csv # NoCsv => Tells(csv.rows)
=============================================================================
