--------------------------- MODULE Reconciliation ---------------------------
(***************************************************************************)
(* 10-reconciliacao.rb: compares the source set of every target of a plan  *)
(* with the mirrors the target holds and applies the difference, record by *)
(* record, with no transaction and while the base keeps moving.  With      *)
(* dry_run it only reports.  12-verificacao.rb re-reads what it wrote.     *)
(*                                                                         *)
(* plan_ids.each runs one independent pass per plan, with its own rows,    *)
(* counters and CSV, so a pass here is one plan in one competence.         *)
(***************************************************************************)
EXTENDS DealBase

CONSTANTS
  MaxFaults,     \* bound on refused writes, exceptions and lost consoles
  NoJob,         \* no pass is running
  NoTarget,      \* no target is being handled
  NoCsv          \* no audit CSV of that kind is at hand

ASSUME ReconciliationAssumption ==
  /\ MaxFaults \in Nat
  /\ NoTarget \notin Targets

VARIABLES
  job,           \* the pass: plan, competence and dry_run
  phase,         \* where the pass is
  waiting,       \* targets the pass has not reached
  target,        \* the target being handled
  reach,         \* whom UserScope and the PAP leaders resolved for the target
  unread,        \* variables whose source is still to be queried
  expected,      \* expected_originals of the target
  existing,      \* existing_mirrors of the target
  todo,          \* what the running loop has left
  rows,          \* the CSV rows so far
  counts,        \* the printed counters
  faults,        \* how many faults happened
  report,        \* the CSV of the last dry run, per plan and competence
  csv,           \* the CSV of the apply that has just ended
  quiet,         \* history: the environment has not moved since the pass began
  fresh,         \* history: the complete reports no move has made old
  skipped,       \* history: the pass lost a target to an exception
  streak         \* history: clean passes in a row, with no move in between

loopVars == <<waiting, target, reach, unread, expected, existing, todo>>
bookVars == <<rows, counts>>
passVars == <<job, phase, loopVars, bookVars, faults, report, csv, skipped>>
historyVars == <<quiet, fresh, streak>>
vars == <<sourceVars, mirror, passVars, historyVars>>

Rounds == Plans \X Periods
Counters == {"CREATE", "UPDATE", "ENABLE", "DISABLE", "UNCHANGED",
             "EXPECTED", "EXISTING"}
Jobs == [plan : Plans, period : Periods, dry : BOOLEAN]
RowActions == {"CREATE", "UPDATE", "ENABLE", "DISABLE", "EXPECTED", "ORPHAN"}
Outcomes == {"PLANNED", "DONE", "FAILED", "REFUSED", "ERROR"}
Rows == [action : RowActions, deal : Originals, target : Targets,
         outcome : Outcomes]
\* What a row says was, or would be, done; whatever came of it.
Deltas == [action : RowActions, deal : Originals, target : Targets]

\* Nobody resolved.
NoReach == [below |-> {}, pap |-> {}]

TypeOK ==
  /\ BaseTypeOK
  /\ job \in Jobs \cup {NoJob}
  /\ phase \in {"idle", "next", "reading", "expected", "orphans", "closing"}
  /\ waiting \subseteq Targets
  /\ target \in Targets \cup {NoTarget}
  /\ reach \in [below : SUBSET Users, pap : SUBSET Users]
  /\ unread \subseteq Variables
  /\ expected \subseteq Originals
  /\ existing \subseteq Originals
  /\ todo \subseteq Originals
  /\ rows \subseteq Rows
  /\ counts \in [Counters -> Nat]
  /\ faults \in 0 .. MaxFaults
  /\ report \in [Rounds -> (SUBSET Deltas) \cup {NoCsv}]
  /\ csv \in [round : Rounds, rows : SUBSET Rows, complete : BOOLEAN] \cup {NoCsv}
  /\ quiet \in BOOLEAN
  /\ fresh \subseteq Rounds
  /\ skipped \in BOOLEAN
  /\ streak \in [Rounds -> 0 .. 2]

Init ==
  /\ BaseInit
  /\ job = NoJob /\ phase = "idle"
  /\ waiting = {} /\ target = NoTarget /\ reach = NoReach /\ unread = {}
  /\ expected = {} /\ existing = {} /\ todo = {}
  /\ rows = {} /\ counts = [c \in Counters |-> 0] /\ faults = 0
  /\ report = [r \in Rounds |-> NoCsv] /\ csv = NoCsv
  /\ quiet = TRUE /\ fresh = {} /\ skipped = FALSE
  /\ streak = [r \in Rounds |-> 0]

-----------------------------------------------------------------------------
Round == <<job.plan, job.period>>
Id(o) == <<o, target>>
Delta(csvRows) == {[action |-> r.action, deal |-> r.deal, target |-> r.target] :
                     r \in csvRows}

Fault == faults < MaxFaults /\ faults' = faults + 1

\* One more on each of the named counters.
Count(names) == counts' = [c \in Counters |->
                             IF c \in names THEN counts[c] + 1 ELSE counts[c]]

Log(action, o, outcome) ==
  rows' = rows \cup {[action |-> action, deal |-> o, target |-> target,
                      outcome |-> outcome]}

\* Faulty: the targets taken from the people below, not from the commission.
StartPassBelow(p, per, dry) ==
  /\ phase = "idle"
  /\ ~dry => report[<<p, per>>] # NoCsv
  /\ job' = [plan |-> p, period |-> per, dry |-> dry]
  /\ phase' = "next"
  /\ waiting' = UNION {Below(t) : t \in Participants[p]}
  /\ csv' = NoCsv /\ quiet' = TRUE /\ skipped' = FALSE
  /\ UNCHANGED <<sourceVars, mirror, target, reach, unread, expected, existing,
                 todo, bookVars, faults, report, fresh, streak>>

\* A pass is pasted with dry_run first and applied only after its report;
\* the verification of an apply comes before anything else is pasted.
StartPass(p, per, dry) ==
  /\ phase = "idle"
  /\ ~dry => report[<<p, per>>] # NoCsv
  /\ job' = [plan |-> p, period |-> per, dry |-> dry]
  /\ phase' = "next"
  /\ waiting' = Participants[p]
  /\ csv' = NoCsv
  /\ quiet' = TRUE
  /\ skipped' = FALSE
  /\ UNCHANGED <<sourceVars, mirror, target, reach, unread, expected, existing,
                 todo, bookVars, faults, report, fresh, streak>>

ReachOf(t) == [below |-> Below(t), pap |-> PapPopulation(t)]

BeginTarget(t) ==
  /\ phase = "next"
  /\ t \in waiting
  /\ phase' = "reading"
  /\ target' = t
  /\ waiting' = waiting \ {t}
  /\ reach' = ReachOf(t)
  /\ unread' = PlanVariables[job.plan]
  /\ UNCHANGED <<sourceVars, mirror, job, expected, existing, todo, bookVars,
                 faults, report, csv, skipped, historyVars>>

\* One variable's carriers and originals are queried at a time, among the people
\* resolved when the target was begun.
ReadVariable(v) ==
  /\ phase = "reading"
  /\ v \in unread
  /\ unread' = unread \ {v}
  /\ expected' = expected \cup
       SelectedFrom(job.plan, job.period, v, reach.below, reach.pap)
  /\ UNCHANGED <<sourceVars, mirror, job, phase, waiting, target, reach,
                 existing, todo, bookVars, faults, report, csv, skipped, historyVars>>

ReadMirrors ==
  /\ phase = "reading"
  /\ unread = {}
  /\ reach' = NoReach
  /\ existing' = Existing(job.period, target)
  /\ todo' = expected
  /\ phase' = "expected"
  /\ counts' = [counts EXCEPT !["EXPECTED"] = @ + Cardinality(expected),
                              !["EXISTING"] = @ + Cardinality(existing')]
  /\ UNCHANGED <<sourceVars, mirror, job, waiting, target, unread, expected,
                 rows, faults, report, csv, skipped, historyVars>>

\* An exception while the target is being read skips it: it is printed and
\* the pass goes on with the next one.
SkipTarget ==
  /\ phase = "reading"
  /\ Fault
  /\ phase' = "next"
  /\ skipped' = TRUE
  /\ target' = NoTarget /\ reach' = NoReach /\ unread' = {} /\ expected' = {}
  /\ UNCHANGED <<sourceVars, mirror, job, waiting, existing, todo, bookVars,
                 report, csv, historyVars>>

-----------------------------------------------------------------------------
(* The loop over expected_originals.                                       *)

Taking(loop, o) ==
  /\ phase = loop
  /\ o \in todo
  /\ todo' = todo \ {o}
  /\ UNCHANGED <<sourceVars, job, phase, waiting, target, reach, unread, expected,
                 existing, report, csv, skipped, historyVars>>

\* Faulty: the dry_run branch comes after the write.
WriteFirst(action, onError, o, written) ==
  /\ Count({action})
  /\ Log(action, o, IF job.dry THEN "PLANNED" ELSE "DONE")
  /\ mirror' = written
  /\ UNCHANGED faults

\* Faulty: the dry_run branch is taken by the apply as well.
WriteNever(action, onError, o, written) ==
  /\ Count({action})
  /\ Log(action, o, "PLANNED")
  /\ UNCHANGED <<mirror, faults>>

\* A write that takes (written) or that is refused or raises.
Write(action, onError, o, written) ==
  /\ Count({action})
  /\ \/ ~job.dry /\ Log(action, o, "DONE") /\ mirror' = written
        /\ UNCHANGED faults
     \/ ~job.dry /\ Log(action, o, "FAILED") /\ Fault /\ UNCHANGED mirror
     \/ ~job.dry /\ Log(onError, o, "ERROR") /\ Fault /\ UNCHANGED mirror
     \/ job.dry /\ Log(action, o, "PLANNED") /\ UNCHANGED <<mirror, faults>>

\* Deal.find of the original or of the mirror raises.
LookupFails(loop, onError, o) ==
  /\ Taking(loop, o)
  /\ Log(onError, o, "ERROR")
  /\ Fault
  /\ UNCHANGED <<mirror, counts>>

RefuseLong(o) ==
  /\ Taking("expected", o)
  /\ o \notin existing
  /\ Id(o) \in TooLong
  /\ Count({"CREATE"})
  /\ Log("CREATE", o, "REFUSED")
  /\ UNCHANGED <<mirror, faults>>

\* The original is read again, so what is copied is what it holds now.
Copied(o) == [state |-> "enabled", content |-> original[o].content]

Create(o) ==
  /\ Taking("expected", o)
  /\ o \notin existing
  /\ Id(o) \notin TooLong
  /\ ~HasRow(o, target)
  /\ Write("CREATE", "EXPECTED", o, [mirror EXCEPT ![Id(o)] = Copied(o)])

\* Faulty: what save returns is not looked at.
CreateUnnoticed(o) ==
  /\ Taking("expected", o)
  /\ o \notin existing
  /\ Id(o) \notin TooLong
  /\ HasRow(o, target)
  /\ Count({"CREATE"})
  /\ Log("CREATE", o, IF job.dry THEN "PLANNED" ELSE "DONE")
  /\ UNCHANGED <<mirror, faults>>

\* The identity exists dated outside the competence: the query for existing
\* mirrors did not see it and the unique index refuses the insert.
CreateCollides(o) ==
  /\ Taking("expected", o)
  /\ o \notin existing
  /\ Id(o) \notin TooLong
  /\ HasRow(o, target)
  /\ Count({"CREATE"})
  /\ Log("CREATE", o, IF job.dry THEN "PLANNED" ELSE "FAILED")
  /\ UNCHANGED <<mirror, faults>>

\* enable puts the row back; the differences are logged, not written.
Enable(o) ==
  /\ Taking("expected", o)
  /\ o \in existing
  /\ mirror[Id(o)].state = "disabled"
  /\ Write("ENABLE", "EXPECTED", o,
           [mirror EXCEPT ![Id(o)].state = "enabled"])

\* Faulty: an enabled mirror is not compared with its original.
KeepUncompared(o) ==
  /\ Taking("expected", o)
  /\ o \in existing
  /\ mirror[Id(o)].state = "enabled"
  /\ Count({"UNCHANGED"})
  /\ UNCHANGED <<mirror, rows, faults>>

Keep(o) ==
  /\ Taking("expected", o)
  /\ o \in existing
  /\ mirror[Id(o)].state = "enabled"
  /\ mirror[Id(o)].content = original[o].content
  /\ Count({"UNCHANGED"})
  /\ UNCHANGED <<mirror, rows, faults>>

Update(o) ==
  /\ Taking("expected", o)
  /\ o \in existing
  /\ mirror[Id(o)].state = "enabled"
  /\ mirror[Id(o)].content # original[o].content
  /\ Write("UPDATE", "EXPECTED", o,
           [mirror EXCEPT ![Id(o)].content = original[o].content])

\* Faulty: what is expected is not taken out of what exists.
BeginOrphansAll ==
  /\ phase = "expected"
  /\ todo = {}
  /\ phase' = "orphans"
  /\ todo' = existing
  /\ UNCHANGED <<sourceVars, mirror, job, waiting, target, reach, unread, expected,
                 existing, bookVars, faults, report, csv, skipped, historyVars>>

BeginOrphans ==
  /\ phase = "expected"
  /\ todo = {}
  /\ phase' = "orphans"
  /\ todo' = existing \ expected
  /\ UNCHANGED <<sourceVars, mirror, job, waiting, target, reach, unread, expected,
                 existing, bookVars, faults, report, csv, skipped, historyVars>>

-----------------------------------------------------------------------------
(* The loop over the orphans.                                              *)

\* Faulty: the orphan already disabled is not counted.
LeaveDisabledUncounted(o) ==
  /\ Taking("orphans", o)
  /\ mirror[Id(o)].state = "disabled"
  /\ UNCHANGED <<mirror, rows, faults, counts>>

LeaveDisabled(o) ==
  /\ Taking("orphans", o)
  /\ mirror[Id(o)].state = "disabled"
  /\ Count({"UNCHANGED"})
  /\ UNCHANGED <<mirror, rows, faults>>

\* Faulty: an orphan is destroyed.
DisableByDestroy(o) ==
  /\ Taking("orphans", o)
  /\ mirror[Id(o)].state = "enabled"
  /\ Write("DISABLE", "ORPHAN", o,
           [mirror EXCEPT ![Id(o)].state = "absent"])

Disable(o) ==
  /\ Taking("orphans", o)
  /\ mirror[Id(o)].state = "enabled"
  /\ Write("DISABLE", "ORPHAN", o,
           [mirror EXCEPT ![Id(o)].state = "disabled"])

EndTarget ==
  /\ phase = "orphans"
  /\ todo = {}
  /\ phase' = "next"
  /\ target' = NoTarget /\ expected' = {} /\ existing' = {}
  /\ UNCHANGED <<sourceVars, mirror, job, waiting, reach, unread, todo, bookVars,
                 faults, report, csv, skipped, historyVars>>

EndTargets ==
  /\ phase = "next"
  /\ waiting = {}
  /\ phase' = "closing"
  /\ UNCHANGED <<sourceVars, mirror, job, loopVars, bookVars, faults, report,
                 csv, skipped, historyVars>>

-----------------------------------------------------------------------------
(* The end of a pass.                                                      *)

Undone == {r \in rows : r.outcome \in {"FAILED", "ERROR"}}
\* Every record of every target was handled, against one state of the base.
Clean == quiet /\ ~skipped /\ Undone = {}

Reset ==
  /\ job' = NoJob /\ phase' = "idle"
  /\ waiting' = {} /\ target' = NoTarget /\ reach' = NoReach /\ unread' = {}
  /\ expected' = {} /\ existing' = {} /\ todo' = {}
  /\ rows' = {} /\ counts' = [c \in Counters |-> 0] /\ skipped' = FALSE

\* How the round of the pass counts for the history once the pass is over.
Record(clean) ==
  streak' = IF job.dry THEN streak
            ELSE [streak EXCEPT ![Round] =
                    IF ~clean THEN 0 ELSE IF @ = 2 THEN 2 ELSE @ + 1]

\* The counters are printed, then the CSV goes to S3, or fails to.
Close ==
  /\ phase = "closing"
  /\ Reset
  /\ Record(Clean)
  /\ \/ /\ job.dry
        /\ report' = [report EXCEPT ![Round] = Delta(rows)]
        /\ fresh' = IF Clean THEN fresh \cup {Round} ELSE fresh \ {Round}
        /\ UNCHANGED <<csv, faults>>
     \/ /\ ~job.dry
        /\ csv' = [round |-> Round, rows |-> rows, complete |-> ~skipped]
        /\ report' = [report EXCEPT ![Round] = NoCsv]
        /\ fresh' = fresh \ {Round}
        /\ UNCHANGED faults
     \/ /\ Fault
        /\ report' = IF job.dry THEN report ELSE [report EXCEPT ![Round] = NoCsv]
        /\ fresh' = IF job.dry THEN fresh ELSE fresh \ {Round}
        /\ UNCHANGED csv
  /\ UNCHANGED <<sourceVars, mirror, quiet>>

\* The console is a remote task: losing it ends the pass where it is, with
\* what it wrote in the base and no CSV.
LoseConsole ==
  /\ phase \notin {"idle", "closing"}
  /\ Fault
  /\ Reset
  /\ Record(FALSE)
  /\ report' = IF job.dry THEN report ELSE [report EXCEPT ![Round] = NoCsv]
  /\ fresh' = IF job.dry THEN fresh ELSE fresh \ {Round}
  /\ UNCHANGED <<sourceVars, mirror, csv, quiet>>

Expectation(o) == \/ LookupFails("expected", "EXPECTED", o)
                  \/ RefuseLong(o) \/ Create(o) \/ CreateCollides(o)
                  \/ Enable(o) \/ Keep(o) \/ Update(o)

Orphan(o) == \/ LookupFails("orphans", "ORPHAN", o)
             \/ LeaveDisabled(o) \/ Disable(o)

Moves ==
  /\ Environment
  /\ quiet' = FALSE
  /\ fresh' = {}
  /\ streak' = [r \in Rounds |-> 0]
  /\ UNCHANGED <<mirror, passVars>>

Step ==
  \/ \E t \in Targets : BeginTarget(t)
  \/ \E v \in Variables : ReadVariable(v)
  \/ ReadMirrors
  \/ SkipTarget
  \/ \E o \in Originals : Expectation(o) \/ Orphan(o)
  \/ BeginOrphans
  \/ EndTarget
  \/ EndTargets
  \/ Close

Next ==
  \/ \E p \in Plans, per \in Periods, dry \in BOOLEAN : StartPass(p, per, dry)
  \/ Step
  \/ LoseConsole
  \/ Moves

Spec == Init /\ [][Next]_vars

\* The script runs to its end once pasted, and the routine is run again and
\* again on every plan ("that is why this runs daily").
Fairness ==
  /\ WF_vars(Step)
  /\ \A p \in Plans, per \in Periods, dry \in BOOLEAN :
       SF_vars(StartPass(p, per, dry))

FairSpec == Spec /\ Fairness

-----------------------------------------------------------------------------
(* 12-verificacao.rb over the CSV of the apply.                            *)

\* Faulty: the mirror is not compared with its original.
RowPassesUncompared(r) ==
  LET m == mirror[<<r.deal, r.target>>] IN
  /\ r.action # "EXPECTED"
  /\ r.action = "CREATE" => r.outcome = "DONE"
  /\ r.action \in {"CREATE", "UPDATE", "ENABLE"} => m.state = "enabled"
  /\ r.action = "DISABLE" => m.state = "disabled"

\* A CREATE that did not take and an EXPECTED row carry no mirror_deal_id.
\* An ORPHAN row carries one, and no branch of the case looks at it.
RowPasses(r) ==
  LET m == mirror[<<r.deal, r.target>>] IN
  /\ r.action # "EXPECTED"
  /\ r.action = "CREATE" => r.outcome = "DONE"
  /\ r.action \in {"CREATE", "UPDATE", "ENABLE"} =>
       m.state = "enabled" /\ m.content = original[r.deal].content
  /\ r.action = "DISABLE" => m.state = "disabled"

\* Run now, the verification prints FAIL@0.
VerificationPasses == csv # NoCsv /\ \A r \in csv.rows : RowPasses(r)

-----------------------------------------------------------------------------
(* Properties.                                                             *)

\* The enabled mirrors of every target are the copies of its source set.
InLine(p, per) ==
  \A t \in Participants[p] :
    /\ Live(per, t) = {o \in Source(p, per, t) : <<o, t>> \notin TooLong}
    /\ \A o \in Live(per, t) : mirror[<<o, t>>].content = original[o].content

\* Two clean applies in a row, with a base that stood still, leave the mirrors
\* of the plan exactly in line with the source (the "two passes" of PLAN.md).
TwoPassesAlign == \A r \in Rounds : streak[r] = 2 => InLine(r[1], r[2])

\* While the base stands still, no step of a pass takes down the enabled
\* mirror of a deal that belongs to the source set of its target.
LegitimateMirrorStays ==
  [][\A i \in Identities :
       /\ job # NoJob /\ quiet
       /\ i[2] \in Participants[job.plan]
       /\ i[1] \in Source(job.plan, job.period, i[2])
       /\ mirror[i].state = "enabled"
       => mirror'[i].state = "enabled"]_vars

\* The two sums of PLAN.md close at the end of every pass that met no
\* exception: the deals on each side were all counted, and once.
DeltaCloses ==
  LET parked == counts["CREATE"] + counts["ENABLE"] + counts["UPDATE"]
                  + counts["UNCHANGED"] - counts["EXPECTED"] IN
  phase = "closing" /\ (\A r \in rows : r.outcome # "ERROR") =>
    /\ counts["EXISTING"] = counts["UNCHANGED"] + counts["UPDATE"]
                              + counts["ENABLE"] + counts["DISABLE"]
    /\ parked \in 0 .. counts["UNCHANGED"]

\* The apply writes the delta the dry run reported when the base stood still
\* since the dry run began: nothing a pass writes changes what it has still
\* to decide, on this target or the next.
QuietApplyMatchesReport ==
  /\ phase = "closing" /\ ~job.dry /\ quiet /\ Round \in fresh /\ ~skipped
  /\ \A r \in rows : r.outcome # "ERROR"
  => Delta(rows) = report[Round]

\* When the verification passes right after an apply over a base that stood
\* still, with no target lost and no orphan that raised, the plan is in line.
VerifiedMeansInLine ==
  /\ VerificationPasses /\ quiet /\ csv.complete
  /\ \A r \in csv.rows : r.action # "ORPHAN"
  => InLine(csv.round[1], csv.round[2])

\* In a plan brought in line, each sale of the subtree that a variable's
\* metric selects reaches the target exactly once.
CountedOnce ==
  \A r \in Rounds : streak[r] = 2 =>
    \A t \in Participants[r[1]], v \in PlanVariables[r[1]] :
      <<r[1], v>> \notin PapVariables =>
        \A o \in DealsOf(Below(t), r[2], v) :
          <<o, t>> \notin TooLong => Cardinality(Ways(r[1], r[2], t, v, o)) = 1

\* In a plan brought in line, what a PAP-restricted variable counts on a
\* target was sold under a PAP leader who is below that target.
PapCutHolds ==
  \A r \in Rounds : streak[r] = 2 =>
    \A t \in Participants[r[1]], v \in PlanVariables[r[1]] :
      <<r[1], v>> \in PapVariables =>
        \A o \in Live(r[2], t) : mirror[<<o, t>>].content \in Selects[v] =>
          \E l \in PapLeaders : l \in Below(t) /\ SellerOf[o] \in subtree[l]

Lifecycle == INSTANCE MirrorLifecycle

\* Seen from the mirrors alone, the reconciliation only inserts, refreshes,
\* disables and enables copies of the originals: it never destroys one, and
\* what it writes is what the original holds at that instant.
RefinesLifecycle == Lifecycle!Spec

\* Once the base stops moving, repeated passes bring every plan in line and
\* it stays so.
EventuallyInLine == <>[](\A r \in Rounds : InLine(r[1], r[2]))
=============================================================================
