------------------------------ MODULE Removal ------------------------------
(***************************************************************************)
(* Taking mirrors out again: 06-desativacao.rb disables the mirrors of a   *)
(* plan, 08-limpeza-duplicados.rb destroys those whose sale already reaches*)
(* the target through an Indicator row of its seller, 09-restauracao.rb    *)
(* recreates mirrors from the CSV of a removal.  They start from whatever  *)
(* mirrors 04 and 10 left on the targets.                                  *)
(***************************************************************************)
EXTENDS DealBase

CONSTANTS
  Plan, Period,     \* plan_id and competence_period_id of the three scripts
  RevenueVariable,  \* revenue_variable_id of 08
  MaxFaults,        \* bound on refused writes, exceptions and lost consoles
  MaxPastes,        \* bound on scripts pasted
  NoContent,        \* the columns of a row that raised are empty
  NoCsv             \* no CSV

ASSUME RemovalAssumption ==
  /\ Plan \in Plans /\ Period \in Periods
  /\ RevenueVariable \in PlanVariables[Plan]
  /\ MaxFaults \in Nat /\ MaxPastes \in Nat
  /\ NoContent \notin Contents

VARIABLES
  script,        \* what is pasted in the console
  phase,         \* where it is
  waiting,       \* targets 08 has not classified
  duplicated,    \* mirrors 08 has classified as duplicated
  unresolved,    \* 08 could not classify a mirror or a target
  todo,          \* what the write loop has left: mirrors, or rows of audit
  rows,          \* the CSV rows so far
  audit,         \* the CSV 09 restores from
  bucket,        \* the CSVs of 06 and 08 that reached S3
  restored,      \* the CSV whose restore has just ended without a failure
  faults,        \* how many faults happened
  pastes,        \* how many scripts were pasted
  before,        \* history: the mirrors when the script was pasted
  quiet          \* history: the base has stood still since then

runVars == <<script, phase, waiting, duplicated, unresolved, todo, rows, audit>>
vars == <<sourceVars, mirror, runVars, bucket, restored, faults, pastes, before,
          quiet>>

Rows == [mirror : Identities, content : Contents \cup {NoContent},
         outcome : {"DISABLED", "DESTROYED", "RESTORED", "FAILED", "ERROR"}]
Mirrors == [Identities -> MirrorState]
Csvs == [script : {"deactivation", "cleanup"}, rows : SUBSET Rows, before : Mirrors]

TypeOK ==
  /\ BaseTypeOK
  /\ script \in {"none", "deactivation", "cleanup", "restore"}
  /\ phase \in {"idle", "classifying", "writing"}
  /\ waiting \subseteq Participants[Plan]
  /\ duplicated \subseteq Identities
  /\ unresolved \in BOOLEAN
  /\ todo \subseteq IF script = "restore" THEN Rows ELSE Identities
  /\ rows \subseteq Rows
  /\ audit \in Csvs \cup {NoCsv}
  /\ bucket \subseteq Csvs
  /\ restored \in Csvs \cup {NoCsv}
  /\ faults \in 0 .. MaxFaults
  /\ pastes \in 0 .. MaxPastes
  /\ before \in Mirrors
  /\ quiet \in BOOLEAN

\* 04 and 10 mirrored some deals on the targets of the plan, from what the
\* originals held then, and 10 may have disabled some since.
Mirrored ==
  mirror \in {f \in Mirrors :
    \A i \in Identities :
      \/ f[i] = NoMirror
      \/ /\ f[i].state # "absent" /\ PeriodOf[f[i].content] = Period
         /\ i[2] \in Participants[Plan] /\ i \notin TooLong
         /\ SellerOf[i[1]] # i[2]}

Init ==
  /\ original \in [Originals -> DealState]
  /\ subtree \in Hierarchies
  /\ indicators \in SUBSET CarrierRows
  /\ Mirrored
  /\ moves = 0
  /\ script = "none" /\ phase = "idle"
  /\ waiting = {} /\ duplicated = {} /\ unresolved = FALSE
  /\ todo = {} /\ rows = {} /\ audit = NoCsv
  /\ bucket = {} /\ restored = NoCsv /\ faults = 0 /\ pastes = 0
  /\ before = mirror /\ quiet = TRUE

-----------------------------------------------------------------------------
Fault == faults < MaxFaults /\ faults' = faults + 1

Paste(name) ==
  /\ phase = "idle"
  /\ pastes < MaxPastes /\ pastes' = pastes + 1
  /\ script' = name
  /\ duplicated' = {} /\ unresolved' = FALSE /\ rows' = {}
  /\ restored' = NoCsv
  /\ before' = mirror /\ quiet' = TRUE
  /\ UNCHANGED <<sourceVars, mirror, bucket, faults>>

\* Nothing pasted any more; what the script held in memory is gone.
Leave ==
  /\ script' = "none" /\ phase' = "idle"
  /\ waiting' = {} /\ duplicated' = {} /\ unresolved' = FALSE
  /\ todo' = {} /\ rows' = {} /\ audit' = NoCsv
  /\ UNCHANGED <<sourceVars, mirror, pastes, before, quiet>>

\* The write loop takes x; what the loop does not write stays.
Taking(name, x) ==
  /\ phase = "writing" /\ script = name
  /\ x \in todo
  /\ todo' = todo \ {x}
  /\ UNCHANGED <<sourceVars, script, phase, waiting, duplicated, unresolved,
                 audit, bucket, restored, pastes, before, quiet>>

Log(i, content, outcome) ==
  rows' = rows \cup {[mirror |-> i, content |-> content, outcome |-> outcome]}

-----------------------------------------------------------------------------
(* 06-desativacao.rb.                                                      *)

\* The enabled mirrors of the participants, in one query.
StartDeactivation ==
  /\ Paste("deactivation")
  /\ phase' = "writing"
  /\ todo' = {i \in Identities : i[2] \in Participants[Plan] /\ i[1] \in Live(Period, i[2])}
  /\ UNCHANGED <<waiting, audit>>

Disable(i) ==
  /\ Taking("deactivation", i)
  /\ \/ /\ mirror' = [mirror EXCEPT ![i].state = "disabled"]
        /\ Log(i, mirror[i].content, "DISABLED")
        /\ UNCHANGED faults
     \/ Log(i, mirror[i].content, "FAILED") /\ Fault /\ UNCHANGED mirror
     \/ Log(i, NoContent, "ERROR") /\ Fault /\ UNCHANGED mirror

-----------------------------------------------------------------------------
(* 08-limpeza-duplicados.rb.                                               *)

\* Faulty: the targets taken from the people below, not from the commission.
StartCleanupBelow ==
  /\ Paste("cleanup")
  /\ phase' = "classifying"
  /\ waiting' = UNION {Below(t) : t \in Participants[Plan]}
  /\ UNCHANGED <<todo, audit>>

StartCleanup ==
  /\ Paste("cleanup")
  /\ phase' = "classifying"
  /\ waiting' = Participants[Plan]
  /\ UNCHANGED <<todo, audit>>

\* Faulty: a row of any variable makes a carrier.
CleanupCarriersOfAny(t) ==
  IF Plan \in Override
  THEN {u \in subtree[t] : \E v \in Variables : <<v, u, Period>> \in indicators}
  ELSE {}

\* HierarchyScope resolves the target too, and only one variable is asked for.
CleanupCarriers(t) ==
  IF Plan \in Override
  THEN {u \in subtree[t] : <<RevenueVariable, u, Period>> \in indicators}
  ELSE {}

\* Faulty: the disabled mirrors are classified as well.
ClassifyDisabled(t) ==
  /\ phase = "classifying"
  /\ t \in waiting
  /\ waiting' = waiting \ {t}
  /\ duplicated' = duplicated \cup
       {<<o, t>> : o \in {x \in Existing(Period, t) : SellerOf[x] \in CleanupCarriers(t)}}
  /\ UNCHANGED <<sourceVars, mirror, script, phase, unresolved, todo, rows, audit,
                 bucket, restored, faults, pastes, before, quiet>>

\* Each enabled mirror of the competence goes by who sold its original.
Classify(t) ==
  /\ phase = "classifying"
  /\ t \in waiting
  /\ waiting' = waiting \ {t}
  /\ duplicated' = duplicated \cup
       {<<o, t>> : o \in {x \in Live(Period, t) : SellerOf[x] \in CleanupCarriers(t)}}
  /\ UNCHANGED <<sourceVars, mirror, script, phase, unresolved, todo, rows, audit,
                 bucket, restored, faults, pastes, before, quiet>>

\* A target that raises, or a mirror whose original is not found.
Unresolved(t) ==
  /\ phase = "classifying"
  /\ t \in waiting
  /\ Fault
  /\ waiting' = waiting \ {t}
  /\ unresolved' = TRUE
  /\ UNCHANGED <<sourceVars, mirror, script, phase, duplicated, todo, rows, audit,
                 bucket, restored, pastes, before, quiet>>

CleanupRefused ==
  /\ phase = "classifying" /\ waiting = {} /\ unresolved
  /\ Leave
  /\ UNCHANGED <<bucket, restored, faults>>

CleanupAllowed ==
  /\ phase = "classifying" /\ waiting = {} /\ ~unresolved
  /\ phase' = "writing"
  /\ todo' = duplicated
  /\ UNCHANGED <<sourceVars, mirror, script, waiting, duplicated, unresolved, rows,
                 audit, bucket, restored, faults, pastes, before, quiet>>

\* The snapshot is taken in memory just before the row goes.
Destroy(i) ==
  /\ Taking("cleanup", i)
  /\ \/ /\ mirror' = [mirror EXCEPT ![i] = NoMirror]
        /\ Log(i, mirror[i].content, "DESTROYED")
        /\ UNCHANGED faults
     \/ Log(i, mirror[i].content, "FAILED") /\ Fault /\ UNCHANGED mirror
     \/ Log(i, NoContent, "ERROR") /\ Fault /\ UNCHANGED mirror

\* The CSV of a removal goes to S3 after every write, or fails to.
EndRemoval ==
  /\ phase = "writing" /\ script # "restore" /\ todo = {}
  /\ Leave
  /\ \/ /\ bucket' = bucket \cup {[script |-> script, rows |-> rows, before |-> before]}
        /\ UNCHANGED faults
     \/ Fault /\ UNCHANGED bucket
  /\ UNCHANGED restored

-----------------------------------------------------------------------------
(* 09-restauracao.rb.                                                      *)

\* 06 writes eight columns, which lack three of the required nine and date.
HasColumns(c) == c.script = "cleanup"

\* A row that raised carries no external_id, so nothing exists under it.
RowExists(r) == r.content # NoContent /\ mirror[r.mirror].state # "absent"

RestoreAllowed(c) == HasColumns(c) /\ ~\E r \in c.rows : RowExists(r)

\* The two gates of the restore, over the whole CSV; refused, it ends.
StartRestore(c) ==
  /\ RestoreAllowed(c)
  /\ Paste("restore")
  /\ phase' = "writing"
  /\ audit' = c
  /\ todo' = c.rows
  /\ UNCHANGED waiting

\* Faulty: the restore copies the original as it stands now.
RestoreFromOriginal(r) ==
  /\ Taking("restore", r)
  /\ r.content # NoContent
  /\ mirror' = [mirror EXCEPT ![r.mirror] =
                  [state |-> "enabled", content |-> original[r.mirror[1]].content]]
  /\ Log(r.mirror, r.content, "RESTORED")
  /\ UNCHANGED faults

\* The row is recreated as the CSV has it, enabled.  One with no identity is
\* refused by the validations.
Restore(r) ==
  /\ Taking("restore", r)
  /\ \/ /\ r.content # NoContent
        /\ mirror' = [mirror EXCEPT ![r.mirror] =
                        [state |-> "enabled", content |-> r.content]]
        /\ Log(r.mirror, r.content, "RESTORED")
        /\ UNCHANGED faults
     \/ /\ r.content = NoContent
        /\ Log(r.mirror, r.content, "FAILED")
        /\ UNCHANGED <<mirror, faults>>
     \/ /\ \E out \in {"FAILED", "ERROR"} : Log(r.mirror, r.content, out)
        /\ Fault
        /\ UNCHANGED mirror

\* Its own CSV is not one of those it can restore from.
EndRestore ==
  /\ phase = "writing" /\ script = "restore" /\ todo = {}
  /\ Leave
  /\ restored' = IF \A r \in rows : r.outcome = "RESTORED" THEN audit ELSE NoCsv
  /\ UNCHANGED <<bucket, faults>>

LoseConsole ==
  /\ phase # "idle"
  /\ Fault
  /\ Leave
  /\ UNCHANGED <<bucket, restored>>

Moves ==
  /\ Environment
  /\ quiet' = FALSE
  /\ UNCHANGED <<mirror, runVars, bucket, restored, faults, pastes, before>>

Next ==
  \/ StartDeactivation \/ StartCleanup
  \/ \E c \in bucket : StartRestore(c)
  \/ \E t \in Targets : Classify(t) \/ Unresolved(t)
  \/ CleanupRefused \/ CleanupAllowed
  \/ \E i \in Identities : Disable(i) \/ Destroy(i)
  \/ \E r \in todo : Restore(r)
  \/ EndRemoval \/ EndRestore \/ LoseConsole
  \/ Moves

Spec == Init /\ [][Next]_vars

-----------------------------------------------------------------------------
(* Properties.                                                             *)

\* While the base stands still, no write of the cleanup takes from a target, the
\* one the mirror was on or one above it, the last way by which a sale reaches
\* the variable 08 asks for: what goes is counted there twice.
RevenueKept ==
  [][\A i \in Identities :
       /\ script = "cleanup" /\ quiet /\ mirror' # mirror
       /\ Ways(Plan, Period, i[2], RevenueVariable, i[1]) # {}
       => Ways(Plan, Period, i[2], RevenueVariable, i[1])' # {}]_vars

\* PLAN.md:485 says that the cleanup "deletes only the doubled ones".  An
\* up-to-date mirror would then go only if every variable of the plan whose
\* metric selects the sale kept another way to it; but the cleanup asks for the
\* rows of one variable, whichever the mirror is there for.
OnlyDoubledGo ==
  [][\A i \in Identities, v \in PlanVariables[Plan] :
       /\ script = "cleanup" /\ quiet /\ mirror' # mirror
       /\ original[i[1]].enabled
       /\ mirror[i].content = original[i[1]].content
       /\ mirror[i].content \in Selects[v]
       /\ Ways(Plan, Period, i[2], v, i[1]) # {}
       => Ways(Plan, Period, i[2], v, i[1])' # {}]_vars

\* A restore that reports no failure puts back every mirror the removal took,
\* enabled and with the values it held then, whatever the sales did since.
RestoreUndoes ==
  restored # NoCsv =>
    \A r \in restored.rows : mirror[r.mirror] = restored.before[r.mirror]

\* A mirror that was disabled stays as it is through cleanups and restores,
\* so that enable can still put it back.
DisabledIsKept ==
  [][\A i \in Identities : mirror[i].state = "disabled" => mirror'[i] = mirror[i]]_vars
=============================================================================
