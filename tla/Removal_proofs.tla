--------------------------- MODULE Removal_proofs ---------------------------
(***************************************************************************)
(* Proofs about the removal and the restore of mirrors, for any mirrors to *)
(* start from, any company and any order of pastes and faults.             *)
(***************************************************************************)
EXTENDS Removal, TLAPS

Standing(content) == [state |-> "enabled", content |-> content]

\* The rows of a cleanup describe mirrors that stood enabled when it began.
Faithful(rs, old) ==
  \A r \in rs : r.content # NoContent => old[r.mirror] = Standing(r.content)

Places ==
  /\ phase = "idle" => script = "none" /\ todo = {}
  /\ phase = "classifying" => script = "cleanup"
  /\ phase = "writing" => script # "none"
  /\ restored # NoCsv => phase = "idle"

\* 06 has only enabled mirrors left to disable.
DeactivationHolds == script = "deactivation" => \A i \in todo : mirror[i].state = "enabled"

\* 08 found its mirrors enabled, and those it has not reached are as they were.
CleanupHolds ==
  script = "cleanup" =>
    /\ phase = "classifying" => mirror = before
    /\ phase = "writing" => todo \subseteq duplicated
    /\ \A i \in duplicated : before[i].state = "enabled"
    /\ phase = "writing" => \A i \in todo : mirror[i] = before[i]
    /\ Faithful(rows, before)

\* Each row 09 is done with is back, or is logged as a failure.
RestoreHolds ==
  script = "restore" =>
    /\ audit \in Csvs /\ audit.script = "cleanup"
    /\ Faithful(audit.rows, audit.before)
    /\ todo \subseteq audit.rows
    /\ \A r \in todo : r.content # NoContent => mirror[r.mirror].state # "disabled"
    /\ \A r \in audit.rows :
         \/ r \in todo
         \/ \E q \in rows : q.outcome # "RESTORED"
         \/ r.content # NoContent /\ mirror[r.mirror] = Standing(r.content)

BucketFaithful == \A c \in bucket : c.script = "cleanup" => Faithful(c.rows, c.before)

RemovalInv ==
  /\ TypeOK /\ Places
  /\ DeactivationHolds /\ CleanupHolds /\ RestoreHolds /\ BucketFaithful
  /\ RestoreUndoes

LEMMA InitRemoval == Init => RemovalInv
<1> SUFFICES ASSUME Init PROVE RemovalInv
  OBVIOUS
<1>1. mirror \in Mirrors /\ before = mirror
  <2>1. PICK f \in Mirrors : mirror = f
    BY DEF Init, Mirrored
  <2> QED
    BY <2>1 DEF Init
<1>2. BaseTypeOK
  <2>1. moves \in 0 .. MaxMoves
    BY BaseAssumption DEF Init
  <2> QED
    BY <1>1, <2>1 DEF Init, BaseTypeOK, Mirrors
<1>3. faults \in 0 .. MaxFaults /\ pastes \in 0 .. MaxPastes
  BY RemovalAssumption DEF Init
<1>4. TypeOK
  BY <1>1, <1>2, <1>3 DEF Init, TypeOK
<1> QED
  BY <1>4 DEF Init, RemovalInv, Places, DeactivationHolds, CleanupHolds, RestoreHolds,
     BucketFaithful, RestoreUndoes

-----------------------------------------------------------------------------
(* Ends of scripts, and the base moving.                                   *)

LEMMA LeaveType ==
  ASSUME TypeOK, Leave, bucket' \subseteq Csvs, restored' \in Csvs \cup {NoCsv},
         faults' \in 0 .. MaxFaults
  PROVE  TypeOK'
BY DEF TypeOK, BaseTypeOK, Leave, sourceVars

LEMMA FaultType ==
  ASSUME TypeOK, Fault
  PROVE  faults' \in 0 .. MaxFaults
BY RemovalAssumption DEF TypeOK, Fault

LEMMA LeaveRemoval ==
  ASSUME RemovalInv, Leave, bucket' \subseteq Csvs, restored' \in Csvs \cup {NoCsv},
         faults' \in 0 .. MaxFaults, BucketFaithful', RestoreUndoes'
  PROVE  RemovalInv'
<1>1. TypeOK'
  BY LeaveType DEF RemovalInv
<1> QED
  BY <1>1 DEF RemovalInv, Leave, Places, DeactivationHolds, CleanupHolds, RestoreHolds

LEMMA LeaveQuietly ==
  ASSUME RemovalInv, Leave, UNCHANGED <<bucket, restored>>, faults' \in 0 .. MaxFaults
  PROVE  RemovalInv'
<1>1. bucket' \subseteq Csvs /\ restored' \in Csvs \cup {NoCsv}
  BY DEF RemovalInv, TypeOK
<1>2. BucketFaithful' /\ RestoreUndoes'
  BY DEF RemovalInv, BucketFaithful, Faithful, RestoreUndoes, Leave
<1> QED
  BY <1>1, <1>2, LeaveRemoval

LEMMA MovesRemoval ==
  ASSUME RemovalInv, Moves
  PROVE  RemovalInv'
<1>1. BaseTypeOK'
  <2>1. moves' \in 0 .. MaxMoves
    BY BaseAssumption DEF RemovalInv, TypeOK, BaseTypeOK, Moves, Environment
  <2>2. ASSUME NEW o \in Originals, CorrectDeal(o)
        PROVE  BaseTypeOK'
    BY <2>1, <2>2 DEF RemovalInv, TypeOK, BaseTypeOK, Moves, CorrectDeal, DealState
  <2>3. ASSUME NEW o \in Originals, ToggleDeal(o)
        PROVE  BaseTypeOK'
    BY <2>1, <2>3 DEF RemovalInv, TypeOK, BaseTypeOK, Moves, ToggleDeal, DealState
  <2>4. CASE MoveSeats
    BY <2>1, <2>4 DEF RemovalInv, TypeOK, BaseTypeOK, Moves, MoveSeats
  <2>5. ASSUME NEW row \in CarrierRows, ToggleIndicator(row)
        PROVE  BaseTypeOK'
    BY <2>1, <2>5 DEF RemovalInv, TypeOK, BaseTypeOK, Moves, ToggleIndicator
  <2> QED
    BY <2>2, <2>3, <2>4, <2>5 DEF Moves, Environment
<1>2. TypeOK'
  BY <1>1 DEF RemovalInv, TypeOK, Moves, runVars
<1> QED
  BY <1>2 DEF RemovalInv, Moves, runVars, Places, DeactivationHolds, CleanupHolds,
     RestoreHolds, BucketFaithful, Faithful, RestoreUndoes

-----------------------------------------------------------------------------
(* Beginnings.                                                             *)

LEMMA PasteType ==
  ASSUME TypeOK, NEW name \in {"deactivation", "cleanup", "restore"}, Paste(name),
         phase' \in {"idle", "classifying", "writing"}, waiting' \subseteq Participants[Plan],
         todo' \subseteq (IF name = "restore" THEN Rows ELSE Identities),
         audit' \in Csvs \cup {NoCsv}
  PROVE  TypeOK'
<1>1. pastes' \in 0 .. MaxPastes
  BY RemovalAssumption DEF TypeOK, Paste
<1> QED
  BY <1>1 DEF TypeOK, BaseTypeOK, Paste, sourceVars, Mirrors

LEMMA StartsRemoval ==
  ASSUME RemovalInv, StartDeactivation \/ StartCleanup
  PROVE  RemovalInv'
<1> USE DEF RemovalInv
<1>1. CASE StartDeactivation
  <2>1. ASSUME NEW i \in todo'
        PROVE  i \in Identities /\ mirror[i].state = "enabled"
    <3>1. i \in Identities /\ i[1] \in Live(Period, i[2])
      BY <1>1 DEF StartDeactivation
    <3>2. i = <<i[1], i[2]>>
      BY <3>1 DEF Identities
    <3> QED
      BY <3>1, <3>2 DEF Live
  <2>2. TypeOK'
    BY <1>1, <2>1, PasteType DEF StartDeactivation, TypeOK
  <2> QED
    BY <1>1, <2>1, <2>2 DEF StartDeactivation, Paste, Places, DeactivationHolds, CleanupHolds,
       RestoreHolds, BucketFaithful, Faithful, RestoreUndoes
<1>2. CASE StartCleanup
  <2>1. TypeOK'
    BY <1>2, PasteType DEF StartCleanup, TypeOK, Paste, Places
  <2> QED
    BY <1>2, <2>1 DEF StartCleanup, Paste, Places, DeactivationHolds, CleanupHolds,
       RestoreHolds, BucketFaithful, Faithful, RestoreUndoes
<1> QED
  BY <1>1, <1>2

LEMMA StartRestoreRemoval ==
  ASSUME RemovalInv, NEW c \in bucket, StartRestore(c)
  PROVE  RemovalInv'
<1> USE DEF RemovalInv
<1>1. c \in Csvs /\ c.script = "cleanup" /\ c.rows \subseteq Rows
  BY DEF TypeOK, Csvs, StartRestore, RestoreAllowed, HasColumns
<1>2. TypeOK'
  BY <1>1, PasteType DEF StartRestore, TypeOK
<1>3. \A r \in c.rows : r.content # NoContent => mirror[r.mirror].state # "disabled"
  BY DEF StartRestore, RestoreAllowed, RowExists
<1> QED
  BY <1>1, <1>2, <1>3 DEF StartRestore, Paste, Places, DeactivationHolds, CleanupHolds,
     RestoreHolds, BucketFaithful, Faithful, RestoreUndoes

LEMMA ClassifyRemoval ==
  ASSUME RemovalInv, NEW t \in Targets, Classify(t)
  PROVE  RemovalInv'
<1> USE DEF RemovalInv
<1>1. /\ script = "cleanup" /\ phase = "classifying" /\ mirror = before
      /\ UNCHANGED <<sourceVars, mirror, script, phase, unresolved, todo, rows, audit, bucket,
                     restored, faults, pastes, before, quiet>>
  BY DEF Classify, Places, CleanupHolds
<1>2. ASSUME NEW i \in duplicated' \ duplicated
      PROVE  i \in Identities /\ before[i].state = "enabled"
  <2>1. PICK o \in Live(Period, t) : i = <<o, t>>
    BY DEF Classify
  <2>2. o \in Originals /\ mirror[<<o, t>>].state = "enabled"
    BY DEF Live, Existing
  <2> QED
    BY <1>1, <2>1, <2>2 DEF Identities
<1>3. duplicated' \subseteq Identities /\ \A i \in duplicated' : before[i].state = "enabled"
  BY <1>1, <1>2 DEF TypeOK, CleanupHolds
<1>4. TypeOK'
  BY <1>1, <1>3 DEF Classify, TypeOK, BaseTypeOK, sourceVars
<1> QED
  BY <1>1, <1>3, <1>4 DEF Classify, Places, DeactivationHolds, CleanupHolds, RestoreHolds,
     BucketFaithful, Faithful, RestoreUndoes

LEMMA ClassifiedRemoval ==
  ASSUME RemovalInv, CleanupAllowed \/ (\E t \in Targets : Unresolved(t))
  PROVE  RemovalInv'
<1> USE DEF RemovalInv
<1>1. CASE CleanupAllowed
  <2>1. script = "cleanup" /\ mirror = before
    BY <1>1 DEF CleanupAllowed, Places, CleanupHolds
  <2>2. TypeOK'
    BY <1>1, <2>1 DEF CleanupAllowed, TypeOK, BaseTypeOK, sourceVars
  <2> QED
    BY <1>1, <2>1, <2>2 DEF CleanupAllowed, Places, DeactivationHolds, CleanupHolds,
       RestoreHolds, BucketFaithful, Faithful, RestoreUndoes
<1>2. ASSUME NEW t \in Targets, Unresolved(t)
      PROVE  RemovalInv'
  <2>1. TypeOK'
    BY <1>2, FaultType DEF Unresolved, TypeOK, BaseTypeOK, sourceVars
  <2> QED
    BY <1>2, <2>1 DEF Unresolved, Places, DeactivationHolds, CleanupHolds, RestoreHolds,
       BucketFaithful, Faithful, RestoreUndoes
<1> QED
  BY <1>1, <1>2

-----------------------------------------------------------------------------
(* Writes.                                                                 *)

LEMMA LogType ==
  ASSUME TypeOK, NEW i \in Identities, NEW c \in Contents \cup {NoContent},
         NEW out \in {"DISABLED", "DESTROYED", "RESTORED", "FAILED", "ERROR"}, Log(i, c, out)
  PROVE  rows' \subseteq Rows
<1>1. [mirror |-> i, content |-> c, outcome |-> out] \in Rows
  BY DEF Rows
<1> QED
  BY <1>1 DEF TypeOK, Log

LEMMA TakingType ==
  ASSUME TypeOK, NEW name, NEW x, Taking(name, x), mirror' \in Mirrors,
         rows' \subseteq Rows, faults' \in 0 .. MaxFaults
  PROVE  TypeOK'
BY DEF TypeOK, BaseTypeOK, Taking, sourceVars, Mirrors

LEMMA HeldContent ==
  ASSUME TypeOK, NEW i \in Identities
  PROVE  mirror[i] \in MirrorState /\ mirror[i].content \in Contents \cup {NoContent}
BY DEF TypeOK, BaseTypeOK, MirrorState

LEMMA DisableRemoval ==
  ASSUME RemovalInv, NEW i \in Identities, Disable(i)
  PROVE  /\ RemovalInv'
         /\ \A j \in Identities : mirror[j].state = "disabled" => mirror'[j] = mirror[j]
<1> USE DEF RemovalInv
<1>1. Taking("deactivation", i) /\ script = "deactivation" /\ phase = "writing"
  BY DEF Disable, Taking
<1>2. mirror[i].state = "enabled" /\ restored = NoCsv
  BY <1>1 DEF DeactivationHolds, Places, Taking
<1>3. mirror \in Mirrors /\ mirror' \in Mirrors
      /\ \A j \in Identities : j # i => mirror'[j] = mirror[j]
  BY DEF Disable, TypeOK, BaseTypeOK, Mirrors, MirrorState
<1>4. faults' \in 0 .. MaxFaults
  BY FaultType DEF Disable, TypeOK
<1>5. rows' \subseteq Rows
  BY LogType, HeldContent DEF Disable
<1>6. TypeOK'
  BY <1>1, <1>3, <1>4, <1>5, TakingType
<1>7. todo \subseteq Identities
  BY <1>1 DEF TypeOK
<1>8. DeactivationHolds'
  BY <1>1, <1>3, <1>7 DEF Taking, DeactivationHolds
<1> QED
  BY <1>1, <1>2, <1>3, <1>6, <1>8 DEF Taking, Places, CleanupHolds, RestoreHolds,
     BucketFaithful, Faithful, RestoreUndoes

LEMMA DestroyRemoval ==
  ASSUME RemovalInv, NEW i \in Identities, Destroy(i)
  PROVE  /\ RemovalInv'
         /\ \A j \in Identities : mirror[j].state = "disabled" => mirror'[j] = mirror[j]
<1> USE DEF RemovalInv
<1>1. Taking("cleanup", i) /\ script = "cleanup" /\ phase = "writing"
  BY DEF Destroy, Taking
<1>2. i \in todo /\ mirror[i] = before[i] /\ before[i].state = "enabled" /\ restored = NoCsv
  BY <1>1 DEF CleanupHolds, Places, Taking
<1>3. before[i] = Standing(mirror[i].content)
  BY <1>2, HeldContent DEF MirrorState, Standing
<1>4. NoMirror \in MirrorState
  BY BaseAssumption DEF NoMirror, MirrorState
<1>5. /\ mirror \in Mirrors /\ mirror' \in Mirrors
      /\ \A j \in Identities : j # i => mirror'[j] = mirror[j]
  BY <1>4 DEF Destroy, TypeOK, BaseTypeOK, Mirrors
<1>6. faults' \in 0 .. MaxFaults
  BY FaultType DEF Destroy, TypeOK
<1>7. rows' \subseteq Rows
  BY LogType, HeldContent DEF Destroy
<1>8. TypeOK'
  BY <1>1, <1>5, <1>6, <1>7, TakingType
<1>9. Faithful(rows', before)
  BY <1>1, <1>3 DEF Destroy, Log, CleanupHolds, Faithful
<1>10. todo \subseteq Identities
  BY <1>1 DEF TypeOK
<1>11. CleanupHolds'
  BY <1>1, <1>5, <1>9, <1>10 DEF Taking, CleanupHolds, Faithful
<1> QED
  BY <1>1, <1>2, <1>5, <1>8, <1>11 DEF Taking, Places, DeactivationHolds, RestoreHolds,
     BucketFaithful, Faithful, RestoreUndoes

\* Two rows of one cleanup that name the same mirror hold the same content, so
\* a row that is recreated does not disturb the one recreated before it.
LEMMA RestoreRemoval ==
  ASSUME RemovalInv, NEW r \in todo, Restore(r)
  PROVE  /\ RemovalInv'
         /\ \A j \in Identities : mirror[j].state = "disabled" => mirror'[j] = mirror[j]
<1> USE DEF RemovalInv
<1>1. Taking("restore", r) /\ script = "restore" /\ phase = "writing"
  BY DEF Restore, Taking
<1>2. /\ audit \in Csvs /\ audit.script = "cleanup" /\ todo \subseteq audit.rows
      /\ audit.rows \subseteq Rows /\ Faithful(audit.rows, audit.before)
  BY <1>1 DEF RestoreHolds, Csvs
<1>3. r \in Rows /\ r.mirror \in Identities /\ r.content \in Contents \cup {NoContent}
  BY <1>2 DEF Rows
<1>4. r.content # NoContent => mirror[r.mirror].state # "disabled"
  BY <1>1 DEF RestoreHolds
<1>5. restored = NoCsv
  BY <1>1 DEF Places
<1>6. /\ mirror \in Mirrors
      /\ \/ mirror' = mirror
         \/ /\ r.content # NoContent
            /\ mirror' = [mirror EXCEPT ![r.mirror] = Standing(r.content)]
  BY DEF Restore, TypeOK, BaseTypeOK, Mirrors, Standing
<1>7. r.content # NoContent => Standing(r.content) \in MirrorState
  BY <1>3 DEF Standing, MirrorState
<1>8. mirror' \in Mirrors
  BY <1>6, <1>7 DEF Mirrors
<1>9. faults' \in 0 .. MaxFaults
  BY FaultType DEF Restore, TypeOK
<1>10. rows' \subseteq Rows /\ rows \subseteq rows'
  <2>1. rows \subseteq rows'
    BY DEF Restore, Log
  <2>2. rows' \subseteq Rows
    BY <1>3, LogType DEF Restore
  <2> QED
    BY <2>1, <2>2
<1>11. TypeOK'
  BY <1>1, <1>8, <1>9, <1>10, TakingType
<1>12. ASSUME NEW q \in audit.rows, q.content # NoContent, mirror[q.mirror] = Standing(q.content)
       PROVE  mirror'[q.mirror] = Standing(q.content)
  <2>1. q.mirror \in Identities
    BY <1>2 DEF Rows
  <2>2. CASE q.mirror = r.mirror /\ mirror' # mirror
    <3>1. Standing(q.content) = Standing(r.content)
      BY <1>2, <1>6, <1>12, <2>2 DEF Faithful
    <3> QED
      BY <1>6, <2>1, <2>2, <3>1 DEF Mirrors
  <2>3. CASE ~(q.mirror = r.mirror /\ mirror' # mirror)
    BY <1>6, <1>12, <2>1, <2>3 DEF Mirrors
  <2> QED
    BY <2>2, <2>3
<1>13. \/ \E q \in rows' : q.outcome # "RESTORED"
       \/ r.content # NoContent /\ mirror'[r.mirror] = Standing(r.content)
  <2>1. CASE r.content # NoContent /\ mirror' = [mirror EXCEPT ![r.mirror] =
                  [state |-> "enabled", content |-> r.content]]
    BY <1>3, <1>6, <2>1 DEF Standing, Mirrors
  <2>2. ASSUME NEW out \in {"FAILED", "ERROR"}, Log(r.mirror, r.content, out)
        PROVE  \E q \in rows' : q.outcome # "RESTORED"
    <3> DEFINE new == [mirror |-> r.mirror, content |-> r.content, outcome |-> out]
    <3>1. new \in rows'
      BY <2>2 DEF Log
    <3>2. new.outcome # "RESTORED"
      BY <2>2
    <3> QED
      BY <3>1, <3>2
  <2> QED
    BY <2>1, <2>2 DEF Restore
<1>14. ASSUME NEW q \in todo', q.content # NoContent
       PROVE  mirror'[q.mirror].state # "disabled"
  <2>1. q \in todo /\ q.mirror \in Identities
    BY <1>1, <1>2 DEF Taking, Rows
  <2>2. mirror[q.mirror].state # "disabled"
    BY <1>1, <1>14, <2>1 DEF RestoreHolds
  <2> QED
    BY <1>6, <2>1, <2>2 DEF Mirrors, Standing
<1>15. ASSUME NEW q \in audit.rows
       PROVE  \/ q \in todo'
              \/ \E x \in rows' : x.outcome # "RESTORED"
              \/ q.content # NoContent /\ mirror'[q.mirror] = Standing(q.content)
  <2>1. CASE q = r
    BY <1>13, <2>1
  <2>2. CASE q # r
    BY <1>1, <1>10, <1>12, <2>2 DEF Taking, RestoreHolds
  <2> QED
    BY <2>1, <2>2
<1>16. RestoreHolds'
  BY <1>1, <1>2, <1>14, <1>15 DEF Taking, RestoreHolds, Faithful
<1>17. \A j \in Identities : mirror[j].state = "disabled" => mirror'[j] = mirror[j]
  BY <1>3, <1>4, <1>6 DEF Mirrors
<1> QED
  BY <1>1, <1>5, <1>11, <1>16, <1>17 DEF Taking, Places, DeactivationHolds, CleanupHolds,
     BucketFaithful, Faithful, RestoreUndoes

-----------------------------------------------------------------------------
(* Ends.                                                                   *)

LEMMA EndsRemoval ==
  ASSUME RemovalInv, EndRemoval \/ EndRestore \/ CleanupRefused \/ LoseConsole
  PROVE  RemovalInv'
<1> USE DEF RemovalInv
<1>1. CASE EndRemoval
  <2>1. /\ script \in {"deactivation", "cleanup"} /\ Leave
        /\ script = "cleanup" => Faithful(rows, before)
    BY <1>1 DEF EndRemoval, TypeOK, Places, CleanupHolds
  <2>2. [script |-> script, rows |-> rows, before |-> before] \in Csvs
    BY <2>1 DEF TypeOK, Csvs
  <2>3. bucket' \subseteq Csvs /\ restored' \in Csvs \cup {NoCsv}
    BY <1>1, <2>2 DEF EndRemoval, TypeOK
  <2>4. faults' \in 0 .. MaxFaults
    BY <1>1, FaultType DEF EndRemoval, TypeOK
  <2>5. BucketFaithful'
    BY <1>1, <2>1 DEF EndRemoval, BucketFaithful, Faithful
  <2>6. RestoreUndoes'
    BY <1>1, <2>1 DEF EndRemoval, RestoreUndoes, Leave
  <2> QED
    BY <2>1, <2>3, <2>4, <2>5, <2>6, LeaveRemoval
<1>2. CASE EndRestore
  <2>1. /\ script = "restore" /\ todo = {} /\ Leave /\ audit \in Csvs
        /\ audit.script = "cleanup" /\ Faithful(audit.rows, audit.before)
    BY <1>2 DEF EndRestore, RestoreHolds
  <2>2. bucket' \subseteq Csvs /\ restored' \in Csvs \cup {NoCsv}
    BY <1>2, <2>1 DEF EndRestore, TypeOK
  <2>3. faults' \in 0 .. MaxFaults
    BY <1>2 DEF EndRestore, TypeOK
  <2>4. BucketFaithful'
    BY <1>2 DEF EndRestore, BucketFaithful, Faithful
  <2>5. ASSUME restored' # NoCsv, NEW q \in restored'.rows
        PROVE  mirror'[q.mirror] = restored'.before[q.mirror]
    <3>1. restored' = audit /\ (\A x \in rows : x.outcome = "RESTORED") /\ mirror' = mirror
      BY <1>2, <2>5, <2>1 DEF EndRestore, Leave
    <3>2. q \in audit.rows
      BY <2>5, <3>1
    <3>3. q.content # NoContent /\ mirror[q.mirror] = Standing(q.content)
      BY <2>1, <3>1, <3>2 DEF RestoreHolds
    <3> QED
      BY <2>1, <3>1, <3>2, <3>3 DEF Faithful
  <2>6. RestoreUndoes'
    BY <2>5 DEF RestoreUndoes
  <2> QED
    BY <2>1, <2>2, <2>3, <2>4, <2>6, LeaveRemoval
<1>3. CASE CleanupRefused \/ LoseConsole
  <2>1. Leave /\ UNCHANGED <<bucket, restored>> /\ faults' \in 0 .. MaxFaults
    BY <1>3, FaultType DEF CleanupRefused, LoseConsole, TypeOK
  <2> QED
    BY <2>1, LeaveQuietly
<1> QED
  BY <1>1, <1>2, <1>3

-----------------------------------------------------------------------------
LEMMA RemovalInductive ==
  ASSUME RemovalInv, [Next]_vars
  PROVE  RemovalInv'
<1>1. CASE UNCHANGED vars
  BY <1>1 DEF vars, sourceVars, runVars, RemovalInv, TypeOK, BaseTypeOK, Places,
     DeactivationHolds, CleanupHolds, RestoreHolds, BucketFaithful, Faithful, RestoreUndoes
<1>2. CASE Next
  BY <1>2, StartsRemoval, StartRestoreRemoval, ClassifyRemoval, ClassifiedRemoval,
     DisableRemoval, DestroyRemoval, RestoreRemoval, EndsRemoval, MovesRemoval DEF Next
<1> QED
  BY <1>1, <1>2

\* The invariant the three theorems below rest on: the places of the scripts,
\* and what each loop has done and has left, hold in every reachable state.
THEOREM RemovalInvariant == Spec => []RemovalInv
<1> QED
  BY InitRemoval, RemovalInductive, PTL DEF Spec

\* Every reachable state of the three removal scripts is well typed.
THEOREM RemovalTypeCorrect == Spec => []TypeOK
<1>1. RemovalInv => TypeOK
  BY DEF RemovalInv
<1> QED
  BY <1>1, RemovalInvariant, PTL

\* A restore that reports no failure puts back every mirror of the cleanup,
\* from whatever mirrors the scripts started, in any order of pastes, however
\* the sales changed meanwhile and whatever failed before.
THEOREM RestoreIsExact == Spec => []RestoreUndoes
<1>1. RemovalInv => RestoreUndoes
  BY DEF RemovalInv
<1> QED
  BY <1>1, RemovalInvariant, PTL

LEMMA StepKeepsDisabled ==
  ASSUME RemovalInv, [Next]_vars
  PROVE  [\A i \in Identities : mirror[i].state = "disabled" => mirror'[i] = mirror[i]]_vars
<1>1. CASE UNCHANGED vars
  BY <1>1
<1>2. CASE \E i \in Identities : Disable(i) \/ Destroy(i)
  BY <1>2, DisableRemoval, DestroyRemoval
<1>3. CASE \E r \in todo : Restore(r)
  BY <1>3, RestoreRemoval
<1>4. CASE UNCHANGED mirror
  BY <1>4
<1>5. CASE Next
  <2>1. \/ \E i \in Identities : Disable(i) \/ Destroy(i)
        \/ \E r \in todo : Restore(r)
        \/ UNCHANGED mirror
    BY <1>5 DEF Next, StartDeactivation, StartCleanup, StartRestore, Paste, Classify, Unresolved,
       CleanupRefused, CleanupAllowed, EndRemoval, EndRestore, LoseConsole, Leave, Moves
  <2> QED
    BY <1>2, <1>3, <1>4, <2>1
<1> QED
  BY <1>1, <1>5

\* No script ever touches a disabled mirror, so that enable can put it back.
THEOREM DisabledMirrorsStay == Spec => DisabledIsKept
<1> QED
  BY StepKeepsDisabled, RemovalInvariant, PTL DEF Spec, DisabledIsKept

-----------------------------------------------------------------------------
(* What the cleanup destroys reaches the target otherwise.                 *)

\* Nobody holds a mirror of a sale of their own.
NotOwn(m) == \A i \in Identities : m[i].state # "absent" => SellerOf[i[1]] # i[2]

NobodyMirrorsOwn ==
  /\ NotOwn(mirror) /\ NotOwn(before)
  /\ \A c \in bucket : NotOwn(c.before)
  /\ script = "restore" => NotOwn(audit.before)

\* The seller of what was classified as duplicated carries a row, below the
\* target, as long as the base stands still.
CarriersHold ==
  script = "cleanup" /\ quiet => \A i \in duplicated : SellerOf[i[1]] \in CleanupCarriers(i[2])

CountedInv == RemovalInv /\ NobodyMirrorsOwn /\ CarriersHold

LEMMA CarriersStand ==
  ASSUME UNCHANGED sourceVars, NEW t
  PROVE  CleanupCarriers(t)' = CleanupCarriers(t)
BY DEF sourceVars, CleanupCarriers

LEMMA InitCounted == Init => CountedInv
<1> SUFFICES ASSUME Init PROVE CountedInv
  OBVIOUS
<1>1. NotOwn(mirror)
  <2>1. \A i \in Identities : mirror[i] = NoMirror \/ SellerOf[i[1]] # i[2]
    BY DEF Init, Mirrored
  <2>2. NoMirror.state = "absent"
    BY DEF NoMirror
  <2> QED
    BY <2>1, <2>2 DEF NotOwn
<1> QED
  BY <1>1, InitRemoval DEF Init, CountedInv, NobodyMirrorsOwn, CarriersHold

\* A mirror that is written is one that was there, or a row of the cleanup
\* puts back one that was.
LEMMA WritesOwn ==
  ASSUME CountedInv,
         \/ \E i \in Identities : Disable(i) \/ Destroy(i)
         \/ \E r \in todo : Restore(r)
  PROVE  NotOwn(mirror')
<1> USE DEF CountedInv, RemovalInv, NobodyMirrorsOwn
<1>1. mirror \in Mirrors
  BY DEF TypeOK, BaseTypeOK, Mirrors
<1>2. ASSUME NEW i \in Identities, Disable(i)
      PROVE  NotOwn(mirror')
  <2>1. mirror[i].state = "enabled"
    BY <1>2 DEF Disable, Taking, DeactivationHolds
  <2> QED
    BY <1>1, <1>2, <2>1 DEF Disable, NotOwn, Mirrors
<1>3. ASSUME NEW i \in Identities, Destroy(i)
      PROVE  NotOwn(mirror')
  BY <1>1, <1>3 DEF Destroy, NotOwn, NoMirror, Mirrors
<1>4. ASSUME NEW r \in todo, Restore(r)
      PROVE  NotOwn(mirror')
  <2>1. /\ r \in audit.rows /\ audit.rows \subseteq Rows
        /\ Faithful(audit.rows, audit.before) /\ NotOwn(audit.before)
    BY <1>4 DEF Restore, Taking, RestoreHolds, Csvs
  <2>2. r.mirror \in Identities
    BY <2>1 DEF Rows
  <2>3. CASE r.content # NoContent /\ mirror' = [mirror EXCEPT ![r.mirror] =
                  [state |-> "enabled", content |-> r.content]]
    <3>1. audit.before[r.mirror].state = "enabled"
      BY <2>1, <2>3 DEF Faithful, Standing
    <3>2. SellerOf[r.mirror[1]] # r.mirror[2]
      BY <2>1, <2>2, <3>1 DEF NotOwn
    <3> QED
      BY <1>1, <2>2, <2>3, <3>2 DEF NotOwn, Mirrors
  <2>4. CASE UNCHANGED mirror
    BY <2>4
  <2> QED
    BY <1>4, <2>3, <2>4 DEF Restore
<1> QED
  BY <1>2, <1>3, <1>4

LEMMA WritesCounted ==
  ASSUME CountedInv,
         \/ \E i \in Identities : Disable(i) \/ Destroy(i)
         \/ \E r \in todo : Restore(r)
  PROVE  (NobodyMirrorsOwn /\ CarriersHold)'
<1>1. /\ UNCHANGED <<sourceVars, script, duplicated, audit, bucket, before, quiet>>
  BY DEF Disable, Destroy, Restore, Taking
<1>2. \A t : CleanupCarriers(t)' = CleanupCarriers(t)
  BY <1>1, CarriersStand
<1>3. CarriersHold'
  BY <1>1, <1>2 DEF CountedInv, CarriersHold
<1>4. NobodyMirrorsOwn'
  BY <1>1, WritesOwn DEF CountedInv, NobodyMirrorsOwn, NotOwn
<1> QED
  BY <1>3, <1>4

LEMMA BeginsCounted ==
  ASSUME CountedInv,
         StartDeactivation \/ StartCleanup \/ (\E c \in bucket : StartRestore(c))
  PROVE  (NobodyMirrorsOwn /\ CarriersHold)'
<1>1. UNCHANGED <<mirror, bucket>> /\ before' = mirror /\ duplicated' = {}
  BY DEF StartDeactivation, StartCleanup, StartRestore, Paste
<1>2. script' = "restore" => NotOwn(audit'.before)
  BY DEF StartDeactivation, StartCleanup, StartRestore, Paste, CountedInv, NobodyMirrorsOwn
<1> QED
  BY <1>1, <1>2 DEF CountedInv, NobodyMirrorsOwn, CarriersHold, NotOwn

LEMMA ClassifyCounted ==
  ASSUME CountedInv, NEW t \in Targets, Classify(t)
  PROVE  (NobodyMirrorsOwn /\ CarriersHold)'
<1>1. UNCHANGED <<sourceVars, mirror, script, audit, bucket, before, quiet>>
  BY DEF Classify
<1>2. \A u : CleanupCarriers(u)' = CleanupCarriers(u)
  BY <1>1, CarriersStand
<1>3. \A i \in duplicated' \ duplicated : SellerOf[i[1]] \in CleanupCarriers(i[2])
  BY DEF Classify
<1>4. CarriersHold'
  BY <1>1, <1>2, <1>3 DEF CountedInv, CarriersHold
<1>5. NobodyMirrorsOwn'
  BY <1>1 DEF CountedInv, NobodyMirrorsOwn, NotOwn
<1> QED
  BY <1>4, <1>5

LEMMA EndsCounted ==
  ASSUME CountedInv, EndRemoval \/ EndRestore \/ CleanupRefused \/ LoseConsole
  PROVE  (NobodyMirrorsOwn /\ CarriersHold)'
<1>1. script' = "none" /\ UNCHANGED <<mirror, before>>
  BY DEF EndRemoval, EndRestore, CleanupRefused, LoseConsole, Leave
<1>2. \A c \in bucket' : c \in bucket \/ c.before = before
  BY DEF EndRemoval, EndRestore, CleanupRefused, LoseConsole
<1>3. \A c \in bucket' : NotOwn(c.before)
  BY <1>2 DEF CountedInv, NobodyMirrorsOwn
<1> QED
  BY <1>1, <1>3 DEF CountedInv, NobodyMirrorsOwn, CarriersHold, NotOwn

LEMMA CountedInductive ==
  ASSUME CountedInv, [Next]_vars
  PROVE  CountedInv'
<1>1. SUFFICES (NobodyMirrorsOwn /\ CarriersHold)'
  BY RemovalInductive DEF CountedInv
<1>2. CASE StartDeactivation \/ StartCleanup \/ (\E c \in bucket : StartRestore(c))
  BY <1>2, BeginsCounted
<1>3. ASSUME NEW t \in Targets, Classify(t)
      PROVE  (NobodyMirrorsOwn /\ CarriersHold)'
  BY <1>3, ClassifyCounted
<1>4. CASE CleanupAllowed \/ (\E t \in Targets : Unresolved(t)) \/ UNCHANGED vars
  <2>1. UNCHANGED <<sourceVars, mirror, script, duplicated, audit, bucket, before, quiet>>
    BY <1>4 DEF CleanupAllowed, Unresolved, vars, runVars
  <2>2. \A u : CleanupCarriers(u)' = CleanupCarriers(u)
    BY <2>1, CarriersStand
  <2> QED
    BY <2>1, <2>2 DEF CountedInv, NobodyMirrorsOwn, CarriersHold, NotOwn
<1>5. CASE \/ \E i \in Identities : Disable(i) \/ Destroy(i)
           \/ \E r \in todo : Restore(r)
  BY <1>5, WritesCounted
<1>6. CASE EndRemoval \/ EndRestore \/ CleanupRefused \/ LoseConsole
  BY <1>6, EndsCounted
<1>7. CASE Moves
  BY <1>7 DEF Moves, runVars, CountedInv, NobodyMirrorsOwn, CarriersHold, NotOwn
<1> QED
  BY <1>2, <1>3, <1>4, <1>5, <1>6, <1>7 DEF Next

\* The seller of a destroyed mirror is a way to the target it was on and to
\* whoever is above: the row of the seller is walked from there too.
LEMMA SellerIsAWay ==
  ASSUME SubtreesNest, CountedInv, script = "cleanup", quiet,
         NEW d \in duplicated, mirror[d].state = "enabled",
         NEW t \in Users, d[2] = t \/ d[2] \in Below(t)
  PROVE  /\ SellerOf[d[1]] \in Below(t) /\ Plan \in Override
         /\ <<RevenueVariable, SellerOf[d[1]], Period>> \in indicators
<1>1. d \in Identities /\ subtree \in Hierarchies
  BY DEF CountedInv, RemovalInv, TypeOK, BaseTypeOK
<1>2. /\ SellerOf[d[1]] \in subtree[d[2]] /\ Plan \in Override
      /\ <<RevenueVariable, SellerOf[d[1]], Period>> \in indicators
  BY DEF CountedInv, CarriersHold, CleanupCarriers
<1>3. SellerOf[d[1]] # d[2]
  BY <1>1 DEF CountedInv, NobodyMirrorsOwn, NotOwn
<1>4. d[2] \in Users
  BY <1>1, BaseAssumption DEF Identities
<1>5. d[2] \in Below(t) => subtree[d[2]] \subseteq Below(t)
  BY <1>1, <1>4 DEF SubtreesNest, Below
<1> QED
  BY <1>2, <1>3, <1>5 DEF Below

LEMMA DestroyCounted ==
  ASSUME SubtreesNest, CountedInv, quiet, NEW d \in Identities, Destroy(d),
         NEW i \in Identities,
         Ways(Plan, Period, i[2], RevenueVariable, i[1]) # {}
  PROVE  Ways(Plan, Period, i[2], RevenueVariable, i[1])' # {}
<1> DEFINE o == i[1]
           t == i[2]
<1>1. /\ d \in todo /\ d \in duplicated /\ script = "cleanup"
      /\ UNCHANGED sourceVars
  BY DEF Destroy, Taking, CountedInv, RemovalInv, CleanupHolds
<1>2. mirror[d].state = "enabled"
  BY <1>1 DEF CountedInv, RemovalInv, CleanupHolds, Destroy, Taking
<1>3. o \in Originals /\ t \in Targets /\ i = <<o, t>> /\ t \in Users
  BY BaseAssumption DEF Identities
<1>4. Below(t)' = Below(t) /\ indicators' = indicators
  BY <1>1 DEF Below, sourceVars
<1>5. mirror \in Mirrors
  BY DEF CountedInv, RemovalInv, TypeOK, BaseTypeOK, Mirrors
<1>6. \A j \in Identities : j # d => mirror'[j] = mirror[j]
  BY <1>5 DEF Destroy, Mirrors
<1>7. CASE d[1] = o /\ (d[2] = t \/ d[2] \in Below(t))
  <2>1. /\ SellerOf[o] \in Below(t) /\ Plan \in Override
        /\ <<RevenueVariable, SellerOf[o], Period>> \in indicators
    BY <1>1, <1>2, <1>3, <1>7, SellerIsAWay
  <2>2. SellerOf[o] \in Ways(Plan, Period, t, RevenueVariable, o)'
    BY <1>4, <2>1 DEF Ways
  <2> QED
    BY <2>2
<1>8. CASE ~(d[1] = o /\ (d[2] = t \/ d[2] \in Below(t)))
  <2>1. ASSUME NEW u \in Targets, u = t \/ u \in Below(t), o \in Live(Period, u)
        PROVE  o \in Live(Period, u)'
    <3>1. <<o, u>> # d /\ <<o, u>> \in Identities
      BY <1>3, <1>8, <2>1 DEF Identities
    <3> QED
      BY <1>6, <2>1, <3>1 DEF Live, Existing, HasRow
  <2>2. PICK w : w \in Ways(Plan, Period, t, RevenueVariable, o)
    OBVIOUS
  <2>3. w \in Ways(Plan, Period, t, RevenueVariable, o)'
    BY <1>3, <1>4, <2>1, <2>2 DEF Ways
  <2> QED
    BY <2>3
<1> QED
  BY <1>7, <1>8

LEMMA OnlyDestroyWrites ==
  ASSUME Next, script = "cleanup", quiet,
         mirror' # mirror
  PROVE  \E d \in Identities : Destroy(d)
BY DEF Next, StartDeactivation, StartCleanup, StartRestore, Paste, Classify, Unresolved,
   CleanupRefused, CleanupAllowed, Disable, Restore, Taking, EndRemoval, EndRestore,
   LoseConsole, Leave, Moves

\* In a company where who is below someone below a target is below the target,
\* the cleanup keeps a way for every sale that had one on its variable, to the
\* target it takes the mirror from and to those above it.
THEOREM RevenueWayIsKept ==
  ASSUME SubtreesNest
  PROVE  Spec => RevenueKept
<1>1. ASSUME CountedInv, [Next]_vars
      PROVE  [\A i \in Identities :
                /\ script = "cleanup" /\ quiet /\ mirror' # mirror
                /\ Ways(Plan, Period, i[2], RevenueVariable, i[1]) # {}
                => Ways(Plan, Period, i[2], RevenueVariable, i[1])' # {}]_vars
  BY <1>1, OnlyDestroyWrites, DestroyCounted
<1>2. CountedInv /\ [Next]_vars => CountedInv'
  BY CountedInductive
<1> QED
  BY <1>1, <1>2, InitCounted, PTL DEF Spec, RevenueKept
=============================================================================
