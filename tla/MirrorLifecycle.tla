-------------------------- MODULE MirrorLifecycle --------------------------
(***************************************************************************)
(* What the reconciliation promises about a mirror, with no word of how it *)
(* decides: a mirror is inserted once as a copy of its original, follows   *)
(* it while enabled, and is retired by disable, never by destroy, so that  *)
(* enable can put it back as it was.                                       *)
(***************************************************************************)
CONSTANTS Originals, Targets, Contents
VARIABLES original, mirror

AllIdentities == Originals \X Targets
Source(i) == original[i[1]].content

Init ==
  /\ original \in [Originals -> [enabled : BOOLEAN, content : Contents]]
  /\ mirror \in [AllIdentities -> [state : {"absent", "enabled", "disabled"},
                                   content : Contents]]
  /\ \A i \in AllIdentities : mirror[i].state = "absent"

Insert(i) ==
  /\ mirror[i].state = "absent"
  /\ mirror' = [mirror EXCEPT ![i] = [state |-> "enabled", content |-> Source(i)]]

Refresh(i) ==
  /\ mirror[i].state = "enabled"
  /\ mirror' = [mirror EXCEPT ![i].content = Source(i)]

Retire(i) ==
  /\ mirror[i].state = "enabled"
  /\ mirror' = [mirror EXCEPT ![i].state = "disabled"]

Revive(i) ==
  /\ mirror[i].state = "disabled"
  /\ mirror' = [mirror EXCEPT ![i].state = "enabled"]

Mirroring ==
  /\ \E i \in AllIdentities : Insert(i) \/ Refresh(i) \/ Retire(i) \/ Revive(i)
  /\ UNCHANGED original

Selling ==
  /\ original' \in [Originals -> [enabled : BOOLEAN, content : Contents]]
  /\ UNCHANGED mirror

Next == Mirroring \/ Selling

Spec == Init /\ [][Next]_<<original, mirror>>
=============================================================================
