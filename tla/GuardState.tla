------------------------------ MODULE GuardState ------------------------------
(***************************************************************************)
(* The state file of a guard (internal/guardstate/store.go), shared by the *)
(* PVE guard and the host guard.  The file is written to a temporary, is   *)
(* synced and renamed over the old one, so that it is absent or whole: a   *)
(* set of at most one snapshot.                                            *)
(***************************************************************************)
EXTENDS EngineStep

NoFile == {}

(* Save: the snapshot of an outage in progress, and no file otherwise.     *)
Save(boot, origin, revision, status, lastAt) ==
  IF status.state \in {"NORMAL", "POWERED_OFF"} THEN NoFile
  ELSE {[boot |-> boot, origin |-> origin, revision |-> revision,
         status |-> status, lastAt |-> lastAt]}

(* Mutants: a snapshot of an earlier boot is resumed; a shutdown is not.   *)
RestorableOfAnyBoot(file, boot) ==
  {s \in file : s.status.state \in {"CONFIRMING_OUTAGE", "SHUTTING_DOWN"}}
RestorableCandidate(file, boot) ==
  {s \in file : s.boot = boot /\ s.status.state = "CONFIRMING_OUTAGE"}

(* Restore: the snapshot to resume from, if it is of this boot and of an   *)
(* outage; any other file is removed.                                      *)
Restorable(file, boot) ==
  {s \in file : s.boot = boot /\ s.status.state \in {"CONFIRMING_OUTAGE", "SHUTTING_DOWN"}}
=============================================================================
