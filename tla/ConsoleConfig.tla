----------------------------- MODULE ConsoleConfig ----------------------------
(***************************************************************************)
(* The outage configuration between the console, which stores it, and the  *)
(* guard, which applies a revision it does not know                        *)
(* (internal/pveweb, internal/outageconfig, cmd/powercheck-pve/guard.go).  *)
(* A request to save loads the stored configuration for its revision and   *)
(* stores its own settings under the next one, in two steps; nothing keeps *)
(* a second request out in between.                                        *)
(***************************************************************************)
EXTENDS ConsoleRequests

CONSTANTS
  Settings,                \* what a configuration says, DefaultSettings among them
  DefaultSettings,
  MaxSaves                 \* bound on the requests to save

ASSUME DefaultAssumption == DefaultSettings \in Settings

VARIABLES
  stored,                  \* the configuration file
  saving,                  \* of each request: the configuration it is to store, if any
  saves,                   \* requests so far
  applied,                 \* the configuration the guard runs
  overlapped               \* history: a request stored while another was in progress

configuration == <<stored, saving, saves, applied, overlapped>>

Configuration == [revision : Nat, settings : Settings]

(* What Load returns of a file that does not exist.                        *)
Default == [revision |-> 0, settings |-> DefaultSettings]

InitConfig ==
  /\ stored = Default /\ applied = Default
  /\ saving = [t \in Tabs |-> {}]
  /\ saves = 0
  /\ overlapped = FALSE

(* Mutant: the revision the console showed is stored again.                *)
CandidateUnnumbered(settings) == [revision |-> stored.revision, settings |-> settings]

Candidate(settings) == [revision |-> stored.revision + 1, settings |-> settings]

(* handleSaveOutageConfig up to the validation.                            *)
BeginSave(t, settings) ==
  /\ saving[t] = {}
  /\ saves < MaxSaves
  /\ saves' = saves + 1
  /\ saving' = [saving EXCEPT ![t] = {Candidate(settings)}]
  /\ UNCHANGED <<stored, applied, overlapped>>

(* Store.Save replaces the file.  The request may be told of an error all  *)
(* the same, when the file's mode cannot be set afterwards.                *)
EndSave(t) ==
  \E c \in saving[t] :
    /\ stored' = c
    /\ overlapped' = (overlapped \/ \E u \in Tabs \ {t} : saving[u] # {})
    /\ saving' = [saving EXCEPT ![t] = {}]
    /\ UNCHANGED <<saves, applied>>

(* An invalid candidate, or an error before the file is renamed.           *)
SaveFails(t) ==
  /\ saving[t] # {}
  /\ saving' = [saving EXCEPT ![t] = {}]
  /\ UNCHANGED <<stored, saves, applied, overlapped>>

(* runAutoGuard, in NORMAL.                                                *)
GuardReloads ==
  /\ stored.revision # applied.revision
  /\ applied' = stored
  /\ UNCHANGED <<stored, saving, saves, overlapped>>

(* A guard that starts with nothing to restore; with an outage in its      *)
(* state file it keeps that outage's configuration until it is over.       *)
GuardRestarts ==
  /\ applied # stored
  /\ applied' = stored
  /\ UNCHANGED <<stored, saving, saves, overlapped>>

ConfigStep ==
  \/ \E t \in Tabs :
       EndSave(t) \/ SaveFails(t) \/ (\E settings \in Settings : BeginSave(t, settings))
  \/ GuardReloads \/ GuardRestarts

-----------------------------------------------------------------------------
ConfigTypeOK ==
  /\ {stored, applied} \cup UNION {saving[t] : t \in Tabs} \subseteq Configuration
  /\ \A t \in Tabs : \A c, d \in saving[t] : c = d
  /\ stored.revision <= saves

(* A guard that finds its own revision in the file runs what the file      *)
(* says, however often settings are stored, refused or lost, unless two    *)
(* requests to save have overlapped: they store the same revision twice,   *)
(* and a guard that has applied the first ignores the second               *)
(* (handleSaveOutageConfig, runAutoGuard).                                 *)
LoneSavesApply ==
  ~overlapped /\ applied.revision = stored.revision => applied = stored
=============================================================================
