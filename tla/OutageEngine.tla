----------------------------- MODULE OutageEngine -----------------------------
(***************************************************************************)
(* One core.Engine fed with samples, as every caller of Engine.Step feeds  *)
(* it: the time and the snapshot of each sample are chosen by the          *)
(* environment, and a sample whose time is not later than the last one is  *)
(* refused.  The variables after lastAt are history: they record what the  *)
(* environment showed and what the engine asked for, in terms that do not  *)
(* mention the engine's own timers and counters.                           *)
(***************************************************************************)
EXTENDS EngineStep, FiniteSets

CONSTANTS
  NUTConfirm, NetworkConfirm, TotalBudget, EmergencyReserve,
  RecoverySuccessCount,    \* core.Config
  MaxTime                  \* bound on the time of a sample

EngineConfig ==
  [nutConfirm |-> NUTConfirm, networkConfirm |-> NetworkConfirm,
   totalBudget |-> TotalBudget, emergencyReserve |-> EmergencyReserve,
   recoverySuccessCount |-> RecoverySuccessCount]

(* NewEngine refuses a configuration that Validate refuses.                *)
ASSUME ConfigAssumption == EngineConfig \in Config /\ Validate(EngineConfig)
ASSUME MaxTimeAssumption == MaxTime \in Nat

VARIABLES
  status, lastAt,                      \* the engine
  nutSeen, networkSeen, quietSeen,     \* times of the samples, by what they showed
  commands                             \* the shutdown commands issued so far, in order

vars == <<status, lastAt, nutSeen, networkSeen, quietSeen, commands>>
seen == <<nutSeen, networkSeen, quietSeen>>

Init ==
  /\ status = NewStatus
  /\ lastAt = NoTime
  /\ nutSeen = {} /\ networkSeen = {} /\ quietSeen = {}
  /\ commands = <<>>

Sample(at, x) ==
  LET out == Step(EngineConfig, status, at, x)
  IN  /\ Accepts(lastAt, at)
      /\ lastAt' = at
      /\ status' = out.status
      /\ commands' = commands \o Commands(out.actions)
      /\ nutSeen' = IF NUTEvidence(x) THEN nutSeen \cup {at} ELSE nutSeen
      /\ networkSeen' = IF NetworkEvidence(x) THEN networkSeen \cup {at} ELSE networkSeen
      /\ quietSeen' = IF Evidence(x) THEN quietSeen ELSE quietSeen \cup {at}

Refuse(at) ==
  /\ ~Accepts(lastAt, at)
  /\ UNCHANGED vars

Next ==
  \/ \E at \in 0..MaxTime, x \in Snapshot : Sample(at, x)
  \/ \E at \in -1..MaxTime : Refuse(at)

Spec == Init /\ [][Next]_vars

-----------------------------------------------------------------------------
Watching == status.state \in {"NORMAL", "CONFIRMING_OUTAGE"}

EvidenceSeen == nutSeen \cup networkSeen
Samples == EvidenceSeen \cup quietSeen

OptionalTime == {NoTime} \cup (0..MaxTime)

Status ==
  [state : EngineState, outageStartedAt : OptionalTime, nutStartedAt : OptionalTime,
   networkStartedAt : OptionalTime, recoveryCount : Nat, gracefulIssued : BOOLEAN,
   emergencyIssued : BOOLEAN, poweroffIssued : BOOLEAN]

CommandSequences ==
  { <<>>,
    <<"graceful_shutdown">>,
    <<"graceful_shutdown", "host_poweroff_requested">>,
    <<"graceful_shutdown", "emergency_stop_remaining", "host_poweroff_requested">> }

(* Every variable has the type the Go declarations give it; in particular  *)
(* the commands of one engine, over all samples, are a prefix of one of    *)
(* the two shutdown sequences: none is repeated and none is out of order.  *)
TypeOK ==
  /\ status \in Status
  /\ lastAt \in OptionalTime
  /\ nutSeen \in SUBSET (0..MaxTime)
  /\ networkSeen \in SUBSET (0..MaxTime)
  /\ quietSeen \in SUBSET (0..MaxTime)
  /\ commands \in CommandSequences

(* The samples so far confirm an outage, said without the engine's timers: *)
(* an OB/LB sample at least NUTConfirm old with evidence in every sample   *)
(* since, or an all-unreachable sample at least NetworkConfirm old with    *)
(* nothing but all-unreachable samples since.                              *)
NUTWindow ==
  \E t \in nutSeen : lastAt - t >= NUTConfirm /\ \A q \in quietSeen : q < t

NetworkWindow ==
  \E t \in networkSeen : /\ lastAt - t >= NetworkConfirm
                         /\ \A q \in quietSeen \cup nutSeen : q < t

(* A sample commands the graceful shutdown exactly when the samples up to  *)
(* and including it confirm an outage: never on a window broken by a       *)
(* single other sample, and never one sample late.  When nothing is        *)
(* confirmed, neither are the guests touched nor the host (Engine.Step's   *)
(* switch and its two Confirmed conditions).                               *)
ShutdownExactlyWhenConfirmed ==
  [][Watching /\ lastAt' # lastAt =>
       (commands' # <<>> <=> NUTWindow' \/ NetworkWindow')]_vars

(* The samples without evidence between evidence at t and the next one.    *)
RunAfter(t) ==
  {q \in quietSeen : q > t /\ \A e \in EvidenceSeen : e <= t \/ e > q}

(* The evidence no full recovery has followed.                             *)
Unrecovered ==
  {t \in EvidenceSeen : \A u \in EvidenceSeen :
      u >= t => Cardinality(RunAfter(u)) < RecoverySuccessCount}

(* While the engine watches, the outage it counts from is the earliest     *)
(* evidence that no RecoverySuccessCount samples in a row have cleared: a  *)
(* flapping supply neither moves the start of the budget nor ends the      *)
(* candidate early, and a cleared outage leaves no trace on the next.      *)
BudgetAnchored ==
  Watching =>
    IF Unrecovered = {} THEN status.outageStartedAt = NoTime
    ELSE /\ status.outageStartedAt \in Unrecovered
         /\ \A t \in Unrecovered : status.outageStartedAt <= t

(* After any sample the engine handled while shutting down, the host's     *)
(* poweroff has been requested if that sample was at or after the moment   *)
(* that leaves EmergencyReserve of the budget: no sample past it leaves    *)
(* the engine waiting for guests (progressShutdown).                       *)
PoweroffByReserve ==
  status.state = "SHUTTING_DOWN" =>
    lastAt < status.outageStartedAt + TotalBudget - EmergencyReserve

(* Running guests are force-stopped only at or after that moment.          *)
EmergencyNotEarly ==
  [][~status.emergencyIssued /\ status'.emergencyIssued =>
       lastAt' >= status'.outageStartedAt + TotalBudget - EmergencyReserve]_vars

(* The engine keeps every promise of the abstract shutdown protocol.       *)
Protocol ==
  INSTANCE ShutdownProtocol
    WITH phase <- status.state, issued <- commands, now <- lastAt,
         began <- status.outageStartedAt,
         Warning <- TotalBudget - EmergencyReserve, Times <- 0..MaxTime

ImplementsProtocol == Protocol!Spec
=============================================================================
