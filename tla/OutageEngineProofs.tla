-------------------------- MODULE OutageEngineProofs --------------------------
(***************************************************************************)
(* Proofs about the outage engine, for every configuration Validate        *)
(* accepts and every bound on time.                                        *)
(***************************************************************************)
EXTENDS OutageEngine, EngineStepProofs, FiniteSetTheorems

(***************************************************************************)
(* The inductive invariant.  Phases ties the state to the flags, to the    *)
(* commands issued and to the budget; Timers ties the engine's two         *)
(* evidence timers to the history of samples; Past says that the history   *)
(* holds nothing later than the last sample.                               *)
(***************************************************************************)
Phases ==
  /\ status.state = "NORMAL" <=> status.outageStartedAt = NoTime
  /\ Watching =>
       /\ commands = <<>>
       /\ ~status.gracefulIssued /\ ~status.emergencyIssued /\ ~status.poweroffIssued
  /\ status.state = "SHUTTING_DOWN" =>
       /\ commands = Protocol!Graceful
       /\ status.gracefulIssued /\ ~status.emergencyIssued /\ ~status.poweroffIssued
       /\ lastAt < EmergencyAt(EngineConfig, status)
  /\ status.state = "POWERED_OFF" =>
       commands \in {Protocol!Orderly, Protocol!Forced}

NUTTimer ==
  /\ status.nutStartedAt # NoTime =>
       /\ status.nutStartedAt \in nutSeen
       /\ \A q \in quietSeen : q < status.nutStartedAt
  /\ \A t \in nutSeen : (\A q \in quietSeen : q < t) =>
       status.nutStartedAt # NoTime /\ status.nutStartedAt <= t

NetworkTimer ==
  /\ status.networkStartedAt # NoTime =>
       /\ status.networkStartedAt \in networkSeen
       /\ \A q \in quietSeen \cup nutSeen : q < status.networkStartedAt
  /\ \A t \in networkSeen : (\A q \in quietSeen \cup nutSeen : q < t) =>
       status.networkStartedAt # NoTime /\ status.networkStartedAt <= t

Timers ==
  Watching =>
    /\ NUTTimer
    /\ NetworkTimer
    /\ status.state = "NORMAL" =>
         status.nutStartedAt = NoTime /\ status.networkStartedAt = NoTime

Past == \A t \in Samples : t <= lastAt

IInv == TypeOK /\ Phases /\ Timers /\ Past

-----------------------------------------------------------------------------
(* The commands a step adds, computed for the lists of actions a step can  *)
(* return.                                                                 *)

(* A notice is no command.                                                *)
LEMMA CommandsOfNotices ==
  /\ Commands(<<>>) = <<>>
  /\ Commands(<<"outage_candidate_started">>) = <<>>
  /\ Commands(<<"outage_cancelled">>) = <<>>
BY DEF Commands, Notice

(* What Progress asks for are commands.                                   *)
LEMMA CommandsOfProgress ==
  /\ Commands(<<"host_poweroff_requested">>) = <<"host_poweroff_requested">>
  /\ Commands(<<"emergency_stop_remaining", "host_poweroff_requested">>)
       = <<"emergency_stop_remaining", "host_poweroff_requested">>
BY DEF Commands, Notice

(* The sequences of the protocol are commands.                            *)
LEMMA CommandsOfShutdown ==
  /\ Commands(Protocol!Graceful) = Protocol!Graceful
  /\ Commands(Protocol!Orderly) = Protocol!Orderly
  /\ Commands(Protocol!Forced) = Protocol!Forced
BY DEF Commands, Notice, Protocol!Graceful, Protocol!Orderly, Protocol!Forced

(* The poweroff after the graceful shutdown is the orderly sequence.      *)
LEMMA ThenPoweroff ==
  Protocol!Graceful \o <<"host_poweroff_requested">> = Protocol!Orderly
BY JoinPair DEF Protocol!Graceful, Protocol!Orderly

(* The emergency after the graceful shutdown is the forced sequence.      *)
LEMMA ThenEmergency ==
  Protocol!Graceful \o <<"emergency_stop_remaining", "host_poweroff_requested">>
    = Protocol!Forced
BY JoinTriple DEF Protocol!Graceful, Protocol!Forced

(* A sample without commands leaves the commands as they are.             *)
LEMMA ThenNothing ==
  \A s \in CommandSequences : s \o <<>> = s /\ <<>> \o s = s
<1> SUFFICES ASSUME NEW s \in CommandSequences PROVE s \o <<>> = s /\ <<>> \o s = s
  OBVIOUS
<1> DEFINE K == {"graceful_shutdown", "emergency_stop_remaining", "host_poweroff_requested"}
<1>1. /\ <<>> \in Seq(K)
      /\ <<"graceful_shutdown">> \in Seq(K)
      /\ <<"graceful_shutdown", "host_poweroff_requested">> \in Seq(K)
      /\ <<"graceful_shutdown", "emergency_stop_remaining", "host_poweroff_requested">> \in Seq(K)
  OBVIOUS
<1>2. s \in Seq(K)
  BY <1>1 DEF CommandSequences
<1> QED BY <1>2, ConcatEmptySeq
-----------------------------------------------------------------------------
(* The engine's status under the bound on time is an engine's status, and  *)
(* the invariant has it coherent.                                          *)
LEMMA StatusCoherent ==
  ASSUME IInv
  PROVE  status \in EngineStatus /\ Coherent(status)
<1>1. /\ OptionalTime \subseteq Instant
      /\ status \in Status /\ Phases /\ Timers
  BY DEF OptionalTime, Instant, IInv, TypeOK
<1>2. status \in EngineStatus
  BY <1>1 DEF Status, EngineStatus
<1> QED BY <1>1, <1>2 DEF Coherent, Phases, Timers, Watching, Watched

(* The status Observe returns, field by field.                             *)
LEMMA ObserveFields ==
  ASSUME NEW s \in Status, NEW at \in 0..MaxTime, NEW x \in Snapshot
  PROVE  LET o == Observe(s, at, x)
         IN  /\ o \in Status
             /\ o.gracefulIssued = s.gracefulIssued
             /\ o.emergencyIssued = s.emergencyIssued
             /\ o.poweroffIssued = s.poweroffIssued
             /\ o.outageStartedAt = IF Evidence(x) THEN First(s.outageStartedAt, at)
                                    ELSE s.outageStartedAt
             /\ o.nutStartedAt = IF NUTEvidence(x) THEN First(s.nutStartedAt, at)
                                 ELSE IF NetworkEvidence(x) THEN s.nutStartedAt ELSE NoTime
             /\ o.networkStartedAt = IF NetworkEvidence(x) THEN First(s.networkStartedAt, at)
                                     ELSE NoTime
             /\ o.state = IF o.outageStartedAt = NoTime THEN "NORMAL"
                          ELSE IF s.outageStartedAt = NoTime THEN "CONFIRMING_OUTAGE"
                          ELSE s.state
<1> DEFINE o == Observe(s, at, x)
<1>1. s \in EngineStatus /\ at \in Nat
  <2>1. OptionalTime \subseteq Instant /\ 0..MaxTime \subseteq Nat
    BY DEF OptionalTime, Instant
  <2> QED BY <2>1 DEF Status, EngineStatus
<1>2. /\ o \in EngineStatus
      /\ o.gracefulIssued = s.gracefulIssued
      /\ o.emergencyIssued = s.emergencyIssued
      /\ o.poweroffIssued = s.poweroffIssued
      /\ o.outageStartedAt = IF Evidence(x) THEN First(s.outageStartedAt, at)
                             ELSE s.outageStartedAt
      /\ o.nutStartedAt = IF NUTEvidence(x) THEN First(s.nutStartedAt, at)
                          ELSE IF NetworkEvidence(x) THEN s.nutStartedAt ELSE NoTime
      /\ o.networkStartedAt = IF NetworkEvidence(x) THEN First(s.networkStartedAt, at)
                              ELSE NoTime
      /\ o.state = IF o.outageStartedAt = NoTime THEN "NORMAL"
                   ELSE IF s.outageStartedAt = NoTime THEN "CONFIRMING_OUTAGE"
                   ELSE s.state
  BY <1>1, Observed
<1> HIDE DEF o
<1>3. /\ o.outageStartedAt \in OptionalTime
      /\ o.nutStartedAt \in OptionalTime
      /\ o.networkStartedAt \in OptionalTime
  BY <1>2 DEF First, OptionalTime, Status
<1>4. o \in Status
  BY <1>2, <1>3 DEF EngineStatus, Status
<1> QED BY <1>2, <1>4 DEF o

-----------------------------------------------------------------------------
(* What the engine's timers say after Observe is what the samples say.     *)
LEMMA ObservedTimers ==
  ASSUME IInv, Watching, NEW at \in 0..MaxTime, NEW x \in Snapshot, Sample(at, x)
  PROVE  LET o == Observe(status, at, x)
         IN  /\ o.nutStartedAt # NoTime =>
                  /\ o.nutStartedAt \in nutSeen'
                  /\ \A q \in quietSeen' : q < o.nutStartedAt
             /\ \A t \in nutSeen' : (\A q \in quietSeen' : q < t) =>
                  o.nutStartedAt # NoTime /\ o.nutStartedAt <= t
             /\ o.networkStartedAt # NoTime =>
                  /\ o.networkStartedAt \in networkSeen'
                  /\ \A q \in quietSeen' \cup nutSeen' : q < o.networkStartedAt
             /\ \A t \in networkSeen' : (\A q \in quietSeen' \cup nutSeen' : q < t) =>
                  o.networkStartedAt # NoTime /\ o.networkStartedAt <= t
<1> DEFINE o == Observe(status, at, x)
<1>1. /\ o.nutStartedAt = IF NUTEvidence(x) THEN First(status.nutStartedAt, at)
                          ELSE IF NetworkEvidence(x) THEN status.nutStartedAt ELSE NoTime
      /\ o.networkStartedAt = IF NetworkEvidence(x) THEN First(status.networkStartedAt, at)
                              ELSE NoTime
  BY ObserveFields DEF IInv, TypeOK
<1> HIDE DEF o
<1>2. /\ nutSeen' = IF NUTEvidence(x) THEN nutSeen \cup {at} ELSE nutSeen
      /\ networkSeen' = IF NetworkEvidence(x) THEN networkSeen \cup {at} ELSE networkSeen
      /\ quietSeen' = IF Evidence(x) THEN quietSeen ELSE quietSeen \cup {at}
  BY DEF Sample
<1>3. \A t \in Samples : t < at
  BY DEF Sample, Accepts, IInv, Past, TypeOK, Samples, EvidenceSeen, OptionalTime, NoTime
<1>4. /\ nutSeen \subseteq 0..MaxTime
      /\ networkSeen \subseteq 0..MaxTime
      /\ quietSeen \subseteq 0..MaxTime
      /\ status.nutStartedAt \in OptionalTime
      /\ status.networkStartedAt \in OptionalTime
  BY DEF IInv, TypeOK, Status
<1>5. NUTTimer /\ NetworkTimer
  BY DEF IInv, Timers
<1>6. ~(NUTEvidence(x) /\ NetworkEvidence(x))
  BY DEF NUTEvidence, NetworkEvidence
<1>7. /\ o.nutStartedAt # NoTime =>
           /\ o.nutStartedAt \in nutSeen'
           /\ \A q \in quietSeen' : q < o.nutStartedAt
      /\ \A t \in nutSeen' : (\A q \in quietSeen' : q < t) =>
           o.nutStartedAt # NoTime /\ o.nutStartedAt <= t
  BY <1>1, <1>2, <1>3, <1>4, <1>5
  DEF NUTTimer, First, Evidence, Samples, EvidenceSeen, OptionalTime, NoTime
<1>8. /\ o.networkStartedAt # NoTime =>
           /\ o.networkStartedAt \in networkSeen'
           /\ \A q \in quietSeen' \cup nutSeen' : q < o.networkStartedAt
      /\ \A t \in networkSeen' : (\A q \in quietSeen' \cup nutSeen' : q < t) =>
           o.networkStartedAt # NoTime /\ o.networkStartedAt <= t
  BY <1>1, <1>2, <1>3, <1>4, <1>5, <1>6
  DEF NetworkTimer, First, Evidence, Samples, EvidenceSeen, OptionalTime, NoTime
<1> QED BY <1>7, <1>8 DEF o

(* The engine's test for a confirmed outage is the windows of the history. *)
LEMMA ConfirmedIffWindow ==
  ASSUME IInv, Watching, NEW at \in 0..MaxTime, NEW x \in Snapshot, Sample(at, x)
  PROVE  Confirmed(EngineConfig, Observe(status, at, x), at, x)
           <=> NUTWindow' \/ NetworkWindow'
<1> DEFINE o == Observe(status, at, x)
<1>1. /\ o \in Status
      /\ o.outageStartedAt = IF Evidence(x) THEN First(status.outageStartedAt, at)
                             ELSE status.outageStartedAt
      /\ o.nutStartedAt = IF NUTEvidence(x) THEN First(status.nutStartedAt, at)
                          ELSE IF NetworkEvidence(x) THEN status.nutStartedAt ELSE NoTime
      /\ o.networkStartedAt = IF NetworkEvidence(x) THEN First(status.networkStartedAt, at)
                              ELSE NoTime
  BY ObserveFields DEF IInv, TypeOK
<1>2. /\ o.nutStartedAt # NoTime =>
           /\ o.nutStartedAt \in nutSeen'
           /\ \A q \in quietSeen' : q < o.nutStartedAt
      /\ \A t \in nutSeen' : (\A q \in quietSeen' : q < t) =>
           o.nutStartedAt # NoTime /\ o.nutStartedAt <= t
      /\ o.networkStartedAt # NoTime =>
           /\ o.networkStartedAt \in networkSeen'
           /\ \A q \in quietSeen' \cup nutSeen' : q < o.networkStartedAt
      /\ \A t \in networkSeen' : (\A q \in quietSeen' \cup nutSeen' : q < t) =>
           o.networkStartedAt # NoTime /\ o.networkStartedAt <= t
  BY ObservedTimers
<1> HIDE DEF o
<1>3. lastAt' = at /\ nutSeen' \subseteq 0..MaxTime /\ networkSeen' \subseteq 0..MaxTime
  BY DEF Sample, IInv, TypeOK
<1>4. /\ NUTConfirm \in Int /\ NetworkConfirm \in Int
  BY ConfigAssumption DEF EngineConfig, Config
<1>5. /\ o.nutStartedAt # NoTime => Evidence(x)
      /\ o.networkStartedAt # NoTime => NetworkEvidence(x)
      /\ Evidence(x) => o.outageStartedAt # NoTime
  BY <1>1 DEF Evidence, First, NoTime
<1>6. o.nutStartedAt \in OptionalTime /\ o.networkStartedAt \in OptionalTime
  BY <1>1 DEF Status
<1>7. NUTWindow' <=> o.nutStartedAt # NoTime /\ at - o.nutStartedAt >= NUTConfirm
  BY <1>2, <1>3, <1>4, <1>6 DEF NUTWindow, OptionalTime, NoTime
<1>8. NetworkWindow' <=> o.networkStartedAt # NoTime /\ at - o.networkStartedAt >= NetworkConfirm
  BY <1>2, <1>3, <1>4, <1>6 DEF NetworkWindow, OptionalTime, NoTime
<1>9. NUTConfirmed(EngineConfig, o, at, x) <=> NUTWindow'
  BY <1>5, <1>7 DEF NUTConfirmed, EngineConfig
<1>10. NetworkConfirmed(EngineConfig, o, at, x) <=> NetworkWindow'
  BY <1>5, <1>8 DEF NetworkConfirmed, EngineConfig
<1>11. Confirmed(EngineConfig, o, at, x) <=> NUTWindow' \/ NetworkWindow'
  BY <1>5, <1>7, <1>8, <1>9, <1>10 DEF Confirmed, Evidence
<1> QED BY <1>11 DEF o

-----------------------------------------------------------------------------
(* The five outcomes of a sample that finds the engine watching.           *)
LEMMA WatchedCases ==
  ASSUME IInv, Watching, NEW at \in 0..MaxTime, NEW x \in Snapshot, Sample(at, x)
  PROVE  LET o == Observe(status, at, x)
             b == BeginShutdown(o)
         IN  \/ /\ ~Evidence(x)
                /\ ~Confirmed(EngineConfig, o, at, x)
                /\ o.outageStartedAt # NoTime
                /\ status' = ResetCandidate(o)
                /\ commands' = <<>>
             \/ /\ ~Confirmed(EngineConfig, o, at, x)
                /\ status' = o
                /\ commands' = <<>>
             \/ /\ Confirmed(EngineConfig, o, at, x)
                /\ status.outageStartedAt # NoTime
                /\ \/ /\ status' = b
                      /\ commands' = Protocol!Graceful
                      /\ at < EmergencyAt(EngineConfig, b)
                   \/ /\ status' = RequestPoweroff(b)
                      /\ commands' = Protocol!Orderly
                   \/ /\ status' = [RequestPoweroff(b) EXCEPT !.emergencyIssued = TRUE]
                      /\ commands' = Protocol!Forced
                      /\ at >= EmergencyAt(EngineConfig, b)
<1> DEFINE o == Observe(status, at, x)
           b == BeginShutdown(o)
           out == Step(EngineConfig, status, at, x)
<1>1. /\ status' = out.status
      /\ commands' = commands \o Commands(out.actions)
      /\ commands = <<>>
  BY DEF Sample, IInv, Phases
<1>2. Confirmed(EngineConfig, o, at, x) => Evidence(x)
  BY DEF Confirmed, NUTConfirmed, NetworkConfirmed, Evidence
<1>3. \/ /\ ~Evidence(x)
         /\ o.outageStartedAt # NoTime
         /\ out.status = ResetCandidate(o)
         /\ out.actions = <<"outage_cancelled">>
      \/ /\ ~Confirmed(EngineConfig, o, at, x)
         /\ out.status = o
         /\ out.actions \in {<<>>, <<"outage_candidate_started">>}
      \/ /\ Confirmed(EngineConfig, o, at, x)
         /\ status.outageStartedAt # NoTime
         /\ \/ /\ out.status = b
               /\ out.actions = <<"graceful_shutdown">>
               /\ ~x.stopped
               /\ at < EmergencyAt(EngineConfig, b)
            \/ /\ out.status = RequestPoweroff(b)
               /\ out.actions = <<"graceful_shutdown", "host_poweroff_requested">>
            \/ /\ out.status = [RequestPoweroff(b) EXCEPT !.emergencyIssued = TRUE]
               /\ out.actions = <<"graceful_shutdown", "emergency_stop_remaining",
                                  "host_poweroff_requested">>
               /\ at >= EmergencyAt(EngineConfig, b)
  <2>1. at \in Nat /\ Coherent(status) /\ status.state \in Watched
    BY StatusCoherent DEF Watching, Watched
  <2> QED BY <2>1, WatchedOutcomes, ConfigAssumption
<1>4. /\ Protocol!Graceful \in CommandSequences
      /\ Protocol!Orderly \in CommandSequences
      /\ Protocol!Forced \in CommandSequences
      /\ Protocol!Graceful = <<"graceful_shutdown">>
      /\ Protocol!Orderly = <<"graceful_shutdown", "host_poweroff_requested">>
      /\ Protocol!Forced = <<"graceful_shutdown", "emergency_stop_remaining",
                             "host_poweroff_requested">>
  BY DEF CommandSequences, Protocol!Graceful, Protocol!Orderly, Protocol!Forced
<1> HIDE DEF o, b, out
<1>5. \A l \in CommandSequences : commands \o l = l
  BY <1>1, ThenNothing
<1>6. /\ out.actions \in {<<>>, <<"outage_candidate_started">>, <<"outage_cancelled">>}
           => commands' = <<>>
      /\ \A l \in {Protocol!Graceful, Protocol!Orderly, Protocol!Forced} :
           out.actions = l => commands' = l
  BY <1>1, <1>4, <1>5, CommandsOfNotices, CommandsOfShutdown DEF CommandSequences
<1> QED BY <1>1, <1>2, <1>3, <1>4, <1>6 DEF o, b

-----------------------------------------------------------------------------
(* The samples that find the engine shutting down or done.                 *)
LEMMA ShuttingDownCases ==
  ASSUME IInv, status.state = "SHUTTING_DOWN",
         NEW at \in 0..MaxTime, NEW x \in Snapshot, Sample(at, x)
  PROVE  \/ /\ status' = status
            /\ commands' = Protocol!Graceful
            /\ at < EmergencyAt(EngineConfig, status)
         \/ /\ status' = RequestPoweroff(status)
            /\ commands' = Protocol!Orderly
         \/ /\ status' = [RequestPoweroff(status) EXCEPT !.emergencyIssued = TRUE]
            /\ commands' = Protocol!Forced
            /\ at >= EmergencyAt(EngineConfig, status)
<1> DEFINE out == Step(EngineConfig, status, at, x)
<1>1. /\ status' = out.status
      /\ commands' = commands \o Commands(out.actions)
      /\ commands = Protocol!Graceful
  BY DEF Sample, IInv, Phases
<1>2. \/ /\ out.status = status /\ out.actions = <<>>
         /\ at < EmergencyAt(EngineConfig, status)
      \/ /\ out.status = RequestPoweroff(status)
         /\ out.actions = <<"host_poweroff_requested">>
      \/ /\ out.status = [RequestPoweroff(status) EXCEPT !.emergencyIssued = TRUE]
         /\ out.actions = <<"emergency_stop_remaining", "host_poweroff_requested">>
         /\ at >= EmergencyAt(EngineConfig, status)
  <2>1. at \in Nat
    OBVIOUS
  <2> QED BY <2>1, StatusCoherent, ShuttingDownOutcomes, ConfigAssumption
<1> HIDE DEF out
<1>3. Protocol!Graceful \o <<>> = Protocol!Graceful
  BY ThenNothing DEF CommandSequences, Protocol!Graceful
<1> QED BY <1>1, <1>2, <1>3, CommandsOfNotices, CommandsOfProgress, ThenPoweroff, ThenEmergency

(* A sample that finds the engine done.                                    *)
LEMMA PoweredOffCase ==
  ASSUME IInv, status.state = "POWERED_OFF",
         NEW at \in 0..MaxTime, NEW x \in Snapshot, Sample(at, x)
  PROVE  status' = status /\ commands' = commands
<1>1. status' = status /\ commands' = commands \o Commands(<<>>)
  BY DEF Sample, Step
<1> QED BY <1>1, CommandsOfNotices, ThenNothing DEF IInv, TypeOK

-----------------------------------------------------------------------------
(* A new engine has seen nothing.                                         *)
LEMMA InitInv == Init => IInv
BY MaxTimeAssumption
DEF Init, IInv, TypeOK, Phases, Timers, NUTTimer, NetworkTimer, Past, Samples, EvidenceSeen,
    NewStatus, Status, EngineState, OptionalTime, NoTime, CommandSequences, Watching

(* A sample keeps the invariant.                                          *)
LEMMA SampleInv ==
  ASSUME IInv, NEW at \in 0..MaxTime, NEW x \in Snapshot, Sample(at, x)
  PROVE  IInv'
<1>1. /\ lastAt' = at
      /\ nutSeen' = IF NUTEvidence(x) THEN nutSeen \cup {at} ELSE nutSeen
      /\ networkSeen' = IF NetworkEvidence(x) THEN networkSeen \cup {at} ELSE networkSeen
      /\ quietSeen' = IF Evidence(x) THEN quietSeen ELSE quietSeen \cup {at}
  BY DEF Sample
<1>2. /\ lastAt' \in OptionalTime
      /\ nutSeen' \in SUBSET (0..MaxTime)
      /\ networkSeen' \in SUBSET (0..MaxTime)
      /\ quietSeen' \in SUBSET (0..MaxTime)
  BY <1>1 DEF IInv, TypeOK, OptionalTime
<1>3. \A t \in Samples : t < at
  BY DEF Sample, Accepts, IInv, Past, TypeOK, Samples, EvidenceSeen, OptionalTime, NoTime
<1>4. Past'
  BY <1>1, <1>3 DEF Past, Samples, EvidenceSeen, IInv, TypeOK
<1>5. /\ Protocol!Graceful \in CommandSequences
      /\ Protocol!Orderly \in CommandSequences
      /\ Protocol!Forced \in CommandSequences
      /\ <<>> \in CommandSequences
  BY DEF CommandSequences, Protocol!Graceful, Protocol!Orderly, Protocol!Forced
<1>6. CASE Watching
  <2> DEFINE o == Observe(status, at, x)
             b == BeginShutdown(o)
  <2>1. /\ o \in Status
        /\ o.gracefulIssued = status.gracefulIssued
        /\ o.emergencyIssued = status.emergencyIssued
        /\ o.poweroffIssued = status.poweroffIssued
        /\ o.outageStartedAt = IF Evidence(x) THEN First(status.outageStartedAt, at)
                               ELSE status.outageStartedAt
        /\ o.nutStartedAt = IF NUTEvidence(x) THEN First(status.nutStartedAt, at)
                            ELSE IF NetworkEvidence(x) THEN status.nutStartedAt ELSE NoTime
        /\ o.networkStartedAt = IF NetworkEvidence(x) THEN First(status.networkStartedAt, at)
                                ELSE NoTime
        /\ o.state = IF o.outageStartedAt = NoTime THEN "NORMAL"
                     ELSE IF status.outageStartedAt = NoTime THEN "CONFIRMING_OUTAGE"
                     ELSE status.state
    BY ObserveFields DEF IInv, TypeOK
  <2>2. ~status.gracefulIssued /\ ~status.emergencyIssued /\ ~status.poweroffIssued
    BY <1>6 DEF IInv, Phases
  <2>3. /\ o.nutStartedAt # NoTime =>
             /\ o.nutStartedAt \in nutSeen'
             /\ \A q \in quietSeen' : q < o.nutStartedAt
        /\ \A t \in nutSeen' : (\A q \in quietSeen' : q < t) =>
             o.nutStartedAt # NoTime /\ o.nutStartedAt <= t
        /\ o.networkStartedAt # NoTime =>
             /\ o.networkStartedAt \in networkSeen'
             /\ \A q \in quietSeen' \cup nutSeen' : q < o.networkStartedAt
        /\ \A t \in networkSeen' : (\A q \in quietSeen' \cup nutSeen' : q < t) =>
             o.networkStartedAt # NoTime /\ o.networkStartedAt <= t
    BY <1>6, ObservedTimers
  <2>4. o.state \in {"NORMAL", "CONFIRMING_OUTAGE"} /\ (o.state = "NORMAL" <=> o.outageStartedAt = NoTime)
    BY <1>6, <2>1 DEF Watching, IInv, Phases
  <2>5. o.state = "NORMAL" => o.nutStartedAt = NoTime /\ o.networkStartedAt = NoTime
    BY <1>6, <2>1, <2>4 DEF Evidence, First, NoTime, IInv, Phases, Timers
  <2>6. \/ /\ ~Evidence(x)
           /\ status' = ResetCandidate(o)
           /\ commands' = <<>>
        \/ status' = o /\ commands' = <<>>
        \/ /\ o.outageStartedAt # NoTime
           /\ \/ /\ status' = b
                 /\ commands' = Protocol!Graceful
                 /\ at < EmergencyAt(EngineConfig, b)
              \/ /\ status' = RequestPoweroff(b)
                 /\ commands' = Protocol!Orderly
              \/ /\ status' = [RequestPoweroff(b) EXCEPT !.emergencyIssued = TRUE]
                 /\ commands' = Protocol!Forced
                 /\ at >= EmergencyAt(EngineConfig, b)
    BY <1>6, WatchedCases DEF Confirmed
  <2> HIDE DEF o
  <2>7. CASE ~Evidence(x) /\ status' = ResetCandidate(o) /\ commands' = <<>>
    <3>1. /\ status' \in Status
          /\ status'.state = "NORMAL"
          /\ status'.outageStartedAt = NoTime
          /\ status'.nutStartedAt = NoTime
          /\ status'.networkStartedAt = NoTime
          /\ ~status'.gracefulIssued /\ ~status'.emergencyIssued /\ ~status'.poweroffIssued
      BY <2>1, <2>2, <2>7 DEF ResetCandidate, Status, EngineState, OptionalTime, NoTime
    <3>2. TypeOK' /\ Phases'
      BY <1>2, <1>5, <2>7, <3>1 DEF TypeOK, Phases, Watching
    <3>3. \A t \in nutSeen' \cup networkSeen' : ~(at < t)
      BY <1>1, <1>3, <2>7 DEF Evidence, Samples, EvidenceSeen, IInv, TypeOK
    <3>4. at \in quietSeen'
      BY <1>1, <2>7
    <3>5. Timers'
      BY <3>1, <3>3, <3>4 DEF Timers, NUTTimer, NetworkTimer
    <3> QED BY <1>4, <3>2, <3>5 DEF IInv
  <2>8. CASE status' = o /\ commands' = <<>>
    <3>1. TypeOK' /\ Phases'
      BY <1>2, <1>5, <2>1, <2>2, <2>4, <2>8 DEF TypeOK, Phases, Watching
    <3>2. Timers'
      BY <2>3, <2>5, <2>8 DEF Timers, NUTTimer, NetworkTimer
    <3> QED BY <1>4, <3>1, <3>2 DEF IInv
  <2>9. ASSUME o.outageStartedAt # NoTime
        PROVE  /\ b \in Status
               /\ b.state = "SHUTTING_DOWN"
               /\ b.outageStartedAt # NoTime
               /\ b.gracefulIssued /\ ~b.emergencyIssued /\ ~b.poweroffIssued
    BY <2>1, <2>2, <2>9 DEF BeginShutdown, Status, EngineState
  <2> HIDE DEF b
  <2>10. CASE /\ o.outageStartedAt # NoTime
              /\ status' = b
              /\ commands' = Protocol!Graceful
              /\ at < EmergencyAt(EngineConfig, b)
    <3>1. TypeOK' /\ Phases' /\ Timers'
      BY <1>1, <1>2, <1>5, <2>9, <2>10 DEF TypeOK, Phases, Watching, Timers
    <3> QED BY <1>4, <3>1 DEF IInv
  <2>11. CASE /\ o.outageStartedAt # NoTime
              /\ \/ /\ status' = RequestPoweroff(b)
                    /\ commands' = Protocol!Orderly
                 \/ /\ status' = [RequestPoweroff(b) EXCEPT !.emergencyIssued = TRUE]
                    /\ commands' = Protocol!Forced
    <3>1. /\ status' \in Status
          /\ status'.state = "POWERED_OFF"
          /\ status'.outageStartedAt # NoTime
      BY <2>9, <2>11 DEF RequestPoweroff, Status, EngineState
    <3>2. TypeOK' /\ Phases' /\ Timers'
      BY <1>2, <1>5, <2>11, <3>1 DEF TypeOK, Phases, Watching, Timers
    <3> QED BY <1>4, <3>2 DEF IInv
  <2> QED BY <2>6, <2>7, <2>8, <2>10, <2>11
<1>7. CASE status.state = "SHUTTING_DOWN"
  <2>1. \/ /\ status' = status
           /\ commands' = Protocol!Graceful
           /\ at < EmergencyAt(EngineConfig, status)
        \/ /\ \/ /\ status' = RequestPoweroff(status)
                 /\ commands' = Protocol!Orderly
              \/ /\ status' = [RequestPoweroff(status) EXCEPT !.emergencyIssued = TRUE]
                 /\ commands' = Protocol!Forced
    BY <1>7, ShuttingDownCases
  <2>2. CASE /\ status' = status
             /\ commands' = Protocol!Graceful
             /\ at < EmergencyAt(EngineConfig, status)
    <3>1. TypeOK' /\ Phases' /\ Timers'
      BY <1>1, <1>2, <1>5, <1>7, <2>2 DEF IInv, TypeOK, Phases, Watching, Timers
    <3> QED BY <1>4, <3>1 DEF IInv
  <2>3. CASE \/ /\ status' = RequestPoweroff(status)
                /\ commands' = Protocol!Orderly
             \/ /\ status' = [RequestPoweroff(status) EXCEPT !.emergencyIssued = TRUE]
                /\ commands' = Protocol!Forced
    <3>1. /\ status' \in Status
          /\ status'.state = "POWERED_OFF"
          /\ status'.outageStartedAt # NoTime
      BY <1>7, <2>3 DEF RequestPoweroff, Status, EngineState, IInv, TypeOK, Phases
    <3>2. TypeOK' /\ Phases' /\ Timers'
      BY <1>2, <1>5, <2>3, <3>1 DEF TypeOK, Phases, Watching, Timers
    <3> QED BY <1>4, <3>2 DEF IInv
  <2> QED BY <2>1, <2>2, <2>3
<1>8. CASE status.state = "POWERED_OFF"
  <2>1. status' = status /\ commands' = commands
    BY <1>8, PoweredOffCase
  <2>2. TypeOK' /\ Phases' /\ Timers'
    BY <1>2, <1>8, <2>1 DEF IInv, TypeOK, Phases, Watching, Timers
  <2> QED BY <1>4, <2>2 DEF IInv
<1> QED BY <1>6, <1>7, <1>8 DEF IInv, TypeOK, Status, EngineState, Watching

-----------------------------------------------------------------------------
(* The invariant holds in every behaviour.                                *)
LEMMA Invariance == Spec => []IInv
<1>1. ASSUME IInv, [Next]_vars PROVE IInv'
  <2>1. CASE \E at \in 0..MaxTime, x \in Snapshot : Sample(at, x)
    BY <1>1, <2>1, SampleInv
  <2>2. CASE UNCHANGED vars
    BY <1>1, <2>2 DEF vars, IInv, TypeOK, Phases, Timers, NUTTimer, NetworkTimer, Past,
                      Samples, EvidenceSeen, Watching
  <2> QED BY <1>1, <2>1, <2>2 DEF Next, Refuse
<1> QED BY <1>1, InitInv, PTL DEF Spec

(* Every behaviour of the engine is well typed; in particular the commands *)
(* of one engine, over all samples, are a prefix of one of the two         *)
(* shutdown sequences.                                                     *)
THEOREM TypeCorrect == Spec => []TypeOK
<1>1. IInv => TypeOK
  BY DEF IInv
<1> QED BY <1>1, Invariance, PTL

(* No sample at or past the emergency moment leaves the engine waiting for *)
(* its guests.                                                             *)
THEOREM PoweroffInTime == Spec => []PoweroffByReserve
<1>1. IInv => PoweroffByReserve
  BY DEF IInv, Phases, PoweroffByReserve, EmergencyAt, EngineConfig
<1> QED BY <1>1, Invariance, PTL

(* The graceful shutdown is commanded by the first sample that completes a *)
(* confirmation window, and by no other.                                   *)
THEOREM ShutdownConfirmed == Spec => ShutdownExactlyWhenConfirmed
<1>1. ASSUME IInv, [Next]_vars, Watching, lastAt' # lastAt
      PROVE  commands' # <<>> <=> NUTWindow' \/ NetworkWindow'
  <2>1. PICK at \in 0..MaxTime, x \in Snapshot : Sample(at, x)
    BY <1>1 DEF Next, Refuse, vars
  <2>2. Confirmed(EngineConfig, Observe(status, at, x), at, x) <=> NUTWindow' \/ NetworkWindow'
    BY <1>1, <2>1, ConfirmedIffWindow
  <2>3. /\ Protocol!Graceful # <<>>
        /\ Protocol!Orderly # <<>>
        /\ Protocol!Forced # <<>>
    BY DEF Protocol!Graceful, Protocol!Orderly, Protocol!Forced
  <2>4. commands' # <<>> <=> Confirmed(EngineConfig, Observe(status, at, x), at, x)
    BY <1>1, <2>1, <2>3, WatchedCases
  <2> QED BY <2>2, <2>4
<1>2. IInv /\ [Next]_vars
        => [Watching /\ lastAt' # lastAt =>
              (commands' # <<>> <=> NUTWindow' \/ NetworkWindow')]_vars
  BY <1>1
<1> QED BY <1>2, Invariance, PTL DEF Spec, ShutdownExactlyWhenConfirmed

(* The guests are never forced before the budget has come down to its      *)
(* emergency reserve.                                                      *)
THEOREM EmergencyInTime == Spec => EmergencyNotEarly
<1>1. ASSUME IInv, [Next]_vars, ~status.emergencyIssued, status'.emergencyIssued
      PROVE  lastAt' >= status'.outageStartedAt + TotalBudget - EmergencyReserve
  <2>1. PICK at \in 0..MaxTime, x \in Snapshot : Sample(at, x)
    BY <1>1 DEF Next, Refuse, vars
  <2> DEFINE o == Observe(status, at, x)
             b == BeginShutdown(o)
  <2>2. lastAt' = at
    BY <2>1 DEF Sample
  <2>3. o \in Status /\ o.emergencyIssued = status.emergencyIssued
    BY <1>1, ObserveFields DEF IInv, TypeOK
  <2>4. CASE Watching
    <3> HIDE DEF o
    <3>1. b \in Status /\ ~b.emergencyIssued
      BY <1>1, <2>3 DEF BeginShutdown, Status, EngineState
    <3>2. ~ResetCandidate(o).emergencyIssued
      BY <1>1, <2>3 DEF ResetCandidate, Status
    <3>3. ~RequestPoweroff(b).emergencyIssued
      BY <3>1 DEF RequestPoweroff, Status
    <3>4. /\ status' = [RequestPoweroff(b) EXCEPT !.emergencyIssued = TRUE]
          /\ at >= EmergencyAt(EngineConfig, b)
      BY <1>1, <2>1, <2>3, <2>4, <3>1, <3>2, <3>3, WatchedCases DEF o
    <3>5. status'.outageStartedAt = b.outageStartedAt
      BY <3>1, <3>4 DEF RequestPoweroff, Status
    <3> QED BY <2>2, <3>4, <3>5 DEF EmergencyAt, EngineConfig
  <2>5. CASE status.state = "SHUTTING_DOWN"
    <3>1. ~RequestPoweroff(status).emergencyIssued
      BY <1>1 DEF RequestPoweroff, IInv, TypeOK, Status
    <3>2. /\ status' = [RequestPoweroff(status) EXCEPT !.emergencyIssued = TRUE]
          /\ at >= EmergencyAt(EngineConfig, status)
      BY <1>1, <2>1, <2>5, <3>1, ShuttingDownCases
    <3>3. status'.outageStartedAt = status.outageStartedAt
      BY <1>1, <3>2 DEF RequestPoweroff, IInv, TypeOK, Status
    <3> QED BY <2>2, <3>2, <3>3 DEF EmergencyAt, EngineConfig
  <2>6. CASE status.state = "POWERED_OFF"
    BY <1>1, <2>1, <2>6, PoweredOffCase
  <2> QED BY <1>1, <2>4, <2>5, <2>6 DEF IInv, TypeOK, Status, EngineState, Watching
<1>2. IInv /\ [Next]_vars
        => [~status.emergencyIssued /\ status'.emergencyIssued =>
              lastAt' >= status'.outageStartedAt + TotalBudget - EmergencyReserve]_vars
  BY <1>1
<1> QED BY <1>2, Invariance, PTL DEF Spec, EmergencyNotEarly

-----------------------------------------------------------------------------
(* The engine implements the abstract protocol: each sample is one of its  *)
(* steps.                                                                  *)
LEMMA StepImplements ==
  ASSUME IInv, NEW at \in 0..MaxTime, NEW x \in Snapshot, Sample(at, x)
  PROVE  Protocol!Next
<1>1. at > lastAt /\ lastAt' = at
  BY DEF Sample, Accepts, IInv, TypeOK, OptionalTime, NoTime
<1>2. SUFFICES \/ Protocol!Watch \/ Protocol!Open(at) \/ Protocol!Confirming \/ Protocol!Cancel
               \/ Protocol!Shutdown(at) \/ Protocol!Wait(at) \/ Protocol!Finish(at)
               \/ Protocol!Over
  BY <1>1 DEF Protocol!Next
<1>3. TotalBudget \in Int /\ EmergencyReserve \in Int
  BY ConfigAssumption DEF EngineConfig, Config
<1>4. CASE Watching
  <2> DEFINE o == Observe(status, at, x)
             b == BeginShutdown(o)
  <2>1. /\ o \in Status
        /\ o.outageStartedAt = IF Evidence(x) THEN First(status.outageStartedAt, at)
                               ELSE status.outageStartedAt
        /\ o.state = IF o.outageStartedAt = NoTime THEN "NORMAL"
                     ELSE IF status.outageStartedAt = NoTime THEN "CONFIRMING_OUTAGE"
                     ELSE status.state
    BY ObserveFields DEF IInv, TypeOK
  <2>2. /\ commands = <<>>
        /\ status.state = "NORMAL" <=> status.outageStartedAt = NoTime
        /\ status.state \in {"NORMAL", "CONFIRMING_OUTAGE"}
    BY <1>4 DEF IInv, Phases, Watching
  <2>3. \/ /\ ~Evidence(x)
           /\ o.outageStartedAt # NoTime
           /\ status' = ResetCandidate(o)
           /\ commands' = <<>>
        \/ status' = o /\ commands' = <<>>
        \/ /\ status.outageStartedAt # NoTime
           /\ \/ /\ status' = b
                 /\ commands' = Protocol!Graceful
                 /\ at < EmergencyAt(EngineConfig, b)
              \/ /\ status' = RequestPoweroff(b)
                 /\ commands' = Protocol!Orderly
              \/ /\ status' = [RequestPoweroff(b) EXCEPT !.emergencyIssued = TRUE]
                 /\ commands' = Protocol!Forced
                 /\ at >= EmergencyAt(EngineConfig, b)
    BY <1>4, WatchedCases
  <2> HIDE DEF o
  <2>4. CASE ~Evidence(x) /\ o.outageStartedAt # NoTime /\ status' = ResetCandidate(o) /\ commands' = <<>>
    <3>1. status'.state = "NORMAL" /\ status'.outageStartedAt = NoTime
      BY <2>1, <2>4 DEF ResetCandidate, Status
    <3>2. Protocol!Cancel
      BY <2>1, <2>2, <2>4, <3>1 DEF Protocol!Cancel, NoTime
    <3> QED BY <3>2
  <2>5. CASE status' = o /\ commands' = <<>>
    <3>1. CASE status.state = "NORMAL" /\ ~Evidence(x)
      <4>1. Protocol!Watch
        BY <2>1, <2>2, <2>5, <3>1 DEF Protocol!Watch
      <4> QED BY <4>1
    <3>2. CASE status.state = "NORMAL" /\ Evidence(x)
      <4>1. Protocol!Open(at)
        BY <2>1, <2>2, <2>5, <3>2 DEF Protocol!Open, First, NoTime
      <4> QED BY <4>1
    <3>3. CASE status.state = "CONFIRMING_OUTAGE"
      <4>1. Protocol!Confirming
        BY <2>1, <2>2, <2>5, <3>3 DEF Protocol!Confirming, First
      <4> QED BY <4>1
    <3> QED BY <2>2, <3>1, <3>2, <3>3
  <2>6. ASSUME status.outageStartedAt # NoTime
        PROVE  /\ status.state = "CONFIRMING_OUTAGE"
               /\ b \in Status
               /\ b.state = "SHUTTING_DOWN"
               /\ b.outageStartedAt = status.outageStartedAt
    BY <2>1, <2>2, <2>6 DEF BeginShutdown, Status, EngineState, First
  <2> HIDE DEF b
  <2>7. CASE /\ status.outageStartedAt # NoTime
             /\ status' = b
             /\ commands' = Protocol!Graceful
             /\ at < EmergencyAt(EngineConfig, b)
    <3>1. Protocol!Shutdown(at)
      BY <1>3, <2>6, <2>7
      DEF Protocol!Shutdown, Protocol!Late, EmergencyAt, EngineConfig, Status, OptionalTime, NoTime
    <3> QED BY <3>1
  <2>8. CASE /\ status.outageStartedAt # NoTime
             /\ \/ /\ status' = RequestPoweroff(b)
                   /\ commands' = Protocol!Orderly
                \/ /\ status' = [RequestPoweroff(b) EXCEPT !.emergencyIssued = TRUE]
                   /\ commands' = Protocol!Forced
                   /\ at >= EmergencyAt(EngineConfig, b)
    <3>1. status'.state = "POWERED_OFF" /\ status'.outageStartedAt = status.outageStartedAt
      BY <2>6, <2>8 DEF RequestPoweroff, Status
    <3>2. Protocol!Finish(at)
      BY <1>3, <2>6, <2>8, <3>1
      DEF Protocol!Finish, Protocol!Late, EmergencyAt, EngineConfig, Status, OptionalTime, NoTime
    <3> QED BY <3>2
  <2> QED BY <2>3, <2>4, <2>5, <2>7, <2>8
<1>5. CASE status.state = "SHUTTING_DOWN"
  <2>1. \/ /\ status' = status
           /\ commands' = Protocol!Graceful
           /\ at < EmergencyAt(EngineConfig, status)
        \/ /\ status' = RequestPoweroff(status)
           /\ commands' = Protocol!Orderly
        \/ /\ status' = [RequestPoweroff(status) EXCEPT !.emergencyIssued = TRUE]
           /\ commands' = Protocol!Forced
           /\ at >= EmergencyAt(EngineConfig, status)
    BY <1>5, ShuttingDownCases
  <2>2. commands = Protocol!Graceful /\ status \in Status
    BY <1>5 DEF IInv, Phases, TypeOK
  <2>3. CASE status' = status /\ commands' = Protocol!Graceful /\ at < EmergencyAt(EngineConfig, status)
    <3>1. Protocol!Wait(at)
      BY <1>3, <1>5, <2>2, <2>3
      DEF Protocol!Wait, Protocol!Late, EmergencyAt, EngineConfig, Status, OptionalTime, NoTime
    <3> QED BY <3>1
  <2>4. CASE \/ /\ status' = RequestPoweroff(status)
                /\ commands' = Protocol!Orderly
             \/ /\ status' = [RequestPoweroff(status) EXCEPT !.emergencyIssued = TRUE]
                /\ commands' = Protocol!Forced
                /\ at >= EmergencyAt(EngineConfig, status)
    <3>1. status'.state = "POWERED_OFF" /\ status'.outageStartedAt = status.outageStartedAt
      BY <2>2, <2>4 DEF RequestPoweroff, Status
    <3>2. Protocol!Finish(at)
      BY <1>3, <1>5, <2>2, <2>4, <3>1
      DEF Protocol!Finish, Protocol!Late, EmergencyAt, EngineConfig, Status, OptionalTime, NoTime
    <3> QED BY <3>2
  <2> QED BY <2>1, <2>3, <2>4
<1>6. CASE status.state = "POWERED_OFF"
  <2>1. Protocol!Over
    BY <1>6, PoweredOffCase DEF Protocol!Over
  <2> QED BY <2>1
<1> QED BY <1>4, <1>5, <1>6 DEF IInv, TypeOK, Status, EngineState, Watching

(* The engine of internal/core/engine.go implements the shutdown          *)
(* protocol: every Step maps to one of its steps or to none.              *)
THEOREM Implementation == Spec => ImplementsProtocol
<1>1. Init => Protocol!Init
  BY DEF Init, Protocol!Init, NewStatus, NoTime
<1>2. IInv /\ [Next]_vars => [Protocol!Next]_(Protocol!vars)
  <2> SUFFICES ASSUME IInv, [Next]_vars PROVE [Protocol!Next]_(Protocol!vars)
    OBVIOUS
  <2>1. CASE \E at \in 0..MaxTime, x \in Snapshot : Sample(at, x)
    BY <2>1, StepImplements
  <2>2. CASE UNCHANGED vars
    BY <2>2 DEF vars, Protocol!vars
  <2> QED BY <2>1, <2>2 DEF Next, Refuse
<1> QED BY <1>1, <1>2, Invariance, PTL DEF Spec, ImplementsProtocol, Protocol!Spec

-----------------------------------------------------------------------------
(* The budget's anchor.  The history of samples as two sets E and Q, with  *)
(* and without evidence: the run without evidence that follows t, and the  *)
(* evidence that no run of n has cleared.                                  *)
Run(E, Q, t) == {q \in Q : q > t /\ \A e \in E : e <= t \/ e > q}

Uncleared(E, Q, n) == {t \in E : \A u \in E : u >= t => Cardinality(Run(E, Q, u)) < n}

(* The engine's counter is the length of the run in progress, and the      *)
(* outage it counts from is the earliest evidence not cleared.             *)
Counted ==
  Watching =>
    /\ status.outageStartedAt = NoTime => Unrecovered = {}
    /\ status.outageStartedAt # NoTime =>
         /\ status.outageStartedAt \in Unrecovered
         /\ \A t \in Unrecovered : status.outageStartedAt <= t
         /\ \E l \in EvidenceSeen : /\ \A e \in EvidenceSeen : e <= l
                                    /\ status.recoveryCount = Cardinality(RunAfter(l))

(* Evidence ends the run in progress and leaves the others alone.          *)
LEMMA RunWithEvidence ==
  ASSUME NEW E \in SUBSET Nat, NEW Q \in SUBSET Nat, NEW at \in Nat,
         \A t \in E \cup Q : t < at
  PROVE  /\ \A t \in E : Run(E \cup {at}, Q, t) = Run(E, Q, t)
         /\ Run(E \cup {at}, Q, at) = {}
<1>1. ASSUME NEW t \in E
      PROVE  Run(E \cup {at}, Q, t) = Run(E, Q, t)
  <2>1. \A q \in Q : at > q
    OBVIOUS
  <2>2. \A q \in Q : (\A e \in E \cup {at} : e <= t \/ e > q) <=> (\A e \in E : e <= t \/ e > q)
    BY <2>1
  <2> QED BY <2>2 DEF Run
<1>2. \A q \in Q : ~(q > at)
  OBVIOUS
<1>3. Run(E \cup {at}, Q, at) = {}
  BY <1>2 DEF Run
<1> QED BY <1>1, <1>3

(* A sample without evidence lengthens the run that follows the last       *)
(* evidence, by one, and no other.                                         *)
LEMMA RunWithout ==
  ASSUME NEW E \in SUBSET Nat, NEW Q \in SUBSET Nat, IsFiniteSet(Q), NEW at \in Nat,
         \A t \in E \cup Q : t < at
  PROVE  /\ \A t \in E : /\ IsFiniteSet(Run(E, Q, t)) /\ IsFiniteSet(Run(E, Q \cup {at}, t))
                         /\ Run(E, Q, t) \subseteq Run(E, Q \cup {at}, t)
                         /\ (\E e \in E : e > t) => Run(E, Q \cup {at}, t) = Run(E, Q, t)
                         /\ (\A e \in E : e <= t) =>
                              Cardinality(Run(E, Q \cup {at}, t)) = Cardinality(Run(E, Q, t)) + 1
<1> SUFFICES ASSUME NEW t \in E
             PROVE  /\ IsFiniteSet(Run(E, Q, t)) /\ IsFiniteSet(Run(E, Q \cup {at}, t))
                    /\ Run(E, Q, t) \subseteq Run(E, Q \cup {at}, t)
                    /\ (\E e \in E : e > t) => Run(E, Q \cup {at}, t) = Run(E, Q, t)
                    /\ (\A e \in E : e <= t) =>
                         Cardinality(Run(E, Q \cup {at}, t)) = Cardinality(Run(E, Q, t)) + 1
  OBVIOUS
<1>1. IsFiniteSet(Run(E, Q, t))
  <2>1. Run(E, Q, t) \subseteq Q
    BY DEF Run
  <2> QED BY <2>1, FS_Subset
<1>2. CASE \E e \in E : e > t
  <2>1. Run(E, Q \cup {at}, t) = Run(E, Q, t)
    BY <1>2 DEF Run
  <2>2. ~(\A e \in E : e <= t)
    BY <1>2
  <2> QED BY <1>1, <2>1, <2>2
<1>3. CASE \A e \in E : e <= t
  <2>1. Run(E, Q \cup {at}, t) = Run(E, Q, t) \cup {at} /\ at \notin Run(E, Q, t)
    BY <1>3 DEF Run
  <2>2. /\ IsFiniteSet(Run(E, Q, t) \cup {at})
        /\ Cardinality(Run(E, Q, t) \cup {at}) = Cardinality(Run(E, Q, t)) + 1
    BY <1>1, <2>1, FS_AddElement
  <2>3. ~(\E e \in E : e > t)
    BY <1>3
  <2> QED BY <1>1, <2>1, <2>2, <2>3
<1>4. (\E e \in E : e > t) \/ (\A e \in E : e <= t)
  OBVIOUS
<1> QED BY <1>2, <1>3, <1>4

(* New evidence is not cleared, and clears nothing.                        *)
LEMMA UnclearedWithEvidence ==
  ASSUME NEW E \in SUBSET Nat, NEW Q \in SUBSET Nat, NEW at \in Nat, NEW n \in Nat \ {0},
         \A t \in E \cup Q : t < at
  PROVE  Uncleared(E \cup {at}, Q, n) = Uncleared(E, Q, n) \cup {at}
<1>1. /\ \A t \in E : Cardinality(Run(E \cup {at}, Q, t)) = Cardinality(Run(E, Q, t))
      /\ Cardinality(Run(E \cup {at}, Q, at)) = 0
  BY RunWithEvidence, FS_EmptySet
<1>2. \A t \in E : t < at /\ t \in Nat
  OBVIOUS
<1>3. ASSUME NEW t \in E
      PROVE  t \in Uncleared(E \cup {at}, Q, n) <=> t \in Uncleared(E, Q, n)
  BY <1>1, <1>2 DEF Uncleared
<1>4. at \in Uncleared(E \cup {at}, Q, n)
  BY <1>1, <1>2 DEF Uncleared
<1>5. at \notin E
  BY <1>2
<1>6. \A t : t \in Uncleared(E \cup {at}, Q, n) => t \in E \cup {at}
  BY DEF Uncleared
<1>7. \A t : t \in Uncleared(E, Q, n) => t \in E
  BY DEF Uncleared
<1> QED BY <1>3, <1>4, <1>6, <1>7

(* A sample without evidence clears everything when it is the n-th of its  *)
(* run, and nothing before.                                                *)
LEMMA UnclearedWithout ==
  ASSUME NEW E \in SUBSET Nat, NEW Q \in SUBSET Nat, IsFiniteSet(Q), NEW at \in Nat,
         NEW n \in Nat \ {0}, \A t \in E \cup Q : t < at
  PROVE  /\ Uncleared(E, Q \cup {at}, n) \subseteq Uncleared(E, Q, n)
         /\ \A l \in E : (\A e \in E : e <= l) =>
              Uncleared(E, Q \cup {at}, n) =
                IF Cardinality(Run(E, Q, l)) + 1 >= n THEN {} ELSE Uncleared(E, Q, n)
<1>1. \A t \in E : /\ Cardinality(Run(E, Q, t)) \in Nat
                   /\ Cardinality(Run(E, Q \cup {at}, t)) \in Nat
                   /\ Cardinality(Run(E, Q, t)) <= Cardinality(Run(E, Q \cup {at}, t))
                   /\ (\E e \in E : e > t) =>
                        Cardinality(Run(E, Q \cup {at}, t)) = Cardinality(Run(E, Q, t))
                   /\ (\A e \in E : e <= t) =>
                        Cardinality(Run(E, Q \cup {at}, t)) = Cardinality(Run(E, Q, t)) + 1
  <2> SUFFICES ASSUME NEW t \in E
               PROVE  /\ Cardinality(Run(E, Q, t)) \in Nat
                      /\ Cardinality(Run(E, Q \cup {at}, t)) \in Nat
                      /\ Cardinality(Run(E, Q, t)) <= Cardinality(Run(E, Q \cup {at}, t))
                      /\ (\E e \in E : e > t) =>
                           Cardinality(Run(E, Q \cup {at}, t)) = Cardinality(Run(E, Q, t))
                      /\ (\A e \in E : e <= t) =>
                           Cardinality(Run(E, Q \cup {at}, t)) = Cardinality(Run(E, Q, t)) + 1
    OBVIOUS
  <2>1. /\ IsFiniteSet(Run(E, Q, t)) /\ IsFiniteSet(Run(E, Q \cup {at}, t))
        /\ Run(E, Q, t) \subseteq Run(E, Q \cup {at}, t)
        /\ (\E e \in E : e > t) => Run(E, Q \cup {at}, t) = Run(E, Q, t)
        /\ (\A e \in E : e <= t) =>
             Cardinality(Run(E, Q \cup {at}, t)) = Cardinality(Run(E, Q, t)) + 1
    BY RunWithout
  <2>2. Cardinality(Run(E, Q, t)) <= Cardinality(Run(E, Q \cup {at}, t))
    BY <2>1, FS_Subset
  <2>3. Cardinality(Run(E, Q, t)) \in Nat /\ Cardinality(Run(E, Q \cup {at}, t)) \in Nat
    BY <2>1, FS_CardinalityType
  <2> QED BY <2>1, <2>2, <2>3
<1>2. Uncleared(E, Q \cup {at}, n) \subseteq Uncleared(E, Q, n)
  BY <1>1 DEF Uncleared
<1>3. ASSUME NEW l \in E, \A e \in E : e <= l
      PROVE  Uncleared(E, Q \cup {at}, n) =
               IF Cardinality(Run(E, Q, l)) + 1 >= n THEN {} ELSE Uncleared(E, Q, n)
  <2>1. Cardinality(Run(E, Q \cup {at}, l)) = Cardinality(Run(E, Q, l)) + 1
    BY <1>1, <1>3
  <2>2. CASE Cardinality(Run(E, Q, l)) + 1 >= n
    <3>1. ASSUME NEW t \in Uncleared(E, Q \cup {at}, n) PROVE FALSE
      <4>1. t \in E /\ l >= t
        BY <1>3 DEF Uncleared
      <4>2. Cardinality(Run(E, Q \cup {at}, l)) < n
        BY <4>1 DEF Uncleared
      <4> QED BY <1>1, <2>1, <2>2, <4>2
    <3> QED BY <2>2, <3>1
  <2>3. CASE ~(Cardinality(Run(E, Q, l)) + 1 >= n)
    <3>1. ASSUME NEW u \in E, Cardinality(Run(E, Q, u)) < n
          PROVE  Cardinality(Run(E, Q \cup {at}, u)) < n
      <4>1. CASE u = l
        BY <1>1, <2>1, <2>3, <4>1
      <4>2. CASE u # l
        <5>1. l > u
          BY <1>3, <4>2
        <5> QED BY <1>1, <3>1, <5>1
      <4> QED BY <4>1, <4>2
    <3>2. Uncleared(E, Q, n) \subseteq Uncleared(E, Q \cup {at}, n)
      BY <3>1 DEF Uncleared
    <3> QED BY <1>2, <2>3, <3>2
  <2> QED BY <2>2, <2>3
<1> QED BY <1>2, <1>3

(* What a sample makes of the recovery counter, and when it ends the       *)
(* candidate.                                                              *)
LEMMA RecoveryDecides ==
  ASSUME NEW c \in Config, Validate(c), NEW s, Coherent(s), s.state \in Watched,
         NEW at \in Nat, NEW x \in Snapshot
  PROVE  LET o == Observe(s, at, x)
             n == Step(c, s, at, x).status
         IN  /\ o.recoveryCount = IF Evidence(x) THEN 0
                                  ELSE IF s.outageStartedAt # NoTime THEN s.recoveryCount + 1
                                  ELSE s.recoveryCount
             /\ o.outageStartedAt = IF Evidence(x) THEN First(s.outageStartedAt, at)
                                    ELSE s.outageStartedAt
             /\ n.state \in Watched =>
                  IF ~Evidence(x) /\ s.outageStartedAt # NoTime
                     /\ s.recoveryCount + 1 >= c.recoverySuccessCount
                  THEN n.outageStartedAt = NoTime
                  ELSE n = o
<1> DEFINE o == Observe(s, at, x)
           d == Decide(c, s, at, x)
           b == BeginShutdown(o)
<1>1. /\ s \in EngineStatus
      /\ o.recoveryCount = IF Evidence(x) THEN 0
                           ELSE IF s.outageStartedAt # NoTime THEN s.recoveryCount + 1
                           ELSE s.recoveryCount
  BY DEF Observe, Coherent, EngineStatus
<1>2. /\ o \in EngineStatus
      /\ o.outageStartedAt = IF Evidence(x) THEN First(s.outageStartedAt, at)
                             ELSE s.outageStartedAt
      /\ ~o.emergencyIssued /\ ~o.poweroffIssued
  BY <1>1, Observed DEF Coherent
<1>3. Step(c, s, at, x) = d
  BY DEF Step, Watched
<1>4. CASE Recovered(c, o, x)
  <2>1. d.status = ResetCandidate(o)
    BY <1>4 DEF Decide
  <2>2. ResetCandidate(o).outageStartedAt = NoTime
    <3> HIDE DEF o
    <3> QED BY <1>2 DEF ResetCandidate, EngineStatus
  <2>3. ~Evidence(x) /\ s.outageStartedAt # NoTime /\ s.recoveryCount + 1 >= c.recoverySuccessCount
    <3> HIDE DEF o
    <3> QED BY <1>1, <1>2, <1>4 DEF Recovered
  <2> HIDE DEF o, d
  <2> QED BY <1>1, <1>2, <1>3, <2>1, <2>2, <2>3 DEF o
<1>5. CASE ~Recovered(c, o, x) /\ ~Confirmed(c, o, at, x)
  <2>1. d.status = o
    BY <1>5 DEF Decide
  <2>2. ~(~Evidence(x) /\ s.outageStartedAt # NoTime /\ s.recoveryCount + 1 >= c.recoverySuccessCount)
    <3> HIDE DEF o
    <3> QED BY <1>1, <1>2, <1>5 DEF Recovered
  <2> HIDE DEF o, d
  <2> QED BY <1>1, <1>2, <1>3, <2>1, <2>2 DEF o
<1>6. CASE Confirmed(c, o, at, x)
  <2>1. ~Recovered(c, o, x) /\ o.outageStartedAt # NoTime
    BY <1>6 DEF Recovered, Confirmed, NUTConfirmed, NetworkConfirmed, Evidence
  <2>2. d.status = Progress(c, b, at, x).status
    BY <1>6, <2>1 DEF Decide
  <2>3. b \in EngineStatus /\ b.state = "SHUTTING_DOWN" /\ b.outageStartedAt # NoTime
        /\ ~b.poweroffIssued /\ ~b.emergencyIssued
    <3> HIDE DEF o
    <3> QED BY <1>2, <2>1 DEF BeginShutdown, EngineStatus, EngineState
  <2>4. d.status \in {b, RequestPoweroff(b), [RequestPoweroff(b) EXCEPT !.emergencyIssued = TRUE]}
    <3> DEFINE p == Progress(c, b, at, x)
    <3> HIDE DEF b, d
    <3>1. \/ p.status = b
          \/ p.status = RequestPoweroff(b)
          \/ p.status = [RequestPoweroff(b) EXCEPT !.emergencyIssued = TRUE]
      BY <2>3, ProgressOutcomes
    <3> QED BY <2>2, <3>1
  <2>5. d.status.state \notin Watched
    <3> HIDE DEF b, d
    <3> QED BY <2>3, <2>4, PoweroffCoherent DEF Watched
  <2> HIDE DEF o, d
  <2> QED BY <1>1, <1>2, <1>3, <2>5 DEF o
<1> QED BY <1>4, <1>5, <1>6

(* A sample keeps the counter and the anchor what the history says.        *)
LEMMA CountedInv ==
  ASSUME IInv, Counted, NEW at \in 0..MaxTime, NEW x \in Snapshot, Sample(at, x)
  PROVE  Counted'
<1> DEFINE E == EvidenceSeen
           Q == quietSeen
           N == RecoverySuccessCount
           o == Observe(status, at, x)
<1> SUFFICES ASSUME Watching' PROVE Counted'
  BY DEF Counted
<1>1. /\ status' = Step(EngineConfig, status, at, x).status
      /\ EvidenceSeen' = IF Evidence(x) THEN E \cup {at} ELSE E
      /\ quietSeen' = IF Evidence(x) THEN Q ELSE Q \cup {at}
  BY DEF Sample, EvidenceSeen, Evidence
<1>2. /\ at \in Nat /\ Coherent(status) /\ EngineConfig \in Config /\ Validate(EngineConfig)
      /\ EngineConfig.recoverySuccessCount = N
  BY StatusCoherent, ConfigAssumption DEF EngineConfig
<1>3. N \in Nat \ {0}
  BY ConfigAssumption DEF EngineConfig, Config, Validate
<1>4. /\ E \in SUBSET Nat /\ Q \in SUBSET Nat /\ Q \in SUBSET (0..MaxTime)
      /\ \A t \in E \cup Q : t < at
  BY DEF Sample, Accepts, IInv, Past, TypeOK, Samples, EvidenceSeen, OptionalTime, NoTime
<1>5. IsFiniteSet(Q)
  <2>1. IsFiniteSet(0..MaxTime)
    BY FS_Interval, MaxTimeAssumption
  <2> QED BY <1>4, <2>1, FS_Subset
<1>6. /\ Unrecovered = Uncleared(E, Q, N)
      /\ Unrecovered' = Uncleared(EvidenceSeen', quietSeen', N)
      /\ \A t : RunAfter(t) = Run(E, Q, t)
      /\ \A t : RunAfter(t)' = Run(EvidenceSeen', quietSeen', t)
  BY DEF Unrecovered, Uncleared, RunAfter, Run
<1>7. Watching
  <2>1. status'.state \in Watched
    BY DEF Watching, Watched
  <2> QED BY <1>1, <1>2, <2>1, StepKeeps DEF Watching, Watched
<1>8. /\ o.recoveryCount = IF Evidence(x) THEN 0
                           ELSE IF status.outageStartedAt # NoTime THEN status.recoveryCount + 1
                           ELSE status.recoveryCount
      /\ o.outageStartedAt = IF Evidence(x) THEN First(status.outageStartedAt, at)
                             ELSE status.outageStartedAt
      /\ IF ~Evidence(x) /\ status.outageStartedAt # NoTime /\ status.recoveryCount + 1 >= N
         THEN status'.outageStartedAt = NoTime
         ELSE status' = o
  <2>1. status.state \in Watched /\ status'.state \in Watched
    BY <1>7 DEF Watching, Watched
  <2> QED BY <1>1, <1>2, <2>1, RecoveryDecides
<1>9. /\ status.outageStartedAt = NoTime => Unrecovered = {}
      /\ status.outageStartedAt # NoTime =>
           /\ status.outageStartedAt \in Unrecovered
           /\ \A t \in Unrecovered : status.outageStartedAt <= t
           /\ \E l \in E : (\A e \in E : e <= l) /\ status.recoveryCount = Cardinality(RunAfter(l))
  BY <1>7 DEF Counted
<1>10. Unrecovered \subseteq E
  BY DEF Unrecovered
<1> HIDE DEF E, Q, N, o
<1>11. CASE Evidence(x)
  <2>1. Unrecovered' = Unrecovered \cup {at}
    <3>1. Uncleared(E \cup {at}, Q, N) = Uncleared(E, Q, N) \cup {at}
      BY <1>2, <1>3, <1>4, UnclearedWithEvidence
    <3> QED BY <1>1, <1>6, <1>11, <3>1
  <2>2. status' = o /\ o.recoveryCount = 0 /\ o.outageStartedAt = First(status.outageStartedAt, at)
    BY <1>8, <1>11
  <2>3. RunAfter(at)' = {}
    BY <1>1, <1>2, <1>4, <1>6, <1>11, RunWithEvidence
  <2>4. /\ status'.outageStartedAt # NoTime
        /\ status'.outageStartedAt \in Unrecovered'
        /\ \A t \in Unrecovered' : status'.outageStartedAt <= t
    <3>1. \A t \in Unrecovered : t \in Nat /\ t < at
      BY <1>4, <1>10
    <3>2. status'.outageStartedAt = IF status.outageStartedAt = NoTime THEN at
                                    ELSE status.outageStartedAt
      BY <2>2 DEF First
    <3>3. CASE status.outageStartedAt = NoTime
      <4>1. Unrecovered' = {at} /\ status'.outageStartedAt = at
        BY <1>9, <2>1, <3>2, <3>3
      <4> QED BY <1>2, <4>1 DEF NoTime
    <3>4. CASE status.outageStartedAt # NoTime
      BY <1>2, <1>9, <2>1, <3>1, <3>2, <3>4
    <3> QED BY <3>3, <3>4
  <2>5. /\ at \in EvidenceSeen' /\ \A e \in EvidenceSeen' : e <= at
        /\ status'.recoveryCount = Cardinality(RunAfter(at)')
    BY <1>1, <1>2, <1>4, <1>11, <2>2, <2>3, FS_EmptySet
  <2> QED BY <2>4, <2>5 DEF Counted
<1>12. CASE ~Evidence(x) /\ status.outageStartedAt = NoTime
  <2>1. Unrecovered' = {}
    BY <1>1, <1>2, <1>3, <1>4, <1>5, <1>6, <1>9, <1>12, UnclearedWithout
  <2>2. status'.outageStartedAt = NoTime
    BY <1>8, <1>12
  <2> QED BY <2>1, <2>2 DEF Counted
<1>13. CASE ~Evidence(x) /\ status.outageStartedAt # NoTime
  <2>1. PICK l \in E : (\A e \in E : e <= l) /\ status.recoveryCount = Cardinality(RunAfter(l))
    BY <1>9, <1>13
  <2>2. Unrecovered' = IF status.recoveryCount + 1 >= N THEN {} ELSE Unrecovered
    <3>1. Uncleared(E, Q \cup {at}, N) =
            IF Cardinality(Run(E, Q, l)) + 1 >= N THEN {} ELSE Uncleared(E, Q, N)
      BY <1>2, <1>3, <1>4, <1>5, <2>1, UnclearedWithout
    <3> QED BY <1>1, <1>6, <1>13, <2>1, <3>1
  <2>3. Cardinality(RunAfter(l)') = status.recoveryCount + 1
    <3>1. Cardinality(Run(E, Q \cup {at}, l)) = Cardinality(Run(E, Q, l)) + 1
      BY <1>2, <1>4, <1>5, <2>1, RunWithout
    <3> QED BY <1>1, <1>6, <1>13, <2>1, <3>1
  <2>4. CASE status.recoveryCount + 1 >= N
    BY <1>8, <1>13, <2>2, <2>4 DEF Counted
  <2>5. CASE ~(status.recoveryCount + 1 >= N)
    <3>1. /\ status'.outageStartedAt = status.outageStartedAt
          /\ status'.recoveryCount = status.recoveryCount + 1
          /\ Unrecovered' = Unrecovered /\ EvidenceSeen' = E
      BY <1>1, <1>8, <1>13, <2>2, <2>5
    <3> QED BY <1>9, <1>13, <2>1, <2>3, <3>1 DEF Counted
  <2> QED BY <2>4, <2>5
<1> QED BY <1>11, <1>12, <1>13

(* While the engine watches, the outage it counts from is the earliest     *)
(* evidence that no full run of samples without evidence has cleared, in   *)
(* every history of samples.                                               *)
THEOREM BudgetIsAnchored == Spec => []BudgetAnchored
<1>1. Init => Counted
  BY DEF Init, Counted, Unrecovered, EvidenceSeen, NewStatus, NoTime
<1>2. IInv /\ Counted /\ [Next]_vars => Counted'
  <2> SUFFICES ASSUME IInv, Counted, [Next]_vars PROVE Counted'
    OBVIOUS
  <2>1. CASE \E at \in 0..MaxTime, x \in Snapshot : Sample(at, x)
    BY <2>1, CountedInv
  <2>2. CASE UNCHANGED vars
    <3>1. status' = status /\ EvidenceSeen' = EvidenceSeen /\ quietSeen' = quietSeen
      BY <2>2 DEF vars, EvidenceSeen
    <3>2. \A t : RunAfter(t)' = RunAfter(t)
      BY <3>1 DEF RunAfter
    <3>3. Unrecovered' = Unrecovered
      BY <3>1, <3>2 DEF Unrecovered
    <3> QED BY <3>1, <3>2, <3>3 DEF Counted, Watching
  <2> QED BY <2>1, <2>2 DEF Next, Refuse
<1>3. Counted => BudgetAnchored
  BY DEF Counted, BudgetAnchored
<1> QED BY <1>1, <1>2, <1>3, Invariance, PTL DEF Spec
=============================================================================
