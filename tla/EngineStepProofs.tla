--------------------------- MODULE EngineStepProofs ---------------------------
(***************************************************************************)
(* What one Step of the outage engine does, for every configuration that   *)
(* Validate accepts, whatever process embeds the engine: the lemmas the    *)
(* proofs about the two guards share.                                      *)
(***************************************************************************)
EXTENDS EngineStep, SequenceTheorems, TLAPS

Instant == Nat \cup {NoTime}

EngineStatus ==
  [state : EngineState, outageStartedAt : Instant, nutStartedAt : Instant,
   networkStartedAt : Instant, recoveryCount : Nat, gracefulIssued : BOOLEAN,
   emergencyIssued : BOOLEAN, poweroffIssued : BOOLEAN]

Watched == {"NORMAL", "CONFIRMING_OUTAGE"}

(* The statuses an engine passes through: no outage and no timer in        *)
(* NORMAL, nothing asked for while watching, nothing but the graceful      *)
(* shutdown while shutting down.                                           *)
Coherent(s) ==
  /\ s \in EngineStatus
  /\ s.state = "NORMAL" <=> s.outageStartedAt = NoTime
  /\ s.state = "NORMAL" => s.nutStartedAt = NoTime /\ s.networkStartedAt = NoTime
  /\ s.state \in Watched => ~s.gracefulIssued /\ ~s.emergencyIssued /\ ~s.poweroffIssued
  /\ s.state = "SHUTTING_DOWN" => ~s.emergencyIssued /\ ~s.poweroffIssued

(* A new engine is coherent.                                               *)
LEMMA NewCoherent == Coherent(NewStatus)
BY DEF Coherent, NewStatus, EngineStatus, EngineState, Instant, NoTime, Watched

-----------------------------------------------------------------------------
(* The commands of the lists of actions that a step may return.            *)

(* Joining lists of one and two.                                           *)
LEMMA JoinPair ==
  ASSUME NEW a, NEW b
  PROVE  <<a>> \o <<b>> = <<a, b>>
<1> DEFINE S == {a, b}
           s == <<a>>  t == <<b>>  u == <<a, b>>
<1>1. s \in Seq(S) /\ t \in Seq(S) /\ u \in Seq(S) /\ Len(s) = 1 /\ Len(t) = 1 /\ Len(u) = 2
  OBVIOUS
<1>2. s[1] = a /\ t[1] = b /\ u[1] = a /\ u[2] = b
  OBVIOUS
<1> HIDE DEF S, s, t, u
<1>6. /\ s \o t \in Seq(S)
      /\ Len(s \o t) = Len(s) + Len(t)
      /\ \A i \in 1..Len(s) + Len(t) :
           (s \o t)[i] = IF i <= Len(s) THEN s[i] ELSE t[i - Len(s)]
  BY <1>1, ConcatProperties
<1>3. /\ Len(s \o t) = 2
      /\ \A i \in 1..2 : (s \o t)[i] = IF i <= 1 THEN s[i] ELSE t[i - 1]
  BY <1>1, <1>6
<1>4. \A i \in 1..2 : (s \o t)[i] = u[i]
  BY <1>2, <1>3
<1>5. s \o t = u
  BY <1>1, <1>6, <1>3, <1>4, SeqEqual
<1> QED BY <1>5 DEF s, t, u

(* The same, one and two.                                                  *)
LEMMA JoinTriple ==
  ASSUME NEW a, NEW b, NEW c
  PROVE  <<a>> \o <<b, c>> = <<a, b, c>>
<1> DEFINE S == {a, b, c}
           s == <<a>>  t == <<b, c>>  u == <<a, b, c>>
<1>1. s \in Seq(S) /\ t \in Seq(S) /\ u \in Seq(S) /\ Len(s) = 1 /\ Len(t) = 2 /\ Len(u) = 3
  OBVIOUS
<1>2. s[1] = a /\ t[1] = b /\ t[2] = c /\ u[1] = a /\ u[2] = b /\ u[3] = c
  OBVIOUS
<1> HIDE DEF S, s, t, u
<1>6. /\ s \o t \in Seq(S)
      /\ Len(s \o t) = Len(s) + Len(t)
      /\ \A i \in 1..Len(s) + Len(t) :
           (s \o t)[i] = IF i <= Len(s) THEN s[i] ELSE t[i - Len(s)]
  BY <1>1, ConcatProperties
<1>3. /\ Len(s \o t) = 3
      /\ \A i \in 1..3 : (s \o t)[i] = IF i <= 1 THEN s[i] ELSE t[i - 1]
  BY <1>1, <1>6
<1>4. \A i \in 1..3 : (s \o t)[i] = u[i]
  BY <1>2, <1>3
<1>5. s \o t = u
  BY <1>1, <1>6, <1>3, <1>4, SeqEqual
<1> QED BY <1>5 DEF s, t, u

(* Joining with nothing.                                                   *)
LEMMA JoinNothing ==
  ASSUME NEW a
  PROVE  <<>> \o <<a>> = <<a>> /\ <<a>> \o <<>> = <<a>>
<1>1. <<a>> \in Seq({a})
  OBVIOUS
<1> QED BY <1>1, ConcatEmptySeq

-----------------------------------------------------------------------------
(* The outcomes of a step.                                                 *)

(* Progress has three outcomes on a shutdown that has asked nothing of the *)
(* host yet: wait, power off because the guests are down, or force them.   *)
LEMMA ProgressOutcomes ==
  ASSUME NEW c \in Config, NEW s \in EngineStatus, NEW at \in Nat, NEW x \in Snapshot,
         ~s.poweroffIssued, ~s.emergencyIssued, s.outageStartedAt # NoTime
  PROVE  LET p == Progress(c, s, at, x)
         IN  \/ /\ p.status = s
                /\ p.actions = <<>>
                /\ ~x.stopped
                /\ at < EmergencyAt(c, s)
             \/ /\ p.status = RequestPoweroff(s)
                /\ p.actions = <<"host_poweroff_requested">>
                /\ x.stopped
             \/ /\ p.status = [RequestPoweroff(s) EXCEPT !.emergencyIssued = TRUE]
                /\ p.actions = <<"emergency_stop_remaining", "host_poweroff_requested">>
                /\ at >= EmergencyAt(c, s)
<1>1. EmergencyAt(c, s) \in Int
  BY DEF EmergencyAt, Config, EngineStatus, Instant, NoTime
<1> QED BY <1>1 DEF Progress, Snapshot

(* A status with the fields that Observe sets.                             *)
LEMMA EngineStatusExcept ==
  ASSUME NEW s \in EngineStatus, NEW o \in Instant, NEW n \in Instant,
         NEW w \in Instant, NEW r \in Nat, NEW e \in EngineState
  PROVE  [s EXCEPT !.outageStartedAt = o, !.nutStartedAt = n, !.networkStartedAt = w,
                   !.recoveryCount = r, !.state = e] \in EngineStatus
BY DEF EngineStatus

(* What Observe makes of a status, field by field.                         *)
LEMMA Observed ==
  ASSUME NEW s \in EngineStatus, NEW at \in Nat, NEW x \in Snapshot
  PROVE  LET o == Observe(s, at, x)
         IN  /\ o \in EngineStatus
             /\ o.gracefulIssued = s.gracefulIssued
             /\ o.emergencyIssued = s.emergencyIssued
             /\ o.poweroffIssued = s.poweroffIssued
             /\ o.outageStartedAt = IF Evidence(x) THEN First(s.outageStartedAt, at)
                                    ELSE s.outageStartedAt
             /\ o.nutStartedAt = IF NUTEvidence(x) THEN First(s.nutStartedAt, at)
                                 ELSE IF NetworkEvidence(x) THEN s.nutStartedAt ELSE NoTime
             /\ o.networkStartedAt = IF NetworkEvidence(x) THEN First(s.networkStartedAt, at)
                                     ELSE NoTime
             /\ o.state = IF o.outageStartedAt = NoTime THEN "NORMAL"
                          ELSE IF s.outageStartedAt = NoTime THEN "CONFIRMING_OUTAGE"
                          ELSE s.state
<1> DEFINE o == Observe(s, at, x)
           outage == IF Evidence(x) THEN First(s.outageStartedAt, at) ELSE s.outageStartedAt
<1>1. /\ o.gracefulIssued = s.gracefulIssued
      /\ o.emergencyIssued = s.emergencyIssued
      /\ o.poweroffIssued = s.poweroffIssued
  BY DEF Observe, EngineStatus
<1>2. o.outageStartedAt = outage
  BY DEF Observe, EngineStatus
<1>3. o.nutStartedAt = IF NUTEvidence(x) THEN First(s.nutStartedAt, at)
                       ELSE IF NetworkEvidence(x) THEN s.nutStartedAt ELSE NoTime
  BY DEF Observe, EngineStatus
<1>4. o.networkStartedAt = IF NetworkEvidence(x) THEN First(s.networkStartedAt, at) ELSE NoTime
  BY DEF Observe, EngineStatus
<1>5. o.state = IF outage = NoTime THEN "NORMAL"
                ELSE IF s.outageStartedAt = NoTime THEN "CONFIRMING_OUTAGE" ELSE s.state
  BY DEF Observe, EngineStatus
<1> DEFINE r == IF Evidence(x) THEN 0
                  ELSE IF outage # NoTime THEN s.recoveryCount + 1 ELSE s.recoveryCount
<1>6. /\ o.outageStartedAt \in Instant
      /\ o.nutStartedAt \in Instant
      /\ o.networkStartedAt \in Instant
      /\ o.state \in EngineState
      /\ r \in Nat
  BY <1>2, <1>3, <1>4, <1>5 DEF First, Instant, NoTime, EngineState, EngineStatus
<1>7. o = [s EXCEPT !.outageStartedAt = o.outageStartedAt, !.nutStartedAt = o.nutStartedAt,
                    !.networkStartedAt = o.networkStartedAt, !.recoveryCount = r,
                    !.state = o.state]
  BY <1>2, <1>3, <1>4, <1>5 DEF Observe
<1> HIDE DEF o, r
<1>8. [s EXCEPT !.outageStartedAt = o.outageStartedAt, !.nutStartedAt = o.nutStartedAt,
                !.networkStartedAt = o.networkStartedAt, !.recoveryCount = r,
                !.state = o.state] \in EngineStatus
  BY <1>6, EngineStatusExcept
<1>9. o \in EngineStatus
  BY <1>7, <1>8
<1> QED BY <1>1, <1>2, <1>3, <1>4, <1>5, <1>9 DEF o

(* The outcomes of a sample that finds the engine watching.                *)
LEMMA WatchedOutcomes ==
  ASSUME NEW c \in Config, Validate(c), NEW s, Coherent(s), s.state \in Watched,
         NEW at \in Nat, NEW x \in Snapshot
  PROVE  LET o   == Observe(s, at, x)
             b   == BeginShutdown(o)
             out == Step(c, s, at, x)
         IN  \/ /\ ~Evidence(x)
                /\ o.outageStartedAt # NoTime
                /\ out.status = ResetCandidate(o)
                /\ out.actions = <<"outage_cancelled">>
             \/ /\ ~Confirmed(c, o, at, x)
                /\ out.status = o
                /\ out.actions \in {<<>>, <<"outage_candidate_started">>}
             \/ /\ Confirmed(c, o, at, x)
                /\ s.outageStartedAt # NoTime
                /\ \/ /\ out.status = b
                      /\ out.actions = <<"graceful_shutdown">>
                      /\ ~x.stopped
                      /\ at < EmergencyAt(c, b)
                   \/ /\ out.status = RequestPoweroff(b)
                      /\ out.actions = <<"graceful_shutdown", "host_poweroff_requested">>
                      /\ x.stopped
                   \/ /\ out.status = [RequestPoweroff(b) EXCEPT !.emergencyIssued = TRUE]
                      /\ out.actions = <<"graceful_shutdown", "emergency_stop_remaining",
                                         "host_poweroff_requested">>
                      /\ at >= EmergencyAt(c, b)
<1> DEFINE o == Observe(s, at, x)
           b == BeginShutdown(o)
           p == Progress(c, b, at, x)
           d == Decide(c, s, at, x)
           opened == IF Opens(s, x) THEN <<"outage_candidate_started">> ELSE <<>>
<1>1. /\ o \in EngineStatus
      /\ o.emergencyIssued = s.emergencyIssued
      /\ o.poweroffIssued = s.poweroffIssued
      /\ o.nutStartedAt = IF NUTEvidence(x) THEN First(s.nutStartedAt, at)
                          ELSE IF NetworkEvidence(x) THEN s.nutStartedAt ELSE NoTime
      /\ o.networkStartedAt = IF NetworkEvidence(x) THEN First(s.networkStartedAt, at)
                              ELSE NoTime
  BY Observed DEF Coherent
<1>2. Step(c, s, at, x) = d
  BY DEF Step, Watched
<1>3. Confirmed(c, o, at, x) => Evidence(x)
  BY DEF Confirmed, NUTConfirmed, NetworkConfirmed, Evidence
<1>4. CASE Recovered(c, o, x)
  <2>1. d.status = ResetCandidate(o) /\ d.actions = <<"outage_cancelled">>
    BY <1>4 DEF Decide
  <2>2. ~Evidence(x) /\ o.outageStartedAt # NoTime
    BY <1>4 DEF Recovered
  <2> QED BY <1>2, <2>1, <2>2
<1>5. CASE ~Recovered(c, o, x) /\ ~Confirmed(c, o, at, x)
  <2>1. d.status = o /\ d.actions = opened
    BY <1>5 DEF Decide
  <2> QED BY <1>2, <1>5, <2>1
<1>6. CASE Confirmed(c, o, at, x)
  <2>1. ~Recovered(c, o, x)
    BY <1>3, <1>6 DEF Recovered
  <2>2. s.outageStartedAt # NoTime
    <3>1. SUFFICES ASSUME s.outageStartedAt = NoTime PROVE FALSE
      OBVIOUS
    <3>2. s.nutStartedAt = NoTime /\ s.networkStartedAt = NoTime
      BY <3>1 DEF Coherent
    <3>3. o.nutStartedAt \in {NoTime, at} /\ o.networkStartedAt \in {NoTime, at}
      BY <1>1, <3>2 DEF First
    <3>4. /\ c.nutConfirm \in Int /\ c.nutConfirm > 0
          /\ c.networkConfirm \in Int /\ c.networkConfirm > 0
      BY DEF Config, Validate
    <3>5. at \in Int /\ at - at = 0
      OBVIOUS
    <3> HIDE DEF o
    <3> QED BY <1>6, <3>3, <3>4, <3>5 DEF Confirmed, NUTConfirmed, NetworkConfirmed
  <2>3. d.status = p.status /\ d.actions = <<>> \o <<"graceful_shutdown">> \o p.actions
    BY <1>6, <2>1, <2>2 DEF Decide, Opens
  <2>4. d.actions = <<"graceful_shutdown">> \o p.actions
    BY <2>3, JoinNothing
  <2>5. /\ b \in EngineStatus
        /\ ~b.poweroffIssued /\ ~b.emergencyIssued
        /\ b.outageStartedAt # NoTime
    <3>1. o.outageStartedAt # NoTime /\ ~o.poweroffIssued /\ ~o.emergencyIssued
      BY <1>1, <1>6 DEF Confirmed, Coherent
    <3> HIDE DEF o
    <3> QED BY <1>1, <3>1 DEF BeginShutdown, EngineStatus, EngineState
  <2>6. \/ /\ p.status = b /\ p.actions = <<>>
           /\ ~x.stopped
           /\ at < EmergencyAt(c, b)
        \/ /\ p.status = RequestPoweroff(b)
           /\ p.actions = <<"host_poweroff_requested">>
           /\ x.stopped
        \/ /\ p.status = [RequestPoweroff(b) EXCEPT !.emergencyIssued = TRUE]
           /\ p.actions = <<"emergency_stop_remaining", "host_poweroff_requested">>
           /\ at >= EmergencyAt(c, b)
    <3> HIDE DEF b
    <3> QED BY <2>5, ProgressOutcomes
  <2> HIDE DEF o, b, p, d
  <2>7. CASE p.actions = <<>>
    BY <1>2, <1>6, <2>2, <2>3, <2>4, <2>6, <2>7, JoinNothing DEF o, b
  <2>8. CASE p.actions = <<"host_poweroff_requested">>
    <3>1. d.actions = <<"graceful_shutdown", "host_poweroff_requested">>
      BY <2>4, <2>8, JoinPair
    <3>2. d.status = RequestPoweroff(b) /\ x.stopped
      BY <2>3, <2>6, <2>8
    <3> QED BY <1>2, <1>6, <2>2, <3>1, <3>2 DEF o, b
  <2>9. CASE p.actions = <<"emergency_stop_remaining", "host_poweroff_requested">>
    <3>1. d.actions = <<"graceful_shutdown", "emergency_stop_remaining", "host_poweroff_requested">>
      BY <2>4, <2>9, JoinTriple
    <3>2. /\ d.status = [RequestPoweroff(b) EXCEPT !.emergencyIssued = TRUE]
          /\ at >= EmergencyAt(c, b)
      BY <2>3, <2>6, <2>9
    <3> QED BY <1>2, <1>6, <2>2, <3>1, <3>2 DEF o, b
  <2> QED BY <2>6, <2>7, <2>8, <2>9
<1> QED BY <1>4, <1>5, <1>6

(* The statuses among these outcomes.                                      *)
LEMMA WatchedStatuses ==
  ASSUME NEW c \in Config, Validate(c), NEW s, Coherent(s), s.state \in Watched,
         NEW at \in Nat, NEW x \in Snapshot
  PROVE  LET o == Observe(s, at, x)
             b == BeginShutdown(o)
             n == Step(c, s, at, x).status
         IN  \/ ~Evidence(x) /\ n = ResetCandidate(o)
             \/ ~Confirmed(c, o, at, x) /\ n = o
             \/ /\ Confirmed(c, o, at, x)
                /\ s.outageStartedAt # NoTime
                /\ n \in {b, RequestPoweroff(b), [RequestPoweroff(b) EXCEPT !.emergencyIssued = TRUE]}
<1> DEFINE o == Observe(s, at, x)
           b == BeginShutdown(o)
           out == Step(c, s, at, x)
<1>1. \/ ~Evidence(x) /\ out.status = ResetCandidate(o)
      \/ ~Confirmed(c, o, at, x) /\ out.status = o
      \/ /\ Confirmed(c, o, at, x)
         /\ s.outageStartedAt # NoTime
         /\ \/ out.status = b
            \/ out.status = RequestPoweroff(b)
            \/ out.status = [RequestPoweroff(b) EXCEPT !.emergencyIssued = TRUE]
  <2>1. \/ /\ ~Evidence(x)
           /\ o.outageStartedAt # NoTime
           /\ out.status = ResetCandidate(o)
           /\ out.actions = <<"outage_cancelled">>
        \/ /\ ~Confirmed(c, o, at, x)
           /\ out.status = o
           /\ out.actions \in {<<>>, <<"outage_candidate_started">>}
        \/ /\ Confirmed(c, o, at, x)
           /\ s.outageStartedAt # NoTime
           /\ \/ /\ out.status = b
                 /\ out.actions = <<"graceful_shutdown">>
                 /\ ~x.stopped
                 /\ at < EmergencyAt(c, b)
              \/ /\ out.status = RequestPoweroff(b)
                 /\ out.actions = <<"graceful_shutdown", "host_poweroff_requested">>
                 /\ x.stopped
              \/ /\ out.status = [RequestPoweroff(b) EXCEPT !.emergencyIssued = TRUE]
                 /\ out.actions = <<"graceful_shutdown", "emergency_stop_remaining",
                                    "host_poweroff_requested">>
                 /\ at >= EmergencyAt(c, b)
    BY WatchedOutcomes
  <2> HIDE DEF o, b, out
  <2> QED BY <2>1
<1> HIDE DEF o, b, out
<1>2. \/ ~Evidence(x) /\ out.status = ResetCandidate(o)
      \/ ~Confirmed(c, o, at, x) /\ out.status = o
      \/ /\ Confirmed(c, o, at, x)
         /\ s.outageStartedAt # NoTime
         /\ out.status \in {b, RequestPoweroff(b), [RequestPoweroff(b) EXCEPT !.emergencyIssued = TRUE]}
  BY <1>1
<1> QED BY <1>2 DEF o, b, out

(* The outcomes of a sample that finds the engine shutting down.           *)
LEMMA ShuttingDownOutcomes ==
  ASSUME NEW c \in Config, NEW s, Coherent(s), s.state = "SHUTTING_DOWN",
         NEW at \in Nat, NEW x \in Snapshot
  PROVE  LET out == Step(c, s, at, x)
         IN  \/ /\ out.status = s
                /\ out.actions = <<>>
                /\ ~x.stopped
                /\ at < EmergencyAt(c, s)
             \/ /\ out.status = RequestPoweroff(s)
                /\ out.actions = <<"host_poweroff_requested">>
                /\ x.stopped
             \/ /\ out.status = [RequestPoweroff(s) EXCEPT !.emergencyIssued = TRUE]
                /\ out.actions = <<"emergency_stop_remaining", "host_poweroff_requested">>
                /\ at >= EmergencyAt(c, s)
<1>1. Step(c, s, at, x) = Progress(c, s, at, x)
  BY DEF Step
<1>2. /\ s \in EngineStatus
      /\ ~s.poweroffIssued /\ ~s.emergencyIssued /\ s.outageStartedAt # NoTime
  BY DEF Coherent
<1> QED BY <1>1, <1>2, ProgressOutcomes

(* A sample that finds the engine done changes nothing.                    *)
LEMMA PoweredOffOutcome ==
  ASSUME NEW c, NEW s, s.state = "POWERED_OFF", NEW at, NEW x
  PROVE  Step(c, s, at, x) = [status |-> s, actions |-> <<>>]
BY DEF Step

-----------------------------------------------------------------------------
(* What the embedding processes need to know of a step.                    *)

(* A coherent status that is asked to power off stays coherent.            *)
LEMMA PoweroffCoherent ==
  ASSUME NEW s \in EngineStatus, s.outageStartedAt # NoTime
  PROVE  /\ Coherent(RequestPoweroff(s))
         /\ Coherent([RequestPoweroff(s) EXCEPT !.emergencyIssued = TRUE])
         /\ RequestPoweroff(s).state = "POWERED_OFF"
         /\ [RequestPoweroff(s) EXCEPT !.emergencyIssued = TRUE].state = "POWERED_OFF"
         /\ RequestPoweroff(s).outageStartedAt = s.outageStartedAt
         /\ [RequestPoweroff(s) EXCEPT !.emergencyIssued = TRUE].outageStartedAt = s.outageStartedAt
BY DEF RequestPoweroff, Coherent, EngineStatus, EngineState, Watched

(* The shutdown that begins is coherent and counts from the same outage.   *)
LEMMA BeginCoherent ==
  ASSUME NEW o \in EngineStatus, o.outageStartedAt # NoTime,
         ~o.emergencyIssued, ~o.poweroffIssued
  PROVE  /\ Coherent(BeginShutdown(o))
         /\ BeginShutdown(o) \in EngineStatus
         /\ BeginShutdown(o).state = "SHUTTING_DOWN"
         /\ BeginShutdown(o).outageStartedAt = o.outageStartedAt
BY DEF BeginShutdown, Coherent, EngineStatus, EngineState, Watched

(* A cancelled candidate leaves a status as good as new.                   *)
LEMMA ResetCoherent ==
  ASSUME NEW o \in EngineStatus, ~o.gracefulIssued, ~o.emergencyIssued, ~o.poweroffIssued
  PROVE  LET n == ResetCandidate(o)
         IN  /\ Coherent(n)
             /\ n.state = "NORMAL"
             /\ n.outageStartedAt = NoTime
             /\ n.nutStartedAt = NoTime
             /\ n.networkStartedAt = NoTime
BY DEF ResetCandidate, Coherent, EngineStatus, EngineState, Watched, Instant, NoTime

(* Observing keeps a watching engine coherent.                             *)
LEMMA ObserveCoherent ==
  ASSUME NEW s, Coherent(s), s.state \in Watched, NEW at \in Nat, NEW x \in Snapshot
  PROVE  Coherent(Observe(s, at, x)) /\ Observe(s, at, x).state \in Watched
<1> DEFINE o == Observe(s, at, x)
<1>1. /\ o \in EngineStatus
      /\ o.gracefulIssued = s.gracefulIssued
      /\ o.emergencyIssued = s.emergencyIssued
      /\ o.poweroffIssued = s.poweroffIssued
      /\ o.outageStartedAt = IF Evidence(x) THEN First(s.outageStartedAt, at)
                             ELSE s.outageStartedAt
      /\ o.nutStartedAt = IF NUTEvidence(x) THEN First(s.nutStartedAt, at)
                          ELSE IF NetworkEvidence(x) THEN s.nutStartedAt ELSE NoTime
      /\ o.networkStartedAt = IF NetworkEvidence(x) THEN First(s.networkStartedAt, at)
                              ELSE NoTime
      /\ o.state = IF o.outageStartedAt = NoTime THEN "NORMAL"
                   ELSE IF s.outageStartedAt = NoTime THEN "CONFIRMING_OUTAGE"
                   ELSE s.state
  BY Observed DEF Coherent
<1> HIDE DEF o
<1>2. o.state \in Watched /\ (o.state = "NORMAL" <=> o.outageStartedAt = NoTime)
  BY <1>1 DEF Coherent, Watched
<1>3. o.state = "NORMAL" => o.nutStartedAt = NoTime /\ o.networkStartedAt = NoTime
  BY <1>1, <1>2 DEF Coherent, Evidence, First, NoTime, Watched
<1>4. ~o.gracefulIssued /\ ~o.emergencyIssued /\ ~o.poweroffIssued
  BY <1>1 DEF Coherent
<1>5. Coherent(o) /\ o.state \in Watched
  BY <1>1, <1>2, <1>3, <1>4 DEF Coherent, Watched
<1> QED BY <1>5 DEF o

(* Every step leaves a coherent status; one that has begun a shutdown does *)
(* not go back, and an outage that goes on began when it began.            *)
LEMMA StepKeeps ==
  ASSUME NEW c \in Config, Validate(c), NEW s, Coherent(s), NEW at \in Nat, NEW x \in Snapshot
  PROVE  LET n == Step(c, s, at, x).status
         IN  /\ Coherent(n)
             /\ s.state \notin Watched => n.state \notin Watched
             /\ s.state = "POWERED_OFF" => n.state = "POWERED_OFF"
             /\ s.outageStartedAt = NoTime => n.outageStartedAt \in {NoTime, at}
             /\ s.outageStartedAt # NoTime => n.outageStartedAt \in {NoTime, s.outageStartedAt}
<1> DEFINE n == Step(c, s, at, x).status
           o == Observe(s, at, x)
           b == BeginShutdown(o)
<1>1. s \in EngineStatus
  BY DEF Coherent
<1>2. CASE s.state \in Watched
  <2>1. /\ o \in EngineStatus
        /\ o.gracefulIssued = s.gracefulIssued
        /\ o.emergencyIssued = s.emergencyIssued
        /\ o.poweroffIssued = s.poweroffIssued
        /\ o.outageStartedAt = IF Evidence(x) THEN First(s.outageStartedAt, at)
                               ELSE s.outageStartedAt
        /\ Coherent(o) /\ o.state \in Watched
    BY <1>1, <1>2, Observed, ObserveCoherent
  <2>2. \/ n = ResetCandidate(o)
        \/ n = o
        \/ /\ s.outageStartedAt # NoTime
           /\ n \in {b, RequestPoweroff(b), [RequestPoweroff(b) EXCEPT !.emergencyIssued = TRUE]}
    BY <1>2, WatchedStatuses
  <2>3. ~o.gracefulIssued /\ ~o.emergencyIssued /\ ~o.poweroffIssued
    BY <2>1 DEF Coherent
  <2> HIDE DEF n, o, b
  <2>4. CASE n = ResetCandidate(o)
    <3>1. Coherent(n) /\ n.outageStartedAt = NoTime
      BY <2>1, <2>3, <2>4, ResetCoherent
    <3> QED BY <1>2, <3>1 DEF n, Watched
  <2>5. CASE n = o
    <3>1. o.outageStartedAt \in {s.outageStartedAt, First(s.outageStartedAt, at)}
      BY <2>1
    <3>2. /\ s.outageStartedAt = NoTime => n.outageStartedAt \in {NoTime, at}
          /\ s.outageStartedAt # NoTime => n.outageStartedAt \in {NoTime, s.outageStartedAt}
      BY <2>5, <3>1 DEF First
    <3> QED BY <1>2, <2>1, <2>5, <3>2 DEF n, Watched
  <2>6. CASE /\ s.outageStartedAt # NoTime
             /\ n \in {b, RequestPoweroff(b), [RequestPoweroff(b) EXCEPT !.emergencyIssued = TRUE]}
    <3>1. o.outageStartedAt = s.outageStartedAt
      BY <2>1, <2>6 DEF First
    <3>2. Coherent(b) /\ b \in EngineStatus /\ b.outageStartedAt = s.outageStartedAt
      BY <2>1, <2>3, <2>6, <3>1, BeginCoherent DEF b
    <3>3. Coherent(n) /\ n.outageStartedAt = s.outageStartedAt
      BY <2>6, <3>2, PoweroffCoherent
    <3> QED BY <1>2, <2>6, <3>3 DEF n, Watched
  <2> QED BY <2>2, <2>4, <2>5, <2>6
<1>3. CASE s.state = "SHUTTING_DOWN"
  <2>1. \/ n = s
        \/ n = RequestPoweroff(s)
        \/ n = [RequestPoweroff(s) EXCEPT !.emergencyIssued = TRUE]
    BY <1>3, ShuttingDownOutcomes
  <2> HIDE DEF n
  <2>2. s.outageStartedAt # NoTime
    BY <1>3 DEF Coherent
  <2>3. /\ Coherent(n) /\ n.outageStartedAt = s.outageStartedAt
        /\ n.state \in {"SHUTTING_DOWN", "POWERED_OFF"}
    BY <1>1, <1>3, <2>1, <2>2, PoweroffCoherent
  <2> QED BY <1>3, <2>2, <2>3 DEF n, Watched
<1>4. CASE s.state = "POWERED_OFF"
  <2>1. n = s
    BY <1>4, PoweredOffOutcome
  <2> HIDE DEF n
  <2> QED BY <1>4, <2>1 DEF n, Coherent, Watched
<1> QED BY <1>1, <1>2, <1>3, <1>4 DEF EngineStatus, EngineState, Watched

(* A timer that runs after a sample ran before it or starts with it, and   *)
(* the sample was evidence.                                                *)
LEMMA TimersRun ==
  ASSUME NEW c \in Config, Validate(c), NEW s, Coherent(s), s.state \in Watched,
         NEW at \in Nat, NEW x \in Snapshot,
         Step(c, s, at, x).status.state \in Watched
  PROVE  LET n == Step(c, s, at, x).status
         IN  /\ n.nutStartedAt # NoTime =>
                  Evidence(x) /\ n.nutStartedAt = First(s.nutStartedAt, at)
             /\ n.networkStartedAt # NoTime =>
                  NetworkEvidence(x) /\ n.networkStartedAt = First(s.networkStartedAt, at)
<1> DEFINE n == Step(c, s, at, x).status
           o == Observe(s, at, x)
           b == BeginShutdown(o)
<1>1. /\ o \in EngineStatus
      /\ o.gracefulIssued = s.gracefulIssued
      /\ o.emergencyIssued = s.emergencyIssued
      /\ o.poweroffIssued = s.poweroffIssued
      /\ o.nutStartedAt = IF NUTEvidence(x) THEN First(s.nutStartedAt, at)
                          ELSE IF NetworkEvidence(x) THEN s.nutStartedAt ELSE NoTime
      /\ o.networkStartedAt = IF NetworkEvidence(x) THEN First(s.networkStartedAt, at)
                              ELSE NoTime
  BY Observed DEF Coherent
<1>2. \/ n = ResetCandidate(o)
      \/ n = o
      \/ /\ Confirmed(c, o, at, x)
         /\ n \in {b, RequestPoweroff(b), [RequestPoweroff(b) EXCEPT !.emergencyIssued = TRUE]}
  BY WatchedStatuses
<1>3. ~o.gracefulIssued /\ ~o.emergencyIssued /\ ~o.poweroffIssued
  BY <1>1 DEF Coherent
<1>4. n.state \in Watched
  OBVIOUS
<1> HIDE DEF n, o, b
<1>5. CASE n = ResetCandidate(o)
  <2>1. n.nutStartedAt = NoTime /\ n.networkStartedAt = NoTime
    BY <1>1, <1>3, <1>5, ResetCoherent
  <2> QED BY <2>1 DEF n
<1>6. CASE n = o
  BY <1>1, <1>6 DEF n, Evidence, First
<1>7. CASE /\ Confirmed(c, o, at, x)
           /\ n \in {b, RequestPoweroff(b), [RequestPoweroff(b) EXCEPT !.emergencyIssued = TRUE]}
  <2>1. o.outageStartedAt # NoTime
    BY <1>7 DEF Confirmed
  <2>2. b \in EngineStatus /\ b.state = "SHUTTING_DOWN" /\ b.outageStartedAt # NoTime
    BY <1>1, <1>3, <2>1, BeginCoherent DEF b
  <2>3. n.state \in {"SHUTTING_DOWN", "POWERED_OFF"}
    BY <1>7, <2>2, PoweroffCoherent
  <2> QED BY <1>4, <2>3 DEF Watched
<1> QED BY <1>2, <1>5, <1>6, <1>7

(* A watching engine that begins the shutdown saw evidence, and one of its *)
(* timers has run for as long as the configuration asks.                   *)
LEMMA ShutdownConfirmedBy ==
  ASSUME NEW c \in Config, Validate(c), NEW s, Coherent(s), s.state \in Watched,
         NEW at \in Nat, NEW x \in Snapshot,
         Step(c, s, at, x).status.state \notin Watched
  PROVE  /\ Evidence(x)
         /\ \/ at - First(s.nutStartedAt, at) >= c.nutConfirm
            \/ NetworkEvidence(x) /\ at - First(s.networkStartedAt, at) >= c.networkConfirm
<1> DEFINE n == Step(c, s, at, x).status
           o == Observe(s, at, x)
<1>1. /\ o \in EngineStatus
      /\ o.gracefulIssued = s.gracefulIssued
      /\ o.emergencyIssued = s.emergencyIssued
      /\ o.poweroffIssued = s.poweroffIssued
      /\ o.nutStartedAt = IF NUTEvidence(x) THEN First(s.nutStartedAt, at)
                          ELSE IF NetworkEvidence(x) THEN s.nutStartedAt ELSE NoTime
      /\ o.networkStartedAt = IF NetworkEvidence(x) THEN First(s.networkStartedAt, at)
                              ELSE NoTime
      /\ o.state \in Watched
  BY Observed, ObserveCoherent DEF Coherent
<1>2. n = ResetCandidate(o) \/ n = o \/ Confirmed(c, o, at, x)
  BY WatchedStatuses
<1>3. ~o.gracefulIssued /\ ~o.emergencyIssued /\ ~o.poweroffIssued
  BY <1>1 DEF Coherent
<1>4. n.state \notin Watched
  OBVIOUS
<1> HIDE DEF n, o
<1>5. n # ResetCandidate(o)
  BY <1>1, <1>3, <1>4, ResetCoherent DEF Watched
<1>6. Confirmed(c, o, at, x)
  BY <1>1, <1>2, <1>4, <1>5
<1> QED BY <1>1, <1>6 DEF Confirmed, NUTConfirmed, NetworkConfirmed, Evidence, First

(* An engine that finds evidence and goes on watching runs the timer of    *)
(* that evidence, which has not confirmed it yet.                          *)
LEMMA StillWatching ==
  ASSUME NEW c \in Config, Validate(c), NEW s, Coherent(s), s.state \in Watched,
         NEW at \in Nat, NEW x \in Snapshot, Evidence(x),
         Step(c, s, at, x).status.state \in Watched
  PROVE  LET n == Step(c, s, at, x).status
         IN  /\ NUTEvidence(x) => n.nutStartedAt = First(s.nutStartedAt, at)
             /\ ~NUTEvidence(x) => /\ n.nutStartedAt = s.nutStartedAt
                                   /\ n.networkStartedAt = First(s.networkStartedAt, at)
             /\ n.nutStartedAt # NoTime => at - n.nutStartedAt < c.nutConfirm
             /\ n.nutStartedAt = NoTime => at - n.networkStartedAt < c.networkConfirm
<1> DEFINE o == Observe(s, at, x)
           b == BeginShutdown(o)
           out == Step(c, s, at, x)
<1>1. /\ o \in EngineStatus
      /\ o.gracefulIssued = s.gracefulIssued
      /\ o.emergencyIssued = s.emergencyIssued
      /\ o.poweroffIssued = s.poweroffIssued
      /\ o.outageStartedAt = First(s.outageStartedAt, at)
      /\ o.nutStartedAt = IF NUTEvidence(x) THEN First(s.nutStartedAt, at) ELSE s.nutStartedAt
      /\ o.networkStartedAt = IF NetworkEvidence(x) THEN First(s.networkStartedAt, at)
                              ELSE NoTime
  BY Observed DEF Coherent, Evidence
<1>2. o.outageStartedAt # NoTime /\ o.outageStartedAt \in Instant
  BY <1>1 DEF First, NoTime, EngineStatus
<1>3. ~o.emergencyIssued /\ ~o.poweroffIssued
  BY <1>1 DEF Coherent
<1>4. /\ b.state \notin Watched
      /\ RequestPoweroff(b).state \notin Watched
      /\ [RequestPoweroff(b) EXCEPT !.emergencyIssued = TRUE].state \notin Watched
  <2>1. b \in EngineStatus /\ b.state = "SHUTTING_DOWN" /\ b.outageStartedAt # NoTime
    BY <1>1, <1>2, <1>3, BeginCoherent
  <2> HIDE DEF b
  <2> QED BY <2>1, PoweroffCoherent DEF Watched
<1>5. out.status = o /\ ~Confirmed(c, o, at, x)
  <2>1. \/ ~Evidence(x) /\ out.status = ResetCandidate(o)
        \/ ~Confirmed(c, o, at, x) /\ out.status = o
        \/ /\ Confirmed(c, o, at, x)
           /\ s.outageStartedAt # NoTime
           /\ out.status \in {b, RequestPoweroff(b), [RequestPoweroff(b) EXCEPT !.emergencyIssued = TRUE]}
    BY WatchedStatuses
  <2>2. out.status.state \in Watched
    OBVIOUS
  <2> HIDE DEF b, out, o
  <2> QED BY <1>4, <2>1, <2>2
<1>6. /\ o.nutStartedAt # NoTime => ~(at - o.nutStartedAt >= c.nutConfirm)
      /\ (o.networkStartedAt # NoTime /\ NetworkEvidence(x)) =>
           ~(at - o.networkStartedAt >= c.networkConfirm)
  BY <1>2, <1>5 DEF Confirmed, NUTConfirmed, NetworkConfirmed
<1>7. o.nutStartedAt \in Int /\ o.networkStartedAt \in Int /\ c.nutConfirm \in Int /\ c.networkConfirm \in Int
  BY <1>1 DEF EngineStatus, Instant, NoTime, Config
<1>8. o.nutStartedAt # NoTime => at - o.nutStartedAt < c.nutConfirm
  BY <1>6, <1>7
<1>9. o.nutStartedAt = NoTime => at - o.networkStartedAt < c.networkConfirm
  <2>1. SUFFICES ASSUME o.nutStartedAt = NoTime PROVE at - o.networkStartedAt < c.networkConfirm
    OBVIOUS
  <2>2. ~NUTEvidence(x) /\ NetworkEvidence(x)
    BY <1>1, <2>1 DEF Evidence, First, NoTime
  <2>3. o.networkStartedAt # NoTime
    BY <1>1, <2>2 DEF First, NoTime
  <2> QED BY <1>6, <1>7, <2>2, <2>3
<1>10. ~NUTEvidence(x) => NetworkEvidence(x)
  BY DEF Evidence
<1> HIDE DEF o, out
<1> QED BY <1>1, <1>5, <1>8, <1>9, <1>10 DEF out

(* A poweroff that is no emergency was asked for by a sample that found    *)
(* the guests stopped.                                                     *)
LEMMA PoweroffNeedsStopped ==
  ASSUME NEW c \in Config, Validate(c), NEW s, Coherent(s), NEW at \in Nat, NEW x \in Snapshot,
         ~s.poweroffIssued, Step(c, s, at, x).status.poweroffIssued,
         ~Step(c, s, at, x).status.emergencyIssued
  PROVE  x.stopped
<1> DEFINE o == Observe(s, at, x)
           b == BeginShutdown(o)
           out == Step(c, s, at, x)
<1>1. out.status.poweroffIssued /\ ~out.status.emergencyIssued
  OBVIOUS
<1>2. s \in EngineStatus /\ s.state \in EngineState
  BY DEF Coherent, EngineStatus
<1>3. CASE s.state \in Watched
  <2>1. \/ /\ ~Evidence(x)
           /\ o.outageStartedAt # NoTime
           /\ out.status = ResetCandidate(o)
           /\ out.actions = <<"outage_cancelled">>
        \/ /\ ~Confirmed(c, o, at, x)
           /\ out.status = o
           /\ out.actions \in {<<>>, <<"outage_candidate_started">>}
        \/ /\ Confirmed(c, o, at, x)
           /\ s.outageStartedAt # NoTime
           /\ \/ /\ out.status = b
                 /\ out.actions = <<"graceful_shutdown">>
                 /\ ~x.stopped
                 /\ at < EmergencyAt(c, b)
              \/ /\ out.status = RequestPoweroff(b)
                 /\ out.actions = <<"graceful_shutdown", "host_poweroff_requested">>
                 /\ x.stopped
              \/ /\ out.status = [RequestPoweroff(b) EXCEPT !.emergencyIssued = TRUE]
                 /\ out.actions = <<"graceful_shutdown", "emergency_stop_remaining",
                                    "host_poweroff_requested">>
                 /\ at >= EmergencyAt(c, b)
    BY <1>3, WatchedOutcomes
  <2>2. /\ o \in EngineStatus
        /\ ~o.poweroffIssued
    BY <1>2, Observed
  <2> HIDE DEF o, out
  <2>3. ~ResetCandidate(o).poweroffIssued /\ ~b.poweroffIssued
    BY <2>2 DEF ResetCandidate, BeginShutdown, EngineStatus
  <2>4. [RequestPoweroff(b) EXCEPT !.emergencyIssued = TRUE].emergencyIssued
    BY <2>2 DEF RequestPoweroff, BeginShutdown, EngineStatus
  <2> HIDE DEF b
  <2> QED BY <1>1, <2>1, <2>2, <2>3, <2>4
<1>4. CASE s.state = "SHUTTING_DOWN"
  <2>1. \/ out.status = s
        \/ x.stopped
        \/ out.status = [RequestPoweroff(s) EXCEPT !.emergencyIssued = TRUE]
    BY <1>4, ShuttingDownOutcomes
  <2>2. [RequestPoweroff(s) EXCEPT !.emergencyIssued = TRUE].emergencyIssued
    BY <1>2 DEF RequestPoweroff, EngineStatus
  <2> HIDE DEF out
  <2> QED BY <1>1, <2>1, <2>2
<1>5. CASE s.state = "POWERED_OFF"
  BY <1>1, <1>5, PoweredOffOutcome
<1> QED BY <1>2, <1>3, <1>4, <1>5 DEF EngineState, Watched

(* An engine that no longer watches has issued the graceful shutdown.      *)
LEMMA ShutdownIsIssued ==
  ASSUME NEW c \in Config, Validate(c), NEW s, Coherent(s), NEW at \in Nat, NEW x \in Snapshot,
         s.state \notin Watched => s.gracefulIssued,
         Step(c, s, at, x).status.state \notin Watched
  PROVE  Step(c, s, at, x).status.gracefulIssued
<1> DEFINE o == Observe(s, at, x)
           b == BeginShutdown(o)
           out == Step(c, s, at, x)
<1>1. out.status.state \notin Watched
  OBVIOUS
<1>2. s \in EngineStatus /\ s.state \in EngineState
  BY DEF Coherent, EngineStatus
<1>3. CASE s.state \in Watched
  <2>1. out.status \in {ResetCandidate(o), o, b, RequestPoweroff(b),
                        [RequestPoweroff(b) EXCEPT !.emergencyIssued = TRUE]}
    BY <1>3, WatchedStatuses
  <2>2. o \in EngineStatus /\ o.state \in Watched
    BY <1>2, <1>3, Observed, ObserveCoherent
  <2> HIDE DEF o, out
  <2>3. ResetCandidate(o).state \in Watched
    BY <2>2 DEF ResetCandidate, Watched, EngineStatus
  <2>4. /\ b.gracefulIssued
        /\ RequestPoweroff(b).gracefulIssued
        /\ [RequestPoweroff(b) EXCEPT !.emergencyIssued = TRUE].gracefulIssued
    BY <2>2 DEF RequestPoweroff, BeginShutdown, EngineStatus
  <2> HIDE DEF b
  <2>5. out.status.gracefulIssued
    BY <1>1, <2>1, <2>2, <2>3, <2>4
  <2> QED BY <2>5 DEF out
<1>4. CASE s.state = "SHUTTING_DOWN"
  <2>1. \/ /\ out.status = s
           /\ out.actions = <<>>
           /\ ~x.stopped
           /\ at < EmergencyAt(c, s)
        \/ /\ out.status = RequestPoweroff(s)
           /\ out.actions = <<"host_poweroff_requested">>
           /\ x.stopped
        \/ /\ out.status = [RequestPoweroff(s) EXCEPT !.emergencyIssued = TRUE]
           /\ out.actions = <<"emergency_stop_remaining", "host_poweroff_requested">>
           /\ at >= EmergencyAt(c, s)
    BY <1>4, ShuttingDownOutcomes
  <2>2. s.gracefulIssued
    BY <1>4 DEF Watched
  <2>3. /\ RequestPoweroff(s).gracefulIssued
        /\ [RequestPoweroff(s) EXCEPT !.emergencyIssued = TRUE].gracefulIssued
    BY <1>2, <2>2 DEF RequestPoweroff, EngineStatus
  <2> HIDE DEF out
  <2> QED BY <2>1, <2>2, <2>3 DEF out
<1>5. CASE s.state = "POWERED_OFF"
  BY <1>5, PoweredOffOutcome DEF Watched
<1> QED BY <1>2, <1>3, <1>4, <1>5 DEF EngineState, Watched

-----------------------------------------------------------------------------
(* An engine whose time 0 is the instant `from', and the instant `since'   *)
(* at which an unbroken sequence of evidence began, or NoTime.             *)

(* A timer that runs is no older than the evidence.                        *)
Backed(from, s, since) ==
  s.state \in Watched =>
    /\ s.nutStartedAt # NoTime => since # NoTime /\ since <= from + s.nutStartedAt
    /\ s.networkStartedAt # NoTime => since # NoTime /\ since <= from + s.networkStartedAt

(* What a sample at instant t makes of the evidence.                       *)
Lasts(since, later, t, x) ==
  Evidence(x) => later = First(since, t) /\ later # NoTime /\ later <= t

(* A new engine's timers need no evidence.                                 *)
LEMMA NewBacked == \A from, since : Backed(from, NewStatus, since)
BY DEF Backed, NewStatus

(* The timers a sample starts begin with it, and those that go on were     *)
(* backed before.                                                          *)
LEMMA StepBacked ==
  ASSUME NEW c \in Config, Validate(c), NEW s, Coherent(s), NEW x \in Snapshot,
         NEW t \in Nat, NEW from \in 0..t, NEW since, NEW later,
         Backed(from, s, since), Lasts(since, later, t, x)
  PROVE  Backed(from, Step(c, s, t - from, x).status, later)
<1> DEFINE at == t - from
           n  == Step(c, s, at, x).status
<1>1. at \in Nat /\ from + at = t
  OBVIOUS
<1> HIDE DEF at
<1>2. SUFFICES ASSUME n.state \in Watched
               PROVE  /\ n.nutStartedAt # NoTime => later # NoTime /\ later <= from + n.nutStartedAt
                      /\ n.networkStartedAt # NoTime =>
                           later # NoTime /\ later <= from + n.networkStartedAt
  BY DEF Backed, at
<1>3. s.state \in Watched
  BY <1>1, <1>2, StepKeeps
<1>4. /\ n.nutStartedAt # NoTime => Evidence(x) /\ n.nutStartedAt = First(s.nutStartedAt, at)
      /\ n.networkStartedAt # NoTime =>
           NetworkEvidence(x) /\ n.networkStartedAt = First(s.networkStartedAt, at)
  BY <1>1, <1>2, <1>3, TimersRun
<1>5. /\ s.nutStartedAt # NoTime => since # NoTime /\ since <= from + s.nutStartedAt
      /\ s.networkStartedAt # NoTime => since # NoTime /\ since <= from + s.networkStartedAt
  BY <1>3 DEF Backed
<1> HIDE DEF n
<1>6. n.nutStartedAt # NoTime => later # NoTime /\ later <= from + n.nutStartedAt
  BY <1>1, <1>4, <1>5 DEF First, Lasts
<1>7. n.networkStartedAt # NoTime => later # NoTime /\ later <= from + n.networkStartedAt
  BY <1>1, <1>4, <1>5 DEF First, Lasts, Evidence
<1> QED BY <1>6, <1>7

(* When the shutdown begins, the evidence has lasted as long as one of the *)
(* two confirmations asks.                                                 *)
LEMMA EvidenceLasted ==
  ASSUME NEW c \in Config, Validate(c), NEW s, Coherent(s), s.state \in Watched,
         NEW x \in Snapshot, NEW t \in Nat, NEW from \in 0..t,
         NEW since \in Int, NEW later,
         Backed(from, s, since), Lasts(since, later, t, x),
         Step(c, s, t - from, x).status.state \notin Watched
  PROVE  /\ Evidence(x) /\ later # NoTime /\ later <= t
         /\ \/ t - later >= c.nutConfirm
            \/ NetworkEvidence(x) /\ t - later >= c.networkConfirm
<1> DEFINE at == t - from
<1>1. at \in Nat /\ from + at = t
  OBVIOUS
<1>2. /\ Evidence(x)
      /\ \/ at - First(s.nutStartedAt, at) >= c.nutConfirm
         \/ NetworkEvidence(x) /\ at - First(s.networkStartedAt, at) >= c.networkConfirm
  BY <1>1, ShutdownConfirmedBy
<1> HIDE DEF at
<1>3. /\ s.nutStartedAt # NoTime => since # NoTime /\ since <= from + s.nutStartedAt
      /\ s.networkStartedAt # NoTime => since # NoTime /\ since <= from + s.networkStartedAt
  BY DEF Backed
<1>4. /\ c.nutConfirm \in Int /\ c.networkConfirm \in Int
      /\ s.nutStartedAt \in Int /\ s.networkStartedAt \in Int
  BY DEF Config, Coherent, EngineStatus, Instant, NoTime
<1>5. later = First(since, t) /\ later # NoTime /\ later <= t
  BY <1>2 DEF Lasts
<1> QED BY <1>1, <1>2, <1>3, <1>4, <1>5 DEF First
=============================================================================
