------------------------------ MODULE EngineStep ------------------------------
(***************************************************************************)
(* The decision function of powercheck's outage engine                     *)
(* (internal/core/engine.go).  The Go engine is a pure state machine: a    *)
(* configuration, a status and the time of the last sample.  Here it is a  *)
(* set of operators on a configuration record c, a status record s, the    *)
(* time `at' of a sample and its snapshot x, so that the engine alone      *)
(* (OutageEngine) and the two daemons that embed it (PVEGuard, HostGuard)  *)
(* share one translation.                                                  *)
(*                                                                         *)
(* Durations are integers of an arbitrary unit.  An action of the engine   *)
(* is its kind; its timestamp is always the sample's and its reason is     *)
(* text, so both are left out.                                             *)
(***************************************************************************)
EXTENDS Integers, Sequences

(* A nil *time.Duration.                                                   *)
NoTime == -1

NUTStatus == {"OL", "OB", "LB", "UNREACHABLE"}

Snapshot == [nut : NUTStatus, lan : BOOLEAN, wan : BOOLEAN, stopped : BOOLEAN]

EngineState == {"NORMAL", "CONFIRMING_OUTAGE", "SHUTTING_DOWN", "POWERED_OFF"}

(* The Interval field is left out: Step never reads it and Validate only   *)
(* asks it to be positive.                                                 *)
Config == [nutConfirm : Int, networkConfirm : Int, totalBudget : Int,
           emergencyReserve : Int, recoverySuccessCount : Int]

Validate(c) ==
  /\ \A f \in DOMAIN c : c[f] > 0
  /\ c.totalBudget > c.emergencyReserve
  /\ c.totalBudget - c.emergencyReserve > c.nutConfirm
  /\ c.totalBudget - c.emergencyReserve > c.networkConfirm

NewStatus ==
  [state |-> "NORMAL", outageStartedAt |-> NoTime, nutStartedAt |-> NoTime,
   networkStartedAt |-> NoTime, recoveryCount |-> 0, gracefulIssued |-> FALSE,
   emergencyIssued |-> FALSE, poweroffIssued |-> FALSE]

-----------------------------------------------------------------------------
(* What a snapshot says.                                                   *)

NUTEvidence(x) == x.nut \in {"OB", "LB"}

NetworkEvidence(x) == x.nut = "UNREACHABLE" /\ ~x.lan /\ ~x.wan

Evidence(x) == NUTEvidence(x) \/ NetworkEvidence(x)

-----------------------------------------------------------------------------
(* progressShutdown: what a sample does once the shutdown has begun.       *)

(* Mutants: the reserve is not subtracted; the start of the outage is not  *)
(* added.                                                                  *)
EmergencyAtBudget(c, s) == s.outageStartedAt + c.totalBudget
EmergencyAtSinceStart(c, s) == c.totalBudget - c.emergencyReserve

EmergencyAt(c, s) == s.outageStartedAt + c.totalBudget - c.emergencyReserve

RequestPoweroff(s) == [s EXCEPT !.poweroffIssued = TRUE, !.state = "POWERED_OFF"]

Progress(c, s, at, x) ==
  CASE s.poweroffIssued ->
         [status |-> s, actions |-> <<>>]
    [] ~s.poweroffIssued /\ x.stopped ->
         [status |-> RequestPoweroff(s), actions |-> <<"host_poweroff_requested">>]
    [] ~s.poweroffIssued /\ ~x.stopped
         /\ (s.outageStartedAt = NoTime \/ at < EmergencyAt(c, s)) ->
         [status |-> s, actions |-> <<>>]
    [] OTHER ->
         [status  |-> [RequestPoweroff(s) EXCEPT !.emergencyIssued = TRUE],
          actions |-> IF s.emergencyIssued
                      THEN <<"host_poweroff_requested">>
                      ELSE <<"emergency_stop_remaining", "host_poweroff_requested">>]

-----------------------------------------------------------------------------
(* The evidence timers and the recovery count after a sample that finds    *)
(* the engine NORMAL or CONFIRMING_OUTAGE.  An OB/LB sample stops the      *)
(* network timer; an all-unreachable sample keeps a running OB/LB timer;   *)
(* any other sample stops both and counts as a recovery.                   *)

(* Mutant: a running timer is set again.                                   *)
FirstAgain(t, at) == at

First(t, at) == IF t = NoTime THEN at ELSE t

Observe(s, at, x) ==
  LET outage == IF Evidence(x) THEN First(s.outageStartedAt, at) ELSE s.outageStartedAt
  IN  [s EXCEPT
         !.outageStartedAt  = outage,
         !.nutStartedAt     = IF NUTEvidence(x) THEN First(@, at)
                              ELSE IF NetworkEvidence(x) THEN @ ELSE NoTime,
         !.networkStartedAt = IF NetworkEvidence(x) THEN First(@, at) ELSE NoTime,
         !.recoveryCount    = IF Evidence(x) THEN 0
                              ELSE IF outage # NoTime THEN @ + 1 ELSE @,
         !.state            = IF outage = NoTime THEN "NORMAL"
                              ELSE IF s.outageStartedAt = NoTime THEN "CONFIRMING_OUTAGE"
                              ELSE @]

Opens(s, x) == s.outageStartedAt = NoTime /\ Evidence(x)

(* Mutant: one recovery too many is asked for.                             *)
RecoveredLate(c, s, x) ==
  /\ ~Evidence(x)
  /\ s.outageStartedAt # NoTime
  /\ s.recoveryCount > c.recoverySuccessCount

Recovered(c, s, x) ==
  /\ ~Evidence(x)
  /\ s.outageStartedAt # NoTime
  /\ s.recoveryCount >= c.recoverySuccessCount

ResetCandidate(s) ==
  [s EXCEPT !.state = "NORMAL", !.outageStartedAt = NoTime, !.nutStartedAt = NoTime,
            !.networkStartedAt = NoTime, !.recoveryCount = 0]

(* Mutant: the time since the outage began confirms, flickers and all.     *)
NUTConfirmedSinceOutage(c, s, at, x) ==
  /\ s.nutStartedAt # NoTime
  /\ Evidence(x)
  /\ at - s.outageStartedAt >= c.nutConfirm

NUTConfirmed(c, s, at, x) ==
  /\ s.nutStartedAt # NoTime
  /\ Evidence(x)
  /\ at - s.nutStartedAt >= c.nutConfirm

NetworkConfirmed(c, s, at, x) ==
  /\ s.networkStartedAt # NoTime
  /\ NetworkEvidence(x)
  /\ at - s.networkStartedAt >= c.networkConfirm

Confirmed(c, s, at, x) ==
  /\ s.outageStartedAt # NoTime
  /\ NUTConfirmed(c, s, at, x) \/ NetworkConfirmed(c, s, at, x)

(* Mutant: the state does not change.                                      *)
BeginShutdownInPlace(s) == [s EXCEPT !.gracefulIssued = TRUE]

BeginShutdown(s) == [s EXCEPT !.state = "SHUTTING_DOWN", !.gracefulIssued = TRUE]

(* A sample that finds the engine NORMAL or CONFIRMING_OUTAGE.             *)
Decide(c, s, at, x) ==
  LET o      == Observe(s, at, x)
      opened == IF Opens(s, x) THEN <<"outage_candidate_started">> ELSE <<>>
      p      == Progress(c, BeginShutdown(o), at, x)
  IN  CASE Recovered(c, o, x) ->
             [status |-> ResetCandidate(o), actions |-> <<"outage_cancelled">>]
        [] ~Recovered(c, o, x) /\ Confirmed(c, o, at, x) ->
             [status  |-> p.status,
              actions |-> opened \o <<"graceful_shutdown">> \o p.actions]
        [] OTHER ->
             [status |-> o, actions |-> opened]

(* Mutant: a shutdown that has begun is still watched.                     *)
StepStillWatching(c, s, at, x) ==
  IF s.state = "POWERED_OFF" THEN [status |-> s, actions |-> <<>>] ELSE Decide(c, s, at, x)

(* Step, for a sample time the engine accepts.                             *)
Step(c, s, at, x) ==
  CASE s.state = "POWERED_OFF"   -> [status |-> s, actions |-> <<>>]
    [] s.state = "SHUTTING_DOWN" -> Progress(c, s, at, x)
    [] OTHER                     -> Decide(c, s, at, x)

(* The opening and the cancellation of a candidate only notify, and come   *)
(* first in the actions of a Step; the rest are the commands to carry out. *)
Notice == {"outage_candidate_started", "outage_cancelled"}

Commands(actions) ==
  IF actions # <<>> /\ Head(actions) \in Notice THEN Tail(actions) ELSE actions

(* A sample time that is negative or not later than the last is refused.   *)
Accepts(lastAt, at) == at >= 0 /\ (lastAt = NoTime \/ at > lastAt)
=============================================================================
