------------------------------ MODULE Simulation ------------------------------
(***************************************************************************)
(* The preview of an outage (internal/outageconfig/simulate.go): the       *)
(* engine, stepped over the whole budget on evidence that never changes.   *)
(* Timeline says in closed form what it must show.                         *)
(***************************************************************************)
EXTENDS EngineStep

LOCAL INSTANCE Folds
LOCAL INSTANCE SequencesExt

Scenarios == {"nut-ob", "network-loss"}

(* The snapshot of a scenario, with guests that never change.              *)
Scene(scenario, stopped) ==
  IF scenario = "nut-ob"
  THEN [nut |-> "OB", lan |-> TRUE, wan |-> TRUE, stopped |-> stopped]
  ELSE [nut |-> "UNREACHABLE", lan |-> FALSE, wan |-> FALSE, stopped |-> stopped]

(* The times of the samples: 0, interval, ... up to the limit.             *)
SampleTimes(limit, interval) ==
  [i \in 1 .. limit \div interval + 1 |-> (i - 1) * interval]

(* The actions of one step, stamped with its time.                         *)
Stamped(at, actions) ==
  [i \in DOMAIN actions |-> [at |-> at, kind |-> actions[i]]]

(* Mutant: the last sample of the budget is left out.                      *)
SimulateShort(c, interval, x) ==
  LET next(acc, at) ==
        LET out == Step(c, acc.status, at, x)
        IN  IF acc.status.state = "POWERED_OFF" THEN acc
            ELSE [status |-> out.status, steps |-> acc.steps \o Stamped(at, out.actions)]
  IN  FoldLeft(next, [status |-> NewStatus, steps |-> <<>>],
               SampleTimes(c.totalBudget - 1, interval)).steps

(* Simulate: its steps, up to the first after which the engine is          *)
(* POWERED_OFF.  The commands a step would run are left out.               *)
Simulate(c, interval, x) ==
  LET next(acc, at) ==
        LET out == Step(c, acc.status, at, x)
        IN  IF acc.status.state = "POWERED_OFF" THEN acc
            ELSE [status |-> out.status, steps |-> acc.steps \o Stamped(at, out.actions)]
  IN  FoldLeft(next, [status |-> NewStatus, steps |-> <<>>],
               SampleTimes(c.totalBudget, interval)).steps

-----------------------------------------------------------------------------
(* The first sample at or after a time.                                    *)
FirstSample(interval, t) == ((t + interval - 1) \div interval) * interval

(* An outage that shows the same evidence from the first sample on, up to  *)
(* the time `end': a candidate at 0, the shutdown at the first sample that *)
(* completes the confirmation, and the poweroff with it when no guest      *)
(* runs, or else behind the forced stop at the first sample of the reserve. *)
Timeline(c, interval, x, end) ==
  LET begin     == FirstSample(interval,
                               IF NUTEvidence(x) THEN c.nutConfirm ELSE c.networkConfirm)
      emergency == FirstSample(interval, c.totalBudget - c.emergencyReserve)
      opening   == <<[at |-> 0, kind |-> "outage_candidate_started"],
                     [at |-> begin, kind |-> "graceful_shutdown"]>>
      closing   == IF x.stopped
                   THEN <<[at |-> begin, kind |-> "host_poweroff_requested"]>>
                   ELSE <<[at |-> emergency, kind |-> "emergency_stop_remaining"],
                          [at |-> emergency, kind |-> "host_poweroff_requested"]>>
  IN  SelectSeq(opening \o closing, LAMBDA step : step.at <= end)
=============================================================================
