------------------------------- MODULE Scenario -------------------------------
(***************************************************************************)
(* The scenario runner of powercheck-sim (internal/sim): an engine stepped *)
(* through simulated time on what the scenario's changes show, and its     *)
(* commands carried out by a FakePVE, whose guests are in turn the         *)
(* engine's evidence of stopped guests.                                    *)
(*                                                                         *)
(* The scenario is not written out in advance: the changes up to a sample  *)
(* are chosen when the runner reaches it.  A restart rebuilds the engine   *)
(* from a copy of its own status and last time (core.RestoreEngine), so    *)
(* that nothing of it is left to model.  The comparison with the expected  *)
(* actions ends a run and is left out.                                     *)
(***************************************************************************)
EXTENDS Simulation, FakePVE

LOCAL INSTANCE SequencesExt

CONSTANTS
  Configs,                 \* [detection : Config, interval : Nat]
  Scripts,                 \* the scripts of fake hosts
  NoScript,                \* that of a scenario without fake_pve
  Supplies,                \* what a change may show: [nut, lan, wan]
  Duration                 \* of a scenario

(* What RunScenario and Validate ask of a scenario.                        *)
ASSUME ConfigsAssumption ==
  \A c \in Configs : Validate(c.detection) /\ c.interval \in Nat \ {0}
ASSUME ScriptsAssumption == Scripts \subseteq Script
ASSUME DurationAssumption == Duration \in Nat

VARIABLES
  config, script,          \* the scenario's
  at, current,             \* time of the next sample; the snapshot so far
  status, lastAt,          \* the engine
  pve,                     \* the fake host
  actions,                 \* what the engine has asked for, with times
  constant                 \* history: {x} while every sample was x, up to POWERED_OFF

vars == <<config, script, at, current, status, lastAt, pve, actions, constant>>

(* A snapshot that shows a supply; guests as they are said to be.          *)
Showing(s, stopped) == [nut |-> s.nut, lan |-> s.lan, wan |-> s.wan, stopped |-> stopped]

(* The first change must show the whole supply, and the guests unless a    *)
(* fake host says what they do.                                            *)
Init ==
  /\ config \in Configs
  /\ script \in Scripts \cup {NoScript}
  /\ at = 0
  /\ \E s \in Supplies, stopped \in BOOLEAN :
       /\ script # NoScript => ~stopped
       /\ current = Showing(s, stopped)
  /\ status = NewStatus /\ lastAt = NoTime
  /\ pve = NewHost
  /\ actions = <<>>
  /\ constant = {}

(* What the changes due by now leave as the snapshot; with a fake host     *)
(* they say nothing of the guests.                                         *)
Changed ==
  {current} \cup
  {Showing(s, stopped) : s \in Supplies,
                         stopped \in IF script = NoScript THEN BOOLEAN ELSE {current.stopped}}

(* Mutant: the commands of a step are carried out last to first.           *)
DispatchBackwards(p, kinds) ==
  FoldRight(LAMBDA kind, q :
              CASE kind = "graceful_shutdown"        -> StartGracefulShutdown(script, q, at)
                [] kind = "emergency_stop_remaining" -> ForceRemaining(script, q, at)
                [] kind = "host_poweroff_requested"  -> RequestHostPoweroff(script, q, at)
                [] OTHER                             -> q,
            kinds, p)

Dispatch(p, kinds) ==
  FoldLeft(LAMBDA q, kind :
             CASE kind = "graceful_shutdown"        -> StartGracefulShutdown(script, q, at)
               [] kind = "emergency_stop_remaining" -> ForceRemaining(script, q, at)
               [] kind = "host_poweroff_requested"  -> RequestHostPoweroff(script, q, at)
               [] OTHER                             -> q,
           p, kinds)

(* One iteration of RunScenario.                                           *)
Sample ==
  /\ at <= Duration
  /\ Accepts(lastAt, at)
  /\ \E change \in Changed :
       LET host == IF script = NoScript THEN pve ELSE Advance(pve, at)
           x    == IF script = NoScript THEN change
                   ELSE [change EXCEPT !.stopped = AllGuestsStopped(host)]
           out  == Step(config.detection, status, at, x)
       IN  /\ current' = x
           /\ status' = out.status /\ lastAt' = at
           /\ actions' = actions \o Stamped(at, out.actions)
           /\ pve' = IF script = NoScript THEN pve ELSE Dispatch(host, out.actions)
           /\ constant' = CASE lastAt = NoTime              -> {x}
                             [] status.state = "POWERED_OFF" -> constant
                             [] OTHER                        -> constant \cap {x}
  /\ at' = at + config.interval
  /\ UNCHANGED <<config, script>>

Next == Sample

Spec == Init /\ [][Next]_vars

-----------------------------------------------------------------------------
TypeOK ==
  /\ at \in 0 .. Duration + config.interval
  /\ current \in Snapshot
  /\ status.state \in EngineState /\ lastAt \in {NoTime} \cup (0 .. Duration)
  /\ pve.events \subseteq Event
  /\ \A g \in Guests :
       /\ pve.state[g] \in {"running", "stopping", "stopped"}
       /\ pve.stopDue[g] # NoEnd => pve.state[g] = "stopping"
  /\ \A a \in ToSet(actions) : a.at \in 0 .. Duration
  /\ constant \subseteq Snapshot

Logged(kind, outcome) == {e \in pve.events : e.kind = kind /\ e.outcome = outcome}

(* What the log says of the host agrees with what it says of the guests,   *)
(* whatever the script: a poweroff that was carried out, or tried, came    *)
(* after the one end of every guest, by itself or by force, and one that   *)
(* was blocked came with a forced stop that failed, never for a guest that *)
(* was left out or was still given time (dispatchPVEActions,               *)
(* Executor.ForceRemaining, Executor.RequestHostPoweroff).                 *)
PoweroffAccountsForGuests ==
  \A e \in {e \in pve.events : e.kind = "host_poweroff"} :
    IF e.outcome = "blocked"
    THEN \E f \in Logged("guest_force", "failure") : f.at = e.at
    ELSE \A g \in Guests :
           \E end \in Logged("guest_stopped", "success") \cup Logged("guest_force", "success") :
             end.guest = g /\ end.at <= e.at

(* An outage that never changes runs by the same timeline in the preview   *)
(* of the console and in a scenario, for every interval, whether or not    *)
(* its samples hit the ends of the windows: in the preview up to the end   *)
(* of the budget, which a sample of the reserve need not precede, and in a *)
(* scenario up to its last sample (Simulate, RunScenario).                 *)
OutageTimeline ==
  LET c == config.detection
  IN  /\ lastAt = NoTime =>
           \A scenario \in Scenarios, stopped \in BOOLEAN :
             LET x == Scene(scenario, stopped)
             IN  Simulate(c, config.interval, x)
                   = Timeline(c, config.interval, x, c.totalBudget)
      /\ \A x \in constant :
           Evidence(x) => actions = Timeline(c, config.interval, x, lastAt)
=============================================================================
