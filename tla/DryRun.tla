--------------------------------- MODULE DryRun --------------------------------
(***************************************************************************)
(* The rounds of powercheck-dryrun (cmd/powercheck-dryrun, internal/dryrun) *)
(* and, through the same Collector, of the PVE guard.  A round runs pvesh  *)
(* and upsc in two goroutines, waits for both, pings every target in a     *)
(* goroutine each if NUT failed, and hands one snapshot to the engine.     *)
(* All of them share the round's context; pvesh and ping have a shorter    *)
(* bound of their own.                                                     *)
(*                                                                         *)
(* A program whose peer answers ends before the clock moves; one whose     *)
(* peer hangs ends when its context does, and one that is started after    *)
(* the end of its context fails at once (exec.CommandContext).             *)
(***************************************************************************)
EXTENDS EngineStep, FiniteSets

CONSTANTS
  Detection, Interval,                    \* dryrun.Config
  RoundTimeout, PVETimeout, PingTimeout,
  LAN, WAN,                               \* targets
  Worlds,                                 \* what may answer, see Answer
  MaxTime, LastChange, MaxChanges         \* bounds: of the clock, of the world's changes

Targets == LAN \cup WAN
Tasks == {"pve", "nut"} \cup Targets

(* dryrun.Config.Validate.                                                 *)
ASSUME ConfigAssumption ==
  /\ Detection \in Config /\ Validate(Detection)
  /\ {Interval, RoundTimeout, PVETimeout, PingTimeout} \subseteq Nat \ {0}
  /\ Interval > RoundTimeout /\ RoundTimeout >= PingTimeout
  /\ LAN # {} /\ WAN # {} /\ {"pve", "nut"} \cap Targets = {}
ASSUME WorldsAssumption ==
  \A w \in Worlds : /\ w.nut \in {"OL", "OB", "refuses", "hangs"}
                    /\ w.pve \in {"up", "stopped", "refuses", "hangs"}
                    /\ w.alive \subseteq Targets
ASSUME BoundsAssumption == {MaxTime, LastChange, MaxChanges} \subseteq Nat

VARIABLES
  now, world, changes,   \* clock; the world; its changes so far
  phase, began, since,   \* of the round: phase, its begin, the begin of its phase
  tasks,                 \* each goroutine: idle, waited for, or its result
  tick,                  \* next tick of the ticker
  status, lastAt,        \* the engine
  lostSince, steady, spared  \* history, see below

round == <<phase, began, since, tasks>>
engine == <<status, lastAt>>
history == <<lostSince, steady, spared>>
vars == <<now, world, changes, round, tick, engine, history>>

EarlierOf(t, u) == IF t <= u THEN t ELSE u

(* What the peer of a task does now.                                       *)
Answer(t) ==
  CASE t = "nut" -> world.nut
    [] t = "pve" -> world.pve
    [] OTHER     -> IF t \in world.alive THEN "alive" ELSE "hangs"

RoundEnd == began + RoundTimeout

(* Mutant: the probes are not bound by the round.                          *)
DeadlineOfTask(t) ==
  CASE t = "nut" -> RoundEnd
    [] t = "pve" -> EarlierOf(began + PVETimeout, RoundEnd)
    [] OTHER     -> since + PingTimeout

Deadline(t) ==
  CASE t = "nut" -> RoundEnd
    [] t = "pve" -> EarlierOf(began + PVETimeout, RoundEnd)
    [] OTHER     -> EarlierOf(since + PingTimeout, RoundEnd)

Waited == {t \in Tasks : tasks[t] = "waited"}

Reading == [t \in Tasks |-> IF t \in {"pve", "nut"} THEN "waited" ELSE "idle"]

Init ==
  /\ now = 0 /\ changes = 0
  /\ world \in {w \in Worlds : w.nut = "OL"}
  /\ phase = "reading" /\ began = 0 /\ since = 0
  /\ tasks = Reading
  /\ tick = Interval
  /\ status = NewStatus /\ lastAt = NoTime
  /\ lostSince = NoTime /\ steady = world.alive /\ spared = {}

-----------------------------------------------------------------------------
(* A goroutine ends, with an answer or an error.                           *)
Ends(t, result) ==
  /\ t \in Waited
  /\ tasks' = [tasks EXCEPT ![t] = result]
  /\ UNCHANGED <<now, world, changes, phase, began, since, tick, engine, history>>

Answers(t) ==
  /\ now < Deadline(t) /\ Answer(t) \notin {"refuses", "hangs"}
  /\ Ends(t, Answer(t))

Fails(t) ==
  /\ now >= Deadline(t) \/ Answer(t) = "refuses"
  /\ Ends(t, "failed")

(* The networks are probed only when NUT failed.                           *)
BeginProbes ==
  /\ phase = "reading" /\ Waited = {}
  /\ tasks["nut"] = "failed"
  /\ phase' = "probing" /\ since' = now
  /\ tasks' = [t \in Tasks |-> IF t \in Targets THEN "waited" ELSE tasks[t]]
  /\ UNCHANGED <<now, world, changes, began, tick, engine, history>>

(* Mutant: every target must answer.                                       *)
AllReachable(targets) == \A t \in targets : tasks[t] = "alive"

AnyReachable(targets) == \E t \in targets : tasks[t] = "alive"

(* Mutant: guests that cannot be listed are taken for stopped.             *)
ReportOfNoGuests ==
  [nut |-> IF tasks["nut"] = "failed" THEN "UNREACHABLE" ELSE tasks["nut"],
   lan |-> tasks["nut"] # "failed" \/ AnyReachable(LAN),
   wan |-> tasks["nut"] # "failed" \/ AnyReachable(WAN),
   stopped |-> tasks["pve"] # "up"]

(* The snapshot of the round.                                              *)
Report ==
  [nut |-> IF tasks["nut"] = "failed" THEN "UNREACHABLE" ELSE tasks["nut"],
   lan |-> tasks["nut"] # "failed" \/ AnyReachable(LAN),
   wan |-> tasks["nut"] # "failed" \/ AnyReachable(WAN),
   stopped |-> tasks["pve"] = "stopped"]

Collected ==
  /\ Waited = {}
  /\ \/ phase = "probing"
     \/ phase = "reading" /\ tasks["nut"] # "failed"

Undecided == status.state \in {"NORMAL", "CONFIRMING_OUTAGE"}

(* Session.Sample: the engine steps at the time the round began.  What is  *)
(* planned is shown, and nothing is carried out.                           *)
EndRound ==
  /\ Collected
  /\ Accepts(lastAt, began)
  /\ status' = Step(Detection, status, began, Report).status /\ lastAt' = began
  /\ phase' = "waiting"
  /\ spared' = CASE ~Undecided              -> spared
                 [] NetworkEvidence(Report) -> spared \cup steady
                 [] OTHER                   -> {}
  /\ UNCHANGED <<now, world, changes, began, since, tasks, tick, lostSince, steady>>

(* Mutant: the probes' results of the round before are left.               *)
BeginRoundKeeping ==
  /\ phase = "waiting" /\ now >= tick
  /\ phase' = "reading" /\ began' = now /\ since' = now
  /\ tasks' = [tasks EXCEPT !["pve"] = "waited", !["nut"] = "waited"]
  /\ tick' = tick + ((now - tick) \div Interval + 1) * Interval
  /\ steady' = world.alive
  /\ UNCHANGED <<now, world, changes, engine, lostSince, spared>>

(* runWatch: the ticker keeps one missed tick and drops the others.        *)
BeginRound ==
  /\ phase = "waiting" /\ now >= tick
  /\ phase' = "reading" /\ began' = now /\ since' = now
  /\ tasks' = Reading
  /\ tick' = tick + ((now - tick) \div Interval + 1) * Interval
  /\ steady' = world.alive
  /\ UNCHANGED <<now, world, changes, engine, lostSince, spared>>

-----------------------------------------------------------------------------
(* The clock moves when every goroutine hangs, or the ticker is waited for. *)
Tick ==
  /\ now < MaxTime
  /\ \/ phase = "waiting" /\ now < tick
     \/ Waited # {} /\ \A t \in Waited : now < Deadline(t) /\ Answer(t) = "hangs"
  /\ now' = now + 1
  /\ UNCHANGED <<world, changes, round, tick, engine, history>>

(* An outage as the rounds can see it.                                     *)
Lost(w) == w.nut = "OB" \/ (w.nut # "OL" /\ w.alive = {})

WorldChanges ==
  /\ now <= LastChange /\ changes < MaxChanges
  /\ changes' = changes + 1
  /\ \E w \in Worlds \ {world} :
       /\ world' = w
       /\ steady' = steady \cap w.alive
       /\ lostSince' = CASE ~Lost(w)                            -> NoTime
                         [] w.nut = "OB" /\ world.nut # "OB" -> now
                         [] OTHER                              -> First(lostSince, now)
  /\ UNCHANGED <<now, round, tick, engine, spared>>

Next ==
  \/ \E t \in Tasks : Answers(t) \/ Fails(t)
  \/ BeginProbes \/ EndRound \/ BeginRound \/ Tick \/ WorldChanges

Spec == Init /\ [][Next]_vars
-----------------------------------------------------------------------------
TypeOK ==
  /\ now \in 0..MaxTime /\ world \in Worlds /\ changes \in 0..MaxChanges
  /\ phase \in {"reading", "probing", "waiting"}
  /\ began \in 0..now /\ since \in began..now
  /\ \A t \in Targets : tasks[t] \in {"idle", "waited", "failed", "alive"}
  /\ phase = "reading" => \A t \in Targets : tasks[t] = "idle"
  /\ tasks["nut"] \in {"waited", "failed", "OL", "OB"}
  /\ tasks["pve"] \in {"waited", "failed", "up", "stopped"}
  /\ status.state \in EngineState
  /\ lastAt \in {NoTime} \cup 0..now

(* A round ends before its time is up, hence before the next tick, and the *)
(* engine accepts its sample, whatever hangs.                              *)
RoundsKeepUp ==
  /\ phase # "waiting" => now <= RoundEnd /\ now < tick
  /\ Collected => Accepts(lastAt, began)

(* A target that is alive throughout a round keeps it from counting as     *)
(* evidence, if the round has any time left for the probes.  steady is the *)
(* set of targets alive since the round began.                             *)
LiveTargetVetoes ==
  (Collected /\ NetworkEvidence(Report)) => (steady = {} \/ since = RoundEnd)

LongerConfirm ==
  IF Detection.nutConfirm >= Detection.networkConfirm THEN Detection.nutConfirm
  ELSE Detection.networkConfirm

(* An outage that lasts is planned for: at the latest in the first round   *)
(* after the confirmation, which begins with the first round of the outage. *)
(* lostSince is when the world became an outage, or one that NUT reports.  *)
OutagePlanned ==
  (lostSince # NoTime /\ now - lostSince > LongerConfirm + 2 * Interval + RoundTimeout)
    => status.gracefulIssued

(* Before the emergency the poweroff is planned only in a round whose list *)
(* of guests showed them stopped: a list that failed shows nothing.        *)
PoweroffNeedsGuests ==
  [][~status.poweroffIssued /\ status'.poweroffIssued /\ ~status'.emergencyIssued
       => tasks["pve"] = "stopped"]_vars

(* A failure of NUT alone plans no shutdown: no target was alive through   *)
(* any of the rounds that confirmed a network outage (spared).             *)
NUTFaultPlansNothing == status.gracefulIssued => spared = {}
=============================================================================
