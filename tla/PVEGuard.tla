------------------------------- MODULE PVEGuard -------------------------------
(***************************************************************************)
(* The automatic guard of a PVE host (cmd/powercheck-pve/guard.go): one    *)
(* goroutine that samples, steps the outage engine, carries out its        *)
(* commands through the executor (internal/pveexec), saves its state and   *)
(* waits for its ticker, composed with what it acts on and suffers from:   *)
(* guests that may ignore a shutdown, an operator who starts guests, the   *)
(* mains, the console that writes a new configuration, systemd that        *)
(* restarts a guard that died, and the reboot of the host.                 *)
(*                                                                         *)
(* Time is a global clock.  Sampling, status queries and file operations   *)
(* take no time; stopall, the forced stops and the poweroff take any time  *)
(* up to the deadline of their context; the clock does not pass a moment   *)
(* at which the guard has something due.                                   *)
(***************************************************************************)
EXTENDS GuardState, FiniteSets

CONSTANTS
  Settings,        \* the configurations the console may store, by revision
  Guests,          \* the guests of this node that are not templates
  StopAllMargin,   \* what the guard adds to the guests' timeout (20 s)
  ForceTimeout,    \* bound of one forced stop (15 s)
  PoweroffTimeout, \* bound of the poweroff command (10 s)
  RestartDelay,    \* systemd's RestartSec
  MaxTime,         \* bound: the clock stops here
  LastChange,      \* bound: mains and configuration change up to here
  Limits           \* bound: how often each kind of disturbance happens

Revisions == 1..Len(Settings)
Disturbance == {"flips", "crashes", "starts", "commands", "loads", "saves", "boots"}

(* Every revision passed outageconfig's and the engine's Validate.         *)
ASSUME SettingsAssumption ==
  /\ Settings \in Seq([detection : Config, interval : Nat \ {0}, guestTimeout : Nat \ {0}])
  /\ Settings # <<>>
  /\ \A r \in Revisions : Validate(Settings[r].detection)
ASSUME BoundsAssumption ==
  /\ {StopAllMargin, ForceTimeout, PoweroffTimeout, RestartDelay, MaxTime, LastChange} \subseteq Nat
  /\ Limits \in [Disturbance -> Nat]

VARIABLES
  now, lostAt,                    \* clock; since when the mains are off, or NoTime
  host, boot, running, asked,     \* host, boot number, guests up, guests asked to stop
  stored,                         \* revision in the console's configuration file
  file,                           \* the guard's state file
  pc, revision, guestRevision,    \* the process: where it is, settings in force
  origin, status, lastAt,         \* its engine
  todo, targets, failed,          \* commands left; forced stops under way and failed
  due,                            \* end of the current wait, command or restart delay
  tick,                           \* next tick of the ticker
  count,                          \* disturbances so far
  stopAlls, evidence, anchor      \* history, see below

environment == <<lostAt, host, boot, running, asked, stored>>
engine == <<origin, status, lastAt>>
settings == <<revision, guestRevision>>
command == <<todo, targets, failed>>
history == <<stopAlls, evidence, anchor>>
vars == <<now, environment, file, pc, settings, engine, command, due, tick, count, history>>

Detection == Settings[revision].detection
Interval == Settings[revision].interval

EarlierOf(t, u) == IF t <= u THEN t ELSE u

May(d) == count[d] < Limits[d]
Happens(d) == May(d) /\ count' = [count EXCEPT ![d] = @ + 1]

(* guardDeadlines: instants on the clock.                                  *)
EmergencyDeadline == origin + EmergencyAt(Detection, status)
TotalDeadline == origin + status.outageStartedAt + Detection.totalBudget

(* What the collector reports: the mains through NUT, and whether no guest *)
(* runs.  Unreachable NUT and networks are OutageEngine's subject.         *)
Sampled ==
  [nut |-> IF lostAt = NoTime THEN "OL" ELSE "OB", lan |-> TRUE, wan |-> TRUE,
   stopped |-> running = {}]

Init ==
  /\ now = 0 /\ lostAt = NoTime
  /\ host = "up" /\ boot = 1 /\ running = Guests /\ asked = {}
  /\ stored = 1
  /\ file = NoFile
  /\ pc = "down" /\ revision = 1 /\ guestRevision = 1
  /\ origin = 0 /\ status = NewStatus /\ lastAt = NoTime
  /\ todo = <<>> /\ targets = {} /\ failed = FALSE
  /\ due = 0 /\ tick = 0
  /\ count = [d \in Disturbance |-> 0]
  /\ stopAlls = 0 /\ evidence = [kept |-> NoTime, now |-> NoTime] /\ anchor = NoTime

-----------------------------------------------------------------------------
(* The guard process.                                                      *)

(* What the process knows goes with it.                                    *)
Forget ==
  /\ pc' = "down"
  /\ revision' = 1 /\ guestRevision' = 1
  /\ origin' = 0 /\ status' = NewStatus /\ lastAt' = NoTime
  /\ todo' = <<>> /\ targets' = {} /\ failed' = FALSE
  /\ tick' = 0

(* The process ends, by an error or killed; systemd restarts it.           *)
Die ==
  /\ Forget
  /\ due' = now + RestartDelay
  /\ evidence' = [evidence EXCEPT !.now = evidence.kept]
  /\ UNCHANGED <<now, environment, file, stopAlls, anchor>>

(* Mutant: the outage resumed is dated from the restart.                   *)
ResumeRenewed(s) ==
  /\ revision' = s.revision
  /\ origin' = now /\ status' = s.status /\ lastAt' = NoTime

(* An outage goes on with the detection settings it began under.           *)
Resume(s) ==
  /\ revision' = s.revision
  /\ origin' = s.origin /\ status' = s.status /\ lastAt' = s.lastAt

(* main and the head of runAutoGuard: resume the outage of this boot, or   *)
(* start afresh.  The guests' timeout is the stored configuration's in     *)
(* both cases.                                                             *)
Start ==
  /\ pc = "down" /\ host = "up" /\ now >= due
  /\ file' = Restorable(file, boot)
  /\ \/ \E s \in file' : Resume(s)
     \/ /\ file' = NoFile
        /\ revision' = stored
        /\ origin' = now /\ status' = NewStatus /\ lastAt' = NoTime
  /\ guestRevision' = stored
  /\ tick' = now + Settings[revision'].interval
  /\ pc' = "loop"
  /\ UNCHANGED <<now, environment, command, due, count, history>>

(* Mutant: only the first iteration looks for a new configuration.         *)
ReloadsOnce == status.state = "NORMAL" /\ stored # revision /\ lastAt = NoTime

(* The head of the loop reloads the configuration while no outage is       *)
(* watched; a new revision starts a new engine.                            *)
Reloads == status.state = "NORMAL" /\ stored # revision

TimeoutRevision(reload) == IF reload THEN stored ELSE guestRevision

(* One iteration up to the commands: reload, collect, Step.  The clock     *)
(* never goes back here, so the engine accepts every sample.               *)
Sample(reload) ==
  LET r    == IF reload THEN stored ELSE revision
      from == IF reload THEN now ELSE origin
      last == IF reload THEN NoTime ELSE lastAt
      st   == IF reload THEN NewStatus ELSE status
      out  == Step(Settings[r].detection, st, now - from, Sampled)
  IN  /\ pc = "loop"
      /\ Accepts(last, now - from)
      /\ revision' = r
      /\ guestRevision' = TimeoutRevision(reload)
      /\ tick' = IF reload THEN now + Settings[r].interval ELSE tick
      /\ origin' = from /\ status' = out.status /\ lastAt' = now - from
      /\ todo' = Commands(out.actions)
      /\ pc' = IF todo' = <<>> THEN "save" ELSE "act"
      /\ evidence' = [evidence EXCEPT
                        !.now = IF ~Evidence(Sampled) THEN NoTime ELSE IF @ = NoTime THEN now ELSE @]
      /\ UNCHANGED <<now, environment, file, targets, failed, due, stopAlls, anchor>>

Round == Sample(Reloads) /\ UNCHANGED count

(* A configuration that cannot be read is left for the next iteration.     *)
LoadFails == Reloads /\ Sample(FALSE) /\ Happens("loads")

(* The process carries out the head of todo; boundedContext refuses a      *)
(* deadline that has passed, and the process ends.                         *)
Expired ==
  /\ pc = "act"
  /\ now >= IF Head(todo) = "graceful_shutdown" THEN EmergencyDeadline ELSE TotalDeadline
  /\ Die /\ UNCHANGED count

(* Mutant: the commands after the first are left out.                      *)
FinishedEarly ==
  /\ todo' = Tail(todo)
  /\ pc' = "save"

Finished ==
  /\ todo' = Tail(todo)
  /\ pc' = IF todo' = <<>> THEN "save" ELSE "act"

BeginStopAll ==
  /\ pc = "act" /\ Head(todo) = "graceful_shutdown" /\ now < EmergencyDeadline
  /\ pc' = "stopall"
  /\ due' = EarlierOf(now + Settings[guestRevision].guestTimeout + StopAllMargin, EmergencyDeadline)
  /\ asked' = asked \cup running
  /\ stopAlls' = stopAlls + 1
  /\ UNCHANGED <<now, lostAt, host, boot, running, stored, file, settings, engine, command,
                 tick, count, evidence, anchor>>

(* stopall may return at any time, with the guests down or with an error   *)
(* that is only logged.                                                    *)
EndStopAll ==
  /\ pc = "stopall"
  /\ Finished
  /\ UNCHANGED <<now, environment, file, settings, engine, targets, failed, due, tick,
                 count, history>>

(* forceStopRemaining: one goroutine for each guest found running.         *)
BeginForce ==
  /\ pc = "act" /\ Head(todo) = "emergency_stop_remaining" /\ now < TotalDeadline
  /\ pc' = "force"
  /\ targets' = running
  /\ failed' = FALSE
  /\ due' = EarlierOf(now + ForceTimeout, TotalDeadline)
  /\ UNCHANGED <<now, environment, file, settings, engine, todo, tick, count, history>>

ForceStop(g) ==
  /\ pc = "force" /\ g \in targets
  /\ targets' = targets \ {g}
  /\ running' = running \ {g}
  /\ UNCHANGED <<now, lostAt, host, boot, asked, stored, file, pc, settings, engine,
                 todo, failed, due, tick, count, history>>

ForceStopFails(g) ==
  /\ pc = "force" /\ g \in targets
  /\ Happens("commands")
  /\ targets' = targets \ {g}
  /\ failed' = TRUE
  /\ UNCHANGED <<now, environment, file, pc, settings, engine, todo, due, tick, history>>

(* All goroutines are done: the process goes on if none failed and no      *)
(* guest is found running before the total deadline, and ends otherwise.   *)
ForceVerified == ~failed /\ running = {} /\ now < TotalDeadline

EndForce ==
  /\ pc = "force" /\ targets = {}
  /\ ForceVerified
  /\ Finished
  /\ UNCHANGED <<now, environment, file, settings, engine, targets, failed, due, tick,
                 count, history>>

ForceIncomplete ==
  /\ pc = "force" /\ targets = {}
  /\ ~ForceVerified
  /\ Die /\ UNCHANGED count

(* Mutant: the guests are not checked.                                     *)
CheckNothing ==
  /\ pc = "act" /\ Head(todo) = "host_poweroff_requested" /\ now < TotalDeadline
  /\ pc' = "poweroff"
  /\ due' = EarlierOf(now + PoweroffTimeout, TotalDeadline)
  /\ UNCHANGED <<now, environment, file, settings, engine, command, tick, count, history>>

(* PoweroffHost lists the guests, then runs systemctl.                     *)
CheckPoweroff ==
  /\ pc = "act" /\ Head(todo) = "host_poweroff_requested" /\ now < TotalDeadline
  /\ running = {}
  /\ pc' = "poweroff"
  /\ due' = EarlierOf(now + PoweroffTimeout, TotalDeadline)
  /\ UNCHANGED <<now, environment, file, settings, engine, command, tick, count, history>>

PoweroffBlocked ==
  /\ pc = "act" /\ Head(todo) = "host_poweroff_requested" /\ now < TotalDeadline
  /\ running # {}
  /\ Die /\ UNCHANGED count

PoweroffAccepted ==
  /\ pc = "poweroff"
  /\ host' = "stopping"
  /\ Finished
  /\ UNCHANGED <<now, lostAt, boot, running, asked, stored, file, settings, engine, targets,
                 failed, due, tick, count, history>>

(* Mutant: the failure is only logged.                                     *)
PoweroffFailsQuietly ==
  /\ pc = "poweroff"
  /\ Happens("commands")
  /\ Finished
  /\ UNCHANGED <<now, environment, file, settings, engine, targets, failed, due, tick, history>>

PoweroffFails ==
  /\ pc = "poweroff"
  /\ Happens("commands")
  /\ Die

(* The state is saved only after the commands of the iteration.            *)
Persist ==
  /\ pc = "save"
  /\ file' = Save(boot, origin, revision, status, lastAt)
  /\ pc' = "wait"
  /\ evidence' = [evidence EXCEPT !.kept = evidence.now]
  /\ anchor' = IF status.outageStartedAt = NoTime THEN NoTime ELSE origin + status.outageStartedAt
  /\ UNCHANGED <<now, environment, settings, engine, command, due, tick, count, stopAlls>>

PersistFails ==
  /\ pc = "save"
  /\ Happens("saves")
  /\ Die

(* The ticker keeps one missed tick and drops the others.                  *)
Wake ==
  /\ pc = "wait" /\ now >= tick
  /\ pc' = "loop"
  /\ tick' = tick + ((now - tick) \div Interval + 1) * Interval
  /\ UNCHANGED <<now, environment, file, settings, engine, command, due, count, history>>

-----------------------------------------------------------------------------
(* The environment.                                                        *)

(* Nothing is due at this instant: the clock may move.                     *)
Idle ==
  \/ pc = "wait" /\ now < tick
  \/ pc \in {"stopall", "force", "poweroff"} /\ now < due
  \/ pc = "down" /\ (now < due \/ host # "up")

Tick ==
  /\ now < MaxTime /\ Idle
  /\ now' = now + 1
  /\ UNCHANGED <<environment, file, pc, settings, engine, command, due, tick, count, history>>

Mains ==
  /\ now <= LastChange
  /\ Happens("flips")
  /\ lostAt' = IF lostAt = NoTime THEN now ELSE NoTime
  /\ UNCHANGED <<now, host, boot, running, asked, stored, file, pc, settings, engine,
                 command, due, tick, history>>

(* A guest that was asked to stop does so, in its own time or never.       *)
GuestStops(g) ==
  /\ g \in running \cap asked
  /\ running' = running \ {g}
  /\ UNCHANGED <<now, lostAt, host, boot, asked, stored, file, pc, settings, engine,
                 command, due, tick, count, history>>

OperatorStarts(g) ==
  /\ host = "up" /\ g \notin running
  /\ Happens("starts")
  /\ running' = running \cup {g}
  /\ asked' = asked \ {g}
  /\ UNCHANGED <<now, lostAt, host, boot, stored, file, pc, settings, engine, command,
                 due, tick, history>>

(* The console stores another valid configuration.                         *)
SaveConfig ==
  /\ now <= LastChange
  /\ stored < Len(Settings)
  /\ stored' = stored + 1
  /\ UNCHANGED <<now, lostAt, host, boot, running, asked, file, pc, settings, engine,
                 command, due, tick, count, history>>

Crash ==
  /\ pc # "down" /\ host = "up"
  /\ Happens("crashes")
  /\ Die

(* The host halts as asked, or because the UPS is empty ...                *)
HostStops ==
  /\ host' = "off"
  /\ running' = {} /\ asked' = {}
  /\ Forget
  /\ UNCHANGED <<now, lostAt, boot, stored, file, due, count, history>>

HostHalts == host = "stopping" /\ HostStops

UPSEmpty == host = "up" /\ lostAt # NoTime /\ May("boots") /\ HostStops

(* ... and boots with the mains back: its guests start, and the guard.     *)
HostBoots ==
  /\ host = "off" /\ lostAt = NoTime
  /\ Happens("boots")
  /\ host' = "up"
  /\ boot' = boot + 1
  /\ running' = Guests
  /\ due' = now
  /\ stopAlls' = 0 /\ evidence' = [kept |-> NoTime, now |-> NoTime] /\ anchor' = NoTime
  /\ UNCHANGED <<now, lostAt, asked, stored, file, pc, settings, engine, command, tick>>

Guard ==
  \/ Start \/ Round \/ LoadFails \/ Expired \/ BeginStopAll \/ EndStopAll
  \/ BeginForce \/ EndForce \/ ForceIncomplete
  \/ \E g \in Guests : ForceStop(g) \/ ForceStopFails(g)
  \/ CheckPoweroff \/ PoweroffBlocked \/ PoweroffAccepted \/ PoweroffFails
  \/ Persist \/ PersistFails \/ Wake

Environment ==
  \/ Tick \/ Mains \/ SaveConfig \/ Crash \/ HostHalts \/ UPSEmpty \/ HostBoots
  \/ \E g \in Guests : GuestStops(g) \/ OperatorStarts(g)

Next == Guard \/ Environment

Spec == Init /\ [][Next]_vars
-----------------------------------------------------------------------------
(* Fairness: the guard's goroutine and its children run, the clock moves   *)
(* whenever nothing is due, and a host that was told to halt halts.        *)
FairSpec == Spec /\ WF_vars(Guard) /\ WF_vars(Tick) /\ WF_vars(HostHalts)

TypeOK ==
  /\ now \in 0..MaxTime /\ lostAt \in {NoTime} \cup 0..LastChange
  /\ host \in {"up", "stopping", "off"} /\ boot \in Nat
  /\ running \subseteq Guests /\ asked \subseteq Guests
  /\ {stored, revision, guestRevision} \subseteq Revisions
  /\ Cardinality(file) <= 1
  /\ pc \in {"down", "loop", "act", "stopall", "force", "poweroff", "save", "wait"}
  /\ pc \in {"act", "stopall", "force", "poweroff"} <=> todo # <<>>
  /\ origin \in 0..now /\ lastAt \in {NoTime} \cup 0..now
  /\ targets \subseteq Guests /\ failed \in BOOLEAN
  /\ \A d \in Disturbance : count[d] <= Limits[d]

(* No guest is forced and the host is not powered off unless the guests    *)
(* were asked to stop during this boot, by this process or one before it.  *)
(* stopAlls counts the stopall commands of this boot.                      *)
GracefulFirst == (pc = "force" \/ host = "stopping") => stopAlls > 0

(* The guests are asked to stop only when every sample the guard has not   *)
(* forgotten in a crash showed the mains lost, for as long as the settings *)
(* in force ask.  evidence.now is the time of the first sample of that     *)
(* unbroken sequence, evidence.kept what it was at the last Save.          *)
ShutdownJustified ==
  [][pc # "stopall" /\ pc' = "stopall" =>
       evidence.now # NoTime /\ now - evidence.now >= Detection.nutConfirm]_vars

(* A restart neither renews nor shortens the budget of the outage it       *)
(* resumes.  anchor is when the outage saved last began, on the clock.     *)
BudgetNotRenewed ==
  anchor # NoTime /\ status.outageStartedAt # NoTime =>
    origin + status.outageStartedAt = anchor

(* A shutdown saved in this boot is never called off, whatever the mains,  *)
(* the console and restarts do: it stays in the file until the host halts. *)
SavedShutdown ==
  {s \in file : s.boot = boot /\ s.status.state = "SHUTTING_DOWN"}

SavedShutdownSticks ==
  [][SavedShutdown # {} /\ boot' = boot => host' # "up" \/ SavedShutdown' # {}]_vars

(* The host is not powered off under a guest that was asked to stop and    *)
(* still runs (one started since is the operator's race).                  *)
PoweroffSparesGuests ==
  [][host = "up" /\ host' = "stopping" => running \cap asked = {}]_vars

(* An outage older than this, under every revision stored so far.          *)
LostLongerThan(Span(_)) ==
  lostAt # NoTime /\ \A r \in 1..stored : now - lostAt > Span(Settings[r])

(* When the clock passes the confirmation of an outage, plus an interval   *)
(* until its first sample and one until the sample that confirms it, the   *)
(* guests have been asked to stop.                                         *)
ConfirmedBy(c) == c.detection.nutConfirm + 2 * c.interval

OutageShutsDown == LostLongerThan(ConfirmedBy) /\ host = "up" => stopAlls > 0

(* The host is down before the clock passes the total budget of an outage, *)
(* which begins with its first sample, in a configuration that leaves time *)
(* for it (PVEGuardProofs, LeavesTime).                                    *)
OffBy(c) == c.detection.totalBudget + c.interval

HostOffInBudget == LostLongerThan(OffBy) => host # "up"

(* A shutdown that has begun is neither called off nor begun a second      *)
(* time: the guests are asked to stop once, and the engine does not go     *)
(* back to watching.                                                       *)
ShutdownIsFinal ==
  /\ stopAlls <= 1
  /\ stopAlls > 0 /\ pc = "wait" => status.state # "NORMAL"

(* Mains that stay lost end with the host down.                            *)
OutageEndsWithHostOff == (lostAt # NoTime) ~> (lostAt = NoTime \/ host = "off")

(* A configuration stored while the mains are there for good is applied.   *)
StoredConfigApplies ==
  <>[](lostAt = NoTime /\ host = "up" /\ pc # "down") => <>[](revision = stored /\ guestRevision = stored)
=============================================================================
