------------------------------- MODULE HostGuard ------------------------------
(***************************************************************************)
(* The guard of the manager's own host (cmd/powercheck-hostguard and       *)
(* internal/hostguard): it samples NUT and, when NUT fails, the network;   *)
(* steps the outage engine; saves its state; and when the engine asks for  *)
(* the guests' shutdown or the host's poweroff, powers the host off.  It   *)
(* saves before it powers off, the PVE guard after.                        *)
(*                                                                         *)
(* Time is a global clock.  A round takes no time on it: what its 4 s      *)
(* leave time for is decided by Sampled, in units of its own.  The         *)
(* poweroff command takes any time up to its timeout.                      *)
(***************************************************************************)
EXTENDS GuardState, FiniteSets, SequencesExt

CONSTANTS
  Detection, Interval,  \* the configuration, fixed by flags and constants of main
  Worlds,               \* what a round may find
  RoundTime,            \* a round's context (4 s) ...
  NUTTime,              \* ... of which a silent NUT server takes this (3 s) ...
  PingTime,             \* ... and a silent ping target this (1 s)
  PoweroffTimeout,      \* bound of the poweroff command (20 s)
  RestartDelay,         \* systemd's RestartSec
  MaxTime,              \* bound: the clock stops here
  LastChange,           \* bound: the world changes, and the host boots, up to here
  Limits                \* bound: how often each kind of disturbance happens

Disturbance == {"changes", "crashes", "failures", "boots"}

(* Both confirmations are the one flag -confirm.                           *)
ASSUME DetectionAssumption ==
  /\ Detection \in Config /\ Validate(Detection)
  /\ Detection.networkConfirm = Detection.nutConfirm
  /\ Interval \in Nat \ {0}

(* A world: whether the UPS is on battery, what the NUT server does, and   *)
(* for each target, in the order of the flags, whether it answers pings.   *)
ASSUME WorldsAssumption ==
  \A w \in Worlds :
    /\ w.supply \in {"OL", "OB"} /\ w.nut \in {"answers", "refuses", "silent"}
    /\ {w.lan, w.wan} \subseteq Seq(BOOLEAN) \ {<<>>}

(* A silent NUT server leaves some of the round for the networks.          *)
ASSUME BoundsAssumption ==
  /\ {RoundTime, NUTTime, PingTime, PoweroffTimeout, RestartDelay} \subseteq Nat \ {0}
  /\ NUTTime < RoundTime
  /\ {MaxTime, LastChange} \subseteq Nat
  /\ Limits \in [Disturbance -> Nat]

VARIABLES
  now, world, badSince,         \* clock; the world; since when it has been evidence
  host, boot,
  file,                         \* the guard's state file
  pc, origin, status, lastAt,   \* the process and its engine
  requested,                    \* the round in progress asks for the poweroff
  due, tick,                    \* end of the command or restart delay; next tick
  count,                        \* disturbances so far
  evidence                      \* history, see PoweroffConfirmed

outside == <<world, badSince, host, boot>>
engine == <<origin, status, lastAt>>
vars == <<now, outside, file, pc, engine, requested, due, tick, count, evidence>>

May(d) == count[d] < Limits[d]
Happens(d) == May(d) /\ count' = [count EXCEPT ![d] = @ + 1]

-----------------------------------------------------------------------------
(* Sampling.                                                               *)

(* Mutant: the last target decides.                                        *)
AnyReachableLast(targets, left) == targets[Len(targets)]

(* anyReachable: the targets of a group are probed one after the other in  *)
(* what is left of the round; a silent one costs PingTime.                 *)
AnyReachable(targets, left) ==
  \E i \in DOMAIN targets :
    /\ targets[i]
    /\ PingTime * Cardinality({j \in 1..i - 1 : ~targets[j]}) < left

(* A silent NUT server is waited for before the networks are probed.       *)
Left(w) == IF w.nut = "silent" THEN RoundTime - NUTTime ELSE RoundTime

(* liveSampler.sample: the networks are probed only when NUT fails.        *)
SampleOf(w) ==
  IF w.nut = "answers"
  THEN [nutReachable |-> TRUE, upsStatus |-> w.supply, lan |-> TRUE, wan |-> TRUE]
  ELSE [nutReachable |-> FALSE, upsStatus |-> "",
        lan |-> AnyReachable(w.lan, Left(w)), wan |-> AnyReachable(w.wan, Left(w))]

(* Detector.Step: the engine is never told that guests are stopped.        *)
SnapshotOf(sample) ==
  [nut |-> IF sample.nutReachable THEN sample.upsStatus ELSE "UNREACHABLE",
   lan |-> sample.lan, wan |-> sample.wan, stopped |-> FALSE]

Sampled(w) == SnapshotOf(SampleOf(w))

(* Mutant: only the start of a shutdown asks for it.                       *)
RequestsPoweroffOnce(actions) == Contains(actions, "graceful_shutdown")

RequestsPoweroff(actions) ==
  Contains(actions, "graceful_shutdown") \/ Contains(actions, "host_poweroff_requested")

NoEvidence == [since |-> NoTime, worlds |-> {}]

-----------------------------------------------------------------------------
Init ==
  /\ now = 0
  /\ world \in {w \in Worlds : ~Evidence(Sampled(w))} /\ badSince = NoTime
  /\ host = "up" /\ boot = 1
  /\ file = NoFile
  /\ pc = "down" /\ origin = 0 /\ status = NewStatus /\ lastAt = NoTime
  /\ requested = FALSE
  /\ due = 0 /\ tick = 0
  /\ count = [d \in Disturbance |-> 0]
  /\ evidence = [kept |-> NoEvidence, now |-> NoEvidence]

(* What the process knows goes with it.                                    *)
Forget ==
  /\ origin' = 0 /\ status' = NewStatus /\ lastAt' = NoTime
  /\ requested' = FALSE
  /\ tick' = 0

(* The process ends by an error or is killed; systemd restarts it.         *)
Die ==
  /\ Forget
  /\ pc' = "down"
  /\ due' = now + RestartDelay
  /\ evidence' = [evidence EXCEPT !.now = evidence.kept]
  /\ UNCHANGED <<now, outside, file>>

(* main: resume the outage of this boot, or start afresh.                  *)
Start ==
  /\ pc = "down" /\ host = "up" /\ now >= due
  /\ file' = Restorable(file, boot)
  /\ \/ \E s \in file' : origin' = s.origin /\ status' = s.status /\ lastAt' = s.lastAt
     \/ /\ file' = NoFile
        /\ origin' = now /\ status' = NewStatus /\ lastAt' = NoTime
  /\ tick' = now + Interval
  /\ pc' = "loop"
  /\ UNCHANGED <<now, outside, requested, due, count, evidence>>

(* One iteration up to the save.  The clock never goes back here, so the   *)
(* engine accepts every sample.                                            *)
Round ==
  LET x   == Sampled(world)
      out == Step(Detection, status, now - origin, x)
  IN  /\ pc = "loop"
      /\ Accepts(lastAt, now - origin)
      /\ status' = out.status /\ lastAt' = now - origin
      /\ requested' = RequestsPoweroff(out.actions)
      /\ pc' = "save"
      /\ evidence' = [evidence EXCEPT
                        !.now = IF Evidence(x)
                                THEN [since |-> First(@.since, now), worlds |-> @.worlds \cup {world}]
                                ELSE NoEvidence]
      /\ UNCHANGED <<now, outside, file, origin, due, tick, count>>

(* The state is saved before the host is powered off.                      *)
Persist ==
  /\ pc = "save"
  /\ file' = Save(boot, origin, 0, status, lastAt)
  /\ pc' = IF requested THEN "poweroff" ELSE "wait"
  /\ due' = IF requested THEN now + PoweroffTimeout ELSE due
  /\ evidence' = [evidence EXCEPT !.kept = evidence.now]
  /\ UNCHANGED <<now, outside, engine, requested, tick, count>>

PersistFails ==
  /\ pc = "save"
  /\ Happens("failures")
  /\ Die

(* The poweroff is accepted: run returns nil, and systemd, which restarts  *)
(* on failure, leaves the guard down.                                      *)
PoweroffAccepted ==
  /\ pc = "poweroff"
  /\ host' = "stopping"
  /\ Forget
  /\ pc' = "done"
  /\ UNCHANGED <<now, world, badSince, boot, file, due, count, evidence>>

(* Mutant: the failure is only logged.                                     *)
PoweroffFailsQuietly ==
  /\ pc = "poweroff"
  /\ Happens("failures")
  /\ Forget
  /\ pc' = "done"
  /\ UNCHANGED <<now, outside, file, due, evidence>>

PoweroffFails ==
  /\ pc = "poweroff"
  /\ Happens("failures")
  /\ Die

Wake ==
  /\ pc = "wait" /\ now >= tick
  /\ pc' = "loop"
  /\ tick' = tick + ((now - tick) \div Interval + 1) * Interval
  /\ UNCHANGED <<now, outside, file, engine, requested, due, count, evidence>>

-----------------------------------------------------------------------------
(* The environment.                                                        *)

(* Nothing is due at this instant: the clock may move.                     *)
Idle ==
  \/ pc = "wait" /\ now < tick
  \/ pc = "poweroff" /\ now < due
  \/ pc = "done"
  \/ pc = "down" /\ (now < due \/ host # "up")

Tick ==
  /\ now < MaxTime /\ Idle
  /\ now' = now + 1
  /\ UNCHANGED <<outside, file, pc, engine, requested, due, tick, count, evidence>>

WorldChanges ==
  /\ now <= LastChange
  /\ Happens("changes")
  /\ \E w \in Worlds \ {world} :
       /\ world' = w
       /\ badSince' = IF Evidence(Sampled(w)) THEN First(badSince, now) ELSE NoTime
  /\ UNCHANGED <<now, host, boot, file, pc, engine, requested, due, tick, evidence>>

Crash ==
  /\ pc \notin {"down", "done"} /\ host = "up"
  /\ Happens("crashes")
  /\ Die

(* The host halts as asked, or because the UPS is empty ...                *)
HostHalts ==
  /\ host = "stopping"
  /\ host' = "off"
  /\ pc' = "down"
  /\ UNCHANGED <<now, world, badSince, boot, file, engine, requested, due, tick, count, evidence>>

UPSEmpty ==
  /\ host = "up" /\ world.supply = "OB" /\ May("boots")
  /\ host' = "off"
  /\ Forget
  /\ pc' = "down"
  /\ UNCHANGED <<now, world, badSince, boot, file, due, count, evidence>>

(* ... and boots with the mains back.                                      *)
HostBoots ==
  /\ host = "off" /\ world.supply = "OL" /\ now <= LastChange
  /\ Happens("boots")
  /\ host' = "up"
  /\ boot' = boot + 1
  /\ badSince' = IF badSince = NoTime THEN NoTime ELSE now
  /\ due' = now
  /\ evidence' = [kept |-> NoEvidence, now |-> NoEvidence]
  /\ UNCHANGED <<now, world, file, pc, engine, requested, tick>>

Guard ==
  \/ Start \/ Round \/ Persist \/ PersistFails \/ PoweroffAccepted \/ PoweroffFails \/ Wake

Environment == Tick \/ WorldChanges \/ Crash \/ HostHalts \/ UPSEmpty \/ HostBoots

Next == Guard \/ Environment

(* Fairness: the guard's goroutine runs, its command ends, the clock moves *)
(* whenever nothing is due, and a host that was told to halt halts.        *)
Spec == Init /\ [][Next]_vars /\ WF_vars(Guard) /\ WF_vars(Tick) /\ WF_vars(HostHalts)
-----------------------------------------------------------------------------
TypeOK ==
  /\ now \in 0..MaxTime /\ world \in Worlds /\ badSince \in {NoTime} \cup 0..now
  /\ host \in {"up", "stopping", "off"} /\ boot \in Nat
  /\ Cardinality(file) <= 1
  /\ pc \in {"down", "loop", "save", "wait", "poweroff", "done"}
  /\ pc \in {"down", "done"} => status = NewStatus /\ ~requested
  /\ pc = "done" <=> host = "stopping"
  /\ origin \in 0..now /\ lastAt \in {NoTime} \cup 0..now
  /\ \A d \in Disturbance : count[d] <= Limits[d]

(* A round that makes the guard give up the host.                          *)
Decides ==
  /\ pc = "loop" /\ pc' = "save"
  /\ status.state \in {"NORMAL", "CONFIRMING_OUTAGE"}
  /\ status'.state \in {"SHUTTING_DOWN", "POWERED_OFF"}

(* The host is given up only when every sample the guard has not forgotten *)
(* in a crash was evidence of an outage, for as long as the configuration  *)
(* asks.  evidence.now is that unbroken sequence, when it began and the    *)
(* worlds it met; evidence.kept is what it was at the last Save.           *)
PoweroffConfirmed ==
  [][Decides => /\ evidence'.now # NoEvidence
                /\ now - evidence'.now.since >= Detection.nutConfirm]_vars

(* A failure of the NUT server alone never costs the host its power: with  *)
(* the mains there, NUT unreachable and the gateway, first of the targets, *)
(* alive, no sample counts as evidence.                                    *)
FirstTargetAlive(w) == w.nut # "answers" /\ (Head(w.lan) \/ Head(w.wan))

GatewaySparesHost ==
  [][Decides => \A w \in evidence'.now.worlds : ~FirstTargetAlive(w)]_vars

(* At most one crash or failure so far.                                    *)
OneFault == count["crashes"] + count["failures"] <= 1

(* The host is down before the clock passes the total budget of an outage, *)
(* which begins with its first sample, one crash or failure included, in a *)
(* configuration that leaves time for it (HostGuardProofs, LeavesTime).    *)
HostOffInBudget ==
  /\ OneFault
  /\ badSince # NoTime /\ now - badSince > Detection.totalBudget + Interval
  => host # "up"

(* A shutdown that was saved ends with the host down, whatever the world   *)
(* does, if no more than one crash or failure hits the guard.              *)
ShutdownSaved == \E s \in file : s.boot = boot /\ s.status.state = "SHUTTING_DOWN"

SavedShutdownEndsOff == []OneFault => (ShutdownSaved ~> host # "up")
=============================================================================
