----------------------------- MODULE DryRunProofs -----------------------------
(***************************************************************************)
(* Proofs about the rounds of DryRun, for every configuration Validate     *)
(* accepts, every set of targets and every world: a round keeps up with    *)
(* the ticker whatever hangs, a live target vetoes, an outage that lasts   *)
(* is planned for in time.                                                 *)
(***************************************************************************)
EXTENDS DryRun, EngineStepProofs

Results == {"idle", "waited", "failed", "alive", "OL", "OB", "up", "stopped"}

Types ==
  /\ TypeOK
  /\ tasks \in [Tasks -> Results]
  /\ now \in Nat /\ began \in Nat /\ since \in Nat /\ lastAt \in Nat \cup {NoTime}

(* The ticker is a whole interval ahead of the round, the engine one       *)
(* behind it, and no round outlives its timeout.                           *)
Schedule ==
  /\ tick = began + Interval
  /\ phase = "waiting" => now <= tick /\ lastAt = began /\ Waited = {}
  /\ phase # "waiting" =>
       /\ now <= RoundEnd
       /\ \/ began = 0 /\ lastAt = NoTime
          \/ lastAt \in Nat /\ began = lastAt + Interval

(* The engine is coherent, its timers were started by samples it has seen, *)
(* and it is past watching only when it has planned the shutdown.          *)
Engine ==
  /\ Coherent(status)
  /\ status.state \in Watched =>
       status.nutStartedAt <= lastAt /\ status.networkStartedAt <= lastAt
  /\ status.state \notin Watched => status.gracefulIssued

(* A target alive since the round began has answered, or is just being     *)
(* asked, or was asked when the round had no time left.                    *)
Probes ==
  /\ steady \subseteq world.alive
  /\ phase = "probing" =>
       /\ tasks["nut"] = "failed"
       /\ \A t \in Targets : tasks[t] \in {"waited", "failed", "alive"}
       /\ \A t \in steady : /\ tasks[t] = "waited" => now = since
                            /\ tasks[t] = "failed" => since = RoundEnd

(* A round that began after the outage finds nothing but the outage.       *)
Found ==
  lostSince # NoTime =>
    /\ lostSince \in Nat /\ lostSince <= now
    /\ Lost(world)
    /\ (began > lostSince /\ phase # "waiting") =>
         /\ tasks["nut"] \in {"waited", "failed", "OB"}
         /\ tasks["nut"] = "failed" => world.nut # "OB"
         /\ tasks["nut"] = "waited" /\ world.nut = "OB" => now = began
         /\ phase = "probing" => \A t \in Targets : tasks[t] # "alive"

(* The timer that will confirm an outage: NUT's if it runs.                *)
Running == IF status.nutStartedAt # NoTime THEN status.nutStartedAt ELSE status.networkStartedAt

(* Once a sample of the outage has been taken, a timer runs since its      *)
(* first sample at the latest, and only a report by NUT would start        *)
(* another.                                                                *)
Counted ==
  (lostSince # NoTime /\ lastAt > lostSince /\ status.state \in Watched) =>
    /\ Running # NoTime
    /\ Running <= lostSince + Interval
    /\ lastAt - Running < LongerConfirm
    /\ status.nutStartedAt = NoTime =>
         /\ world.nut # "OB"
         /\ phase # "waiting" => tasks["nut"] # "OB"

Inv == Types /\ Schedule /\ Engine /\ Probes /\ Found /\ Counted

-----------------------------------------------------------------------------
(* The constants in the form the provers use.                              *)
LEMMA Constants ==
  /\ Interval \in Nat /\ Interval > RoundTimeout
  /\ RoundTimeout \in Nat /\ RoundTimeout > 0
  /\ PVETimeout \in Nat /\ PingTimeout \in Nat /\ PingTimeout > 0
  /\ "nut" \notin Targets /\ "pve" \notin Targets
  /\ Detection \in Config /\ Validate(Detection)
  /\ LongerConfirm \in Nat
  /\ LongerConfirm >= Detection.nutConfirm /\ LongerConfirm >= Detection.networkConfirm
<1>1. /\ Detection.nutConfirm \in Int /\ Detection.nutConfirm > 0
      /\ Detection.networkConfirm \in Int /\ Detection.networkConfirm > 0
  BY ConfigAssumption DEF Config, Validate
<1>2. Interval > RoundTimeout /\ {Interval, RoundTimeout, PVETimeout, PingTimeout} \subseteq Nat \ {0}
  BY ConfigAssumption
<1> QED BY <1>1, <1>2, ConfigAssumption DEF LongerConfirm

(* No task may outlive the round, and a probe that began when the round    *)
(* had time left may take some.                                            *)
LEMMA Deadlines ==
  ASSUME Types, NEW t \in Tasks
  PROVE  /\ RoundEnd \in Nat /\ RoundEnd > began
         /\ Deadline(t) \in Nat /\ Deadline(t) <= RoundEnd
         /\ t = "nut" => Deadline(t) = RoundEnd
         /\ (t \in Targets /\ now = since /\ now >= Deadline(t)) => now >= RoundEnd
<1>1. began \in Nat /\ since \in Nat /\ now \in Nat
  BY DEF Types
<1>2. RoundEnd \in Nat /\ RoundEnd > began
  BY <1>1, Constants DEF RoundEnd
<1>3. CASE t = "nut"
  BY <1>2, <1>3, Constants DEF Deadline
<1>4. CASE t = "pve"
  BY <1>1, <1>2, <1>4, Constants DEF Deadline, EarlierOf
<1>5. CASE t \in Targets
  <2>1. Deadline(t) = EarlierOf(since + PingTimeout, RoundEnd)
    BY <1>5, Constants DEF Deadline
  <2> QED BY <1>1, <1>2, <1>5, <2>1, Constants DEF EarlierOf
<1> QED BY <1>3, <1>4, <1>5 DEF Tasks

(* Every peer is in a state the worlds allow.                              *)
LEMMA Peers ==
  ASSUME NEW w \in Worlds
  PROVE  /\ w.nut \in {"OL", "OB", "refuses", "hangs"}
         /\ w.pve \in {"up", "stopped", "refuses", "hangs"}
         /\ w.alive \subseteq Targets
BY WorldsAssumption

(* The initial states.                                                     *)
LEMMA InitInv == Init => Inv
<1> SUFFICES ASSUME Init PROVE Inv
  OBVIOUS
<1>1. /\ now = 0 /\ changes = 0 /\ world \in Worlds /\ phase = "reading"
      /\ began = 0 /\ since = 0 /\ tasks = Reading /\ tick = Interval
      /\ status = NewStatus /\ lastAt = NoTime /\ lostSince = NoTime /\ steady = world.alive
  BY DEF Init
<1>2. /\ "nut" \in Tasks /\ "pve" \in Tasks /\ Targets \subseteq Tasks
      /\ tasks["nut"] = "waited" /\ tasks["pve"] = "waited"
      /\ \A t \in Targets : tasks[t] = "idle"
      /\ tasks \in [Tasks -> Results]
  BY <1>1, Constants DEF Reading, Tasks, Results
<1>3. Coherent(status)
  BY <1>1, NewCoherent
<1>4. /\ status.state = "NORMAL"
      /\ status.nutStartedAt = NoTime /\ status.networkStartedAt = NoTime
  BY <1>1 DEF NewStatus
<1>5. Types
  BY <1>1, <1>2, <1>4, BoundsAssumption DEF Types, TypeOK, EngineState
<1>6. Schedule
  BY <1>1, Constants DEF Schedule, RoundEnd
<1>7. Engine
  BY <1>1, <1>3, <1>4 DEF Engine, Watched, NoTime
<1>8. Probes /\ Found /\ Counted
  BY <1>1 DEF Probes, Found, Counted
<1> QED BY <1>5, <1>6, <1>7, <1>8 DEF Inv

-----------------------------------------------------------------------------
(* What a task may end with.                                               *)
Possible(t, result) ==
  /\ t = "nut" => result \in {"failed", "OL", "OB"} /\ result \in {"failed", world.nut}
  /\ t = "pve" => result \in {"failed", "up", "stopped"}
  /\ t \in Targets => /\ result \in {"failed", "alive"}
                      /\ result = "alive" => t \in world.alive
  /\ result = "failed" => now >= Deadline(t) \/ Answer(t) = "refuses"

(* An answer is what the peer says, and a failure has a reason.            *)
LEMMA AnswersPossible ==
  ASSUME Inv, NEW t \in Tasks,
         Answer(t) \notin {"refuses", "hangs"}
  PROVE  Possible(t, Answer(t))
<1>1. world \in Worlds
  BY DEF Inv, Types, TypeOK
<1>2. CASE t = "nut"
  BY <1>1, <1>2, Peers, Constants DEF Answer, Possible
<1>3. CASE t = "pve"
  BY <1>1, <1>3, Peers, Constants DEF Answer, Possible
<1>4. CASE t \in Targets
  BY <1>1, <1>4, Constants DEF Answer, Possible
<1> QED BY <1>2, <1>3, <1>4 DEF Tasks

(* The end of a task keeps the invariant.                                  *)
LEMMA EndsInv ==
  ASSUME Inv, NEW t \in Tasks, NEW result, Possible(t, result), Ends(t, result)
  PROVE  Inv'
<1>1. /\ now' = now /\ world' = world /\ changes' = changes /\ phase' = phase
      /\ began' = began /\ since' = since /\ tick' = tick /\ status' = status
      /\ lastAt' = lastAt /\ lostSince' = lostSince /\ steady' = steady
      /\ tasks' = [tasks EXCEPT ![t] = result] /\ tasks[t] = "waited"
  BY DEF Ends, Waited, engine, history
<1>2. /\ Types /\ Schedule /\ Engine /\ Probes /\ Found /\ Counted
  BY DEF Inv
<1>3. /\ tasks \in [Tasks -> Results]
      /\ world \in Worlds
      /\ phase \in {"reading", "probing", "waiting"}
      /\ tasks["nut"] \in {"waited", "failed", "OL", "OB"}
      /\ tasks["pve"] \in {"waited", "failed", "up", "stopped"}
      /\ \A u \in Targets : tasks[u] \in {"idle", "waited", "failed", "alive"}
      /\ phase = "reading" => \A u \in Targets : tasks[u] = "idle"
  BY <1>2 DEF Types, TypeOK
<1>4. /\ tasks'[t] = result
      /\ \A u \in Tasks : u # t => tasks'[u] = tasks[u]
      /\ "nut" \in Tasks /\ "pve" \in Tasks /\ Targets \subseteq Tasks
  BY <1>1, <1>3 DEF Tasks
<1>5. /\ t = "nut" => result \in {"failed", "OL", "OB"} /\ result \in {"failed", world.nut}
      /\ t = "pve" => result \in {"failed", "up", "stopped"}
      /\ t \in Targets => /\ result \in {"failed", "alive"}
                          /\ result = "alive" => t \in world.alive
      /\ result = "failed" => now >= Deadline(t) \/ Answer(t) = "refuses"
      /\ "nut" \notin Targets /\ "pve" \notin Targets
  BY Constants DEF Possible
<1>6. phase # "waiting"
  BY <1>1, <1>2 DEF Schedule, Waited
<1>7. /\ now \in Nat /\ now <= RoundEnd /\ RoundEnd \in Nat /\ RoundEnd > began /\ Deadline(t) \in Nat
      /\ t = "nut" => Deadline(t) = RoundEnd
      /\ (t \in Targets /\ now = since /\ now >= Deadline(t)) => now >= RoundEnd
  BY <1>2, <1>6, Deadlines DEF Types, Schedule
<1>8. Types'
  <2>1. result \in Results
    BY <1>5 DEF Tasks, Results
  <2>2. tasks' \in [Tasks -> Results]
    BY <1>1, <1>3, <2>1
  <2>3. /\ tasks'["nut"] \in {"waited", "failed", "OL", "OB"}
        /\ tasks'["pve"] \in {"waited", "failed", "up", "stopped"}
        /\ \A u \in Targets : tasks'[u] \in {"idle", "waited", "failed", "alive"}
    BY <1>3, <1>4, <1>5
  <2>4. phase = "reading" => \A u \in Targets : tasks'[u] = "idle"
    BY <1>1, <1>3, <1>4
  <2> QED BY <1>1, <1>2, <2>2, <2>3, <2>4 DEF Types, TypeOK
<1>9. Schedule'
  BY <1>1, <1>2, <1>6 DEF Schedule, RoundEnd
<1>10. Engine'
  BY <1>1, <1>2 DEF Engine
<1>11. Probes'
  <2>1. SUFFICES ASSUME phase = "probing"
                 PROVE  /\ tasks'["nut"] = "failed"
                        /\ \A u \in Targets : tasks'[u] \in {"waited", "failed", "alive"}
                        /\ \A u \in steady : /\ tasks'[u] = "waited" => now = since
                                             /\ tasks'[u] = "failed" => since = RoundEnd
    BY <1>1, <1>2 DEF Probes, RoundEnd
  <2>2. /\ tasks["nut"] = "failed"
        /\ steady \subseteq world.alive /\ world.alive \subseteq Targets
        /\ \A u \in Targets : tasks[u] \in {"waited", "failed", "alive"}
        /\ \A u \in steady : /\ tasks[u] = "waited" => now = since
                             /\ tasks[u] = "failed" => since = RoundEnd
    BY <1>2, <1>3, <2>1, Peers DEF Probes
  <2>3. (t \in steady /\ result = "failed") => since = RoundEnd
    <3>1. SUFFICES ASSUME t \in steady, result = "failed" PROVE since = RoundEnd
      OBVIOUS
    <3>2. now = since /\ t \in Targets /\ t \in world.alive
      BY <1>1, <2>2, <3>1
    <3>3. Answer(t) = "alive"
      BY <1>5, <3>2 DEF Answer
    <3>4. now >= Deadline(t)
      BY <1>5, <3>1, <3>3
    <3> QED BY <1>7, <3>2, <3>4
  <2>4. tasks'["nut"] = "failed" /\ t # "nut"
    BY <1>1, <1>4, <2>2
  <2>5. \A u \in Targets : tasks'[u] \in {"waited", "failed", "alive"}
    BY <1>4, <1>5, <2>2
  <2>6. \A u \in steady : /\ tasks'[u] = "waited" => now = since
                          /\ tasks'[u] = "failed" => since = RoundEnd
    BY <1>4, <1>5, <2>2, <2>3
  <2> QED BY <2>4, <2>5, <2>6
<1>12. Found'
  <2>1. SUFFICES ASSUME lostSince # NoTime, began > lostSince
                 PROVE  /\ tasks'["nut"] \in {"waited", "failed", "OB"}
                        /\ tasks'["nut"] = "failed" => world.nut # "OB"
                        /\ (tasks'["nut"] = "waited" /\ world.nut = "OB") => now = began
                        /\ phase = "probing" => \A u \in Targets : tasks'[u] # "alive"
    BY <1>1, <1>2 DEF Found
  <2>2. /\ Lost(world)
        /\ tasks["nut"] \in {"waited", "failed", "OB"}
        /\ tasks["nut"] = "failed" => world.nut # "OB"
        /\ (tasks["nut"] = "waited" /\ world.nut = "OB") => now = began
        /\ phase = "probing" => \A u \in Targets : tasks[u] # "alive"
    BY <1>2, <1>6, <2>1 DEF Found
  <2>3. t = "nut" => result # "OL" /\ (result = "failed" => world.nut # "OB")
    <3>1. SUFFICES ASSUME t = "nut" PROVE result # "OL" /\ (result = "failed" => world.nut # "OB")
      OBVIOUS
    <3>2. world.nut # "OL"
      BY <2>2 DEF Lost
    <3>3. result # "OL"
      BY <1>5, <3>1, <3>2
    <3>4. ASSUME result = "failed", world.nut = "OB" PROVE FALSE
      <4>1. Answer(t) = "OB"
        BY <3>1, <3>4 DEF Answer
      <4>2. now >= RoundEnd
        BY <1>5, <1>7, <3>1, <3>4, <4>1
      <4>3. now = began
        BY <1>1, <2>2, <3>1, <3>4
      <4> QED BY <1>2, <1>7, <4>2, <4>3 DEF Types
    <3> QED BY <3>3, <3>4
  <2>4. phase = "probing" => (t \in Targets => result # "alive")
    BY <1>2, <1>5, <2>2 DEF Lost, Probes
  <2>5. /\ tasks'["nut"] \in {"waited", "failed", "OB"}
        /\ tasks'["nut"] = "failed" => world.nut # "OB"
        /\ (tasks'["nut"] = "waited" /\ world.nut = "OB") => now = began
    BY <1>4, <1>5, <2>2, <2>3
  <2> QED BY <1>4, <1>5, <2>2, <2>4, <2>5
<1>13. Counted'
  <2>1. tasks'["nut"] = "OB" => tasks["nut"] = "OB" \/ world.nut = "OB"
    BY <1>4, <1>5
  <2> QED BY <1>1, <1>2, <1>6, <2>1 DEF Counted, Running
<1> QED BY <1>8, <1>9, <1>10, <1>11, <1>12, <1>13 DEF Inv

(* Probing begins after every reader has ended.                            *)
LEMMA BeginProbesInv ==
  ASSUME Inv, BeginProbes
  PROVE  Inv'
<1>1. /\ now' = now /\ world' = world /\ changes' = changes /\ began' = began /\ tick' = tick
      /\ status' = status /\ lastAt' = lastAt /\ lostSince' = lostSince /\ steady' = steady
      /\ phase = "reading" /\ phase' = "probing" /\ since' = now /\ tasks["nut"] = "failed"
      /\ tasks' = [t \in Tasks |-> IF t \in Targets THEN "waited" ELSE tasks[t]]
  BY DEF BeginProbes, engine, history
<1>2. /\ Types /\ Schedule /\ Engine /\ Probes /\ Found /\ Counted
  BY DEF Inv
<1>3. /\ tasks'["nut"] = "failed" /\ tasks'["pve"] = tasks["pve"]
      /\ \A t \in Targets : tasks'[t] = "waited"
      /\ tasks' \in [Tasks -> Results]
  <2>1. tasks \in [Tasks -> Results] /\ "waited" \in Results
    BY <1>2 DEF Types, Results
  <2> QED BY <1>1, <2>1, Constants DEF Tasks
<1>4. Types'
  BY <1>1, <1>2, <1>3 DEF Types, TypeOK
<1>5. Schedule'
  BY <1>1, <1>2 DEF Schedule, RoundEnd
<1>6. Engine'
  BY <1>1, <1>2 DEF Engine
<1>7. Probes'
  <2>1. steady \subseteq Targets
    BY <1>2, Peers DEF Probes, Types, TypeOK
  <2> QED BY <1>1, <1>2, <1>3, <2>1 DEF Probes
<1>8. Found'
  BY <1>1, <1>2, <1>3 DEF Found
<1>9. Counted'
  BY <1>1, <1>2, <1>3 DEF Counted, Running
<1> QED BY <1>4, <1>5, <1>6, <1>7, <1>8, <1>9 DEF Inv

(* What a round reports.                                                   *)
LEMMA Reports ==
  ASSUME Inv, Collected
  PROVE  /\ Report \in Snapshot
         /\ phase # "waiting"
         /\ Report.stopped <=> tasks["pve"] = "stopped"
         /\ tasks["nut"] = "failed" => Report.nut = "UNREACHABLE" /\ phase = "probing"
         /\ tasks["nut"] # "failed" => Report.nut = tasks["nut"] /\ tasks["nut"] \in {"OL", "OB"}
         /\ (tasks["nut"] = "failed" /\ \A t \in Targets : tasks[t] # "alive") =>
              NetworkEvidence(Report)
         /\ NetworkEvidence(Report) =>
              tasks["nut"] = "failed" /\ \A t \in Targets : tasks[t] # "alive"
<1>1. tasks["nut"] \in {"failed", "OL", "OB"}
  <2>1. tasks["nut"] \in {"waited", "failed", "OL", "OB"} /\ "nut" \in Tasks
    BY DEF Inv, Types, TypeOK, Tasks
  <2> QED BY <2>1 DEF Collected, Waited
<1>2. /\ phase # "waiting"
      /\ tasks["nut"] = "failed" => phase = "probing"
  BY DEF Collected
<1>3. Report.nut = IF tasks["nut"] = "failed" THEN "UNREACHABLE" ELSE tasks["nut"]
  BY DEF Report
<1>4. Report.stopped <=> tasks["pve"] = "stopped"
  BY DEF Report
<1>5. ASSUME tasks["nut"] = "failed"
      PROVE  NetworkEvidence(Report) <=> ~AnyReachable(LAN) /\ ~AnyReachable(WAN)
  BY <1>5 DEF NetworkEvidence, Report
<1>6. (~AnyReachable(LAN) /\ ~AnyReachable(WAN)) <=> \A t \in Targets : tasks[t] # "alive"
  BY DEF AnyReachable, Targets
<1>7. tasks["nut"] # "failed" => ~NetworkEvidence(Report)
  BY <1>1, <1>3 DEF NetworkEvidence
<1>8. Report \in Snapshot
  BY <1>1 DEF Report, Snapshot, NUTStatus, AnyReachable
<1> HIDE DEF Report
<1> QED BY <1>1, <1>2, <1>3, <1>4, <1>5, <1>6, <1>7, <1>8

(* The sample of a round keeps the invariant.                              *)
LEMMA EndRoundInv ==
  ASSUME Inv, EndRound
  PROVE  Inv'
<1> DEFINE n == Step(Detection, status, began, Report).status
<1>1. /\ now' = now /\ world' = world /\ changes' = changes /\ began' = began /\ since' = since
      /\ tasks' = tasks /\ tick' = tick /\ lostSince' = lostSince /\ steady' = steady
      /\ status' = n /\ lastAt' = began /\ phase' = "waiting"
      /\ Collected
  BY DEF EndRound
<1>2. /\ Types /\ Schedule /\ Engine /\ Probes /\ Found /\ Counted
  BY DEF Inv
<1>3. /\ Report \in Snapshot
      /\ phase # "waiting"
      /\ tasks["nut"] = "failed" => Report.nut = "UNREACHABLE" /\ phase = "probing"
      /\ tasks["nut"] # "failed" => Report.nut = tasks["nut"] /\ tasks["nut"] \in {"OL", "OB"}
      /\ (tasks["nut"] = "failed" /\ \A t \in Targets : tasks[t] # "alive") =>
           NetworkEvidence(Report)
  BY <1>1, Reports
<1>4. /\ began \in Nat /\ now \in Nat /\ began <= now
      /\ lastAt \in Nat \cup {NoTime} /\ lastAt < began
      /\ began = 0 \/ began = lastAt + Interval
      /\ Interval \in Nat /\ now <= began + RoundTimeout /\ RoundTimeout \in Nat
      /\ Interval > RoundTimeout
  BY <1>2, <1>3, Constants DEF Types, TypeOK, Schedule, RoundEnd, NoTime
<1>5. /\ Coherent(status)
      /\ status.state \in Watched =>
           status.nutStartedAt <= lastAt /\ status.networkStartedAt <= lastAt
      /\ status.state \notin Watched => status.gracefulIssued
      /\ status \in EngineStatus
  BY <1>2 DEF Engine, Coherent
<1>6. /\ Coherent(n)
      /\ status.state \notin Watched => n.state \notin Watched
  BY <1>3, <1>4, <1>5, Constants, StepKeeps
<1>7. n.state \notin Watched => n.gracefulIssued
  BY <1>3, <1>4, <1>5, Constants, ShutdownIsIssued
<1>8. n.state \in Watched =>
        /\ n.nutStartedAt # NoTime => n.nutStartedAt = First(status.nutStartedAt, began)
        /\ n.networkStartedAt # NoTime => n.networkStartedAt = First(status.networkStartedAt, began)
  BY <1>3, <1>4, <1>5, <1>6, Constants, TimersRun
<1>9. (n.state \in Watched /\ Evidence(Report)) =>
        /\ NUTEvidence(Report) => n.nutStartedAt = First(status.nutStartedAt, began)
        /\ ~NUTEvidence(Report) => /\ n.nutStartedAt = status.nutStartedAt
                                   /\ n.networkStartedAt = First(status.networkStartedAt, began)
        /\ n.nutStartedAt # NoTime => began - n.nutStartedAt < Detection.nutConfirm
        /\ n.nutStartedAt = NoTime => began - n.networkStartedAt < Detection.networkConfirm
  BY <1>3, <1>4, <1>5, <1>6, Constants, StillWatching
<1>10. /\ n.nutStartedAt \in Nat \cup {NoTime} /\ n.networkStartedAt \in Nat \cup {NoTime}
       /\ status.nutStartedAt \in Nat \cup {NoTime} /\ status.networkStartedAt \in Nat \cup {NoTime}
       /\ n.state \in EngineState
  BY <1>5, <1>6 DEF Coherent, EngineStatus, Instant
<1> HIDE DEF n
<1>11. Types'
  BY <1>1, <1>2, <1>4, <1>10 DEF Types, TypeOK
<1>12. Schedule'
  <2>1. Waited' = {}
    BY <1>1 DEF Collected, Waited
  <2> QED BY <1>1, <1>2, <1>4, <2>1 DEF Schedule
<1>13. Engine'
  <2>1. n.state \in Watched => n.nutStartedAt <= began /\ n.networkStartedAt <= began
    BY <1>4, <1>5, <1>6, <1>8, <1>10 DEF First, NoTime
  <2> QED BY <1>1, <1>6, <1>7, <2>1 DEF Engine
<1>14. Probes' /\ Found'
  BY <1>1, <1>2 DEF Probes, Found
<1>15. Counted'
  <2> DEFINE run == IF n.nutStartedAt # NoTime THEN n.nutStartedAt ELSE n.networkStartedAt
             old == Running
  <2>1. SUFFICES ASSUME lostSince # NoTime, began > lostSince, n.state \in Watched
                 PROVE  /\ run # NoTime
                        /\ run <= lostSince + Interval
                        /\ began - run < LongerConfirm
                        /\ n.nutStartedAt = NoTime => world.nut # "OB"
    BY <1>1 DEF Counted, Running
  <2>2. /\ lostSince \in Nat
        /\ Lost(world)
        /\ tasks["nut"] \in {"waited", "failed", "OB"}
        /\ tasks["nut"] = "failed" => world.nut # "OB"
        /\ phase = "probing" => \A t \in Targets : tasks[t] # "alive"
    BY <1>2, <1>3, <2>1 DEF Found
  <2>3. /\ NUTEvidence(Report) => tasks["nut"] = "OB"
        /\ ~NUTEvidence(Report) => tasks["nut"] = "failed" /\ NetworkEvidence(Report)
    BY <1>3, <2>2 DEF NUTEvidence
  <2>4. /\ Evidence(Report)
        /\ status.state \in Watched
    BY <1>6, <2>1, <2>3 DEF Evidence
  <2>5. /\ NUTEvidence(Report) => n.nutStartedAt = First(status.nutStartedAt, began)
        /\ ~NUTEvidence(Report) => /\ n.nutStartedAt = status.nutStartedAt
                                   /\ n.networkStartedAt = First(status.networkStartedAt, began)
        /\ n.nutStartedAt # NoTime => began - n.nutStartedAt < Detection.nutConfirm
        /\ n.nutStartedAt = NoTime => began - n.networkStartedAt < Detection.networkConfirm
    BY <1>9, <2>1, <2>4
  <2>6. /\ Detection.nutConfirm \in Int /\ Detection.networkConfirm \in Int
        /\ LongerConfirm \in Nat
        /\ LongerConfirm >= Detection.nutConfirm /\ LongerConfirm >= Detection.networkConfirm
    BY Constants DEF Config
  <2>7. run # NoTime /\ run \in Nat
    BY <1>4, <1>10, <2>5 DEF First, NoTime
  <2>8. began - run < LongerConfirm
    BY <1>4, <1>10, <2>5, <2>6, <2>7
  <2>9. n.nutStartedAt = NoTime => world.nut # "OB"
    BY <1>4, <2>2, <2>3, <2>5 DEF First, NoTime
  <2>10. run <= lostSince + Interval
    <3>1. CASE lastAt > lostSince
      <4>1. /\ old # NoTime
            /\ old <= lostSince + Interval
            /\ status.nutStartedAt = NoTime => tasks["nut"] # "OB"
        BY <1>2, <1>3, <2>1, <2>4, <3>1 DEF Counted
      <4>2. run = old
        BY <2>3, <2>5, <4>1 DEF First, Running
      <4> QED BY <4>1, <4>2
    <3>2. CASE ~(lastAt > lostSince)
      <4>1. began <= lostSince + Interval
        BY <1>4, <2>2, <3>2 DEF NoTime
      <4>2. run <= began
        BY <1>4, <1>5, <1>10, <2>4, <2>5 DEF First, NoTime
      <4> QED BY <1>4, <2>2, <2>7, <4>1, <4>2
    <3> QED BY <3>1, <3>2
  <2> QED BY <2>7, <2>8, <2>9, <2>10
<1> QED BY <1>11, <1>12, <1>13, <1>14, <1>15 DEF Inv

(* A round begins at a tick, and none is missed.                           *)
LEMMA BeginRoundInv ==
  ASSUME Inv, BeginRound
  PROVE  Inv'
<1>1. /\ now' = now /\ world' = world /\ changes' = changes
      /\ status' = status /\ lastAt' = lastAt /\ lostSince' = lostSince
      /\ phase = "waiting" /\ phase' = "reading" /\ began' = now /\ since' = now
      /\ now >= tick /\ tasks' = Reading /\ steady' = world.alive
      /\ tick' = tick + ((now - tick) \div Interval + 1) * Interval
  BY DEF BeginRound, engine
<1>2. /\ Types /\ Schedule /\ Engine /\ Probes /\ Found /\ Counted
  BY DEF Inv
<1>3. /\ now \in Nat /\ began \in Nat /\ Interval \in Nat /\ Interval > 0
      /\ RoundTimeout \in Nat /\ RoundTimeout > 0
      /\ tick = began + Interval /\ now <= tick /\ lastAt = began
  BY <1>1, <1>2, Constants DEF Types, Schedule
<1>4. now = tick /\ tick' = now + Interval
  <2>1. now = tick
    BY <1>1, <1>3
  <2>2. (now - tick) \div Interval = 0
    BY <1>3, <2>1
  <2>3. tick' = tick + (0 + 1) * Interval
    BY <1>1, <2>2
  <2> QED BY <1>3, <2>1, <2>3
<1>5. /\ tasks' \in [Tasks -> Results]
      /\ tasks'["nut"] = "waited" /\ tasks'["pve"] = "waited"
      /\ \A t \in Targets : tasks'[t] = "idle"
  BY <1>1, Constants DEF Reading, Tasks, Results
<1>6. Types'
  BY <1>1, <1>2, <1>3, <1>5 DEF Types, TypeOK
<1>7. Schedule'
  BY <1>1, <1>3, <1>4 DEF Schedule, RoundEnd
<1>8. Engine'
  BY <1>1, <1>2 DEF Engine
<1>9. Probes'
  BY <1>1 DEF Probes
<1>10. Found'
  BY <1>1, <1>2, <1>5 DEF Found
<1>11. Counted'
  BY <1>1, <1>2, <1>5 DEF Counted, Running
<1> QED BY <1>6, <1>7, <1>8, <1>9, <1>10, <1>11 DEF Inv

(* The clock moves within the round, and only while everything hangs.      *)
LEMMA TickInv ==
  ASSUME Inv, Tick
  PROVE  Inv'
<1>1. /\ now < MaxTime /\ now' = now + 1
      /\ \/ phase = "waiting" /\ now < tick
         \/ Waited # {} /\ \A t \in Waited : now < Deadline(t) /\ Answer(t) = "hangs"
      /\ world' = world /\ changes' = changes /\ phase' = phase /\ began' = began
      /\ since' = since /\ tasks' = tasks /\ tick' = tick /\ status' = status
      /\ lastAt' = lastAt /\ lostSince' = lostSince /\ steady' = steady
  BY DEF Tick, round, engine, history
<1>2. /\ Types /\ Schedule /\ Engine /\ Probes /\ Found /\ Counted
  BY DEF Inv
<1>3. /\ now \in Nat /\ began \in Nat /\ since \in Nat /\ MaxTime \in Nat
      /\ Interval \in Nat /\ tick = began + Interval
      /\ "nut" \in Tasks /\ Targets \subseteq Tasks
  BY <1>2, Constants, BoundsAssumption DEF Types, Schedule, Tasks
<1>4. phase # "waiting" =>
        /\ Waited # {} /\ \A t \in Waited : Answer(t) = "hangs"
        /\ now + 1 <= RoundEnd
  <2>1. SUFFICES ASSUME phase # "waiting"
                 PROVE  /\ Waited # {} /\ \A t \in Waited : Answer(t) = "hangs"
                        /\ now + 1 <= RoundEnd
    OBVIOUS
  <2>2. Waited # {} /\ \A t \in Waited : now < Deadline(t) /\ Answer(t) = "hangs"
    BY <1>1, <2>1
  <2>3. PICK t \in Waited : now < Deadline(t)
    BY <2>2
  <2>4. Deadline(t) \in Nat /\ Deadline(t) <= RoundEnd /\ RoundEnd \in Nat
    BY <1>2, Deadlines DEF Waited
  <2> QED BY <1>3, <2>2, <2>3, <2>4
<1>5. Waited' = Waited
  BY <1>1 DEF Waited
<1>6. Types'
  BY <1>1, <1>2, <1>3 DEF Types, TypeOK
<1>7. Schedule'
  BY <1>1, <1>2, <1>3, <1>4, <1>5 DEF Schedule, RoundEnd, Waited
<1>8. Engine'
  BY <1>1, <1>2 DEF Engine
<1>9. Probes'
  <2>1. SUFFICES ASSUME phase = "probing", NEW t \in steady, tasks[t] = "waited" PROVE FALSE
    BY <1>1, <1>2 DEF Probes, RoundEnd
  <2>2. t \in world.alive /\ t \in Targets
    BY <1>2, Peers DEF Probes, Types, TypeOK
  <2>3. Answer(t) = "alive"
    BY <2>2, Constants DEF Answer
  <2>4. t \in Waited
    BY <1>3, <2>1, <2>2 DEF Waited
  <2> QED BY <1>4, <2>1, <2>3, <2>4
<1>10. Found'
  <2>1. ASSUME phase # "waiting", tasks["nut"] = "waited" PROVE world.nut = "hangs"
    <3>1. Answer("nut") = "hangs"
      BY <1>3, <1>4, <2>1 DEF Waited
    <3> QED BY <3>1 DEF Answer
  <2> QED BY <1>1, <1>2, <1>3, <2>1 DEF Found
<1>11. Counted'
  BY <1>1, <1>2 DEF Counted, Running
<1> QED BY <1>6, <1>7, <1>8, <1>9, <1>10, <1>11 DEF Inv

(* A change of the world is either seen by the rounds that begin after it, *)
(* or leaves the outage what it was.                                       *)
LEMMA WorldChangesInv ==
  ASSUME Inv, WorldChanges
  PROVE  Inv'
<1>1. PICK w \in Worlds :
        /\ world' = w /\ steady' = steady \cap w.alive
        /\ lostSince' = CASE ~Lost(w)                           -> NoTime
                          [] w.nut = "OB" /\ world.nut # "OB" -> now
                          [] OTHER                             -> First(lostSince, now)
  BY DEF WorldChanges
<1>2. /\ now' = now /\ phase' = phase /\ began' = began /\ since' = since /\ tasks' = tasks
      /\ tick' = tick /\ status' = status /\ lastAt' = lastAt
      /\ changes < MaxChanges /\ changes' = changes + 1
  BY DEF WorldChanges, round, engine
<1>3. /\ Types /\ Schedule /\ Engine /\ Probes /\ Found /\ Counted
  BY DEF Inv
<1>4. /\ now \in Nat /\ began \in Nat /\ began <= now
      /\ lastAt \in Nat \cup {NoTime} /\ lastAt <= now
  BY <1>3 DEF Types, TypeOK, NoTime
<1>5. \/ lostSince' = NoTime
      \/ lostSince' = now /\ Lost(w)
      \/ /\ lostSince' = lostSince /\ lostSince # NoTime
         /\ Lost(w)
         /\ w.nut = "OB" => world.nut = "OB"
  <2>1. CASE ~Lost(w)
    <3>1. w.nut # "OB"
      BY <2>1 DEF Lost
    <3> QED BY <1>1, <2>1, <3>1
  <2>2. CASE Lost(w) /\ w.nut = "OB" /\ world.nut # "OB"
    BY <1>1, <2>2
  <2>3. CASE Lost(w) /\ ~(w.nut = "OB" /\ world.nut # "OB")
    <3>1. lostSince' = First(lostSince, now)
      BY <1>1, <2>3
    <3> QED BY <2>3, <3>1 DEF First
  <2> QED BY <2>1, <2>2, <2>3
<1>6. Types'
  BY <1>1, <1>2, <1>3, BoundsAssumption DEF Types, TypeOK
<1>7. Schedule'
  BY <1>2, <1>3 DEF Schedule, RoundEnd, Waited
<1>8. Engine'
  BY <1>2, <1>3 DEF Engine
<1>9. Probes'
  BY <1>1, <1>2, <1>3 DEF Probes, RoundEnd
<1>10. Found'
  BY <1>1, <1>2, <1>3, <1>4, <1>5 DEF Found
<1>11. Counted'
  <2>1. CASE lostSince' = NoTime
    BY <2>1 DEF Counted
  <2>2. CASE lostSince' = now
    BY <1>2, <1>4, <2>2 DEF Counted, NoTime
  <2>3. CASE /\ lostSince' = lostSince /\ lostSince # NoTime
             /\ w.nut = "OB" => world.nut = "OB"
    BY <1>1, <1>2, <1>3, <2>3 DEF Counted, Running
  <2> QED BY <1>5, <2>1, <2>2, <2>3
<1> QED BY <1>6, <1>7, <1>8, <1>9, <1>10, <1>11 DEF Inv

(* Every step keeps the invariant.                                         *)
LEMMA NextInv ==
  ASSUME Inv, [Next]_vars
  PROVE  Inv'
<1>1. ASSUME NEW t \in Tasks, Answers(t) PROVE Inv'
  <2>1. Ends(t, Answer(t)) /\ Answer(t) \notin {"refuses", "hangs"}
    BY <1>1 DEF Answers
  <2>2. Possible(t, Answer(t))
    BY <2>1, AnswersPossible
  <2> QED BY <2>1, <2>2, EndsInv
<1>2. ASSUME NEW t \in Tasks, Fails(t) PROVE Inv'
  <2>1. Ends(t, "failed") /\ (now >= Deadline(t) \/ Answer(t) = "refuses")
    BY <1>2 DEF Fails
  <2>2. Possible(t, "failed")
    BY <2>1 DEF Possible
  <2> QED BY <2>1, <2>2, EndsInv
<1>3. CASE UNCHANGED vars
  <2>1. /\ now' = now /\ world' = world /\ changes' = changes /\ phase' = phase
        /\ began' = began /\ since' = since /\ tasks' = tasks /\ tick' = tick
        /\ status' = status /\ lastAt' = lastAt /\ lostSince' = lostSince /\ steady' = steady
    BY <1>3 DEF vars, round, engine, history
  <2>2. Types' /\ Schedule'
    BY <2>1 DEF Inv, Types, TypeOK, Schedule, Waited, RoundEnd
  <2>3. Engine' /\ Probes'
    BY <2>1 DEF Inv, Engine, Probes, RoundEnd
  <2>4. Found' /\ Counted'
    BY <2>1 DEF Inv, Found, Counted, Running
  <2> QED BY <2>2, <2>3, <2>4 DEF Inv
<1> QED BY <1>1, <1>2, <1>3, BeginProbesInv, EndRoundInv, BeginRoundInv, TickInv,
           WorldChangesInv DEF Next

(* The invariant holds in every behaviour.                                 *)
LEMMA Invariance == Spec => []Inv
BY InitInv, NextInv, PTL DEF Spec

-----------------------------------------------------------------------------
(* The variables keep their types (the rounds of cmd/powercheck-dryrun and *)
(* internal/dryrun).                                                       *)
THEOREM TypeCorrect == Spec => []TypeOK
<1>1. Inv => TypeOK
  BY DEF Inv, Types
<1> QED BY <1>1, Invariance, PTL

(* Whatever hangs, a round ends before its time is up and before the next  *)
(* tick, and the engine accepts its sample: the contexts of Collector and  *)
(* the check of Config.Validate that the interval exceeds the timeout.     *)
THEOREM RoundsEndInTime == Spec => []RoundsKeepUp
<1>1. Inv => RoundsKeepUp
  <2>1. SUFFICES ASSUME Inv, phase # "waiting"
                 PROVE  now <= RoundEnd /\ now < tick /\ Accepts(lastAt, began)
    BY DEF RoundsKeepUp, Collected
  <2>2. /\ now \in Nat /\ began \in Nat /\ tick = began + Interval /\ now <= RoundEnd
        /\ RoundEnd = began + RoundTimeout
        /\ (began = 0 /\ lastAt = NoTime) \/ (lastAt \in Nat /\ began = lastAt + Interval)
        /\ Interval \in Nat /\ RoundTimeout \in Nat /\ Interval > RoundTimeout
    BY <2>1, Constants DEF Inv, Types, Schedule, RoundEnd
  <2> QED BY <2>2 DEF Accepts, NoTime
<1> QED BY <1>1, Invariance, PTL

(* One target that stays alive through a round keeps it from counting as   *)
(* evidence of an outage, unless the reading of NUT used the round up      *)
(* (Collector.Collect and the engine's NetworkEvidence).                   *)
THEOREM AliveTargetVetoes == Spec => []LiveTargetVetoes
<1>1. Inv => LiveTargetVetoes
  <2>1. SUFFICES ASSUME Inv, Collected, NetworkEvidence(Report), NEW t \in steady
                 PROVE  since = RoundEnd
    BY DEF LiveTargetVetoes
  <2>2. tasks["nut"] = "failed" /\ phase = "probing" /\ \A u \in Targets : tasks[u] # "alive"
    BY <2>1, Reports
  <2>3. t \in Targets /\ Targets \subseteq Tasks
    BY <2>1, Peers DEF Inv, Probes, Types, TypeOK, Tasks
  <2>4. /\ tasks[t] \in {"waited", "failed", "alive"}
        /\ tasks[t] = "failed" => since = RoundEnd
    BY <2>1, <2>2, <2>3 DEF Inv, Probes
  <2>5. tasks[t] # "waited"
    BY <2>1, <2>3 DEF Collected, Waited
  <2> QED BY <2>2, <2>3, <2>4, <2>5
<1> QED BY <1>1, Invariance, PTL

(* An outage that lasts is planned for within the longer confirmation and  *)
(* two rounds, whatever else changes and hangs meanwhile: no round is lost *)
(* and no timer starts anew (Session.Sample, Engine.Step).                 *)
THEOREM OutageIsPlanned == Spec => []OutagePlanned
<1>1. Inv => OutagePlanned
  <2>1. SUFFICES ASSUME Inv, lostSince # NoTime, ~status.gracefulIssued,
                        now - lostSince > LongerConfirm + 2 * Interval + RoundTimeout
                 PROVE  FALSE
    BY DEF OutagePlanned
  <2>2. /\ now \in Nat /\ began \in Nat /\ lostSince \in Nat
        /\ Interval \in Nat /\ RoundTimeout \in Nat /\ LongerConfirm \in Nat
        /\ status.state \in Watched
        /\ lastAt \in Nat \cup {NoTime}
    BY <2>1, Constants DEF Inv, Types, Found, Engine
  <2>3. lastAt \in Nat /\ lastAt + Interval + RoundTimeout >= now
    <3>1. CASE phase = "waiting"
      BY <2>1, <2>2, <3>1 DEF Inv, Schedule
    <3>2. CASE phase # "waiting"
      <4>1. /\ now <= began + RoundTimeout
            /\ (began = 0 /\ lastAt = NoTime) \/ (lastAt \in Nat /\ began = lastAt + Interval)
        BY <2>1, <3>2 DEF Inv, Schedule, RoundEnd
      <4> QED BY <2>1, <2>2, <4>1
    <3> QED BY <3>1, <3>2
  <2>4. /\ Running # NoTime
        /\ Running <= lostSince + Interval
        /\ lastAt - Running < LongerConfirm
    BY <2>1, <2>2, <2>3 DEF Inv, Counted
  <2>5. Running \in Int
    BY <2>1 DEF Inv, Engine, Coherent, EngineStatus, Instant, NoTime, Running
  <2> QED BY <2>1, <2>2, <2>3, <2>4, <2>5
<1> QED BY <1>1, Invariance, PTL

(* Before the emergency the poweroff is planned only in a round whose list *)
(* of guests showed them stopped (Session.Sample, progressShutdown).       *)
THEOREM PoweroffFollowsGuests == Spec => PoweroffNeedsGuests
<1>1. Inv /\ [Next]_vars =>
        [~status.poweroffIssued /\ status'.poweroffIssued /\ ~status'.emergencyIssued
           => tasks["pve"] = "stopped"]_vars
  <2>1. SUFFICES ASSUME Inv, Next, ~status.poweroffIssued, status'.poweroffIssued,
                        ~status'.emergencyIssued
                 PROVE  tasks["pve"] = "stopped"
    OBVIOUS
  <2>2. EndRound
    <3>1. status' # status
      BY <2>1
    <3>2. EndRound \/ status' = status
      BY <2>1 DEF Next, Answers, Fails, Ends, BeginProbes, BeginRound, Tick, WorldChanges, engine
    <3> QED BY <3>1, <3>2
  <2>3. Collected /\ status' = Step(Detection, status, began, Report).status
    BY <2>2 DEF EndRound
  <2>4. Report \in Snapshot /\ (Report.stopped <=> tasks["pve"] = "stopped")
    BY <2>1, <2>3, Reports
  <2>5. Coherent(status) /\ began \in Nat
    BY <2>1 DEF Inv, Types, Engine
  <2>6. Report.stopped
    BY <2>1, <2>3, <2>4, <2>5, Constants, PoweroffNeedsStopped
  <2> QED BY <2>4, <2>6
<1> QED BY <1>1, Invariance, PTL DEF Spec, PoweroffNeedsGuests
=============================================================================
