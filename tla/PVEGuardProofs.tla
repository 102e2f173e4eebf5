---------------------------- MODULE PVEGuardProofs -----------------------------
(***************************************************************************)
(* Proofs about PVEGuard, for all settings, any number of guests and every *)
(* bound on time and disturbances.                                         *)
(***************************************************************************)
EXTENDS PVEGuard, EngineStepProofs, FiniteSetTheorems

PastTime(t) == {NoTime} \cup 0..t

(* What may be in the file at time t of boot b.                            *)
Saved(t, b) ==
  {s \in [boot : 0..b, origin : 0..t, revision : Revisions, status : EngineStatus,
          lastAt : PastTime(t)] : Coherent(s.status)}

(* The commands that end with the host's poweroff, as far as they are left *)
(* to carry out.                                                           *)
Closing ==
  { <<"graceful_shutdown", "host_poweroff_requested">>,
    <<"graceful_shutdown", "emergency_stop_remaining", "host_poweroff_requested">>,
    <<"emergency_stop_remaining", "host_poweroff_requested">>,
    <<"host_poweroff_requested">> }

ToDos == {<<>>, <<"graceful_shutdown">>} \cup Closing

Commanding == {"act", "stopall", "force", "poweroff"}

-----------------------------------------------------------------------------
(* The inductive invariant, in named parts.                                *)

Clocks ==
  /\ now \in 0..MaxTime /\ lostAt \in {NoTime} \cup 0..LastChange
  /\ host \in {"up", "stopping", "off"} /\ boot \in Nat
  /\ running \subseteq Guests /\ asked \subseteq Guests
  /\ stored \in Revisions /\ revision \in Revisions /\ guestRevision \in Revisions
  /\ pc \in {"down", "loop", "act", "stopall", "force", "poweroff", "save", "wait"}
  /\ origin \in 0..now /\ Coherent(status) /\ lastAt \in PastTime(now)
  /\ todo \in ToDos /\ targets \subseteq Guests
  /\ count \in [Disturbance -> Nat]
  /\ \A d \in Disturbance : count[d] <= Limits[d]

Files == file \subseteq Saved(now, boot) /\ \A s, t \in file : s = t

Recorded ==
  /\ evidence \in [kept : PastTime(now), now : PastTime(now)]
  /\ stopAlls \in Nat

Types == Clocks /\ Files /\ Recorded

(* The commands left are those of the engine's state, and the process      *)
(* carries out the first of them.                                          *)
Commanded ==
  /\ pc \in Commanding <=> todo # <<>>
  /\ todo # <<>> => \/ status.state = "SHUTTING_DOWN" /\ todo = <<"graceful_shutdown">>
                    \/ status.state = "POWERED_OFF" /\ todo \in Closing
  /\ pc = "stopall" => Head(todo) = "graceful_shutdown"
  /\ pc = "force" => Head(todo) = "emergency_stop_remaining"
  /\ pc = "poweroff" => Head(todo) = "host_poweroff_requested"

(* A process that does not run knows nothing, and what it forgot is what   *)
(* was not saved; a host that is off runs none.                            *)
Places ==
  /\ pc = "down" => status = NewStatus
  /\ host = "off" => pc = "down"
  /\ pc = "down" /\ host = "up" => evidence.now = evidence.kept

Timers ==
  /\ Backed(origin, status, evidence.now)
  /\ \A s \in file : s.boot = boot => Backed(s.origin, s.status, evidence.kept)

(* The graceful shutdown is about to begin.                                *)
Begins == pc = "act" /\ Head(todo) = "graceful_shutdown"

Justified == Begins => evidence.now # NoTime /\ now - evidence.now >= Detection.nutConfirm

(* A shutdown of this boot has asked the guests, whether the process knows *)
(* of it or its file does.                                                 *)
Asked ==
  /\ status.state \notin Watched /\ ~Begins => stopAlls > 0
  /\ host = "stopping" => stopAlls > 0
  /\ SavedShutdown # {} => stopAlls > 0

(* A process knows of the shutdown in its file, and is done only with a    *)
(* host that halts.                                                        *)
Final ==
  /\ SavedShutdown # {} /\ pc # "down" => status.state \notin Watched
  /\ status.state = "POWERED_OFF" /\ pc \in {"save", "wait", "loop"} => host # "up"

BeganAt(from, s) == IF s.outageStartedAt = NoTime THEN NoTime ELSE from + s.outageStartedAt

(* anchor is when the outage began that the file of this boot holds, and   *)
(* until the next sample the process too.                                  *)
Anchored ==
  /\ pc \in {"loop", "wait"} => anchor = BeganAt(origin, status)
  /\ anchor # NoTime /\ status.outageStartedAt # NoTime => BeganAt(origin, status) = anchor
  /\ \A s \in Restorable(file, boot) : anchor = BeganAt(s.origin, s.status)
  /\ host = "up" /\ Restorable(file, boot) = {} => anchor = NoTime

Spared == pc = "poweroff" => running \cap asked = {}

IInv ==
  /\ Types /\ Commanded /\ Places /\ Timers /\ Justified /\ Asked /\ Final /\ Anchored
  /\ Spared

-----------------------------------------------------------------------------
(* Lemmas about the commands.                                              *)

(* The first of the commands left, and those after it.                     *)
LEMMA CommandsLeft ==
  ASSUME NEW l \in ToDos, l # <<>>
  PROVE  /\ Tail(l) \in ToDos
         /\ Tail(l) # <<>> => Tail(l) \in Closing /\ Head(Tail(l)) # "graceful_shutdown"
         /\ Tail(l) = <<>> <=> l = <<"graceful_shutdown">> \/ Head(l) = "host_poweroff_requested"
         /\ Head(l) \in {"graceful_shutdown", "emergency_stop_remaining", "host_poweroff_requested"}
<1>1. CASE l = <<"graceful_shutdown">>
  BY <1>1 DEF ToDos, Closing
<1>2. CASE l = <<"graceful_shutdown", "host_poweroff_requested">>
  BY <1>2 DEF ToDos, Closing
<1>3. CASE l = <<"graceful_shutdown", "emergency_stop_remaining", "host_poweroff_requested">>
  BY <1>3 DEF ToDos, Closing
<1>4. CASE l = <<"emergency_stop_remaining", "host_poweroff_requested">>
  BY <1>4 DEF ToDos, Closing
<1>5. CASE l = <<"host_poweroff_requested">>
  BY <1>5 DEF ToDos, Closing
<1> QED BY <1>1, <1>2, <1>3, <1>4, <1>5 DEF ToDos, Closing

(* The commands of a step fit the state it leaves: none while the engine   *)
(* watches, waits for the guests or is done, the graceful shutdown alone   *)
(* or first when a shutdown begins, the host's poweroff last.              *)
LEMMA StepCommands ==
  ASSUME NEW c \in Config, Validate(c), NEW s, Coherent(s), NEW at \in Nat, NEW x \in Snapshot
  PROVE  LET out == Step(c, s, at, x)
             l   == Commands(out.actions)
         IN  \/ /\ l = <<>>
                /\ out.status.state \in Watched \/ out.status = s
             \/ /\ l = <<"graceful_shutdown">>
                /\ s.state \in Watched /\ out.status.state = "SHUTTING_DOWN"
             \/ /\ l \in Closing
                /\ out.status.state = "POWERED_OFF"
                /\ s.state \in Watched <=> Head(l) = "graceful_shutdown"
<1> DEFINE out == Step(c, s, at, x)
           o == Observe(s, at, x)
           b == BeginShutdown(o)
<1>1. /\ Commands(<<>>) = <<>>
      /\ Commands(<<"outage_cancelled">>) = <<>>
      /\ Commands(<<"outage_candidate_started">>) = <<>>
      /\ Commands(<<"graceful_shutdown">>) = <<"graceful_shutdown">>
  BY DEF Commands, Notice
<1>2. \A l \in Closing : Commands(l) = l
  BY DEF Commands, Notice, Closing
<1>3. CASE s.state \in Watched
  <2>1. /\ o \in EngineStatus /\ Coherent(o) /\ o.state \in Watched
        /\ ~o.gracefulIssued /\ ~o.emergencyIssued /\ ~o.poweroffIssued
    <3>1. /\ o \in EngineStatus /\ Coherent(o) /\ o.state \in Watched
      BY <1>3, Observed, ObserveCoherent DEF Coherent
    <3> HIDE DEF o
    <3> QED BY <3>1 DEF Coherent
  <2>2. \/ /\ out.status = ResetCandidate(o) /\ out.actions = <<"outage_cancelled">>
        \/ /\ out.status = o /\ out.actions \in {<<>>, <<"outage_candidate_started">>}
        \/ /\ o.outageStartedAt # NoTime
           /\ out.status = b /\ out.actions = <<"graceful_shutdown">>
        \/ /\ o.outageStartedAt # NoTime
           /\ out.status = RequestPoweroff(b)
           /\ out.actions = <<"graceful_shutdown", "host_poweroff_requested">>
        \/ /\ o.outageStartedAt # NoTime
           /\ out.status = [RequestPoweroff(b) EXCEPT !.emergencyIssued = TRUE]
           /\ out.actions = <<"graceful_shutdown", "emergency_stop_remaining",
                              "host_poweroff_requested">>
    <3>1. \/ /\ ~Evidence(x)
             /\ o.outageStartedAt # NoTime
             /\ out.status = ResetCandidate(o)
             /\ out.actions = <<"outage_cancelled">>
          \/ /\ ~Confirmed(c, o, at, x)
             /\ out.status = o
             /\ out.actions \in {<<>>, <<"outage_candidate_started">>}
          \/ /\ Confirmed(c, o, at, x)
             /\ s.outageStartedAt # NoTime
             /\ \/ /\ out.status = b
                   /\ out.actions = <<"graceful_shutdown">>
                   /\ ~x.stopped
                   /\ at < EmergencyAt(c, b)
                \/ /\ out.status = RequestPoweroff(b)
                   /\ out.actions = <<"graceful_shutdown", "host_poweroff_requested">>
                \/ /\ out.status = [RequestPoweroff(b) EXCEPT !.emergencyIssued = TRUE]
                   /\ out.actions = <<"graceful_shutdown", "emergency_stop_remaining",
                                      "host_poweroff_requested">>
                   /\ at >= EmergencyAt(c, b)
      BY <1>3, WatchedOutcomes
    <3>2. Confirmed(c, o, at, x) => o.outageStartedAt # NoTime
      BY DEF Confirmed
    <3> HIDE DEF o, b, out
    <3> QED BY <3>1, <3>2
  <2>3. ResetCandidate(o).state \in Watched
    BY <2>1, ResetCoherent DEF Watched
  <2>4. o.outageStartedAt # NoTime =>
          /\ b.state = "SHUTTING_DOWN"
          /\ RequestPoweroff(b).state = "POWERED_OFF"
          /\ [RequestPoweroff(b) EXCEPT !.emergencyIssued = TRUE].state = "POWERED_OFF"
    <3> SUFFICES ASSUME o.outageStartedAt # NoTime
                 PROVE  /\ b.state = "SHUTTING_DOWN"
                        /\ RequestPoweroff(b).state = "POWERED_OFF"
                        /\ [RequestPoweroff(b) EXCEPT !.emergencyIssued = TRUE].state = "POWERED_OFF"
      OBVIOUS
    <3>1. b \in EngineStatus /\ b.state = "SHUTTING_DOWN" /\ b.outageStartedAt # NoTime
      BY <2>1, BeginCoherent
    <3> HIDE DEF b
    <3> QED BY <3>1, PoweroffCoherent
  <2>5. /\ <<"graceful_shutdown", "host_poweroff_requested">> \in Closing
        /\ Head(<<"graceful_shutdown", "host_poweroff_requested">>) = "graceful_shutdown"
        /\ <<"graceful_shutdown", "emergency_stop_remaining", "host_poweroff_requested">> \in Closing
        /\ Head(<<"graceful_shutdown", "emergency_stop_remaining",
                  "host_poweroff_requested">>) = "graceful_shutdown"
    BY DEF Closing
  <2> HIDE DEF o, b, out
  <2> QED BY <1>1, <1>2, <1>3, <2>1, <2>2, <2>3, <2>4, <2>5 DEF out
<1>4. CASE s.state = "SHUTTING_DOWN"
  <2>1. \/ /\ out.status = s /\ out.actions = <<>>
        \/ /\ out.status = RequestPoweroff(s)
           /\ out.actions = <<"host_poweroff_requested">>
        \/ /\ out.status = [RequestPoweroff(s) EXCEPT !.emergencyIssued = TRUE]
           /\ out.actions = <<"emergency_stop_remaining", "host_poweroff_requested">>
    BY <1>4, ShuttingDownOutcomes
  <2>2. /\ RequestPoweroff(s).state = "POWERED_OFF"
        /\ [RequestPoweroff(s) EXCEPT !.emergencyIssued = TRUE].state = "POWERED_OFF"
    BY <1>4, PoweroffCoherent DEF Coherent
  <2>3. /\ <<"host_poweroff_requested">> \in Closing
        /\ Head(<<"host_poweroff_requested">>) # "graceful_shutdown"
        /\ <<"emergency_stop_remaining", "host_poweroff_requested">> \in Closing
        /\ Head(<<"emergency_stop_remaining", "host_poweroff_requested">>) # "graceful_shutdown"
    BY DEF Closing
  <2> HIDE DEF out
  <2> QED BY <1>1, <1>2, <1>4, <2>1, <2>2, <2>3 DEF out, Watched
<1>5. CASE s.state = "POWERED_OFF"
  <2>1. out = [status |-> s, actions |-> <<>>]
    BY <1>5, PoweredOffOutcome
  <2> HIDE DEF out
  <2> QED BY <1>1, <2>1 DEF out
<1> QED BY <1>3, <1>4, <1>5 DEF Coherent, EngineStatus, EngineState, Watched

-----------------------------------------------------------------------------
(* Steps that leave the engine, the file and the clock alone.              *)

Quiet ==
  /\ now' = now /\ boot' = boot /\ file' = file
  /\ revision' = revision /\ origin' = origin /\ status' = status /\ lastAt' = lastAt
  /\ evidence' = evidence /\ anchor' = anchor

(* ... and the process and the host where they are.                        *)
Steady == Quiet /\ pc' = pc /\ todo' = todo /\ host' = host /\ stopAlls' = stopAlls

(* The file and the engine stay what they were.                            *)
LEMMA QuietParts ==
  ASSUME IInv, Quiet
  PROVE  /\ Files' /\ Timers'
         /\ SavedShutdown' = SavedShutdown
         /\ Restorable(file', boot') = Restorable(file, boot)
<1>1. Files'
  BY DEF IInv, Types, Files, Quiet
<1>2. Timers'
  BY DEF IInv, Timers, Quiet
<1>3. SavedShutdown' = SavedShutdown
  BY DEF SavedShutdown, Quiet
<1> QED BY <1>1, <1>2, <1>3 DEF Quiet

(* Nothing else the invariant relates is disturbed.                        *)
LEMMA SteadyParts ==
  ASSUME IInv, Steady
  PROVE  /\ Files' /\ Recorded' /\ Commanded' /\ Places' /\ Timers' /\ Justified'
         /\ Asked' /\ Final' /\ Anchored'
<1>1. Files' /\ Timers' /\ SavedShutdown' = SavedShutdown
      /\ Restorable(file', boot') = Restorable(file, boot)
  BY QuietParts DEF Steady
<1>2. Recorded'
  BY DEF IInv, Types, Recorded, Steady, Quiet
<1>3. Commanded' /\ Places'
  BY DEF IInv, Commanded, Places, Steady, Quiet
<1>4. Justified'
  BY DEF IInv, Justified, Begins, Steady, Quiet, Detection
<1>5. Asked' /\ Final'
  BY <1>1 DEF IInv, Asked, Final, Begins, Steady, Quiet
<1>6. Anchored'
  BY <1>1 DEF IInv, Anchored, Steady, Quiet
<1> QED BY <1>1, <1>2, <1>3, <1>4, <1>5, <1>6

(* A disturbance that may happen keeps the counts.                         *)
LEMMA HappensCounts ==
  ASSUME IInv, NEW d \in Disturbance, Happens(d)
  PROVE  /\ count' \in [Disturbance -> Nat]
         /\ \A e \in Disturbance : count'[e] <= Limits[e]
<1>1. /\ count \in [Disturbance -> Nat]
      /\ \A e \in Disturbance : count[e] <= Limits[e]
      /\ count[d] < Limits[d]
      /\ count' = [count EXCEPT ![d] = count[d] + 1]
  BY DEF IInv, Types, Clocks, Happens, May
<1>2. count[d] \in Nat /\ Limits[d] \in Nat
  BY <1>1, BoundsAssumption
<1>3. ASSUME NEW e \in Disturbance
      PROVE  count'[e] = IF e = d THEN count[d] + 1 ELSE count[e]
  BY <1>1
<1> QED BY <1>1, <1>2, <1>3

(* Every configuration that is in force passed Validate.                   *)
LEMMA ValidRevision ==
  ASSUME NEW r \in Revisions
  PROVE  Settings[r].detection \in Config /\ Validate(Settings[r].detection)
<1> DEFINE S == [detection : Config, interval : Nat \ {0}, guestTimeout : Nat \ {0}]
<1>1. Settings \in Seq(S) /\ r \in 1..Len(Settings)
  BY SettingsAssumption DEF Revisions
<1> HIDE DEF S
<1>2. Settings[r] \in S
  BY <1>1
<1> USE DEF S
<1>3. Settings[r].detection \in Config
  BY <1>2
<1> QED BY <1>3, SettingsAssumption

(* A forced stop, done or failed, leaves one target less.                  *)
LEMMA ForceStopInv ==
  ASSUME IInv, NEW g \in Guests, ForceStop(g) \/ ForceStopFails(g)
  PROVE  IInv'
<1>1. /\ Steady /\ pc = "force"
      /\ running' \in {running, running \ {g}} /\ targets' = targets \ {g}
      /\ lostAt' = lostAt /\ asked' = asked /\ stored' = stored
      /\ guestRevision' = guestRevision
  BY DEF ForceStop, ForceStopFails, Steady, Quiet, environment, settings, engine, history
<1>2. /\ count' \in [Disturbance -> Nat]
      /\ \A e \in Disturbance : count'[e] <= Limits[e]
  <2>1. CASE ForceStop(g)
    BY <2>1 DEF ForceStop, IInv, Types, Clocks
  <2>2. CASE ForceStopFails(g)
    BY <2>2, HappensCounts DEF ForceStopFails, Disturbance
  <2> QED BY <2>1, <2>2
<1>3. Clocks'
  BY <1>1, <1>2 DEF IInv, Types, Clocks, Steady, Quiet
<1>4. Spared'
  BY <1>1 DEF Spared, Steady, Quiet
<1> QED BY <1>1, <1>3, <1>4, SteadyParts DEF IInv, Types

(* The mains come and go, and the console stores its configurations.       *)
LEMMA OutsideInv ==
  ASSUME IInv, Mains \/ SaveConfig
  PROVE  IInv'
<1>1. /\ Steady
      /\ running' = running /\ asked' = asked /\ targets' = targets
      /\ guestRevision' = guestRevision
  BY DEF Mains, SaveConfig, Steady, Quiet, settings, engine, command, history
<1>2. /\ lostAt' \in {NoTime} \cup 0..LastChange /\ stored' \in Revisions
      /\ count' \in [Disturbance -> Nat]
      /\ \A e \in Disturbance : count'[e] <= Limits[e]
  <2>1. CASE Mains
    <3>1. /\ count' \in [Disturbance -> Nat]
          /\ \A e \in Disturbance : count'[e] <= Limits[e]
      BY <2>1, HappensCounts DEF Mains, Disturbance
    <3> QED BY <2>1, <3>1, BoundsAssumption DEF Mains, IInv, Types, Clocks
  <2>2. CASE SaveConfig
    <3>1. Len(Settings) \in Nat
      BY SettingsAssumption
    <3> QED BY <2>2, <3>1 DEF SaveConfig, IInv, Types, Clocks, Revisions
  <2> QED BY <2>1, <2>2
<1>3. Clocks'
  BY <1>1, <1>2 DEF IInv, Types, Clocks, Steady, Quiet
<1>4. Spared'
  BY <1>1 DEF IInv, Spared, Steady, Quiet
<1> QED BY <1>1, <1>3, <1>4, SteadyParts DEF IInv, Types

(* Guests stop when asked, and are started by an operator.                 *)
LEMMA GuestsInv ==
  ASSUME IInv, NEW g \in Guests, GuestStops(g) \/ OperatorStarts(g)
  PROVE  IInv'
<1>1. /\ Steady
      /\ lostAt' = lostAt /\ stored' = stored /\ targets' = targets
      /\ guestRevision' = guestRevision
      /\ \/ running' = running \ {g} /\ asked' = asked
         \/ running' = running \cup {g} /\ asked' = asked \ {g}
  BY DEF GuestStops, OperatorStarts, Steady, Quiet, settings, engine, command, history
<1>2. /\ count' \in [Disturbance -> Nat]
      /\ \A e \in Disturbance : count'[e] <= Limits[e]
  <2>1. CASE GuestStops(g)
    BY <2>1 DEF GuestStops, IInv, Types, Clocks
  <2>2. CASE OperatorStarts(g)
    BY <2>2, HappensCounts DEF OperatorStarts, Disturbance
  <2> QED BY <2>1, <2>2
<1>3. Clocks'
  BY <1>1, <1>2 DEF IInv, Types, Clocks, Steady, Quiet
<1>4. Spared'
  BY <1>1 DEF IInv, Spared, Steady, Quiet
<1> QED BY <1>1, <1>3, <1>4, SteadyParts DEF IInv, Types

(* A step of the commands: what follows when it leaves the head of what is *)
(* to do, or drops it.                                                     *)
LEMMA CommandParts ==
  ASSUME IInv, Quiet, pc \in Commanding,
         \/ todo' = todo /\ pc' \in {"stopall", "force", "poweroff"} /\ host' = host
         \/ /\ pc # "act" /\ Finished
            /\ host' = IF pc = "poweroff" THEN "stopping" ELSE host,
         stopAlls' \in Nat, stopAlls' >= stopAlls, Begins => stopAlls' > 0
  PROVE  /\ Files' /\ Recorded' /\ Places' /\ Timers' /\ Justified' /\ Asked' /\ Final'
         /\ Anchored'
         /\ pc' \in Commanding \cup {"save"} /\ todo' \in ToDos
         /\ pc' \in Commanding <=> todo' # <<>>
         /\ todo' # <<>> => \/ status'.state = "SHUTTING_DOWN" /\ todo' = <<"graceful_shutdown">>
                            \/ status'.state = "POWERED_OFF" /\ todo' \in Closing
<1>1. /\ Files' /\ Timers' /\ SavedShutdown' = SavedShutdown
      /\ Restorable(file', boot') = Restorable(file, boot)
  BY QuietParts
<1>2. /\ todo \in ToDos /\ todo # <<>>
      /\ \/ status.state = "SHUTTING_DOWN" /\ todo = <<"graceful_shutdown">>
         \/ status.state = "POWERED_OFF" /\ todo \in Closing
  BY DEF IInv, Types, Clocks, Commanded
<1>3. /\ Tail(todo) \in ToDos
      /\ Tail(todo) # <<>> => Tail(todo) \in Closing /\ Head(Tail(todo)) # "graceful_shutdown"
      /\ Tail(todo) = <<>> <=> todo = <<"graceful_shutdown">> \/ Head(todo) = "host_poweroff_requested"
  BY <1>2, CommandsLeft
<1>4. /\ todo' \in ToDos
      /\ pc' \in Commanding \cup {"save"}
      /\ pc' \in Commanding <=> todo' # <<>>
  BY <1>2, <1>3 DEF Finished, Commanding
<1>5. todo' # <<>> => \/ status'.state = "SHUTTING_DOWN" /\ todo' = <<"graceful_shutdown">>
                      \/ status'.state = "POWERED_OFF" /\ todo' \in Closing
  <2>1. CASE todo' = todo
    BY <1>2, <2>1 DEF Quiet
  <2>2. CASE todo' = Tail(todo)
    <3>1. todo' # <<>> => todo # <<"graceful_shutdown">>
      BY <1>3, <2>2
    <3> QED BY <1>2, <1>3, <2>2, <3>1 DEF Quiet
  <2> QED BY <2>1, <2>2 DEF Finished
<1>6. ~Begins' /\ Justified'
  BY <1>2, <1>3 DEF Justified, Begins, Finished
<1>7. Recorded'
  BY DEF IInv, Types, Recorded, Quiet
<1>8. Places'
  BY <1>4 DEF IInv, Places, Commanding, Quiet
<1>9. status.state \notin Watched /\ stopAlls' > 0
  BY <1>2 DEF IInv, Types, Recorded, Asked, Watched
<1>10. Asked'
  BY <1>9 DEF Asked
<1>11. pc' = "save" => status.state # "POWERED_OFF" \/ host' # "up"
  <2> SUFFICES ASSUME pc' = "save", status.state = "POWERED_OFF" PROVE host' # "up"
    OBVIOUS
  <2>1. Tail(todo) = <<>> /\ todo # <<"graceful_shutdown">>
    <3>1. pc' = "save" => todo' = <<>>
      BY <1>4 DEF Commanding
    <3>2. todo' = Tail(todo) => Tail(todo) = <<>>
      BY <3>1
    <3>3. todo \in Closing
      BY <1>2
    <3>4. <<"graceful_shutdown">> \notin Closing
      BY DEF Closing
    <3>5. todo' = Tail(todo) \/ todo' = todo
      BY DEF Finished
    <3> QED BY <1>2, <3>1, <3>2, <3>3, <3>4, <3>5
  <2>2. Head(todo) = "host_poweroff_requested" /\ pc # "act"
    BY <1>3, <2>1 DEF Finished
  <2>3. pc = "poweroff"
    BY <2>2 DEF IInv, Commanded, Commanding
  <2> QED BY <2>2, <2>3
<1>12. Final'
  BY <1>4, <1>9, <1>11 DEF Final, Commanding, Quiet
<1>13. Anchored'
  <2>1. pc' \notin {"loop", "wait"}
    BY <1>4 DEF Commanding
  <2>2. host' = "up" => host = "up"
    OBVIOUS
  <2> QED BY <1>1, <2>1, <2>2 DEF IInv, Anchored, Quiet
<1> QED BY <1>1, <1>4, <1>5, <1>6, <1>7, <1>8, <1>10, <1>12, <1>13

(* stopall begins: the guests are asked.                                   *)
LEMMA BeginStopAllInv ==
  ASSUME IInv, BeginStopAll
  PROVE  IInv'
<1>1. /\ Quiet /\ pc = "act" /\ pc' = "stopall" /\ todo' = todo /\ host' = host
      /\ Head(todo) = "graceful_shutdown" /\ stopAlls' = stopAlls + 1
      /\ asked' = asked \cup running /\ running' = running /\ lostAt' = lostAt
      /\ stored' = stored /\ guestRevision' = guestRevision /\ targets' = targets
      /\ count' = count
  BY DEF BeginStopAll, Quiet, settings, engine, command
<1>2. stopAlls' \in Nat /\ stopAlls' >= stopAlls /\ stopAlls' > 0
  BY <1>1 DEF IInv, Types, Recorded
<1>3. /\ Files' /\ Recorded' /\ Places' /\ Timers' /\ Justified' /\ Asked' /\ Final' /\ Anchored'
      /\ pc' \in Commanding <=> todo' # <<>>
      /\ todo' # <<>> => \/ status'.state = "SHUTTING_DOWN" /\ todo' = <<"graceful_shutdown">>
                         \/ status'.state = "POWERED_OFF" /\ todo' \in Closing
  BY <1>1, <1>2, CommandParts DEF Commanding
<1>4. Clocks'
  BY <1>1 DEF IInv, Types, Clocks, Quiet
<1>5. Commanded' /\ Spared'
  BY <1>1, <1>3 DEF Commanded, Spared
<1> QED BY <1>3, <1>4, <1>5 DEF IInv, Types

(* The forced stops begin.                                                 *)
LEMMA BeginForceInv ==
  ASSUME IInv, BeginForce
  PROVE  IInv'
<1>1. /\ Quiet /\ pc = "act" /\ pc' = "force" /\ todo' = todo /\ host' = host
      /\ Head(todo) = "emergency_stop_remaining" /\ stopAlls' = stopAlls
      /\ asked' = asked /\ running' = running /\ lostAt' = lostAt
      /\ stored' = stored /\ guestRevision' = guestRevision /\ targets' = running
      /\ count' = count
  BY DEF BeginForce, Quiet, environment, settings, engine, history
<1>2. stopAlls' \in Nat /\ stopAlls' >= stopAlls /\ ~Begins
  BY <1>1 DEF IInv, Types, Recorded, Begins
<1>3. /\ Files' /\ Recorded' /\ Places' /\ Timers' /\ Justified' /\ Asked' /\ Final' /\ Anchored'
      /\ pc' \in Commanding <=> todo' # <<>>
      /\ todo' # <<>> => \/ status'.state = "SHUTTING_DOWN" /\ todo' = <<"graceful_shutdown">>
                         \/ status'.state = "POWERED_OFF" /\ todo' \in Closing
  BY <1>1, <1>2, CommandParts DEF Commanding
<1>4. Clocks'
  BY <1>1 DEF IInv, Types, Clocks, Quiet
<1>5. Commanded' /\ Spared'
  BY <1>1, <1>3 DEF Commanded, Spared
<1> QED BY <1>3, <1>4, <1>5 DEF IInv, Types

(* The poweroff begins with no guest running.                              *)
LEMMA CheckPoweroffInv ==
  ASSUME IInv, CheckPoweroff
  PROVE  IInv'
<1>1. /\ Quiet /\ pc = "act" /\ pc' = "poweroff" /\ todo' = todo /\ host' = host
      /\ Head(todo) = "host_poweroff_requested" /\ stopAlls' = stopAlls
      /\ asked' = asked /\ running' = running /\ running = {} /\ lostAt' = lostAt
      /\ stored' = stored /\ guestRevision' = guestRevision /\ targets' = targets
      /\ count' = count
  BY DEF CheckPoweroff, Quiet, environment, settings, engine, command, history
<1>2. stopAlls' \in Nat /\ stopAlls' >= stopAlls /\ ~Begins
  BY <1>1 DEF IInv, Types, Recorded, Begins
<1>3. /\ Files' /\ Recorded' /\ Places' /\ Timers' /\ Justified' /\ Asked' /\ Final' /\ Anchored'
      /\ pc' \in Commanding <=> todo' # <<>>
      /\ todo' # <<>> => \/ status'.state = "SHUTTING_DOWN" /\ todo' = <<"graceful_shutdown">>
                         \/ status'.state = "POWERED_OFF" /\ todo' \in Closing
  BY <1>1, <1>2, CommandParts DEF Commanding
<1>4. Clocks'
  BY <1>1 DEF IInv, Types, Clocks, Quiet
<1>5. Commanded' /\ Spared'
  BY <1>1, <1>3 DEF Commanded, Spared
<1> QED BY <1>3, <1>4, <1>5 DEF IInv, Types

(* A command ends, and the process goes on to the next.                    *)
LEMMA FinishedInv ==
  ASSUME IInv, EndStopAll \/ EndForce \/ PoweroffAccepted
  PROVE  IInv'
<1>1. /\ Quiet /\ pc \in {"stopall", "force", "poweroff"} /\ Finished
      /\ host' = IF pc = "poweroff" THEN "stopping" ELSE host
      /\ stopAlls' = stopAlls
      /\ asked' = asked /\ running' = running /\ lostAt' = lostAt
      /\ stored' = stored /\ guestRevision' = guestRevision /\ targets' = targets
      /\ count' = count
  BY DEF EndStopAll, EndForce, PoweroffAccepted, Quiet, environment, settings, engine, history
<1>2. stopAlls' \in Nat /\ stopAlls' >= stopAlls /\ ~Begins
  BY <1>1 DEF IInv, Types, Recorded, Begins
<1>3. /\ Files' /\ Recorded' /\ Places' /\ Timers' /\ Justified' /\ Asked' /\ Final' /\ Anchored'
      /\ pc' \in Commanding \cup {"save"} /\ todo' \in ToDos
      /\ pc' \in Commanding <=> todo' # <<>>
      /\ todo' # <<>> => \/ status'.state = "SHUTTING_DOWN" /\ todo' = <<"graceful_shutdown">>
                         \/ status'.state = "POWERED_OFF" /\ todo' \in Closing
  BY <1>1, <1>2, CommandParts DEF Commanding
<1>4. Clocks'
  BY <1>1, <1>3 DEF IInv, Types, Clocks, Quiet, Commanding
<1>5. pc' \in {"act", "save"}
  BY <1>1 DEF Finished
<1>6. Commanded' /\ Spared'
  BY <1>3, <1>5 DEF Commanded, Spared
<1> QED BY <1>3, <1>4, <1>6 DEF IInv, Types

(* The next iteration begins where the last one ended.                     *)
LEMMA WakeInv ==
  ASSUME IInv, Wake
  PROVE  IInv'
<1>1. /\ Quiet /\ pc = "wait" /\ pc' = "loop" /\ todo' = todo /\ host' = host
      /\ stopAlls' = stopAlls
      /\ asked' = asked /\ running' = running /\ lostAt' = lostAt
      /\ stored' = stored /\ guestRevision' = guestRevision /\ targets' = targets
      /\ count' = count
  BY DEF Wake, Quiet, environment, settings, engine, command, history
<1>2. /\ Files' /\ Timers' /\ SavedShutdown' = SavedShutdown
      /\ Restorable(file', boot') = Restorable(file, boot)
  BY <1>1, QuietParts
<1>3. Clocks' /\ Recorded'
  BY <1>1 DEF IInv, Types, Clocks, Recorded, Quiet
<1>4. Commanded' /\ Places' /\ Spared'
  BY <1>1 DEF IInv, Commanded, Places, Spared, Commanding, Quiet
<1>5. Justified'
  BY <1>1 DEF Justified, Begins
<1>6. Asked' /\ Final'
  BY <1>1, <1>2 DEF IInv, Asked, Final, Begins, Quiet
<1>7. Anchored'
  BY <1>1, <1>2 DEF IInv, Anchored, Quiet
<1> QED BY <1>2, <1>3, <1>4, <1>5, <1>6, <1>7 DEF IInv, Types

(* What was past at time t is past at t + 1.                               *)
LEMMA PastGrows ==
  ASSUME NEW t \in Nat, NEW b \in Nat
  PROVE  /\ PastTime(t) \subseteq PastTime(t + 1)
         /\ Saved(t, b) \subseteq Saved(t + 1, b)
         /\ Saved(t, b) \subseteq Saved(t, b + 1)
<1>1. /\ PastTime(t) \subseteq PastTime(t + 1)
      /\ 0..t \subseteq 0..t + 1 /\ 0..b \subseteq 0..b + 1
  BY DEF PastTime
<1> QED BY <1>1 DEF Saved

(* The clock moves on.                                                     *)
LEMMA TickInv ==
  ASSUME IInv, Tick
  PROVE  IInv'
<1>1. /\ now < MaxTime /\ now' = now + 1 /\ pc # "act"
      /\ boot' = boot /\ file' = file
      /\ revision' = revision /\ origin' = origin /\ status' = status /\ lastAt' = lastAt
      /\ evidence' = evidence /\ anchor' = anchor
      /\ pc' = pc /\ todo' = todo /\ host' = host /\ stopAlls' = stopAlls
      /\ asked' = asked /\ running' = running /\ lostAt' = lostAt
      /\ stored' = stored /\ guestRevision' = guestRevision /\ targets' = targets
      /\ count' = count
  BY DEF Tick, Idle, environment, settings, engine, command, history
<1>2. now \in Nat /\ MaxTime \in Nat /\ boot \in Nat
  BY BoundsAssumption DEF IInv, Types, Clocks
<1>3. /\ PastTime(now) \subseteq PastTime(now + 1)
      /\ Saved(now, boot) \subseteq Saved(now + 1, boot)
  BY <1>2, PastGrows
<1>4. Clocks'
  BY <1>1, <1>2, <1>3 DEF IInv, Types, Clocks
<1>5. Files' /\ Recorded'
  BY <1>1, <1>3 DEF IInv, Types, Files, Recorded
<1>6. SavedShutdown' = SavedShutdown /\ Restorable(file', boot') = Restorable(file, boot)
  BY <1>1 DEF SavedShutdown
<1>7. Commanded' /\ Places' /\ Timers' /\ Spared'
  BY <1>1 DEF IInv, Commanded, Places, Timers, Spared
<1>8. Justified'
  BY <1>1 DEF Justified, Begins
<1>9. Asked' /\ Final'
  BY <1>1, <1>6 DEF IInv, Asked, Final, Begins
<1>10. Anchored'
  BY <1>1, <1>6 DEF IInv, Anchored
<1> QED BY <1>4, <1>5, <1>7, <1>8, <1>9, <1>10 DEF IInv, Types

-----------------------------------------------------------------------------
(* Steps that end the process.                                             *)

(* What holds of a process that does not run, whatever its host does.      *)
LEMMA ForgetParts ==
  ASSUME IInv, Forget, now' = now, boot' = boot, file' = file, anchor' = anchor,
         stopAlls' = stopAlls, host' \in {host, "off"},
         evidence' \in [kept : PastTime(now), now : PastTime(now)],
         evidence'.kept = evidence.kept,
         host' = "up" => evidence'.now = evidence.kept
  PROVE  /\ Files' /\ Recorded' /\ Commanded' /\ Places' /\ Timers' /\ Justified'
         /\ Asked' /\ Final' /\ Anchored' /\ Spared'
<1>1. /\ pc' = "down" /\ status' = NewStatus /\ todo' = <<>> /\ origin' = 0
      /\ NewStatus.state = "NORMAL" /\ NewStatus.outageStartedAt = NoTime
  BY DEF Forget, NewStatus
<1>2. SavedShutdown' = SavedShutdown
  BY DEF SavedShutdown
<1>3. Files' /\ Recorded'
  BY DEF IInv, Types, Files, Recorded
<1>4. Commanded' /\ Places'
  BY <1>1 DEF Commanded, Places, Commanding
<1>5. Timers'
  BY <1>1, NewBacked DEF IInv, Timers
<1>6. Justified' /\ Spared'
  BY <1>1 DEF Justified, Begins, Spared
<1>7. host' \in {"up", "stopping"} => host' = host
  OBVIOUS
<1>8. Asked' /\ Final'
  BY <1>1, <1>2, <1>7 DEF IInv, Asked, Final, Watched
<1>9. Anchored'
  BY <1>1, <1>7 DEF IInv, Anchored
<1> QED BY <1>3, <1>4, <1>5, <1>6, <1>8, <1>9

(* The end of the process loses what it had not saved.                     *)
LEMMA DieInv ==
  ASSUME IInv, Die, count' \in [Disturbance -> Nat], \A d \in Disturbance : count'[d] <= Limits[d]
  PROVE  IInv'
<1>1. /\ Forget /\ now' = now /\ boot' = boot /\ file' = file /\ anchor' = anchor
      /\ stopAlls' = stopAlls /\ host' = host /\ lostAt' = lostAt
      /\ running' = running /\ asked' = asked /\ stored' = stored
      /\ evidence' = [evidence EXCEPT !.now = evidence.kept]
  BY DEF Die, environment
<1>2. /\ evidence' \in [kept : PastTime(now), now : PastTime(now)]
      /\ evidence'.now = evidence.kept /\ evidence'.kept = evidence.kept
  BY <1>1 DEF IInv, Types, Recorded
<1>3. /\ Files' /\ Recorded' /\ Commanded' /\ Places' /\ Timers' /\ Justified'
      /\ Asked' /\ Final' /\ Anchored' /\ Spared'
  BY <1>1, <1>2, ForgetParts
<1>4. 1 \in Revisions
  BY DEF IInv, Types, Clocks, Revisions
<1>5. Clocks'
  BY <1>1, <1>4, NewCoherent DEF IInv, Types, Clocks, Forget, PastTime, ToDos
<1> QED BY <1>3, <1>5 DEF IInv, Types

(* The host goes down, as asked or with the UPS.                           *)
LEMMA HostStopsInv ==
  ASSUME IInv, HostStops
  PROVE  IInv'
<1>1. /\ Forget /\ now' = now /\ boot' = boot /\ file' = file /\ anchor' = anchor
      /\ stopAlls' = stopAlls /\ host' = "off" /\ lostAt' = lostAt
      /\ running' = {} /\ asked' = {} /\ stored' = stored
      /\ evidence' = evidence /\ count' = count
  BY DEF HostStops, history
<1>2. evidence' \in [kept : PastTime(now), now : PastTime(now)]
  BY <1>1 DEF IInv, Types, Recorded
<1>3. /\ Files' /\ Recorded' /\ Commanded' /\ Places' /\ Timers' /\ Justified'
      /\ Asked' /\ Final' /\ Anchored' /\ Spared'
  BY <1>1, <1>2, ForgetParts
<1>4. 1 \in Revisions
  BY DEF IInv, Types, Clocks, Revisions
<1>5. Clocks'
  BY <1>1, <1>4, NewCoherent DEF IInv, Types, Clocks, Forget, PastTime, ToDos
<1> QED BY <1>3, <1>5 DEF IInv, Types

(* A boot leaves nothing in the file that is of it.                        *)
LEMMA HostBootsInv ==
  ASSUME IInv, HostBoots
  PROVE  IInv'
<1>1. /\ host = "off" /\ host' = "up" /\ boot' = boot + 1
      /\ now' = now /\ lostAt' = lostAt /\ running' = Guests /\ asked' = asked
      /\ stored' = stored /\ file' = file
      /\ pc' = pc /\ revision' = revision /\ guestRevision' = guestRevision
      /\ origin' = origin /\ status' = status /\ lastAt' = lastAt
      /\ todo' = todo /\ targets' = targets
      /\ stopAlls' = 0 /\ evidence' = [kept |-> NoTime, now |-> NoTime] /\ anchor' = NoTime
  BY DEF HostBoots, settings, engine, command
<1>2. /\ count' \in [Disturbance -> Nat]
      /\ \A e \in Disturbance : count'[e] <= Limits[e]
  BY HappensCounts DEF HostBoots, Disturbance
<1>3. now \in Nat /\ boot \in Nat
  BY BoundsAssumption DEF IInv, Types, Clocks
<1>4. Clocks'
  BY <1>1, <1>2, <1>3 DEF IInv, Types, Clocks
<1>5. Files'
  BY <1>1, <1>3, PastGrows DEF IInv, Types, Files
<1>6. Recorded'
  BY <1>1 DEF Recorded, PastTime
<1>7. /\ pc = "down" /\ status = NewStatus
      /\ NewStatus.state = "NORMAL" /\ NewStatus.outageStartedAt = NoTime
  BY <1>1 DEF IInv, Places, NewStatus
<1>8. \A s \in file : s.boot # boot + 1
  BY <1>3 DEF IInv, Types, Files, Saved
<1>9. SavedShutdown' = {} /\ Restorable(file', boot') = {}
  BY <1>1, <1>8 DEF SavedShutdown, Restorable
<1>10. Commanded' /\ Places' /\ Justified' /\ Spared'
  BY <1>1, <1>7 DEF IInv, Commanded, Places, Justified, Begins, Spared
<1>11. Timers'
  BY <1>1, <1>7, <1>8, NewBacked DEF Timers
<1>12. Asked' /\ Final'
  BY <1>1, <1>7, <1>9 DEF Asked, Final, Watched
<1>13. Anchored'
  BY <1>1, <1>7, <1>9 DEF Anchored
<1> QED BY <1>4, <1>5, <1>6, <1>10, <1>11, <1>12, <1>13 DEF IInv, Types

-----------------------------------------------------------------------------
(* Steps of the engine and of its file.                                    *)

(* Starting takes up the outage in the file, or a new engine.              *)
LEMMA StartInv ==
  ASSUME IInv, Start
  PROVE  IInv'
<1>1. /\ pc = "down" /\ host = "up" /\ pc' = "loop"
      /\ file' = Restorable(file, boot)
      /\ \/ \E s \in file' : Resume(s)
         \/ /\ file' = NoFile /\ revision' = stored
            /\ origin' = now /\ status' = NewStatus /\ lastAt' = NoTime
      /\ guestRevision' = stored
      /\ now' = now /\ boot' = boot /\ host' = host /\ lostAt' = lostAt
      /\ running' = running /\ asked' = asked /\ stored' = stored
      /\ todo' = todo /\ targets' = targets /\ count' = count
      /\ stopAlls' = stopAlls /\ evidence' = evidence /\ anchor' = anchor
  BY DEF Start, environment, command, history
<1>2. \A s \in file' : /\ s \in file /\ s.boot = boot
                       /\ s.status.state \in {"CONFIRMING_OUTAGE", "SHUTTING_DOWN"}
  BY <1>1 DEF Restorable
<1>3. Restorable(file', boot') = Restorable(file, boot)
  BY <1>1 DEF Restorable
<1>4. \A s \in SavedShutdown' : s \in SavedShutdown /\ s \in file'
  BY <1>1, <1>2 DEF SavedShutdown
<1>5. Files' /\ Recorded'
  BY <1>1, <1>2 DEF IInv, Types, Files, Recorded
<1>6. \A s \in file' : /\ s.origin \in 0..now /\ Coherent(s.status) /\ s.lastAt \in PastTime(now)
                       /\ s.revision \in Revisions
                       /\ Backed(s.origin, s.status, evidence.kept)
                       /\ anchor = BeganAt(s.origin, s.status)
  BY <1>1, <1>2 DEF IInv, Types, Files, Saved, Timers, Anchored
<1>7. /\ todo = <<>> /\ evidence.now = evidence.kept
  BY <1>1 DEF IInv, Commanded, Commanding, Places
<1>8. /\ origin' \in 0..now /\ Coherent(status') /\ lastAt' \in PastTime(now)
      /\ revision' \in Revisions
      /\ Backed(origin', status', evidence.kept)
      /\ anchor = BeganAt(origin', status')
      /\ status'.state # "POWERED_OFF"
      /\ status'.state \notin Watched => SavedShutdown # {}
      /\ SavedShutdown' # {} => status'.state \notin Watched
  <2>1. ASSUME NEW s \in file', Resume(s)
        PROVE  /\ status'.state \notin Watched => SavedShutdown # {}
               /\ SavedShutdown' # {} => status'.state \notin Watched
    <3>1. status' = s.status
      BY <2>1 DEF Resume
    <3>2. \A r \in file' : r = s
      BY <1>5 DEF Files
    <3>3. status'.state \notin Watched => s \in SavedShutdown
      BY <1>2, <3>1 DEF SavedShutdown, Watched
    <3>4. SavedShutdown' # {} => s \in SavedShutdown
      BY <1>4, <3>2
    <3> QED BY <3>1, <3>3, <3>4 DEF SavedShutdown, Watched
  <2>2. CASE \E s \in file' : Resume(s)
    BY <1>2, <1>6, <2>1, <2>2 DEF Resume
  <2>3. CASE /\ file' = NoFile /\ revision' = stored
             /\ origin' = now /\ status' = NewStatus /\ lastAt' = NoTime
    <3>1. Restorable(file, boot) = {} /\ SavedShutdown' = {}
      BY <1>1, <1>4, <2>3 DEF NoFile
    <3>2. anchor = NoTime
      BY <1>1, <3>1 DEF IInv, Anchored
    <3>3. NewStatus.state = "NORMAL" /\ NewStatus.outageStartedAt = NoTime
      BY DEF NewStatus
    <3>4. now \in Nat /\ stored \in Revisions
      BY BoundsAssumption DEF IInv, Types, Clocks
    <3> QED BY <2>3, <3>1, <3>2, <3>3, <3>4, NewCoherent, NewBacked
            DEF BeganAt, PastTime, Watched
  <2> QED BY <1>1, <2>2, <2>3
<1>9. Clocks'
  BY <1>1, <1>8 DEF IInv, Types, Clocks
<1>10. Commanded' /\ Places' /\ Justified' /\ Spared'
  BY <1>1, <1>7 DEF Commanded, Commanding, Places, Justified, Begins, Spared
<1>11. Timers'
  BY <1>1, <1>6, <1>7, <1>8 DEF Timers
<1>12. Asked' /\ Final'
  BY <1>1, <1>4, <1>8 DEF IInv, Asked, Final, Begins
<1>13. Anchored'
  BY <1>1, <1>3, <1>8 DEF IInv, Anchored
<1> QED BY <1>5, <1>9, <1>10, <1>11, <1>12, <1>13 DEF IInv, Types

(* The save makes the evidence kept that of the engine saved.              *)
LEMMA PersistInv ==
  ASSUME IInv, Persist
  PROVE  IInv'
<1>1. /\ pc = "save" /\ pc' = "wait"
      /\ file' = Save(boot, origin, revision, status, lastAt)
      /\ evidence' = [evidence EXCEPT !.kept = evidence.now]
      /\ anchor' = BeganAt(origin, status)
      /\ now' = now /\ boot' = boot /\ host' = host /\ lostAt' = lostAt
      /\ running' = running /\ asked' = asked /\ stored' = stored
      /\ revision' = revision /\ guestRevision' = guestRevision
      /\ origin' = origin /\ status' = status /\ lastAt' = lastAt
      /\ todo' = todo /\ targets' = targets /\ count' = count
      /\ stopAlls' = stopAlls
  BY DEF Persist, environment, settings, engine, command, BeganAt
<1> DEFINE s == [boot |-> boot, origin |-> origin, revision |-> revision,
                 status |-> status, lastAt |-> lastAt]
<1>2. s \in Saved(now, boot)
  BY DEF IInv, Types, Clocks, Saved, Coherent
<1>3. \/ file' = NoFile /\ status.state \in {"NORMAL", "POWERED_OFF"}
      \/ file' = {s} /\ status.state \in {"CONFIRMING_OUTAGE", "SHUTTING_DOWN"}
  BY <1>1 DEF Save, IInv, Types, Clocks, Coherent, EngineStatus, EngineState
<1>4. s.boot = boot /\ s.origin = origin /\ s.status = status
  OBVIOUS
<1> HIDE DEF s
<1>5. Files'
  BY <1>1, <1>2, <1>3 DEF Files, NoFile
<1>6. /\ evidence' \in [kept : PastTime(now), now : PastTime(now)]
      /\ evidence'.kept = evidence.now
      /\ evidence'.now = evidence.now
  BY <1>1 DEF IInv, Types, Recorded
<1>7. Recorded'
  BY <1>1, <1>6 DEF IInv, Types, Recorded
<1>8. Clocks'
  BY <1>1 DEF IInv, Types, Clocks
<1>9. Commanded' /\ Places' /\ Justified' /\ Spared'
  BY <1>1 DEF IInv, Commanded, Commanding, Places, Justified, Begins, Spared
<1>10. Timers'
  BY <1>1, <1>3, <1>4, <1>6 DEF IInv, Timers, NoFile
<1>11. SavedShutdown' # {} => status.state = "SHUTTING_DOWN"
  BY <1>1, <1>3, <1>4 DEF SavedShutdown, NoFile
<1>12. Asked' /\ Final'
  BY <1>1, <1>11 DEF IInv, Asked, Final, Begins, Watched
<1>13. host = "up" /\ Restorable(file', boot') = {} => anchor' = NoTime
  <2> SUFFICES ASSUME host = "up", Restorable(file', boot') = {} PROVE anchor' = NoTime
    OBVIOUS
  <2>1. file' = NoFile
    BY <1>1, <1>3, <1>4 DEF Restorable
  <2>2. status.state = "NORMAL"
    BY <1>1, <1>3, <1>4, <2>1 DEF NoFile, IInv, Final
  <2> QED BY <1>1, <2>2 DEF IInv, Types, Clocks, Coherent, BeganAt
<1>14. \A r \in Restorable(file', boot') : anchor' = BeganAt(r.origin, r.status)
  BY <1>1, <1>3, <1>4 DEF Restorable, NoFile
<1>15. Anchored'
  BY <1>1, <1>13, <1>14 DEF Anchored
<1> QED BY <1>5, <1>7, <1>8, <1>9, <1>10, <1>12, <1>15 DEF IInv, Types

(* What a sample makes of the evidence.                                    *)
LEMMA SampleEvidence ==
  ASSUME IInv, NEW reload \in BOOLEAN, Sample(reload)
  PROVE  /\ evidence' \in [kept : PastTime(now), now : PastTime(now)]
         /\ evidence'.kept = evidence.kept
         /\ Lasts(evidence.now, evidence'.now, now, Sampled)
<1>1. evidence' = [evidence EXCEPT !.now = IF ~Evidence(Sampled) THEN NoTime
                                           ELSE IF evidence.now = NoTime THEN now ELSE evidence.now]
  BY DEF Sample
<1>2. /\ evidence \in [kept : PastTime(now), now : PastTime(now)]
      /\ now \in Nat
  BY BoundsAssumption DEF IInv, Types, Clocks, Recorded
<1> DEFINE later == IF ~Evidence(Sampled) THEN NoTime
                    ELSE IF evidence.now = NoTime THEN now ELSE evidence.now
<1>3. later \in PastTime(now)
  BY <1>2 DEF PastTime
<1>4. Evidence(Sampled) => later = First(evidence.now, now) /\ later # NoTime /\ later <= now
  BY <1>2 DEF First, PastTime, NoTime
<1>5. evidence' = [evidence EXCEPT !.now = later]
  BY <1>1
<1> HIDE DEF later
<1>6. evidence' \in [kept : PastTime(now), now : PastTime(now)]
      /\ evidence'.kept = evidence.kept /\ evidence'.now = later
  BY <1>2, <1>3, <1>5
<1> QED BY <1>4, <1>6 DEF Lasts

(* What reload means for a sample: a new engine while nothing is watched,  *)
(* or the engine there is.                                                 *)
LEMMA SampleStarts ==
  ASSUME IInv, NEW reload \in BOOLEAN, Sample(reload), reload => Reloads
  PROVE  LET r    == IF reload THEN stored ELSE revision
             from == IF reload THEN now ELSE origin
             st   == IF reload THEN NewStatus ELSE status
         IN  /\ r \in Revisions /\ from \in 0..now /\ Coherent(st)
             /\ Backed(from, st, evidence.now)
             /\ st.state \notin Watched => st.state = status.state
             /\ status.state \notin Watched => st = status /\ from = origin
             /\ anchor # NoTime => st = status /\ from = origin
                                   /\ anchor = origin + status.outageStartedAt
                                   /\ status.outageStartedAt # NoTime
<1>1. pc = "loop"
  BY DEF Sample
<1>2. anchor = BeganAt(origin, status)
  BY <1>1 DEF IInv, Anchored
<1>3. anchor # NoTime => status.outageStartedAt # NoTime /\ anchor = origin + status.outageStartedAt
  BY <1>2 DEF BeganAt
<1>4. status.state = "NORMAL" <=> status.outageStartedAt = NoTime
  BY DEF IInv, Types, Clocks, Coherent
<1>5. now \in Nat /\ origin \in 0..now /\ stored \in Revisions /\ revision \in Revisions
      /\ Coherent(status)
  BY BoundsAssumption DEF IInv, Types, Clocks
<1>6. NewStatus.state = "NORMAL"
  BY DEF NewStatus
<1>7. CASE reload
  BY <1>3, <1>4, <1>5, <1>6, <1>7, NewCoherent, NewBacked DEF Reloads, Watched
<1>8. CASE ~reload
  BY <1>3, <1>5, <1>8 DEF IInv, Timers
<1> QED BY <1>7, <1>8

(* A sample: the timers it starts begin now, those that run were backed    *)
(* before, and a shutdown it begins has been confirmed.                    *)
LEMMA SampleInv ==
  ASSUME IInv, NEW reload \in BOOLEAN, Sample(reload), reload => Reloads,
         count' \in [Disturbance -> Nat], \A d \in Disturbance : count'[d] <= Limits[d]
  PROVE  IInv'
<1> DEFINE r    == IF reload THEN stored ELSE revision
           from == IF reload THEN now ELSE origin
           st   == IF reload THEN NewStatus ELSE status
           c    == Settings[r].detection
           at   == now - from
           out  == Step(c, st, at, Sampled)
           n    == out.status
           l    == Commands(out.actions)
<1>1. /\ pc = "loop"
      /\ revision' = r /\ guestRevision' = TimeoutRevision(reload)
      /\ origin' = from /\ status' = n /\ lastAt' = at /\ todo' = l
      /\ pc' = IF todo' = <<>> THEN "save" ELSE "act"
      /\ now' = now /\ boot' = boot /\ host' = host /\ lostAt' = lostAt
      /\ running' = running /\ asked' = asked /\ stored' = stored
      /\ targets' = targets /\ file' = file
      /\ stopAlls' = stopAlls /\ anchor' = anchor
  BY DEF Sample, environment
<1>2. /\ r \in Revisions /\ from \in 0..now /\ Coherent(st)
      /\ Backed(from, st, evidence.now)
      /\ st.state \notin Watched => st.state = status.state
      /\ status.state \notin Watched => st = status /\ from = origin
      /\ anchor # NoTime => /\ st = status /\ from = origin
                            /\ anchor = origin + status.outageStartedAt
                            /\ status.outageStartedAt # NoTime
  BY SampleStarts
<1>3. /\ evidence' \in [kept : PastTime(now), now : PastTime(now)]
      /\ evidence'.kept = evidence.kept
      /\ Lasts(evidence.now, evidence'.now, now, Sampled)
  BY SampleEvidence
<1>4. c \in Config /\ Validate(c)
  BY <1>2, ValidRevision
<1>5. Sampled \in Snapshot /\ ~NetworkEvidence(Sampled)
  BY DEF Sampled, Snapshot, NUTStatus, NetworkEvidence
<1>6. now \in Nat /\ at \in Nat /\ at <= now
  BY <1>2, BoundsAssumption DEF IInv, Types, Clocks
<1> HIDE DEF r, from, st
<1>7. /\ Coherent(n)
      /\ st.state \notin Watched => n.state \notin Watched
      /\ st.outageStartedAt # NoTime => n.outageStartedAt \in {NoTime, st.outageStartedAt}
  BY <1>2, <1>4, <1>5, <1>6, StepKeeps
<1>8. \/ /\ l = <<>>
         /\ n.state \in Watched \/ n = st
      \/ /\ l = <<"graceful_shutdown">>
         /\ st.state \in Watched /\ n.state = "SHUTTING_DOWN"
      \/ /\ l \in Closing
         /\ n.state = "POWERED_OFF"
         /\ st.state \in Watched <=> Head(l) = "graceful_shutdown"
  BY <1>2, <1>4, <1>5, <1>6, StepCommands
<1>9. Backed(from, n, evidence'.now)
  BY <1>2, <1>3, <1>4, <1>5, <1>6, StepBacked
<1>10. st.state \in Watched /\ n.state \notin Watched
         => evidence'.now # NoTime /\ now - evidence'.now >= c.nutConfirm
  <2> SUFFICES ASSUME st.state \in Watched, n.state \notin Watched
               PROVE  evidence'.now # NoTime /\ now - evidence'.now >= c.nutConfirm
    OBVIOUS
  <2>1. evidence.now \in Int
    BY <1>6 DEF IInv, Types, Recorded, PastTime, NoTime
  <2> QED BY <1>2, <1>3, <1>4, <1>5, <1>6, <2>1, EvidenceLasted
<1>11. st.state \notin Watched => st = status
  BY <1>2
<1> HIDE DEF c, at, out, n, l
<1>12. l \in ToDos /\ (l # <<>> => Head(l) = "graceful_shutdown" \/ st.state \notin Watched)
       /\ <<>> \notin Closing /\ Head(<<"graceful_shutdown">>) = "graceful_shutdown"
  BY <1>8 DEF ToDos, Closing
<1>13. Clocks'
  <2>1. guestRevision' \in Revisions
    BY <1>1 DEF IInv, Types, Clocks, TimeoutRevision
  <2>2. pc' \in {"save", "act"}
    BY <1>1
  <2> QED BY <1>1, <1>2, <1>6, <1>7, <1>12, <2>1, <2>2 DEF IInv, Types, Clocks, PastTime
<1>14. Files' /\ Recorded'
  BY <1>1, <1>3 DEF IInv, Types, Files, Recorded
<1>15. Commanded'
  BY <1>1, <1>8, <1>12 DEF Commanded, Commanding
<1>16. Places' /\ Spared'
  BY <1>1 DEF IInv, Places, Spared
<1>17. Timers'
  BY <1>1, <1>3, <1>9 DEF IInv, Timers
<1>18. Begins' => st.state \in Watched /\ n.state \notin Watched
  <2> SUFFICES ASSUME Begins' PROVE st.state \in Watched /\ n.state \notin Watched
    OBVIOUS
  <2>1. l # <<>> /\ Head(l) = "graceful_shutdown"
    BY <1>1 DEF Begins
  <2> QED BY <1>8, <2>1 DEF Watched
<1>19. Justified'
  BY <1>1, <1>10, <1>18 DEF Justified, Detection, c
<1>20. n.state \notin Watched /\ ~Begins' => status.state \notin Watched
  BY <1>1, <1>8, <1>11, <1>12 DEF Begins
<1>21. SavedShutdown' = SavedShutdown
  BY <1>1 DEF SavedShutdown
<1>22. Asked'
  BY <1>1, <1>20, <1>21 DEF IInv, Asked, Begins
<1>23. Final'
  <2>1. status.state \notin Watched => n.state \notin Watched
    BY <1>2, <1>7
  <2>2. n.state = "POWERED_OFF" /\ l = <<>> => status.state = "POWERED_OFF"
    BY <1>8, <1>11, <1>12 DEF Watched
  <2>3. pc' = "save" => l = <<>>
    BY <1>1
  <2> QED BY <1>1, <1>21, <2>1, <2>2, <2>3 DEF IInv, Final
<1>24. Anchored'
  <2>1. anchor # NoTime /\ n.outageStartedAt # NoTime => BeganAt(from, n) = anchor
    BY <1>2, <1>7 DEF BeganAt
  <2> QED BY <1>1, <2>1 DEF IInv, Anchored
<1> QED BY <1>13, <1>14, <1>15, <1>16, <1>17, <1>19, <1>22, <1>23, <1>24 DEF IInv, Types

-----------------------------------------------------------------------------
(* The initial states satisfy the invariant ...                            *)
LEMMA InitInv == Init => IInv
<1> SUFFICES ASSUME Init PROVE IInv
  OBVIOUS
<1>1. /\ count \in [Disturbance -> Nat]
      /\ \A d \in Disturbance : count[d] <= Limits[d]
  BY BoundsAssumption DEF Init
<1>2. 1 \in Revisions
  <2>1. Len(Settings) \in Nat \ {0}
    BY SettingsAssumption, EmptySeq, LenProperties
  <2> QED BY <2>1 DEF Revisions
<1>3. Clocks
  BY <1>1, <1>2, NewCoherent, BoundsAssumption DEF Init, Clocks, PastTime, ToDos
<1>4. Files /\ Recorded
  BY DEF Init, Files, Recorded, NoFile, PastTime
<1>5. status = NewStatus /\ NewStatus.state = "NORMAL" /\ NewStatus.outageStartedAt = NoTime
  BY DEF Init, NewStatus
<1>6. SavedShutdown = {} /\ Restorable(file, boot) = {}
  BY DEF Init, NoFile, SavedShutdown, Restorable
<1>7. Commanded /\ Places /\ Justified /\ Spared
  BY DEF Init, Commanded, Commanding, Places, Justified, Begins, Spared
<1>8. Timers
  BY NewBacked DEF Init, Timers, NoFile
<1>9. Asked /\ Final /\ Anchored
  BY <1>5, <1>6 DEF Init, Asked, Final, Anchored, Watched
<1> QED BY <1>3, <1>4, <1>7, <1>8, <1>9 DEF IInv, Types

(* ... a step that changes nothing keeps it ...                            *)
LEMMA StutterInv == IInv /\ UNCHANGED vars => IInv'
<1> SUFFICES ASSUME IInv, UNCHANGED vars PROVE IInv'
  OBVIOUS
<1>1. /\ Steady
      /\ lostAt' = lostAt /\ stored' = stored /\ targets' = targets
      /\ running' = running /\ asked' = asked /\ guestRevision' = guestRevision
      /\ count' = count
  BY DEF vars, environment, settings, engine, command, history, Steady, Quiet
<1>2. Clocks'
  BY <1>1 DEF IInv, Types, Clocks, Steady, Quiet
<1>3. Spared'
  BY <1>1 DEF IInv, Spared, Steady, Quiet
<1> QED BY <1>1, <1>2, <1>3, SteadyParts DEF IInv, Types

(* ... and so does every step of the guard and of its environment.         *)
LEMMA NextInv == IInv /\ [Next]_vars => IInv'
<1> SUFFICES ASSUME IInv, [Next]_vars PROVE IInv'
  OBVIOUS
<1>1. /\ count \in [Disturbance -> Nat]
      /\ \A d \in Disturbance : count[d] <= Limits[d]
  BY DEF IInv, Types, Clocks
<1>2. ASSUME Die, UNCHANGED count
      PROVE  IInv'
  BY <1>1, <1>2, DieInv
<1>3. ASSUME Die, NEW d \in Disturbance, Happens(d)
      PROVE  IInv'
  BY <1>3, DieInv, HappensCounts
<1>4. CASE Expired \/ ForceIncomplete \/ PoweroffBlocked
  BY <1>2, <1>4 DEF Expired, ForceIncomplete, PoweroffBlocked
<1>5. CASE PoweroffFails \/ PersistFails \/ Crash
  BY <1>3, <1>5 DEF PoweroffFails, PersistFails, Crash, Disturbance
<1>6. CASE Round
  <2>1. Reloads \in BOOLEAN
    BY DEF Reloads
  <2>2. Sample(Reloads) /\ count' = count
    BY <1>6 DEF Round
  <2> HIDE DEF Reloads
  <2>3. \A d \in Disturbance : count'[d] <= Limits[d]
    BY <1>1, <2>2
  <2> QED BY <1>1, <2>1, <2>2, <2>3, SampleInv
<1>7. CASE LoadFails
  <2>1. /\ count' \in [Disturbance -> Nat]
        /\ \A e \in Disturbance : count'[e] <= Limits[e]
    BY <1>7, HappensCounts DEF LoadFails, Disturbance
  <2>2. Sample(FALSE) /\ (FALSE => Reloads)
    BY <1>7 DEF LoadFails
  <2> QED BY <2>1, <2>2, SampleInv
<1>8. CASE HostHalts \/ UPSEmpty
  BY <1>8, HostStopsInv DEF HostHalts, UPSEmpty
<1>9. CASE \E g \in Guests : ForceStop(g) \/ ForceStopFails(g)
  BY <1>9, ForceStopInv
<1>10. CASE \E g \in Guests : GuestStops(g) \/ OperatorStarts(g)
  BY <1>10, GuestsInv
<1>11. CASE UNCHANGED vars
  BY <1>11, StutterInv
<1> QED BY <1>4, <1>5, <1>6, <1>7, <1>8, <1>9, <1>10, <1>11, StartInv, BeginStopAllInv,
           BeginForceInv, CheckPoweroffInv, FinishedInv, PersistInv, WakeInv, TickInv,
           OutsideInv, HostBootsInv
        DEF Next, Guard, Environment

(* So the invariant holds throughout.                                      *)
LEMMA Invariance == Spec => []IInv
BY InitInv, NextInv, PTL DEF Spec
-----------------------------------------------------------------------------
(* Whether a forced stop has failed is set and reset, nothing else.        *)
Flagged == failed \in BOOLEAN

(* It stays a truth value.                                                 *)
LEMMA FlaggedInv == Spec => []Flagged
<1>1. Init => Flagged
  BY Zenon DEF Init, Flagged
<1>2. Flagged /\ [Next]_vars => Flagged'
  <2> SUFFICES ASSUME Flagged, [Next]_vars PROVE failed' \in BOOLEAN
    BY DEF Flagged
  <2>1. failed' = failed \/ failed' = TRUE \/ failed' = FALSE
    BY DEF Next, Guard, Environment, vars, command, Start, Round, LoadFails, Sample, Expired,
       BeginStopAll, EndStopAll, BeginForce, EndForce, ForceIncomplete, ForceStop,
       ForceStopFails, CheckPoweroff, PoweroffBlocked, PoweroffAccepted, PoweroffFails,
       Persist, PersistFails, Wake, Tick, Mains, SaveConfig, Crash, HostHalts, UPSEmpty,
       HostStops, HostBoots, GuestStops, OperatorStarts, Die, Forget
  <2> QED BY <2>1, Zenon DEF Flagged
<1> QED BY <1>1, <1>2, PTL DEF Spec

(* The variables of the PVE guard keep their types; there is at most one   *)
(* snapshot in the file, and commands are left exactly while the guard is  *)
(* at them.                                                                *)
THEOREM TypeCorrect == Spec => []TypeOK
<1>1. IInv => Cardinality(file) <= 1
  <2> SUFFICES ASSUME IInv PROVE Cardinality(file) <= 1
    OBVIOUS
  <2>1. file = {} \/ \E s \in file : file = {s}
    BY DEF IInv, Types, Files
  <2>2. CASE file = {}
    BY <2>2, FS_EmptySet
  <2>3. ASSUME NEW s \in file, file = {s} PROVE Cardinality(file) <= 1
    BY <2>3, FS_Singleton
  <2> QED BY <2>1, <2>2, <2>3
<1>2. IInv /\ Flagged => TypeOK
  BY <1>1 DEF Flagged, TypeOK, IInv, Types, Clocks, Commanded, Commanding, PastTime
<1> QED BY <1>2, Invariance, FlaggedInv, PTL

(* No guest is forced and the host is not powered off before the guests    *)
(* were asked to stop in this boot, however often the guard is restarted   *)
(* between the commands of a shutdown.                                     *)
THEOREM GracefulComesFirst == Spec => []GracefulFirst
<1>1. IInv => GracefulFirst
  <2> SUFFICES ASSUME IInv, pc = "force" PROVE stopAlls > 0
    BY DEF GracefulFirst, IInv, Asked
  <2>1. status.state \in {"SHUTTING_DOWN", "POWERED_OFF"}
    BY DEF IInv, Commanded, Commanding
  <2> QED BY <2>1 DEF IInv, Asked, Begins, Watched
<1> QED BY <1>1, Invariance, PTL

(* A restart neither renews nor shortens the budget of the outage that it  *)
(* resumes.                                                                *)
THEOREM BudgetIsNotRenewed == Spec => []BudgetNotRenewed
<1>1. IInv => BudgetNotRenewed
  BY DEF IInv, Anchored, BeganAt, BudgetNotRenewed
<1> QED BY <1>1, Invariance, PTL

(* The guests are asked to stop only on mains that were lost, as far as    *)
(* the guard has not forgotten it in a crash, for as long as the           *)
(* configuration in force asks.                                            *)
THEOREM ShutdownIsJustified == Spec => ShutdownJustified
<1>1. ASSUME IInv, [Next]_vars, pc # "stopall", pc' = "stopall"
      PROVE  evidence.now # NoTime /\ now - evidence.now >= Detection.nutConfirm
  <2>1. BeginStopAll
    BY <1>1 DEF Next, Guard, Environment, vars, Start, Round, LoadFails, Sample, Expired,
       EndStopAll, BeginForce, EndForce, ForceIncomplete, ForceStop, ForceStopFails,
       CheckPoweroff, PoweroffBlocked, PoweroffAccepted, PoweroffFails, Persist, PersistFails,
       Wake, Tick, Mains, SaveConfig, Crash, HostHalts, UPSEmpty, HostStops, HostBoots,
       GuestStops, OperatorStarts, Die, Forget, Finished
  <2> QED BY <1>1, <2>1 DEF BeginStopAll, IInv, Justified, Begins
<1>2. IInv /\ [Next]_vars
        => [pc # "stopall" /\ pc' = "stopall" =>
              evidence.now # NoTime /\ now - evidence.now >= Detection.nutConfirm]_vars
  BY <1>1
<1> QED BY <1>2, Invariance, PTL DEF Spec, ShutdownJustified

(* A shutdown saved in this boot stays in the file until the host halts,   *)
(* whatever the mains, the console and the restarts do.                    *)
THEOREM SavedShutdownIsKept == Spec => SavedShutdownSticks
<1>1. ASSUME IInv, [Next]_vars, SavedShutdown # {}, boot' = boot
      PROVE  host' # "up" \/ SavedShutdown' # {}
  <2>1. Start \/ Persist \/ file' = file
    BY <1>1 DEF Next, Guard, Environment, vars, Round, LoadFails, Sample, Expired,
       BeginStopAll, EndStopAll, BeginForce, EndForce, ForceIncomplete, ForceStop,
       ForceStopFails, CheckPoweroff, PoweroffBlocked, PoweroffAccepted, PoweroffFails,
       PersistFails, Wake, Tick, Mains, SaveConfig, Crash, HostHalts, UPSEmpty, HostStops,
       HostBoots, GuestStops, OperatorStarts, Die, Forget
  <2>2. CASE file' = file
    BY <1>1, <2>2 DEF SavedShutdown
  <2>3. CASE Start
    <3>1. file' = Restorable(file, boot)
      BY <2>3 DEF Start
    <3>2. SavedShutdown \subseteq SavedShutdown'
      BY <1>1, <3>1 DEF SavedShutdown, Restorable
    <3> QED BY <1>1, <3>2
  <2>4. CASE Persist
    <3>1. /\ pc = "save" /\ host' = host /\ status' = status
          /\ file' = Save(boot, origin, revision, status, lastAt)
      BY <2>4 DEF Persist, environment, engine
    <3>2. status.state \in {"SHUTTING_DOWN", "POWERED_OFF"}
      BY <1>1, <3>1 DEF IInv, Types, Clocks, Coherent, EngineStatus, EngineState, Final, Watched
    <3>3. CASE status.state = "POWERED_OFF"
      BY <1>1, <3>1, <3>3 DEF IInv, Final
    <3>4. CASE status.state = "SHUTTING_DOWN"
      <4>1. [boot |-> boot, origin |-> origin, revision |-> revision, status |-> status,
             lastAt |-> lastAt] \in SavedShutdown'
        BY <1>1, <3>1, <3>4 DEF SavedShutdown, Save
      <4> QED BY <4>1
    <3> QED BY <3>2, <3>3, <3>4
  <2> QED BY <2>1, <2>2, <2>3, <2>4
<1>2. IInv /\ [Next]_vars
        => [SavedShutdown # {} /\ boot' = boot => host' # "up" \/ SavedShutdown' # {}]_vars
  BY <1>1
<1> QED BY <1>2, Invariance, PTL DEF Spec, SavedShutdownSticks

(* The host is not powered off under a guest that was asked to stop and    *)
(* still runs.                                                             *)
THEOREM GuestsAreSpared == Spec => PoweroffSparesGuests
<1>1. ASSUME IInv, [Next]_vars, host = "up", host' = "stopping"
      PROVE  running \cap asked = {}
  <2>1. PoweroffAccepted
    BY <1>1 DEF Next, Guard, Environment, vars, environment, Start, Round, LoadFails, Sample,
       Expired, BeginStopAll, EndStopAll, BeginForce, EndForce, ForceIncomplete, ForceStop,
       ForceStopFails, CheckPoweroff, PoweroffBlocked, PoweroffFails, Persist, PersistFails,
       Wake, Tick, Mains, SaveConfig, Crash, HostHalts, UPSEmpty, HostStops, HostBoots,
       GuestStops, OperatorStarts, Die
  <2> QED BY <1>1, <2>1 DEF PoweroffAccepted, IInv, Spared
<1>2. IInv /\ [Next]_vars
        => [host = "up" /\ host' = "stopping" => running \cap asked = {}]_vars
  BY <1>1
<1> QED BY <1>2, Invariance, PTL DEF Spec, PoweroffSparesGuests
-----------------------------------------------------------------------------
(***************************************************************************)
(* When the host is off.  HostOffInBudget needs a configuration that       *)
(* leaves time for what it promises.  Gap is the longest a flicker puts    *)
(* the confirmation off: evidence that is just too young is lost, and as   *)
(* many quiet samples follow as do not yet cancel the candidate.  Deciding *)
(* is what the last sample of all that takes from the first one, and       *)
(* Finishing what the commands take from the emergency on, retries         *)
(* included.  A guard that dies with what it has not saved, a guest that   *)
(* is started during the shutdown and a node without guests are left out:  *)
(* after these the detection or the stops begin anew.                      *)
(***************************************************************************)
Confirm(q) == Settings[q].detection.nutConfirm
Reserve(q) == Settings[q].detection.emergencyReserve
Every(q)   == Settings[q].interval

Gap(q) == Confirm(q) - 1 + Settings[q].detection.recoverySuccessCount * Every(q)

(* The mains flip to and fro; every second flip ends a flicker.            *)
Flickers(n) == n \div 2

Deciding(q) == Flickers(Limits["flips"]) * Gap(q) + Confirm(q) - 1 + Every(q)

LongerOf(t, u) == IF t <= u THEN u ELSE t

Retry == RestartDelay + LongerOf(ForceTimeout, PoweroffTimeout)

Finishing == ForceTimeout + PoweroffTimeout + Limits["commands"] * Retry

LeavesTime ==
  /\ Guests # {} /\ PoweroffTimeout > 0
  /\ Limits["crashes"] = 0 /\ Limits["saves"] = 0 /\ Limits["starts"] = 0
  /\ \A q \in Revisions :
       /\ Deciding(q) < Settings[q].detection.totalBudget - Reserve(q)
       /\ \A r \in 1..q : Every(r) - 1 + Finishing <= Reserve(q)

(* The moments that bound an outage that began at b, under revision q: of  *)
(* a timer's start after n flips, of the emergency, and of the end.        *)
StartBy(b, n, q) == b + Flickers(n) * Gap(q)
Emergency(b, q)  == b + Settings[q].detection.totalBudget - Reserve(q)
SampleBy(b, q)   == Emergency(b, q) + Every(q) - 1
FinishBy(b, q)   == SampleBy(b, q) + Finishing

(* What the commands and their retries may still take.                     *)
Retries == (Limits["commands"] - count["commands"]) * Retry

Needed(guests) == (IF guests = {} THEN 0 ELSE ForceTimeout) + PoweroffTimeout + Retries

SampledAt == origin + lastAt

Began == origin + status.outageStartedAt

(* Every other flip of the mains brings them back.                         *)
Parity ==
  /\ lostAt # NoTime => lostAt <= now
  /\ lostAt = NoTime <=> count["flips"] % 2 = 0

(* Revisions only grow, and the guests run until they are asked to stop.   *)
Revised == revision <= stored /\ \A s \in file : s.revision <= stored

Unasked ==
  /\ host = "off" => asked = {}
  /\ host = "up" /\ status.state \in Watched /\ SavedShutdown = {} =>
       asked = {} /\ running = Guests

(* Without a process the host has just booted, or a shutdown is resumed in *)
(* time.                                                                   *)
Booted ==
  SavedShutdown = {} =>
    /\ Restorable(file, boot) = {} /\ due \in 0..now
    /\ lostAt # NoTime => now <= lostAt

Resuming ==
  \A s \in SavedShutdown :
    due \in now..FinishBy(s.origin + s.status.outageStartedAt, s.revision) - Needed(running)

(* An engine that watches samples at every interval, ...                   *)
Sampling ==
  /\ pc \in {"loop", "save", "wait"}
  /\ pc = "loop" =>
       /\ tick = now + Interval
       /\ status = NewStatus \/ (lastAt # NoTime /\ now = SampledAt + Interval)
       /\ status.state = "NORMAL" /\ lostAt # NoTime => now <= lostAt + Interval
  /\ pc \in {"save", "wait"} =>
       /\ lastAt # NoTime /\ SampledAt <= now /\ now <= tick /\ tick = SampledAt + Interval
       /\ status.state = "NORMAL" /\ lostAt # NoTime => tick <= lostAt + Interval

(* ... and confirms an outage that lasts by the time StartBy allows for.   *)
Confirming ==
  status.state = "CONFIRMING_OUTAGE" =>
    /\ lastAt # NoTime
    /\ status.nutStartedAt # NoTime =>
         /\ status.recoveryCount = 0
         /\ lastAt < status.nutStartedAt + Confirm(revision)
         /\ origin + status.nutStartedAt <= StartBy(Began, count["flips"], revision)
         /\ lostAt = NoTime =>
              origin + status.nutStartedAt + Gap(revision) <= StartBy(Began, count["flips"], revision)
    /\ status.nutStartedAt = NoTime =>
         LET left == Settings[revision].detection.recoverySuccessCount - status.recoveryCount
         IN  left >= 1 /\ SampledAt + left * Interval <= StartBy(Began, count["flips"], revision)

(* A shutdown waits for its guests up to the emergency, or is resumed.     *)
Waiting ==
  IF pc = "loop"
  THEN tick \in 0..now + Interval /\ now + Needed(running) <= FinishBy(Began, revision)
  ELSE /\ pc \in {"act", "stopall", "save", "wait"}
       /\ pc = "act" => now < Emergency(Began, revision)
       /\ pc = "stopall" => due \in now..Emergency(Began, revision)
       /\ {now, tick} \subseteq 0..SampleBy(Began, revision)

(* The commands that end with the host carry on in time.                   *)
Closed ==
  LET by == FinishBy(Began, revision) - Retries
  IN  /\ pc \in Commanding /\ Head(todo) # "graceful_shutdown"
      /\ pc = "act" /\ Head(todo) = "emergency_stop_remaining" =>
           now + ForceTimeout + PoweroffTimeout <= by
      /\ pc = "act" /\ Head(todo) = "host_poweroff_requested" =>
           running = {} /\ now + PoweroffTimeout <= by
      /\ pc = "force" =>
           /\ ~failed => running \subseteq targets /\ due \in now..by - PoweroffTimeout
           /\ failed => due \in now..by - RestartDelay - ForceTimeout - PoweroffTimeout
      /\ pc = "poweroff" => running = {} /\ due \in now..by

(* The outage began within an interval of the loss; the shutdown that is   *)
(* saved is the one under way.                                             *)
BeganBy(b, q) == b <= now /\ (lostAt # NoTime => \E r \in 1..q : b <= lostAt + Every(r))

Started ==
  /\ status.outageStartedAt # NoTime => BeganBy(Began, revision)
  /\ \A s \in SavedShutdown : BeganBy(s.origin + s.status.outageStartedAt, s.revision)

Known ==
  pc # "down" =>
    /\ \A s \in SavedShutdown :
         /\ s.origin = origin /\ s.revision = revision
         /\ s.status.outageStartedAt = status.outageStartedAt
    /\ status.state = "POWERED_OFF" \/ (status.state = "SHUTTING_DOWN" /\ pc \in {"wait", "loop"})
         => SavedShutdown # {}

(* Wherever the process is, it is on time.                                 *)
OnTime ==
  /\ pc = "down" => Booted /\ Resuming
  /\ pc # "down" /\ status.state \in Watched => Sampling /\ Confirming
  /\ status.state = "SHUTTING_DOWN" => Waiting
  /\ status.state = "POWERED_OFF" => Closed

-----------------------------------------------------------------------------
(* The lengths of time that make up the bounds.                            *)
LEMMA Lengths ==
  ASSUME NEW q \in Revisions
  PROVE  LET c == Settings[q].detection
         IN  /\ Confirm(q) \in Nat /\ Confirm(q) >= 1
             /\ Every(q) \in Nat /\ Every(q) >= 1
             /\ Reserve(q) \in Nat /\ Reserve(q) >= 1
             /\ c.totalBudget \in Nat /\ c.totalBudget > Reserve(q)
             /\ c.recoverySuccessCount \in Nat /\ c.recoverySuccessCount >= 1
             /\ Gap(q) \in Nat
             /\ Gap(q) = Confirm(q) - 1 + c.recoverySuccessCount * Every(q)
<1> DEFINE S == [detection : Config, interval : Nat \ {0}, guestTimeout : Nat \ {0}]
           c == Settings[q].detection
<1>1. Settings \in Seq(S) /\ q \in 1..Len(Settings)
  BY SettingsAssumption DEF Revisions
<1> HIDE DEF S
<1>2. Settings[q] \in S
  BY <1>1
<1> USE DEF S
<1>3. c \in Config /\ Every(q) \in Nat /\ Every(q) >= 1
  BY <1>2 DEF Every
<1>4. Validate(c)
  BY SettingsAssumption
<1> HIDE DEF c
<1>5. /\ c.nutConfirm \in Int /\ c.totalBudget \in Int /\ c.emergencyReserve \in Int
      /\ c.recoverySuccessCount \in Int
      /\ DOMAIN c = {"nutConfirm", "networkConfirm", "totalBudget", "emergencyReserve",
                     "recoverySuccessCount"}
  BY <1>3 DEF Config
<1>6. /\ c.nutConfirm > 0 /\ c.totalBudget > 0 /\ c.emergencyReserve > 0
      /\ c.recoverySuccessCount > 0 /\ c.totalBudget > c.emergencyReserve
  BY <1>4, <1>5 DEF Validate
<1>7. /\ Confirm(q) = c.nutConfirm /\ Reserve(q) = c.emergencyReserve
      /\ Gap(q) = Confirm(q) - 1 + c.recoverySuccessCount * Every(q)
  BY DEF Confirm, Reserve, Gap, c
<1>8. \A a, b \in Nat : a * b \in Nat
  OBVIOUS
<1>9. c.recoverySuccessCount \in Nat /\ c.recoverySuccessCount * Every(q) \in Nat
  BY <1>3, <1>5, <1>6, <1>8
<1> QED BY <1>3, <1>5, <1>6, <1>7, <1>9 DEF c

(* The commands' bounds, and what a failure costs.                         *)
LEMMA CommandTimes ==
  /\ ForceTimeout \in Nat /\ PoweroffTimeout \in Nat /\ RestartDelay \in Nat
  /\ Retry \in Nat
  /\ RestartDelay + ForceTimeout <= Retry /\ RestartDelay + PoweroffTimeout <= Retry
  /\ Limits["commands"] \in Nat /\ Limits["flips"] \in Nat
  /\ Limits["commands"] * Retry \in Nat
  /\ Finishing \in Nat
  /\ Finishing = ForceTimeout + PoweroffTimeout + Limits["commands"] * Retry
<1>1. /\ ForceTimeout \in Nat /\ PoweroffTimeout \in Nat /\ RestartDelay \in Nat
      /\ Limits["commands"] \in Nat /\ Limits["flips"] \in Nat
  BY BoundsAssumption DEF Disturbance
<1>2. Retry \in Nat /\ RestartDelay + ForceTimeout <= Retry /\ RestartDelay + PoweroffTimeout <= Retry
  BY <1>1 DEF Retry, LongerOf
<1>3. \A a, b \in Nat : a * b \in Nat
  OBVIOUS
<1> QED BY <1>1, <1>2, <1>3 DEF Finishing

(* The retries that are left.                                              *)
LEMMA RetriesLeft ==
  ASSUME IInv
  PROVE  /\ Retries \in Nat /\ Retries <= Limits["commands"] * Retry
         /\ \A guests : Needed(guests) \in Nat /\ Needed(guests) <= Finishing
         /\ Needed({}) = PoweroffTimeout + Retries
         /\ \A guests : guests # {} => Needed(guests) = ForceTimeout + PoweroffTimeout + Retries
<1>1. count["commands"] \in Nat /\ count["commands"] <= Limits["commands"]
  BY DEF IInv, Types, Clocks, Disturbance
<1>2. \A a, b, c \in Nat : a <= b => (b - a) * c \in Nat /\ (b - a) * c <= b * c
  OBVIOUS
<1>3. Retries \in Nat /\ Retries <= Limits["commands"] * Retry
  BY <1>1, <1>2, CommandTimes DEF Retries
<1> HIDE DEF Retries
<1>4. Needed({}) = PoweroffTimeout + Retries
  BY <1>3, CommandTimes DEF Needed
<1>5. \A guests : guests # {} => Needed(guests) = ForceTimeout + PoweroffTimeout + Retries
  BY <1>3, CommandTimes DEF Needed
<1>6. ASSUME NEW guests
      PROVE  Needed(guests) \in Nat /\ Needed(guests) <= Finishing
  <2>1. /\ ForceTimeout \in Nat /\ PoweroffTimeout \in Nat /\ Limits["commands"] * Retry \in Nat
        /\ Finishing = ForceTimeout + PoweroffTimeout + Limits["commands"] * Retry
    BY CommandTimes
  <2>2. CASE guests = {}
    BY <1>3, <1>4, <2>1, <2>2
  <2>3. CASE guests # {}
    <3>1. Needed(guests) = ForceTimeout + PoweroffTimeout + Retries
      BY <1>5, <2>3
    <3> QED BY <1>3, <2>1, <3>1
  <2> QED BY <2>2, <2>3
<1> QED BY <1>3, <1>4, <1>5, <1>6

(* A command that fails takes one.                                         *)
LEMMA RetrySpent ==
  ASSUME IInv, Happens("commands")
  PROVE  Retries = Retries' + Retry /\ Retries' \in Nat
<1>1. /\ count \in [Disturbance -> Nat] /\ count["commands"] < Limits["commands"]
      /\ count' = [count EXCEPT !["commands"] = @ + 1]
  BY DEF IInv, Types, Clocks, Happens, May
<1>2. count["commands"] \in Nat /\ count'["commands"] = count["commands"] + 1
  BY <1>1 DEF Disturbance
<1>3. \A a, b, c \in Nat : a < b => (b - a) * c = (b - (a + 1)) * c + c /\ (b - (a + 1)) * c \in Nat
  OBVIOUS
<1> QED BY <1>1, <1>2, <1>3, CommandTimes DEF Retries

(* A timer's bound moves by a gap when the mains come back.                *)
LEMMA StartByGrows ==
  ASSUME NEW q \in Revisions, NEW b \in Nat, NEW n \in Nat
  PROVE  /\ StartBy(b, n, q) \in Nat /\ b <= StartBy(b, n, q)
         /\ n % 2 = 0 => StartBy(b, n + 1, q) = StartBy(b, n, q) /\ (n + 1) % 2 # 0
         /\ n % 2 # 0 => StartBy(b, n + 1, q) = StartBy(b, n, q) + Gap(q) /\ (n + 1) % 2 = 0
<1>1. /\ n \div 2 \in Nat
      /\ n % 2 = 0 => (n + 1) \div 2 = n \div 2 /\ (n + 1) % 2 # 0
      /\ n % 2 # 0 => (n + 1) \div 2 = (n \div 2) + 1 /\ (n + 1) % 2 = 0
  OBVIOUS
<1>2. \A a, c \in Nat : a * c \in Nat /\ (a + 1) * c = a * c + c
  OBVIOUS
<1>3. Gap(q) \in Nat
  BY Lengths
<1>4. /\ Flickers(n) \in Nat
      /\ n % 2 = 0 => Flickers(n + 1) = Flickers(n) /\ (n + 1) % 2 # 0
      /\ n % 2 # 0 => Flickers(n + 1) = Flickers(n) + 1 /\ (n + 1) % 2 = 0
  BY <1>1 DEF Flickers
<1>5. /\ Flickers(n) * Gap(q) \in Nat
      /\ (Flickers(n) + 1) * Gap(q) = Flickers(n) * Gap(q) + Gap(q)
  BY <1>2, <1>3, <1>4
<1>6. /\ StartBy(b, n, q) = b + Flickers(n) * Gap(q)
      /\ n % 2 = 0 => StartBy(b, n + 1, q) = StartBy(b, n, q)
      /\ n % 2 # 0 => StartBy(b, n + 1, q) = b + (Flickers(n) + 1) * Gap(q)
  BY <1>4 DEF StartBy
<1>7. n % 2 # 0 => StartBy(b, n + 1, q) = StartBy(b, n, q) + Gap(q)
  BY <1>3, <1>5, <1>6
<1>8. StartBy(b, n, q) \in Nat /\ b <= StartBy(b, n, q)
  BY <1>5, <1>6
<1> QED BY <1>4, <1>6, <1>7, <1>8

(* The bounds are moments.                                                 *)
LEMMA TimesAreNat ==
  ASSUME NEW q \in Revisions, NEW b \in Nat
  PROVE  /\ Emergency(b, q) \in Nat /\ b < Emergency(b, q)
         /\ SampleBy(b, q) \in Nat /\ Emergency(b, q) <= SampleBy(b, q)
         /\ SampleBy(b, q) = Emergency(b, q) + Every(q) - 1
         /\ FinishBy(b, q) \in Nat /\ FinishBy(b, q) = SampleBy(b, q) + Finishing
<1>1. /\ Every(q) \in Nat /\ Every(q) >= 1 /\ Reserve(q) \in Nat
      /\ Settings[q].detection.totalBudget \in Nat
      /\ Settings[q].detection.totalBudget > Reserve(q)
  BY Lengths
<1>2. Finishing \in Nat
  BY CommandTimes
<1> QED BY <1>1, <1>2 DEF Emergency, SampleBy, FinishBy

(* In a configuration that leaves time, a sample taken an interval after   *)
(* one that was just too young comes before the emergency, and the         *)
(* commands fit the budget.                                                *)
LEMMA TimeIsLeft ==
  ASSUME LeavesTime, NEW q \in Revisions, NEW b \in Nat
  PROVE  /\ \A n \in Nat : n <= Limits["flips"] =>
              StartBy(b, n, q) + Confirm(q) - 1 + Every(q) < Emergency(b, q)
         /\ FinishBy(b, q) <= b + Settings[q].detection.totalBudget
         /\ \A r \in 1..q : /\ r \in Revisions
                            /\ Every(r) + FinishBy(b, q)
                                 <= b + Settings[q].detection.totalBudget + Every(q)
<1>1. /\ Confirm(q) \in Nat /\ Confirm(q) >= 1
      /\ Every(q) \in Nat /\ Every(q) >= 1
      /\ Reserve(q) \in Nat /\ Reserve(q) >= 1
      /\ Settings[q].detection.totalBudget \in Nat
      /\ Settings[q].detection.totalBudget > Reserve(q)
      /\ Gap(q) \in Nat
  BY Lengths
<1>2. Finishing \in Nat /\ Limits["flips"] \in Nat
  BY CommandTimes
<1>3. /\ Deciding(q) < Settings[q].detection.totalBudget - Reserve(q)
      /\ \A r \in 1..q : Every(r) - 1 + Finishing <= Reserve(q)
  BY DEF LeavesTime
<1>4. /\ Emergency(b, q) = b + Settings[q].detection.totalBudget - Reserve(q)
      /\ SampleBy(b, q) = Emergency(b, q) + Every(q) - 1
      /\ FinishBy(b, q) = SampleBy(b, q) + Finishing
  BY DEF Emergency, SampleBy, FinishBy
<1>5. q \in 1..q /\ q \in Nat /\ \A r \in 1..q : r \in Revisions
  <2>1. Len(Settings) \in Nat
    BY SettingsAssumption
  <2> QED BY <2>1 DEF Revisions
<1>6. \A r \in 1..q : Every(r) \in Nat
  BY <1>5, Lengths
<1>7. ASSUME NEW n \in Nat, n <= Limits["flips"]
      PROVE  StartBy(b, n, q) + Confirm(q) - 1 + Every(q) < Emergency(b, q)
  <2>1. /\ n \div 2 \in Nat /\ Limits["flips"] \div 2 \in Nat
        /\ n \div 2 <= Limits["flips"] \div 2
    BY <1>2, <1>7
  <2>2. \A i, j, k \in Nat : i <= j => i * k \in Nat /\ j * k \in Nat /\ i * k <= j * k
    OBVIOUS
  <2>3. /\ Flickers(n) * Gap(q) \in Nat /\ Flickers(Limits["flips"]) * Gap(q) \in Nat
        /\ Flickers(n) * Gap(q) <= Flickers(Limits["flips"]) * Gap(q)
    BY <1>1, <2>1, <2>2 DEF Flickers
  <2>4. Deciding(q) = Flickers(Limits["flips"]) * Gap(q) + Confirm(q) - 1 + Every(q)
    BY DEF Deciding
  <2> QED BY <1>1, <1>3, <1>4, <2>3, <2>4 DEF StartBy
<1>8. \A r \in 1..q : Every(r) + FinishBy(b, q)
                        <= b + Settings[q].detection.totalBudget + Every(q)
  BY <1>1, <1>2, <1>3, <1>4, <1>6
<1>9. FinishBy(b, q) <= b + Settings[q].detection.totalBudget
  BY <1>1, <1>2, <1>3, <1>4, <1>5
<1> QED BY <1>5, <1>7, <1>8, <1>9

-----------------------------------------------------------------------------
(* What every step does to the mains and to the revisions.                 *)

(* The mains alone count their flips.                                      *)
LEMMA ParityInv ==
  ASSUME IInv, Parity, [Next]_vars
  PROVE  Parity'
<1>1. /\ now \in Nat /\ count \in [Disturbance -> Nat] /\ count["flips"] \in Nat
      /\ lostAt \in Int
  BY BoundsAssumption DEF IInv, Types, Clocks, Disturbance, NoTime
<1>2. CASE Mains
  <2>1. /\ now' = now /\ count' = [count EXCEPT !["flips"] = @ + 1]
        /\ lostAt' = IF lostAt = NoTime THEN now ELSE NoTime
    BY <1>2 DEF Mains, Happens
  <2>2. count'["flips"] = count["flips"] + 1
    BY <1>1, <2>1 DEF Disturbance
  <2>3. \A n \in Nat : n % 2 = 0 <=> (n + 1) % 2 # 0
    OBVIOUS
  <2> QED BY <1>1, <2>1, <2>2, <2>3 DEF Parity, NoTime
<1>3. CASE ~Mains
  <2>1. /\ lostAt' = lostAt /\ now' \in {now, now + 1}
        /\ \/ count' = count
           \/ \E d \in Disturbance \ {"flips"} : count' = [count EXCEPT ![d] = @ + 1]
    <3>1. CASE Guard
      BY <1>1, <3>1 DEF Guard, environment, history, Start, Round, LoadFails, Sample, Expired,
         BeginStopAll, EndStopAll, BeginForce, EndForce, ForceIncomplete, ForceStop,
         ForceStopFails, CheckPoweroff, PoweroffBlocked, PoweroffAccepted, PoweroffFails,
         Persist, PersistFails, Wake, Die, Happens, Disturbance
    <3>2. CASE Environment
      BY <1>1, <1>3, <3>2 DEF Environment, environment, history, Tick, SaveConfig, Crash,
         HostHalts, UPSEmpty, HostStops, HostBoots, GuestStops, OperatorStarts, Die, Happens,
         Disturbance
    <3>3. CASE UNCHANGED vars
      BY <3>3 DEF vars, environment
    <3> QED BY <3>1, <3>2, <3>3 DEF Next
  <2>2. count'["flips"] = count["flips"]
    BY <1>1, <2>1 DEF Disturbance
  <2> QED BY <1>1, <2>1, <2>2 DEF Parity
<1> QED BY <1>2, <1>3

(* A process runs a revision that was stored, and saves that one.          *)
LEMMA RevisedInv ==
  ASSUME IInv, Revised, [Next]_vars
  PROVE  Revised'
<1>1. stored \in Nat /\ revision \in Nat /\ 1 <= stored
      /\ \A s \in file : s.revision \in Nat
  <2>1. Len(Settings) \in Nat
    BY SettingsAssumption
  <2> QED BY <2>1 DEF IInv, Types, Clocks, Files, Saved, Revisions
<1>2. CASE Start
  <2>1. /\ file' = Restorable(file, boot) /\ file' \subseteq file /\ stored' = stored
        /\ revision' = stored \/ \E s \in file' : revision' = s.revision
    BY <1>2 DEF Start, Resume, Restorable, environment
  <2> QED BY <1>1, <2>1 DEF Revised
<1>3. CASE Persist
  <2>1. /\ file' = Save(boot, origin, revision, status, lastAt)
        /\ stored' = stored /\ revision' = revision
    BY <1>3 DEF Persist, environment, settings
  <2>2. \A s \in file' : s.revision = revision
    BY <2>1 DEF Save, NoFile
  <2> QED BY <2>1, <2>2 DEF Revised
<1>4. CASE ~Start /\ ~Persist
  <2>1. file' = file /\ revision' \in {revision, 1, stored} /\ stored' \in {stored, stored + 1}
    <3>1. CASE Guard
      BY <1>4, <3>1 DEF Guard, environment, settings, Round, LoadFails, Sample, Expired,
         BeginStopAll, EndStopAll, BeginForce, EndForce, ForceIncomplete, ForceStop,
         ForceStopFails, CheckPoweroff, PoweroffBlocked, PoweroffAccepted, PoweroffFails,
         PersistFails, Wake, Die, Forget
    <3>2. CASE Environment
      BY <3>2 DEF Environment, environment, settings, Tick, Mains, SaveConfig, Crash,
         HostHalts, UPSEmpty, HostStops, HostBoots, GuestStops, OperatorStarts, Die, Forget
    <3>3. CASE UNCHANGED vars
      BY <3>3 DEF vars, environment, settings
    <3> QED BY <3>1, <3>2, <3>3 DEF Next
  <2> QED BY <1>1, <2>1 DEF Revised
<1> QED BY <1>2, <1>3, <1>4

-----------------------------------------------------------------------------
(* What is promised of a host that is up, without the disturbances that    *)
(* LeavesTime leaves out.                                                  *)
Timed == host = "up" => OnTime /\ Started /\ Known

Promised == IInv /\ Parity /\ Revised /\ Unasked /\ Timed

(* The values of the engine in force.                                      *)
LEMMA EngineValues ==
  ASSUME IInv
  PROVE  /\ now \in Nat /\ origin \in Nat /\ lastAt \in Int
         /\ lostAt \in Int /\ NoTime \in Int
         /\ revision \in Revisions /\ stored \in Revisions
         /\ count["flips"] \in Nat /\ count["flips"] <= Limits["flips"]
         /\ Interval = Every(revision) /\ Interval \in Nat /\ Interval >= 1
         /\ SampledAt \in Int
         /\ lastAt # NoTime => SampledAt \in Nat
         /\ status.outageStartedAt # NoTime => Began \in Nat
         /\ Coherent(status)
         /\ status.nutStartedAt \in Int /\ status.recoveryCount \in Nat
<1>1. /\ now \in Nat /\ origin \in Nat /\ lastAt \in Nat \cup {NoTime}
      /\ lostAt \in Nat \cup {NoTime} /\ NoTime \in Int
      /\ revision \in Revisions /\ stored \in Revisions
      /\ count["flips"] \in Nat /\ count["flips"] <= Limits["flips"]
      /\ Coherent(status)
  BY BoundsAssumption DEF IInv, Types, Clocks, PastTime, NoTime, Disturbance
<1>2. Interval = Every(revision) /\ Interval \in Nat /\ Interval >= 1
  BY <1>1, Lengths DEF Interval, Every
<1>3. /\ status.outageStartedAt \in Nat \cup {NoTime}
      /\ status.nutStartedAt \in Int /\ status.recoveryCount \in Nat
  BY <1>1 DEF Coherent, EngineStatus, Instant, NoTime
<1> QED BY <1>1, <1>2, <1>3 DEF SampledAt, Began, NoTime

(* A saved shutdown: its outage and revision.                              *)
LEMMA SavedValues ==
  ASSUME IInv, NEW s \in SavedShutdown
  PROVE  /\ s \in file /\ s.boot = boot /\ s.status.state = "SHUTTING_DOWN"
         /\ s.origin \in Nat /\ s.revision \in Revisions
         /\ s.status.outageStartedAt \in Nat /\ s.origin + s.status.outageStartedAt \in Nat
         /\ Coherent(s.status)
<1>1. s \in file /\ s.boot = boot /\ s.status.state = "SHUTTING_DOWN"
  BY DEF SavedShutdown
<1>2. s.origin \in Nat /\ s.revision \in Revisions /\ Coherent(s.status)
  BY <1>1, EngineValues DEF IInv, Types, Files, Saved
<1>3. s.status.outageStartedAt \in Nat
  BY <1>1, <1>2 DEF Coherent, EngineStatus, Instant, NoTime
<1> QED BY <1>1, <1>2, <1>3

(* The engine and the file stay what they were.                            *)
Held ==
  /\ boot' = boot /\ file' = file
  /\ revision' = revision /\ origin' = origin /\ status' = status /\ lastAt' = lastAt

LEMMA HeldTerms ==
  ASSUME Held
  PROVE  /\ SampledAt' = SampledAt /\ Began' = Began /\ Interval' = Interval
         /\ SavedShutdown' = SavedShutdown
         /\ Restorable(file', boot') = Restorable(file, boot)
BY DEF Held, SampledAt, Began, Interval, SavedShutdown, Restorable

(* Whether the outage began in time depends on the mains alone, and what   *)
(* is known of the saved shutdown on where the process is.                 *)
LEMMA HeldParts ==
  ASSUME Promised, Held, host = "up", lostAt' = lostAt, now' \in {now, now + 1}
  PROVE  /\ Started'
         /\ pc # "down" /\ (pc' \in {"wait", "loop"} => pc \in {"wait", "loop"}) => Known'
<1>1. SavedShutdown' = SavedShutdown /\ Began' = Began
  BY HeldTerms
<1>2. \A b \in Nat : \A q : BeganBy(b, q) => BeganBy(b, q)'
  BY EngineValues DEF BeganBy, Promised
<1>3. status.outageStartedAt # NoTime => Began \in Nat
  BY EngineValues DEF Promised
<1>4. \A s \in SavedShutdown : s.origin + s.status.outageStartedAt \in Nat
  BY SavedValues DEF Promised
<1>5. Started'
  BY <1>1, <1>2, <1>3, <1>4 DEF Promised, Timed, Started, Held
<1>6. ASSUME pc # "down", pc' \in {"wait", "loop"} => pc \in {"wait", "loop"}
      PROVE  Known'
  BY <1>1, <1>6 DEF Promised, Timed, Known, Held
<1> QED BY <1>5, <1>6

-----------------------------------------------------------------------------
(* Steps of the world around the guard.                                    *)

(* The guard stays where it is.                                            *)
Still ==
  /\ Held /\ pc' = pc /\ host' = host /\ due' = due /\ tick' = tick
  /\ todo' = todo /\ targets' = targets /\ failed' = failed

(* What it has to do takes no longer with fewer guests.                    *)
LEMMA StillParts ==
  ASSUME Promised, Still, now' = now, Retries' = Retries, running' \subseteq running, host = "up"
  PROVE  /\ pc = "down" => Resuming'
         /\ status.state = "SHUTTING_DOWN" => Waiting'
         /\ status.state = "POWERED_OFF" => Closed'
<1>1. /\ SavedShutdown' = SavedShutdown /\ Began' = Began /\ Interval' = Interval
      /\ revision' = revision /\ pc' = pc /\ due' = due /\ tick' = tick /\ todo' = todo
      /\ targets' = targets /\ failed' = failed
  BY HeldTerms DEF Still, Held
<1>2. now \in Nat /\ (running = {} => running' = {})
  BY EngineValues DEF Promised
<1>3. /\ Needed(running) \in Nat /\ Needed(running') \in Nat
      /\ Needed(running') <= Needed(running)
      /\ Needed(running)' = Needed(running')
  <2>1. /\ \A guests : Needed(guests) \in Nat
        /\ Retries \in Nat
        /\ Needed({}) = PoweroffTimeout + Retries
        /\ \A guests : guests # {} => Needed(guests) = ForceTimeout + PoweroffTimeout + Retries
    BY RetriesLeft DEF Promised
  <2>2. Needed(running') <= Needed(running)
    <3>1. ForceTimeout \in Nat /\ PoweroffTimeout \in Nat
      BY CommandTimes
    <3>2. CASE running = {}
      BY <1>2, <2>1, <3>2
    <3>3. CASE running # {} /\ running' = {}
      <4>1. /\ Needed(running) = ForceTimeout + PoweroffTimeout + Retries
            /\ Needed(running') = PoweroffTimeout + Retries
        BY <2>1, <3>3
      <4> QED BY <2>1, <3>1, <4>1
    <3>4. CASE running # {} /\ running' # {}
      <4>1. Needed(running) = Needed(running')
        BY <2>1, <3>4
      <4> QED BY <2>1, <4>1
    <3> QED BY <3>2, <3>3, <3>4
  <2>3. Needed(running)' = Needed(running')
    BY DEF Needed
  <2> QED BY <2>1, <2>2, <2>3
<1>4. OnTime
  BY DEF Promised, Timed
<1>5. ASSUME pc = "down" PROVE Resuming'
  <2>1. Resuming
    BY <1>4, <1>5 DEF OnTime
  <2> SUFFICES ASSUME NEW s \in SavedShutdown
               PROVE  due \in now..FinishBy(s.origin + s.status.outageStartedAt, s.revision)
                                     - Needed(running')
    BY <1>1, <1>3 DEF Resuming
  <2>2. due \in now..FinishBy(s.origin + s.status.outageStartedAt, s.revision) - Needed(running)
    BY <2>1 DEF Resuming
  <2>3. FinishBy(s.origin + s.status.outageStartedAt, s.revision) \in Nat
    BY SavedValues, TimesAreNat DEF Promised
  <2> QED BY <1>2, <1>3, <2>2, <2>3
<1>6. ASSUME status.state = "SHUTTING_DOWN" PROVE Waiting'
  <2>1. Waiting
    BY <1>4, <1>6 DEF OnTime
  <2>2. CASE pc = "loop"
    <3>1. tick \in 0..now + Interval /\ now + Needed(running) <= FinishBy(Began, revision)
      BY <2>1, <2>2 DEF Waiting
    <3>2. FinishBy(Began, revision) \in Nat
      BY <1>6, EngineValues, TimesAreNat DEF Promised, Coherent
    <3>3. now + Needed(running') <= FinishBy(Began, revision)
      BY <1>2, <1>3, <3>1, <3>2
    <3> QED BY <1>1, <1>3, <2>2, <3>1, <3>3 DEF Waiting
  <2>3. CASE pc # "loop"
    BY <1>1, <2>1, <2>3 DEF Waiting
  <2> QED BY <2>2, <2>3
<1>7. ASSUME status.state = "POWERED_OFF" PROVE Closed'
  <2>1. Closed
    BY <1>4, <1>7 DEF OnTime
  <2> HIDE DEF Retries
  <2> QED BY <1>1, <1>2, <2>1 DEF Closed
<1> QED BY <1>5, <1>6, <1>7

(* A step that counts no failed command leaves the retries.                *)
LEMMA RetriesKept ==
  ASSUME IInv, \/ count' = count
               \/ \E d \in Disturbance \ {"commands"} : count' = [count EXCEPT ![d] = @ + 1]
  PROVE  Retries' = Retries /\ count'["commands"] = count["commands"]
<1>1. count \in [Disturbance -> Nat]
  BY DEF IInv, Types, Clocks
<1>2. count'["commands"] = count["commands"]
  BY <1>1 DEF Disturbance
<1> QED BY <1>2 DEF Retries

(* The mains go off or come back: an outage that was seen began before,    *)
(* one that was not is seen within an interval, and a flicker puts the     *)
(* confirmation off by a gap.                                              *)
LEMMA MainsTimed ==
  ASSUME Promised, Mains
  PROVE  Unasked' /\ Timed'
<1>1. /\ Still /\ now' = now /\ running' = running /\ asked' = asked /\ stored' = stored
      /\ count' = [count EXCEPT !["flips"] = @ + 1]
      /\ lostAt' = IF lostAt = NoTime THEN now ELSE NoTime
  BY DEF Mains, Still, Held, Happens, settings, engine, command
<1>2. /\ SampledAt' = SampledAt /\ Began' = Began /\ Interval' = Interval
      /\ SavedShutdown' = SavedShutdown /\ Restorable(file', boot') = Restorable(file, boot)
      /\ status' = status /\ revision' = revision /\ origin' = origin /\ lastAt' = lastAt
      /\ file' = file /\ pc' = pc /\ host' = host /\ due' = due /\ tick' = tick
  BY <1>1, HeldTerms DEF Still, Held
<1>3. Unasked'
  BY <1>1, <1>2 DEF Promised, Unasked
<1> SUFFICES ASSUME host = "up" PROVE OnTime' /\ Started' /\ Known'
  BY <1>2, <1>3 DEF Timed
<1>4. OnTime /\ Started /\ Known /\ Parity
  BY DEF Promised, Timed
<1>5. Retries' = Retries
  BY <1>1, RetriesKept DEF Promised, Disturbance
<1>6. /\ pc = "down" => Resuming'
      /\ status.state = "SHUTTING_DOWN" => Waiting'
      /\ status.state = "POWERED_OFF" => Closed'
  BY <1>1, <1>5, StillParts
<1>7. /\ now \in Nat /\ lostAt \in Int /\ NoTime = -1 /\ Interval \in Nat /\ SampledAt \in Int
      /\ revision \in Revisions /\ revision \in 1..revision
      /\ \A q \in Revisions : Every(q) \in Nat
  <2>1. Len(Settings) \in Nat
    BY SettingsAssumption
  <2>2. /\ now \in Nat /\ lostAt \in Int /\ Interval \in Nat /\ SampledAt \in Int
        /\ revision \in Revisions
    BY EngineValues DEF Promised
  <2>3. revision \in 1..revision
    BY <2>1, <2>2 DEF Revisions
  <2>4. \A q \in Revisions : Every(q) \in Nat
    BY Lengths
  <2> QED BY <2>2, <2>3, <2>4 DEF NoTime
<1>8. pc = "down" => Booted'
  <2>1. lostAt' # NoTime => now <= lostAt'
    BY <1>1, <1>7
  <2> QED BY <1>1, <1>2, <1>4, <2>1 DEF OnTime, Booted
<1>9. ASSUME pc # "down", status.state \in Watched PROVE Sampling'
  <2>1. Sampling
    BY <1>4, <1>9 DEF OnTime
  <2>2. lostAt' # NoTime => lostAt' = now
    BY <1>1
  <2>3. pc = "loop" => (lostAt' # NoTime => now <= lostAt' + Interval)
    BY <1>7, <2>2
  <2>4. pc \in {"save", "wait"} => (lostAt' # NoTime => tick <= lostAt' + Interval)
    <3> SUFFICES ASSUME pc \in {"save", "wait"}, lostAt' # NoTime PROVE tick <= lostAt' + Interval
      OBVIOUS
    <3>1. SampledAt <= now /\ tick = SampledAt + Interval
      BY <2>1 DEF Sampling
    <3> QED BY <1>7, <2>2, <3>1
  <2> QED BY <1>1, <1>2, <2>1, <2>3, <2>4 DEF Sampling
<1>10. ASSUME pc # "down", status.state \in Watched PROVE Confirming'
  <2> SUFFICES ASSUME status.state = "CONFIRMING_OUTAGE" PROVE Confirming'
    BY <1>2 DEF Confirming
  <2>1. Confirming
    BY <1>4, <1>10 DEF OnTime
  <2> DEFINE n == count["flips"]
             t == origin + status.nutStartedAt
             b == StartBy(Began, n, revision)
             e == StartBy(Began, n + 1, revision)
             g == Gap(revision)
             left == Settings[revision].detection.recoverySuccessCount - status.recoveryCount
             r == SampledAt + left * Interval
  <2>2. count'["flips"] = n + 1
    BY <1>1 DEF Promised, IInv, Types, Clocks, Disturbance
  <2>3. /\ lastAt # NoTime
        /\ status.nutStartedAt # NoTime =>
             /\ status.recoveryCount = 0
             /\ lastAt < status.nutStartedAt + Confirm(revision)
             /\ t <= b
             /\ lostAt = NoTime => t + g <= b
        /\ status.nutStartedAt = NoTime => left >= 1 /\ r <= b
    BY <2>1 DEF Confirming
  <2>4. Began \in Nat /\ n \in Nat /\ t \in Int /\ g \in Nat /\ left \in Int /\ Interval \in Nat
    <3>1. status.outageStartedAt # NoTime
      BY EngineValues DEF Promised, Coherent
    <3> QED BY <3>1, EngineValues, Lengths DEF Promised
  <2>5. r \in Int
    <3>1. \A i, j \in Int : i * j \in Int
      OBVIOUS
    <3> QED BY <1>7, <2>4, <3>1
  <2>6. /\ b \in Nat
        /\ n % 2 = 0 => e = b
        /\ n % 2 # 0 => e = b + g
    BY <1>7, <2>4, StartByGrows
  <2>7. lostAt = NoTime <=> n % 2 = 0
    BY <1>4 DEF Parity
  <2>8. lostAt' = NoTime <=> lostAt # NoTime
    BY <1>1, <1>7
  <2> HIDE DEF n, t, b, e, g, left, r
  <2>9. b <= e /\ e \in Int
    BY <2>4, <2>6
  <2>10. status.nutStartedAt # NoTime => t <= e /\ (lostAt' = NoTime => t + g <= e)
    BY <2>3, <2>4, <2>6, <2>7, <2>8, <2>9
  <2>11. status.nutStartedAt = NoTime => left >= 1 /\ r <= e
    BY <2>3, <2>5, <2>6, <2>9
  <2> QED BY <1>2, <2>2, <2>3, <2>10, <2>11 DEF Confirming, n, t, b, e, g, left, r
<1>11. OnTime'
  BY <1>2, <1>6, <1>8, <1>9, <1>10 DEF OnTime
<1>12. \A b \in Nat : \A q \in Revisions : BeganBy(b, q) => BeganBy(b, q)'
  <2> SUFFICES ASSUME NEW b \in Nat, NEW q \in Revisions, b <= now, lostAt' # NoTime
               PROVE  \E r \in 1..q : b <= lostAt' + Every(r)
    BY <1>1 DEF BeganBy
  <2>1. lostAt' = now
    BY <1>1
  <2>2. q \in 1..q /\ Every(q) \in Nat
    BY <1>7 DEF Revisions
  <2>3. b <= lostAt' + Every(q)
    BY <1>7, <2>1, <2>2
  <2> QED BY <2>2, <2>3
<1>13. Started'
  <2>1. status.outageStartedAt # NoTime => Began \in Nat
    BY EngineValues DEF Promised
  <2>2. \A s \in SavedShutdown :
          s.origin + s.status.outageStartedAt \in Nat /\ s.revision \in Revisions
    BY SavedValues DEF Promised
  <2> QED BY <1>2, <1>4, <1>7, <1>12, <2>1, <2>2 DEF Started
<1>14. Known'
  BY <1>2, <1>4 DEF Known
<1> QED BY <1>11, <1>13, <1>14

(* The console stores a configuration, and a guest stops: nothing takes    *)
(* longer.                                                                 *)
LEMMA OutsideTimed ==
  ASSUME Promised, SaveConfig \/ \E g \in Guests : GuestStops(g)
  PROVE  Unasked' /\ Timed'
<1>1. /\ Still /\ now' = now /\ asked' = asked /\ count' = count /\ lostAt' = lostAt
      /\ running' \subseteq running /\ (asked = {} => running' = running)
  BY DEF SaveConfig, GuestStops, Still, Held, settings, engine, command
<1>2. /\ SampledAt' = SampledAt /\ Began' = Began /\ Interval' = Interval
      /\ SavedShutdown' = SavedShutdown /\ Restorable(file', boot') = Restorable(file, boot)
      /\ status' = status /\ revision' = revision /\ origin' = origin /\ lastAt' = lastAt
      /\ file' = file /\ pc' = pc /\ host' = host /\ due' = due /\ tick' = tick
  BY <1>1, HeldTerms DEF Still, Held
<1>3. Unasked'
  BY <1>1, <1>2 DEF Promised, Unasked
<1> SUFFICES ASSUME host = "up" PROVE OnTime' /\ Started' /\ Known'
  BY <1>2, <1>3 DEF Timed
<1>4. OnTime /\ Started /\ Known
  BY DEF Promised, Timed
<1>5. Retries' = Retries
  BY <1>1, RetriesKept DEF Promised
<1>6. /\ pc = "down" => Resuming'
      /\ status.state = "SHUTTING_DOWN" => Waiting'
      /\ status.state = "POWERED_OFF" => Closed'
  BY <1>1, <1>5, StillParts
<1>7. Booted' <=> Booted
  BY <1>1, <1>2 DEF Booted
<1>8. Sampling' <=> Sampling
  BY <1>1, <1>2 DEF Sampling
<1>9. Confirming' <=> Confirming
  BY <1>1, <1>2 DEF Confirming
<1>10. OnTime'
  BY <1>2, <1>4, <1>6, <1>7, <1>8, <1>9 DEF OnTime
<1>11. Started'
  BY <1>1, HeldParts DEF Still
<1>12. Known'
  BY <1>2, <1>4 DEF Known
<1> QED BY <1>10, <1>11, <1>12

(* The clock moves on while nothing is due.                                *)
LEMMA TickTimed ==
  ASSUME Promised, Tick
  PROVE  Unasked' /\ Timed'
<1>1. /\ Still /\ now' = now + 1 /\ running' = running /\ asked' = asked /\ count' = count
      /\ lostAt' = lostAt /\ Idle
  BY DEF Tick, Still, Held, environment, settings, engine, command
<1>2. /\ SampledAt' = SampledAt /\ Began' = Began /\ Interval' = Interval
      /\ SavedShutdown' = SavedShutdown /\ Restorable(file', boot') = Restorable(file, boot)
      /\ status' = status /\ revision' = revision /\ origin' = origin /\ lastAt' = lastAt
      /\ file' = file /\ pc' = pc /\ host' = host /\ due' = due /\ tick' = tick
      /\ targets' = targets /\ failed' = failed /\ todo' = todo
  BY <1>1, HeldTerms DEF Still, Held
<1>3. Unasked'
  BY <1>1, <1>2 DEF Promised, Unasked
<1> SUFFICES ASSUME host = "up" PROVE OnTime' /\ Started' /\ Known'
  BY <1>2, <1>3 DEF Timed
<1>4. OnTime /\ Started /\ Known
  BY DEF Promised, Timed
<1>5. /\ Retries' = Retries /\ Needed(running)' = Needed(running)
      /\ Retries \in Nat /\ Needed(running) \in Nat
  <2>1. Retries' = Retries
    BY <1>1, RetriesKept DEF Promised
  <2> QED BY <1>1, <2>1, RetriesLeft DEF Needed, Promised
<1>6. now \in Nat /\ Interval \in Nat /\ SampledAt \in Int /\ revision \in Revisions
  BY EngineValues DEF Promised
<1>7. \/ pc = "wait" /\ now < tick
      \/ pc \in {"stopall", "force", "poweroff"} /\ now < due
      \/ pc = "down" /\ now < due
  BY <1>1 DEF Idle
<1>8. ASSUME pc = "down" PROVE Booted' /\ Resuming'
  <2>1. Booted /\ Resuming /\ now < due
    BY <1>4, <1>7, <1>8 DEF OnTime
  <2>2. SavedShutdown # {}
    BY <1>6, <2>1 DEF Booted
  <2>3. ASSUME NEW s \in SavedShutdown
        PROVE  due \in now + 1..FinishBy(s.origin + s.status.outageStartedAt, s.revision)
                                 - Needed(running)
    <3>1. FinishBy(s.origin + s.status.outageStartedAt, s.revision) \in Nat
      BY SavedValues, TimesAreNat DEF Promised
    <3>2. due \in now..FinishBy(s.origin + s.status.outageStartedAt, s.revision) - Needed(running)
      BY <2>1 DEF Resuming
    <3> QED BY <1>5, <1>6, <2>1, <3>1, <3>2
  <2> QED BY <1>1, <1>2, <1>5, <2>2, <2>3 DEF Booted, Resuming
<1>9. ASSUME pc # "down", status.state \in Watched PROVE Sampling' /\ Confirming'
  <2>1. Sampling /\ Confirming
    BY <1>4, <1>9 DEF OnTime
  <2>2. pc = "wait" /\ now < tick
    BY <1>7, <1>9, <2>1 DEF Sampling
  <2>3. lastAt # NoTime /\ SampledAt <= now /\ tick = SampledAt + Interval
        /\ (status.state = "NORMAL" /\ lostAt # NoTime => tick <= lostAt + Interval)
    BY <2>1, <2>2 DEF Sampling
  <2>4. SampledAt <= now + 1 /\ now + 1 <= tick
    BY <1>6, <2>2, <2>3
  <2>5. Sampling'
    BY <1>1, <1>2, <2>2, <2>3, <2>4 DEF Sampling
  <2>6. Confirming' <=> Confirming
    BY <1>1, <1>2 DEF Confirming
  <2> QED BY <2>1, <2>5, <2>6
<1>10. ASSUME status.state = "SHUTTING_DOWN" PROVE Waiting'
  <2>1. Waiting /\ pc \in {"wait", "stopall"}
    <3>1. Waiting
      BY <1>4, <1>10 DEF OnTime
    <3>2. pc # "down"
      BY <1>10 DEF Promised, IInv, Places, NewStatus
    <3> QED BY <1>7, <3>1, <3>2 DEF Waiting
  <2>2. /\ Emergency(Began, revision) \in Nat /\ SampleBy(Began, revision) \in Nat
        /\ Emergency(Began, revision) <= SampleBy(Began, revision)
    BY <1>10, EngineValues, TimesAreNat DEF Promised, Coherent
  <2>3. /\ now \in 0..SampleBy(Began, revision) /\ tick \in 0..SampleBy(Began, revision)
        /\ pc = "stopall" => due \in now..Emergency(Began, revision)
    BY <2>1 DEF Waiting
  <2>4. /\ now + 1 \in 0..SampleBy(Began, revision)
        /\ pc = "stopall" => due \in now + 1..Emergency(Began, revision)
    <3>1. CASE pc = "wait"
      BY <1>6, <1>7, <2>2, <2>3, <3>1
    <3>2. CASE pc = "stopall"
      BY <1>6, <1>7, <2>2, <2>3, <3>2
    <3> QED BY <2>1, <3>1, <3>2
  <2> QED BY <1>1, <1>2, <2>1, <2>3, <2>4 DEF Waiting
<1>11. ASSUME status.state = "POWERED_OFF" PROVE Closed'
  <2>1. Closed /\ pc \in {"force", "poweroff"} /\ now < due
    <3>1. Closed
      BY <1>4, <1>11 DEF OnTime
    <3>2. pc # "stopall"
      BY <3>1 DEF Closed, Promised, IInv, Commanded
    <3> QED BY <1>7, <3>1, <3>2 DEF Closed, Commanding
  <2> DEFINE by == FinishBy(Began, revision) - Retries
  <2>2. by \in Int
    BY <1>5, <1>11, EngineValues, TimesAreNat DEF Promised, Coherent
  <2>3. /\ pc \in Commanding /\ Head(todo) # "graceful_shutdown"
        /\ pc = "force" =>
             /\ ~failed => running \subseteq targets /\ due \in now..by - PoweroffTimeout
             /\ failed => due \in now..by - RestartDelay - ForceTimeout - PoweroffTimeout
        /\ pc = "poweroff" => running = {} /\ due \in now..by
    BY <2>1 DEF Closed
  <2>4. by' = by
    BY <1>2, <1>5
  <2> HIDE DEF by
  <2>5. \A i, t \in Int : now < t /\ t \in now..i => t \in now + 1..i
    BY <1>6
  <2>6. /\ by - PoweroffTimeout \in Int
        /\ by - RestartDelay - ForceTimeout - PoweroffTimeout \in Int
    BY <2>2, CommandTimes
  <2>7. /\ pc = "force" =>
             /\ ~failed => due \in now + 1..by - PoweroffTimeout
             /\ failed => due \in now + 1..by - RestartDelay - ForceTimeout - PoweroffTimeout
        /\ pc = "poweroff" => due \in now + 1..by
    BY <2>1, <2>2, <2>3, <2>5, <2>6
  <2> QED BY <1>1, <1>2, <2>1, <2>3, <2>4, <2>7 DEF Closed, by
<1>12. OnTime'
  BY <1>2, <1>8, <1>9, <1>10, <1>11 DEF OnTime
<1>13. Started'
  BY <1>1, HeldParts DEF Still
<1>14. Known'
  BY <1>2, <1>4 DEF Known
<1> QED BY <1>12, <1>13, <1>14

(* A host that is off promises nothing, ...                                *)
LEMMA HostStopsTimed ==
  ASSUME Promised, HostStops
  PROVE  Unasked' /\ Timed'
BY DEF HostStops, Unasked, Timed

(* ... and one that boots begins anew.                                     *)
LEMMA HostBootsTimed ==
  ASSUME Promised, HostBoots
  PROVE  Unasked' /\ Timed'
<1>1. /\ host = "off" /\ host' = "up" /\ boot' = boot + 1 /\ lostAt = NoTime
      /\ now' = now /\ due' = now /\ lostAt' = lostAt /\ running' = Guests /\ asked' = asked
      /\ file' = file /\ pc' = pc /\ status' = status
  BY DEF HostBoots, engine
<1>2. pc = "down" /\ status = NewStatus /\ asked = {}
  BY <1>1 DEF Promised, IInv, Places, Unasked
<1>3. boot \in Nat /\ now \in Nat /\ \A s \in file : s.boot \in 0..boot
  BY EngineValues DEF Promised, IInv, Types, Clocks, Files, Saved
<1>4. \A s \in file : s.boot # boot + 1
  BY <1>3
<1>5. SavedShutdown' = {} /\ Restorable(file', boot') = {}
  BY <1>1, <1>4 DEF SavedShutdown, Restorable
<1>6. NewStatus.state = "NORMAL" /\ NewStatus.outageStartedAt = NoTime
  BY DEF NewStatus
<1>7. Unasked'
  BY <1>1, <1>2 DEF Unasked
<1>8. Booted' /\ Resuming'
  BY <1>1, <1>3, <1>5 DEF Booted, Resuming
<1>9. OnTime' /\ Started' /\ Known'
  BY <1>1, <1>2, <1>5, <1>6, <1>8 DEF OnTime, Started, Known
<1> QED BY <1>7, <1>9 DEF Timed

-----------------------------------------------------------------------------
(* Steps of the commands.                                                  *)

(* The deadlines of the contexts are those of the bounds.                  *)
LEMMA Deadlines ==
  ASSUME Promised, LeavesTime, status.outageStartedAt # NoTime
  PROVE  /\ Began \in Nat
         /\ EmergencyDeadline = Emergency(Began, revision)
         /\ EmergencyDeadline \in Nat
         /\ TotalDeadline = Began + Settings[revision].detection.totalBudget
         /\ TotalDeadline \in Nat
         /\ FinishBy(Began, revision) \in Nat /\ FinishBy(Began, revision) <= TotalDeadline
         /\ FinishBy(Began, revision) - Retries \in Int
<1>1. /\ origin \in Nat /\ status.outageStartedAt \in Nat /\ revision \in Revisions
      /\ Began = origin + status.outageStartedAt /\ Began \in Nat
  BY EngineValues DEF Promised, Coherent, EngineStatus, Instant, Began
<1>2. /\ Settings[revision].detection.totalBudget \in Nat /\ Reserve(revision) \in Nat
      /\ Reserve(revision) = Settings[revision].detection.emergencyReserve
  BY <1>1, Lengths DEF Reserve
<1>3. EmergencyDeadline = Emergency(Began, revision)
  BY <1>1, <1>2 DEF EmergencyDeadline, EmergencyAt, Detection, Emergency
<1>4. TotalDeadline = Began + Settings[revision].detection.totalBudget
  BY <1>1, <1>2 DEF TotalDeadline, Detection
<1>5. Retries \in Nat
  BY RetriesLeft DEF Promised
<1>6. Emergency(Began, revision) \in Nat /\ FinishBy(Began, revision) \in Nat
  BY <1>1, TimesAreNat
<1>7. FinishBy(Began, revision) <= Began + Settings[revision].detection.totalBudget
  BY <1>1, TimeIsLeft
<1> QED BY <1>1, <1>2, <1>3, <1>4, <1>5, <1>6, <1>7

(* The commands a process is at belong to the state of its engine, which   *)
(* is late for none of them.                                               *)
LEMMA AtCommand ==
  ASSUME Promised, pc \in Commanding
  PROVE  /\ todo # <<>> /\ todo \in ToDos
         /\ status.state \notin Watched /\ status.outageStartedAt # NoTime
         /\ \/ status.state = "SHUTTING_DOWN" /\ todo = <<"graceful_shutdown">>
            \/ status.state = "POWERED_OFF" /\ todo \in Closing
         /\ host = "up" /\ Head(todo) = "graceful_shutdown" =>
              status.state = "SHUTTING_DOWN" /\ Waiting
         /\ host = "up" /\ Head(todo) # "graceful_shutdown" =>
              status.state = "POWERED_OFF" /\ Closed /\ SavedShutdown # {}
<1>1. /\ todo # <<>> /\ todo \in ToDos
      /\ \/ status.state = "SHUTTING_DOWN" /\ todo = <<"graceful_shutdown">>
         \/ status.state = "POWERED_OFF" /\ todo \in Closing
  BY DEF Promised, IInv, Commanded, Types, Clocks
<1>2. status.state \notin Watched
  BY <1>1 DEF Watched
<1>3. status.outageStartedAt # NoTime
  BY <1>2, EngineValues DEF Promised, Coherent, Watched
<1>4. ASSUME host = "up" PROVE OnTime /\ Known /\ pc # "down"
  BY <1>4 DEF Promised, Timed, Commanding
<1>5. host = "up" /\ status.state = "SHUTTING_DOWN" => Waiting
  BY <1>4 DEF OnTime
<1>6. host = "up" /\ status.state = "POWERED_OFF" => Closed /\ SavedShutdown # {}
  BY <1>4 DEF OnTime, Known
<1>7. Closed => Head(todo) # "graceful_shutdown"
  BY DEF Closed
<1>8. Head(<<"graceful_shutdown">>) = "graceful_shutdown"
  OBVIOUS
<1> QED BY <1>1, <1>2, <1>3, <1>5, <1>6, <1>7, <1>8

(* A forced stop, done or failed.                                          *)
LEMMA ForceStopTimed ==
  ASSUME Promised, LeavesTime, NEW g \in Guests, ForceStop(g) \/ ForceStopFails(g)
  PROVE  Unasked' /\ Timed'
<1>1. /\ Held /\ now' = now /\ asked' = asked /\ lostAt' = lostAt /\ host' = host
      /\ pc = "force" /\ pc' = "force" /\ due' = due /\ todo' = todo
      /\ targets' = targets \ {g}
  BY DEF ForceStop, ForceStopFails, Held, environment, settings, engine
<1>2. /\ SavedShutdown' = SavedShutdown /\ Began' = Began /\ revision' = revision
      /\ status' = status
  BY <1>1, HeldTerms DEF Held
<1>3. /\ status.state \notin Watched /\ status.outageStartedAt # NoTime
      /\ host = "up" => status.state = "POWERED_OFF" /\ Closed
  <2>1. pc \in Commanding /\ Head(todo) = "emergency_stop_remaining"
    BY <1>1 DEF Promised, IInv, Commanded, Commanding
  <2> QED BY <2>1, AtCommand
<1>4. Unasked'
  BY <1>1, <1>2, <1>3 DEF Promised, Unasked
<1> SUFFICES ASSUME host = "up" PROVE OnTime' /\ Started' /\ Known'
  BY <1>1, <1>4 DEF Timed
<1> DEFINE end == FinishBy(Began, revision)
<1>5. /\ pc \in Commanding /\ Head(todo) # "graceful_shutdown"
      /\ ~failed => running \subseteq targets /\ due \in now..end - Retries - PoweroffTimeout
      /\ failed => due \in now..end - Retries - RestartDelay - ForceTimeout - PoweroffTimeout
  BY <1>1, <1>3 DEF Closed
<1>6. end \in Nat /\ now \in Nat /\ Retries \in Nat
  BY <1>3, Deadlines, EngineValues, RetriesLeft DEF Promised
<1>7. end' = end
  BY <1>2
<1> HIDE DEF end
<1>8. Closed'
  <2>1. CASE ForceStop(g)
    <3>1. /\ running' = running \ {g} /\ failed' = failed /\ Retries' = Retries
      BY <2>1, RetriesKept DEF ForceStop, Promised
    <3>2. ~failed => running \ {g} \subseteq targets \ {g}
      BY <1>5
    <3> HIDE DEF Retries
    <3> QED BY <1>1, <1>5, <1>7, <3>1, <3>2 DEF Closed, end
  <2>2. CASE ForceStopFails(g)
    <3>1. failed' = TRUE /\ Happens("commands")
      BY <2>2 DEF ForceStopFails
    <3>2. Retries = Retries' + Retry /\ Retries' \in Nat
      BY <3>1, RetrySpent DEF Promised
    <3>3. due \in now..end - Retries' - RestartDelay - ForceTimeout - PoweroffTimeout
      <4> DEFINE left == Retries'
      <4>1. /\ ForceTimeout \in Nat /\ PoweroffTimeout \in Nat /\ RestartDelay \in Nat
            /\ Retry \in Nat /\ RestartDelay + ForceTimeout <= Retry
            /\ left \in Nat /\ Retries = left + Retry
        BY <3>2, CommandTimes
      <4> HIDE DEF left, Retries
      <4>2. CASE failed
        BY <1>5, <1>6, <4>1, <4>2 DEF left
      <4>3. CASE ~failed
        BY <1>5, <1>6, <4>1, <4>3 DEF left
      <4> QED BY <4>2, <4>3
    <3> HIDE DEF Retries
    <3> QED BY <1>1, <1>5, <1>7, <3>1, <3>3 DEF Closed, end
  <2> QED BY <2>1, <2>2
<1>9. OnTime'
  BY <1>1, <1>2, <1>3, <1>8 DEF OnTime, Watched
<1> QED BY <1>1, <1>9, HeldParts

(* After the forced stops only the poweroff is left.                       *)
LEMMA AfterForce ==
  ASSUME NEW l \in Closing, Head(l) = "emergency_stop_remaining"
  PROVE  Tail(l) = <<"host_poweroff_requested">>
<1>1. CASE l = <<"emergency_stop_remaining", "host_poweroff_requested">>
  BY <1>1
<1>2. CASE l = <<"graceful_shutdown", "host_poweroff_requested">>
  BY <1>2
<1>3. CASE l = <<"graceful_shutdown", "emergency_stop_remaining", "host_poweroff_requested">>
  BY <1>3
<1>4. CASE l = <<"host_poweroff_requested">>
  BY <1>4
<1> QED BY <1>1, <1>2, <1>3, <1>4 DEF Closing

(* A command begins, or ends and is followed by the next: its context      *)
(* keeps it in the time it is given.                                       *)
LEMMA CommandTimed ==
  ASSUME Promised, LeavesTime,
         BeginStopAll \/ EndStopAll \/ BeginForce \/ EndForce \/ CheckPoweroff
  PROVE  Unasked' /\ Timed'
<1>1. /\ Held /\ now' = now /\ lostAt' = lostAt /\ host' = host /\ running' = running
      /\ tick' = tick /\ count' = count
      /\ pc \in Commanding /\ pc' \in Commanding \cup {"save"}
  BY DEF BeginStopAll, EndStopAll, BeginForce, EndForce, CheckPoweroff, Finished, Held, environment,
     settings, engine, command, Commanding
<1>2. /\ SavedShutdown' = SavedShutdown /\ Began' = Began /\ revision' = revision
      /\ status' = status
  BY <1>1, HeldTerms DEF Held
<1>3. /\ todo # <<>> /\ todo \in ToDos
      /\ status.state \notin Watched /\ status.outageStartedAt # NoTime
      /\ \/ status.state = "SHUTTING_DOWN" /\ todo = <<"graceful_shutdown">>
         \/ status.state = "POWERED_OFF" /\ todo \in Closing
      /\ host = "up" /\ Head(todo) = "graceful_shutdown" =>
           status.state = "SHUTTING_DOWN" /\ Waiting
      /\ host = "up" /\ Head(todo) # "graceful_shutdown" => status.state = "POWERED_OFF" /\ Closed
  BY <1>1, AtCommand
<1>4. Unasked'
  <2>1. host # "off"
    BY <1>1 DEF Promised, IInv, Places, Commanding
  <2> QED BY <1>1, <1>2, <1>3, <2>1 DEF Unasked
<1> SUFFICES ASSUME host = "up" PROVE OnTime' /\ Started' /\ Known'
  BY <1>1, <1>4 DEF Timed
<1>5. /\ Emergency(Began, revision) \in Nat /\ EmergencyDeadline = Emergency(Began, revision)
      /\ TotalDeadline \in Nat /\ FinishBy(Began, revision) \in Nat
      /\ FinishBy(Began, revision) <= TotalDeadline
  BY <1>3, Deadlines
<1>6. /\ now \in Nat /\ Retries \in Nat /\ Retries' = Retries
      /\ ForceTimeout \in Nat /\ PoweroffTimeout \in Nat
  BY <1>1, EngineValues, RetriesLeft, RetriesKept, CommandTimes DEF Promised
<1>7. ASSUME NEW t \in Nat, NEW u \in Nat, now <= t, now < u, due' = EarlierOf(t, u)
      PROVE  due' \in Nat /\ now <= due' /\ due' <= t /\ due' <= u
  BY <1>6, <1>7 DEF EarlierOf
<1> HIDE DEF Retries
<1>8. CASE BeginStopAll
  <2>1. /\ pc = "act" /\ pc' = "stopall" /\ Head(todo) = "graceful_shutdown" /\ todo' = todo
        /\ now < EmergencyDeadline
        /\ due' = EarlierOf(now + Settings[guestRevision].guestTimeout + StopAllMargin,
                            EmergencyDeadline)
    BY <1>8 DEF BeginStopAll, command
  <2>2. Settings[guestRevision].guestTimeout \in Nat /\ StopAllMargin \in Nat
    <3> DEFINE S == [detection : Config, interval : Nat \ {0}, guestTimeout : Nat \ {0}]
    <3>1. Settings \in Seq(S) /\ guestRevision \in 1..Len(Settings)
      BY SettingsAssumption DEF Promised, IInv, Types, Clocks, Revisions
    <3> HIDE DEF S
    <3>2. Settings[guestRevision] \in S
      BY <3>1
    <3> QED BY <3>2, BoundsAssumption DEF S
  <2>3. due' \in now..Emergency(Began, revision)
    <3>1. now + Settings[guestRevision].guestTimeout + StopAllMargin \in Nat
          /\ now + Settings[guestRevision].guestTimeout + StopAllMargin >= now
      BY <1>6, <2>2
    <3> DEFINE t == now + Settings[guestRevision].guestTimeout + StopAllMargin
    <3>2. t \in Nat /\ now <= t /\ EmergencyDeadline \in Nat /\ now < EmergencyDeadline
          /\ due' = EarlierOf(t, EmergencyDeadline)
      BY <1>5, <2>1, <3>1
    <3> HIDE DEF t
    <3>3. due' \in Nat /\ due' <= EmergencyDeadline /\ now <= due'
      BY <1>7, <3>2
    <3> QED BY <1>5, <1>6, <3>3
  <2>4. status.state = "SHUTTING_DOWN" /\ Waiting
    BY <1>3, <2>1
  <2>5. {now, tick} \subseteq 0..SampleBy(Began, revision)
    BY <2>1, <2>4 DEF Waiting
  <2>6. Waiting'
    BY <1>1, <1>2, <2>1, <2>3, <2>5 DEF Waiting
  <2>7. OnTime'
    BY <1>2, <2>1, <2>4, <2>6 DEF OnTime, Watched
  <2> QED BY <1>1, <2>1, <2>7, HeldParts
<1>9. CASE EndStopAll
  <2>1. pc = "stopall" /\ Finished /\ Head(todo) = "graceful_shutdown"
    BY <1>9 DEF EndStopAll, Promised, IInv, Commanded
  <2>2. status.state = "SHUTTING_DOWN" /\ Waiting
    BY <1>3, <2>1
  <2>3. todo = <<"graceful_shutdown">> /\ Tail(<<"graceful_shutdown">>) = <<>>
    BY <1>3, <2>2
  <2>4. pc' = "save"
    BY <2>1, <2>3 DEF Finished
  <2>5. {now, tick} \subseteq 0..SampleBy(Began, revision)
    BY <2>1, <2>2 DEF Waiting
  <2>6. Waiting'
    BY <1>1, <1>2, <2>4, <2>5 DEF Waiting
  <2>7. OnTime'
    BY <1>2, <2>2, <2>4, <2>6 DEF OnTime, Watched
  <2> QED BY <1>1, <2>1, <2>4, <2>7, HeldParts
<1> DEFINE by == FinishBy(Began, revision) - Retries
<1>10. by \in Int /\ by' = by /\ by <= TotalDeadline
  BY <1>2, <1>5, <1>6
<1>11. CASE BeginForce
  <2>1. /\ pc = "act" /\ pc' = "force" /\ Head(todo) = "emergency_stop_remaining" /\ todo' = todo
        /\ targets' = running /\ failed' = FALSE /\ now < TotalDeadline
        /\ due' = EarlierOf(now + ForceTimeout, TotalDeadline)
    BY <1>11 DEF BeginForce
  <2>2. status.state = "POWERED_OFF" /\ Closed
    BY <1>3, <2>1
  <2>3. now + ForceTimeout + PoweroffTimeout <= by
    BY <2>1, <2>2 DEF Closed
  <2> HIDE DEF by
  <2>4. due' \in now..by - PoweroffTimeout
    <3>1. now + ForceTimeout \in Nat /\ now <= now + ForceTimeout
      BY <1>6
    <3>2. due' \in Nat /\ due' <= now + ForceTimeout /\ now <= due'
      BY <1>5, <1>7, <2>1, <3>1
    <3> QED BY <1>6, <1>10, <2>3, <3>2
  <2>5. Closed'
    BY <1>1, <1>2, <1>10, <2>1, <2>4 DEF Closed, by, Commanding
  <2>6. OnTime'
    BY <1>2, <2>1, <2>2, <2>5 DEF OnTime, Watched
  <2> QED BY <1>1, <2>1, <2>6, HeldParts
<1>12. CASE EndForce
  <2>1. /\ pc = "force" /\ Finished /\ Head(todo) = "emergency_stop_remaining"
        /\ ~failed /\ running = {} /\ due' = due
    BY <1>12 DEF EndForce, ForceVerified, Promised, IInv, Commanded
  <2>2. status.state = "POWERED_OFF" /\ Closed /\ todo \in Closing
    <3>1. status.state = "POWERED_OFF" /\ Closed
      BY <1>3, <2>1
    <3> QED BY <1>3, <3>1
  <2>3. todo' = <<"host_poweroff_requested">> /\ pc' = "act"
    <3>1. Tail(todo) = <<"host_poweroff_requested">>
      BY <2>1, <2>2, AfterForce
    <3>2. <<"host_poweroff_requested">> # <<>>
      OBVIOUS
    <3> QED BY <2>1, <3>1, <3>2 DEF Finished
  <2>4. due \in now..by - PoweroffTimeout
    BY <2>1, <2>2 DEF Closed
  <2>5. Head(<<"host_poweroff_requested">>) = "host_poweroff_requested"
    OBVIOUS
  <2> HIDE DEF by
  <2>6. now + PoweroffTimeout <= by
    BY <1>6, <1>10, <2>4
  <2>7. Closed'
    BY <1>1, <1>2, <1>10, <2>1, <2>3, <2>5, <2>6 DEF Closed, by, Commanding
  <2>8. OnTime'
    BY <1>2, <2>2, <2>3, <2>7 DEF OnTime, Watched
  <2> QED BY <1>1, <2>1, <2>3, <2>8, HeldParts
<1>13. CASE CheckPoweroff
  <2>1. /\ pc = "act" /\ pc' = "poweroff" /\ Head(todo) = "host_poweroff_requested" /\ todo' = todo
        /\ running = {} /\ now < TotalDeadline
        /\ due' = EarlierOf(now + PoweroffTimeout, TotalDeadline)
    BY <1>13 DEF CheckPoweroff, command
  <2>2. status.state = "POWERED_OFF" /\ Closed
    BY <1>3, <2>1
  <2>3. now + PoweroffTimeout <= by
    BY <2>1, <2>2 DEF Closed
  <2> HIDE DEF by
  <2>4. due' \in now..by
    <3>1. now + PoweroffTimeout \in Nat /\ now <= now + PoweroffTimeout
      BY <1>6
    <3>2. due' \in Nat /\ due' <= now + PoweroffTimeout /\ now <= due'
      BY <1>5, <1>7, <2>1, <3>1
    <3> QED BY <1>6, <1>10, <2>3, <3>2
  <2>5. Closed'
    BY <1>1, <1>2, <1>10, <2>1, <2>4 DEF Closed, by, Commanding
  <2>6. OnTime'
    BY <1>2, <2>1, <2>2, <2>5 DEF OnTime, Watched
  <2> QED BY <1>1, <2>1, <2>6, HeldParts
<1> QED BY <1>8, <1>9, <1>11, <1>12, <1>13

(* The host is told to halt.                                               *)
LEMMA AcceptedTimed ==
  ASSUME Promised, PoweroffAccepted
  PROVE  Unasked' /\ Timed'
BY DEF PoweroffAccepted, Unasked, Timed

(* A process that ends with a shutdown in its file is back in time.        *)
LEMMA DieTimed ==
  ASSUME Promised, Die, pc # "down",
         host = "up" => /\ SavedShutdown # {} /\ status.outageStartedAt # NoTime
                        /\ now + RestartDelay + Needed(running)' <= FinishBy(Began, revision)
                        /\ Needed(running)' \in Nat
  PROVE  Unasked' /\ Timed'
<1>1. /\ pc' = "down" /\ status' = NewStatus /\ due' = now + RestartDelay /\ now' = now
      /\ lostAt' = lostAt /\ host' = host /\ boot' = boot /\ running' = running /\ asked' = asked
      /\ file' = file /\ NewStatus.state = "NORMAL" /\ NewStatus.outageStartedAt = NoTime
  BY DEF Die, Forget, environment, NewStatus
<1>2. SavedShutdown' = SavedShutdown
  BY <1>1 DEF SavedShutdown
<1>3. Unasked'
  BY <1>1, <1>2 DEF Promised, Unasked
<1> SUFFICES ASSUME host = "up" PROVE OnTime' /\ Started' /\ Known'
  BY <1>1, <1>3 DEF Timed
<1>4. Started /\ Known
  BY DEF Promised, Timed
<1>5. Booted' /\ Known'
  BY <1>1, <1>2 DEF Booted, Known
<1>6. Resuming'
  <2> SUFFICES ASSUME NEW s \in SavedShutdown
               PROVE  now + RestartDelay \in
                        now..FinishBy(s.origin + s.status.outageStartedAt, s.revision)
                             - Needed(running)'
    BY <1>1, <1>2 DEF Resuming
  <2>1. /\ s.origin + s.status.outageStartedAt = Began /\ s.revision = revision
    BY <1>4 DEF Known, Began
  <2>2. FinishBy(Began, revision) \in Nat /\ now \in Nat /\ RestartDelay \in Nat
    BY <2>1, EngineValues, TimesAreNat, CommandTimes DEF Promised
  <2>3. Needed(running)' \in Nat /\ now + RestartDelay + Needed(running)' <= FinishBy(Began, revision)
    OBVIOUS
  <2>4. \A n \in Nat : now + RestartDelay + n <= FinishBy(Began, revision)
                         => now + RestartDelay \in now..FinishBy(Began, revision) - n
    BY <2>2
  <2> QED BY <2>1, <2>3, <2>4
<1>7. Started'
  <2>1. \A b \in Nat : \A q : BeganBy(b, q) => BeganBy(b, q)'
    BY <1>1 DEF BeganBy
  <2> QED BY <1>1, <1>2, <1>4, <2>1, SavedValues DEF Started, Promised
<1>8. OnTime'
  BY <1>1, <1>5, <1>6 DEF OnTime
<1> QED BY <1>5, <1>7, <1>8

(* A command that fails ends the process with time for another; nothing    *)
(* else ends it while its host is up.                                      *)
LEMMA FailureTimed ==
  ASSUME Promised, LeavesTime,
         \/ Expired \/ ForceIncomplete \/ PoweroffBlocked
         \/ PoweroffFails \/ PersistFails \/ Crash
  PROVE  Unasked' /\ Timed'
<1>1. ~PersistFails /\ ~Crash
  <2>1. count["saves"] \in Nat /\ count["crashes"] \in Nat
    BY DEF Promised, IInv, Types, Clocks, Disturbance
  <2> QED BY <2>1 DEF PersistFails, Crash, Happens, May, LeavesTime
<1>2. Die /\ pc \in Commanding
  BY <1>1 DEF Expired, ForceIncomplete, PoweroffBlocked, PoweroffFails, Commanding
<1>3. pc # "down" /\ running' = running
  BY <1>2 DEF Commanding, Die, environment
<1> SUFFICES ASSUME host = "up"
             PROVE  /\ SavedShutdown # {} /\ status.outageStartedAt # NoTime
                    /\ now + RestartDelay + Needed(running)' <= FinishBy(Began, revision)
                    /\ Needed(running)' \in Nat
  BY <1>2, <1>3, DieTimed
<1>4. /\ todo # <<>> /\ todo \in ToDos /\ status.outageStartedAt # NoTime
      /\ Head(todo) = "graceful_shutdown" => status.state = "SHUTTING_DOWN" /\ Waiting
      /\ Head(todo) # "graceful_shutdown" =>
           status.state = "POWERED_OFF" /\ Closed /\ SavedShutdown # {}
  BY <1>2, AtCommand
<1>5. /\ EmergencyDeadline = Emergency(Began, revision) /\ EmergencyDeadline \in Nat
      /\ TotalDeadline \in Nat /\ FinishBy(Began, revision) \in Nat
      /\ FinishBy(Began, revision) <= TotalDeadline
  BY <1>4, Deadlines
<1>6. /\ now \in Nat /\ Retries \in Nat
      /\ ForceTimeout \in Nat /\ PoweroffTimeout \in Nat /\ PoweroffTimeout > 0
      /\ RestartDelay \in Nat /\ Retry \in Nat /\ RestartDelay + PoweroffTimeout <= Retry
  BY EngineValues, RetriesLeft, CommandTimes DEF LeavesTime, Promised
<1> DEFINE end == FinishBy(Began, revision)
<1> HIDE DEF Retries
<1>7. ~Expired
  <2> SUFFICES ASSUME Expired PROVE FALSE
    OBVIOUS
  <2>1. /\ pc = "act"
        /\ now >= IF Head(todo) = "graceful_shutdown" THEN EmergencyDeadline ELSE TotalDeadline
    BY DEF Expired
  <2>2. Head(todo) # "graceful_shutdown"
    <3> SUFFICES ASSUME Head(todo) = "graceful_shutdown" PROVE FALSE
      OBVIOUS
    <3>1. now < EmergencyDeadline
      BY <1>4, <1>5, <2>1 DEF Waiting
    <3> QED BY <1>5, <1>6, <2>1, <3>1
  <2>3. Head(todo) \in {"emergency_stop_remaining", "host_poweroff_requested"}
    BY <1>4, <2>2, CommandsLeft
  <2>4. now + PoweroffTimeout <= end - Retries
    <3>1. CASE Head(todo) = "emergency_stop_remaining"
      <4>1. now + ForceTimeout + PoweroffTimeout <= end - Retries
        BY <1>4, <2>1, <2>2, <3>1 DEF Closed
      <4> QED BY <1>5, <1>6, <4>1
    <3>2. CASE Head(todo) = "host_poweroff_requested"
      BY <1>4, <2>1, <2>2, <3>2 DEF Closed
    <3> QED BY <2>3, <3>1, <3>2
  <2>5. now >= TotalDeadline
    BY <2>1, <2>2
  <2> QED BY <1>5, <1>6, <2>4, <2>5
<1>8. ~PoweroffBlocked
  BY <1>4 DEF PoweroffBlocked, Closed
<1>9. CASE ForceIncomplete
  <2>1. /\ pc = "force" /\ targets = {} /\ ~ForceVerified /\ count' = count
        /\ Head(todo) = "emergency_stop_remaining"
    BY <1>9 DEF ForceIncomplete, Promised, IInv, Commanded
  <2>2. /\ SavedShutdown # {}
        /\ ~failed => running \subseteq targets /\ due \in now..end - Retries - PoweroffTimeout
        /\ failed => due \in now..end - Retries - RestartDelay - ForceTimeout - PoweroffTimeout
    BY <1>4, <2>1 DEF Closed
  <2>3. failed
    <3> SUFFICES ASSUME ~failed PROVE FALSE
      OBVIOUS
    <3>1. running = {}
      BY <2>1, <2>2
    <3>2. now < TotalDeadline
      BY <1>5, <1>6, <2>2
    <3> QED BY <2>1, <3>1, <3>2 DEF ForceVerified
  <2>4. /\ Needed(running)' = Needed(running) /\ Needed(running) \in Nat
        /\ Needed(running) <= ForceTimeout + PoweroffTimeout + Retries
    <3>1. Retries' = Retries
      BY <2>1, RetriesKept DEF Promised
    <3>2. Needed(running)' = Needed(running)
      BY <1>3, <3>1 DEF Needed
    <3>3. Needed(running) = ForceTimeout + PoweroffTimeout + Retries
          \/ Needed(running) = PoweroffTimeout + Retries
      BY RetriesLeft DEF Promised
    <3> QED BY <1>6, <3>2, <3>3
  <2>5. now + RestartDelay + Needed(running) <= end
    BY <1>5, <1>6, <2>2, <2>3, <2>4
  <2> QED BY <1>4, <2>2, <2>4, <2>5
<1>10. CASE PoweroffFails
  <2>1. pc = "poweroff" /\ Happens("commands") /\ Head(todo) = "host_poweroff_requested"
    BY <1>10 DEF PoweroffFails, Promised, IInv, Commanded
  <2>2. SavedShutdown # {} /\ running = {} /\ due \in now..end - Retries
    BY <1>4, <2>1 DEF Closed
  <2>3. Retries = Retries' + Retry /\ Retries' \in Nat
    BY <2>1, RetrySpent DEF Promised
  <2>4. Needed(running)' = PoweroffTimeout + Retries'
    <3>1. Needed(running)' = 0 + PoweroffTimeout + Retries'
      BY <1>3, <2>2 DEF Needed
    <3> QED BY <1>6, <2>3, <3>1
  <2> DEFINE left == Retries'
  <2>5. left \in Nat /\ Retries = left + Retry /\ Needed(running)' = PoweroffTimeout + left
    BY <2>3, <2>4
  <2> HIDE DEF left
  <2>6. now + RestartDelay + (PoweroffTimeout + left) <= end
    BY <1>5, <1>6, <2>2, <2>5
  <2> QED BY <1>4, <1>6, <2>2, <2>5, <2>6
<1> QED BY <1>1, <1>7, <1>8, <1>9, <1>10

-----------------------------------------------------------------------------
(* Steps of the ticker and of the file.                                    *)

(* A shutdown is saved as it was observed.                                 *)
LEMMA PersistTimed ==
  ASSUME Promised, Persist
  PROVE  Unasked' /\ Timed'
<1>1. /\ pc = "save" /\ pc' = "wait" /\ now' = now /\ lostAt' = lostAt /\ host' = host
      /\ boot' = boot /\ running' = running /\ asked' = asked /\ count' = count
      /\ revision' = revision /\ origin' = origin /\ status' = status /\ lastAt' = lastAt
      /\ tick' = tick
      /\ file' = Save(boot, origin, revision, status, lastAt)
  BY DEF Persist, environment, settings, engine
<1>2. /\ Began' = Began /\ SampledAt' = SampledAt /\ Interval' = Interval
  BY <1>1 DEF Began, SampledAt, Interval
<1>3. status.state \in Watched => SavedShutdown = {} /\ SavedShutdown' = {}
  <2>1. status.state \in Watched => SavedShutdown = {}
    BY <1>1 DEF Promised, IInv, Final
  <2>2. status.state \in Watched => SavedShutdown' = {}
    BY <1>1 DEF SavedShutdown, Save, NoFile, Watched
  <2> QED BY <2>1, <2>2
<1>4. Unasked'
  BY <1>1, <1>3 DEF Promised, Unasked
<1> SUFFICES ASSUME host = "up" PROVE OnTime' /\ Started' /\ Known'
  BY <1>1, <1>4 DEF Timed
<1>5. OnTime /\ Started /\ Known
  BY DEF Promised, Timed
<1>6. status.state # "POWERED_OFF"
  BY <1>1, <1>5 DEF OnTime, Closed, Commanding
<1>7. BeganBy(Began, revision)' <=> BeganBy(Began, revision)
  BY <1>1, <1>2 DEF BeganBy
<1>8. CASE status.state \in Watched
  <2>1. Sampling /\ Confirming
    BY <1>1, <1>5, <1>8 DEF OnTime
  <2>2. Sampling'
    BY <1>1, <1>2, <2>1 DEF Sampling
  <2>3. Confirming' <=> Confirming
    BY <1>1, <1>2 DEF Confirming
  <2>4. status.state \notin {"SHUTTING_DOWN", "POWERED_OFF"}
    BY <1>8 DEF Watched
  <2>5. OnTime' /\ Known'
    BY <1>1, <1>3, <1>8, <2>1, <2>2, <2>3, <2>4 DEF OnTime, Known
  <2>6. Started'
    BY <1>1, <1>3, <1>5, <1>7, <1>8 DEF Started
  <2> QED BY <2>5, <2>6
<1>9. CASE status.state = "SHUTTING_DOWN"
  <2>1. Waiting
    BY <1>5, <1>9 DEF OnTime
  <2>2. Waiting'
    BY <1>1, <1>2, <2>1 DEF Waiting
  <2>3. OnTime'
    BY <1>1, <1>9, <2>2 DEF OnTime, Watched
  <2> DEFINE z == [boot |-> boot, origin |-> origin, revision |-> revision, status |-> status,
                   lastAt |-> lastAt]
  <2>4. file' = {z} /\ SavedShutdown' = {z}
    BY <1>1, <1>9 DEF SavedShutdown, Save
  <2>5. /\ z.origin = origin /\ z.revision = revision /\ z.status = status
        /\ z.origin + z.status.outageStartedAt = Began
    BY DEF Began
  <2> HIDE DEF z
  <2>6. Known'
    BY <1>1, <2>4, <2>5 DEF Known
  <2>7. status.outageStartedAt # NoTime
    BY <1>9, EngineValues DEF Promised, Coherent
  <2>8. BeganBy(Began, revision)'
    BY <1>5, <1>7, <2>7 DEF Started
  <2>9. \A s \in SavedShutdown' : s.origin + s.status.outageStartedAt = Began /\ s.revision = revision
    BY <2>4, <2>5
  <2>10. Started'
    BY <1>1, <1>2, <2>8, <2>9 DEF Started
  <2> QED BY <2>3, <2>6, <2>10
<1> QED BY <1>6, <1>8, <1>9, EngineValues
        DEF Promised, Coherent, EngineStatus, EngineState, Watched

(* The next sample comes when the ticker says, or at once if the commands  *)
(* took longer.                                                            *)
LEMMA WakeTimed ==
  ASSUME Promised, Wake
  PROVE  Unasked' /\ Timed'
<1>1. /\ Held /\ pc = "wait" /\ pc' = "loop" /\ now' = now /\ lostAt' = lostAt /\ host' = host
      /\ running' = running /\ asked' = asked /\ count' = count /\ now >= tick
      /\ tick' = tick + ((now - tick) \div Interval + 1) * Interval
  BY DEF Wake, Held, environment, settings, engine
<1>2. /\ SampledAt' = SampledAt /\ Began' = Began /\ Interval' = Interval
      /\ SavedShutdown' = SavedShutdown /\ status' = status /\ revision' = revision
      /\ origin' = origin /\ lastAt' = lastAt
  BY <1>1, HeldTerms DEF Held
<1>3. Unasked'
  BY <1>1, <1>2 DEF Promised, Unasked
<1> SUFFICES ASSUME host = "up" PROVE OnTime' /\ Started' /\ Known'
  BY <1>1, <1>3 DEF Timed
<1>4. OnTime
  BY DEF Promised, Timed
<1>5. now \in Nat /\ Interval \in Nat /\ Interval >= 1 /\ SampledAt \in Int /\ lostAt \in Int
  BY EngineValues DEF Promised
<1>6. \A a, i \in Nat : i >= 1 => /\ (a \div i) \in Nat /\ (a \div i) * i <= a
                                  /\ (a \div i) * i \in Nat
                                  /\ (a \div i + 1) * i = (a \div i) * i + i
  OBVIOUS
<1>7. CASE status.state \in Watched
  <2>1. Sampling /\ Confirming
    BY <1>1, <1>4, <1>7 DEF OnTime
  <2>2. /\ lastAt # NoTime /\ now <= tick /\ tick = SampledAt + Interval
        /\ status.state = "NORMAL" /\ lostAt # NoTime => tick <= lostAt + Interval
    BY <1>1, <2>1 DEF Sampling
  <2>3. now = tick
    BY <1>1, <1>5, <2>2
  <2>4. tick' = now + Interval
    <3>1. (0 \div Interval + 1) * Interval = Interval
      BY <1>5
    <3> QED BY <1>1, <1>5, <2>3, <3>1
  <2>5. Sampling'
    BY <1>1, <1>2, <2>2, <2>3, <2>4 DEF Sampling
  <2>6. Confirming' <=> Confirming
    BY <1>1, <1>2 DEF Confirming
  <2>7. status.state \notin {"SHUTTING_DOWN", "POWERED_OFF"}
    BY <1>7 DEF Watched
  <2> QED BY <1>1, <1>2, <2>1, <2>5, <2>6, <2>7, HeldParts DEF OnTime
<1>8. CASE status.state = "SHUTTING_DOWN"
  <2>1. {now, tick} \subseteq 0..SampleBy(Began, revision)
    BY <1>1, <1>4, <1>8 DEF OnTime, Waiting
  <2>2. /\ SampleBy(Began, revision) \in Nat /\ Finishing \in Nat
        /\ FinishBy(Began, revision) = SampleBy(Began, revision) + Finishing
    BY <1>8, EngineValues, TimesAreNat, CommandTimes DEF Promised, Coherent
  <2>3. tick' \in 0..now + Interval
    <3>1. tick \in Nat /\ now - tick \in Nat
      BY <1>1, <1>5, <2>1, <2>2
    <3> DEFINE n == now - tick
               k == (n \div Interval) * Interval
    <3>2. k \in Nat /\ k <= n /\ (n \div Interval + 1) * Interval = k + Interval
      BY <1>5, <1>6, <3>1
    <3>3. tick' = tick + (k + Interval)
      BY <1>1, <3>2
    <3>4. n = now - tick
      OBVIOUS
    <3> HIDE DEF n, k
    <3> QED BY <1>5, <3>1, <3>2, <3>3, <3>4
  <2>4. /\ Needed(running)' = Needed(running)
        /\ Needed(running) \in Nat /\ Needed(running) <= Finishing
    <3>1. Retries' = Retries
      BY <1>1, RetriesKept DEF Promised
    <3> QED BY <1>1, <3>1, RetriesLeft DEF Needed, Promised
  <2>5. now + Needed(running) <= FinishBy(Began, revision)
    BY <1>5, <2>1, <2>2, <2>4
  <2>6. Waiting'
    BY <1>1, <1>2, <2>3, <2>4, <2>5 DEF Waiting
  <2>7. OnTime'
    BY <1>1, <1>2, <1>8, <2>6 DEF OnTime, Watched
  <2> QED BY <1>1, <2>7, HeldParts
<1>9. status.state # "POWERED_OFF"
  BY <1>1, <1>4 DEF OnTime, Closed, Commanding
<1> QED BY <1>7, <1>8, <1>9, EngineValues
        DEF Promised, Coherent, EngineStatus, EngineState, Watched

-----------------------------------------------------------------------------
(* Steps of the engine.                                                    *)

(* A process starts afresh as the outage begins, or resumes its shutdown   *)
(* in time.                                                                *)
LEMMA StartTimed ==
  ASSUME Promised, Start
  PROVE  Unasked' /\ Timed'
<1>1. /\ pc = "down" /\ host = "up" /\ pc' = "loop" /\ now >= due
      /\ file' = Restorable(file, boot)
      /\ \/ \E s \in file' : Resume(s)
         \/ /\ file' = NoFile /\ revision' = stored
            /\ origin' = now /\ status' = NewStatus /\ lastAt' = NoTime
      /\ tick' = now + Settings[revision'].interval
      /\ now' = now /\ boot' = boot /\ host' = host /\ lostAt' = lostAt
      /\ running' = running /\ asked' = asked /\ stored' = stored /\ count' = count
  BY DEF Start, environment
<1>2. SavedShutdown' = SavedShutdown /\ SavedShutdown \subseteq file'
  BY <1>1 DEF SavedShutdown, Restorable
<1>3. IInv /\ now \in Nat /\ stored \in Revisions
  BY EngineValues DEF Promised
<1>4. Booted /\ Resuming /\ Started
  BY <1>1 DEF Promised, Timed, OnTime
<1>5. status.state = "NORMAL" /\ NewStatus.state = "NORMAL" /\ NewStatus.outageStartedAt = NoTime
  BY <1>1, <1>3 DEF IInv, Places, NewStatus
<1>6. Unasked'
  BY <1>1, <1>2, <1>5 DEF Promised, Unasked, Watched
<1>7. \A s, t \in file' : s = t
  BY <1>1, <1>3 DEF IInv, Types, Files, Restorable
<1>8. \A b, q : BeganBy(b, q)' <=> BeganBy(b, q)
  BY <1>1 DEF BeganBy
<1>9. CASE SavedShutdown = {}
  <2>1. file' = {} /\ (lostAt # NoTime => now <= lostAt)
    BY <1>1, <1>4, <1>9 DEF Booted
  <2>2. /\ revision' = stored /\ origin' = now /\ status' = NewStatus /\ lastAt' = NoTime
    BY <1>1, <2>1
  <2>3. /\ Interval' = Every(stored) /\ Every(stored) \in Nat
        /\ tick' = now + Every(stored)
    BY <1>1, <1>3, <2>2, Lengths DEF Interval, Every
  <2>4. lostAt \in Int
    BY <1>3, EngineValues
  <2>5. Sampling'
    BY <1>1, <1>3, <2>1, <2>2, <2>3, <2>4 DEF Sampling
  <2>6. status'.state = "NORMAL" /\ status'.outageStartedAt = NoTime
    BY <1>5, <2>2
  <2>7. Started' /\ Known'
    BY <1>2, <1>9, <2>6 DEF Started, Known
  <2>8. OnTime'
    BY <1>1, <2>5, <2>6 DEF OnTime, Confirming
  <2> QED BY <1>6, <2>7, <2>8 DEF Timed
<1>10. CASE SavedShutdown # {}
  <2>1. PICK s \in SavedShutdown : TRUE
    BY <1>10
  <2>2. file' = {s}
    BY <1>2, <1>7
  <2>3. Resume(s)
    BY <1>1, <2>2 DEF NoFile
  <2>4. /\ revision' = s.revision /\ origin' = s.origin /\ status' = s.status
        /\ s.status.state = "SHUTTING_DOWN" /\ s.revision \in Revisions
        /\ s.origin + s.status.outageStartedAt \in Nat
    BY <1>3, <2>3, SavedValues DEF Resume
  <2>5. /\ due \in now..FinishBy(Began', revision') - Needed(running)
        /\ Began' = s.origin + s.status.outageStartedAt
    BY <1>4, <2>4 DEF Resuming, Began
  <2>6. /\ Interval' = Every(s.revision) /\ Every(s.revision) \in Nat
        /\ tick' = now + Every(s.revision)
    BY <1>1, <2>4, Lengths DEF Interval, Every
  <2>7. Needed(running)' = Needed(running) /\ Needed(running) \in Nat
    BY <1>1, <1>3, RetriesLeft DEF Needed, Retries
  <2>8. FinishBy(Began', revision') \in Nat
    BY <2>4, <2>5, TimesAreNat
  <2>9. now + Needed(running) <= FinishBy(Began', revision')
    BY <1>3, <2>5, <2>7, <2>8
  <2>10. tick' \in 0..now + Interval'
    BY <1>3, <2>6
  <2>11. Waiting'
    BY <1>1, <2>7, <2>9, <2>10 DEF Waiting
  <2>12. OnTime'
    BY <1>1, <2>4, <2>11 DEF OnTime, Watched
  <2>13. BeganBy(Began', revision')
    BY <1>4, <2>4, <2>5 DEF Started
  <2>14. \A t \in SavedShutdown' : t = s
    BY <1>2, <2>2
  <2>15. Started'
    BY <1>4, <1>8, <2>1, <2>13, <2>14 DEF Started
  <2>16. Known'
    BY <1>2, <1>10, <2>4, <2>14 DEF Known
  <2> QED BY <1>6, <2>12, <2>15, <2>16 DEF Timed
<1> QED BY <1>9, <1>10

(* A watching engine on a sample that finds guests running and says of the *)
(* network nothing that counts: it cancels the outage or counts the quiet  *)
(* samples, runs the timer of the mains, or begins the shutdown once that  *)
(* timer has run long enough, and goes further only in an emergency.       *)
LEMMA WatchedSample ==
  ASSUME NEW c \in Config, Validate(c), NEW s, Coherent(s), s.state \in Watched,
         NEW at \in Nat, NEW x \in Snapshot, ~NetworkEvidence(x), ~x.stopped
  PROVE  LET out == Step(c, s, at, x)
             n   == out.status
         IN  \/ ~NUTEvidence(x) /\ n.state = "NORMAL"
             \/ /\ ~NUTEvidence(x) /\ n.state = "CONFIRMING_OUTAGE"
                /\ s.outageStartedAt # NoTime /\ n.outageStartedAt = s.outageStartedAt
                /\ n.nutStartedAt = NoTime
                /\ n.recoveryCount = s.recoveryCount + 1
                /\ n.recoveryCount < c.recoverySuccessCount
             \/ /\ NUTEvidence(x) /\ n.state = "CONFIRMING_OUTAGE"
                /\ n.outageStartedAt = First(s.outageStartedAt, at)
                /\ n.nutStartedAt = First(s.nutStartedAt, at)
                /\ n.recoveryCount = 0
                /\ at < n.nutStartedAt + c.nutConfirm
             \/ /\ NUTEvidence(x)
                /\ s.nutStartedAt # NoTime /\ at >= s.nutStartedAt + c.nutConfirm
                /\ n.outageStartedAt = s.outageStartedAt /\ s.outageStartedAt # NoTime
                /\ n.state = "SHUTTING_DOWN" \/ at >= EmergencyAt(c, s)
<1> DEFINE o == Observe(s, at, x)
           b == BeginShutdown(o)
           out == Step(c, s, at, x)
           n == out.status
<1>1. s \in EngineStatus /\ ~s.emergencyIssued /\ ~s.poweroffIssued /\ ~s.gracefulIssued
  BY DEF Coherent
<1>2. /\ o \in EngineStatus
      /\ o.gracefulIssued = s.gracefulIssued
      /\ o.emergencyIssued = s.emergencyIssued
      /\ o.poweroffIssued = s.poweroffIssued
      /\ o.outageStartedAt = IF Evidence(x) THEN First(s.outageStartedAt, at)
                             ELSE s.outageStartedAt
      /\ o.nutStartedAt = IF NUTEvidence(x) THEN First(s.nutStartedAt, at)
                          ELSE IF NetworkEvidence(x) THEN s.nutStartedAt ELSE NoTime
      /\ o.state = IF o.outageStartedAt = NoTime THEN "NORMAL"
                   ELSE IF s.outageStartedAt = NoTime THEN "CONFIRMING_OUTAGE"
                   ELSE s.state
  BY <1>1, Observed
<1>3. o.recoveryCount = IF Evidence(x) THEN 0
                        ELSE IF s.outageStartedAt # NoTime THEN s.recoveryCount + 1
                        ELSE s.recoveryCount
  BY <1>1 DEF Observe, EngineStatus
<1>4. Evidence(x) <=> NUTEvidence(x)
  BY DEF Evidence
<1>5. s.state = "NORMAL" <=> s.outageStartedAt = NoTime
  BY DEF Coherent
<1>6. out = Decide(c, s, at, x)
  BY DEF Step, Watched
<1>7. ASSUME ~NUTEvidence(x)
      PROVE  \/ n.state = "NORMAL"
             \/ /\ n.state = "CONFIRMING_OUTAGE"
                /\ s.outageStartedAt # NoTime /\ n.outageStartedAt = s.outageStartedAt
                /\ n.nutStartedAt = NoTime
                /\ n.recoveryCount = s.recoveryCount + 1
                /\ n.recoveryCount < c.recoverySuccessCount
  <2>1. ~Confirmed(c, o, at, x)
    BY <1>4, <1>7 DEF Confirmed, NUTConfirmed, NetworkConfirmed
  <2>2. IF Recovered(c, o, x) THEN n = ResetCandidate(o) ELSE n = o
    BY <1>6, <2>1 DEF Decide
  <2> HIDE DEF n, out, o
  <2>3. CASE Recovered(c, o, x)
    BY <1>1, <1>2, <2>2, <2>3, ResetCoherent
  <2>4. CASE ~Recovered(c, o, x)
    <3>1. /\ o.outageStartedAt = s.outageStartedAt /\ o.nutStartedAt = NoTime
          /\ o.recoveryCount = IF s.outageStartedAt # NoTime THEN s.recoveryCount + 1
                               ELSE s.recoveryCount
      BY <1>2, <1>3, <1>4, <1>7
    <3>2. CASE s.outageStartedAt = NoTime
      BY <1>2, <2>2, <2>4, <3>1, <3>2
    <3>3. CASE s.outageStartedAt # NoTime
      <4>1. o.state = "CONFIRMING_OUTAGE"
        BY <1>2, <1>5, <3>1, <3>3 DEF Watched
      <4>2. s.recoveryCount \in Nat /\ c.recoverySuccessCount \in Int
        BY <1>1 DEF EngineStatus, Config
      <4>3. o.recoveryCount < c.recoverySuccessCount
        BY <1>4, <1>7, <2>4, <3>1, <3>3, <4>2 DEF Recovered
      <4> QED BY <2>2, <2>4, <3>1, <3>3, <4>1, <4>3
    <3> QED BY <3>2, <3>3
  <2> QED BY <2>3, <2>4
<1>8. ASSUME NUTEvidence(x), n.state \in Watched
      PROVE  /\ n.state = "CONFIRMING_OUTAGE"
             /\ n.outageStartedAt = First(s.outageStartedAt, at)
             /\ n.nutStartedAt = First(s.nutStartedAt, at)
             /\ n.recoveryCount = 0
             /\ at < n.nutStartedAt + c.nutConfirm
  <2>1. o.outageStartedAt = First(s.outageStartedAt, at) /\ o.outageStartedAt # NoTime
    BY <1>1, <1>2, <1>4, <1>8 DEF First, NoTime
  <2>2. ~Recovered(c, o, x)
    BY <1>4, <1>8 DEF Recovered
  <2>3. /\ n.nutStartedAt = First(s.nutStartedAt, at)
        /\ n.nutStartedAt # NoTime => at - n.nutStartedAt < c.nutConfirm
    BY <1>4, <1>8, StillWatching
  <2>4. n.nutStartedAt # NoTime /\ n.nutStartedAt \in Int /\ c.nutConfirm \in Int
    <3>1. s.nutStartedAt \in Int /\ c.nutConfirm \in Int
      BY <1>1 DEF EngineStatus, Instant, NoTime, Config
    <3> QED BY <2>3, <3>1 DEF First, NoTime
  <2>5. n = o
    <3>1. \/ ~Evidence(x) /\ n = ResetCandidate(o)
          \/ ~Confirmed(c, o, at, x) /\ n = o
          \/ /\ Confirmed(c, o, at, x)
             /\ s.outageStartedAt # NoTime
             /\ n \in {b, RequestPoweroff(b), [RequestPoweroff(b) EXCEPT !.emergencyIssued = TRUE]}
      BY WatchedStatuses
    <3>2. /\ b.state \notin Watched
          /\ RequestPoweroff(b).state \notin Watched
          /\ [RequestPoweroff(b) EXCEPT !.emergencyIssued = TRUE].state \notin Watched
      <4>1. b \in EngineStatus /\ b.state = "SHUTTING_DOWN" /\ b.outageStartedAt # NoTime
        BY <1>1, <1>2, <2>1, BeginCoherent
      <4> HIDE DEF b
      <4> QED BY <4>1, PoweroffCoherent DEF Watched
    <3> HIDE DEF n, o, b
    <3> QED BY <1>4, <1>8, <3>1, <3>2
  <2>6. o.recoveryCount = 0 /\ o.state = "CONFIRMING_OUTAGE"
    BY <1>2, <1>3, <1>4, <1>5, <1>8, <2>1 DEF Watched
  <2> HIDE DEF n, o
  <2> QED BY <2>1, <2>3, <2>4, <2>5, <2>6
<1>9. ASSUME n.state \notin Watched
      PROVE  /\ NUTEvidence(x)
             /\ s.nutStartedAt # NoTime /\ at >= s.nutStartedAt + c.nutConfirm
             /\ n.outageStartedAt = s.outageStartedAt /\ s.outageStartedAt # NoTime
             /\ n.state = "SHUTTING_DOWN" \/ at >= EmergencyAt(c, s)
  <2>1. NUTEvidence(x) /\ at - First(s.nutStartedAt, at) >= c.nutConfirm
    BY <1>4, <1>9, ShutdownConfirmedBy
  <2>2. s.nutStartedAt \in Int /\ c.nutConfirm \in Int /\ c.nutConfirm > 0
    BY <1>1 DEF EngineStatus, Instant, NoTime, Config, Validate
  <2>3. s.nutStartedAt # NoTime /\ at >= s.nutStartedAt + c.nutConfirm
    BY <2>1, <2>2 DEF First
  <2>4. s.outageStartedAt # NoTime /\ o.outageStartedAt = s.outageStartedAt
    BY <1>2, <1>4, <1>5, <2>1, <2>3 DEF Coherent, First
  <2>5. /\ b \in EngineStatus /\ b.state = "SHUTTING_DOWN" /\ b.outageStartedAt = s.outageStartedAt
    BY <1>1, <1>2, <2>4, BeginCoherent
  <2>6. \/ n \in {ResetCandidate(o), o}
        \/ n = b
        \/ n = [RequestPoweroff(b) EXCEPT !.emergencyIssued = TRUE] /\ at >= EmergencyAt(c, b)
    BY WatchedOutcomes
  <2>7. ResetCandidate(o).state \in Watched /\ o.state \in Watched
    BY <1>1, <1>2, ResetCoherent, ObserveCoherent DEF Watched
  <2> HIDE DEF n, o, b
  <2>8. n = b \/ (n = [RequestPoweroff(b) EXCEPT !.emergencyIssued = TRUE] /\ at >= EmergencyAt(c, b))
    BY <1>9, <2>6, <2>7
  <2>9. n.outageStartedAt = s.outageStartedAt
    BY <2>4, <2>5, <2>8, PoweroffCoherent
  <2>10. n.state = "SHUTTING_DOWN" \/ at >= EmergencyAt(c, s)
    BY <2>5, <2>8 DEF EmergencyAt
  <2> QED BY <2>1, <2>3, <2>4, <2>9, <2>10
<1> HIDE DEF n, out
<1> QED BY <1>7, <1>8, <1>9 DEF n, out

(* A shutdown that has begun waits while there is time and a guest runs;   *)
(* it forces guests only where one runs.                                   *)
LEMMA ShuttingDownSample ==
  ASSUME NEW c \in Config, NEW s, Coherent(s), s.state = "SHUTTING_DOWN",
         NEW at \in Nat, NEW x \in Snapshot
  PROVE  LET out == Step(c, s, at, x)
             n   == out.status
             l   == Commands(out.actions)
         IN  \/ n = s /\ l = <<>> /\ at < EmergencyAt(c, s)
             \/ /\ n.state = "POWERED_OFF" /\ n.outageStartedAt = s.outageStartedAt
                /\ \/ x.stopped /\ l = <<"host_poweroff_requested">>
                   \/ ~x.stopped /\ l = <<"emergency_stop_remaining", "host_poweroff_requested">>
<1> DEFINE out == Step(c, s, at, x)
           n == out.status
           l == Commands(out.actions)
<1>1. /\ s \in EngineStatus /\ ~s.emergencyIssued /\ ~s.poweroffIssued /\ s.outageStartedAt # NoTime
  BY DEF Coherent
<1>2. /\ Commands(<<>>) = <<>>
      /\ Commands(<<"host_poweroff_requested">>) = <<"host_poweroff_requested">>
      /\ Commands(<<"emergency_stop_remaining", "host_poweroff_requested">>)
           = <<"emergency_stop_remaining", "host_poweroff_requested">>
  BY DEF Commands, Notice
<1>3. \/ n = s /\ out.actions = <<>> /\ at < EmergencyAt(c, s)
      \/ /\ n = RequestPoweroff(s) /\ out.actions = <<"host_poweroff_requested">>
         /\ x.stopped
      \/ /\ n = [RequestPoweroff(s) EXCEPT !.emergencyIssued = TRUE]
         /\ out.actions = <<"emergency_stop_remaining", "host_poweroff_requested">>
         /\ ~x.stopped
  <2>1. out = Progress(c, s, at, x)
    BY DEF Step
  <2>2. x.stopped \in BOOLEAN
    BY DEF Snapshot
  <2>3. CASE x.stopped
    BY <1>1, <2>1, <2>3 DEF Progress
  <2>4. CASE ~x.stopped /\ at < EmergencyAt(c, s)
    BY <1>1, <2>1, <2>4 DEF Progress
  <2>5. CASE ~x.stopped /\ ~(at < EmergencyAt(c, s))
    BY <1>1, <2>1, <2>5 DEF Progress
  <2> QED BY <2>3, <2>4, <2>5
<1>4. /\ RequestPoweroff(s).state = "POWERED_OFF"
      /\ RequestPoweroff(s).outageStartedAt = s.outageStartedAt
      /\ [RequestPoweroff(s) EXCEPT !.emergencyIssued = TRUE].state = "POWERED_OFF"
      /\ [RequestPoweroff(s) EXCEPT !.emergencyIssued = TRUE].outageStartedAt = s.outageStartedAt
  BY <1>1, PoweroffCoherent
<1> QED BY <1>2, <1>3, <1>4

(* A sample of a watching engine: a new timer is not too late, a quiet     *)
(* sample uses up one of those that cancel, and a shutdown that begins     *)
(* begins before the emergency.                                            *)
LEMMA WatchTimed ==
  ASSUME Promised, LeavesTime, NEW reload \in BOOLEAN, Sample(reload), reload => Reloads,
         host = "up", status.state \in Watched,
         count'["flips"] = count["flips"]
  PROVE  Unasked' /\ Timed'
<1> DEFINE r    == IF reload THEN stored ELSE revision
           from == IF reload THEN now ELSE origin
           st   == IF reload THEN NewStatus ELSE status
           c    == Settings[r].detection
           at   == now - from
           out  == Step(c, st, at, Sampled)
           n    == out.status
           l    == Commands(out.actions)
           lost == count["flips"]
<1>1. /\ pc = "loop"
      /\ revision' = r /\ origin' = from /\ status' = n /\ lastAt' = at /\ todo' = l
      /\ pc' = IF todo' = <<>> THEN "save" ELSE "act"
      /\ tick' = IF reload THEN now + Settings[r].interval ELSE tick
      /\ now' = now /\ boot' = boot /\ host' = host /\ lostAt' = lostAt
      /\ running' = running /\ asked' = asked /\ stored' = stored /\ file' = file
  BY DEF Sample, environment
<1>2. IInv /\ Unasked /\ Started
  BY DEF Promised, Timed
<1>3. /\ now \in Nat /\ origin \in 0..now /\ lastAt \in Int /\ lostAt \in Int
      /\ revision \in Revisions /\ stored \in Revisions /\ revision <= stored
      /\ lost \in Nat /\ lost <= Limits["flips"]
      /\ Interval = Every(revision)
      /\ SampledAt \in Int /\ SampledAt = origin + lastAt
      /\ status.outageStartedAt # NoTime => Began \in Nat
      /\ Began = origin + status.outageStartedAt
      /\ Coherent(status)
      /\ status.nutStartedAt \in Int /\ status.recoveryCount \in Nat
  <2>1. origin \in 0..now /\ revision <= stored
    BY <1>2 DEF IInv, Types, Clocks, Promised, Revised
  <2> QED BY <1>2, <2>1, EngineValues DEF SampledAt, Began
<1>4. /\ r \in Revisions /\ from \in 0..now /\ Coherent(st) /\ st.state \in Watched
  <2>1. NewStatus.state = "NORMAL"
    BY DEF NewStatus
  <2> QED BY <1>3, <2>1, NewCoherent DEF Watched
<1>5. /\ revision \in 1..r /\ r \in 1..r
  <2>1. Len(Settings) \in Nat
    BY SettingsAssumption
  <2> QED BY <1>3, <2>1 DEF Revisions
<1>6. st.outageStartedAt # NoTime => ~reload
  BY DEF NewStatus
<1>7. ~reload => st = status /\ from = origin /\ r = revision
  OBVIOUS
<1>8. reload => status.state = "NORMAL"
  BY DEF Reloads
<1>9. /\ Every(r) \in Nat /\ Every(r) >= 1 /\ Confirm(r) \in Nat /\ Confirm(r) >= 1
      /\ c.recoverySuccessCount \in Nat /\ c.recoverySuccessCount >= 1
      /\ Gap(r) = Confirm(r) - 1 + c.recoverySuccessCount * Every(r)
      /\ c.nutConfirm = Confirm(r) /\ Settings[r].interval = Every(r)
  BY <1>4, Lengths DEF Confirm, Every
<1>10. c \in Config /\ Validate(c)
  BY <1>4, ValidRevision
<1> HIDE DEF r, from, st
<1>11. /\ Sampled \in Snapshot /\ ~NetworkEvidence(Sampled)
       /\ NUTEvidence(Sampled) <=> lostAt # NoTime
       /\ Sampled.stopped <=> running = {}
  BY DEF Sampled, Snapshot, NUTStatus, NetworkEvidence, NUTEvidence
<1>12. /\ SavedShutdown = {} /\ running = Guests /\ asked = {} /\ ~Sampled.stopped
  BY <1>1, <1>2, <1>11 DEF IInv, Final, Unasked, LeavesTime
<1>13. /\ tick = now + Interval
       /\ status = NewStatus \/ (lastAt # NoTime /\ now = SampledAt + Interval)
       /\ status.state = "NORMAL" /\ lostAt # NoTime => now <= lostAt + Interval
       /\ Confirming
  BY <1>1 DEF Promised, Timed, OnTime, Sampling
<1>14. at \in Nat /\ from + at = now
  BY <1>3, <1>4
<1> HIDE DEF c, at
<1>15. \/ ~NUTEvidence(Sampled) /\ n.state = "NORMAL"
       \/ /\ ~NUTEvidence(Sampled) /\ n.state = "CONFIRMING_OUTAGE"
          /\ st.outageStartedAt # NoTime /\ n.outageStartedAt = st.outageStartedAt
          /\ n.nutStartedAt = NoTime
          /\ n.recoveryCount = st.recoveryCount + 1
          /\ n.recoveryCount < c.recoverySuccessCount
       \/ /\ NUTEvidence(Sampled) /\ n.state = "CONFIRMING_OUTAGE"
          /\ n.outageStartedAt = First(st.outageStartedAt, at)
          /\ n.nutStartedAt = First(st.nutStartedAt, at)
          /\ n.recoveryCount = 0
          /\ at < n.nutStartedAt + c.nutConfirm
       \/ /\ NUTEvidence(Sampled)
          /\ st.nutStartedAt # NoTime /\ at >= st.nutStartedAt + c.nutConfirm
          /\ n.outageStartedAt = st.outageStartedAt /\ st.outageStartedAt # NoTime
          /\ n.state = "SHUTTING_DOWN" \/ at >= EmergencyAt(c, st)
  BY <1>4, <1>10, <1>11, <1>12, <1>14, WatchedSample
<1>16. Coherent(n)
  BY <1>4, <1>10, <1>11, <1>14, StepKeeps
<1>17. /\ n.state \in Watched => l = <<>>
       /\ n.state \notin Watched => l # <<>>
  <2>1. \/ /\ l = <<>>
           /\ n.state \in Watched \/ n = st
        \/ /\ l = <<"graceful_shutdown">>
           /\ st.state \in Watched /\ n.state = "SHUTTING_DOWN"
        \/ /\ l \in Closing
           /\ n.state = "POWERED_OFF"
           /\ st.state \in Watched <=> Head(l) = "graceful_shutdown"
    BY <1>4, <1>10, <1>11, <1>14, StepCommands
  <2>2. /\ <<>> \notin Closing /\ <<"graceful_shutdown">> # <<>>
        /\ "SHUTTING_DOWN" \notin Watched /\ "POWERED_OFF" \notin Watched
    BY DEF Closing, Watched
  <2> HIDE DEF n, l
  <2> QED BY <1>4, <2>1, <2>2
<1> HIDE DEF out, n, l, lost
<1>18. /\ SavedShutdown' = {} /\ SampledAt' = now /\ Interval' = Every(r)
       /\ Began' = from + n.outageStartedAt
       /\ tick' = now + Every(r)
  <2>1. SampledAt' = now
    BY <1>1, <1>14 DEF SampledAt
  <2>2. SavedShutdown' = {} /\ Began' = from + n.outageStartedAt
    BY <1>1, <1>12 DEF SavedShutdown, Began
  <2>3. Interval' = Every(r)
    BY <1>1, <1>9 DEF Interval
  <2>4. tick' = now + Every(r)
    BY <1>1, <1>3, <1>7, <1>9, <1>13
  <2> QED BY <2>1, <2>2, <2>3, <2>4
<1>19. Unasked'
  BY <1>1, <1>12 DEF Unasked
<1>20. ASSUME n.outageStartedAt # NoTime, st.outageStartedAt # NoTime,
              n.outageStartedAt = st.outageStartedAt
       PROVE  /\ ~reload /\ st = status /\ from = origin /\ r = revision
              /\ status.outageStartedAt # NoTime /\ status.state = "CONFIRMING_OUTAGE"
              /\ status # NewStatus
              /\ lastAt # NoTime /\ now = origin + lastAt + Every(r)
              /\ Began \in Nat /\ Began' = Began
              /\ BeganBy(Began, revision)'
  <2>1. ~reload /\ st = status /\ from = origin /\ r = revision
    BY <1>6, <1>7, <1>20
  <2>2. status.outageStartedAt # NoTime /\ status.state = "CONFIRMING_OUTAGE" /\ status # NewStatus
    BY <1>3, <1>20, <2>1 DEF Coherent, Watched, NewStatus
  <2>3. Began' = Began
    BY <1>3, <1>18, <1>20, <2>1
  <2>4. BeganBy(Began, revision)'
    BY <1>1, <1>2, <2>1, <2>2, <2>3 DEF Started, BeganBy
  <2> QED BY <1>3, <1>13, <2>1, <2>2, <2>3, <2>4
<1>21. Started' <=> (n.outageStartedAt # NoTime => BeganBy(Began, revision)')
  BY <1>1, <1>18 DEF Started
<1>22. ASSUME n.state \in Watched
       PROVE  /\ Known'
              /\ n.state = "NORMAL" => Sampling' \/ lostAt # NoTime
              /\ n.state = "CONFIRMING_OUTAGE" => Sampling'
  <2>1. pc' = "save"
    BY <1>1, <1>17, <1>22
  <2>2. lastAt' # NoTime /\ SampledAt' <= now /\ now <= tick' /\ tick' = SampledAt' + Interval'
    <3>1. lastAt' # NoTime
      BY <1>1, <1>14 DEF NoTime
    <3>2. /\ SampledAt' = now /\ tick' = now + Every(r) /\ Interval' = Every(r)
          /\ now \in Nat /\ Every(r) \in Nat
      BY <1>3, <1>9, <1>18
    <3> QED BY <3>1, <3>2
  <2>3. Known'
    BY <1>1, <1>18, <1>22, <2>1 DEF Known, Watched
  <2>4. n.state = "CONFIRMING_OUTAGE" \/ lostAt = NoTime => Sampling'
    BY <1>1, <2>1, <2>2 DEF Sampling
  <2> QED BY <2>3, <2>4
<1>23. Timed' <=> OnTime' /\ Started' /\ Known'
  BY <1>1 DEF Timed
<1>24. n.state \in Watched => pc' = "save"
  BY <1>1, <1>17
<1>25. CASE ~NUTEvidence(Sampled) /\ n.state = "NORMAL"
  <2>1. lostAt = NoTime /\ n.outageStartedAt = NoTime
    BY <1>11, <1>16, <1>25 DEF Coherent
  <2>2. Known' /\ Sampling' /\ Started'
    BY <1>21, <1>22, <1>25, <2>1 DEF Watched
  <2>3. OnTime'
    BY <1>1, <1>24, <1>25, <2>2 DEF OnTime, Confirming, Watched
  <2> QED BY <1>19, <1>23, <2>2, <2>3
<1>26. CASE /\ ~NUTEvidence(Sampled) /\ n.state = "CONFIRMING_OUTAGE"
            /\ st.outageStartedAt # NoTime /\ n.outageStartedAt = st.outageStartedAt
            /\ n.nutStartedAt = NoTime
            /\ n.recoveryCount = st.recoveryCount + 1
            /\ n.recoveryCount < c.recoverySuccessCount
  <2>1. lostAt = NoTime /\ n.outageStartedAt # NoTime
    BY <1>11, <1>26
  <2>2. /\ ~reload /\ st = status /\ from = origin /\ r = revision
        /\ status.outageStartedAt # NoTime /\ status.state = "CONFIRMING_OUTAGE"
        /\ lastAt # NoTime /\ now = origin + lastAt + Every(r)
        /\ Began \in Nat /\ Began' = Began
        /\ BeganBy(Began, revision)'
    BY <1>20, <1>26, <2>1
  <2>3. Known' /\ Sampling' /\ Started'
    BY <1>21, <1>22, <1>26, <2>2 DEF Watched
  <2> DEFINE by   == StartBy(Began, lost, r)
             left == c.recoverySuccessCount - n.recoveryCount
  <2>4. by \in Nat /\ by = StartBy(Began', count'["flips"], revision')
    BY <1>1, <1>3, <1>4, <2>2, StartByGrows DEF lost
  <2>5. /\ status.nutStartedAt # NoTime =>
             /\ status.recoveryCount = 0
             /\ lastAt < status.nutStartedAt + Confirm(r)
             /\ origin + status.nutStartedAt + Gap(r) <= by
        /\ status.nutStartedAt = NoTime =>
             /\ c.recoverySuccessCount - status.recoveryCount >= 1
             /\ SampledAt + (c.recoverySuccessCount - status.recoveryCount) * Every(r) <= by
    BY <1>3, <1>13, <2>1, <2>2 DEF Confirming, c, lost
  <2> HIDE DEF by
  <2>6. left \in Nat /\ left >= 1 /\ n.recoveryCount = status.recoveryCount + 1
    BY <1>3, <1>9, <1>26, <2>2
  <2>7. \A i, j \in Nat : i * j \in Nat /\ (i + 1) * j = i * j + j
    OBVIOUS
  <2>8. left * Every(r) \in Nat /\ (left + 1) * Every(r) = left * Every(r) + Every(r)
    BY <1>9, <2>6, <2>7
  <2>9. c.recoverySuccessCount - status.recoveryCount = left + 1
    BY <1>3, <1>9, <2>6
  <2> HIDE DEF left
  <2>10. now + left * Every(r) <= by
    <3>1. CASE status.nutStartedAt = NoTime
      <4>1. SampledAt + (left + 1) * Every(r) <= by
        BY <2>5, <2>9, <3>1
      <4> QED BY <1>3, <1>9, <2>2, <2>4, <2>8, <4>1
    <3>2. CASE status.nutStartedAt # NoTime
      <4>1. c.recoverySuccessCount = left + 1
        BY <1>9, <2>5, <2>9, <3>2
      <4>2. Gap(r) = Confirm(r) - 1 + (left * Every(r) + Every(r))
        BY <1>9, <2>8, <4>1
      <4>3. /\ lastAt < status.nutStartedAt + Confirm(r)
            /\ origin + status.nutStartedAt + Gap(r) <= by
        BY <2>5, <3>2
      <4> QED BY <1>3, <1>9, <2>2, <2>4, <2>8, <4>2, <4>3
    <3> QED BY <3>1, <3>2
  <2>11. /\ status'.nutStartedAt = NoTime /\ lastAt' # NoTime
         /\ Settings[revision'].detection.recoverySuccessCount - status'.recoveryCount = left
         /\ SampledAt' = now /\ Interval' = Every(r)
    BY <1>1, <1>14, <1>18, <1>26 DEF left, c, NoTime
  <2>12. Confirming'
    BY <2>4, <2>6, <2>10, <2>11 DEF Confirming
  <2>13. OnTime'
    BY <1>1, <1>24, <1>26, <2>3, <2>12 DEF OnTime, Watched
  <2> QED BY <1>19, <1>23, <2>3, <2>13
<1>27. CASE /\ NUTEvidence(Sampled) /\ n.state = "CONFIRMING_OUTAGE"
            /\ n.outageStartedAt = First(st.outageStartedAt, at)
            /\ n.nutStartedAt = First(st.nutStartedAt, at)
            /\ n.recoveryCount = 0
            /\ at < n.nutStartedAt + c.nutConfirm
  <2>1. lostAt # NoTime /\ n.outageStartedAt # NoTime
    BY <1>11, <1>16, <1>27 DEF Coherent
  <2> DEFINE by == StartBy(Began', lost, r)
  <2>2. Known' /\ Sampling'
    BY <1>22, <1>27 DEF Watched
  <2>3. ASSUME st.outageStartedAt = NoTime
        PROVE  /\ from + n.nutStartedAt <= by /\ by \in Nat
               /\ BeganBy(Began, revision)'
    <3>1. n.outageStartedAt = at /\ st.nutStartedAt = NoTime
      BY <1>4, <1>27, <2>3 DEF First, Coherent
    <3>2. Began' = now /\ n.nutStartedAt = at
      BY <1>14, <1>18, <1>27, <3>1 DEF First
    <3>3. status.state = "NORMAL"
      BY <1>3, <1>7, <1>8, <2>3 DEF Coherent
    <3>4. now <= lostAt + Every(revision)
      BY <1>3, <1>13, <2>1, <3>3
    <3>5. BeganBy(Began, revision)'
      BY <1>1, <1>3, <1>5, <3>2, <3>4 DEF BeganBy
    <3>6. from + n.nutStartedAt <= by /\ by \in Nat
      BY <1>3, <1>4, <1>14, <3>2, StartByGrows
    <3> QED BY <3>5, <3>6
  <2>4. ASSUME st.outageStartedAt # NoTime
        PROVE  /\ from + n.nutStartedAt <= by /\ by \in Nat
               /\ BeganBy(Began, revision)'
    <3>1. n.outageStartedAt = st.outageStartedAt
      BY <1>27, <2>4 DEF First
    <3>2. /\ ~reload /\ st = status /\ from = origin /\ r = revision
          /\ status.outageStartedAt # NoTime /\ status.state = "CONFIRMING_OUTAGE"
          /\ lastAt # NoTime /\ now = origin + lastAt + Every(r)
          /\ Began \in Nat /\ Began' = Began
          /\ BeganBy(Began, revision)'
      BY <1>20, <2>1, <2>4, <3>1
    <3>3. by \in Nat /\ by = StartBy(Began, count["flips"], revision)
      BY <1>3, <1>4, <3>2, StartByGrows DEF lost
    <3> HIDE DEF by
    <3>4. CASE status.nutStartedAt # NoTime
      <4>1. n.nutStartedAt = status.nutStartedAt
        BY <1>27, <3>2, <3>4 DEF First
      <4>2. origin + status.nutStartedAt <= by
        BY <1>13, <3>2, <3>3, <3>4 DEF Confirming
      <4> QED BY <3>2, <3>3, <4>1, <4>2
    <3>5. CASE status.nutStartedAt = NoTime
      <4> DEFINE left == Settings[revision].detection.recoverySuccessCount - status.recoveryCount
      <4>1. n.nutStartedAt = at
        BY <1>27, <3>2, <3>5 DEF First
      <4>2. left >= 1 /\ SampledAt + left * Every(r) <= by
        BY <1>3, <1>13, <3>2, <3>3, <3>5 DEF Confirming
      <4>3. left \in Nat
        BY <1>3, <1>9, <3>2, <4>2 DEF c
      <4> HIDE DEF left
      <4>4. \A i, j \in Nat : i >= 1 => i * j \in Nat /\ j <= i * j
        OBVIOUS
      <4>5. left * Every(r) \in Nat /\ Every(r) <= left * Every(r)
        BY <1>9, <4>2, <4>3, <4>4
      <4>6. now <= by
        BY <1>3, <1>9, <3>2, <3>3, <4>2, <4>5
      <4> QED BY <1>14, <3>2, <3>3, <4>1, <4>6
    <3> QED BY <3>4, <3>5
  <2>5. /\ from + n.nutStartedAt <= by /\ by \in Nat
        /\ BeganBy(Began, revision)'
    BY <2>3, <2>4
  <2>6. by = StartBy(Began', count'["flips"], revision')
    BY <1>1 DEF lost
  <2> HIDE DEF by
  <2>7. Confirming'
    <3>1. /\ status' = n /\ lastAt' = at /\ lastAt' # NoTime /\ origin' = from
          /\ Confirm(revision') = c.nutConfirm /\ lostAt' # NoTime
      BY <1>1, <1>9, <1>14, <2>1 DEF NoTime
    <3>2. n.nutStartedAt # NoTime
      BY <1>4, <1>14, <1>27 DEF First, NoTime
    <3> QED BY <1>27, <2>5, <2>6, <3>1, <3>2 DEF Confirming
  <2>8. Started'
    BY <1>21, <2>5
  <2>9. OnTime'
    BY <1>1, <1>24, <1>27, <2>2, <2>7 DEF OnTime, Watched
  <2> QED BY <1>19, <1>23, <2>2, <2>8, <2>9
<1>28. CASE /\ NUTEvidence(Sampled)
            /\ st.nutStartedAt # NoTime /\ at >= st.nutStartedAt + c.nutConfirm
            /\ n.outageStartedAt = st.outageStartedAt /\ st.outageStartedAt # NoTime
            /\ n.state = "SHUTTING_DOWN" \/ at >= EmergencyAt(c, st)
  <2>1. /\ ~reload /\ st = status /\ from = origin /\ r = revision
        /\ status.outageStartedAt # NoTime /\ status.state = "CONFIRMING_OUTAGE"
        /\ lastAt # NoTime /\ now = origin + lastAt + Every(r)
        /\ Began \in Nat /\ Began' = Began
        /\ BeganBy(Began, revision)'
    BY <1>20, <1>28
  <2> DEFINE by == StartBy(Began, lost, r)
  <2>2. /\ lastAt < status.nutStartedAt + Confirm(r)
        /\ origin + status.nutStartedAt <= by
    BY <1>13, <1>28, <2>1 DEF Confirming, lost
  <2>3. by \in Nat /\ by + Confirm(r) - 1 + Every(r) < Emergency(Began, r)
    BY <1>3, <1>4, <2>1, StartByGrows, TimeIsLeft
  <2>4. /\ Emergency(Began, r) \in Nat
        /\ SampleBy(Began, r) \in Nat /\ SampleBy(Began, r) = Emergency(Began, r) + Every(r) - 1
    BY <1>4, <2>1, TimesAreNat
  <2> HIDE DEF by
  <2>5. now < Emergency(Began, r)
    BY <1>3, <1>9, <2>1, <2>2, <2>3, <2>4
  <2>6. ~(at >= EmergencyAt(c, st))
    <3>1. EmergencyDeadline = Emergency(Began, revision)
      BY <2>1, Deadlines
    <3>2. EmergencyDeadline = from + EmergencyAt(c, st)
      BY <2>1 DEF EmergencyDeadline, Detection, c
    <3>3. EmergencyAt(c, st) \in Int
      BY <1>4, <1>10 DEF EmergencyAt, Coherent, EngineStatus, Instant, NoTime, Config
    <3> QED BY <1>3, <1>4, <1>14, <2>1, <2>4, <2>5, <3>1, <3>2, <3>3
  <2>7. n.state = "SHUTTING_DOWN" /\ pc' = "act"
    BY <1>1, <1>17, <1>28, <2>6 DEF Watched
  <2>8. now <= SampleBy(Began, r) /\ now + Every(r) <= SampleBy(Began, r)
    BY <1>3, <1>9, <2>4, <2>5
  <2>9. /\ now' = now /\ tick' = now + Every(r) /\ Began' = Began /\ revision' = r
    BY <1>1, <1>18, <2>1
  <2>10. now' < Emergency(Began', revision') /\ {now', tick'} \subseteq 0..SampleBy(Began', revision')
    BY <1>3, <1>9, <2>4, <2>5, <2>8, <2>9
  <2>11. Waiting'
    BY <2>7, <2>10 DEF Waiting
  <2>12. OnTime'
    BY <1>1, <2>7, <2>11 DEF OnTime, Watched
  <2>13. Started'
    BY <1>21, <2>1
  <2>14. Known'
    BY <1>1, <1>18, <2>7 DEF Known
  <2> QED BY <1>19, <1>23, <2>12, <2>13, <2>14
<1> QED BY <1>15, <1>25, <1>26, <1>27, <1>28

(* A sample of a shutdown that waits: it waits on before the emergency,    *)
(* and what it commands then ends in time.                                 *)
LEMMA WaitTimed ==
  ASSUME Promised, LeavesTime, Sample(FALSE), host = "up", status.state = "SHUTTING_DOWN",
         Retries' = Retries
  PROVE  Unasked' /\ Timed'
<1> DEFINE c    == Settings[revision].detection
           at   == now - origin
           out  == Step(c, status, at, Sampled)
           n    == out.status
           l    == Commands(out.actions)
<1>1. /\ pc = "loop"
      /\ revision' = revision /\ origin' = origin /\ status' = n /\ lastAt' = at /\ todo' = l
      /\ pc' = IF todo' = <<>> THEN "save" ELSE "act"
      /\ tick' = tick
      /\ now' = now /\ boot' = boot /\ host' = host /\ lostAt' = lostAt
      /\ running' = running /\ asked' = asked /\ stored' = stored /\ file' = file
  BY DEF Sample, environment
<1>2. IInv /\ Unasked /\ Started /\ Known /\ Waiting
  BY DEF Promised, Timed, OnTime
<1>3. /\ now \in Nat /\ origin \in 0..now /\ revision \in Revisions /\ Coherent(status)
      /\ Interval = Every(revision) /\ Every(revision) \in Nat /\ Every(revision) >= 1
  BY <1>2, EngineValues DEF IInv, Types, Clocks
<1>4. status.outageStartedAt # NoTime
  BY <1>3 DEF Coherent
<1>5. /\ Began \in Nat
      /\ EmergencyDeadline = Emergency(Began, revision)
      /\ FinishBy(Began, revision) \in Nat
  BY <1>4, Deadlines
<1>6. /\ Emergency(Began, revision) \in Nat /\ SampleBy(Began, revision) \in Nat
      /\ Emergency(Began, revision) <= SampleBy(Began, revision)
      /\ SampleBy(Began, revision) = Emergency(Began, revision) + Every(revision) - 1
  BY <1>3, <1>5, TimesAreNat
<1>7. tick \in 0..now + Interval /\ now + Needed(running) <= FinishBy(Began, revision)
  BY <1>1, <1>2 DEF Waiting
<1>8. SavedShutdown # {} /\ SavedShutdown' = SavedShutdown
  BY <1>1, <1>2 DEF Known, SavedShutdown
<1>9. c \in Config /\ Sampled \in Snapshot /\ at \in Nat /\ origin + at = now
      /\ (Sampled.stopped <=> running = {})
  <2>1. c \in Config
    BY <1>3, ValidRevision
  <2>2. Sampled \in Snapshot /\ (Sampled.stopped <=> running = {})
    BY DEF Sampled, Snapshot, NUTStatus
  <2>3. at \in Nat /\ origin + at = now
    BY <1>3
  <2> QED BY <2>1, <2>2, <2>3
<1>10. \/ n = status /\ l = <<>> /\ at < EmergencyAt(c, status)
       \/ /\ n.state = "POWERED_OFF" /\ n.outageStartedAt = status.outageStartedAt
          /\ \/ Sampled.stopped /\ l = <<"host_poweroff_requested">>
             \/ ~Sampled.stopped /\ l = <<"emergency_stop_remaining", "host_poweroff_requested">>
  BY <1>3, <1>9, ShuttingDownSample
<1>11. EmergencyDeadline = origin + EmergencyAt(c, status) /\ EmergencyAt(c, status) \in Int
  BY <1>3, <1>9 DEF EmergencyDeadline, Detection, EmergencyAt, Coherent, EngineStatus, Instant, NoTime,
     Config
<1> HIDE DEF out, n, l, at, c
<1>12. n.outageStartedAt = status.outageStartedAt /\ n.state \in {"SHUTTING_DOWN", "POWERED_OFF"}
  BY <1>10
<1>13. Began' = Began
  BY <1>1, <1>12 DEF Began
<1>14. Unasked'
  BY <1>1, <1>12 DEF Unasked, Watched
<1>15. Started'
  BY <1>1, <1>2, <1>4, <1>8, <1>13 DEF Started, BeganBy
<1>16. Known'
  BY <1>1, <1>2, <1>8, <1>12 DEF Known
<1>17. CASE n = status /\ l = <<>> /\ at < EmergencyAt(c, status)
  <2>1. now < Emergency(Began, revision)
    BY <1>3, <1>5, <1>9, <1>11, <1>17
  <2>2. {now, tick} \subseteq 0..SampleBy(Began, revision)
    BY <1>3, <1>6, <1>7, <2>1
  <2>3. pc' = "save" /\ status'.state = "SHUTTING_DOWN"
    BY <1>1, <1>17
  <2>4. Waiting'
    BY <1>1, <1>13, <2>2, <2>3 DEF Waiting
  <2>5. OnTime'
    BY <1>1, <2>3, <2>4 DEF OnTime, Watched
  <2> QED BY <1>14, <1>15, <1>16, <2>5 DEF Timed
<1>18. CASE /\ n.state = "POWERED_OFF"
            /\ \/ Sampled.stopped /\ l = <<"host_poweroff_requested">>
               \/ ~Sampled.stopped /\ l = <<"emergency_stop_remaining", "host_poweroff_requested">>
  <2> DEFINE by == FinishBy(Began, revision) - Retries
  <2>1. /\ Retries \in Nat /\ PoweroffTimeout \in Nat /\ ForceTimeout \in Nat
        /\ Needed({}) = PoweroffTimeout + Retries
        /\ \A guests : guests # {} => Needed(guests) = ForceTimeout + PoweroffTimeout + Retries
    BY <1>2, RetriesLeft, CommandTimes
  <2>2. /\ running = {} => now + PoweroffTimeout <= by
        /\ running # {} => now + ForceTimeout + PoweroffTimeout <= by
    BY <1>3, <1>5, <1>7, <2>1
  <2>3. l # <<>> /\ Head(l) # "graceful_shutdown"
    BY <1>18
  <2>4. /\ Head(l) = "emergency_stop_remaining" => running # {}
        /\ Head(l) = "host_poweroff_requested" => running = {}
    BY <1>9, <1>18
  <2>5. pc' = "act" /\ status'.state = "POWERED_OFF"
    BY <1>1, <1>18, <2>3
  <2>6. (FinishBy(Began, revision) - Retries)' = by
    BY <1>1, <1>13
  <2> HIDE DEF by
  <2>7. Closed'
    BY <1>1, <2>2, <2>3, <2>4, <2>5, <2>6 DEF Closed, Commanding
  <2>8. OnTime'
    BY <2>5, <2>7 DEF OnTime, Watched
  <2> QED BY <1>14, <1>15, <1>16, <2>8 DEF Timed
<1> QED BY <1>10, <1>17, <1>18

(* So a sample keeps the times, whether or not it comes with a reload.     *)
LEMMA SampleTimed ==
  ASSUME Promised, LeavesTime, Round \/ LoadFails
  PROVE  Unasked' /\ Timed'
<1>1. PICK reload \in BOOLEAN : Sample(reload) /\ (reload => Reloads)
  BY DEF Round, LoadFails, Reloads
<1>2. /\ count' = count \/ count' = [count EXCEPT !["loads"] = @ + 1]
      /\ count'["flips"] = count["flips"]
  <2>1. count \in [Disturbance -> Nat]
    BY DEF Promised, IInv, Types, Clocks
  <2> QED BY <2>1 DEF Round, LoadFails, Happens, Disturbance
<1>3. Retries' = Retries
  BY <1>2, RetriesKept DEF Promised, Disturbance
<1>4. /\ pc = "loop" /\ host' = host /\ asked' = asked
  BY <1>1 DEF Sample, environment
<1>5. CASE host # "up"
  BY <1>4, <1>5 DEF Promised, Unasked, Timed
<1>6. CASE host = "up" /\ status.state \in Watched
  BY <1>1, <1>2, <1>6, WatchTimed
<1>7. CASE host = "up" /\ status.state = "SHUTTING_DOWN"
  <2>1. ~reload
    BY <1>1, <1>7 DEF Reloads
  <2>2. Sample(FALSE)
    BY <1>1, <2>1
  <2> QED BY <1>3, <1>7, <2>2, WaitTimed
<1>8. ~(host = "up" /\ status.state = "POWERED_OFF")
  BY <1>4 DEF Promised, Timed, OnTime, Closed, Commanding
<1> QED BY <1>5, <1>6, <1>7, <1>8, EngineValues DEF Promised, Coherent, EngineStatus, EngineState, Watched

-----------------------------------------------------------------------------
(* A new guard has promised nothing yet ...                                *)
LEMMA InitPromised == Init => Promised
<1> SUFFICES ASSUME Init PROVE Promised
  OBVIOUS
<1>1. IInv
  BY InitInv
<1>2. SavedShutdown = {} /\ Restorable(file, boot) = {}
  BY DEF Init, NoFile, SavedShutdown, Restorable
<1>3. status.state = "NORMAL" /\ status.outageStartedAt = NoTime
  BY DEF Init, NewStatus
<1>4. Parity
  BY DEF Init, Parity, Disturbance
<1>5. Revised /\ Unasked
  BY DEF Init, Revised, Unasked, NoFile
<1>6. OnTime
  BY <1>2, <1>3 DEF Init, OnTime, Booted, Resuming, NoTime
<1>7. Started /\ Known
  BY <1>2, <1>3 DEF Init, Started, Known
<1> QED BY <1>1, <1>4, <1>5, <1>6, <1>7 DEF Promised, Timed

(* ... a step that changes nothing keeps what it has promised ...          *)
LEMMA StutterTimed ==
  ASSUME Promised, UNCHANGED vars
  PROVE  Unasked' /\ Timed'
<1>1. /\ Still /\ now' = now /\ running' = running /\ asked' = asked /\ lostAt' = lostAt
      /\ count' = count
  BY DEF vars, environment, settings, engine, command, Still, Held
<1>2. /\ SampledAt' = SampledAt /\ Began' = Began /\ Interval' = Interval
      /\ SavedShutdown' = SavedShutdown /\ Restorable(file', boot') = Restorable(file, boot)
      /\ Retries' = Retries
  BY <1>1, HeldTerms DEF Still, Retries
<1>3. Unasked'
  BY <1>1, <1>2 DEF Promised, Unasked, Still, Held
<1>4. ASSUME host = "up" PROVE Timed'
  <2>1. OnTime /\ Started /\ Known
    BY <1>4 DEF Promised, Timed
  <2>2. Started' /\ Known'
    BY <1>1, <1>2, <2>1 DEF Started, BeganBy, Known, Still, Held
  <2>3. /\ Booted' <=> Booted
        /\ Sampling' <=> Sampling
        /\ Confirming' <=> Confirming
    BY <1>1, <1>2 DEF Booted, Sampling, Confirming, Still, Held
  <2>4. /\ pc = "down" => Resuming'
        /\ status.state = "SHUTTING_DOWN" => Waiting'
        /\ status.state = "POWERED_OFF" => Closed'
    BY <1>1, <1>2, <1>4, StillParts
  <2>5. OnTime'
    BY <1>1, <2>1, <2>3, <2>4 DEF OnTime, Still, Held
  <2> QED BY <2>2, <2>5 DEF Timed
<1> QED BY <1>1, <1>3, <1>4 DEF Timed, Still

(* ... and so does every step in a configuration that leaves time.         *)
LEMMA NextPromised == LeavesTime /\ Promised /\ [Next]_vars => Promised'
<1> SUFFICES ASSUME LeavesTime, Promised, [Next]_vars PROVE Promised'
  OBVIOUS
<1>1. IInv' /\ Parity' /\ Revised'
  BY NextInv, ParityInv, RevisedInv DEF Promised
<1>2. ~\E g \in Guests : OperatorStarts(g)
  <2>1. count["starts"] \in Nat
    BY DEF Promised, IInv, Types, Clocks, Disturbance
  <2> QED BY <2>1 DEF OperatorStarts, Happens, May, LeavesTime
<1>3. Unasked' /\ Timed'
  <2>1. CASE Guard
    BY <2>1, StartTimed, SampleTimed, FailureTimed, CommandTimed, ForceStopTimed, AcceptedTimed,
       PersistTimed, WakeTimed
    DEF Guard
  <2>2. CASE Environment
    BY <1>2, <2>2, TickTimed, MainsTimed, OutsideTimed, FailureTimed, HostStopsTimed, HostBootsTimed
    DEF Environment, HostHalts, UPSEmpty
  <2>3. CASE UNCHANGED vars
    BY <2>3, StutterTimed
  <2> QED BY <2>1, <2>2, <2>3 DEF Next
<1> QED BY <1>1, <1>3 DEF Promised

(* Where it keeps its promise, a host that is up is within the budget.     *)
LEMMA PromisedIsInBudget ==
  ASSUME Promised, LeavesTime
  PROVE  HostOffInBudget
<1> SUFFICES ASSUME lostAt # NoTime, host = "up",
                    \A r \in 1..stored : now - lostAt > OffBy(Settings[r])
             PROVE  FALSE
  BY DEF HostOffInBudget, LostLongerThan
<1>1. IInv /\ OnTime /\ Started /\ Known
  BY DEF Promised, Timed
<1>2. /\ now \in Nat /\ lostAt \in Nat /\ revision \in Revisions /\ stored \in Revisions
      /\ Interval = Every(revision) /\ Interval \in Nat /\ Interval >= 1
      /\ lastAt \in Int /\ SampledAt \in Int /\ origin \in Nat
      /\ status.outageStartedAt # NoTime => Began \in Nat
      /\ status.nutStartedAt \in Int
      /\ count["flips"] \in Nat /\ count["flips"] <= Limits["flips"]
      /\ Coherent(status)
  <2>1. lostAt \in Nat
    BY <1>1, BoundsAssumption DEF IInv, Types, Clocks, NoTime
  <2> QED BY <1>1, <2>1, EngineValues
<1>3. ASSUME NEW q \in Revisions, q <= stored
      PROVE  now > lostAt + Settings[q].detection.totalBudget + Every(q)
  <2>1. q \in 1..stored
    <3>1. Len(Settings) \in Nat
      BY SettingsAssumption
    <3> QED BY <1>3, <3>1 DEF Revisions
  <2>2. now - lostAt > Settings[q].detection.totalBudget + Every(q)
    BY <2>1 DEF OffBy, Every
  <2>3. Settings[q].detection.totalBudget \in Nat /\ Every(q) \in Nat
    BY Lengths
  <2> QED BY <1>2, <2>2, <2>3
(* An outage that began in time is over in time.                           *)
<1>4. ASSUME NEW q \in Revisions, q <= stored, NEW b \in Nat, BeganBy(b, q)
      PROVE  now > FinishBy(b, q)
  <2>1. PICK r \in 1..q : b <= lostAt + Every(r)
    BY <1>4 DEF BeganBy
  <2>2. /\ r \in Revisions
        /\ Every(r) + FinishBy(b, q) <= b + Settings[q].detection.totalBudget + Every(q)
    BY TimeIsLeft
  <2>3. /\ Settings[q].detection.totalBudget \in Nat /\ Every(q) \in Nat /\ Every(r) \in Nat
        /\ FinishBy(b, q) \in Nat
    BY <2>2, Lengths, TimesAreNat
  <2>4. now > lostAt + Settings[q].detection.totalBudget + Every(q)
    BY <1>3, <1>4
  <2> QED BY <1>2, <2>1, <2>2, <2>3, <2>4
<1>5. revision <= stored /\ \A s \in SavedShutdown : s.revision <= stored
  BY DEF Promised, Revised, SavedShutdown
<1>6. /\ Confirm(revision) \in Nat /\ Confirm(revision) >= 1
      /\ Settings[revision].detection.totalBudget \in Nat
  BY <1>2, Lengths
<1>7. now > lostAt + Settings[revision].detection.totalBudget + Interval
  BY <1>2, <1>3, <1>5
<1>8. status.outageStartedAt # NoTime =>
        /\ now > FinishBy(Began, revision)
        /\ FinishBy(Began, revision) \in Nat /\ SampleBy(Began, revision) \in Nat
        /\ Emergency(Began, revision) \in Nat
        /\ Emergency(Began, revision) <= SampleBy(Began, revision)
        /\ SampleBy(Began, revision) = Emergency(Began, revision) + Every(revision) - 1
        /\ FinishBy(Began, revision) = SampleBy(Began, revision) + Finishing
        /\ Finishing \in Nat
  BY <1>1, <1>2, <1>4, <1>5, TimesAreNat, CommandTimes DEF Started
<1>9. CASE pc = "down"
  <2>1. Booted /\ Resuming
    BY <1>1, <1>9 DEF OnTime
  <2>2. CASE SavedShutdown = {}
    <3>1. now <= lostAt
      BY <2>1, <2>2 DEF Booted
    <3> QED BY <1>2, <1>6, <1>7, <3>1
  <2>3. CASE SavedShutdown # {}
    <3>1. PICK s \in SavedShutdown : TRUE
      BY <2>3
    <3> DEFINE b == s.origin + s.status.outageStartedAt
    <3>2. b \in Nat /\ s.revision \in Revisions
      BY <1>1, SavedValues
    <3>3. BeganBy(b, s.revision)
      BY <1>1 DEF Started
    <3>4. due \in now..FinishBy(b, s.revision) - Needed(running)
      BY <2>1 DEF Resuming
    <3> HIDE DEF b
    <3>5. now > FinishBy(b, s.revision)
      BY <1>4, <1>5, <3>2, <3>3
    <3>6. FinishBy(b, s.revision) \in Nat /\ Needed(running) \in Nat
      BY <1>1, <3>2, TimesAreNat, RetriesLeft
    <3> QED BY <1>2, <3>4, <3>5, <3>6
  <2> QED BY <2>2, <2>3
<1>10. CASE pc # "down" /\ status.state = "NORMAL"
  <2>1. Sampling
    BY <1>1, <1>10 DEF OnTime, Watched
  <2>2. now <= lostAt + Interval
    <3>1. CASE pc = "loop"
      BY <1>10, <2>1, <3>1 DEF Sampling
    <3>2. CASE pc \in {"save", "wait"}
      <4>1. SampledAt <= now /\ now <= tick /\ tick = SampledAt + Interval /\ tick <= lostAt + Interval
        BY <1>10, <2>1, <3>2 DEF Sampling
      <4> QED BY <1>2, <4>1
    <3> QED BY <2>1, <3>1, <3>2 DEF Sampling
  <2> QED BY <1>2, <1>6, <1>7, <2>2
<1>11. CASE pc # "down" /\ status.state = "CONFIRMING_OUTAGE"
  <2>1. Sampling /\ Confirming
    BY <1>1, <1>11 DEF OnTime, Watched
  <2>2. lastAt # NoTime /\ now <= SampledAt + Interval /\ status.outageStartedAt # NoTime
    <3>1. status.outageStartedAt # NoTime /\ lastAt # NoTime /\ status # NewStatus
      BY <1>2, <1>11, <2>1 DEF Coherent, Confirming, NewStatus
    <3>2. CASE pc = "loop"
      BY <1>2, <2>1, <3>1, <3>2 DEF Sampling
    <3>3. CASE pc \in {"save", "wait"}
      BY <1>2, <2>1, <3>1, <3>3 DEF Sampling
    <3> QED BY <2>1, <3>1, <3>2, <3>3 DEF Sampling
  <2> DEFINE by == StartBy(Began, count["flips"], revision)
  <2>3. by \in Nat /\ by + Confirm(revision) - 1 + Interval < Emergency(Began, revision)
    BY <1>2, <2>2, StartByGrows, TimeIsLeft
  <2>4. /\ status.nutStartedAt # NoTime =>
             /\ lastAt < status.nutStartedAt + Confirm(revision)
             /\ origin + status.nutStartedAt <= by
        /\ status.nutStartedAt = NoTime =>
             LET left == Settings[revision].detection.recoverySuccessCount - status.recoveryCount
             IN  left >= 1 /\ SampledAt + left * Interval <= by
    BY <1>11, <2>1 DEF Confirming
  <2> HIDE DEF by
  <2>5. SampledAt <= by + Confirm(revision) - 1
    <3>1. CASE status.nutStartedAt # NoTime
      BY <1>2, <1>6, <2>3, <2>4, <3>1 DEF SampledAt
    <3>2. CASE status.nutStartedAt = NoTime
      <4> DEFINE left == Settings[revision].detection.recoverySuccessCount - status.recoveryCount
      <4>1. left >= 1 /\ SampledAt + left * Interval <= by
        BY <2>4, <3>2
      <4>2. left \in Nat
        <5>1. status.recoveryCount \in Nat
          BY <1>1, EngineValues
        <5>2. Settings[revision].detection.recoverySuccessCount \in Nat
          BY <1>2, Lengths
        <5> QED BY <4>1, <5>1, <5>2
      <4> HIDE DEF left
      <4>3. \A i, j \in Nat : i * j \in Nat
        OBVIOUS
      <4>4. left * Interval \in Nat
        BY <1>2, <4>2, <4>3
      <4> QED BY <1>2, <1>6, <2>3, <4>1, <4>4
    <3> QED BY <3>1, <3>2
  <2> QED BY <1>2, <1>6, <1>8, <2>2, <2>3, <2>5
<1>12. CASE pc # "down" /\ status.state = "SHUTTING_DOWN"
  <2>1. Waiting /\ status.outageStartedAt # NoTime
    BY <1>1, <1>2, <1>12 DEF OnTime, Coherent
  <2>2. CASE pc = "loop"
    <3>1. now + Needed(running) <= FinishBy(Began, revision) /\ Needed(running) \in Nat
      BY <1>1, <2>1, <2>2, RetriesLeft DEF Waiting
    <3> QED BY <1>2, <1>8, <2>1, <3>1
  <2>3. CASE pc # "loop"
    <3>1. now <= SampleBy(Began, revision)
      BY <2>1, <2>3 DEF Waiting
    <3> QED BY <1>2, <1>8, <2>1, <3>1
  <2> QED BY <2>2, <2>3
<1>13. CASE pc # "down" /\ status.state = "POWERED_OFF"
  <2>1. Closed /\ status.outageStartedAt # NoTime
    BY <1>1, <1>2, <1>13 DEF OnTime, Coherent
  <2>2. /\ PoweroffTimeout \in Nat /\ ForceTimeout \in Nat /\ RestartDelay \in Nat
        /\ Retries \in Nat
    BY <1>1, CommandTimes, RetriesLeft
  <2> DEFINE by == FinishBy(Began, revision) - Retries
  <2>3. by < now /\ by \in Int
    BY <1>2, <1>8, <2>1, <2>2
  <2>4. /\ pc = "act" /\ Head(todo) = "emergency_stop_remaining" =>
             now + ForceTimeout + PoweroffTimeout <= by
        /\ pc = "act" /\ Head(todo) = "host_poweroff_requested" => now + PoweroffTimeout <= by
        /\ pc = "force" => \/ due \in now..by - PoweroffTimeout
                           \/ due \in now..by - RestartDelay - ForceTimeout - PoweroffTimeout
        /\ pc = "poweroff" => due \in now..by
        /\ pc \in Commanding /\ Head(todo) # "graceful_shutdown"
    BY <2>1 DEF Closed
  <2>5. pc = "act" => Head(todo) \in {"emergency_stop_remaining", "host_poweroff_requested"}
    <3>1. pc \in Commanding => todo \in ToDos /\ todo # <<>>
      BY <1>1 DEF IInv, Types, Clocks, Commanded
    <3>2. \A l \in ToDos : l # <<>> =>
            Head(l) \in {"graceful_shutdown", "emergency_stop_remaining", "host_poweroff_requested"}
      BY CommandsLeft
    <3> QED BY <2>4, <3>1, <3>2
  <2>6. pc # "stopall"
    BY <1>1, <2>4 DEF IInv, Commanded
  <2> HIDE DEF by
  <2>7. CASE pc = "act"
    <3>1. now <= by
      BY <1>2, <2>2, <2>3, <2>4, <2>5, <2>7
    <3> QED BY <1>2, <2>3, <3>1
  <2>8. CASE pc = "force"
    <3>1. now <= by
      BY <1>2, <2>2, <2>3, <2>4, <2>8
    <3> QED BY <1>2, <2>3, <3>1
  <2>9. CASE pc = "poweroff"
    <3>1. now <= by
      BY <1>2, <2>3, <2>4, <2>9
    <3> QED BY <1>2, <2>3, <3>1
  <2> QED BY <2>4, <2>6, <2>7, <2>8, <2>9 DEF Commanding
<1> QED BY <1>2, <1>9, <1>10, <1>11, <1>12, <1>13 DEF Coherent, EngineStatus, EngineState

(* The host is off before the clock passes the total budget of an outage,  *)
(* under the revisions stored so far, however the mains flicker and        *)
(* however often commands fail, in every configuration that leaves time    *)
(* for the flickers, the commands and their retries.                       *)
THEOREM HostIsOffInBudget ==
  ASSUME LeavesTime
  PROVE  Spec => []HostOffInBudget
<1>1. Promised => HostOffInBudget
  BY PromisedIsInBudget
<1>2. Promised /\ [Next]_vars => Promised'
  BY NextPromised
<1> QED BY <1>1, <1>2, InitPromised, PTL DEF Spec
=============================================================================
