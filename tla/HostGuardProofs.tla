---------------------------- MODULE HostGuardProofs ----------------------------
(***************************************************************************)
(* Proofs about HostGuard, for every configuration, every set of worlds    *)
(* and every bound on time and disturbances.                               *)
(***************************************************************************)
EXTENDS HostGuard, EngineStepProofs, FiniteSetTheorems

(***************************************************************************)
(* The inductive invariant.  PoweroffConfirmed compares the unbroken       *)
(* evidence with the clock when the guard decides; the induction has to    *)
(* know what the engine's timers, which decide, have to do with it all the *)
(* time, in the process and in the file it may be restarted from.          *)
(***************************************************************************)

PastTime(t) == {NoTime} \cup 0..t

Proof(t) == [since : PastTime(t), worlds : SUBSET {w \in Worlds : Evidence(Sampled(w))}]

(* What may be in the file at time t of boot b.                            *)
Saved(t, b) ==
  {s \in [boot : 0..b, origin : 0..t, revision : {0}, status : EngineStatus,
          lastAt : PastTime(t)] : Coherent(s.status)}

(* Split in three: the parts that the proofs treat apart.                  *)
Clocks ==
  /\ now \in 0..MaxTime /\ world \in Worlds /\ badSince \in PastTime(now)
  /\ host \in {"up", "stopping", "off"} /\ boot \in Nat
  /\ pc \in {"down", "loop", "save", "wait", "poweroff", "done"}
  /\ origin \in 0..now /\ Coherent(status) /\ lastAt \in PastTime(now)
  /\ count \in [Disturbance -> Nat]
  /\ \A d \in Disturbance : count[d] <= Limits[d]

Files == file \subseteq Saved(now, boot) /\ \A s, t \in file : s = t

Proven == evidence \in [kept : Proof(now), now : Proof(now)]

Types == Clocks /\ Files /\ Proven

(* A process runs on a host that is up; one that does not run knows        *)
(* nothing, and what it forgot is what was not saved.                      *)
Places ==
  /\ pc \in {"loop", "save", "wait", "poweroff"} => host = "up"
  /\ pc = "done" <=> host = "stopping"
  /\ pc \in {"down", "done"} => status = NewStatus /\ ~requested
  /\ pc = "down" /\ host = "up" => evidence.now = evidence.kept

Timers ==
  /\ Backed(origin, status, evidence.now.since)
  /\ \A s \in file : s.boot = boot => Backed(s.origin, s.status, evidence.kept.since)

IInv == Types /\ Places /\ Timers

-----------------------------------------------------------------------------
(* The guard starts with no outage seen.                                  *)
LEMMA InitInv == Init => IInv
<1> SUFFICES ASSUME Init PROVE IInv
  OBVIOUS
<1>1. NoEvidence \in Proof(0)
  BY DEF NoEvidence, Proof, PastTime
<1>4. /\ count \in [Disturbance -> Nat]
      /\ \A d \in Disturbance : count[d] <= Limits[d]
  BY BoundsAssumption DEF Init
<1>2. Clocks
  BY <1>4, NewCoherent, BoundsAssumption DEF Init, Clocks, PastTime
<1>3. Files /\ Proven
  BY <1>1 DEF Init, Files, Proven, NoFile
<1> QED BY <1>2, <1>3, NewBacked DEF Init, IInv, Types, Places, Timers, NoFile

(* What the evidence becomes when the process ends.                        *)
LEMMA EvidenceKept ==
  ASSUME Types
  PROVE  LET e == [evidence EXCEPT !.now = evidence.kept]
         IN  /\ e \in [kept : Proof(now), now : Proof(now)]
             /\ e.now = evidence.kept /\ e.kept = evidence.kept
BY DEF Types, Proven

(* The end of the process loses what it had not saved.                     *)
LEMMA DieInv ==
  ASSUME IInv, Die, host = "up", count' \in [Disturbance -> Nat],
         \A d \in Disturbance : count'[d] <= Limits[d]
  PROVE  IInv'
<1>1. /\ now' = now /\ world' = world /\ badSince' = badSince /\ host' = host /\ boot' = boot
      /\ file' = file
      /\ pc' = "down" /\ origin' = 0 /\ status' = NewStatus /\ lastAt' = NoTime
      /\ requested' = FALSE
      /\ evidence' = [evidence EXCEPT !.now = evidence.kept]
  BY DEF Die, Forget, outside
<1>2. /\ evidence' \in [kept : Proof(now), now : Proof(now)]
      /\ evidence'.now = evidence.kept /\ evidence'.kept = evidence.kept
  BY <1>1, EvidenceKept DEF IInv
<1>3. Clocks'
  BY <1>1, NewCoherent DEF IInv, Types, Clocks, PastTime
<1>6. Files' /\ Proven'
  BY <1>1, <1>2 DEF IInv, Types, Files, Proven
<1>4. Places'
  BY <1>1, <1>2 DEF IInv, Places
<1>5. Timers'
  BY <1>1, <1>2, NewBacked DEF IInv, Timers
<1> QED BY <1>3, <1>4, <1>5, <1>6 DEF IInv, Types

(* A disturbance that may happen keeps the counts.                         *)
LEMMA HappensCounts ==
  ASSUME IInv, NEW d \in Disturbance, Happens(d)
  PROVE  /\ count' \in [Disturbance -> Nat]
         /\ \A e \in Disturbance : count'[e] <= Limits[e]
<1>1. /\ count \in [Disturbance -> Nat]
      /\ \A e \in Disturbance : count[e] <= Limits[e]
      /\ count[d] < Limits[d]
      /\ count' = [count EXCEPT ![d] = count[d] + 1]
  BY DEF IInv, Types, Clocks, Happens, May
<1>2. count[d] \in Nat /\ Limits[d] \in Nat
  BY <1>1, BoundsAssumption
<1>3. ASSUME NEW e \in Disturbance
      PROVE  count'[e] = IF e = d THEN count[d] + 1 ELSE count[e]
  BY <1>1
<1> QED BY <1>1, <1>2, <1>3

(* Starting takes up the file's outage, with the evidence kept, or a new   *)
(* engine.                                                                 *)
LEMMA StartInv ==
  ASSUME IInv, Start
  PROVE  IInv'
<1>1. /\ pc = "down" /\ host = "up" /\ pc' = "loop"
      /\ file' = Restorable(file, boot)
      /\ now' = now /\ world' = world /\ badSince' = badSince /\ host' = host /\ boot' = boot
      /\ requested' = requested /\ count' = count /\ evidence' = evidence
      /\ \/ \E s \in file' : origin' = s.origin /\ status' = s.status /\ lastAt' = s.lastAt
         \/ /\ file' = NoFile
            /\ origin' = now /\ status' = NewStatus /\ lastAt' = NoTime
  BY DEF Start, outside
<1>2. \A s \in file' : s \in file /\ s.boot = boot
  BY <1>1 DEF Restorable
<1>3. \A s \in file : s \in Saved(now, boot)
  BY DEF IInv, Types, Files, NoFile
<1>4. Files'
  BY <1>1, <1>2 DEF IInv, Types, Files
<1>5. Proven'
  BY <1>1 DEF IInv, Types, Proven
<1>6. \A s \in file' : /\ s.origin \in 0..now /\ Coherent(s.status) /\ s.lastAt \in PastTime(now)
                       /\ Backed(s.origin, s.status, evidence.kept.since)
  BY <1>2, <1>3 DEF Saved, IInv, Timers
<1>7. /\ origin' \in 0..now /\ Coherent(status') /\ lastAt' \in PastTime(now)
      /\ Backed(origin', status', evidence.kept.since)
  <2>1. CASE \E s \in file' : origin' = s.origin /\ status' = s.status /\ lastAt' = s.lastAt
    BY <1>6, <2>1
  <2>2. CASE origin' = now /\ status' = NewStatus /\ lastAt' = NoTime
    BY <2>2, NewCoherent, NewBacked DEF IInv, Types, Clocks, PastTime
  <2> QED BY <1>1, <2>1, <2>2
<1>8. Clocks'
  BY <1>1, <1>7 DEF IInv, Types, Clocks
<1>9. Places'
  BY <1>1 DEF IInv, Places
<1>10. Timers'
  BY <1>1, <1>6, <1>7 DEF IInv, Places, Timers
<1> QED BY <1>4, <1>5, <1>8, <1>9, <1>10 DEF IInv, Types

(* What a round makes of the evidence.                                     *)
LEMMA RoundEvidence ==
  ASSUME IInv, Round
  PROVE  LET x == Sampled(world)
         IN  /\ Proven'
             /\ evidence'.kept = evidence.kept
             /\ Lasts(evidence.now.since, evidence'.now.since, now, x)
<1> DEFINE x == Sampled(world)
           grown == [since |-> First(evidence.now.since, now), worlds |-> evidence.now.worlds \cup {world}]
<1>1. /\ evidence' = [evidence EXCEPT !.now = IF Evidence(x) THEN grown ELSE NoEvidence]
      /\ now' = now
  BY DEF Round
<1>2. /\ evidence.now.since \in PastTime(now)
      /\ evidence.now.worlds \subseteq {w \in Worlds : Evidence(Sampled(w))}
      /\ evidence.kept \in Proof(now)
      /\ evidence \in [kept : Proof(now), now : Proof(now)]
      /\ now \in Nat /\ world \in Worlds
  BY BoundsAssumption DEF IInv, Types, Clocks, Proven, Proof
<1>3. First(evidence.now.since, now) \in 0..now
  BY <1>2 DEF First, PastTime
<1>4. ASSUME Evidence(x) PROVE grown \in Proof(now)
  BY <1>2, <1>3, <1>4 DEF Proof, PastTime
<1>5. NoEvidence \in Proof(now)
  BY DEF NoEvidence, Proof, PastTime
<1>6. Evidence(x) => grown.since = First(evidence.now.since, now)
  OBVIOUS
<1> HIDE DEF x, grown
<1>7. /\ evidence' \in [kept : Proof(now), now : Proof(now)]
      /\ evidence'.kept = evidence.kept
      /\ Evidence(x) => evidence'.now = grown
  BY <1>1, <1>2, <1>4, <1>5
<1>8. Proven'
  BY <1>1, <1>7 DEF Proven
<1>9. Evidence(x) => /\ evidence'.now.since = First(evidence.now.since, now)
                     /\ evidence'.now.since # NoTime
                     /\ evidence'.now.since <= now
  BY <1>2, <1>3, <1>6, <1>7 DEF NoTime
<1> QED BY <1>7, <1>8, <1>9 DEF x, Lasts

(* A round: the timers it starts begin now, and those that run were backed *)
(* before.                                                                 *)
LEMMA RoundInv ==
  ASSUME IInv, Round
  PROVE  IInv'
<1> DEFINE x == Sampled(world)
           at == now - origin
           n  == Step(Detection, status, at, x).status
<1>1. /\ pc = "loop" /\ pc' = "save"
      /\ Accepts(lastAt, at)
      /\ status' = n /\ lastAt' = at /\ origin' = origin
      /\ now' = now /\ world' = world /\ badSince' = badSince /\ host' = host /\ boot' = boot
      /\ file' = file /\ count' = count
  BY DEF Round, outside
<1>2. /\ at \in Nat /\ at <= now /\ origin \in 0..now /\ now \in Nat
      /\ Coherent(status) /\ world \in Worlds
  BY BoundsAssumption DEF IInv, Types, Clocks
<1>3. x \in Snapshot
  BY <1>2, WorldsAssumption
  DEF Sampled, SnapshotOf, SampleOf, AnyReachable, Snapshot, NUTStatus
<1>4. Coherent(n)
  BY <1>2, <1>3, StepKeeps, DetectionAssumption
<1>5. /\ Proven'
      /\ evidence'.kept = evidence.kept
      /\ Lasts(evidence.now.since, evidence'.now.since, now, x)
  BY RoundEvidence
<1>9. Backed(origin, n, evidence'.now.since)
  BY <1>2, <1>3, <1>5, StepBacked, DetectionAssumption DEF IInv, Timers
<1> HIDE DEF x, at
<1>6. Clocks'
  BY <1>1, <1>2, <1>4 DEF IInv, Types, Clocks, PastTime
<1>7. Files'
  BY <1>1 DEF IInv, Types, Files
<1>8. Places'
  BY <1>1 DEF IInv, Places
<1>10. Timers'
  BY <1>1, <1>5, <1>9 DEF IInv, Timers
<1> QED BY <1>5, <1>6, <1>7, <1>8, <1>10 DEF IInv, Types

(* The save makes the evidence kept that of the engine saved.              *)
LEMMA PersistInv ==
  ASSUME IInv, Persist
  PROVE  IInv'
<1>1. /\ pc = "save" /\ pc' \in {"poweroff", "wait"}
      /\ file' = Save(boot, origin, 0, status, lastAt)
      /\ evidence' = [evidence EXCEPT !.kept = evidence.now]
      /\ now' = now /\ world' = world /\ badSince' = badSince /\ host' = host /\ boot' = boot
      /\ origin' = origin /\ status' = status /\ lastAt' = lastAt
      /\ count' = count
  BY DEF Persist, outside, engine
<1>2. Clocks'
  BY <1>1 DEF IInv, Types, Clocks
<1> DEFINE s == [boot |-> boot, origin |-> origin, revision |-> 0, status |-> status,
                 lastAt |-> lastAt]
<1>3. s \in Saved(now, boot)
  BY DEF IInv, Types, Clocks, Saved, Coherent
<1>4. file' = NoFile \/ file' = {s}
  BY <1>1 DEF Save
<1>5. Files'
  BY <1>1, <1>3, <1>4 DEF Files, NoFile
<1>6. /\ evidence' \in [kept : Proof(now), now : Proof(now)]
      /\ evidence'.kept = evidence.now
      /\ evidence'.now = evidence.now
  BY <1>1 DEF IInv, Types, Proven
<1>7. Proven'
  BY <1>1, <1>6 DEF Proven
<1>8. Places'
  BY <1>1 DEF IInv, Places
<1>9. Timers'
  BY <1>1, <1>4, <1>6 DEF IInv, Timers, NoFile
<1> QED BY <1>2, <1>5, <1>7, <1>8, <1>9 DEF IInv, Types

(* The other steps: nothing the timers depend on, or a new boot.           *)
LEMMA AcceptedInv ==
  ASSUME IInv, PoweroffAccepted
  PROVE  IInv'
<1>1. /\ pc = "poweroff" /\ pc' = "done" /\ host' = "stopping"
      /\ origin' = 0 /\ status' = NewStatus /\ lastAt' = NoTime /\ requested' = FALSE
      /\ now' = now /\ world' = world /\ badSince' = badSince /\ boot' = boot
      /\ file' = file /\ count' = count /\ evidence' = evidence
  BY DEF PoweroffAccepted, Forget
<1>2. Clocks'
  BY <1>1, NewCoherent DEF IInv, Types, Clocks, PastTime
<1>3. Files' /\ Proven'
  BY <1>1 DEF IInv, Types, Files, Proven
<1>4. Places'
  BY <1>1 DEF IInv, Places
<1>5. Timers'
  BY <1>1, NewBacked DEF IInv, Timers
<1> QED BY <1>2, <1>3, <1>4, <1>5 DEF IInv, Types

(* The guard wakes for its next reading.                                  *)
LEMMA WakeInv ==
  ASSUME IInv, Wake
  PROVE  IInv'
<1>1. /\ pc = "wait" /\ pc' = "loop"
      /\ now' = now /\ world' = world /\ badSince' = badSince /\ host' = host /\ boot' = boot
      /\ origin' = origin /\ status' = status /\ lastAt' = lastAt /\ requested' = requested
      /\ file' = file /\ count' = count /\ evidence' = evidence
  BY DEF Wake, outside, engine
<1>2. Clocks'
  BY <1>1 DEF IInv, Types, Clocks
<1>3. Files' /\ Proven'
  BY <1>1 DEF IInv, Types, Files, Proven
<1>4. Places' /\ Timers'
  BY <1>1 DEF IInv, Places, Timers
<1> QED BY <1>2, <1>3, <1>4 DEF IInv, Types

(* What was past at time t is past at t + 1.                               *)
LEMMA PastGrows ==
  ASSUME NEW t \in Nat, NEW b \in Nat
  PROVE  /\ PastTime(t) \subseteq PastTime(t + 1)
         /\ Proof(t) \subseteq Proof(t + 1)
         /\ Saved(t, b) \subseteq Saved(t + 1, b)
         /\ Saved(t, b) \subseteq Saved(t, b + 1)
<1>1. /\ PastTime(t) \subseteq PastTime(t + 1)
      /\ 0..t \subseteq 0..t + 1 /\ 0..b \subseteq 0..b + 1
  BY DEF PastTime
<1> QED BY <1>1 DEF Proof, Saved

(* The clock moves while the guard waits or reads.                        *)
LEMMA TickInv ==
  ASSUME IInv, Tick
  PROVE  IInv'
<1>1. /\ now < MaxTime /\ now' = now + 1
      /\ world' = world /\ badSince' = badSince /\ host' = host /\ boot' = boot
      /\ pc' = pc /\ origin' = origin /\ status' = status /\ lastAt' = lastAt
      /\ requested' = requested
      /\ file' = file /\ count' = count /\ evidence' = evidence
  BY DEF Tick, outside, engine
<1>2. now \in Nat /\ MaxTime \in Nat /\ boot \in Nat
  BY BoundsAssumption DEF IInv, Types, Clocks
<1>3. /\ PastTime(now) \subseteq PastTime(now + 1)
      /\ Proof(now) \subseteq Proof(now + 1)
      /\ Saved(now, boot) \subseteq Saved(now + 1, boot)
  BY <1>2, PastGrows
<1>4. Clocks'
  BY <1>1, <1>2, <1>3 DEF IInv, Types, Clocks
<1>5. Files'
  BY <1>1, <1>3 DEF IInv, Types, Files
<1>6. Proven'
  BY <1>1, <1>3 DEF IInv, Types, Proven
<1>7. Places' /\ Timers'
  BY <1>1 DEF IInv, Places, Timers
<1> QED BY <1>4, <1>5, <1>6, <1>7 DEF IInv, Types

(* A change of the world goes on with the evidence or ends it.            *)
LEMMA WorldChangesInv ==
  ASSUME IInv, WorldChanges
  PROVE  IInv'
<1>1. /\ world' \in Worlds /\ badSince' \in {NoTime, First(badSince, now)}
      /\ now' = now /\ host' = host /\ boot' = boot
      /\ pc' = pc /\ origin' = origin /\ status' = status /\ lastAt' = lastAt
      /\ requested' = requested /\ file' = file /\ evidence' = evidence
  BY DEF WorldChanges, engine
<1>2. /\ count' \in [Disturbance -> Nat]
      /\ \A e \in Disturbance : count'[e] <= Limits[e]
  BY HappensCounts DEF WorldChanges, Disturbance
<1>3. badSince' \in PastTime(now)
  BY <1>1, BoundsAssumption DEF IInv, Types, Clocks, PastTime, First
<1>4. Clocks'
  BY <1>1, <1>2, <1>3 DEF IInv, Types, Clocks
<1>5. Files' /\ Proven'
  BY <1>1 DEF IInv, Types, Files, Proven
<1>6. Places' /\ Timers'
  BY <1>1 DEF IInv, Places, Timers
<1> QED BY <1>4, <1>5, <1>6 DEF IInv, Types

(* The host halts as it was asked to; the process is gone.                *)
LEMMA HostHaltsInv ==
  ASSUME IInv, HostHalts
  PROVE  IInv'
<1>1. /\ host = "stopping" /\ host' = "off" /\ pc' = "down"
      /\ now' = now /\ world' = world /\ badSince' = badSince /\ boot' = boot
      /\ origin' = origin /\ status' = status /\ lastAt' = lastAt /\ requested' = requested
      /\ file' = file /\ count' = count /\ evidence' = evidence
  BY DEF HostHalts, engine
<1>2. Clocks'
  BY <1>1 DEF IInv, Types, Clocks
<1>3. Files' /\ Proven'
  BY <1>1 DEF IInv, Types, Files, Proven
<1>4. Places' /\ Timers'
  BY <1>1 DEF IInv, Places, Timers
<1> QED BY <1>2, <1>3, <1>4 DEF IInv, Types

(* The UPS runs out; the process is gone.                                 *)
LEMMA UPSEmptyInv ==
  ASSUME IInv, UPSEmpty
  PROVE  IInv'
<1>1. /\ host' = "off" /\ pc' = "down"
      /\ origin' = 0 /\ status' = NewStatus /\ lastAt' = NoTime /\ requested' = FALSE
      /\ now' = now /\ world' = world /\ badSince' = badSince /\ boot' = boot
      /\ file' = file /\ count' = count /\ evidence' = evidence
  BY DEF UPSEmpty, Forget
<1>2. Clocks'
  BY <1>1, NewCoherent DEF IInv, Types, Clocks, PastTime
<1>3. Files' /\ Proven'
  BY <1>1 DEF IInv, Types, Files, Proven
<1>4. Places'
  BY <1>1 DEF IInv, Places
<1>5. Timers'
  BY <1>1, NewBacked DEF IInv, Timers
<1> QED BY <1>2, <1>3, <1>4, <1>5 DEF IInv, Types

(* A boot leaves nothing in the file that is of it.                        *)
LEMMA HostBootsInv ==
  ASSUME IInv, HostBoots
  PROVE  IInv'
<1>1. /\ host = "off" /\ host' = "up" /\ boot' = boot + 1
      /\ badSince' \in {NoTime, now}
      /\ now' = now /\ world' = world
      /\ pc' = pc /\ origin' = origin /\ status' = status /\ lastAt' = lastAt
      /\ requested' = requested /\ file' = file
      /\ evidence' = [kept |-> NoEvidence, now |-> NoEvidence]
  BY DEF HostBoots, engine
<1>2. /\ count' \in [Disturbance -> Nat]
      /\ \A e \in Disturbance : count'[e] <= Limits[e]
  BY HappensCounts DEF HostBoots, Disturbance
<1>3. now \in Nat /\ boot \in Nat
  BY BoundsAssumption DEF IInv, Types, Clocks
<1>4. Clocks'
  BY <1>1, <1>2, <1>3 DEF IInv, Types, Clocks, PastTime
<1>5. Files'
  BY <1>1, <1>3, PastGrows DEF IInv, Types, Files
<1>6. NoEvidence \in Proof(now)
  BY DEF NoEvidence, Proof, PastTime
<1>7. Proven'
  BY <1>1, <1>6 DEF Proven
<1>8. pc = "down" /\ status = NewStatus
  BY <1>1 DEF IInv, Types, Clocks, Places
<1>9. Places'
  BY <1>1, <1>8 DEF IInv, Places
<1>10. \A s \in file : s.boot # boot + 1
  BY <1>3 DEF IInv, Types, Files, Saved, NoFile
<1>11. Timers'
  BY <1>1, <1>8, <1>10, NewBacked DEF Timers
<1> QED BY <1>4, <1>5, <1>7, <1>9, <1>11 DEF IInv, Types

(* Every step keeps the invariant.                                        *)
LEMMA NextInv == IInv /\ [Next]_vars => IInv'
<1> SUFFICES ASSUME IInv, [Next]_vars PROVE IInv'
  OBVIOUS
<1>1. ASSUME Die, host = "up", NEW d \in Disturbance, Happens(d)
      PROVE  IInv'
  BY <1>1, DieInv, HappensCounts
<1>2. CASE PersistFails
  BY <1>1, <1>2 DEF PersistFails, Disturbance, IInv, Places
<1>3. CASE PoweroffFails
  BY <1>1, <1>3 DEF PoweroffFails, Disturbance, IInv, Places
<1>4. CASE Crash
  BY <1>1, <1>4 DEF Crash, Disturbance
<1>5. CASE UNCHANGED vars
  <2>1. /\ now' = now /\ world' = world /\ badSince' = badSince /\ host' = host /\ boot' = boot
        /\ pc' = pc /\ origin' = origin /\ status' = status /\ lastAt' = lastAt
        /\ requested' = requested /\ file' = file /\ count' = count /\ evidence' = evidence
    BY <1>5 DEF vars, outside, engine
  <2>2. Clocks'
    BY <2>1 DEF IInv, Types, Clocks
  <2>3. Files' /\ Proven'
    BY <2>1 DEF IInv, Types, Files, Proven
  <2>4. Places' /\ Timers'
    BY <2>1 DEF IInv, Places, Timers
  <2> QED BY <2>2, <2>3, <2>4 DEF IInv, Types
<1> QED BY <1>2, <1>3, <1>4, <1>5, StartInv, RoundInv, PersistInv, AcceptedInv, WakeInv, TickInv,
           WorldChangesInv, HostHaltsInv, UPSEmptyInv, HostBootsInv
        DEF Next, Guard, Environment

(* The invariant holds in every behaviour.                                *)
LEMMA Invariance == Spec => []IInv
BY InitInv, NextInv, PTL DEF Spec
-----------------------------------------------------------------------------
(* The variables of the host guard keep their types; a process that does   *)
(* not run has asked for nothing, and the guard is done exactly while the  *)
(* host halts.                                                             *)
THEOREM TypeCorrect == Spec => []TypeOK
<1>1. IInv => TypeOK
  <2> SUFFICES ASSUME IInv PROVE TypeOK
    OBVIOUS
  <2>1. Cardinality(file) <= 1
    <3>1. file = {} \/ \E s \in file : file = {s}
      BY DEF IInv, Types, Files
    <3>2. CASE file = {}
      BY <3>2, FS_EmptySet
    <3>3. ASSUME NEW s \in file, file = {s} PROVE Cardinality(file) <= 1
      BY <3>3, FS_Singleton
    <3> QED BY <3>1, <3>2, <3>3
  <2> QED BY <2>1 DEF TypeOK, IInv, Types, Clocks, Places, PastTime
<1> QED BY <1>1, Invariance, PTL

(* The host is given up only on evidence that was unbroken, as far as the  *)
(* guard has not forgotten it in a crash, for as long as the configuration *)
(* asks: whatever the worlds, the crashes, the failures and the boots.     *)
THEOREM PoweroffIsConfirmed == Spec => PoweroffConfirmed
<1>1. ASSUME IInv, [Next]_vars, Decides
      PROVE  /\ evidence'.now # NoEvidence
             /\ now - evidence'.now.since >= Detection.nutConfirm
  <2>1. Round
    BY <1>1 DEF Decides, Next, Guard, Environment, vars, Start, Persist, PersistFails,
        PoweroffAccepted, PoweroffFails, Wake, Tick, WorldChanges, Crash, HostHalts, UPSEmpty,
        HostBoots, Die
  <2> DEFINE x == Sampled(world)
             at == now - origin
  <2>2. /\ status.state \in Watched
        /\ Step(Detection, status, at, x).status.state \notin Watched
    BY <1>1, <2>1 DEF Decides, Round, Watched
  <2>3. /\ at \in Nat /\ origin \in 0..now /\ now \in Nat
        /\ Coherent(status) /\ world \in Worlds
    BY <1>1, <2>1, BoundsAssumption DEF IInv, Types, Clocks
  <2>4. x \in Snapshot
    BY <2>3, WorldsAssumption
    DEF Sampled, SnapshotOf, SampleOf, AnyReachable, Snapshot, NUTStatus
  <2>5. Proven' /\ Lasts(evidence.now.since, evidence'.now.since, now, x)
    BY <1>1, <2>1, RoundEvidence
  <2>6. evidence.now.since \in Int
    BY <1>1, <2>3 DEF IInv, Types, Proven, Proof, PastTime, NoTime
  <2>7. /\ evidence'.now.since # NoTime
        /\ \/ now - evidence'.now.since >= Detection.nutConfirm
           \/ now - evidence'.now.since >= Detection.networkConfirm
    BY <1>1, <2>2, <2>3, <2>4, <2>5, <2>6, EvidenceLasted, DetectionAssumption DEF IInv, Timers
  <2> QED BY <2>7, DetectionAssumption DEF NoEvidence
<1>2. IInv /\ [Next]_vars => [Decides => /\ evidence'.now # NoEvidence
                                        /\ now - evidence'.now.since >= Detection.nutConfirm]_vars
  BY <1>1
<1> QED BY <1>2, Invariance, PTL DEF Spec, PoweroffConfirmed

(* The head of a sequence is its first element.                            *)
LEMMA HeadIsFirst ==
  ASSUME NEW S, NEW s \in Seq(S), s # <<>>
  PROVE  1 \in DOMAIN s /\ Head(s) = s[1]
<1>1. Len(s) \in Nat \ {0} /\ DOMAIN s = 1..Len(s)
  BY EmptySeq, LenProperties
<1> QED BY <1>1

(* The first target of a group is probed in what is left of the round,     *)
(* however little that is.                                                 *)
LEMMA FirstTargetProbed ==
  ASSUME NEW w \in Worlds
  PROVE  /\ Head(w.lan) => AnyReachable(w.lan, Left(w))
         /\ Head(w.wan) => AnyReachable(w.wan, Left(w))
<1>1. Left(w) > 0
  BY BoundsAssumption DEF Left
<1>2. PingTime * 0 = 0
  BY BoundsAssumption
<1>3. ASSUME NEW s \in Seq(BOOLEAN), s # <<>>, Head(s)
      PROVE  AnyReachable(s, Left(w))
  <2>1. 1 \in DOMAIN s /\ s[1]
    <3>1. 1 \in DOMAIN s /\ Head(s) = s[1]
      BY <1>3, HeadIsFirst, Zenon
    <3> QED BY <1>3, <3>1, Zenon
  <2>2. {j \in 1..1 - 1 : ~s[j]} = {}
    OBVIOUS
  <2>3. PingTime * Cardinality({j \in 1..1 - 1 : ~s[j]}) < Left(w)
    BY <1>1, <1>2, <2>2, FS_EmptySet
  <2> QED BY <2>1, <2>3 DEF AnyReachable
<1>4. /\ w.lan \in Seq(BOOLEAN) /\ w.lan # <<>>
      /\ w.wan \in Seq(BOOLEAN) /\ w.wan # <<>>
  BY WorldsAssumption
<1> QED BY <1>3, <1>4

(* So a world whose gateway is alive is never evidence.                    *)
LEMMA GatewayIsNoEvidence ==
  ASSUME NEW w \in Worlds, FirstTargetAlive(w)
  PROVE  ~Evidence(Sampled(w))
<1>1. w.nut # "answers" /\ (AnyReachable(w.lan, Left(w)) \/ AnyReachable(w.wan, Left(w)))
  BY FirstTargetProbed DEF FirstTargetAlive
<1> QED BY <1>1 DEF Evidence, NUTEvidence, NetworkEvidence, Sampled, SnapshotOf, SampleOf

(* No failure of the NUT server alone ever costs the host its power: none  *)
(* of the worlds on which the guard decides has its gateway alive.         *)
THEOREM GatewaySparesTheHost == Spec => GatewaySparesHost
<1>1. IInv /\ [Next]_vars
        => [Decides => \A w \in evidence'.now.worlds : ~FirstTargetAlive(w)]_vars
  <2>1. IInv' => \A w \in evidence'.now.worlds : w \in Worlds /\ Evidence(Sampled(w))
    BY DEF IInv, Types, Proven, Proof
  <2> QED BY <2>1, NextInv, GatewayIsNoEvidence
<1> QED BY <1>1, Invariance, PTL DEF Spec, GatewaySparesHost
-----------------------------------------------------------------------------
(***************************************************************************)
(* When the host is off.  HostOffInBudget needs a configuration that       *)
(* leaves time for what it promises.  Confirming is the longest a watching *)
(* engine takes from its first sample of an outage to its decision: a      *)
(* timer of the networks may run out of evidence just before it confirms,  *)
(* and NUT's starts anew.  A fault costs the restart and, because what the *)
(* engine did past the reserve is not in the file, a second confirmation   *)
(* and a second command; when nothing can fail none of that is needed, and *)
(* the default configuration leaves time.                                  *)
(***************************************************************************)
Confirming == 2 * (Detection.nutConfirm + Interval - 1)

Retrying == Confirming + PoweroffTimeout + RestartDelay

MayFail == Limits["crashes"] + Limits["failures"] > 0

LeavesTime ==
  /\ Interval - 1 + PoweroffTimeout <= Detection.emergencyReserve
  /\ Confirming + PoweroffTimeout + (IF MayFail THEN Retrying ELSE 0) <= Detection.totalBudget

Faults == count["crashes"] + count["failures"]

(* The moments that bound an outage of b after f faults: of the first      *)
(* sample, the decision and the end of the poweroff command.               *)
FirstBy(b, f)  == b + Interval + (IF f = 0 THEN 0 ELSE Retrying)
DecideBy(b, f) == FirstBy(b, f) + Confirming
OffBy(b)       == b + Interval + Detection.totalBudget

SampledAt == origin + lastAt

Sampling == {"loop", "save", "wait"}

(* The timers of a status began in the past; after a sample, no timer has  *)
(* confirmed the outage, and no shutdown has come to its reserve.          *)
Past(from, s) ==
  \A t \in {s.outageStartedAt, s.nutStartedAt, s.networkStartedAt} : t # NoTime => from + t <= now

Pending(s, last) ==
  /\ s.state \in Watched =>
       /\ s.nutStartedAt # NoTime => last < s.nutStartedAt + Detection.nutConfirm
       /\ s.nutStartedAt = NoTime /\ s.networkStartedAt # NoTime
            => last < s.networkStartedAt + Detection.nutConfirm
  /\ s.state = "SHUTTING_DOWN" => last < EmergencyAt(Detection, s)

(* Each place of the guard is left by a moment that is known.              *)
Ticking ==
  /\ due \in Nat /\ tick \in Nat
  /\ badSince = NoTime <=> ~Evidence(Sampled(world))
  /\ pc = "loop" => tick = now + Interval
  /\ pc = "save" => now = SampledAt /\ tick = now + Interval
  /\ pc = "wait" => SampledAt <= now /\ now <= tick /\ tick = SampledAt + Interval
  /\ pc = "poweroff" => SampledAt <= now /\ now <= due /\ due = SampledAt + PoweroffTimeout
  /\ pc = "down" /\ host = "up" =>
       now <= due /\ due <= now + (IF Faults = 0 THEN 0 ELSE RestartDelay)

(* A guard that goes on after a sample watches, or resumed a shutdown.     *)
Watching ==
  /\ pc \in {"loop", "wait"} => ~requested
  /\ pc \in Sampling /\ ~requested =>
       status.state \in Watched \/ (status.state = "SHUTTING_DOWN" /\ Faults # 0)
  /\ Past(origin, status)
  /\ pc \in Sampling => Pending(status, lastAt)
  /\ \A s \in file : Past(s.origin, s.status) /\ Pending(s.status, s.lastAt)
  /\ pc = "down" /\ host = "up" /\ Faults = 0 => \A s \in file : s.boot # boot

(* While the outage lasts: from the first sample on something runs that    *)
(* ends with the host, and it began in time.                               *)
Going ==
  \/ status.nutStartedAt # NoTime \/ status.networkStartedAt # NoTime
  \/ status.state = "SHUTTING_DOWN"

OutageBy(from, s) == s.outageStartedAt # NoTime => from + s.outageStartedAt <= badSince + Interval

TimersBy ==
  /\ status.nutStartedAt # NoTime =>
       origin + status.nutStartedAt + Detection.nutConfirm + Interval - 1 <= DecideBy(badSince, Faults)
  /\ status.nutStartedAt = NoTime /\ status.networkStartedAt # NoTime =>
       origin + status.networkStartedAt <= FirstBy(badSince, Faults)

OnTime ==
  /\ pc = "down" => due <= FirstBy(badSince, Faults)
  /\ pc = "loop" => now <= FirstBy(badSince, Faults) \/ (Going /\ now <= SampledAt + Interval)
  /\ pc \in {"save", "wait"} /\ ~requested => tick <= FirstBy(badSince, Faults) \/ Going
  /\ pc \in Sampling /\ status.state \in Watched => TimersBy
  /\ pc \in Sampling /\ (Faults = 0 \/ (~requested /\ status.state = "SHUTTING_DOWN"))
       => OutageBy(origin, status)
  /\ pc = "save" /\ requested =>
       /\ now + PoweroffTimeout <= OffBy(badSince)
       /\ Faults = 0 => now <= DecideBy(badSince, Faults)
  /\ pc = "poweroff" =>
       /\ due <= OffBy(badSince)
       /\ Faults = 0 => due <= DecideBy(badSince, Faults) + PoweroffTimeout
  /\ \A s \in file : s.boot = boot /\ s.status.state = "SHUTTING_DOWN" =>
       OutageBy(s.origin, s.status) \/ (pc = "poweroff" /\ Faults = 1)

Punctual == host = "up" /\ badSince # NoTime /\ Faults <= 1 => OnTime

TimeInv == Ticking /\ Watching /\ Punctual

-----------------------------------------------------------------------------
(* The lengths of time that make up the bounds.                            *)
LEMMA Durations ==
  /\ Interval \in Nat /\ Interval >= 1
  /\ PoweroffTimeout \in Nat /\ RestartDelay \in Nat
  /\ Detection.nutConfirm \in Nat /\ Detection.nutConfirm >= 1
  /\ Detection.networkConfirm = Detection.nutConfirm
  /\ Detection.totalBudget \in Nat /\ Detection.emergencyReserve \in Nat
  /\ Confirming \in Nat
  /\ Confirming = (Detection.nutConfirm + Interval - 1) + (Detection.nutConfirm + Interval - 1)
  /\ Retrying \in Nat /\ Retrying = Confirming + PoweroffTimeout + RestartDelay
<1>1. /\ Interval \in Nat /\ Interval >= 1
      /\ PoweroffTimeout \in Nat /\ RestartDelay \in Nat
  BY DetectionAssumption, BoundsAssumption
<1>2. /\ Detection.nutConfirm \in Nat /\ Detection.nutConfirm >= 1
      /\ Detection.networkConfirm = Detection.nutConfirm
      /\ Detection.totalBudget \in Nat /\ Detection.emergencyReserve \in Nat
  <2>1. /\ Detection.nutConfirm \in Int /\ Detection.nutConfirm > 0
        /\ Detection.totalBudget \in Int /\ Detection.totalBudget > 0
        /\ Detection.emergencyReserve \in Int /\ Detection.emergencyReserve > 0
    BY DetectionAssumption DEF Config, Validate
  <2> QED BY <2>1, DetectionAssumption
<1>3. /\ Confirming \in Nat
      /\ Confirming = (Detection.nutConfirm + Interval - 1) + (Detection.nutConfirm + Interval - 1)
  BY <1>1, <1>2 DEF Confirming
<1> QED BY <1>1, <1>2, <1>3 DEF Retrying

(* How the bounds of an outage lie.                                        *)
LEMMA Bounds ==
  ASSUME LeavesTime, NEW b \in Nat, NEW f \in Nat, f <= 1, f # 0 => MayFail
  PROVE  /\ FirstBy(b, f) \in Nat /\ DecideBy(b, f) \in Nat /\ OffBy(b) \in Nat
         /\ b + Interval <= FirstBy(b, f)
         /\ f = 0 => FirstBy(b, f) = b + Interval
         /\ f # 0 => FirstBy(b, f) = b + Interval + Retrying
         /\ DecideBy(b, f) = FirstBy(b, f) + Confirming
         /\ DecideBy(b, f) + PoweroffTimeout <= OffBy(b)
         /\ OffBy(b) = b + Interval + Detection.totalBudget
<1>1. /\ FirstBy(b, f) = b + Interval + (IF f = 0 THEN 0 ELSE Retrying)
      /\ DecideBy(b, f) = FirstBy(b, f) + Confirming
      /\ OffBy(b) = b + Interval + Detection.totalBudget
  BY DEF FirstBy, DecideBy, OffBy
<1>2. /\ Interval \in Nat /\ Confirming \in Nat /\ Retrying \in Nat
      /\ PoweroffTimeout \in Nat /\ Detection.totalBudget \in Nat
  BY Durations
<1>3. CASE f = 0
  <2>1. FirstBy(b, f) = b + Interval
    BY <1>1, <1>2, <1>3
  <2>2. Confirming + PoweroffTimeout <= Detection.totalBudget
    BY <1>2 DEF LeavesTime
  <2> QED BY <1>1, <1>2, <1>3, <2>1, <2>2
<1>4. CASE f # 0
  <2>1. FirstBy(b, f) = b + Interval + Retrying
    BY <1>1, <1>2, <1>4
  <2>2. Confirming + PoweroffTimeout + Retrying <= Detection.totalBudget
    BY <1>2, <1>4 DEF LeavesTime
  <2> QED BY <1>1, <1>2, <1>4, <2>1, <2>2
<1> QED BY <1>3, <1>4

(* Faults are counted, and there are none when none may happen.            *)
LEMMA FaultsOf ==
  ASSUME NEW k \in [Disturbance -> Nat], \A d \in Disturbance : k[d] <= Limits[d]
  PROVE  /\ k["crashes"] + k["failures"] \in Nat
         /\ k["crashes"] + k["failures"] # 0 => MayFail
<1>1. "crashes" \in Disturbance /\ "failures" \in Disturbance
  BY DEF Disturbance
<1>2. /\ k["crashes"] \in Nat /\ k["failures"] \in Nat
      /\ Limits["crashes"] \in Nat /\ Limits["failures"] \in Nat
      /\ k["crashes"] <= Limits["crashes"] /\ k["failures"] <= Limits["failures"]
  BY <1>1, BoundsAssumption
<1> QED BY <1>2 DEF MayFail

(* A crash or a failure is a fault, a change or a boot is none.            *)
LEMMA FaultHappens ==
  ASSUME IInv, NEW d \in Disturbance, Happens(d)
  PROVE  Faults' = IF d \in {"crashes", "failures"} THEN Faults + 1 ELSE Faults
<1>1. count \in [Disturbance -> Nat] /\ count' = [count EXCEPT ![d] = count[d] + 1]
  BY DEF IInv, Types, Clocks, Happens
<1>2. "crashes" \in Disturbance /\ "failures" \in Disturbance
  BY DEF Disturbance
<1>3. count["crashes"] \in Nat /\ count["failures"] \in Nat
  BY <1>1, <1>2
<1>4. /\ count'["crashes"] = IF d = "crashes" THEN count["crashes"] + 1 ELSE count["crashes"]
      /\ count'["failures"] = IF d = "failures" THEN count["failures"] + 1 ELSE count["failures"]
  BY <1>1, <1>2
<1>5. CASE d = "crashes"
  BY <1>3, <1>4, <1>5 DEF Faults
<1>6. CASE d = "failures"
  BY <1>3, <1>4, <1>6 DEF Faults
<1>7. CASE d \notin {"crashes", "failures"}
  BY <1>3, <1>4, <1>7 DEF Faults
<1> QED BY <1>5, <1>6, <1>7

(* The numbers of a state.                                                 *)
LEMMA Numbers ==
  ASSUME IInv, Ticking
  PROVE  /\ now \in Nat /\ origin \in Nat /\ lastAt \in Int /\ SampledAt \in Int
         /\ SampledAt = origin + lastAt
         /\ due \in Nat /\ tick \in Nat
         /\ badSince # NoTime => badSince \in Nat
         /\ Faults \in Nat /\ (Faults # 0 => MayFail)
         /\ status.outageStartedAt \in Int /\ status.nutStartedAt \in Int
         /\ status.networkStartedAt \in Int
<1>1. now \in 0..MaxTime /\ MaxTime \in Nat
  BY BoundsAssumption DEF IInv, Types, Clocks
<1>2. /\ now \in Nat /\ origin \in 0..now /\ lastAt \in PastTime(now) /\ badSince \in PastTime(now)
  BY <1>1 DEF IInv, Types, Clocks
<1>3. /\ origin \in Nat /\ lastAt \in Int /\ (badSince # NoTime => badSince \in Nat)
  BY <1>2 DEF PastTime, NoTime
<1>4. SampledAt \in Int /\ SampledAt = origin + lastAt
  BY <1>3 DEF SampledAt
<1>5. Faults \in Nat /\ (Faults # 0 => MayFail)
  BY FaultsOf DEF IInv, Types, Clocks, Faults
<1>6. status \in EngineStatus
  BY DEF IInv, Types, Clocks, Coherent
<1>7. \A s \in EngineStatus : /\ s.outageStartedAt \in Int /\ s.nutStartedAt \in Int
                              /\ s.networkStartedAt \in Int
  BY DEF EngineStatus, Instant, NoTime
<1> QED BY <1>2, <1>3, <1>4, <1>5, <1>6, <1>7 DEF Ticking

(* A step keeps a timer, stops it or starts it; the outage, once begun,    *)
(* goes on while there is evidence.                                        *)
LEMMA StepTimes ==
  ASSUME NEW c \in Config, Validate(c), NEW s, Coherent(s), NEW at \in Nat, NEW x \in Snapshot
  PROVE  LET n == Step(c, s, at, x).status
         IN  /\ n.outageStartedAt \in {NoTime, s.outageStartedAt, at}
             /\ n.nutStartedAt \in {NoTime, s.nutStartedAt, at}
             /\ n.networkStartedAt \in {NoTime, s.networkStartedAt, at}
             /\ s.state \in Watched /\ Evidence(x) => n.outageStartedAt = First(s.outageStartedAt, at)
             /\ s.state \notin Watched => n.outageStartedAt = s.outageStartedAt
<1> DEFINE n == Step(c, s, at, x).status
           o == Observe(s, at, x)
           b == BeginShutdown(o)
<1>1. s \in EngineStatus /\ s.state \in EngineState
  BY DEF Coherent, EngineStatus
<1>2. ASSUME NEW t \in EngineStatus,
             NEW u \in {t, BeginShutdown(t), RequestPoweroff(t),
                        [RequestPoweroff(t) EXCEPT !.emergencyIssued = TRUE]}
      PROVE  /\ u \in EngineStatus
             /\ u.outageStartedAt = t.outageStartedAt
             /\ u.nutStartedAt = t.nutStartedAt
             /\ u.networkStartedAt = t.networkStartedAt
  BY DEF BeginShutdown, RequestPoweroff, EngineStatus, EngineState
<1>3. CASE s.state \in Watched
  <2>1. /\ o \in EngineStatus
        /\ o.outageStartedAt = IF Evidence(x) THEN First(s.outageStartedAt, at) ELSE s.outageStartedAt
        /\ o.nutStartedAt = IF NUTEvidence(x) THEN First(s.nutStartedAt, at)
                            ELSE IF NetworkEvidence(x) THEN s.nutStartedAt ELSE NoTime
        /\ o.networkStartedAt = IF NetworkEvidence(x) THEN First(s.networkStartedAt, at) ELSE NoTime
    BY <1>1, Observed
  <2>2. \/ ~Evidence(x) /\ n = ResetCandidate(o)
        \/ n = o
        \/ n \in {b, RequestPoweroff(b), [RequestPoweroff(b) EXCEPT !.emergencyIssued = TRUE]}
    BY <1>3, WatchedStatuses
  <2>3. ResetCandidate(o).outageStartedAt = NoTime /\ ResetCandidate(o).nutStartedAt = NoTime
        /\ ResetCandidate(o).networkStartedAt = NoTime
    <3> HIDE DEF o, n
    <3> QED BY <2>1 DEF ResetCandidate, EngineStatus
  <2>4. /\ b \in EngineStatus
        /\ b.outageStartedAt = o.outageStartedAt
        /\ b.nutStartedAt = o.nutStartedAt
        /\ b.networkStartedAt = o.networkStartedAt
    <3> HIDE DEF o, n
    <3> QED BY <1>2, <2>1
  <2> HIDE DEF o, b, n
  <2>5. ASSUME n \in {b, RequestPoweroff(b), [RequestPoweroff(b) EXCEPT !.emergencyIssued = TRUE]}
        PROVE  /\ n.outageStartedAt = o.outageStartedAt
               /\ n.nutStartedAt = o.nutStartedAt
               /\ n.networkStartedAt = o.networkStartedAt
    <3>1. /\ n.outageStartedAt = b.outageStartedAt
          /\ n.nutStartedAt = b.nutStartedAt
          /\ n.networkStartedAt = b.networkStartedAt
      BY <1>2, <2>4, <2>5
    <3> QED BY <2>4, <3>1
  <2>6. \/ ~Evidence(x) /\ n = ResetCandidate(o)
        \/ /\ n.outageStartedAt = o.outageStartedAt
           /\ n.nutStartedAt = o.nutStartedAt
           /\ n.networkStartedAt = o.networkStartedAt
    BY <2>2, <2>5, Zenon
  <2>7. CASE ~Evidence(x) /\ n = ResetCandidate(o)
    BY <1>3, <2>3, <2>7 DEF n
  <2>8. CASE /\ n.outageStartedAt = o.outageStartedAt
             /\ n.nutStartedAt = o.nutStartedAt
             /\ n.networkStartedAt = o.networkStartedAt
    <3>1. /\ n.outageStartedAt \in {s.outageStartedAt, First(s.outageStartedAt, at)}
          /\ n.nutStartedAt \in {First(s.nutStartedAt, at), s.nutStartedAt, NoTime}
          /\ n.networkStartedAt \in {First(s.networkStartedAt, at), NoTime}
          /\ Evidence(x) => n.outageStartedAt = First(s.outageStartedAt, at)
      BY <2>1, <2>8
    <3>2. /\ n.outageStartedAt \in {NoTime, s.outageStartedAt, at}
          /\ n.nutStartedAt \in {NoTime, s.nutStartedAt, at}
          /\ n.networkStartedAt \in {NoTime, s.networkStartedAt, at}
      BY <3>1 DEF First
    <3> QED BY <1>3, <3>1, <3>2 DEF n
  <2> QED BY <2>6, <2>7, <2>8
<1>4. CASE s.state = "SHUTTING_DOWN"
  <2>1. \/ n = s
        \/ n = RequestPoweroff(s)
        \/ n = [RequestPoweroff(s) EXCEPT !.emergencyIssued = TRUE]
    BY <1>4, ShuttingDownOutcomes
  <2> HIDE DEF n
  <2>2. /\ n.outageStartedAt = s.outageStartedAt
        /\ n.nutStartedAt = s.nutStartedAt
        /\ n.networkStartedAt = s.networkStartedAt
    BY <1>1, <1>2, <2>1
  <2> QED BY <1>4, <2>2 DEF n, Watched
<1>5. CASE s.state = "POWERED_OFF"
  BY <1>5, PoweredOffOutcome DEF Watched
<1> QED BY <1>1, <1>3, <1>4, <1>5 DEF EngineState, Watched

(* After a step that is told of running guests, what goes on is pending.   *)
LEMMA StepPending ==
  ASSUME NEW s, Coherent(s), NEW at \in Nat, NEW x \in Snapshot, ~x.stopped
  PROVE  Pending(Step(Detection, s, at, x).status, at)
<1> DEFINE n == Step(Detection, s, at, x).status
           o == Observe(s, at, x)
           b == BeginShutdown(o)
<1>1. /\ Detection \in Config /\ Validate(Detection)
      /\ Detection.nutConfirm \in Int /\ Detection.networkConfirm = Detection.nutConfirm
  BY DetectionAssumption, Durations
<1>2. /\ Coherent(n) /\ n.nutStartedAt \in Int /\ n.networkStartedAt \in Int
  <2>1. Coherent(n)
    BY <1>1, StepKeeps
  <2> HIDE DEF n
  <2> QED BY <2>1 DEF Coherent, EngineStatus, Instant, NoTime
<1>3. s \in EngineStatus /\ s.state \in EngineState
  BY DEF Coherent, EngineStatus
<1>4. ASSUME n.state \in Watched
      PROVE  /\ n.nutStartedAt # NoTime => at < n.nutStartedAt + Detection.nutConfirm
             /\ n.nutStartedAt = NoTime /\ n.networkStartedAt # NoTime
                  => at < n.networkStartedAt + Detection.nutConfirm
  <2>1. s.state \in Watched
    <3>1. s.state = "SHUTTING_DOWN" => n.state \notin Watched
      <4> SUFFICES ASSUME s.state = "SHUTTING_DOWN" PROVE n.state \notin Watched
        OBVIOUS
      <4>1. \/ n = s
            \/ n = RequestPoweroff(s)
            \/ n = [RequestPoweroff(s) EXCEPT !.emergencyIssued = TRUE]
        BY <1>1, ShuttingDownOutcomes
      <4>2. /\ RequestPoweroff(s).state = "POWERED_OFF"
            /\ [RequestPoweroff(s) EXCEPT !.emergencyIssued = TRUE].state = "POWERED_OFF"
        BY <1>3 DEF RequestPoweroff, EngineStatus
      <4> HIDE DEF n
      <4> QED BY <4>1, <4>2 DEF Watched
    <3>2. s.state = "POWERED_OFF" => n.state \notin Watched
      BY PoweredOffOutcome DEF Watched
    <3> QED BY <1>3, <1>4, <3>1, <3>2 DEF EngineState, Watched
  <2>2. CASE Evidence(x)
    <3>1. /\ n.nutStartedAt # NoTime => at - n.nutStartedAt < Detection.nutConfirm
          /\ n.nutStartedAt = NoTime => at - n.networkStartedAt < Detection.nutConfirm
      BY <1>1, <1>4, <2>1, <2>2, StillWatching
    <3> HIDE DEF n
    <3> QED BY <1>1, <1>2, <3>1
  <2>3. CASE ~Evidence(x)
    <3>1. n.nutStartedAt = NoTime /\ n.networkStartedAt = NoTime
      BY <1>1, <1>4, <2>1, <2>3, TimersRun DEF Evidence
    <3> QED BY <3>1
  <2> QED BY <2>2, <2>3
<1>5. ASSUME n.state = "SHUTTING_DOWN" PROVE at < EmergencyAt(Detection, n)
  <2>1. CASE s.state \in Watched
    <3>1. \/ n = ResetCandidate(o) \/ n = o
          \/ n = b /\ at < EmergencyAt(Detection, b)
          \/ n = RequestPoweroff(b) \/ n = [RequestPoweroff(b) EXCEPT !.emergencyIssued = TRUE]
      <4> DEFINE out == Step(Detection, s, at, x)
      <4>1. \/ /\ ~Evidence(x)
               /\ o.outageStartedAt # NoTime
               /\ out.status = ResetCandidate(o)
               /\ out.actions = <<"outage_cancelled">>
            \/ /\ ~Confirmed(Detection, o, at, x)
               /\ out.status = o
               /\ out.actions \in {<<>>, <<"outage_candidate_started">>}
            \/ /\ Confirmed(Detection, o, at, x)
               /\ s.outageStartedAt # NoTime
               /\ \/ /\ out.status = b
                     /\ out.actions = <<"graceful_shutdown">>
                     /\ ~x.stopped
                     /\ at < EmergencyAt(Detection, b)
                  \/ /\ out.status = RequestPoweroff(b)
                     /\ out.actions = <<"graceful_shutdown", "host_poweroff_requested">>
                     /\ x.stopped
                  \/ /\ out.status = [RequestPoweroff(b) EXCEPT !.emergencyIssued = TRUE]
                     /\ out.actions = <<"graceful_shutdown", "emergency_stop_remaining",
                                        "host_poweroff_requested">>
                     /\ at >= EmergencyAt(Detection, b)
        BY <1>1, <2>1, WatchedOutcomes
      <4> HIDE DEF o, b, out
      <4>2. \/ out.status = ResetCandidate(o) \/ out.status = o
            \/ out.status = b /\ at < EmergencyAt(Detection, b)
            \/ out.status = RequestPoweroff(b)
            \/ out.status = [RequestPoweroff(b) EXCEPT !.emergencyIssued = TRUE]
        BY <4>1
      <4> QED BY <4>2 DEF out
    <3>2. /\ o \in EngineStatus /\ o.state \in Watched
      BY <1>3, <2>1, Observed, ObserveCoherent
    <3> HIDE DEF n, o
    <3>3. /\ ResetCandidate(o).state = "NORMAL"
          /\ RequestPoweroff(b).state = "POWERED_OFF"
          /\ [RequestPoweroff(b) EXCEPT !.emergencyIssued = TRUE].state = "POWERED_OFF"
      BY <3>2 DEF ResetCandidate, RequestPoweroff, BeginShutdown, EngineStatus
    <3> HIDE DEF b
    <3> QED BY <1>5, <3>1, <3>2, <3>3 DEF Watched
  <2>2. CASE s.state = "SHUTTING_DOWN"
    <3>1. \/ n = s /\ at < EmergencyAt(Detection, s)
          \/ n = RequestPoweroff(s) \/ n = [RequestPoweroff(s) EXCEPT !.emergencyIssued = TRUE]
      BY <1>1, <2>2, ShuttingDownOutcomes
    <3>2. /\ RequestPoweroff(s).state = "POWERED_OFF"
          /\ [RequestPoweroff(s) EXCEPT !.emergencyIssued = TRUE].state = "POWERED_OFF"
      BY <1>3 DEF RequestPoweroff, EngineStatus
    <3> HIDE DEF n
    <3> QED BY <1>5, <3>1, <3>2
  <2>3. CASE s.state = "POWERED_OFF"
    BY <1>5, <2>3, PoweredOffOutcome
  <2> QED BY <1>3, <2>1, <2>2, <2>3 DEF EngineState, Watched
<1> HIDE DEF n
<1> QED BY <1>4, <1>5 DEF Pending, n

(* A shutdown that goes on asks for nothing, and its beginning and its end *)
(* ask for the poweroff.                                                   *)
LEMMA StepRequests ==
  ASSUME NEW s, Coherent(s), s.state # "POWERED_OFF", NEW at \in Nat, NEW x \in Snapshot, ~x.stopped
  PROVE  LET out == Step(Detection, s, at, x)
         IN  RequestsPoweroff(out.actions) <=>
               ~(out.status.state \in Watched
                   \/ (s.state = "SHUTTING_DOWN" /\ out.status.state = "SHUTTING_DOWN"))
<1> DEFINE out == Step(Detection, s, at, x)
           o == Observe(s, at, x)
           b == BeginShutdown(o)
<1>1. Detection \in Config /\ Validate(Detection)
  BY DetectionAssumption
<1>2. s \in EngineStatus /\ s.state \in EngineState
  BY DEF Coherent, EngineStatus
<1>3. /\ ~RequestsPoweroff(<<>>)
      /\ ~RequestsPoweroff(<<"outage_cancelled">>) /\ ~RequestsPoweroff(<<"outage_candidate_started">>)
      /\ RequestsPoweroff(<<"graceful_shutdown">>)
      /\ RequestsPoweroff(<<"graceful_shutdown", "emergency_stop_remaining", "host_poweroff_requested">>)
      /\ RequestsPoweroff(<<"emergency_stop_remaining", "host_poweroff_requested">>)
  BY DEF RequestsPoweroff, Contains
<1>4. CASE s.state \in Watched
  <2>1. \/ out.status = ResetCandidate(o) /\ out.actions = <<"outage_cancelled">>
        \/ out.status = o /\ out.actions \in {<<>>, <<"outage_candidate_started">>}
        \/ out.status = b /\ out.actions = <<"graceful_shutdown">>
        \/ /\ out.status = [RequestPoweroff(b) EXCEPT !.emergencyIssued = TRUE]
           /\ out.actions = <<"graceful_shutdown", "emergency_stop_remaining",
                              "host_poweroff_requested">>
    <3>1. \/ /\ ~Evidence(x)
             /\ o.outageStartedAt # NoTime
             /\ out.status = ResetCandidate(o)
             /\ out.actions = <<"outage_cancelled">>
          \/ /\ ~Confirmed(Detection, o, at, x)
             /\ out.status = o
             /\ out.actions \in {<<>>, <<"outage_candidate_started">>}
          \/ /\ Confirmed(Detection, o, at, x)
             /\ s.outageStartedAt # NoTime
             /\ \/ /\ out.status = b
                 /\ out.actions = <<"graceful_shutdown">>
                 /\ ~x.stopped
                 /\ at < EmergencyAt(Detection, b)
              \/ /\ out.status = RequestPoweroff(b)
                 /\ out.actions = <<"graceful_shutdown", "host_poweroff_requested">>
                 /\ x.stopped
              \/ /\ out.status = [RequestPoweroff(b) EXCEPT !.emergencyIssued = TRUE]
                 /\ out.actions = <<"graceful_shutdown", "emergency_stop_remaining",
                                    "host_poweroff_requested">>
                 /\ at >= EmergencyAt(Detection, b)
      BY <1>1, <1>4, WatchedOutcomes
    <3> HIDE DEF o, b, out
    <3> QED BY <3>1
  <2>2. /\ o \in EngineStatus /\ o.state \in Watched
    BY <1>2, <1>4, Observed, ObserveCoherent
  <2> HIDE DEF out, o
  <2>3. /\ ResetCandidate(o).state \in Watched
        /\ b.state \notin Watched
        /\ [RequestPoweroff(b) EXCEPT !.emergencyIssued = TRUE].state \notin Watched
    BY <2>2 DEF ResetCandidate, RequestPoweroff, BeginShutdown, EngineStatus, Watched
  <2> HIDE DEF b
  <2>4. s.state # "SHUTTING_DOWN"
    BY <1>4 DEF Watched
  <2>5. RequestsPoweroff(out.actions) <=> out.status.state \notin Watched
    BY <1>3, <2>1, <2>2, <2>3
  <2> QED BY <2>4, <2>5 DEF out
<1>5. CASE s.state = "SHUTTING_DOWN"
  <2>1. \/ out.status = s /\ out.actions = <<>>
        \/ /\ out.status = [RequestPoweroff(s) EXCEPT !.emergencyIssued = TRUE]
           /\ out.actions = <<"emergency_stop_remaining", "host_poweroff_requested">>
    BY <1>1, <1>5, ShuttingDownOutcomes
  <2>2. [RequestPoweroff(s) EXCEPT !.emergencyIssued = TRUE].state = "POWERED_OFF"
    BY <1>2 DEF RequestPoweroff, EngineStatus
  <2> HIDE DEF out
  <2>3. RequestsPoweroff(out.actions) <=> out.status.state # "SHUTTING_DOWN"
    BY <1>3, <1>5, <2>1, <2>2
  <2>4. out.status.state \notin Watched
    BY <1>5, <2>1, <2>2 DEF Watched
  <2> QED BY <1>5, <2>3, <2>4 DEF out
<1> QED BY <1>2, <1>4, <1>5 DEF EngineState, Watched

(* At the beginning nothing is due and there is no outage.                 *)
LEMMA InitOnTime == Init => TimeInv
<1> SUFFICES ASSUME Init PROVE TimeInv
  OBVIOUS
<1>1. Faults = 0
  BY DEF Init, Faults, Disturbance
<1>2. Ticking
  BY <1>1 DEF Init, Ticking
<1>3. Watching
  BY DEF Init, Watching, Past, NewStatus, NoFile, Sampling
<1>4. Punctual
  BY DEF Init, Punctual
<1> QED BY <1>2, <1>3, <1>4 DEF TimeInv

(* A guard that goes on after a sample of an outage decides in time, and a *)
(* shutdown that it resumed comes to its reserve in time.                  *)
LEMMA SamplingBy ==
  ASSUME IInv, LeavesTime, Ticking, Watching, OnTime, badSince # NoTime, Faults <= 1,
         pc \in Sampling, ~requested
  PROVE  /\ now + PoweroffTimeout <= OffBy(badSince)
         /\ status.state \in Watched => now <= DecideBy(badSince, Faults)
<1> DEFINE F == FirstBy(badSince, Faults)
           D == DecideBy(badSince, Faults)
           O == OffBy(badSince)
<1>1. /\ now \in Nat /\ origin \in Nat /\ lastAt \in Int /\ SampledAt \in Int
      /\ SampledAt = origin + lastAt
      /\ badSince \in Nat /\ Faults \in Nat /\ (Faults # 0 => MayFail)
      /\ status.outageStartedAt \in Int /\ status.nutStartedAt \in Int
      /\ status.networkStartedAt \in Int
  BY Numbers
<1>2. /\ F \in Nat /\ D \in Nat /\ O \in Nat
      /\ D = F + Confirming
      /\ D + PoweroffTimeout <= O
      /\ O = badSince + Interval + Detection.totalBudget
  BY <1>1, Bounds
<1>3. /\ Interval \in Nat /\ PoweroffTimeout \in Nat /\ Confirming \in Nat
      /\ Detection.nutConfirm \in Nat /\ Detection.nutConfirm >= 1
      /\ Confirming = (Detection.nutConfirm + Interval - 1) + (Detection.nutConfirm + Interval - 1)
      /\ Detection.totalBudget \in Nat /\ Detection.emergencyReserve \in Nat
  BY Durations
<1> HIDE DEF F, D, O
<1>4. now <= F \/ (Going /\ now <= SampledAt + Interval)
  <2>1. CASE pc = "loop"
    BY <2>1 DEF OnTime, F
  <2>2. CASE pc \in {"save", "wait"}
    <3>1. tick = SampledAt + Interval /\ now <= tick
      BY <1>1, <1>3, <2>2 DEF Ticking
    <3>2. tick <= F \/ Going
      BY <2>2 DEF OnTime, F
    <3>3. CASE tick <= F
      BY <1>1, <1>2, <1>3, <3>1, <3>3
    <3> QED BY <3>1, <3>2, <3>3
  <2> QED BY <2>1, <2>2 DEF Sampling
<1>5. CASE now <= F
  <2>1. now <= D /\ now + PoweroffTimeout <= O
    BY <1>1, <1>2, <1>3, <1>5
  <2> QED BY <2>1 DEF D, O
<1>6. CASE Going /\ now <= SampledAt + Interval /\ status.state \in Watched
  <2>1. /\ status.nutStartedAt # NoTime =>
             /\ lastAt < status.nutStartedAt + Detection.nutConfirm
             /\ origin + status.nutStartedAt + Detection.nutConfirm + Interval - 1 <= D
        /\ status.nutStartedAt = NoTime /\ status.networkStartedAt # NoTime =>
             /\ lastAt < status.networkStartedAt + Detection.nutConfirm
             /\ origin + status.networkStartedAt <= F
    BY <1>6 DEF OnTime, TimersBy, Watching, Pending, D, F
  <2>2. status.nutStartedAt # NoTime \/ status.networkStartedAt # NoTime
    BY <1>6 DEF Going, Watched
  <2>3. now <= origin + lastAt + Interval
    BY <1>1, <1>6
  <2>4. now <= D
    <3>1. CASE status.nutStartedAt # NoTime
      BY <1>1, <1>2, <1>3, <2>1, <2>3, <3>1
    <3>2. CASE status.nutStartedAt = NoTime
      BY <1>1, <1>2, <1>3, <2>1, <2>2, <2>3, <3>2
    <3> QED BY <3>1, <3>2
  <2>5. now + PoweroffTimeout <= O
    BY <1>1, <1>2, <1>3, <2>4
  <2> QED BY <2>4, <2>5 DEF D, O
<1>7. CASE Going /\ now <= SampledAt + Interval /\ status.state = "SHUTTING_DOWN"
  <2>1. status.outageStartedAt # NoTime
    BY <1>7 DEF IInv, Types, Clocks, Coherent
  <2>2. origin + status.outageStartedAt <= badSince + Interval
    BY <1>7, <2>1 DEF OnTime, OutageBy
  <2>3. lastAt < status.outageStartedAt + Detection.totalBudget - Detection.emergencyReserve
    BY <1>7 DEF Watching, Pending, EmergencyAt
  <2>4. Interval - 1 + PoweroffTimeout <= Detection.emergencyReserve
    BY DEF LeavesTime
  <2>5. now <= origin + lastAt + Interval
    BY <1>1, <1>7
  <2>6. now + PoweroffTimeout <= O
    BY <1>1, <1>2, <1>3, <2>2, <2>3, <2>4, <2>5
  <2> QED BY <1>7, <2>6 DEF O, Watched
<1>8. status.state \in Watched \/ status.state = "SHUTTING_DOWN"
  BY DEF Watching
<1> QED BY <1>4, <1>5, <1>6, <1>7, <1>8

(* A guard that runs without a fault so far has decided, or will in time.  *)
LEMMA NowBy ==
  ASSUME IInv, LeavesTime, Ticking, Watching, OnTime, badSince # NoTime, Faults = 0,
         pc \in {"loop", "save", "wait", "poweroff"}
  PROVE  now <= DecideBy(badSince, 0) + PoweroffTimeout
<1>1. now \in Nat /\ badSince \in Nat /\ due \in Nat
  BY Numbers
<1>2. DecideBy(badSince, 0) \in Nat /\ PoweroffTimeout \in Nat
  BY <1>1, Bounds, Durations
<1>3. CASE pc \in Sampling /\ ~requested
  <2>1. status.state \in Watched
    BY <1>3 DEF Watching
  <2>2. now <= DecideBy(badSince, 0)
    BY <1>3, <2>1, SamplingBy
  <2> QED BY <1>1, <1>2, <2>2
<1>4. CASE pc = "save" /\ requested
  <2>1. now <= DecideBy(badSince, 0)
    BY <1>4 DEF OnTime
  <2> QED BY <1>1, <1>2, <2>1
<1>5. CASE pc = "poweroff"
  <2>1. now <= due /\ due <= DecideBy(badSince, 0) + PoweroffTimeout
    BY <1>5 DEF OnTime, Ticking
  <2> QED BY <1>1, <1>2, <2>1
<1>6. pc \in {"loop", "wait"} => ~requested
  BY DEF Watching
<1> QED BY <1>3, <1>4, <1>5, <1>6 DEF Sampling

-----------------------------------------------------------------------------
(* The steps.  The end of the process: it is back in time for the outage.  *)
LEMMA DieOnTime ==
  ASSUME IInv, TimeInv, LeavesTime, Die, host = "up",
         pc \in {"loop", "save", "wait", "poweroff"},
         NEW d \in {"crashes", "failures"}, Happens(d)
  PROVE  TimeInv'
<1>1. /\ now' = now /\ world' = world /\ badSince' = badSince /\ host' = host /\ boot' = boot
      /\ file' = file
      /\ pc' = "down" /\ origin' = 0 /\ status' = NewStatus /\ lastAt' = NoTime
      /\ requested' = FALSE /\ tick' = 0
      /\ due' = now + RestartDelay
  BY DEF Die, Forget, outside
<1>2. Faults' = Faults + 1
  BY FaultHappens DEF Disturbance
<1>3. /\ now \in Nat /\ Faults \in Nat /\ Faults' # 0
  BY <1>2, Numbers DEF TimeInv
<1>4. Ticking'
  BY <1>1, <1>3, Durations DEF Ticking, TimeInv
<1>5. Watching'
  <2>1. Past(origin, status)'
    BY <1>1 DEF Past, NewStatus
  <2>2. \A s \in file' : Past(s.origin, s.status)' /\ Pending(s.status, s.lastAt)
    BY <1>1 DEF Watching, Past, TimeInv
  <2> QED BY <1>1, <1>3, <2>1, <2>2 DEF Watching, Sampling
<1>6. ASSUME badSince # NoTime, Faults' <= 1
      PROVE  OnTime'
  <2>1. Faults = 0 /\ Faults' = 1
    BY <1>2, <1>3, <1>6
  <2>2. OnTime
    BY <1>6, <2>1 DEF TimeInv, Punctual
  <2>3. due' <= FirstBy(badSince', Faults')
    <3>1. now <= DecideBy(badSince, 0) + PoweroffTimeout
      BY <1>6, <2>1, <2>2, NowBy DEF TimeInv
    <3>2. badSince \in Nat
      BY <1>6, Numbers DEF TimeInv
    <3>3. "crashes" \in Disturbance /\ "failures" \in Disturbance /\ d \in Disturbance
      BY DEF Disturbance
    <3>4. MayFail
      <4>1. Faults' = count'["crashes"] + count'["failures"]
        BY DEF Faults
      <4>2. /\ count' \in [Disturbance -> Nat]
            /\ \A e \in Disturbance : count'[e] <= Limits[e]
        BY <3>3, HappensCounts
      <4>3. count'["crashes"] + count'["failures"] # 0
        BY <2>1, <4>1
      <4> QED BY <4>2, <4>3, FaultsOf
    <3>5. /\ FirstBy(badSince, 0) \in Nat /\ FirstBy(badSince, 0) = badSince + Interval
          /\ DecideBy(badSince, 0) = FirstBy(badSince, 0) + Confirming
      BY <3>2, Bounds
    <3>6. FirstBy(badSince, 1) = badSince + Interval + Retrying
      BY <3>2, <3>4, Bounds
    <3>7. /\ Retrying = Confirming + PoweroffTimeout + RestartDelay
          /\ Confirming \in Nat /\ PoweroffTimeout \in Nat /\ RestartDelay \in Nat /\ Interval \in Nat
      BY Durations
    <3>8. now + RestartDelay <= FirstBy(badSince, 1)
      BY <1>3, <3>1, <3>2, <3>5, <3>6, <3>7
    <3> QED BY <1>1, <2>1, <3>8
  <2>4. \A s \in file : s.boot = boot /\ s.status.state = "SHUTTING_DOWN" => OutageBy(s.origin, s.status)
    BY <2>1, <2>2 DEF OnTime
  <2> QED BY <1>1, <2>3, <2>4 DEF OnTime, OutageBy, Sampling
<1>7. Punctual'
  BY <1>1, <1>6 DEF Punctual
<1> QED BY <1>4, <1>5, <1>7 DEF TimeInv

(* A start: what it resumes is of this boot and from before, and it comes  *)
(* in time for the outage.                                                 *)
LEMMA StartOnTime ==
  ASSUME IInv, TimeInv, LeavesTime, Start
  PROVE  TimeInv'
<1>1. /\ pc = "down" /\ host = "up" /\ pc' = "loop" /\ now >= due
      /\ file' = Restorable(file, boot)
      /\ now' = now /\ world' = world /\ badSince' = badSince /\ host' = host /\ boot' = boot
      /\ requested' = requested /\ count' = count /\ due' = due
      /\ tick' = now + Interval
      /\ \/ \E s \in file' : origin' = s.origin /\ status' = s.status /\ lastAt' = s.lastAt
         \/ /\ file' = NoFile
            /\ origin' = now /\ status' = NewStatus /\ lastAt' = NoTime
  BY DEF Start, outside
<1>2. \A s \in file' : s \in file /\ s.boot = boot /\ s.status.state \in {"CONFIRMING_OUTAGE", "SHUTTING_DOWN"}
  BY <1>1 DEF Restorable
<1>3. ~requested
  BY <1>1 DEF IInv, Places
<1>4. /\ now \in Nat /\ due \in Nat /\ Faults \in Nat
      /\ badSince # NoTime => badSince \in Nat
      /\ Faults # 0 => MayFail
  BY Numbers DEF TimeInv
<1>5. Interval \in Nat /\ Confirming \in Nat /\ Detection.nutConfirm \in Nat
      /\ Confirming = (Detection.nutConfirm + Interval - 1) + (Detection.nutConfirm + Interval - 1)
      /\ Interval >= 1 /\ Detection.nutConfirm >= 1
  BY Durations
<1>6. Faults' = Faults
  BY <1>1 DEF Faults
<1>7. \A s \in file : Past(s.origin, s.status) /\ Pending(s.status, s.lastAt)
  BY DEF TimeInv, Watching
<1>8. Faults = 0 => \A s \in file : s.boot # boot
  BY <1>1 DEF TimeInv, Watching
<1>9. \/ \E s \in file' : origin' = s.origin /\ status' = s.status /\ lastAt' = s.lastAt
      \/ origin' = now /\ status' = NewStatus /\ lastAt' = NoTime
  BY <1>1
<1>10. /\ Past(origin', status') /\ Pending(status', lastAt')
       /\ status'.state \in Watched \/ (status'.state = "SHUTTING_DOWN" /\ Faults # 0)
       /\ Faults = 0 => status' = NewStatus
  <2>1. CASE origin' = now /\ status' = NewStatus /\ lastAt' = NoTime
    BY <2>1 DEF Past, Pending, NewStatus, Watched
  <2>2. CASE \E s \in file' : origin' = s.origin /\ status' = s.status /\ lastAt' = s.lastAt
    BY <1>2, <1>7, <1>8, <2>2 DEF Watched
  <2> QED BY <1>9, <2>1, <2>2
<1>11. IInv'
  BY StartInv
<1>12. Coherent(status') /\ origin' \in Nat
  BY <1>1, <1>4, <1>11 DEF IInv, Types, Clocks
<1>13. /\ status'.outageStartedAt \in Int /\ status'.nutStartedAt \in Int
       /\ status'.networkStartedAt \in Int
  BY <1>12 DEF Coherent, EngineStatus, Instant, NoTime
<1>14. Ticking'
  BY <1>1, <1>4, <1>5 DEF TimeInv, Ticking
<1>15. Watching'
  <2>1. Past(origin, status)'
    BY <1>1, <1>10 DEF Past
  <2>2. \A s \in file' : Past(s.origin, s.status)'
    BY <1>1, <1>2, <1>7 DEF Past
  <2> QED BY <1>1, <1>2, <1>3, <1>6, <1>7, <1>10, <2>1, <2>2 DEF Watching, Sampling
<1>16. ASSUME badSince # NoTime, Faults <= 1
       PROVE  OnTime'
  <2> DEFINE F == FirstBy(badSince, Faults)
             D == DecideBy(badSince, Faults)
  <2>1. OnTime
    BY <1>1, <1>16 DEF TimeInv, Punctual
  <2>2. F \in Nat /\ D \in Nat /\ D = F + Confirming
    BY <1>4, <1>16, Bounds
  <2>3. due <= F
    BY <1>1, <2>1 DEF OnTime
  <2>4. FirstBy(badSince, Faults)' = F /\ DecideBy(badSince, Faults)' = D
    BY <1>1, <1>6
  <2> HIDE DEF F, D
  <2>5. now <= F
    BY <1>1, <1>4, <2>2, <2>3 DEF TimeInv, Ticking
  <2>6. TimersBy'
    <3>1. /\ status'.nutStartedAt # NoTime => origin' + status'.nutStartedAt <= now
          /\ status'.networkStartedAt # NoTime => origin' + status'.networkStartedAt <= now
      BY <1>10 DEF Past
    <3>2. status'.nutStartedAt # NoTime =>
            origin' + status'.nutStartedAt + Detection.nutConfirm + Interval - 1 <= D
      BY <1>4, <1>5, <1>12, <1>13, <2>2, <2>5, <3>1
    <3>3. status'.networkStartedAt # NoTime => origin' + status'.networkStartedAt <= F
      BY <1>4, <1>12, <1>13, <2>2, <2>5, <3>1
    <3> QED BY <2>4, <3>2, <3>3 DEF TimersBy
  <2>7. \A s \in file : s.boot = boot /\ s.status.state = "SHUTTING_DOWN" => OutageBy(s.origin, s.status)
    BY <1>1, <2>1 DEF OnTime
  <2>8. Faults = 0 \/ status'.state = "SHUTTING_DOWN" => OutageBy(origin', status')
    <3>1. CASE Faults = 0
      BY <1>10, <3>1 DEF OutageBy, NewStatus
    <3>2. CASE status'.state = "SHUTTING_DOWN"
      <4>1. status' # NewStatus
        BY <3>2 DEF NewStatus
      <4>2. PICK s \in file' : origin' = s.origin /\ status' = s.status
        BY <1>9, <4>1
      <4> QED BY <1>2, <2>7, <3>2, <4>2
    <3> QED BY <3>1, <3>2
  <2>9. OutageBy(origin, status)' <=> OutageBy(origin', status')
    BY <1>1 DEF OutageBy
  <2>10. \A s \in file' : OutageBy(s.origin, s.status)' <=> OutageBy(s.origin, s.status)
    BY <1>1 DEF OutageBy
  <2> QED BY <1>1, <1>2, <1>6, <2>4, <2>5, <2>6, <2>7, <2>8, <2>9, <2>10 DEF OnTime, Sampling
<1>17. Punctual'
  BY <1>1, <1>6, <1>16 DEF Punctual
<1> QED BY <1>14, <1>15, <1>17 DEF TimeInv

(* The save: what the file is given is what the engine has.                *)
LEMMA PersistOnTime ==
  ASSUME IInv, TimeInv, LeavesTime, Persist
  PROVE  TimeInv'
<1>1. /\ pc = "save" /\ pc' = IF requested THEN "poweroff" ELSE "wait"
      /\ file' = Save(boot, origin, 0, status, lastAt)
      /\ due' = IF requested THEN now + PoweroffTimeout ELSE due
      /\ now' = now /\ world' = world /\ badSince' = badSince /\ host' = host /\ boot' = boot
      /\ origin' = origin /\ status' = status /\ lastAt' = lastAt
      /\ requested' = requested /\ tick' = tick /\ count' = count
  BY DEF Persist, outside, engine
<1>2. \A s \in file' : s.origin = origin /\ s.status = status /\ s.lastAt = lastAt
  BY <1>1 DEF Save, NoFile
<1>3. /\ now \in Nat /\ due \in Nat /\ Faults \in Nat
      /\ Interval \in Nat /\ PoweroffTimeout \in Nat
  BY Numbers, Durations DEF TimeInv
<1>4. Faults' = Faults
  BY <1>1 DEF Faults
<1>5. /\ SampledAt' = SampledAt
      /\ Past(origin, status)' <=> Past(origin, status)
  BY <1>1 DEF SampledAt, Past
<1>6. Past(origin, status) /\ Pending(status, lastAt)
  BY <1>1 DEF TimeInv, Watching, Sampling
<1>7. Ticking'
  <2>1. now = SampledAt /\ tick = now + Interval
    BY <1>1 DEF TimeInv, Ticking
  <2>2. CASE requested
    BY <1>1, <1>3, <1>5, <2>1, <2>2 DEF TimeInv, Ticking
  <2>3. CASE ~requested
    BY <1>1, <1>3, <1>5, <2>1, <2>3 DEF TimeInv, Ticking
  <2> QED BY <2>2, <2>3
<1>8. Watching'
  <2>1. \A s \in file' : Past(s.origin, s.status)' /\ Pending(s.status, s.lastAt)
    BY <1>2, <1>5, <1>6, <1>1 DEF Past
  <2>2. Pending(status', lastAt')
    BY <1>1, <1>6
  <2>3. pc' \in Sampling => ~requested'
    BY <1>1 DEF Sampling
  <2>4. ~requested => status.state \in Watched \/ (status.state = "SHUTTING_DOWN" /\ Faults # 0)
    BY <1>1 DEF TimeInv, Watching, Sampling
  <2> QED BY <1>1, <1>4, <1>5, <1>6, <2>1, <2>2, <2>3, <2>4 DEF Watching
<1>9. ASSUME host = "up", badSince # NoTime, Faults <= 1
      PROVE  OnTime'
  <2>1. OnTime
    BY <1>9 DEF TimeInv, Punctual
  <2>2. /\ FirstBy(badSince, Faults)' = FirstBy(badSince, Faults)
        /\ DecideBy(badSince, Faults)' = DecideBy(badSince, Faults)
        /\ OffBy(badSince)' = OffBy(badSince)
    BY <1>1, <1>4
  <2>3. /\ Going' <=> Going
        /\ TimersBy' <=> TimersBy
        /\ OutageBy(origin, status)' <=> OutageBy(origin, status)
    BY <1>1, <2>2 DEF Going, TimersBy, OutageBy
  <2>4. \A s \in file' : OutageBy(s.origin, s.status)' <=> OutageBy(origin, status)
    BY <1>1, <1>2 DEF OutageBy
  <2>5. CASE requested
    <3>1. /\ due' <= OffBy(badSince)
          /\ Faults = 0 => due' <= DecideBy(badSince, Faults) + PoweroffTimeout
      <4>1. /\ now + PoweroffTimeout <= OffBy(badSince)
            /\ Faults = 0 => now <= DecideBy(badSince, Faults)
        BY <1>1, <2>1, <2>5 DEF OnTime
      <4>2. DecideBy(badSince, Faults) \in Nat
        BY <1>9, Bounds, Numbers DEF TimeInv
      <4> QED BY <1>1, <1>3, <2>5, <4>1, <4>2
    <3>2. Faults = 0 => OutageBy(origin, status)
      BY <1>1, <2>1 DEF OnTime, Sampling
    <3>3. Faults = 0 \/ Faults = 1
      BY <1>3, <1>9
    <3> QED BY <1>1, <1>4, <2>2, <2>4, <2>5, <3>1, <3>2, <3>3 DEF OnTime, Sampling
  <2>6. CASE ~requested
    <3>1. /\ tick <= FirstBy(badSince, Faults) \/ Going
          /\ status.state \in Watched => TimersBy
          /\ Faults = 0 \/ status.state = "SHUTTING_DOWN" => OutageBy(origin, status)
      BY <1>1, <2>1, <2>6 DEF OnTime, Sampling
    <3> QED BY <1>1, <1>2, <1>4, <2>2, <2>3, <2>4, <2>6, <3>1 DEF OnTime, Sampling
  <2> QED BY <2>5, <2>6
<1>10. Punctual'
  BY <1>1, <1>4, <1>9 DEF Punctual
<1> QED BY <1>7, <1>8, <1>10 DEF TimeInv

(* The next round is on time: the clock does not pass a tick.              *)
LEMMA WakeOnTime ==
  ASSUME IInv, TimeInv, LeavesTime, Wake
  PROVE  TimeInv'
<1>1. /\ pc = "wait" /\ now >= tick /\ pc' = "loop"
      /\ tick' = tick + ((now - tick) \div Interval + 1) * Interval
      /\ now' = now /\ world' = world /\ badSince' = badSince /\ host' = host /\ boot' = boot
      /\ origin' = origin /\ status' = status /\ lastAt' = lastAt
      /\ requested' = requested /\ due' = due /\ file' = file /\ count' = count
  BY DEF Wake, outside, engine
<1>2. now \in Nat /\ tick \in Nat /\ due \in Nat /\ Interval \in Nat /\ Interval >= 1 /\ SampledAt \in Int
  BY Numbers, Durations DEF TimeInv
<1>3. now <= tick /\ tick = SampledAt + Interval
  BY <1>1 DEF TimeInv, Ticking
<1>4. now = tick /\ tick' = now + Interval
  <2>1. now = tick
    BY <1>1, <1>2, <1>3
  <2>2. \A i \in Nat : i >= 1 => 0 \div i = 0
    OBVIOUS
  <2>3. 0 \div Interval = 0
    BY <1>2, <2>2
  <2>4. now - tick = 0
    BY <1>2, <2>1
  <2>5. tick' = tick + (0 + 1) * Interval
    BY <1>1, <2>3, <2>4
  <2> QED BY <1>2, <2>1, <2>5
<1>5. Faults' = Faults /\ SampledAt' = SampledAt
  BY <1>1 DEF Faults, SampledAt
<1>6. Ticking'
  BY <1>1, <1>2, <1>4 DEF TimeInv, Ticking
<1>7. Watching'
  <2>1. ~requested /\ Past(origin, status) /\ Pending(status, lastAt)
    BY <1>1 DEF TimeInv, Watching, Sampling
  <2>2. status.state \in Watched \/ (status.state = "SHUTTING_DOWN" /\ Faults # 0)
    BY <1>1, <2>1 DEF TimeInv, Watching, Sampling
  <2>3. Past(origin, status)' /\ Pending(status', lastAt')
    BY <1>1, <2>1 DEF Past
  <2>4. \A s \in file' : Past(s.origin, s.status)' /\ Pending(s.status, s.lastAt)
    BY <1>1 DEF TimeInv, Watching, Past
  <2> QED BY <1>1, <1>5, <2>1, <2>2, <2>3, <2>4 DEF Watching, Sampling
<1>8. ASSUME host = "up", badSince # NoTime, Faults <= 1
      PROVE  OnTime'
  <2>1. OnTime
    BY <1>8 DEF TimeInv, Punctual
  <2>2. ~requested
    BY <1>1 DEF TimeInv, Watching
  <2>3. /\ tick <= FirstBy(badSince, Faults) \/ Going
        /\ status.state \in Watched => TimersBy
        /\ Faults = 0 \/ status.state = "SHUTTING_DOWN" => OutageBy(origin, status)
        /\ \A s \in file : s.boot = boot /\ s.status.state = "SHUTTING_DOWN" => OutageBy(s.origin, s.status)
    BY <1>1, <2>1, <2>2 DEF OnTime, Sampling
  <2>4. /\ FirstBy(badSince, Faults)' = FirstBy(badSince, Faults)
        /\ DecideBy(badSince, Faults)' = DecideBy(badSince, Faults)
    BY <1>1, <1>5
  <2>5. /\ Going' <=> Going
        /\ TimersBy' <=> TimersBy
        /\ OutageBy(origin, status)' <=> OutageBy(origin, status)
    BY <1>1, <2>4 DEF Going, TimersBy, OutageBy
  <2>6. \A s \in file' : OutageBy(s.origin, s.status)' <=> OutageBy(s.origin, s.status)
    BY <1>1 DEF OutageBy
  <2>7. now' <= FirstBy(badSince, Faults)' \/ (Going' /\ now' <= SampledAt' + Interval)
    BY <1>1, <1>2, <1>3, <1>4, <1>5, <2>3, <2>4, <2>5
  <2> QED BY <1>1, <1>5, <2>2, <2>3, <2>5, <2>6, <2>7 DEF OnTime, Sampling
<1>9. Punctual'
  BY <1>1, <1>5, <1>8 DEF Punctual
<1> QED BY <1>6, <1>7, <1>9 DEF TimeInv

(* Where the host is not up, only the types and the file are left.         *)
LEMMA GoneOnTime ==
  ASSUME TimeInv, host' # "up", pc' \in {"down", "done"}, badSince' = badSince, world' = world,
         status' = NewStatus, now' = now, file' = file, due' = due, tick' \in Nat
  PROVE  TimeInv'
<1>1. Ticking'
  BY DEF TimeInv, Ticking
<1>2. Watching'
  <2>1. Past(origin, status)'
    BY DEF Past, NewStatus
  <2>2. \A s \in file' : Past(s.origin, s.status)' /\ Pending(s.status, s.lastAt)
    BY DEF TimeInv, Watching, Past
  <2> QED BY <2>1, <2>2 DEF Watching, Sampling
<1>3. Punctual'
  BY DEF Punctual
<1> QED BY <1>1, <1>2, <1>3 DEF TimeInv

(* The host goes down as asked ...                                         *)
LEMMA AcceptedOnTime == ASSUME IInv, TimeInv, PoweroffAccepted PROVE TimeInv'
<1>1. /\ host' = "stopping" /\ pc' = "done" /\ badSince' = badSince /\ world' = world
      /\ status' = NewStatus /\ now' = now /\ file' = file /\ due' = due /\ tick' = 0
  BY DEF PoweroffAccepted, Forget
<1> QED BY <1>1, GoneOnTime

(* ... is down ...                                                         *)
LEMMA HostHaltsOnTime == ASSUME IInv, TimeInv, HostHalts PROVE TimeInv'
<1>1. /\ host = "stopping" /\ host' = "off" /\ pc' = "down" /\ badSince' = badSince /\ world' = world
      /\ status' = status /\ now' = now /\ file' = file /\ due' = due /\ tick' = tick
  BY DEF HostHalts, engine
<1>2. status = NewStatus /\ tick \in Nat
  BY <1>1 DEF IInv, Places, TimeInv, Ticking
<1> QED BY <1>1, <1>2, GoneOnTime

(* ... or loses its power.                                                 *)
LEMMA UPSEmptyOnTime == ASSUME IInv, TimeInv, UPSEmpty PROVE TimeInv'
<1>1. /\ host' = "off" /\ pc' = "down" /\ badSince' = badSince /\ world' = world
      /\ status' = NewStatus /\ now' = now /\ file' = file /\ due' = due /\ tick' = 0
  BY DEF UPSEmpty, Forget
<1> QED BY <1>1, GoneOnTime

(* A boot finds nothing of its own in the file and has just begun to see   *)
(* the outage.                                                             *)
LEMMA HostBootsOnTime ==
  ASSUME IInv, TimeInv, LeavesTime, HostBoots
  PROVE  TimeInv'
<1>1. /\ host = "off" /\ host' = "up" /\ boot' = boot + 1 /\ due' = now
      /\ badSince' = IF badSince = NoTime THEN NoTime ELSE now
      /\ now' = now /\ world' = world
      /\ pc' = pc /\ origin' = origin /\ status' = status /\ lastAt' = lastAt
      /\ requested' = requested /\ file' = file /\ tick' = tick
  BY DEF HostBoots, engine
<1>2. Faults' = Faults
  BY FaultHappens DEF HostBoots, Disturbance
<1>3. /\ now \in Nat /\ tick \in Nat /\ Faults \in Nat /\ (Faults # 0 => MayFail)
      /\ RestartDelay \in Nat /\ Interval \in Nat
  BY Numbers, Durations DEF TimeInv
<1>4. pc = "down" /\ status = NewStatus
  BY <1>1 DEF IInv, Types, Clocks, Places
<1>5. \A s \in file : s.boot # boot + 1
  BY DEF IInv, Types, Clocks, Files, Saved, NoFile
<1>6. Ticking'
  <2>1. badSince' = NoTime <=> badSince = NoTime
    BY <1>1, <1>3 DEF NoTime
  <2> QED BY <1>1, <1>2, <1>3, <1>4, <2>1 DEF TimeInv, Ticking
<1>7. Watching'
  <2>1. Past(origin, status)'
    BY <1>1, <1>4 DEF Past, NewStatus
  <2>2. \A s \in file' : Past(s.origin, s.status)' /\ Pending(s.status, s.lastAt)
    BY <1>1 DEF TimeInv, Watching, Past
  <2> QED BY <1>1, <1>4, <1>5, <2>1, <2>2 DEF Watching, Sampling
<1>8. ASSUME badSince' # NoTime, Faults <= 1
      PROVE  OnTime'
  <2>1. badSince' = now
    BY <1>1, <1>8
  <2>2. now + Interval <= FirstBy(now, Faults) /\ FirstBy(now, Faults) \in Nat
    BY <1>3, <1>8, Bounds
  <2>3. due' <= FirstBy(badSince, Faults)'
    BY <1>1, <1>2, <1>3, <2>1, <2>2
  <2> QED BY <1>1, <1>4, <1>5, <2>3 DEF OnTime, Sampling
<1>9. Punctual'
  BY <1>2, <1>8 DEF Punctual
<1> QED BY <1>6, <1>7, <1>9 DEF TimeInv

(* The clock moves only where there is nothing to do yet.                  *)
LEMMA TickOnTime ==
  ASSUME IInv, TimeInv, LeavesTime, Tick
  PROVE  TimeInv'
<1>1. /\ now' = now + 1 /\ Idle
      /\ world' = world /\ badSince' = badSince /\ host' = host /\ boot' = boot
      /\ pc' = pc /\ origin' = origin /\ status' = status /\ lastAt' = lastAt
      /\ requested' = requested /\ file' = file /\ due' = due /\ tick' = tick /\ count' = count
  BY DEF Tick, outside, engine
<1>2. /\ now \in Nat /\ tick \in Nat /\ due \in Nat /\ SampledAt \in Int /\ origin \in Nat
      /\ RestartDelay \in Nat
  BY Numbers, Durations DEF TimeInv
<1>3. Faults' = Faults /\ SampledAt' = SampledAt
  BY <1>1 DEF Faults, SampledAt
<1>4. \/ pc = "wait" /\ now < tick
      \/ pc = "poweroff" /\ now < due
      \/ pc = "done"
      \/ pc = "down" /\ (now < due \/ host # "up")
  BY <1>1 DEF Idle
<1>5. Ticking'
  <2>1. pc = "wait" => SampledAt <= now + 1 /\ now + 1 <= tick /\ tick = SampledAt + Interval
    BY <1>2, <1>4 DEF TimeInv, Ticking
  <2>2. pc = "poweroff" => SampledAt <= now + 1 /\ now + 1 <= due /\ due = SampledAt + PoweroffTimeout
    BY <1>2, <1>4 DEF TimeInv, Ticking
  <2>3. pc = "down" /\ host = "up" =>
          now + 1 <= due /\ due <= now + 1 + (IF Faults = 0 THEN 0 ELSE RestartDelay)
    BY <1>2, <1>4 DEF TimeInv, Ticking
  <2>4. pc # "loop" /\ pc # "save"
    BY <1>4
  <2>5. badSince = NoTime <=> ~Evidence(Sampled(world))
    BY DEF TimeInv, Ticking
  <2> QED BY <1>1, <1>2, <1>3, <2>1, <2>2, <2>3, <2>4, <2>5 DEF Ticking
<1>6. ASSUME NEW from \in Nat, NEW s \in EngineStatus, Past(from, s)
      PROVE  Past(from, s)'
  <2>1. ASSUME NEW t \in {s.outageStartedAt, s.nutStartedAt, s.networkStartedAt}, t # NoTime
        PROVE  from + t <= now + 1
    <3>1. t \in Int /\ from + t <= now
      BY <1>6, <2>1 DEF Past, EngineStatus, Instant, NoTime
    <3> QED BY <1>2, <3>1
  <2> QED BY <1>1, <2>1 DEF Past
<1>7. Watching'
  <2>1. Past(origin, status)'
    <3>1. Past(origin, status) /\ status \in EngineStatus
      BY DEF TimeInv, Watching, IInv, Types, Clocks, Coherent
    <3>2. Past(origin, status') <=> Past(origin', status')
      BY <1>1
    <3> QED BY <1>1, <1>2, <1>6, <3>1 DEF Past
  <2>2. ASSUME NEW s \in file PROVE Past(s.origin, s.status)' /\ Pending(s.status, s.lastAt)
    <3>1. s.origin \in Nat /\ s.status \in EngineStatus
      BY DEF IInv, Types, Files, Saved
    <3>2. Past(s.origin, s.status) /\ Pending(s.status, s.lastAt)
      BY DEF TimeInv, Watching
    <3> QED BY <1>6, <3>1, <3>2
  <2>3. /\ pc \in {"loop", "wait"} => ~requested
        /\ pc \in Sampling /\ ~requested =>
             status.state \in Watched \/ (status.state = "SHUTTING_DOWN" /\ Faults # 0)
        /\ pc \in Sampling => Pending(status, lastAt)
        /\ pc = "down" /\ host = "up" /\ Faults = 0 => \A s \in file : s.boot # boot
    BY DEF TimeInv, Watching
  <2> QED BY <1>1, <1>3, <2>1, <2>2, <2>3 DEF Watching
<1>8. ASSUME host = "up", badSince # NoTime, Faults <= 1
      PROVE  OnTime'
  <2>1. OnTime
    BY <1>8 DEF TimeInv, Punctual
  <2>2. /\ FirstBy(badSince, Faults)' = FirstBy(badSince, Faults)
        /\ DecideBy(badSince, Faults)' = DecideBy(badSince, Faults)
        /\ OffBy(badSince)' = OffBy(badSince)
    BY <1>1, <1>3
  <2>3. /\ Going' <=> Going
        /\ TimersBy' <=> TimersBy
        /\ OutageBy(origin, status)' <=> OutageBy(origin, status)
    BY <1>1, <2>2 DEF Going, TimersBy, OutageBy
  <2>4. \A s \in file' : OutageBy(s.origin, s.status)' <=> OutageBy(s.origin, s.status)
    BY <1>1 DEF OutageBy
  <2>5. pc # "loop" /\ pc # "save"
    BY <1>4
  <2> QED BY <1>1, <1>3, <2>1, <2>2, <2>3, <2>4, <2>5 DEF OnTime
<1>9. Punctual'
  BY <1>1, <1>3, <1>8 DEF Punctual
<1> QED BY <1>5, <1>7, <1>9 DEF TimeInv

(* A change of the world leaves the process as it is; an outage that has   *)
(* just begun leaves all its time.                                         *)
LEMMA WorldChangesOnTime ==
  ASSUME IInv, TimeInv, LeavesTime, WorldChanges
  PROVE  TimeInv'
<1>1. /\ badSince' = IF Evidence(Sampled(world')) THEN First(badSince, now) ELSE NoTime
      /\ now' = now /\ host' = host /\ boot' = boot
      /\ pc' = pc /\ origin' = origin /\ status' = status /\ lastAt' = lastAt
      /\ requested' = requested /\ file' = file /\ due' = due /\ tick' = tick
  BY DEF WorldChanges, engine
<1>2. Faults' = Faults
  BY FaultHappens DEF WorldChanges, Disturbance
<1>3. /\ now \in Nat /\ origin \in Nat /\ lastAt \in Int /\ SampledAt \in Int
      /\ due \in Nat /\ tick \in Nat
      /\ badSince # NoTime => badSince \in Nat
      /\ Faults \in Nat /\ (Faults # 0 => MayFail)
      /\ status.outageStartedAt \in Int /\ status.nutStartedAt \in Int
      /\ status.networkStartedAt \in Int
  BY Numbers DEF TimeInv
<1>4. SampledAt' = SampledAt
  BY <1>1 DEF SampledAt
<1>5. badSince' = NoTime <=> ~Evidence(Sampled(world'))
  <2>1. First(badSince, now) # NoTime
    BY <1>3 DEF First, NoTime
  <2> QED BY <1>1, <2>1
<1>6. Ticking'
  <2>1. (badSince = NoTime)' <=> ~Evidence(Sampled(world))'
    BY <1>5
  <2> QED BY <1>1, <1>2, <1>4, <2>1 DEF TimeInv, Ticking
<1>7. Watching'
  BY <1>1, <1>2 DEF TimeInv, Watching, Past
<1>8. ASSUME host = "up", badSince' # NoTime, Faults <= 1
      PROVE  OnTime'
  <2>1. badSince' = badSince \/ (badSince = NoTime /\ badSince' = now)
    BY <1>1, <1>8 DEF First
  <2>2. CASE badSince' = badSince
    <3>1. OnTime
      BY <1>8, <2>2 DEF TimeInv, Punctual
    <3>2. /\ FirstBy(badSince, Faults)' = FirstBy(badSince, Faults)
          /\ DecideBy(badSince, Faults)' = DecideBy(badSince, Faults)
          /\ OffBy(badSince)' = OffBy(badSince)
      BY <1>2, <2>2
    <3>3. /\ Going' <=> Going
          /\ TimersBy' <=> TimersBy
          /\ OutageBy(origin, status)' <=> OutageBy(origin, status)
      BY <1>1, <2>2, <3>2 DEF Going, TimersBy, OutageBy
    <3>4. \A s \in file' : OutageBy(s.origin, s.status)' <=> OutageBy(s.origin, s.status)
      BY <1>1, <2>2 DEF OutageBy
    <3> QED BY <1>1, <1>2, <1>4, <3>1, <3>2, <3>3, <3>4 DEF OnTime
  <2>3. CASE badSince' = now
    <3> DEFINE F == FirstBy(now, Faults)
               D == DecideBy(now, Faults)
               O == OffBy(now)
    <3>1. /\ F \in Nat /\ D \in Nat /\ O \in Nat
          /\ now + Interval <= F
          /\ Faults # 0 => F = now + Interval + Retrying
          /\ D = F + Confirming
          /\ D + PoweroffTimeout <= O
      BY <1>3, <1>8, Bounds
    <3>2. /\ FirstBy(badSince, Faults)' = F
          /\ DecideBy(badSince, Faults)' = D
          /\ OffBy(badSince)' = O
      BY <1>2, <2>3
    <3>3. /\ Interval \in Nat /\ Interval >= 1 /\ PoweroffTimeout \in Nat /\ RestartDelay \in Nat
          /\ Detection.nutConfirm \in Nat /\ Detection.nutConfirm >= 1
          /\ Confirming \in Nat
          /\ Confirming = (Detection.nutConfirm + Interval - 1) + (Detection.nutConfirm + Interval - 1)
          /\ Retrying \in Nat /\ Retrying = Confirming + PoweroffTimeout + RestartDelay
      BY Durations
    <3> HIDE DEF F, D, O
    <3>4. pc = "down" => due <= F
      <4> SUFFICES ASSUME pc = "down" PROVE due <= F
        OBVIOUS
      <4>1. due <= now + (IF Faults = 0 THEN 0 ELSE RestartDelay)
        BY <1>8 DEF TimeInv, Ticking
      <4>2. CASE Faults = 0
        BY <1>3, <3>1, <3>3, <4>1, <4>2
      <4>3. CASE Faults # 0
        BY <1>3, <3>1, <3>3, <4>1, <4>3
      <4> QED BY <4>2, <4>3
    <3>5. now <= F /\ now <= D /\ now + PoweroffTimeout <= O
      BY <1>3, <3>1, <3>3
    <3>6. pc \in {"save", "wait"} => tick <= F
      <4>1. pc \in {"save", "wait"} => SampledAt <= now /\ tick = SampledAt + Interval
        <5>1. pc = "save" => now = SampledAt /\ tick = now + Interval
          BY DEF TimeInv, Ticking
        <5>2. pc = "wait" => SampledAt <= now /\ tick = SampledAt + Interval
          BY DEF TimeInv, Ticking
        <5> QED BY <1>3, <5>1, <5>2
      <4> QED BY <1>3, <3>1, <3>3, <4>1
    <3>7. pc = "poweroff" => due <= O /\ due <= D + PoweroffTimeout
      <4>1. pc = "poweroff" => SampledAt <= now /\ due = SampledAt + PoweroffTimeout
        BY DEF TimeInv, Ticking
      <4> QED BY <1>3, <3>1, <3>3, <3>5, <4>1
    <3>8. TimersBy'
      <4>1. /\ status.nutStartedAt # NoTime => origin + status.nutStartedAt <= now
            /\ status.networkStartedAt # NoTime => origin + status.networkStartedAt <= now
        BY DEF TimeInv, Watching, Past
      <4>2. status.nutStartedAt # NoTime =>
              origin + status.nutStartedAt + Detection.nutConfirm + Interval - 1 <= D
        BY <1>3, <3>1, <3>3, <3>5, <4>1
      <4>3. status.networkStartedAt # NoTime => origin + status.networkStartedAt <= F
        BY <1>3, <3>1, <3>5, <4>1
      <4> QED BY <1>1, <3>2, <4>2, <4>3 DEF TimersBy
    <3>9. ASSUME NEW from \in Nat, NEW s \in EngineStatus, Past(from, s)
          PROVE  s.outageStartedAt # NoTime => from + s.outageStartedAt <= now + Interval
      <4>1. s.outageStartedAt \in Int
        BY DEF EngineStatus, Instant, NoTime
      <4>2. s.outageStartedAt # NoTime => from + s.outageStartedAt <= now
        BY <3>9 DEF Past
      <4> QED BY <1>3, <3>3, <4>1, <4>2
    <3>10. OutageBy(origin, status)'
      <4>1. Past(origin, status) /\ status \in EngineStatus
        BY DEF TimeInv, Watching, IInv, Types, Clocks, Coherent
      <4> QED BY <1>1, <1>3, <2>3, <3>9, <4>1 DEF OutageBy
    <3>11. ASSUME NEW s \in file PROVE OutageBy(s.origin, s.status)'
      <4>1. s.origin \in Nat /\ s.status \in EngineStatus
        BY DEF IInv, Types, Files, Saved
      <4>2. Past(s.origin, s.status)
        BY DEF TimeInv, Watching
      <4> QED BY <1>1, <2>3, <3>9, <4>1, <4>2 DEF OutageBy
    <3> QED BY <1>1, <3>2, <3>4, <3>5, <3>6, <3>7, <3>8, <3>10, <3>11 DEF OnTime
  <2> QED BY <2>1, <2>2, <2>3
<1>9. Punctual'
  BY <1>1, <1>2, <1>8 DEF Punctual
<1> QED BY <1>6, <1>7, <1>9 DEF TimeInv

(* A round: the timers it starts are started in time, and what it asks for *)
(* is asked in time.                                                       *)
LEMMA RoundOnTime ==
  ASSUME IInv, TimeInv, LeavesTime, Round
  PROVE  TimeInv'
<1> DEFINE x   == Sampled(world)
           at  == now - origin
           out == Step(Detection, status, at, x)
           n   == out.status
<1>1. /\ pc = "loop" /\ pc' = "save"
      /\ status' = n /\ lastAt' = at /\ requested' = RequestsPoweroff(out.actions)
      /\ now' = now /\ world' = world /\ badSince' = badSince /\ host' = host /\ boot' = boot
      /\ file' = file /\ origin' = origin /\ due' = due /\ tick' = tick /\ count' = count
  BY DEF Round, outside
<1>2. /\ at \in Nat /\ origin + at = now /\ Coherent(status) /\ world \in Worlds
  BY BoundsAssumption DEF IInv, Types, Clocks
<1>3. x \in Snapshot /\ ~x.stopped
  BY <1>2, WorldsAssumption
  DEF Sampled, SnapshotOf, SampleOf, AnyReachable, Snapshot, NUTStatus
<1>4. /\ ~requested
      /\ status.state \in Watched \/ (status.state = "SHUTTING_DOWN" /\ Faults # 0)
      /\ status.state # "POWERED_OFF"
  BY <1>1 DEF TimeInv, Watching, Sampling, Watched
<1>5. Pending(n, at)
  BY <1>2, <1>3, StepPending
<1>6. /\ n.outageStartedAt \in {NoTime, status.outageStartedAt, at}
      /\ n.nutStartedAt \in {NoTime, status.nutStartedAt, at}
      /\ n.networkStartedAt \in {NoTime, status.networkStartedAt, at}
      /\ status.state \in Watched /\ Evidence(x) => n.outageStartedAt = First(status.outageStartedAt, at)
      /\ status.state \notin Watched => n.outageStartedAt = status.outageStartedAt
  BY <1>2, <1>3, StepTimes, DetectionAssumption
<1>7. RequestsPoweroff(out.actions) <=>
        ~(n.state \in Watched \/ (status.state = "SHUTTING_DOWN" /\ n.state = "SHUTTING_DOWN"))
  BY <1>2, <1>3, <1>4, StepRequests
<1>8. /\ Coherent(n)
      /\ status.state \notin Watched => n.state \notin Watched
  BY <1>2, <1>3, StepKeeps, DetectionAssumption
<1>9. ASSUME status.state \in Watched, n.state \in Watched, Evidence(x)
      PROVE  /\ NUTEvidence(x) => n.nutStartedAt = First(status.nutStartedAt, at)
             /\ ~NUTEvidence(x) => /\ n.nutStartedAt = status.nutStartedAt
                                   /\ n.networkStartedAt = First(status.networkStartedAt, at)
  BY <1>2, <1>3, <1>9, StillWatching, DetectionAssumption
<1>10. /\ now \in Nat /\ origin \in Nat /\ lastAt \in Int /\ SampledAt \in Int
       /\ SampledAt = origin + lastAt
       /\ due \in Nat /\ tick \in Nat
       /\ badSince # NoTime => badSince \in Nat
       /\ Faults \in Nat /\ (Faults # 0 => MayFail)
       /\ status.outageStartedAt \in Int /\ status.nutStartedAt \in Int
       /\ status.networkStartedAt \in Int
  BY Numbers DEF TimeInv
<1>11. badSince # NoTime => Evidence(x)
  BY DEF TimeInv, Ticking
<1> HIDE DEF x, at, out
<1>12. requested' <=> ~(n.state \in Watched \/ (status.state = "SHUTTING_DOWN" /\ n.state = "SHUTTING_DOWN"))
  BY <1>1, <1>7
<1> HIDE DEF n
<1>13. Faults' = Faults /\ SampledAt' = now
  BY <1>1, <1>2, <1>10 DEF Faults, SampledAt
<1>14. Ticking'
  BY <1>1, <1>10, <1>13 DEF TimeInv, Ticking
<1>15. Watching'
  <2>1. Past(origin, status)'
    <3>1. /\ status.outageStartedAt # NoTime => origin + status.outageStartedAt <= now
          /\ status.nutStartedAt # NoTime => origin + status.nutStartedAt <= now
          /\ status.networkStartedAt # NoTime => origin + status.networkStartedAt <= now
      BY DEF TimeInv, Watching, Past
    <3>2. /\ n.outageStartedAt # NoTime => origin + n.outageStartedAt <= now
          /\ n.nutStartedAt # NoTime => origin + n.nutStartedAt <= now
          /\ n.networkStartedAt # NoTime => origin + n.networkStartedAt <= now
      BY <1>2, <1>6, <1>10, <3>1
    <3> QED BY <1>1, <3>2 DEF Past
  <2>2. \A s \in file' : Past(s.origin, s.status)' /\ Pending(s.status, s.lastAt)
    BY <1>1 DEF TimeInv, Watching, Past
  <2>3. Pending(status', lastAt')
    BY <1>1, <1>5
  <2>4. ~requested' => status'.state \in Watched \/ (status'.state = "SHUTTING_DOWN" /\ Faults' # 0)
    BY <1>1, <1>4, <1>12, <1>13 DEF Watched
  <2> QED BY <1>1, <2>1, <2>2, <2>3, <2>4 DEF Watching
<1>16. ASSUME host = "up", badSince # NoTime, Faults <= 1
       PROVE  OnTime'
  <2> DEFINE F == FirstBy(badSince, Faults)
             D == DecideBy(badSince, Faults)
             O == OffBy(badSince)
  <2>1. OnTime
    BY <1>16 DEF TimeInv, Punctual
  <2>2. /\ F \in Nat /\ D \in Nat /\ O \in Nat
        /\ Faults = 0 => F = badSince + Interval
        /\ D = F + Confirming
    BY <1>10, <1>16, Bounds
  <2>3. FirstBy(badSince, Faults)' = F /\ DecideBy(badSince, Faults)' = D /\ OffBy(badSince)' = O
    BY <1>1, <1>13
  <2>4. /\ Interval \in Nat /\ Interval >= 1
        /\ Detection.nutConfirm \in Nat /\ Detection.nutConfirm >= 1
        /\ Confirming \in Nat
        /\ Confirming = (Detection.nutConfirm + Interval - 1) + (Detection.nutConfirm + Interval - 1)
    BY Durations
  <2>5. /\ now + PoweroffTimeout <= O
        /\ status.state \in Watched => now <= D
    BY <1>1, <1>4, <1>16, <2>1, SamplingBy DEF TimeInv, Sampling
  <2>6. /\ now <= F \/ (Going /\ now <= SampledAt + Interval)
        /\ status.state \in Watched => TimersBy
        /\ Faults = 0 \/ status.state = "SHUTTING_DOWN" => OutageBy(origin, status)
        /\ \A s \in file : s.boot = boot /\ s.status.state = "SHUTTING_DOWN" => OutageBy(s.origin, s.status)
    BY <1>1, <1>4, <2>1 DEF OnTime, Sampling
  <2>7. Evidence(x)
    BY <1>11, <1>16
  <2>8. Going => status.nutStartedAt # NoTime \/ status.networkStartedAt # NoTime
                   \/ status.state = "SHUTTING_DOWN"
    BY DEF Going
  <2>9. status.state \in Watched => status.state # "SHUTTING_DOWN"
    BY DEF Watched
  <2>10. status.state \in Watched /\ status.nutStartedAt # NoTime =>
           origin + status.nutStartedAt + Detection.nutConfirm + Interval - 1 <= D
    BY <2>6 DEF TimersBy
  <2>11. status.state \in Watched /\ status.nutStartedAt = NoTime /\ status.networkStartedAt # NoTime =>
           /\ origin + status.networkStartedAt <= F
           /\ lastAt < status.networkStartedAt + Detection.nutConfirm
    BY <1>1, <2>6 DEF TimersBy, TimeInv, Watching, Pending, Sampling
  <2> HIDE DEF F, D, O
  <2>12. ASSUME n.state \in Watched
         PROVE  TimersBy' /\ Going'
    <3>1. status.state \in Watched
      BY <1>8, <2>12
    <3>2. CASE NUTEvidence(x)
      <4>1. n.nutStartedAt = First(status.nutStartedAt, at)
        BY <1>9, <2>7, <2>12, <3>1, <3>2
      <4>2. n.nutStartedAt # NoTime
        BY <1>2, <4>1 DEF First, NoTime
      <4>3. CASE status.nutStartedAt # NoTime
        <5>1. n.nutStartedAt = status.nutStartedAt
          BY <4>1, <4>3 DEF First
        <5> QED BY <1>1, <2>3, <2>10, <3>1, <4>2, <4>3, <5>1 DEF TimersBy, Going
      <4>4. CASE status.nutStartedAt = NoTime
        <5>1. n.nutStartedAt = at
          BY <4>1, <4>4 DEF First
        <5>2. now <= F + (Detection.nutConfirm + Interval - 1)
          <6>1. CASE now <= F
            BY <1>10, <2>2, <2>4, <6>1
          <6>2. CASE Going /\ now <= SampledAt + Interval
            <7>1. status.networkStartedAt # NoTime
              BY <2>8, <2>9, <3>1, <4>4, <6>2
            <7> QED BY <1>10, <2>2, <2>4, <2>11, <3>1, <4>4, <6>2, <7>1
          <6> QED BY <2>6, <6>1, <6>2
        <5>3. origin + n.nutStartedAt + Detection.nutConfirm + Interval - 1 <= D
          BY <1>2, <1>10, <2>2, <2>4, <5>1, <5>2
        <5> QED BY <1>1, <2>3, <4>2, <5>3 DEF TimersBy, Going
      <4> QED BY <4>3, <4>4
    <3>3. CASE ~NUTEvidence(x)
      <4>1. /\ n.nutStartedAt = status.nutStartedAt
            /\ n.networkStartedAt = First(status.networkStartedAt, at)
        BY <1>9, <2>7, <2>12, <3>1, <3>3
      <4>2. n.networkStartedAt # NoTime
        BY <1>2, <4>1 DEF First, NoTime
      <4>3. CASE status.nutStartedAt # NoTime
        BY <1>1, <2>3, <2>10, <3>1, <4>1, <4>3 DEF TimersBy, Going
      <4>4. CASE status.nutStartedAt = NoTime
        <5>1. origin + n.networkStartedAt <= F
          <6>1. CASE status.networkStartedAt # NoTime
            <7>1. n.networkStartedAt = status.networkStartedAt
              BY <4>1, <6>1 DEF First
            <7> QED BY <2>11, <3>1, <4>4, <6>1, <7>1
          <6>2. CASE status.networkStartedAt = NoTime
            <7>1. n.networkStartedAt = at
              BY <4>1, <6>2 DEF First
            <7>2. ~Going
              BY <2>8, <2>9, <3>1, <4>4, <6>2
            <7> QED BY <1>2, <2>6, <7>1, <7>2
          <6> QED BY <6>1, <6>2
        <5> QED BY <1>1, <2>3, <4>1, <4>2, <4>4, <5>1 DEF TimersBy, Going
      <4> QED BY <4>3, <4>4
    <3> QED BY <3>2, <3>3
  <2>13. ~requested' => Going'
    <3>1. CASE n.state \in Watched
      BY <2>12, <3>1
    <3>2. CASE n.state = "SHUTTING_DOWN"
      BY <1>1, <3>2 DEF Going
    <3> QED BY <1>12, <3>1, <3>2
  <2>14. Faults = 0 \/ (~requested' /\ n.state = "SHUTTING_DOWN") => OutageBy(origin, n)
    <3>1. CASE Faults = 0
      <4>1. status.state \in Watched
        BY <1>4, <3>1
      <4>2. n.outageStartedAt = First(status.outageStartedAt, at)
        BY <1>6, <2>7, <4>1
      <4>3. CASE status.outageStartedAt # NoTime
        <5>1. n.outageStartedAt = status.outageStartedAt
          BY <4>2, <4>3 DEF First
        <5> QED BY <2>6, <3>1, <5>1 DEF OutageBy
      <4>4. CASE status.outageStartedAt = NoTime
        <5>1. status.nutStartedAt = NoTime /\ status.networkStartedAt = NoTime
          BY <1>2, <4>4 DEF Coherent
        <5>2. now <= F
          BY <2>6, <2>8, <2>9, <4>1, <5>1
        <5>3. n.outageStartedAt = at
          BY <4>2, <4>4 DEF First
        <5>4. origin + n.outageStartedAt <= badSince + Interval
          BY <1>2, <2>2, <3>1, <5>2, <5>3
        <5> QED BY <5>4 DEF OutageBy
      <4> QED BY <4>3, <4>4
    <3>2. CASE ~requested' /\ n.state = "SHUTTING_DOWN"
      <4>1. status.state = "SHUTTING_DOWN"
        BY <1>12, <3>2 DEF Watched
      <4>2. n.outageStartedAt = status.outageStartedAt
        BY <1>6, <4>1 DEF Watched
      <4> QED BY <2>6, <4>1, <4>2 DEF OutageBy
    <3> QED BY <3>1, <3>2
  <2>15. OutageBy(origin, status)' <=> OutageBy(origin, n)
    BY <1>1 DEF OutageBy
  <2>16. \A s \in file' : OutageBy(s.origin, s.status)' <=> OutageBy(s.origin, s.status)
    BY <1>1 DEF OutageBy
  <2>17. Faults = 0 => now <= D
    BY <1>4, <2>5
  <2> QED BY <1>1, <1>13, <2>3, <2>5, <2>6, <2>12, <2>13, <2>14, <2>15, <2>16, <2>17 DEF OnTime
<1>17. Punctual'
  BY <1>1, <1>13, <1>16 DEF Punctual
<1> QED BY <1>14, <1>15, <1>17 DEF TimeInv

(* Every step of a configuration that leaves time keeps the times.         *)
LEMMA NextOnTime == LeavesTime /\ IInv /\ TimeInv /\ [Next]_vars => TimeInv'
<1> SUFFICES ASSUME LeavesTime, IInv, TimeInv, [Next]_vars PROVE TimeInv'
  OBVIOUS
<1>1. CASE PersistFails
  BY <1>1, DieOnTime DEF PersistFails, IInv, Places
<1>2. CASE PoweroffFails
  BY <1>2, DieOnTime DEF PoweroffFails, IInv, Places
<1>3. CASE Crash
  BY <1>3, DieOnTime DEF Crash, IInv, Types, Clocks
<1>4. CASE UNCHANGED vars
  <2>1. /\ now' = now /\ world' = world /\ badSince' = badSince /\ host' = host /\ boot' = boot
        /\ pc' = pc /\ origin' = origin /\ status' = status /\ lastAt' = lastAt
        /\ requested' = requested /\ file' = file /\ due' = due /\ tick' = tick /\ count' = count
    BY <1>4 DEF vars, outside, engine
  <2>2. Faults' = Faults /\ SampledAt' = SampledAt
    BY <2>1 DEF Faults, SampledAt
  <2>3. Ticking'
    BY <2>1, <2>2 DEF TimeInv, Ticking
  <2>4. Watching'
    BY <2>1, <2>2 DEF TimeInv, Watching, Past
  <2>5. ASSUME OnTime PROVE OnTime'
    <3>1. /\ FirstBy(badSince, Faults)' = FirstBy(badSince, Faults)
          /\ DecideBy(badSince, Faults)' = DecideBy(badSince, Faults)
          /\ OffBy(badSince)' = OffBy(badSince)
      BY <2>1, <2>2
    <3>2. /\ Going' <=> Going
          /\ TimersBy' <=> TimersBy
          /\ OutageBy(origin, status)' <=> OutageBy(origin, status)
      BY <2>1, <3>1 DEF Going, TimersBy, OutageBy
    <3>3. \A s \in file' : OutageBy(s.origin, s.status)' <=> OutageBy(s.origin, s.status)
      BY <2>1 DEF OutageBy
    <3> QED BY <2>1, <2>2, <2>5, <3>1, <3>2, <3>3 DEF OnTime
  <2>6. Punctual'
    BY <2>1, <2>2, <2>5 DEF TimeInv, Punctual
  <2> QED BY <2>3, <2>4, <2>6 DEF TimeInv
<1> QED BY <1>1, <1>2, <1>3, <1>4, StartOnTime, RoundOnTime, PersistOnTime, AcceptedOnTime, WakeOnTime,
           TickOnTime, WorldChangesOnTime, HostHaltsOnTime, UPSEmptyOnTime, HostBootsOnTime
        DEF Next, Guard, Environment

(* Where the guard is on time, so is the host.                             *)
LEMMA OnTimeIsInBudget ==
  ASSUME IInv, TimeInv, LeavesTime
  PROVE  HostOffInBudget
<1> SUFFICES ASSUME OneFault, badSince # NoTime, now - badSince > Detection.totalBudget + Interval,
                    host = "up"
             PROVE  FALSE
  BY DEF HostOffInBudget
<1>1. Faults <= 1
  BY DEF OneFault, Faults
<1>2. OnTime
  BY <1>1 DEF TimeInv, Punctual
<1>3. /\ now \in Nat /\ badSince \in Nat /\ due \in Nat /\ tick \in Nat
      /\ Faults \in Nat /\ (Faults # 0 => MayFail)
  BY Numbers DEF TimeInv
<1>4. /\ FirstBy(badSince, Faults) \in Nat /\ OffBy(badSince) \in Nat
      /\ DecideBy(badSince, Faults) = FirstBy(badSince, Faults) + Confirming
      /\ DecideBy(badSince, Faults) + PoweroffTimeout <= OffBy(badSince)
      /\ OffBy(badSince) = badSince + Interval + Detection.totalBudget
  BY <1>1, <1>3, Bounds
<1>5. /\ Interval \in Nat /\ Confirming \in Nat /\ PoweroffTimeout \in Nat
      /\ Detection.totalBudget \in Nat
  BY Durations
<1>6. ~(now <= OffBy(badSince))
  BY <1>3, <1>4, <1>5
<1>7. CASE pc = "down"
  <2>1. now <= due /\ due <= FirstBy(badSince, Faults)
    BY <1>2, <1>7 DEF TimeInv, Ticking, OnTime
  <2> QED BY <1>3, <1>4, <1>5, <1>6, <2>1
<1>8. CASE pc \in Sampling /\ ~requested
  <2>1. now + PoweroffTimeout <= OffBy(badSince)
    BY <1>1, <1>2, <1>8, SamplingBy DEF TimeInv
  <2> QED BY <1>3, <1>4, <1>5, <1>6, <2>1
<1>9. CASE pc = "save" /\ requested
  <2>1. now + PoweroffTimeout <= OffBy(badSince)
    BY <1>2, <1>9 DEF OnTime
  <2> QED BY <1>3, <1>4, <1>5, <1>6, <2>1
<1>10. CASE pc = "poweroff"
  <2>1. now <= due /\ due <= OffBy(badSince)
    BY <1>2, <1>10 DEF TimeInv, Ticking, OnTime
  <2> QED BY <1>3, <1>4, <1>6, <2>1
<1>11. pc # "done"
  BY DEF IInv, Places
<1>12. pc \in {"loop", "wait"} => ~requested
  BY DEF TimeInv, Watching
<1> QED BY <1>7, <1>8, <1>9, <1>10, <1>11, <1>12 DEF IInv, Types, Clocks, Sampling

(* The host is off before the clock passes the total budget of an outage,  *)
(* one crash or failure included, in every configuration that leaves time  *)
(* for two confirmations, the poweroff command and, where the guard may    *)
(* fail, the restart and all of that again.                                *)
THEOREM HostIsOffInBudget ==
  ASSUME LeavesTime
  PROVE  Spec => []HostOffInBudget
<1>1. Init => IInv /\ TimeInv
  BY InitInv, InitOnTime
<1>2. IInv /\ TimeInv /\ [Next]_vars => (IInv /\ TimeInv)'
  BY NextInv, NextOnTime
<1>3. IInv /\ TimeInv => HostOffInBudget
  BY OnTimeIsInBudget
<1> QED BY <1>1, <1>2, <1>3, PTL DEF Spec
=============================================================================
