----------------------------- MODULE ManagerProofs -----------------------------
(* Proofs about the jobs of Manager and the handlers that poll and record  *)
(* them, for every value of its constants.                                 *)
EXTENDS Manager, FiniteSetTheorems, TLAPS

Jobs == [id : Nat, state : Outcomes \cup {"running"}, attempts : Nat, sent : Nat]
Senders == [id : Nat, device : Devices, made : Nat,
            phase : {"sending", "waiting", "next"}, age : Int, left : Int]

JobTypes ==
  /\ jobs \in [Devices -> Jobs \cup {NoJob}]
  /\ senders \in SUBSET Senders
  /\ wakes \in Nat

(* The goroutine of a device's running job.                                *)
SendsFor(g, d) == g.device = d /\ g.id = jobs[d].id /\ g.made = jobs[d].attempts

Exclusive == \A g, h \in senders : g.device = h.device => g = h
Owned == \A g \in senders : Running(g.device) /\ SendsFor(g, g.device)
Served == \A d \in Devices : Running(d) => \E g \in senders : SendsFor(g, d)

(* JobOwnsItsSender says of no goroutine that it is its device's; that     *)
(* each is, whatever it does, is what makes it inductive.                  *)
JobInvariant == JobTypes /\ Exclusive /\ Owned /\ Served

(* The manager starts without a job.                                      *)
LEMMA JobInvariantInit == InitJobs => JobInvariant
  BY NoJobAssumption DEF InitJobs, JobInvariant, JobTypes, Exclusive, Owned, Served, Running

(* A new job finds its device without a goroutine.                         *)
LEMMA WakeKeeps ==
  ASSUME JobInvariant, NEW d \in Devices, Wake(d)
  PROVE  JobInvariant'
<1>0. PICK n : n = NewSender(d)
  OBVIOUS
<1>1. n \in Senders /\ n.device = d /\ n.id = wakes + 1 /\ n.made = 0
  BY <1>0, ScheduleAssumption DEF JobInvariant, JobTypes, NewSender, Senders
<1>2. NewJob \in Jobs /\ NewJob # NoJob
  BY NoJobAssumption DEF JobInvariant, JobTypes, NewJob, Jobs
<1>3. /\ senders' = senders \cup {n}
      /\ jobs' = [jobs EXCEPT ![d] = NewJob]
      /\ wakes' = wakes + 1
  BY <1>0 DEF Wake
<1>4. \A g \in senders : g.device # d
  BY DEF Wake, JobInvariant, Owned
<1>5. JobTypes'
  BY <1>1, <1>2, <1>3 DEF JobInvariant, JobTypes
<1>6. Exclusive'
  BY <1>1, <1>3, <1>4 DEF JobInvariant, Exclusive
<1>7. jobs'[d] = NewJob /\ Running(d)' /\ SendsFor(n, d)'
  BY <1>1, <1>2, <1>3 DEF JobInvariant, JobTypes, Running, SendsFor, NewJob
<1>8. \A e \in Devices \ {d} : jobs'[e] = jobs[e]
  BY <1>3 DEF JobInvariant, JobTypes
<1>9. Owned'
  <2> SUFFICES ASSUME NEW g \in senders'
               PROVE  (Running(g.device) /\ SendsFor(g, g.device))'
    BY DEF Owned
  <2>1. CASE g = n
    BY <1>1, <1>7, <2>1
  <2>2. CASE g \in senders
    <3>1. g.device \in Devices \ {d}
      BY <1>4, <2>2 DEF JobInvariant, JobTypes, Senders
    <3>2. Running(g.device) /\ SendsFor(g, g.device)
      BY <2>2 DEF JobInvariant, Owned
    <3> QED BY <1>8, <3>1, <3>2 DEF Running, SendsFor
  <2> QED BY <1>3, <2>1, <2>2
<1>10. Served'
  <2> SUFFICES ASSUME NEW e \in Devices, Running(e)'
               PROVE  \E k \in senders' : SendsFor(k, e)'
    BY DEF Served
  <2>1. CASE e = d
    BY <1>3, <1>7, <2>1
  <2>2. CASE e # d
    <3>1. PICK k \in senders : SendsFor(k, e)
      BY <1>8, <2>2 DEF JobInvariant, Served, Running
    <3> QED BY <1>3, <1>8, <2>2, <3>1 DEF SendsFor
  <2> QED BY <2>1, <2>2
<1> QED BY <1>5, <1>6, <1>9, <1>10 DEF JobInvariant

(* A goroutine that goes on, for the same job, leaves the others alone.    *)
LEMMA BecomeKeeps ==
  ASSUME JobInvariant, NEW g \in senders, NEW h \in Senders,
         h.device = g.device, h.id = g.id, Become(g, h),
         NEW s \in Nat,
         \/ h.made = g.made /\ jobs' = jobs
         \/ h.made = g.made + 1 /\ jobs' = [jobs EXCEPT ![g.device].attempts = @ + 1, ![g.device].sent = s],
         wakes' = wakes
  PROVE  JobInvariant'
<1> DEFINE d == g.device
<1>1. d \in Devices /\ g.made \in Nat
  BY DEF JobInvariant, JobTypes, Senders
<1>2. jobs[d] \in Jobs /\ Running(d) /\ SendsFor(g, d)
  BY <1>1 DEF JobInvariant, JobTypes, Owned, Running
<1>3. /\ senders' = (senders \ {g}) \cup {h}
      /\ \A k \in senders : k.device = d => k = g
  BY DEF Become, JobInvariant, Exclusive
<1>4. /\ jobs'[d] \in Jobs /\ jobs'[d].state = "running"
      /\ jobs'[d].id = jobs[d].id /\ h.made = jobs'[d].attempts
      /\ jobs' \in [Devices -> Jobs \cup {NoJob}]
      /\ \A e \in Devices \ {d} : jobs'[e] = jobs[e]
  <2>1. CASE h.made = g.made /\ jobs' = jobs
    BY <1>1, <1>2, <2>1 DEF JobInvariant, JobTypes, Running, SendsFor
  <2>2. CASE h.made = g.made + 1 /\ jobs' = [jobs EXCEPT ![g.device].attempts = @ + 1, ![g.device].sent = s]
    <3>1. jobs'[d] = [jobs[d] EXCEPT !.attempts = @ + 1, !.sent = s]
      BY <1>1, <1>2, <2>2 DEF JobInvariant, JobTypes, Jobs
    <3>2. /\ jobs'[d] \in Jobs /\ jobs'[d].state = jobs[d].state /\ jobs'[d].id = jobs[d].id
          /\ jobs'[d].attempts = jobs[d].attempts + 1
      <4>1. PICK j \in Jobs : j = jobs[d]
        BY <1>2
      <4>2. j.attempts \in Nat /\ j.attempts + 1 \in Nat
        BY DEF Jobs
      <4> QED BY <3>1, <4>1, <4>2 DEF Jobs
    <3>3. \A e \in Devices \ {d} : jobs'[e] = jobs[e]
      BY <1>1, <2>2 DEF JobInvariant, JobTypes
    <3>4. jobs' \in [Devices -> Jobs \cup {NoJob}]
      BY <1>1, <2>2, <3>2, <3>3 DEF JobInvariant, JobTypes
    <3> QED BY <1>2, <2>2, <3>2, <3>3, <3>4 DEF Running, SendsFor
  <2> QED BY <2>1, <2>2
<1>5. jobs'[d] # NoJob
  BY <1>4, NoJobAssumption DEF Jobs
<1>6. Running(d)' /\ SendsFor(h, d)'
  BY <1>2, <1>4, <1>5 DEF Running, SendsFor
<1>7. JobTypes'
  BY <1>3, <1>4 DEF JobInvariant, JobTypes
<1>8. Exclusive'
  BY <1>3 DEF JobInvariant, Exclusive
<1>9. Owned'
  <2> SUFFICES ASSUME NEW k \in senders'
               PROVE  (Running(k.device) /\ SendsFor(k, k.device))'
    BY DEF Owned
  <2>1. CASE k = h
    BY <1>6, <2>1
  <2>2. CASE k \in senders \ {g}
    <3>1. k.device \in Devices \ {d} /\ Running(k.device) /\ SendsFor(k, k.device)
      BY <1>3, <2>2 DEF JobInvariant, JobTypes, Senders, Owned
    <3> QED BY <1>4, <3>1 DEF Running, SendsFor
  <2> QED BY <1>3, <2>1, <2>2
<1>10. Served'
  <2> SUFFICES ASSUME NEW e \in Devices, Running(e)'
               PROVE  \E k \in senders' : SendsFor(k, e)'
    BY DEF Served
  <2>1. CASE e = d
    BY <1>3, <1>6, <2>1
  <2>2. CASE e # d
    <3>1. PICK k \in senders : SendsFor(k, e)
      BY <1>4, <2>2 DEF JobInvariant, Served, Running
    <3> QED BY <1>3, <1>4, <2>2, <3>1 DEF SendsFor
  <2> QED BY <2>1, <2>2
<1> QED BY <1>7, <1>8, <1>9, <1>10 DEF JobInvariant

(* A goroutine that ends leaves its job in an outcome.                     *)
LEMMA EndKeeps ==
  ASSUME JobInvariant, NEW g \in senders, NEW outcome \in Outcomes, End(g, outcome)
  PROVE  JobInvariant'
<1> DEFINE d == g.device
<1>1. d \in Devices /\ jobs[d] \in Jobs
  BY DEF JobInvariant, JobTypes, Owned, Running, Senders
<1>2. jobs'[d] = [jobs[d] EXCEPT !.state = outcome]
  BY <1>1 DEF End, JobInvariant, JobTypes
<1>3. jobs'[d] \in Jobs /\ ~Running(d)'
  BY <1>1, <1>2 DEF Jobs, Running, Outcomes
<1>4. \A e \in Devices \ {d} : jobs'[e] = jobs[e]
  BY <1>1 DEF End, JobInvariant, JobTypes
<1>5. /\ senders' = senders \ {g}
      /\ \A k \in senders' : k.device \in Devices \ {d}
  BY DEF End, JobInvariant, JobTypes, Exclusive, Senders
<1>6. JobTypes'
  BY <1>1, <1>3, <1>4, <1>5 DEF End, JobInvariant, JobTypes
<1>7. Exclusive'
  BY <1>5 DEF JobInvariant, Exclusive
<1>8. Owned'
  BY <1>4, <1>5 DEF JobInvariant, Owned, Running, SendsFor
<1>9. Served'
  <2> SUFFICES ASSUME NEW e \in Devices, Running(e)'
               PROVE  \E k \in senders' : SendsFor(k, e)'
    BY DEF Served
  <2>1. e # d /\ jobs'[e] = jobs[e] /\ Running(e)
    BY <1>3, <1>4 DEF Running
  <2>2. PICK k \in senders : SendsFor(k, e)
    BY <2>1 DEF JobInvariant, Served
  <2> QED BY <1>5, <2>1, <2>2 DEF SendsFor
<1> QED BY <1>6, <1>7, <1>8, <1>9 DEF JobInvariant

(* A job's goroutine goes on, or ends with its job.                       *)
LEMMA RunKeeps ==
  ASSUME JobInvariant, NEW g \in senders, Run(g)
  PROVE  JobInvariant'
<1>1. /\ g \in Senders /\ Running(g.device) /\ jobs[g.device] \in Jobs
      /\ g.made + 1 \in Nat /\ SendTimeout \in Int
  BY ScheduleAssumption DEF JobInvariant, JobTypes, Senders, Owned, Running
<1>2. ASSUME NEW ok \in BOOLEAN, Attempt(g, ok)
      PROVE  JobInvariant'
  <2>1. PICK h : h = [g EXCEPT !.phase = "next", !.made = @ + 1]
    OBVIOUS
  <2>2. PICK s : s = IF ok THEN jobs[g.device].sent + 1 ELSE jobs[g.device].sent
    OBVIOUS
  <2>3. h \in Senders /\ h.device = g.device /\ h.id = g.id /\ h.made = g.made + 1
    BY <1>1, <2>1 DEF Senders
  <2>4. s \in Nat
    BY <1>1, <2>2 DEF Jobs
  <2>5. jobs' = [jobs EXCEPT ![g.device].attempts = @ + 1, ![g.device].sent = s]
    BY <1>1, <1>2, <2>2 DEF Attempt, JobInvariant, JobTypes, Jobs, Senders
  <2>6. Become(g, h) /\ wakes' = wakes
    BY <1>2, <2>1 DEF Attempt
  <2> QED BY <2>3, <2>4, <2>5, <2>6, BecomeKeeps
<1>3. ASSUME Continue(g)
      PROVE  JobInvariant'
  <2> DEFINE wait == Offset(g) - g.age
             w == [g EXCEPT !.phase = "waiting", !.left = wait]
             n == [g EXCEPT !.phase = "sending", !.left = SendTimeout]
  <2>1. wait \in Int
    BY <1>1, ScheduleAssumption DEF Offset, Senders
  <2>2. /\ w \in Senders /\ w.device = g.device /\ w.id = g.id /\ w.made = g.made
        /\ n \in Senders /\ n.device = g.device /\ n.id = g.id /\ n.made = g.made
    BY <1>1, <2>1 DEF Senders
  <2> HIDE DEF w, n
  <2>3. Become(g, w) \/ Become(g, n)
    BY <1>3 DEF Continue, w, n
  <2> QED BY <1>3, <2>2, <2>3, BecomeKeeps DEF Continue
<1>4. ASSUME TimerFires(g)
      PROVE  JobInvariant'
  <2> DEFINE n == [g EXCEPT !.phase = "sending", !.left = SendTimeout]
  <2>1. n \in Senders /\ n.device = g.device /\ n.id = g.id /\ n.made = g.made
    BY <1>1 DEF Senders
  <2> QED BY <1>4, <2>1, BecomeKeeps DEF TimerFires
<1>5. CASE Finish(g)
  BY <1>5, EndKeeps DEF Finish, Outcomes
<1>6. CASE FinishCancelled(g)
  BY <1>6, EndKeeps DEF FinishCancelled, Outcomes
<1> QED BY <1>2, <1>3, <1>4, <1>5, <1>6 DEF Run

(* Time changes neither whose goroutine it is nor what it has made.        *)
LEMMA TimePassesKeeps ==
  ASSUME JobInvariant, TimePasses
  PROVE  JobInvariant'
<1> DEFINE Older(g) == [g EXCEPT !.age = @ + 1, !.left = @ - 1]
<1>1. senders' = {Older(g) : g \in senders} /\ jobs' = jobs /\ wakes' = wakes
  BY DEF TimePasses
<1>2. ASSUME NEW g \in senders
      PROVE  /\ Older(g) \in Senders /\ Older(g).device = g.device
             /\ Older(g).id = g.id /\ Older(g).made = g.made
  <2>1. g \in Senders
    BY DEF JobInvariant, JobTypes
  <2>2. g.age + 1 \in Int /\ g.left - 1 \in Int
    BY <2>1 DEF Senders
  <2> QED BY <2>1, <2>2 DEF Senders
<1> HIDE DEF Older
<1>3. JobTypes'
  BY <1>1, <1>2 DEF JobInvariant, JobTypes
<1>4. Exclusive'
  BY <1>1, <1>2 DEF JobInvariant, Exclusive
<1>5. Owned'
  BY <1>1, <1>2 DEF JobInvariant, Owned, Running, SendsFor
<1>6. Served'
  BY <1>1, <1>2 DEF JobInvariant, Served, Running, SendsFor
<1> QED BY <1>3, <1>4, <1>5, <1>6 DEF JobInvariant

(* What a step of the manager does to its jobs.                            *)
JobStep ==
  \/ \E d \in Devices : Wake(d)
  \/ \E g \in senders : Run(g)
  \/ TimePasses
  \/ UNCHANGED <<jobs, senders, wakes>>

(* To the jobs, a step of the manager is one of theirs or nothing.        *)
LEMMA NextIsJobStep == [Next]_vars => JobStep
<1>1. CASE \E c \in Clients : \/ \E s \in Sources : ReadSource(c, s)
                             \/ ReadJobs(c)
                             \/ Mark(c)
                             \/ Observe(c)
                             \/ Record(c)
  BY <1>1 DEF ReadSource, ReadJobs, Mark, Observe, Record, jobVars, JobStep
<1>2. CASE \E c \in Clients, d \in Devices : AcceptWake(c, d)
  BY <1>2 DEF AcceptWake, JobStep
<1>3. CASE \E s \in Sources, v \in Readings : WorldChanges(s, v)
  BY <1>3 DEF WorldChanges, jobVars, JobStep
<1>4. CASE Stop
  BY <1>4 DEF Stop, JobStep
<1>5. CASE UNCHANGED vars
  BY <1>5 DEF vars, jobVars, JobStep
<1>6. CASE (\E g \in senders : Run(g)) \/ TimePasses
  BY <1>6 DEF JobStep
<1> QED BY <1>1, <1>2, <1>3, <1>4, <1>5, <1>6 DEF Next

(* Every step keeps the jobs' invariant.                                  *)
LEMMA JobInvariantNext == JobInvariant /\ [Next]_vars => JobInvariant'
<1> SUFFICES ASSUME JobInvariant, JobStep
             PROVE  JobInvariant'
  BY NextIsJobStep
<1>1. CASE \E d \in Devices : Wake(d)
  BY <1>1, WakeKeeps
<1>2. CASE \E g \in senders : Run(g)
  BY <1>2, RunKeeps
<1>3. CASE TimePasses
  BY <1>3, TimePassesKeeps
<1>4. CASE UNCHANGED <<jobs, senders, wakes>>
  BY <1>4 DEF JobInvariant, JobTypes, Exclusive, Owned, Served, Running, SendsFor
<1> QED BY <1>1, <1>2, <1>3, <1>4 DEF JobStep

(* Whatever the requests and however many there are, no device ever has    *)
(* two goroutines, nor a running job without its own (Manager.Wake).       *)
THEOREM OneSenderPerJob == Spec => []JobOwnsItsSender
<1>1. Init => JobInvariant
  BY JobInvariantInit DEF Init
<1>2. JobInvariant => JobOwnsItsSender
  BY DEF JobInvariant, JobOwnsItsSender, Exclusive, Owned, Served, Running, SendsFor
<1> QED BY <1>1, <1>2, JobInvariantNext, PTL DEF Spec

-----------------------------------------------------------------------------
(* The time a goroutine has for an attempt, whether the interval or the    *)
(* bound of a send is the longer.                                          *)
Slot == IF SendTimeout <= Interval THEN Interval ELSE SendTimeout
Due(k) == k * Slot

(* The attempts fall due one slot after another.                          *)
LEMMA DueAdds ==
  /\ Slot \in Nat /\ Slot >= SendTimeout /\ Due(0) = 0
  /\ \A k \in Nat : /\ Due(k) \in Nat /\ Due(k + 1) = Due(k) + Slot
                    /\ k * Interval \in Nat /\ k * Interval <= Due(k)
<1>1. Slot \in Nat /\ Slot >= SendTimeout /\ Slot >= Interval /\ Interval \in Nat
  BY ScheduleAssumption DEF Slot
<1> HIDE DEF Slot
<1>2. ASSUME NEW k \in Nat
      PROVE  /\ Due(k) \in Nat /\ Due(k + 1) = Due(k) + Slot
             /\ k * Interval \in Nat /\ k * Interval <= Due(k)
  <2>1. k * Slot \in Nat /\ k * Interval \in Nat
    BY <1>1
  <2>2. (k + 1) * Slot = k * Slot + Slot
    BY <1>1
  <2>3. k * Interval <= k * Slot
    BY <1>1
  <2> QED BY <2>1, <2>2, <2>3 DEF Due
<1> QED BY <1>1, <1>2 DEF Due

(* Division.                                                               *)
LEMMA Divides ==
  ASSUME NEW a \in Nat
  PROVE  /\ a \div Interval \in Nat
         /\ a = Interval * (a \div Interval) + (a % Interval)
         /\ a % Interval \in 0 .. (Interval - 1)
<1>1. Interval \in Nat /\ Interval > 0
  BY ScheduleAssumption
<1>2. a % Interval \in 0 .. (Interval - 1)
  BY <1>1
<1>3. a \div Interval \in Int /\ a \div Interval >= 0
  BY <1>1
<1>4. a = Interval * (a \div Interval) + (a % Interval)
  BY <1>1
<1> QED BY <1>2, <1>3, <1>4

(* Sends at most every interval within the duration.                       *)
LEMMA SendsFit ==
  /\ IsFiniteSet(SendOffsets) /\ TotalAttempts \in Nat \ {0}
  /\ Sends \in Nat /\ TotalAttempts <= Sends
  /\ (Sends - 1) * Interval <= Duration - 1
<1>1. Duration \in Nat /\ Duration > 0 /\ Interval \in Nat /\ Interval > 0
  BY ScheduleAssumption
<1>2. /\ Sends \in Nat /\ Duration + Interval - 1 \in Nat
      /\ Duration + Interval - 1 = Interval * Sends + ((Duration + Interval - 1) % Interval)
      /\ (Duration + Interval - 1) % Interval \in 0 .. (Interval - 1)
  BY <1>1, Divides DEF Sends
<1>3. Interval * Sends <= Duration + Interval - 1 /\ Interval * Sends >= Duration
  BY <1>1, <1>2
<1>4. (Sends - 1) * Interval = Interval * Sends - Interval
  BY <1>1, <1>2
<1>5. (Sends - 1) * Interval <= Duration - 1
  BY <1>1, <1>2, <1>3, <1>4
<1>6. IsFiniteSet(0 .. (Duration - 1)) /\ IsFiniteSet(0 .. (Sends - 1))
      /\ Cardinality(0 .. (Sends - 1)) = Sends
  BY <1>1, <1>2, <1>3, FS_Interval
<1>7. IsFiniteSet(SendOffsets)
  BY <1>6, FS_Subset DEF SendOffsets
<1>8. TotalAttempts \in Nat \ {0}
  <2>1. 0 \in SendOffsets
    BY <1>1 DEF SendOffsets
  <2> QED BY <1>7, <2>1, FS_CardinalityType, FS_EmptySet DEF TotalAttempts
<1>9. TotalAttempts <= Sends
  <2> DEFINE f == [at \in SendOffsets |-> at \div Interval]
  <2>1. ASSUME NEW at \in SendOffsets
        PROVE  at \in Nat /\ at = Interval * (at \div Interval) /\ at \div Interval \in 0 .. (Sends - 1)
    <3>1. at \in Nat /\ at <= Duration - 1 /\ at % Interval = 0
      BY <1>1, <2>1 DEF SendOffsets
    <3>2. at \div Interval \in Nat /\ at = Interval * (at \div Interval)
      BY <3>1, Divides, <1>1
    <3>3. PICK q \in Nat : q = at \div Interval
      BY <3>2
    <3>4. Interval * q < Interval * Sends
      BY <1>1, <1>2, <1>3, <3>1, <3>2, <3>3
    <3>5. q < Sends
      BY <1>1, <1>2, <3>4
    <3> QED BY <1>2, <3>1, <3>2, <3>3, <3>5
  <2>2. f \in Injection(SendOffsets, 0 .. (Sends - 1))
    BY <2>1 DEF Injection, IsInjective
  <2> QED BY <1>6, <2>2, FS_Injection DEF TotalAttempts
<1> QED BY <1>2, <1>5, <1>7, <1>8, <1>9

(* The last attempt ends before the longest job does.                     *)
LEMMA LastAttemptEnds ==
  ASSUME NEW k \in Nat, k < TotalAttempts
  PROVE  Due(k) + SendTimeout <= LongestJob
<1>1. k <= Sends - 1 /\ Sends \in Nat /\ (Sends - 1) * Interval <= Duration - 1
  BY SendsFit
<1>2. Interval \in Nat /\ SendTimeout \in Nat /\ Duration \in Nat
  BY ScheduleAssumption
<1>3. CASE SendTimeout <= Interval
  <2>1. k * Interval <= (Sends - 1) * Interval
    BY <1>1, <1>2
  <2> QED BY <1>1, <1>2, <1>3, <2>1 DEF Due, Slot, LongestJob
<1>4. CASE ~(SendTimeout <= Interval)
  <2>1. k * SendTimeout <= (Sends - 1) * SendTimeout
    BY <1>1, <1>2
  <2>2. (Sends - 1) * SendTimeout + SendTimeout = Sends * SendTimeout
    BY <1>1, <1>2
  <2> QED BY <1>1, <1>2, <1>4, <2>1, <2>2 DEF Due, Slot, LongestJob
<1> QED BY <1>3, <1>4

(* A goroutine is no later than its slots allow.                           *)
Pace(g) ==
  /\ g.device \in Enabled /\ g.id \in 1 .. MaxWakes /\ g.made \in 0 .. TotalAttempts
  /\ g.age \in Nat /\ g.left \in Nat
  /\ g.phase = "sending" => g.made < TotalAttempts /\ g.age + g.left <= Due(g.made) + SendTimeout
  /\ g.phase = "waiting" => g.made < TotalAttempts /\ g.age + g.left <= Due(g.made)
  /\ g.phase = "next" => g.made > 0 /\ g.age <= Due(g.made - 1) + SendTimeout

Paced == \A g \in senders : Pace(g)

Counted(j) ==
  /\ j.id \in 1 .. MaxWakes
  /\ j.sent <= j.attempts /\ j.attempts <= TotalAttempts

Counts ==
  /\ wakes \in 0 .. MaxWakes
  /\ \A d \in Devices : jobs[d] # NoJob => Counted(jobs[d])

(* JobEndsInTime bounds the age of a goroutine; what is left of its send   *)
(* or wait, and the attempts made, are what keep it bounded.               *)
TimeInvariant == Paced /\ Counts

(* The manager starts without a goroutine.                                *)
LEMMA TimeInvariantInit == InitJobs => TimeInvariant
  BY ScheduleAssumption DEF InitJobs, TimeInvariant, Paced, Counts

(* A new goroutine begins with its first send.                             *)
LEMMA NewPaces ==
  ASSUME JobInvariant, TimeInvariant, NEW d \in Devices, Wake(d)
  PROVE  Pace(NewSender(d)) /\ Counted(NewJob)
<1>1. d \in Enabled /\ wakes + 1 \in 1 .. MaxWakes
  BY ScheduleAssumption DEF Wake, TimeInvariant, Counts
<1>2. TotalAttempts \in Nat /\ TotalAttempts > 0
  BY SendsFit
<1>3. SendTimeout \in Nat /\ Due(0) = 0
  BY ScheduleAssumption, DueAdds
<1>4. Pace(NewSender(d))
  BY <1>1, <1>2, <1>3 DEF Pace, NewSender
<1>5. Counted(NewJob)
  BY <1>1, <1>2 DEF Counted, NewJob
<1> QED BY <1>4, <1>5

(* A new job starts on time.                                              *)
LEMMA WakePaces ==
  ASSUME JobInvariant, TimeInvariant, NEW d \in Devices, Wake(d)
  PROVE  TimeInvariant'
<1>1. Pace(NewSender(d)) /\ Counted(NewJob)
  BY NewPaces
<1>2. senders' = senders \cup {NewSender(d)} /\ jobs' = [jobs EXCEPT ![d] = NewJob]
  BY DEF Wake
<1>3. Paced'
  BY <1>1, <1>2 DEF TimeInvariant, Paced
<1>4. \A e \in Devices : jobs'[e] = IF e = d THEN NewJob ELSE jobs[e]
  BY <1>2 DEF JobInvariant, JobTypes
<1>5. \A e \in Devices : jobs'[e] # NoJob => Counted(jobs'[e])
  BY <1>1, <1>4 DEF TimeInvariant, Counts
<1>6. wakes' \in 0 .. MaxWakes
  BY ScheduleAssumption DEF Wake, TimeInvariant, Counts
<1> QED BY <1>3, <1>5, <1>6 DEF TimeInvariant, Counts

(* A goroutine that goes on at its pace.                                   *)
LEMMA BecomePaces ==
  ASSUME TimeInvariant, NEW g \in senders, NEW h, Become(g, h), Pace(h),
         UNCHANGED <<jobs, wakes>>
  PROVE  TimeInvariant'
  BY DEF TimeInvariant, Paced, Counts, Become

(* An attempt that ends in time starts the wait for the next one.         *)
LEMMA AttemptPaces ==
  ASSUME JobInvariant, TimeInvariant, NEW g \in senders, NEW ok \in BOOLEAN, Attempt(g, ok)
  PROVE  TimeInvariant'
<1> DEFINE d == g.device
           s == IF ok THEN jobs[d].sent + 1 ELSE jobs[d].sent
           j == [jobs[d] EXCEPT !.attempts = @ + 1, !.sent = s]
           h == [g EXCEPT !.phase = "next", !.made = @ + 1]
<1>1. g \in Senders /\ Pace(g) /\ g.phase = "sending"
  BY DEF JobInvariant, JobTypes, TimeInvariant, Paced, Attempt
<1>2. d \in Devices /\ jobs[d] \in Jobs /\ jobs[d].attempts = g.made /\ jobs[d] # NoJob
  BY <1>1 DEF Senders, JobInvariant, JobTypes, Owned, Running, SendsFor
<1>3. TotalAttempts \in Nat /\ g.made \in Nat /\ g.made < TotalAttempts
  BY <1>1, SendsFit DEF Pace, Senders
<1>4. Pace(h)
  <2>1. /\ h.device = g.device /\ h.id = g.id /\ h.age = g.age /\ h.left = g.left
        /\ h.phase = "next" /\ h.made = g.made + 1
    BY <1>1 DEF Senders
  <2>2. Due(g.made) \in Nat /\ SendTimeout \in Nat
    BY <1>3, DueAdds, ScheduleAssumption
  <2>3. g.age <= Due(g.made) + SendTimeout
    BY <1>1, <2>2 DEF Pace
  <2>4. h.made \in 0 .. TotalAttempts /\ h.made > 0 /\ h.made - 1 = g.made
    BY <1>3, <2>1
  <2> QED BY <1>1, <2>1, <2>3, <2>4 DEF Pace
<1>5. Counted(j)
  <2>1. jobs[d].sent \in Nat /\ jobs[d].attempts \in Nat
    BY <1>2 DEF Jobs
  <2>2. s \in Nat /\ s <= jobs[d].sent + 1
    BY <2>1
  <2>3. j.id = jobs[d].id /\ j.sent = s /\ j.attempts = jobs[d].attempts + 1
    BY <1>2 DEF Jobs
  <2> HIDE DEF j, s
  <2>4. Counted(jobs[d])
    BY <1>2 DEF TimeInvariant, Counts
  <2> QED BY <1>2, <1>3, <2>1, <2>2, <2>3, <2>4 DEF Counted
<1>6. /\ jobs' = [jobs EXCEPT ![g.device].attempts = @ + 1, ![g.device].sent = IF ok THEN @ + 1 ELSE @]
      /\ senders' = (senders \ {g}) \cup {h} /\ wakes' = wakes
  BY DEF Attempt, Become
<1>7. jobs'[d] = j /\ \A e \in Devices \ {d} : jobs'[e] = jobs[e]
  BY <1>2, <1>6 DEF JobInvariant, JobTypes, Jobs
<1> HIDE DEF j, h, d
<1>8. Paced'
  BY <1>4, <1>6 DEF TimeInvariant, Paced
<1>9. Counts'
  BY <1>5, <1>6, <1>7 DEF TimeInvariant, Counts
<1> QED BY <1>8, <1>9 DEF TimeInvariant

(* A wait ends when the next attempt is due, and one that is late begins   *)
(* before the slot of the attempt after it.                                *)
LEMMA ContinuePaces ==
  ASSUME JobInvariant, TimeInvariant, NEW g \in senders, Continue(g)
  PROVE  TimeInvariant'
<1> DEFINE wait == Offset(g) - g.age
           w == [g EXCEPT !.phase = "waiting", !.left = wait]
           n == [g EXCEPT !.phase = "sending", !.left = SendTimeout]
<1>1. g \in Senders /\ Pace(g) /\ g.phase = "next" /\ g.made < TotalAttempts
  BY DEF JobInvariant, JobTypes, TimeInvariant, Paced, Continue
<1>2. g.made \in Nat /\ g.made > 0 /\ g.made - 1 \in Nat /\ g.age \in Nat /\ SendTimeout \in Nat
  BY <1>1, ScheduleAssumption DEF Senders, Pace
<1>3. Due(g.made) \in Nat /\ Due(g.made) = Due(g.made - 1) + Slot /\ Due(g.made - 1) \in Nat
  <2>1. PICK k \in Nat : k = g.made - 1
    BY <1>2
  <2>2. g.made = k + 1
    BY <1>2, <2>1
  <2> QED BY <1>2, <2>1, <2>2, DueAdds
<1>4. g.age <= Due(g.made)
  <2>1. g.age <= Due(g.made - 1) + SendTimeout
    BY <1>1 DEF Pace
  <2>2. SendTimeout <= Slot /\ Slot \in Nat
    BY DueAdds
  <2> QED BY <1>2, <1>3, <2>1, <2>2
<1>5. Offset(g) \in Nat /\ Offset(g) <= Due(g.made)
  BY <1>2, DueAdds DEF Offset
<1>6. ASSUME wait > 0
      PROVE  Pace(w)
  <2>1. /\ w.device = g.device /\ w.id = g.id /\ w.made = g.made /\ w.age = g.age
        /\ w.phase = "waiting" /\ w.left = wait
    BY <1>1 DEF Senders
  <2>2. wait \in Nat /\ g.age + wait <= Due(g.made)
    BY <1>2, <1>3, <1>5, <1>6
  <2> QED BY <1>1, <2>1, <2>2 DEF Pace
<1>7. Pace(n)
  <2>1. /\ n.device = g.device /\ n.id = g.id /\ n.made = g.made /\ n.age = g.age
        /\ n.phase = "sending" /\ n.left = SendTimeout
    BY <1>1 DEF Senders
  <2>2. g.age + SendTimeout <= Due(g.made) + SendTimeout
    BY <1>2, <1>3, <1>4
  <2> QED BY <1>1, <1>2, <2>1, <2>2 DEF Pace
<1>8. UNCHANGED <<jobs, wakes>> /\ ((Become(g, w) /\ wait > 0) \/ Become(g, n))
  BY DEF Continue
<1> HIDE DEF w, n, wait
<1> QED BY <1>6, <1>7, <1>8, BecomePaces

(* The timer starts the next attempt when it is due.                      *)
LEMMA TimerPaces ==
  ASSUME JobInvariant, TimeInvariant, NEW g \in senders, TimerFires(g)
  PROVE  TimeInvariant'
<1> DEFINE n == [g EXCEPT !.phase = "sending", !.left = SendTimeout]
<1>1. g \in Senders /\ Pace(g) /\ g.phase = "waiting" /\ g.left = 0
  BY DEF JobInvariant, JobTypes, TimeInvariant, Paced, TimerFires
<1>2. g.made \in Nat /\ Due(g.made) \in Nat /\ SendTimeout \in Nat /\ g.age \in Nat
  BY <1>1, ScheduleAssumption, DueAdds DEF Senders, Pace
<1>3. g.age + SendTimeout <= Due(g.made) + SendTimeout
  BY <1>1, <1>2 DEF Pace
<1>4. /\ n.device = g.device /\ n.id = g.id /\ n.made = g.made /\ n.age = g.age
      /\ n.phase = "sending" /\ n.left = SendTimeout
  BY <1>1 DEF Senders
<1>5. Pace(n)
  BY <1>1, <1>2, <1>3, <1>4 DEF Pace
<1>6. UNCHANGED <<jobs, wakes>> /\ Become(g, n)
  BY DEF TimerFires
<1> HIDE DEF n
<1> QED BY <1>5, <1>6, BecomePaces

(* A job that ends leaves the others as they are.                         *)
LEMMA EndPaces ==
  ASSUME JobInvariant, TimeInvariant, NEW g \in senders, NEW outcome, End(g, outcome)
  PROVE  TimeInvariant'
<1> DEFINE d == g.device
<1>1. d \in Devices /\ jobs[d] \in Jobs /\ Counted(jobs[d])
  BY DEF JobInvariant, JobTypes, Owned, Running, Senders, TimeInvariant, Counts
<1>2. jobs'[d] = [jobs[d] EXCEPT !.state = outcome]
  BY <1>1 DEF End, JobInvariant, JobTypes
<1>3. Counted(jobs'[d])
  BY <1>1, <1>2 DEF Jobs, Counted
<1>4. \A e \in Devices \ {d} : jobs'[e] = jobs[e]
  BY <1>1 DEF End, JobInvariant, JobTypes
<1>5. Paced' /\ wakes' = wakes
  BY DEF End, TimeInvariant, Paced
<1> QED BY <1>3, <1>4, <1>5 DEF TimeInvariant, Counts

(* Time passes only as far as every goroutine's current wait allows.      *)
LEMMA TimePassesPaces ==
  ASSUME JobInvariant, TimeInvariant, TimePasses
  PROVE  TimeInvariant'
<1> DEFINE Older(g) == [g EXCEPT !.age = @ + 1, !.left = @ - 1]
<1>1. senders' = {Older(g) : g \in senders} /\ UNCHANGED <<jobs, wakes>>
  BY DEF TimePasses
<1>2. ASSUME NEW g \in senders
      PROVE  Pace(Older(g))
  <2>1. g \in Senders /\ Pace(g) /\ g.left > 0 /\ g.phase # "next"
    BY DEF JobInvariant, JobTypes, TimeInvariant, Paced, TimePasses
  <2>2. /\ Older(g).device = g.device /\ Older(g).id = g.id /\ Older(g).made = g.made
        /\ Older(g).phase = g.phase /\ Older(g).age = g.age + 1 /\ Older(g).left = g.left - 1
    BY <2>1 DEF Senders
  <2>3. g.age \in Nat /\ g.left \in Nat
    BY <2>1 DEF Pace
  <2>4. g.age + 1 \in Nat /\ g.left - 1 \in Nat /\ (g.age + 1) + (g.left - 1) = g.age + g.left
    BY <2>1, <2>3
  <2> HIDE DEF Older
  <2> QED BY <2>1, <2>2, <2>4 DEF Pace
<1> HIDE DEF Older
<1>3. Paced'
  BY <1>1, <1>2 DEF Paced
<1> QED BY <1>1, <1>3 DEF TimeInvariant, Counts

(* Every step keeps the pace.                                             *)
LEMMA TimeInvariantNext == JobInvariant /\ TimeInvariant /\ [Next]_vars => TimeInvariant'
<1> SUFFICES ASSUME JobInvariant, TimeInvariant, JobStep
             PROVE  TimeInvariant'
  BY NextIsJobStep
<1>1. ASSUME NEW d \in Devices, Wake(d)
      PROVE  TimeInvariant'
  BY <1>1, WakePaces
<1>2. ASSUME NEW g \in senders, Run(g)
      PROVE  TimeInvariant'
  <2>1. ASSUME NEW ok \in BOOLEAN, Attempt(g, ok)
        PROVE  TimeInvariant'
    BY <2>1, AttemptPaces
  <2>2. CASE Continue(g)
    BY <2>2, ContinuePaces
  <2>3. CASE TimerFires(g)
    BY <2>3, TimerPaces
  <2>4. CASE Finish(g)
    BY <2>4, EndPaces DEF Finish
  <2>5. CASE FinishCancelled(g)
    BY <2>5, EndPaces DEF FinishCancelled
  <2> QED BY <1>2, <2>1, <2>2, <2>3, <2>4, <2>5 DEF Run
<1>3. CASE TimePasses
  BY <1>3, TimePassesPaces
<1>4. CASE UNCHANGED <<jobs, senders, wakes>>
  BY <1>4 DEF TimeInvariant, Paced, Counts
<1> QED BY <1>1, <1>2, <1>3, <1>4 DEF JobStep

(* A goroutine on time is within the bounds of a job.                     *)
LEMMA PaceBounds ==
  ASSUME NEW g \in Senders, Pace(g)
  PROVE  g.age <= LongestJob /\ g.made <= Sends
<1>1. g.age \in Nat /\ g.left \in Nat /\ g.made \in Nat /\ SendTimeout \in Nat
  BY ScheduleAssumption DEF Pace, Senders
<1>2. TotalAttempts \in Nat /\ Sends \in Nat /\ TotalAttempts <= Sends
  BY SendsFit
<1>3. g.made <= Sends
  BY <1>1, <1>2 DEF Pace
<1>4. PICK k \in Nat : k < TotalAttempts /\ g.age <= Due(k) + SendTimeout
  <2>1. Due(g.made) \in Nat
    BY <1>1, DueAdds
  <2>2. CASE g.phase = "next"
    <3>1. g.made - 1 \in Nat /\ g.made - 1 < TotalAttempts
      BY <1>1, <1>2, <2>2 DEF Pace
    <3> QED BY <2>2, <3>1 DEF Pace
  <2>3. CASE g.phase \in {"sending", "waiting"}
    BY <1>1, <1>2, <2>1, <2>3 DEF Pace
  <2> QED BY <2>2, <2>3 DEF Senders
<1>5. Due(k) \in Nat /\ Due(k) + SendTimeout <= LongestJob
  BY <1>4, DueAdds, LastAttemptEnds
<1>6. LongestJob \in Int
  BY <1>2, ScheduleAssumption DEF LongestJob
<1> QED BY <1>1, <1>3, <1>4, <1>5, <1>6

(* However slow its sends, a job ends within the duration and the bound of *)
(* its last send, or within the bounds of its sends (Manager.run).         *)
THEOREM JobsEndInTime == Spec => []JobEndsInTime
<1>1. Init => JobInvariant /\ TimeInvariant
  BY JobInvariantInit, TimeInvariantInit DEF Init
<1>2. JobInvariant /\ TimeInvariant => JobEndsInTime
  BY PaceBounds DEF JobInvariant, JobTypes, TimeInvariant, Paced, JobEndsInTime
<1> QED BY <1>1, <1>2, JobInvariantNext, TimeInvariantNext, PTL DEF Spec

-----------------------------------------------------------------------------
(* What the handlers are about: a source's reading, a wake, the jobs.      *)
JobEvents == [key : Devices, value : Outcomes \cup {"running"}]

SourceReads == [phase : {"observe", "record"},
                todo : {<<Event(s, v)>> : s \in Sources, v \in Readings}]
WakeMarks   == [phase : {"mark", "record"},
                todo : {<<Event(d, "started")>> : d \in Devices}]
JobReads    == {r \in [phase : {"observe", "record"}, todo : Seq(JobEvents)] :
                  /\ r.todo # <<>>
                  /\ r.phase = "record" => Head(r.todo).value # "running"}

RequestSet == {Idle} \cup SourceReads \cup WakeMarks \cup JobReads

HandlerTypes ==
  /\ world \in [Sources -> Readings] /\ changes \in 0 .. MaxChanges
  /\ requests \in [Clients -> RequestSet]
  /\ log \in [Events -> Nat]
  /\ remembered \in [Keys -> Readings \cup Outcomes \cup {"running", NoReading}]
  /\ \A s \in Sources : remembered[s] \in Readings \cup {NoReading}
  /\ \A d \in Devices : remembered[d] \in Outcomes \cup {"running", NoReading}
  /\ polled \in SUBSET [key : Devices, value : Outcomes]

(* The handler of r records e next; it has e ahead; it marks d as running. *)
Records(r, e) == r.phase = "record" /\ Head(r.todo) = e
Ahead(r, e)   == \E i \in 1 .. Len(r.todo) : r.todo[i] = e
Marks(r, d)   == r.phase = "mark" /\ r.todo = <<Event(d, "started")>>

Marking(d) == \E c \in Clients : Marks(requests[c], d)

(* A remembered outcome is recorded since the wake, or about to be, or is  *)
(* an earlier job's, which the wake is about to replace.                   *)
OutcomesKept ==
  \A d \in Devices, v \in Outcomes :
    remembered[d] = v => \/ Event(d, v) \in reported
                         \/ \E c \in Clients : Records(requests[c], Event(d, v))
                         \/ Marking(d)

(* What was polled is recorded, or ahead of a handler that finds it        *)
(* unremembered, or remembered as OutcomesKept has it.                     *)
PolledKept ==
  \A e \in polled :
    /\ ~Marking(e.key)
    /\ e \in reported \/ \E c \in Clients : Ahead(requests[c], e)

ReadingsKept ==
  \A s \in Sources :
    remembered[s] # NoReading =>
      \/ log[Event(s, remembered[s])] > 0
      \/ \E c \in Clients : Records(requests[c], Event(s, remembered[s]))

(* Only the reading remembered may be one ahead of the others.             *)
Succession ==
  \A s \in Sources, v \in Readings :
    Recorded(s, {v}) <= Recorded(s, Readings \ {v}) + (IF remembered[s] = v THEN 1 ELSE 0)

HandlerInvariant == HandlerTypes /\ OutcomesKept /\ PolledKept /\ ReadingsKept /\ Succession

(* An event is its key and its value.                                     *)
LEMMA EventParts == \A k, v, l, w : Event(k, v) = Event(l, w) <=> k = l /\ v = w
  BY DEF Event

(* A handler has something to do unless it is idle.                        *)
LEMMA IdleDoesNothing ==
  \A e, d : ~Records(Idle, e) /\ ~Ahead(Idle, e) /\ ~Marks(Idle, d)
  BY DEF Idle, Records, Ahead, Marks

(* A handler that has read something has an event at hand.                *)
LEMMA ReadHead ==
  ASSUME NEW r \in SourceReads \cup JobReads
  PROVE  /\ r.todo # <<>> /\ r.phase \in {"observe", "record"}
         /\ r = [phase |-> r.phase, todo |-> r.todo]
         /\ \/ \E s \in Sources, v \in Readings : r.todo = <<Event(s, v)>> /\ Head(r.todo) = Event(s, v)
            \/ Head(r.todo) \in JobEvents
         /\ Head(r.todo) = r.todo[1] /\ Ahead(r, Head(r.todo))
<1>1. CASE r \in SourceReads
  <2>1. PICK s \in Sources, v \in Readings : r.todo = <<Event(s, v)>>
    BY <1>1 DEF SourceReads
  <2>2. r.todo # <<>> /\ Head(r.todo) = Event(s, v) /\ r.todo[1] = Event(s, v) /\ Len(r.todo) = 1
    BY <2>1
  <2>3. r.phase \in {"observe", "record"} /\ r = [phase |-> r.phase, todo |-> r.todo]
    BY <1>1 DEF SourceReads
  <2> QED BY <2>1, <2>2, <2>3 DEF Ahead
<1>2. CASE r \in JobReads
  <2>1. /\ r.todo \in Seq(JobEvents) /\ r.todo # <<>>
        /\ r.phase \in {"observe", "record"} /\ r = [phase |-> r.phase, todo |-> r.todo]
    BY <1>2 DEF JobReads
  <2>2. Head(r.todo) \in JobEvents /\ Head(r.todo) = r.todo[1] /\ Len(r.todo) \in Nat /\ Len(r.todo) >= 1
    BY <2>1
  <2> QED BY <2>1, <2>2 DEF Ahead
<1> QED BY <1>1, <1>2

(* Only those that read something observe.                                 *)
LEMMA ObserversRead ==
  ASSUME NEW r \in RequestSet, r.phase = "observe"
  PROVE  r \in SourceReads \cup JobReads
  BY DEF RequestSet, Idle, WakeMarks

(* A handler that marks has just started a job.                           *)
LEMMA MarkersWake ==
  ASSUME NEW r \in RequestSet, r.phase = "mark"
  PROVE  \E d \in Devices : r = [phase |-> "mark", todo |-> <<Event(d, "started")>>]
  BY DEF RequestSet, Idle, SourceReads, JobReads, WakeMarks

(* What a handler that has dealt with the first of what it read goes on to. *)
After(r) == IF Tail(r.todo) = <<>> THEN Idle ELSE [phase |-> "observe", todo |-> Tail(r.todo)]

(* It records nothing at once, and leaves out only the event it has       *)
(* dealt with.                                                            *)
LEMMA AfterGoesOn ==
  ASSUME NEW r \in RequestSet, r.phase \in {"observe", "record"}
  PROVE  /\ After(r) \in RequestSet
         /\ \A e : ~Records(After(r), e)
         /\ \A d : ~Marks(After(r), d)
         /\ \A e : Ahead(r, e) => e = Head(r.todo) \/ Ahead(After(r), e)
<1>1. \A e, d : ~Records(After(r), e) /\ ~Marks(After(r), d)
  BY IdleDoesNothing DEF After, Records, Marks
<1>2. CASE r \in SourceReads \cup WakeMarks
  <2>1. PICK f : r.todo = <<f>>
    BY <1>2 DEF SourceReads, WakeMarks
  <2>2. Tail(r.todo) = <<>> /\ Head(r.todo) = f /\ Len(r.todo) = 1 /\ r.todo[1] = f
    BY <2>1
  <2>3. After(r) = Idle
    BY <2>2 DEF After
  <2>4. \A e : Ahead(r, e) => e = Head(r.todo)
    BY <2>2 DEF Ahead
  <2> QED BY <1>1, <2>3, <2>4 DEF RequestSet
<1>3. CASE r \in JobReads
  <2>1. r.todo \in Seq(JobEvents) /\ r.todo # <<>>
    BY <1>3 DEF JobReads
  <2>2. /\ Tail(r.todo) \in Seq(JobEvents) /\ Len(Tail(r.todo)) = Len(r.todo) - 1
        /\ Head(r.todo) = r.todo[1] /\ Len(r.todo) \in Nat
        /\ \A i \in 1 .. Len(Tail(r.todo)) : Tail(r.todo)[i] = r.todo[i + 1]
    BY <2>1
  <2>3. ASSUME NEW e, Ahead(r, e), e # Head(r.todo)
        PROVE  \E i \in 1 .. Len(Tail(r.todo)) : Tail(r.todo)[i] = e
    <3>1. PICK i \in 1 .. Len(r.todo) : r.todo[i] = e
      BY <2>3 DEF Ahead
    <3>2. i # 1 /\ i - 1 \in 1 .. Len(Tail(r.todo)) /\ (i - 1) + 1 = i
      BY <2>2, <2>3, <3>1
    <3> QED BY <2>2, <3>1, <3>2
  <2>4. CASE Tail(r.todo) = <<>>
    <3>1. \A e : Ahead(r, e) => e = Head(r.todo)
      <4> SUFFICES ASSUME NEW e, Ahead(r, e), e # Head(r.todo)
                   PROVE  FALSE
        OBVIOUS
      <4>1. PICK i \in 1 .. Len(Tail(r.todo)) : Tail(r.todo)[i] = e
        BY <2>3
      <4>2. Len(<<>>) = 0
        OBVIOUS
      <4> QED BY <2>4, <4>1, <4>2
    <3>2. After(r) \in RequestSet
      BY <2>4 DEF After, RequestSet
    <3> QED BY <1>1, <3>1, <3>2
  <2>5. CASE Tail(r.todo) # <<>>
    <3>1. After(r) = [phase |-> "observe", todo |-> Tail(r.todo)]
      BY <2>5 DEF After
    <3>2. After(r) \in JobReads
      BY <2>2, <2>5, <3>1 DEF JobReads
    <3>3. \A e : Ahead(r, e) => e = Head(r.todo) \/ Ahead(After(r), e)
      BY <2>3, <3>1 DEF Ahead
    <3> QED BY <1>1, <3>2, <3>3 DEF RequestSet
  <2> QED BY <2>4, <2>5
<1> QED BY <1>2, <1>3 DEF RequestSet, Idle

(* A handler that found a change records it.                               *)
Recording(r) == [phase |-> "record", todo |-> r.todo]

(* It has still everything ahead that it had.                             *)
LEMMA RecordingGoesOn ==
  ASSUME NEW r \in SourceReads \cup JobReads, Head(r.todo).value # "running"
  PROVE  /\ Recording(r) \in RequestSet
         /\ Records(Recording(r), Head(r.todo))
         /\ \A d : ~Marks(Recording(r), d)
         /\ \A e : Ahead(r, e) => Ahead(Recording(r), e)
<1>1. Recording(r) \in RequestSet
  BY DEF Recording, RequestSet, SourceReads, JobReads
<1> QED BY <1>1 DEF Recording, Records, Marks, Ahead

(* A handler that records a source's reading has nothing else to do.       *)
LEMMA SourceRecords ==
  ASSUME NEW r \in RequestSet, NEW s \in Sources, NEW v
  PROVE  Records(r, Event(s, v)) <=> (v \in Readings /\ r = [phase |-> "record", todo |-> <<Event(s, v)>>])
<1>1. Records([phase |-> "record", todo |-> <<Event(s, v)>>], Event(s, v))
  BY DEF Records
<1>2. ASSUME Records(r, Event(s, v))
      PROVE  v \in Readings /\ r = [phase |-> "record", todo |-> <<Event(s, v)>>]
  <2>1. r.phase = "record" /\ Head(r.todo) = Event(s, v) /\ s \notin Devices
    BY <1>2, KeysAssumption DEF Records
  <2>2. r # Idle
    BY <2>1 DEF Idle
  <2>3. r \notin WakeMarks
    <3> SUFFICES ASSUME r \in WakeMarks
                 PROVE  FALSE
      OBVIOUS
    <3>1. PICK d \in Devices : r.todo = <<Event(d, "started")>>
      BY DEF WakeMarks
    <3> QED BY <2>1, <3>1 DEF Event
  <2>4. r \notin JobReads
    <3> SUFFICES ASSUME r \in JobReads
                 PROVE  FALSE
      OBVIOUS
    <3>1. Head(r.todo) \in JobEvents
      BY DEF JobReads
    <3> QED BY <2>1, <3>1 DEF Event, JobEvents
  <2>5. r \in SourceReads
    BY <2>2, <2>3, <2>4 DEF RequestSet
  <2>6. PICK t \in Sources, w \in Readings : r.todo = <<Event(t, w)>>
    BY <2>5 DEF SourceReads
  <2>7. Event(t, w) = Event(s, v)
    BY <2>1, <2>6
  <2> QED BY <2>1, <2>5, <2>6, <2>7, EventParts DEF SourceReads
<1> QED BY <1>1, <1>2

-----------------------------------------------------------------------------
(* The two parts of Recorded.                                              *)
Entries(l, s, vs)  == UNION {{v} \X (1 .. l[Event(s, v)]) : v \in vs}
Recorders(q, s, vs) ==
  {c \in Clients : \E v \in vs : q[c] = [phase |-> "record", todo |-> <<Event(s, v)>>]}

(* A reading of a source is an event.                                     *)
LEMMA SourceEvent == \A s \in Sources, v \in Readings : Event(s, v) \in Events
  BY DEF Event, Events, Keys

(* The entries of the log can be counted.                                 *)
LEMMA EntriesFinite ==
  ASSUME NEW l \in [Events -> Nat], NEW s \in Sources, NEW vs \in SUBSET Readings
  PROVE  IsFiniteSet(Entries(l, s, vs)) /\ Cardinality(Entries(l, s, vs)) \in Nat
<1> DEFINE F(v) == {v} \X (1 .. l[Event(s, v)])
           P == {F(v) : v \in vs}
           f == [v \in vs |-> F(v)]
<1>1. IsFiniteSet(vs)
  BY BoundsAssumption, FS_Subset
<1>2. ASSUME NEW v \in vs
      PROVE  IsFiniteSet(F(v))
  <2>1. l[Event(s, v)] \in Nat
    BY SourceEvent
  <2>2. IsFiniteSet(1 .. l[Event(s, v)])
    BY <2>1, FS_Interval
  <2>3. IsFiniteSet({v})
    BY FS_Singleton
  <2> QED BY <2>2, <2>3, FS_Product
<1>3. Entries(l, s, vs) = UNION P
  BY DEF Entries
<1> HIDE DEF F
<1>4. \A x \in P : IsFiniteSet(x)
  BY <1>2
<1>5. f \in Surjection(vs, P)
  BY DEF Surjection
<1> HIDE DEF P, f
<1>6. IsFiniteSet(P)
  BY <1>1, <1>5, FS_Surjection
<1>7. IsFiniteSet(UNION P)
  BY <1>4, <1>6, FS_UNION
<1> QED BY <1>3, <1>7, FS_CardinalityType

(* An entry more counts for the reading it records and no other.          *)
LEMMA EntryAdded ==
  ASSUME NEW l \in [Events -> Nat], NEW s \in Sources, NEW vs \in SUBSET Readings, NEW e \in Events,
         NEW m \in [Events -> Nat], \A f \in Events : m[f] = IF f = e THEN l[f] + 1 ELSE l[f]
  PROVE  /\ (\E v \in vs : e = Event(s, v)) =>
              Cardinality(Entries(m, s, vs)) = Cardinality(Entries(l, s, vs)) + 1
         /\ ~(\E v \in vs : e = Event(s, v)) =>
              Cardinality(Entries(m, s, vs)) = Cardinality(Entries(l, s, vs))
<1>1. IsFiniteSet(Entries(l, s, vs)) /\ Cardinality(Entries(l, s, vs)) \in Nat
  BY EntriesFinite
<1>2. \A v \in vs : m[Event(s, v)] = IF e = Event(s, v) THEN l[Event(s, v)] + 1 ELSE l[Event(s, v)]
  BY SourceEvent
<1>3. CASE \E v \in vs : e = Event(s, v)
  <2>1. PICK v \in vs : e = Event(s, v)
    BY <1>3
  <2> DEFINE x == <<v, l[e] + 1>>
  <2>2. l[e] \in Nat /\ x \notin Entries(l, s, vs)
    <3>1. ASSUME NEW w \in vs, x \in {w} \X (1 .. l[Event(s, w)])
          PROVE  FALSE
      <4>1. w = v /\ l[e] + 1 \in 1 .. l[Event(s, w)]
        BY <3>1
      <4> QED BY <2>1, <4>1
    <3> QED BY <3>1 DEF Entries
  <2>3. \A w \in vs : e = Event(s, w) <=> w = v
    BY <2>1, EventParts
  <2>4. ASSUME NEW w \in vs, w # v
        PROVE  1 .. m[Event(s, w)] = 1 .. l[Event(s, w)]
    BY <1>2, <2>3, <2>4
  <2>5. 1 .. m[Event(s, v)] = (1 .. l[Event(s, v)]) \cup {l[e] + 1}
    <3>1. m[Event(s, v)] = l[e] + 1 /\ l[Event(s, v)] = l[e]
      BY <1>2, <2>1
    <3> QED BY <2>2, <3>1
  <2>6. Entries(m, s, vs) = Entries(l, s, vs) \cup {x}
    <3>1. \A y : y \in Entries(m, s, vs) <=> \E w \in vs : y \in {w} \X (1 .. m[Event(s, w)])
      BY DEF Entries
    <3>2. \A y : y \in Entries(l, s, vs) <=> \E w \in vs : y \in {w} \X (1 .. l[Event(s, w)])
      BY DEF Entries
    <3>3. \A y : y \in {v} \X (1 .. m[Event(s, v)]) <=> y \in {v} \X (1 .. l[Event(s, v)]) \/ y = x
      BY <2>5
    <3> HIDE DEF x
    <3> QED BY <2>4, <3>1, <3>2, <3>3
  <2> HIDE DEF x
  <2> QED BY <1>1, <1>3, <2>2, <2>6, FS_AddElement
<1>4. CASE ~\E v \in vs : e = Event(s, v)
  <2>1. Entries(m, s, vs) = Entries(l, s, vs)
    BY <1>2, <1>4 DEF Entries
  <2> QED BY <1>1, <1>4, <2>1
<1> QED BY <1>3, <1>4

(* The handlers that record can be counted.                               *)
LEMMA RecordersFinite ==
  ASSUME NEW q, NEW s, NEW vs
  PROVE  IsFiniteSet(Recorders(q, s, vs)) /\ Cardinality(Recorders(q, s, vs)) \in Nat
<1>1. Recorders(q, s, vs) \in SUBSET Clients
  BY DEF Recorders
<1>2. IsFiniteSet(Recorders(q, s, vs))
  BY <1>1, BoundsAssumption, FS_Subset
<1> QED BY <1>2, FS_CardinalityType

-----------------------------------------------------------------------------
(* The handlers' steps.  A handler that reads or marks records nothing.    *)
Silent(r) == \A s \in Sources, v \in Readings : r # [phase |-> "record", todo |-> <<Event(s, v)>>]

(* While neither recorder nor log changes, the count does not.            *)
LEMMA RecordedKept ==
  ASSUME HandlerTypes, NEW c \in Clients, NEW r, Silent(requests[c]), Silent(r),
         requests' = [requests EXCEPT ![c] = r], log' = log,
         NEW s \in Sources, NEW vs \in SUBSET Readings
  PROVE  Recorded(s, vs)' = Recorded(s, vs)
<1>1. requests \in [Clients -> RequestSet] /\ c \notin Recorders(requests, s, vs)
  BY DEF HandlerTypes, Recorders, Silent
<1>2. \A v \in vs : r # [phase |-> "record", todo |-> <<Event(s, v)>>]
  BY DEF Silent
<1>3. Recorders(requests', s, vs) = Recorders(requests, s, vs)
  BY <1>1, <1>2 DEF Recorders
<1> QED BY <1>3 DEF Recorded, Entries, Recorders

(* A handler of another phase records nothing.                            *)
LEMMA NotRecordingIsSilent == \A r : r.phase # "record" => Silent(r)
  BY DEF Silent

(* Nor then the succession of changes.                                    *)
LEMMA SuccessionKept ==
  ASSUME HandlerTypes, Succession, NEW c \in Clients, NEW r, Silent(requests[c]), Silent(r),
         requests' = [requests EXCEPT ![c] = r], log' = log,
         \A s \in Sources : remembered'[s] = remembered[s]
  PROVE  Succession'
<1> SUFFICES ASSUME NEW s \in Sources, NEW v \in Readings
             PROVE  (Recorded(s, {v}) <= Recorded(s, Readings \ {v}) + (IF remembered[s] = v THEN 1 ELSE 0))'
  BY DEF Succession
<1>1. Recorded(s, {v})' = Recorded(s, {v}) /\ Recorded(s, Readings \ {v})' = Recorded(s, Readings \ {v})
  BY RecordedKept
<1>2. Recorded(s, {v}) <= Recorded(s, Readings \ {v}) + (IF remembered[s] = v THEN 1 ELSE 0)
  BY DEF Succession
<1> QED BY <1>1, <1>2

(* A step of the world or of a job is none of the handlers'.              *)
LEMMA QuietHandlers ==
  ASSUME HandlerInvariant, UNCHANGED <<remembered, requests, log, polled, reported>>,
         world' \in [Sources -> Readings], changes' \in 0 .. MaxChanges
  PROVE  HandlerInvariant'
<1>1. HandlerTypes'
  BY DEF HandlerInvariant, HandlerTypes
<1>2. OutcomesKept' /\ PolledKept' /\ ReadingsKept'
  BY DEF HandlerInvariant, OutcomesKept, PolledKept, ReadingsKept, Marking
<1>3. Succession'
  BY DEF HandlerInvariant, Succession, Recorded
<1> QED BY <1>1, <1>2, <1>3 DEF HandlerInvariant

(* A request that begins to read.                                          *)
LEMMA ReadKeeps ==
  ASSUME HandlerInvariant, NEW c \in Clients, NEW r \in SourceReads \cup JobReads, r.phase = "observe",
         requests[c] = Idle, requests' = [requests EXCEPT ![c] = r],
         UNCHANGED <<world, changes, remembered, log, reported>>,
         polled' \in SUBSET [key : Devices, value : Outcomes],
         \A e \in polled' \ polled : ~Marking(e.key) /\ Ahead(r, e)
  PROVE  HandlerInvariant'
<1>1. /\ requests'[c] = r /\ r \in RequestSet
      /\ \A b \in Clients \ {c} : requests'[b] = requests[b]
      /\ requests' \in [Clients -> RequestSet]
  BY DEF HandlerInvariant, HandlerTypes, RequestSet
<1>2. \A e, d : ~Records(r, e) /\ ~Marks(r, d) /\ ~Records(requests[c], e) /\ ~Marks(requests[c], d)
                /\ ~Ahead(requests[c], e)
  BY IdleDoesNothing DEF Records, Marks
<1>3. HandlerTypes'
  BY <1>1 DEF HandlerInvariant, HandlerTypes
<1>4. \A e : (\E b \in Clients : Records(requests[b], e)) => \E b \in Clients : Records(requests'[b], e)
  BY <1>1, <1>2
<1>5. \A d : Marking(d)' <=> Marking(d)
  BY <1>1, <1>2 DEF Marking
<1>6. OutcomesKept'
  BY <1>4, <1>5 DEF HandlerInvariant, OutcomesKept
<1>7. PolledKept'
  <2> SUFFICES ASSUME NEW e \in polled'
               PROVE  ~Marking(e.key)' /\ (e \in reported \/ \E b \in Clients : Ahead(requests'[b], e))
    BY DEF PolledKept
  <2>1. CASE e \in polled
    BY <1>1, <1>2, <1>5, <2>1 DEF HandlerInvariant, PolledKept
  <2>2. CASE e \notin polled
    BY <1>1, <1>5, <2>2
  <2> QED BY <2>1, <2>2
<1>8. ReadingsKept'
  BY <1>4 DEF HandlerInvariant, ReadingsKept
<1>9. Silent(requests[c]) /\ Silent(r)
  BY NotRecordingIsSilent DEF Idle
<1>10. Succession'
  BY <1>9, SuccessionKept DEF HandlerInvariant
<1> QED BY <1>3, <1>6, <1>7, <1>8, <1>10 DEF HandlerInvariant

(* A handler reads a source and records nothing yet.                      *)
LEMMA ReadSourceKeeps ==
  ASSUME HandlerInvariant, NEW c \in Clients, NEW s \in Sources, ReadSource(c, s)
  PROVE  HandlerInvariant'
<1> DEFINE r == [phase |-> "observe", todo |-> <<Event(s, world[s])>>]
<1>1. world[s] \in Readings
  BY DEF HandlerInvariant, HandlerTypes
<1>2. r \in SourceReads /\ r.phase = "observe"
  BY <1>1 DEF SourceReads
<1>3. /\ requests[c] = Idle /\ requests' = [requests EXCEPT ![c] = r]
      /\ UNCHANGED <<world, changes, remembered, log, reported, polled>>
  BY DEF ReadSource, Asks, history
<1> HIDE DEF r
<1>4. polled' \in SUBSET [key : Devices, value : Outcomes] /\ polled' \ polled = {}
  BY <1>3 DEF HandlerInvariant, HandlerTypes
<1> QED BY <1>2, <1>3, <1>4, ReadKeeps

(* A job that is over when it is polled is ahead of the handler.           *)
LEMMA ReadJobsKeeps ==
  ASSUME JobInvariant, HandlerInvariant, NEW c \in Clients, ReadJobs(c)
  PROVE  HandlerInvariant'
<1>0. PICK n \in 1 .. Len(DeviceList) : \E at \in [1 .. n -> Woken] :
        /\ \A i \in Woken : \E j \in 1 .. n : at[j] = i
        /\ Asks(c, [phase |-> "observe",
                    todo |-> [j \in 1 .. n |-> Event(DeviceList[at[j]], jobs[DeviceList[at[j]]].state)]])
  BY DEF ReadJobs
<1>1. PICK at \in [1 .. n -> Woken] :
        /\ \A i \in Woken : \E j \in 1 .. n : at[j] = i
        /\ Asks(c, [phase |-> "observe",
                    todo |-> [j \in 1 .. n |-> Event(DeviceList[at[j]], jobs[DeviceList[at[j]]].state)]])
  BY <1>0
<1> DEFINE todo == [j \in 1 .. n |-> Event(DeviceList[at[j]], jobs[DeviceList[at[j]]].state)]
           r == [phase |-> "observe", todo |-> todo]
           over == {e \in Devices : jobs[e] # NoJob /\ ~Running(e) /\ ~Waking(e)}
<1>2. n \in Nat /\ n >= 1
  BY ScheduleAssumption
<1>3. \A d \in Devices : jobs[d] # NoJob => jobs[d].state \in Outcomes \cup {"running"}
  BY DEF JobInvariant, JobTypes, Jobs
<1>4. \A i \in Woken : DeviceList[i] \in Devices /\ jobs[DeviceList[i]] # NoJob
  BY DEF Woken, Devices
<1>5. \A j \in 1 .. n : todo[j] = Event(DeviceList[at[j]], jobs[DeviceList[at[j]]].state) /\ todo[j] \in JobEvents
  BY <1>3, <1>4 DEF Event, JobEvents
<1>6. todo \in Seq(JobEvents) /\ Len(todo) = n
  BY <1>2, <1>5
<1> HIDE DEF todo
<1>7. r \in JobReads /\ r.phase = "observe"
  <2>1. todo # <<>>
    <3>1. Len(<<>>) = 0
      OBVIOUS
    <3> QED BY <1>2, <1>6, <3>1
  <2> QED BY <1>6, <2>1 DEF JobReads
<1>8. /\ requests[c] = Idle /\ requests' = [requests EXCEPT ![c] = r]
      /\ UNCHANGED <<world, changes, remembered, log, reported>>
  BY <1>1 DEF ReadJobs, Asks, todo
<1>9. polled' = polled \cup {Event(d, jobs[d].state) : d \in over}
  BY DEF ReadJobs
<1>10. ASSUME NEW d \in over
       PROVE  /\ Event(d, jobs[d].state) \in [key : Devices, value : Outcomes]
              /\ ~Marking(Event(d, jobs[d].state).key) /\ Ahead(r, Event(d, jobs[d].state))
  <2>1. d \in Devices /\ jobs[d] # NoJob /\ jobs[d].state \in Outcomes /\ ~Waking(d)
    BY <1>3 DEF Running
  <2>2. PICK i \in Woken : DeviceList[i] = d
    BY <2>1 DEF Devices, Woken
  <2>3. PICK j \in 1 .. n : at[j] = i
    BY <1>1, <2>2
  <2>4. Ahead(r, Event(d, jobs[d].state))
    BY <1>5, <1>6, <2>2, <2>3 DEF Ahead
  <2>5. ~Marking(d)
    BY <2>1 DEF Marking, Marks, Waking
  <2> QED BY <2>1, <2>4, <2>5 DEF Event
<1> HIDE DEF r, over
<1>11. /\ polled' \in SUBSET [key : Devices, value : Outcomes]
       /\ \A e \in polled' \ polled : ~Marking(e.key) /\ Ahead(r, e)
  BY <1>9, <1>10 DEF HandlerInvariant, HandlerTypes
<1> QED BY <1>7, <1>8, <1>11, ReadKeeps

(* A wake forgets what was recorded of its device's earlier jobs.          *)
LEMMA AcceptWakeKeeps ==
  ASSUME HandlerInvariant, NEW c \in Clients, NEW d \in Devices, AcceptWake(c, d)
  PROVE  HandlerInvariant'
<1> DEFINE r == [phase |-> "mark", todo |-> <<Event(d, "started")>>]
<1>1. /\ requests[c] = Idle /\ requests' = [requests EXCEPT ![c] = r]
      /\ UNCHANGED <<world, changes, remembered, log>>
      /\ polled' = {e \in polled : e.key # d} /\ reported' = {e \in reported : e.key # d}
  BY DEF AcceptWake, Asks
<1>2. r \in RequestSet /\ r.phase = "mark"
  BY DEF RequestSet, WakeMarks
<1>3. \A e : Marks(r, e) => e = d
  BY EventParts DEF Marks
<1>4. Marks(r, d)
  BY DEF Marks
<1> HIDE DEF r
<1>5. /\ requests'[c] = r
      /\ \A b \in Clients \ {c} : requests'[b] = requests[b]
      /\ requests' \in [Clients -> RequestSet]
  BY <1>1, <1>2 DEF HandlerInvariant, HandlerTypes
<1>6. \A e : ~Records(requests[c], e) /\ ~Marks(requests[c], e) /\ ~Ahead(requests[c], e)
  BY <1>1, IdleDoesNothing
<1>7. HandlerTypes'
  BY <1>1, <1>5 DEF HandlerInvariant, HandlerTypes
<1>8. \A e : (\E b \in Clients : Records(requests[b], e)) => \E b \in Clients : Records(requests'[b], e)
  BY <1>5, <1>6
<1>9. \A e : Marking(e)' <=> Marking(e) \/ e = d
  BY <1>3, <1>4, <1>5, <1>6 DEF Marking
<1>10. OutcomesKept'
  <2> SUFFICES ASSUME NEW e \in Devices, NEW v \in Outcomes, remembered[e] = v
               PROVE  \/ Event(e, v) \in reported'
                      \/ \E b \in Clients : Records(requests'[b], Event(e, v))
                      \/ Marking(e)'
    BY <1>1 DEF OutcomesKept
  <2>1. CASE e = d
    BY <1>9, <2>1
  <2>2. CASE e # d
    <3>1. Event(e, v).key # d
      BY <2>2 DEF Event
    <3> QED BY <1>1, <1>8, <1>9, <3>1 DEF HandlerInvariant, OutcomesKept
  <2> QED BY <2>1, <2>2
<1>11. PolledKept'
  <2> SUFFICES ASSUME NEW e \in polled, e.key # d
               PROVE  ~Marking(e.key)' /\ (e \in reported' \/ \E b \in Clients : Ahead(requests'[b], e))
    BY <1>1 DEF PolledKept
  <2>1. ~Marking(e.key) /\ (e \in reported \/ \E b \in Clients : Ahead(requests[b], e))
    BY DEF HandlerInvariant, PolledKept
  <2> QED BY <1>1, <1>5, <1>6, <1>9, <2>1
<1>12. ReadingsKept'
  BY <1>1, <1>8 DEF HandlerInvariant, ReadingsKept
<1>13. Silent(requests[c]) /\ Silent(r)
  BY <1>1, <1>2, NotRecordingIsSilent DEF Idle
<1>14. Succession'
  BY <1>1, <1>13, SuccessionKept DEF HandlerInvariant
<1> QED BY <1>7, <1>10, <1>11, <1>12, <1>14 DEF HandlerInvariant

(* From now on the device's job is remembered as running.                  *)
LEMMA MarkKeeps ==
  ASSUME HandlerInvariant, NEW c \in Clients, Mark(c)
  PROVE  HandlerInvariant'
<1> DEFINE r == [phase |-> "record", todo |-> requests[c].todo]
<1>1. requests \in [Clients -> RequestSet] /\ requests[c].phase = "mark"
  BY DEF HandlerInvariant, HandlerTypes, Mark
<1>2. PICK d \in Devices : requests[c] = [phase |-> "mark", todo |-> <<Event(d, "started")>>]
  BY <1>1, MarkersWake
<1>3. /\ requests[c].todo = <<Event(d, "started")>> /\ requests[c].todo # <<>>
      /\ Head(requests[c].todo).key = d
  BY <1>2 DEF Event
<1>4. /\ requests' = [requests EXCEPT ![c] = r]
      /\ remembered' = [remembered EXCEPT ![d] = "running"]
      /\ UNCHANGED <<world, changes, log, polled, reported>>
  BY <1>3 DEF Mark, Goes, history
<1>5. r \in RequestSet /\ r.phase = "record" /\ r.todo = <<Event(d, "started")>>
  BY <1>3 DEF RequestSet, WakeMarks
<1> HIDE DEF r
<1>6. /\ requests'[c] = r
      /\ \A b \in Clients \ {c} : requests'[b] = requests[b]
      /\ requests' \in [Clients -> RequestSet]
  BY <1>1, <1>4, <1>5
<1>7. d \in Keys /\ d \notin Sources
  BY KeysAssumption DEF Keys
<1>8. /\ remembered'[d] = "running"
      /\ \A k \in Keys \ {d} : remembered'[k] = remembered[k]
      /\ remembered' \in [Keys -> Readings \cup Outcomes \cup {"running", NoReading}]
  BY <1>4, <1>7 DEF HandlerInvariant, HandlerTypes
<1>9. HandlerTypes'
  <2>1. \A s \in Sources : remembered'[s] \in Readings \cup {NoReading}
    BY <1>7, <1>8 DEF HandlerInvariant, HandlerTypes, Keys
  <2>2. \A e \in Devices : remembered'[e] \in Outcomes \cup {"running", NoReading}
    BY <1>8 DEF HandlerInvariant, HandlerTypes, Keys
  <2> QED BY <1>4, <1>6, <1>8, <2>1, <2>2 DEF HandlerInvariant, HandlerTypes
<1>10. \A e : (\E b \in Clients : Records(requests[b], e)) => \E b \in Clients : Records(requests'[b], e)
  BY <1>1, <1>6 DEF Records
<1>11. \A e : e # d => (Marking(e)' <=> Marking(e))
  <2>1. \A e : ~Marks(r, e)
    BY <1>5 DEF Marks
  <2>2. \A e : Marks(requests[c], e) => e = d
    BY <1>3, EventParts DEF Marks
  <2> QED BY <1>6, <2>1, <2>2 DEF Marking
<1>12. \A e : Marking(e)' => Marking(e)
  <2>1. \A e : ~Marks(r, e)
    BY <1>5 DEF Marks
  <2> QED BY <1>6, <2>1 DEF Marking
<1>13. OutcomesKept'
  <2> SUFFICES ASSUME NEW e \in Devices, NEW v \in Outcomes, remembered'[e] = v
               PROVE  \/ Event(e, v) \in reported
                      \/ \E b \in Clients : Records(requests'[b], Event(e, v))
                      \/ Marking(e)'
    BY <1>4 DEF OutcomesKept
  <2>1. e # d
    BY <1>8 DEF Outcomes
  <2>2. remembered[e] = v
    BY <1>8, <2>1 DEF Keys
  <2> QED BY <1>10, <1>11, <2>1, <2>2 DEF HandlerInvariant, OutcomesKept
<1>14. PolledKept'
  <2> SUFFICES ASSUME NEW e \in polled
               PROVE  ~Marking(e.key)' /\ (e \in reported \/ \E b \in Clients : Ahead(requests'[b], e))
    BY <1>4 DEF PolledKept
  <2>1. ~Marking(e.key) /\ (e \in reported \/ \E b \in Clients : Ahead(requests[b], e))
    BY DEF HandlerInvariant, PolledKept
  <2>2. Ahead(requests[c], e) => Ahead(r, e)
    BY <1>3, <1>5 DEF Ahead
  <2> QED BY <1>6, <1>12, <2>1, <2>2
<1>15. \A s \in Sources : remembered'[s] = remembered[s]
  BY <1>7, <1>8 DEF Keys
<1>16. ReadingsKept'
  BY <1>4, <1>10, <1>15 DEF HandlerInvariant, ReadingsKept
<1>17. Silent(requests[c]) /\ Silent(r)
  <2>1. \A s \in Sources, v \in Readings : Event(s, v) # Event(d, "started")
    BY <1>7, EventParts
  <2>2. \A s \in Sources, v \in Readings : <<Event(s, v)>> # <<Event(d, "started")>>
    BY <2>1
  <2> QED BY <1>1, <1>5, <2>2 DEF Silent
<1>18. Succession'
  BY <1>4, <1>15, <1>17, SuccessionKept DEF HandlerInvariant
<1> QED BY <1>9, <1>13, <1>14, <1>16, <1>18 DEF HandlerInvariant

(* What a handler deals with is an event it has ahead.                    *)
LEMMA HeadIsAnEvent ==
  ASSUME NEW r \in RequestSet, r.phase \in {"observe", "record"}
  PROVE  Head(r.todo) \in Events /\ r.todo # <<>> /\ Ahead(r, Head(r.todo))
<1>1. CASE r \in WakeMarks
  <2>1. PICK d \in Devices : r.todo = <<Event(d, "started")>>
    BY <1>1 DEF WakeMarks
  <2>2. Head(r.todo) = Event(d, "started") /\ r.todo # <<>> /\ Len(r.todo) = 1 /\ r.todo[1] = Event(d, "started")
    BY <2>1
  <2> QED BY <2>2 DEF Event, Events, Keys, Ahead
<1>2. CASE r \in SourceReads \cup JobReads
  <2>1. r.todo # <<>> /\ Ahead(r, Head(r.todo))
    BY <1>2, ReadHead
  <2>2. \/ \E s \in Sources, v \in Readings : Head(r.todo) = Event(s, v)
        \/ Head(r.todo) \in JobEvents
    BY <1>2, ReadHead
  <2>3. Head(r.todo) \in Events
    <3>1. CASE \E s \in Sources, v \in Readings : Head(r.todo) = Event(s, v)
      BY <3>1, SourceEvent
    <3>2. CASE Head(r.todo) \in JobEvents
      BY <3>2 DEF JobEvents, Events, Keys
    <3> QED BY <2>2, <3>1, <3>2
  <2> QED BY <2>1, <2>3
<1> QED BY <1>1, <1>2 DEF RequestSet, Idle

(* And an event is made of nothing else.                                  *)
LEMMA EventOfParts == \A e \in Events : e = Event(e.key, e.value)
  BY DEF Event, Events

(* What a handler records it has ahead.                                   *)
LEMMA RecordsIsAhead ==
  ASSUME NEW r \in RequestSet, NEW e, Records(r, e)
  PROVE  Ahead(r, e)
  BY HeadIsAnEvent DEF Records

(* A handler for which nothing, or a running job, has changed goes on: what *)
(* it polled is recorded already, or another handler is about to.          *)
LEMMA PassesKeep ==
  ASSUME HandlerInvariant, NEW c \in Clients, NEW r, r = requests[c], r.phase = "observe",
         NEW e, e = Head(r.todo),
         requests' = [requests EXCEPT ![c] = After(r)],
         \/ remembered[e.key] = e.value /\ remembered' = remembered
         \/ e.value = "running" /\ remembered' = [remembered EXCEPT ![e.key] = "running"],
         UNCHANGED <<world, changes, log, polled, reported>>
  PROVE  HandlerInvariant'
<1>1. requests \in [Clients -> RequestSet] /\ r \in RequestSet
  BY DEF HandlerInvariant, HandlerTypes
<1>2. /\ After(r) \in RequestSet
      /\ \A f : ~Records(After(r), f)
      /\ \A d : ~Marks(After(r), d)
      /\ \A f : Ahead(r, f) => f = e \/ Ahead(After(r), f)
  BY <1>1, AfterGoesOn
<1>3. \A f : ~Records(r, f) /\ ~Marks(r, f)
  BY DEF Records, Marks
<1>4. /\ requests'[c] = After(r)
      /\ \A b \in Clients \ {c} : requests'[b] = requests[b]
      /\ requests' \in [Clients -> RequestSet]
  BY <1>1, <1>2
<1>5. e \in Events /\ (e.value = "running" => e.key \in Devices /\ e.key \notin Sources)
  <2>1. r \in SourceReads \cup JobReads
    BY <1>1, ObserversRead
  <2>2. CASE \E s \in Sources, v \in Readings : e = Event(s, v)
    BY <2>2, KeysAssumption DEF Event, Events, Keys
  <2>3. CASE e \in JobEvents
    BY <2>3, KeysAssumption DEF JobEvents, Events, Keys
  <2> QED BY <2>1, <2>2, <2>3, ReadHead
<1>6. /\ \A s \in Sources : remembered'[s] = remembered[s]
      /\ \A k \in Keys : remembered'[k] = remembered[k] \/ (remembered'[k] = "running" /\ k \in Devices)
      /\ remembered' \in [Keys -> Readings \cup Outcomes \cup {"running", NoReading}]
  <2> DEFINE M == Readings \cup Outcomes \cup {"running", NoReading}
  <2>0. remembered \in [Keys -> M] /\ "running" \in M
    BY DEF HandlerInvariant, HandlerTypes
  <2> HIDE DEF M
  <2>1. CASE remembered' = remembered
    BY <2>0, <2>1 DEF M
  <2>2. CASE e.value = "running" /\ remembered' = [remembered EXCEPT ![e.key] = "running"]
    <3>1. \A k \in Keys : remembered'[k] = IF k = e.key THEN "running" ELSE remembered[k]
      BY <2>0, <2>2
    <3>2. \A s \in Sources : remembered'[s] = remembered[s]
      BY <1>5, <2>2, <3>1 DEF Keys
    <3>3. remembered' \in [Keys -> M]
      BY <2>0, <2>2
    <3>4. \A k \in Keys : remembered'[k] = remembered[k] \/ (remembered'[k] = "running" /\ k \in Devices)
      BY <1>5, <2>2, <3>1
    <3> QED BY <3>2, <3>3, <3>4 DEF M
  <2> QED BY <2>1, <2>2
<1>7. HandlerTypes'
  <2>1. \A s \in Sources : remembered'[s] \in Readings \cup {NoReading}
    BY <1>6 DEF HandlerInvariant, HandlerTypes
  <2>2. \A d \in Devices : remembered'[d] \in Outcomes \cup {"running", NoReading}
    BY <1>6 DEF HandlerInvariant, HandlerTypes, Keys
  <2> QED BY <1>4, <1>6, <2>1, <2>2 DEF HandlerInvariant, HandlerTypes
<1>8. \A f : (\E b \in Clients : Records(requests[b], f)) => \E b \in Clients : Records(requests'[b], f)
  BY <1>3, <1>4
<1>9. \A d : Marking(d)' <=> Marking(d)
  BY <1>2, <1>3, <1>4 DEF Marking
<1>10. OutcomesKept'
  <2> SUFFICES ASSUME NEW d \in Devices, NEW v \in Outcomes, remembered'[d] = v
               PROVE  \/ Event(d, v) \in reported
                      \/ \E b \in Clients : Records(requests'[b], Event(d, v))
                      \/ Marking(d)'
    BY DEF OutcomesKept
  <2>1. remembered[d] = v
    BY <1>6 DEF Outcomes, Keys
  <2> QED BY <1>8, <1>9, <2>1 DEF HandlerInvariant, OutcomesKept
<1>11. PolledKept'
  <2> SUFFICES ASSUME NEW f \in polled
               PROVE  ~Marking(f.key)' /\ (f \in reported \/ \E b \in Clients : Ahead(requests'[b], f))
    BY DEF PolledKept
  <2>1. ~Marking(f.key) /\ (f \in reported \/ \E b \in Clients : Ahead(requests[b], f))
    BY DEF HandlerInvariant, PolledKept
  <2>2. f.key \in Devices /\ f.value \in Outcomes /\ f = Event(f.key, f.value)
    BY DEF HandlerInvariant, HandlerTypes, Event
  <2>3. CASE f = e
    <3>1. remembered[f.key] = f.value
      BY <2>2, <2>3 DEF Outcomes
    <3>2. f \in reported \/ \E b \in Clients : Records(requests[b], f)
      BY <2>1, <2>2, <3>1 DEF HandlerInvariant, OutcomesKept
    <3>3. ASSUME NEW b \in Clients, Records(requests[b], f)
          PROVE  b # c /\ Ahead(requests[b], f)
      BY <1>1, <1>3, <3>3, RecordsIsAhead
    <3> QED BY <1>4, <1>9, <2>1, <3>2, <3>3
  <2>4. CASE f # e
    BY <1>2, <1>4, <1>9, <2>1, <2>4
  <2> QED BY <2>3, <2>4
<1>12. ReadingsKept'
  BY <1>6, <1>8 DEF HandlerInvariant, ReadingsKept
<1>13. Silent(requests[c]) /\ Silent(After(r))
  <2>1. \A s \in Sources, v \in Readings : Records([phase |-> "record", todo |-> <<Event(s, v)>>], Event(s, v))
    BY DEF Records
  <2> QED BY <1>2, <1>3, <2>1 DEF Silent
<1>14. Succession'
  BY <1>6, <1>13, SuccessionKept DEF HandlerInvariant
<1> QED BY <1>7, <1>10, <1>11, <1>12, <1>14 DEF HandlerInvariant

(* c notes that source s now reads v, and has yet to record it.            *)
Notes(c, s, v) ==
  /\ requests' = [requests EXCEPT ![c] = [phase |-> "record", todo |-> <<Event(s, v)>>]]
  /\ log' = log
  /\ remembered[s] # v /\ remembered'[s] = v
  /\ \A t \in Sources \ {s} : remembered'[t] = remembered[t]

(* A source's reading that changed is one more of its own, and the others  *)
(* have made up for the last of theirs.                                    *)
LEMMA SourceSuccession ==
  ASSUME HandlerTypes, Succession, NEW c \in Clients, NEW s \in Sources, NEW v \in Readings,
         Silent(requests[c]), Notes(c, s, v)
  PROVE  Succession'
<1> USE DEF Notes
<1> DEFINE r == [phase |-> "record", todo |-> <<Event(s, v)>>]
<1>1. requests \in [Clients -> RequestSet] /\ \A t \in Sources, vs \in SUBSET Readings : c \notin Recorders(requests, t, vs)
  BY DEF HandlerTypes, Recorders, Silent
<1>2. ASSUME NEW t \in Sources, NEW vs \in SUBSET Readings, t # s \/ v \notin vs
      PROVE  Recorded(t, vs)' = Recorded(t, vs)
  <2>1. \A w \in vs : Event(t, w) # Event(s, v)
    BY <1>2, EventParts
  <2>2. \A w \in vs : r # [phase |-> "record", todo |-> <<Event(t, w)>>]
    <3>1. \A w \in vs : <<Event(t, w)>> # <<Event(s, v)>>
      BY <2>1
    <3> QED BY <3>1
  <2>3. Recorders(requests', t, vs) = Recorders(requests, t, vs)
    BY <1>1, <2>2 DEF Recorders
  <2>4. /\ Recorded(t, vs) = Cardinality(Entries(log, t, vs)) + Cardinality(Recorders(requests, t, vs))
        /\ Recorded(t, vs)' = Cardinality(Entries(log', t, vs)) + Cardinality(Recorders(requests', t, vs))
    BY DEF Recorded, Entries, Recorders
  <2> QED BY <2>3, <2>4
<1>3. ASSUME NEW vs \in SUBSET Readings, v \in vs
      PROVE  Recorded(s, vs)' = Recorded(s, vs) + 1
  <2>1. c \notin Recorders(requests, s, vs)
    BY <1>1
  <2>2. Recorders(requests', s, vs) = Recorders(requests, s, vs) \cup {c}
    BY <1>1, <1>3 DEF Recorders
  <2>3. IsFiniteSet(Recorders(requests, s, vs)) /\ Cardinality(Recorders(requests, s, vs)) \in Nat
    BY RecordersFinite
  <2>4. Cardinality(Recorders(requests', s, vs)) = Cardinality(Recorders(requests, s, vs)) + 1
    BY <2>1, <2>2, <2>3, FS_AddElement
  <2>5. Cardinality(Entries(log, s, vs)) \in Nat
    BY EntriesFinite DEF HandlerTypes
  <2>6. /\ Recorded(s, vs)  = Cardinality(Entries(log, s, vs)) + Cardinality(Recorders(requests, s, vs))
        /\ Recorded(s, vs)' = Cardinality(Entries(log, s, vs)) + Cardinality(Recorders(requests', s, vs))
    BY DEF Recorded, Entries, Recorders
  <2> QED BY <2>3, <2>4, <2>5, <2>6
<1>4. ASSUME NEW t \in Sources, NEW vs \in SUBSET Readings
      PROVE  Recorded(t, vs) \in Nat
  <2>1. Cardinality(Entries(log, t, vs)) \in Nat
    BY EntriesFinite DEF HandlerTypes
  <2>2. Cardinality(Recorders(requests, t, vs)) \in Nat
    BY RecordersFinite
  <2>3. Recorded(t, vs) = Cardinality(Entries(log, t, vs)) + Cardinality(Recorders(requests, t, vs))
    BY DEF Recorded, Entries, Recorders
  <2> QED BY <2>1, <2>2, <2>3
<1> SUFFICES ASSUME NEW t \in Sources, NEW w \in Readings
             PROVE  (Recorded(t, {w}) <= Recorded(t, Readings \ {w}) + (IF remembered[t] = w THEN 1 ELSE 0))'
  BY DEF Succession
<1> DEFINE own == Recorded(t, {w})
           rest == Recorded(t, Readings \ {w})
<1>5. own \in Nat /\ rest \in Nat
  BY <1>4
<1>6. own <= rest + (IF remembered[t] = w THEN 1 ELSE 0)
  BY DEF Succession
<1>7. CASE t # s
  <2>1. own' = own /\ rest' = rest /\ remembered'[t] = remembered[t]
    BY <1>2, <1>7
  <2> QED BY <1>6, <2>1
<1>8. CASE t = s /\ w = v
  <2>1. own' = own + 1 /\ rest' = rest
    BY <1>2, <1>3, <1>8
  <2>2. remembered[t] # w /\ remembered'[t] = w
    BY <1>8
  <2> HIDE DEF own, rest
  <2>3. own' <= rest' + 1
    BY <1>5, <1>6, <2>1, <2>2
  <2> QED BY <2>2, <2>3 DEF own, rest
<1>9. CASE t = s /\ w # v
  <2>1. own' = own
    BY <1>2, <1>9
  <2>2. rest' = rest + 1
    BY <1>3, <1>9
  <2>3. remembered'[t] # w
    BY <1>9
  <2> HIDE DEF own, rest
  <2>4. own' <= rest' /\ own' \in Nat /\ rest' \in Nat
    BY <1>5, <1>6, <2>1, <2>2
  <2> QED BY <2>3, <2>4 DEF own, rest
<1> QED BY <1>7, <1>8, <1>9

(* A change is remembered, and its event is next.                          *)
LEMMA ChangeKeeps ==
  ASSUME HandlerInvariant, NEW c \in Clients, NEW r, r = requests[c], r.phase = "observe",
         NEW e, e = Head(r.todo), e.value # "running", remembered[e.key] # e.value,
         requests' = [requests EXCEPT ![c] = Recording(r)],
         remembered' = [remembered EXCEPT ![e.key] = e.value],
         UNCHANGED <<world, changes, log, polled, reported>>
  PROVE  HandlerInvariant'
<1>1. requests \in [Clients -> RequestSet] /\ r \in RequestSet /\ r \in SourceReads \cup JobReads
  BY ObserversRead DEF HandlerInvariant, HandlerTypes
<1>2. /\ Recording(r) \in RequestSet
      /\ Records(Recording(r), e)
      /\ \A d : ~Marks(Recording(r), d)
      /\ \A f : Ahead(r, f) => Ahead(Recording(r), f)
  BY <1>1, RecordingGoesOn
<1>3. \A f : ~Records(r, f) /\ ~Marks(r, f)
  BY DEF Records, Marks
<1>4. /\ requests'[c] = Recording(r)
      /\ \A b \in Clients \ {c} : requests'[b] = requests[b]
      /\ requests' \in [Clients -> RequestSet]
  BY <1>1, <1>2
<1>5. e \in Events /\ e = Event(e.key, e.value)
  BY <1>1, HeadIsAnEvent, EventOfParts
<1>6. \/ e.key \in Sources /\ e.value \in Readings
      \/ e.key \in Devices \ Sources /\ e.value \in Outcomes
  <2>1. CASE \E s \in Sources, v \in Readings : e = Event(s, v)
    BY <2>1 DEF Event
  <2>2. CASE e \in JobEvents
    BY <2>2, KeysAssumption DEF JobEvents
  <2> QED BY <1>1, <2>1, <2>2, ReadHead
<1> DEFINE M == Readings \cup Outcomes \cup {"running", NoReading}
<1>7. /\ remembered'[e.key] = e.value
      /\ \A k \in Keys \ {e.key} : remembered'[k] = remembered[k]
      /\ remembered' \in [Keys -> M]
  <2>1. remembered \in [Keys -> M] /\ e.value \in M /\ e.key \in Keys
    BY <1>6 DEF HandlerInvariant, HandlerTypes, Keys
  <2> HIDE DEF M
  <2> QED BY <2>1
<1>8. HandlerTypes'
  <2>1. \A s \in Sources : remembered'[s] \in Readings \cup {NoReading}
    BY <1>6, <1>7 DEF HandlerInvariant, HandlerTypes, Keys
  <2>2. \A d \in Devices : remembered'[d] \in Outcomes \cup {"running", NoReading}
    <3> SUFFICES ASSUME NEW d \in Devices
                 PROVE  remembered'[d] \in Outcomes \cup {"running", NoReading}
      OBVIOUS
    <3>1. d \notin Sources /\ d \in Keys
      BY KeysAssumption DEF Keys
    <3>2. CASE d = e.key
      BY <1>6, <1>7, <3>1, <3>2
    <3>3. CASE d # e.key
      BY <1>7, <3>1, <3>3 DEF HandlerInvariant, HandlerTypes
    <3> QED BY <3>2, <3>3
  <2> QED BY <1>4, <1>7, <2>1, <2>2 DEF HandlerInvariant, HandlerTypes
<1>9. \A f : (\E b \in Clients : Records(requests[b], f)) => \E b \in Clients : Records(requests'[b], f)
  BY <1>3, <1>4
<1>10. \A d : Marking(d)' <=> Marking(d)
  BY <1>2, <1>3, <1>4 DEF Marking
<1>11. OutcomesKept'
  <2> SUFFICES ASSUME NEW d \in Devices, NEW v \in Outcomes, remembered'[d] = v
               PROVE  \/ Event(d, v) \in reported
                      \/ \E b \in Clients : Records(requests'[b], Event(d, v))
                      \/ Marking(d)'
    BY DEF OutcomesKept
  <2>1. CASE d = e.key
    <3>1. Event(d, v) = e
      BY <1>5, <1>7, <2>1
    <3> QED BY <1>2, <1>4, <3>1
  <2>2. CASE d # e.key
    <3>1. remembered[d] = v
      BY <1>7, <2>2 DEF Keys
    <3> QED BY <1>9, <1>10, <3>1 DEF HandlerInvariant, OutcomesKept
  <2> QED BY <2>1, <2>2
<1>12. PolledKept'
  BY <1>2, <1>4, <1>10 DEF HandlerInvariant, PolledKept
<1>13. ReadingsKept'
  <2> SUFFICES ASSUME NEW s \in Sources, remembered'[s] # NoReading
               PROVE  \/ log[Event(s, remembered'[s])] > 0
                      \/ \E b \in Clients : Records(requests'[b], Event(s, remembered'[s]))
    BY DEF ReadingsKept
  <2>1. CASE s = e.key
    <3>1. Event(s, remembered'[s]) = e
      BY <1>5, <1>7, <2>1
    <3> QED BY <1>2, <1>4, <3>1
  <2>2. CASE s # e.key
    <3>1. remembered'[s] = remembered[s]
      BY <1>7, <2>2 DEF Keys
    <3> QED BY <1>9, <3>1 DEF HandlerInvariant, ReadingsKept
  <2> QED BY <2>1, <2>2
<1>14. Silent(requests[c])
  BY NotRecordingIsSilent
<1>15. Succession'
  <2>1. CASE e.key \in Sources
    <3>1. Recording(r) = [phase |-> "record", todo |-> <<Event(e.key, e.value)>>] /\ e.value \in Readings
      BY <1>2, <1>5, <2>1, SourceRecords
    <3>2. \A t \in Sources \ {e.key} : remembered'[t] = remembered[t]
      BY <1>7 DEF Keys
    <3>3. PICK s \in Sources, v \in Readings : s = e.key /\ v = e.value
      BY <2>1, <3>1
    <3>4. /\ requests' = [requests EXCEPT ![c] = [phase |-> "record", todo |-> <<Event(s, v)>>]]
          /\ log' = log
          /\ remembered[s] # v /\ remembered'[s] = v
          /\ \A t \in Sources \ {s} : remembered'[t] = remembered[t]
      BY <1>7, <3>1, <3>2, <3>3
    <3>5. HandlerTypes /\ Succession
      BY DEF HandlerInvariant
    <3>6. Notes(c, s, v)
      BY <3>4 DEF Notes
    <3> QED BY <1>14, <3>5, <3>6, SourceSuccession
  <2>2. CASE e.key \notin Sources
    <3>1. \A s \in Sources, v \in Readings : Event(s, v) # e
      BY <2>2 DEF Event
    <3>2. \A s \in Sources, v \in Readings : ~Records(Recording(r), Event(s, v))
      BY <1>2, <3>1 DEF Records
    <3>3. Silent(Recording(r))
      BY <1>2, <3>2, SourceRecords DEF Silent
    <3>4. \A s \in Sources : remembered'[s] = remembered[s]
      BY <1>7, <2>2 DEF Keys
    <3> QED BY <1>14, <3>3, <3>4, SuccessionKept DEF HandlerInvariant
  <2> QED BY <2>1, <2>2
<1> QED BY <1>8, <1>11, <1>12, <1>13, <1>15 DEF HandlerInvariant

(* A handler compares what it has read with what is remembered.           *)
LEMMA ObserveKeeps ==
  ASSUME HandlerInvariant, NEW c \in Clients, Observe(c)
  PROVE  HandlerInvariant'
<1>1. PICK r : r = requests[c]
  OBVIOUS
<1>2. PICK e : e = Head(r.todo)
  OBVIOUS
<1>3. requests \in [Clients -> RequestSet] /\ r \in RequestSet /\ r.phase = "observe" /\ r.todo # <<>>
  BY <1>1, ObserversRead, ReadHead DEF Observe, HandlerInvariant, HandlerTypes
<1>4. UNCHANGED <<world, changes, log, polled, reported>>
  BY DEF Observe, history
<1>5. \/ /\ remembered[e.key] # e.value /\ e.value # "running"
         /\ remembered' = [remembered EXCEPT ![e.key] = e.value]
         /\ requests' = [requests EXCEPT ![c] = Recording(r)]
      \/ /\ e.value = "running" /\ remembered' = [remembered EXCEPT ![e.key] = "running"]
         /\ requests' = [requests EXCEPT ![c] = After(r)]
      \/ /\ remembered[e.key] = e.value /\ remembered' = remembered
         /\ requests' = [requests EXCEPT ![c] = After(r)]
  BY <1>1, <1>2, <1>3 DEF Observe, Changed, WorthAnEvent, Goes, After, Recording
<1> QED BY <1>1, <1>2, <1>3, <1>4, <1>5, ChangeKeeps, PassesKeep

(* Recorded is what was about to be.                                       *)
LEMMA RecordKeeps ==
  ASSUME HandlerInvariant, NEW c \in Clients, Record(c)
  PROVE  HandlerInvariant'
<1>1. PICK r : r = requests[c]
  OBVIOUS
<1>2. PICK e : e = Head(r.todo)
  OBVIOUS
<1>3. requests \in [Clients -> RequestSet] /\ r \in RequestSet /\ r.phase = "record"
  BY <1>1 DEF Record, HandlerInvariant, HandlerTypes
<1>4. /\ requests' = [requests EXCEPT ![c] = After(r)]
      /\ log' = [log EXCEPT ![e] = @ + 1]
      /\ reported' = IF e.value \in Outcomes THEN reported \cup {e} ELSE reported
      /\ UNCHANGED <<world, changes, remembered, polled>>
  BY <1>1, <1>2 DEF Record, Goes, After
<1>5. /\ After(r) \in RequestSet
      /\ \A f : ~Records(After(r), f)
      /\ \A d : ~Marks(After(r), d)
      /\ \A f : Ahead(r, f) => f = e \/ Ahead(After(r), f)
  BY <1>2, <1>3, AfterGoesOn
<1>6. Records(r, e) /\ (\A f : Records(r, f) => f = e) /\ (\A d : ~Marks(r, d))
  BY <1>2, <1>3 DEF Records, Marks
<1>7. /\ requests'[c] = After(r)
      /\ \A b \in Clients \ {c} : requests'[b] = requests[b]
      /\ requests' \in [Clients -> RequestSet]
  BY <1>3, <1>4, <1>5
<1>8. e \in Events /\ log \in [Events -> Nat]
  BY <1>2, <1>3, HeadIsAnEvent DEF HandlerInvariant, HandlerTypes
<1>9. log' \in [Events -> Nat] /\ log'[e] > 0 /\ \A f \in Events : log[f] > 0 => log'[f] > 0
  BY <1>4, <1>8
<1>10. HandlerTypes'
  BY <1>4, <1>7, <1>9 DEF HandlerInvariant, HandlerTypes
<1>11. \A f : (\E b \in Clients : Records(requests[b], f)) =>
                f = e \/ \E b \in Clients : Records(requests'[b], f)
  BY <1>1, <1>6, <1>7
<1>12. \A d : Marking(d)' <=> Marking(d)
  BY <1>1, <1>5, <1>6, <1>7 DEF Marking
<1>13. reported \subseteq reported' /\ (e.value \in Outcomes => e \in reported')
  BY <1>4
<1>14. OutcomesKept'
  <2> SUFFICES ASSUME NEW d \in Devices, NEW v \in Outcomes, remembered[d] = v
               PROVE  \/ Event(d, v) \in reported'
                      \/ \E b \in Clients : Records(requests'[b], Event(d, v))
                      \/ Marking(d)'
    BY <1>4 DEF OutcomesKept
  <2>1. Event(d, v) = e => Event(d, v) \in reported'
    BY <1>13 DEF Event
  <2> QED BY <1>11, <1>12, <1>13, <2>1 DEF HandlerInvariant, OutcomesKept
<1>15. PolledKept'
  <2> SUFFICES ASSUME NEW f \in polled
               PROVE  ~Marking(f.key)' /\ (f \in reported' \/ \E b \in Clients : Ahead(requests'[b], f))
    BY <1>4 DEF PolledKept
  <2>1. ~Marking(f.key) /\ (f \in reported \/ \E b \in Clients : Ahead(requests[b], f))
    BY DEF HandlerInvariant, PolledKept
  <2>2. f.value \in Outcomes
    BY DEF HandlerInvariant, HandlerTypes
  <2> QED BY <1>1, <1>5, <1>7, <1>12, <1>13, <2>1, <2>2
<1>16. ReadingsKept'
  <2> SUFFICES ASSUME NEW s \in Sources, remembered[s] # NoReading
               PROVE  \/ log'[Event(s, remembered[s])] > 0
                      \/ \E b \in Clients : Records(requests'[b], Event(s, remembered[s]))
    BY <1>4 DEF ReadingsKept
  <2>1. remembered[s] \in Readings /\ Event(s, remembered[s]) \in Events
    BY SourceEvent DEF HandlerInvariant, HandlerTypes
  <2> QED BY <1>9, <1>11, <2>1 DEF HandlerInvariant, ReadingsKept
<1>17. ASSUME NEW s \in Sources, NEW vs \in SUBSET Readings
       PROVE  Recorded(s, vs)' = Recorded(s, vs)
  <2>1. /\ Cardinality(Entries(log, s, vs)) \in Nat
        /\ Cardinality(Entries(log', s, vs)) \in Nat
    BY <1>8, <1>9, EntriesFinite
  <2>2. Cardinality(Entries(log', s, vs)) =
          Cardinality(Entries(log, s, vs)) + (IF \E v \in vs : e = Event(s, v) THEN 1 ELSE 0)
    <3>1. PICK m \in [Events -> Nat] : m = log'
      BY <1>9
    <3>2. \A f \in Events : m[f] = IF f = e THEN log[f] + 1 ELSE log[f]
      BY <1>4, <1>8, <3>1
    <3>3. /\ (\E v \in vs : e = Event(s, v)) =>
              Cardinality(Entries(m, s, vs)) = Cardinality(Entries(log, s, vs)) + 1
          /\ ~(\E v \in vs : e = Event(s, v)) =>
              Cardinality(Entries(m, s, vs)) = Cardinality(Entries(log, s, vs))
      BY <1>8, <3>2, EntryAdded
    <3> QED BY <3>1, <3>3, <2>1
  <2>3. IsFiniteSet(Recorders(requests, s, vs)) /\ Cardinality(Recorders(requests, s, vs)) \in Nat
    BY RecordersFinite
  <2>4. \A v \in vs : After(r) # [phase |-> "record", todo |-> <<Event(s, v)>>]
    <3>1. \A v \in vs : Records([phase |-> "record", todo |-> <<Event(s, v)>>], Event(s, v))
      BY DEF Records
    <3> QED BY <1>5, <3>1
  <2>5. /\ Recorded(s, vs)  = Cardinality(Entries(log, s, vs)) + Cardinality(Recorders(requests, s, vs))
        /\ Recorded(s, vs)' = Cardinality(Entries(log', s, vs)) + Cardinality(Recorders(requests', s, vs))
    BY DEF Recorded, Entries, Recorders
  <2>6. Recorders(requests', s, vs) = Recorders(requests, s, vs) \ {c}
    BY <1>7, <2>4 DEF Recorders
  <2>7. c \in Recorders(requests, s, vs) <=> \E v \in vs : e = Event(s, v)
    <3>1. ASSUME NEW v \in vs
          PROVE  r = [phase |-> "record", todo |-> <<Event(s, v)>>] <=> e = Event(s, v)
      BY <1>3, <1>6, SourceRecords
    <3> QED BY <1>1, <3>1 DEF Recorders
  <2>8. Cardinality(Recorders(requests', s, vs)) =
          IF c \in Recorders(requests, s, vs) THEN Cardinality(Recorders(requests, s, vs)) - 1
                                              ELSE Cardinality(Recorders(requests, s, vs))
    BY <2>3, <2>6, FS_RemoveElement
  <2> QED BY <2>1, <2>2, <2>3, <2>5, <2>7, <2>8
<1>18. Succession'
  <2> SUFFICES ASSUME NEW s \in Sources, NEW v \in Readings
               PROVE  (Recorded(s, {v}) <= Recorded(s, Readings \ {v}) + (IF remembered[s] = v THEN 1 ELSE 0))'
    BY DEF Succession
  <2>1. Recorded(s, {v})' = Recorded(s, {v}) /\ Recorded(s, Readings \ {v})' = Recorded(s, Readings \ {v})
    BY <1>17
  <2>2. Recorded(s, {v}) <= Recorded(s, Readings \ {v}) + (IF remembered[s] = v THEN 1 ELSE 0)
    BY DEF HandlerInvariant, Succession
  <2> QED BY <1>4, <2>1, <2>2
<1> QED BY <1>10, <1>14, <1>15, <1>16, <1>18 DEF HandlerInvariant

(* The manager starts with idle handlers and an empty log.                *)
LEMMA HandlerInvariantInit == Init => HandlerInvariant
<1> SUFFICES ASSUME Init
             PROVE  HandlerInvariant
  OBVIOUS
<1>1. HandlerTypes
  BY BoundsAssumption DEF Init, HandlerTypes, RequestSet, Keys
<1>2. OutcomesKept
  BY KeysAssumption DEF Init, OutcomesKept, Keys
<1>3. PolledKept /\ ReadingsKept
  BY DEF Init, PolledKept, ReadingsKept, Keys
<1>4. Succession
  <2> SUFFICES ASSUME NEW s \in Sources, NEW v \in Readings
               PROVE  Recorded(s, {v}) <= Recorded(s, Readings \ {v}) + (IF remembered[s] = v THEN 1 ELSE 0)
    BY DEF Succession
  <2>1. Entries(log, s, {v}) = {} /\ Recorders(requests, s, {v}) = {}
    <3>1. log[Event(s, v)] = 0
      BY SourceEvent DEF Init
    <3> QED BY <3>1 DEF Init, Idle, Entries, Recorders
  <2>2. Recorded(s, {v}) = 0
    BY <2>1, FS_EmptySet DEF Recorded, Entries, Recorders
  <2>3. /\ Cardinality(Entries(log, s, Readings \ {v})) \in Nat
        /\ Cardinality(Recorders(requests, s, Readings \ {v})) \in Nat
    BY <1>1, EntriesFinite, RecordersFinite DEF HandlerTypes
  <2>4. Recorded(s, Readings \ {v}) \in Nat
    BY <2>3 DEF Recorded, Entries, Recorders
  <2> QED BY <2>2, <2>4
<1> QED BY <1>1, <1>2, <1>3, <1>4 DEF HandlerInvariant

(* Every step keeps the handlers' invariant.                              *)
LEMMA HandlerInvariantNext == JobInvariant /\ HandlerInvariant /\ [Next]_vars => HandlerInvariant'
<1> SUFFICES ASSUME JobInvariant, HandlerInvariant, [Next]_vars
             PROVE  HandlerInvariant'
  OBVIOUS
<1>1. CASE \E c \in Clients, s \in Sources : ReadSource(c, s)
  BY <1>1, ReadSourceKeeps
<1>2. CASE \E c \in Clients : ReadJobs(c)
  BY <1>2, ReadJobsKeeps
<1>3. CASE \E c \in Clients, d \in Devices : AcceptWake(c, d)
  BY <1>3, AcceptWakeKeeps
<1>4. CASE \E c \in Clients : Mark(c)
  BY <1>4, MarkKeeps
<1>5. CASE \E c \in Clients : Observe(c)
  BY <1>5, ObserveKeeps
<1>6. CASE \E c \in Clients : Record(c)
  BY <1>6, RecordKeeps
<1>7. ASSUME NEW s \in Sources, NEW v \in Readings, WorldChanges(s, v)
      PROVE  HandlerInvariant'
  <2>1. /\ UNCHANGED <<remembered, requests, log, polled, reported>>
        /\ world' = [world EXCEPT ![s] = v] /\ changes' = changes + 1 /\ changes < MaxChanges
    BY <1>7 DEF WorldChanges, history
  <2>2. world' \in [Sources -> Readings] /\ changes' \in 0 .. MaxChanges
    BY <2>1, BoundsAssumption DEF HandlerInvariant, HandlerTypes
  <2> QED BY <2>1, <2>2, QuietHandlers
<1>8. CASE UNCHANGED others
  <2>1. UNCHANGED <<remembered, requests, log, polled, reported, world, changes>>
    BY <1>8 DEF others, history
  <2>2. world' \in [Sources -> Readings] /\ changes' \in 0 .. MaxChanges
    BY <2>1 DEF HandlerInvariant, HandlerTypes
  <2> QED BY <2>1, <2>2, QuietHandlers
<1>9. CASE UNCHANGED vars
  BY <1>8, <1>9 DEF vars, others
<1> QED BY <1>1, <1>2, <1>3, <1>4, <1>5, <1>6, <1>7, <1>8, <1>9 DEF Next

(* The three invariants hold in every behaviour.                          *)
LEMMA Invariance == Spec => [](JobInvariant /\ TimeInvariant /\ HandlerInvariant)
<1>1. Init => JobInvariant /\ TimeInvariant /\ HandlerInvariant
  BY JobInvariantInit, TimeInvariantInit, HandlerInvariantInit DEF Init
<1> QED BY <1>1, JobInvariantNext, TimeInvariantNext, HandlerInvariantNext, PTL DEF Spec

(* However many requests and wakes interleave, the outcome that a request  *)
(* saw of a job is recorded by the time no handler is under way.           *)
THEOREM OutcomesAreReported == Spec => []PolledOutcomesReported
<1>1. HandlerInvariant => PolledOutcomesReported
  BY IdleDoesNothing DEF HandlerInvariant, PolledKept, PolledOutcomesReported, AllIdle
<1> QED BY <1>1, Invariance, PTL

(* No change of a source is recorded twice, and none that is remembered is *)
(* left unrecorded.                                                        *)
THEOREM ChangesAreRecordedOnce == Spec => []EveryChangeRecordedOnce
<1>1. HandlerInvariant => EveryChangeRecordedOnce
  <2> SUFFICES ASSUME HandlerInvariant
               PROVE  EveryChangeRecordedOnce
    OBVIOUS
  <2>1. AllIdle => \A s \in Sources : remembered[s] # NoReading => log[Event(s, remembered[s])] > 0
    BY IdleDoesNothing DEF HandlerInvariant, ReadingsKept, AllIdle
  <2>2. ASSUME NEW s \in Sources, NEW v \in Readings
        PROVE  Recorded(s, {v}) <= 1 + Recorded(s, Readings \ {v})
    <3>1. /\ Cardinality(Entries(log, s, Readings \ {v})) \in Nat
          /\ Cardinality(Entries(log, s, {v})) \in Nat
      BY EntriesFinite DEF HandlerInvariant, HandlerTypes
    <3>2. /\ Cardinality(Recorders(requests, s, Readings \ {v})) \in Nat
          /\ Cardinality(Recorders(requests, s, {v})) \in Nat
      BY RecordersFinite
    <3>3. Recorded(s, Readings \ {v}) \in Nat /\ Recorded(s, {v}) \in Nat
      BY <3>1, <3>2 DEF Recorded, Entries, Recorders
    <3>4. Recorded(s, {v}) <= Recorded(s, Readings \ {v}) + (IF remembered[s] = v THEN 1 ELSE 0)
      BY DEF HandlerInvariant, Succession
    <3> QED BY <3>3, <3>4
  <2> QED BY <2>1, <2>2 DEF EveryChangeRecordedOnce
<1> QED BY <1>1, Invariance, PTL

Flagged == stopped \in BOOLEAN

(* The flags of the jobs that ran are flags.                              *)
LEMMA FlaggedInv == Spec => []Flagged
<1>1. Init => Flagged
  BY Zenon DEF Init, InitJobs, Flagged
<1>2. [Next]_vars => UNCHANGED stopped \/ Stop
  <2> SUFFICES ASSUME [Next]_vars, ~Stop
               PROVE  stopped' = stopped
    OBVIOUS
  <2>1. CASE \E c \in Clients : \/ \E s \in Sources : ReadSource(c, s)
                               \/ ReadJobs(c)
                               \/ Mark(c)
                               \/ Observe(c)
                               \/ Record(c)
    BY <2>1 DEF ReadSource, ReadJobs, Mark, Observe, Record, jobVars
  <2>2. CASE \E s \in Sources, v \in Readings : WorldChanges(s, v)
    BY <2>2 DEF WorldChanges, jobVars
  <2>3. CASE \E g \in senders : Run(g)
    BY <2>3 DEF Run, Attempt, Continue, TimerFires, Finish, FinishCancelled, End
  <2>4. CASE TimePasses
    BY <2>4 DEF TimePasses
  <2>5. CASE UNCHANGED vars
    BY <2>5 DEF vars, jobVars
  <2>6. CASE \E c \in Clients, d \in Devices : AcceptWake(c, d)
    BY <2>6 DEF AcceptWake, Wake
  <2> QED BY <2>1, <2>2, <2>3, <2>4, <2>5, <2>6 DEF Next
<1>3. Flagged /\ [Next]_vars => Flagged'
  BY <1>2, Zenon DEF Flagged, Stop
<1> QED BY <1>1, <1>3, PTL DEF Spec

(* The handlers' states are among those of TypeOK.                        *)
LEMMA RequestsTyped == RequestSet \subseteq Requests
<1> SUFFICES ASSUME NEW r \in RequestSet
             PROVE  r \in Requests
  OBVIOUS
<1>1. CASE r = Idle
  BY <1>1 DEF Idle, Requests
<1>2. CASE r \in SourceReads
  BY <1>2, SourceEvent DEF SourceReads, Requests
<1>3. CASE r \in WakeMarks
  <2>1. \A d \in Devices : Event(d, "started") \in Events
    BY DEF Event, Events, Keys
  <2>2. PICK d \in Devices : r.todo = <<Event(d, "started")>>
    BY <1>3 DEF WakeMarks
  <2>3. r.todo \in Seq(Events)
    BY <2>1, <2>2
  <2> QED BY <1>3, <2>3 DEF WakeMarks, Requests
<1>4. CASE r \in JobReads
  <2>1. r.todo \in Seq(Events)
    <3>1. \A e \in JobEvents : e \in Events
      BY DEF JobEvents, Events, Keys
    <3>2. r.todo \in Seq(JobEvents)
      BY <1>4 DEF JobReads
    <3> QED BY <3>1, <3>2
  <2> QED BY <1>4, <2>1 DEF JobReads, Requests
<1> QED BY <1>1, <1>2, <1>3, <1>4 DEF RequestSet

(* The invariants imply the types.                                        *)
LEMMA TypesHold ==
  ASSUME JobInvariant, TimeInvariant, HandlerInvariant, Flagged
  PROVE  TypeOK
<1>1. TotalAttempts \in Nat
  BY SendsFit
<1>2. jobs \in [Devices -> {NoJob} \cup [id : 1 .. MaxWakes, state : Outcomes \cup {"running"},
                                         attempts : 0 .. TotalAttempts, sent : 0 .. TotalAttempts]]
  <2> SUFFICES ASSUME NEW d \in Devices, jobs[d] # NoJob
               PROVE  jobs[d] \in [id : 1 .. MaxWakes, state : Outcomes \cup {"running"},
                                   attempts : 0 .. TotalAttempts, sent : 0 .. TotalAttempts]
    BY DEF JobInvariant, JobTypes
  <2>1. jobs[d] \in Jobs /\ Counted(jobs[d])
    BY DEF JobInvariant, JobTypes, TimeInvariant, Counts
  <2> QED BY <1>1, <2>1 DEF Jobs, Counted
<1>3. senders \subseteq [id : 1 .. MaxWakes, device : Enabled, made : 0 .. TotalAttempts,
                         phase : {"sending", "waiting", "next"}, age : Nat, left : Nat]
  <2> SUFFICES ASSUME NEW g \in senders
               PROVE  g \in [id : 1 .. MaxWakes, device : Enabled, made : 0 .. TotalAttempts,
                             phase : {"sending", "waiting", "next"}, age : Nat, left : Nat]
    OBVIOUS
  <2>1. g \in Senders /\ Pace(g)
    BY DEF JobInvariant, JobTypes, TimeInvariant, Paced
  <2> QED BY <2>1 DEF Senders, Pace
<1>4. wakes \in 0 .. MaxWakes
  BY DEF TimeInvariant, Counts
<1>5. requests \in [Clients -> Requests]
  BY RequestsTyped DEF HandlerInvariant, HandlerTypes
<1>6. \A k \in Keys : remembered[k] \in {NoReading, "running"} \cup
                                      (IF k \in Sources THEN Readings ELSE Outcomes)
  BY DEF HandlerInvariant, HandlerTypes, Keys
<1>7. world \in [Sources -> Readings] /\ changes \in 0 .. MaxChanges /\ log \in [Events -> Nat]
  BY DEF HandlerInvariant, HandlerTypes
<1> QED BY <1>2, <1>3, <1>4, <1>5, <1>6, <1>7, Zenon DEF TypeOK, Flagged

(* Jobs, goroutines, requests and what is remembered keep their types; no  *)
(* job makes, or sends, more attempts than its schedule has (TypeOK).      *)
THEOREM TypeCorrect == Spec => []TypeOK
<1>1. JobInvariant /\ TimeInvariant /\ HandlerInvariant /\ Flagged => TypeOK
  BY TypesHold
<1> QED BY <1>1, Invariance, FlaggedInv, PTL
=============================================================================
