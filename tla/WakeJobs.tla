------------------------------- MODULE WakeJobs -------------------------------
(***************************************************************************)
(* The Wake-on-LAN jobs of powercheck-manager (internal/wol/manager.go): a *)
(* record per device, shared under a mutex by the requests and by the      *)
(* goroutine that sends the job's packets.  Only the state in the record   *)
(* keeps a second goroutine from the device.                               *)
(*                                                                         *)
(* A goroutine knows its age and what is left of its current send or wait. *)
(***************************************************************************)
EXTENDS Integers, FiniteSets, Sequences

CONSTANTS
  DeviceList, Enabled,   \* configured devices, in order; those that may be woken
  Duration, Interval,    \* wol.Config
  SendTimeout,           \* UDPSender's bound on one packet
  NoJob,                 \* of a device never woken
  MaxWakes               \* bound: jobs started

Devices == {DeviceList[i] : i \in DOMAIN DeviceList}

(* wol.Config.Validate.                                                    *)
ASSUME ScheduleAssumption ==
  /\ DeviceList \in Seq(Devices)
  /\ Enabled \subseteq Devices
  /\ {Duration, Interval, SendTimeout} \subseteq Nat \ {0}
  /\ MaxWakes \in Nat

Outcomes == {"completed", "failed", "cancelled"}

ASSUME NoJobAssumption ==
  NoJob \notin [id : Nat, state : Outcomes \cup {"running"}, attempts : Nat, sent : Nat]

VARIABLES
  jobs,      \* Manager.jobs
  senders,   \* the goroutines of Manager.run
  wakes,     \* jobs started so far
  stopped    \* the manager's context is done

jobVars == <<jobs, senders, wakes, stopped>>

(* Mutant: a packet at the end of the duration too.                        *)
SendOffsetsInclusive == {at \in 0 .. Duration : at % Interval = 0}

SendOffsets == {at \in 0 .. (Duration - 1) : at % Interval = 0}

TotalAttempts == Cardinality(SendOffsets)

NewJob == [id |-> wakes + 1, state |-> "running", attempts |-> 0, sent |-> 0]

NewSender(d) ==
  [id |-> wakes + 1, device |-> d, made |-> 0, phase |-> "sending", age |-> 0, left |-> SendTimeout]

Running(d) == jobs[d] # NoJob /\ jobs[d].state = "running"

InitJobs ==
  /\ jobs = [d \in Devices |-> NoJob]
  /\ senders = {} /\ wakes = 0 /\ stopped = FALSE

-----------------------------------------------------------------------------
(* Mutant: a second job replaces the one that runs.                        *)
WakeAgain(d) ==
  /\ d \in Enabled /\ wakes < MaxWakes
  /\ jobs' = [jobs EXCEPT ![d] = NewJob]
  /\ senders' = senders \cup {NewSender(d)}
  /\ wakes' = wakes + 1
  /\ UNCHANGED stopped

(* A device that is unknown, disabled or busy is refused.                  *)
Wake(d) ==
  /\ d \in Enabled /\ ~Running(d) /\ wakes < MaxWakes
  /\ jobs' = [jobs EXCEPT ![d] = NewJob]
  /\ senders' = senders \cup {NewSender(d)}
  /\ wakes' = wakes + 1
  /\ UNCHANGED stopped

Become(g, h) == senders' = (senders \ {g}) \cup {h}

(* A packet is sent, or is not, and the attempt recorded.                  *)
Attempt(g, ok) ==
  /\ g \in senders /\ g.phase = "sending"
  /\ jobs' = [jobs EXCEPT ![g.device].attempts = @ + 1,
                          ![g.device].sent = IF ok THEN @ + 1 ELSE @]
  /\ Become(g, [g EXCEPT !.phase = "next", !.made = @ + 1])
  /\ UNCHANGED <<wakes, stopped>>

(* Mutant: the interval counts from the end of the last attempt.           *)
OffsetFromLast(g) == g.age + Interval

Offset(g) == g.made * Interval

(* The next attempt has its time from the start of the job; one whose time *)
(* has passed is made at once.                                             *)
Continue(g) ==
  LET wait == Offset(g) - g.age IN
  /\ g \in senders /\ g.phase = "next" /\ g.made < TotalAttempts
  /\ \/ wait > 0 /\ Become(g, [g EXCEPT !.phase = "waiting", !.left = wait])
     \/ wait <= 0 /\ Become(g, [g EXCEPT !.phase = "sending", !.left = SendTimeout])
  /\ UNCHANGED <<jobs, wakes, stopped>>

TimerFires(g) ==
  /\ g \in senders /\ g.phase = "waiting" /\ g.left = 0
  /\ Become(g, [g EXCEPT !.phase = "sending", !.left = SendTimeout])
  /\ UNCHANGED <<jobs, wakes, stopped>>

End(g, state) ==
  /\ jobs' = [jobs EXCEPT ![g.device].state = state]
  /\ senders' = senders \ {g}
  /\ UNCHANGED <<wakes, stopped>>

Finish(g) ==
  /\ g \in senders /\ g.phase = "next" /\ g.made = TotalAttempts
  /\ End(g, IF jobs[g.device].sent > 0 THEN "completed" ELSE "failed")

(* Only a wait notices the end of the context.                             *)
FinishCancelled(g) ==
  /\ g \in senders /\ g.phase = "waiting" /\ stopped
  /\ End(g, "cancelled")

Run(g) ==
  \/ \E ok \in BOOLEAN : Attempt(g, ok)
  \/ Continue(g)
  \/ TimerFires(g)
  \/ Finish(g)
  \/ FinishCancelled(g)

(* SIGTERM; the HTTP server still drains its requests.                     *)
Stop ==
  /\ ~stopped
  /\ stopped' = TRUE
  /\ UNCHANGED <<jobs, senders, wakes>>

(* Time passes once every goroutine has reached its next wait or send.     *)
TimePasses ==
  /\ \A g \in senders : g.left > 0 /\ g.phase # "next" /\ ~(g.phase = "waiting" /\ stopped)
  /\ senders' = {[g EXCEPT !.age = @ + 1, !.left = @ - 1] : g \in senders}
  /\ UNCHANGED <<jobs, wakes, stopped>>
-----------------------------------------------------------------------------
(* A job is running exactly while one goroutine sends for it, which has    *)
(* made the recorded attempts: a repeated wake never puts two goroutines   *)
(* on one record, whose attempts and outcome would then be mixed           *)
(* (Manager.Wake, CHANGELOG.md:13).                                        *)
JobOwnsItsSender ==
  /\ \A g, h \in senders : g.device = h.device => g = h
  /\ \A d \in Devices :
       Running(d) <=> \E g \in senders :
                        /\ g.device = d
                        /\ jobs[d] # NoJob /\ g.id = jobs[d].id /\ g.made = jobs[d].attempts

(* The longest a job can take: a send every interval within the duration,  *)
(* each up to its bound, the last one in its time or as late as the sends  *)
(* before it make it.                                                      *)
Sends == (Duration + Interval - 1) \div Interval
LongestJob ==
  IF SendTimeout <= Interval THEN Duration - 1 + SendTimeout ELSE Sends * SendTimeout

(* A job ends in its time however slow its sends are: the schedule does    *)
(* not drift with them, and no send is made at the end of the duration     *)
(* (Manager.run, schedule.go:8).                                           *)
JobEndsInTime == \A g \in senders : g.age <= LongestJob /\ g.made <= Sends
=============================================================================
