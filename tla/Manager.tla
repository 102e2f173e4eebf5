-------------------------------- MODULE Manager --------------------------------
(***************************************************************************)
(* powercheck-manager: its Wake-on-LAN jobs, and the handlers that turn    *)
(* what their requests see into events (internal/managerweb/server.go).    *)
(* A handler reads a state, later compares it with the one remembered,     *)
(* under a mutex, and after that records the change.  Any number of        *)
(* handlers run at once, between these steps and those of the jobs.        *)
(*                                                                         *)
(* The log counts the events recorded since the process began.             *)
(***************************************************************************)
EXTENDS WakeJobs

CONSTANTS
  Clients,               \* requests under way at once
  Sources,               \* "nut" and "pve", or one of them
  Readings,              \* what a source may be read as
  NoReading,             \* of a key never observed
  MaxChanges             \* bound: changes of the sources

VARIABLES
  world, changes,        \* what each source is; its changes so far
  remembered,            \* Server.eventState
  requests,              \* what the handler of each client is about to do
  log,                   \* how often each event was recorded
  polled, reported       \* history, see PolledOutcomesReported

history == <<polled, reported>>
vars == <<jobVars, world, changes, remembered, requests, log, history>>

Keys == Sources \cup Devices

(* The keys of the sources are none of the devices'; "" is no reading, and *)
(* the states of a job are none of a source.                               *)
ASSUME KeysAssumption ==
  /\ Sources \cap Devices = {}
  /\ NoReading \notin Readings \cup Outcomes \cup {"running"}
  /\ "running" \notin Readings
ASSUME BoundsAssumption ==
  IsFiniteSet(Clients) /\ IsFiniteSet(Readings) /\ MaxChanges \in Nat

Idle == [phase |-> "idle", todo |-> <<>>]

Event(k, v) == [key |-> k, value |-> v]
Events == [key : Keys, value : Readings \cup Outcomes \cup {"running", "started"}]

Init ==
  /\ InitJobs
  /\ world \in [Sources -> Readings] /\ changes = 0
  /\ remembered = [k \in Keys |-> NoReading]
  /\ requests = [c \in Clients |-> Idle]
  /\ log = [e \in Events |-> 0]
  /\ polled = {} /\ reported = {}

-----------------------------------------------------------------------------
(* The collector takes a sample, or PVE changes.                           *)
WorldChanges(s, v) ==
  /\ changes < MaxChanges /\ v # world[s]
  /\ world' = [world EXCEPT ![s] = v]
  /\ changes' = changes + 1
  /\ UNCHANGED <<jobVars, remembered, requests, log, history>>

Asks(c, request) ==
  /\ requests[c] = Idle
  /\ requests' = [requests EXCEPT ![c] = request]

(* handleNUTStatus reads the collector's latest status; managerPVEProxy    *)
(* forwards a status request.                                              *)
ReadSource(c, s) ==
  /\ Asks(c, [phase |-> "observe", todo |-> <<Event(s, world[s])>>])
  /\ UNCHANGED <<jobVars, world, changes, remembered, log, history>>

(* A handler that has the wake of d under way.                             *)
Waking(d) == \E c \in Clients : requests[c].todo = <<Event(d, "started")>>

Woken == {i \in DOMAIN DeviceList : jobs[DeviceList[i]] # NoJob}

(* handleWOLStatus: one snapshot of every job, in the devices' order.      *)
ReadJobs(c) ==
  /\ \E n \in 1 .. Len(DeviceList) : \E at \in [1 .. n -> Woken] :
       /\ \A i, j \in 1 .. n : i < j => at[i] < at[j]
       /\ \A i \in Woken : \E j \in 1 .. n : at[j] = i
       /\ Asks(c, [phase |-> "observe",
                   todo |-> [j \in 1 .. n |-> Event(DeviceList[at[j]], jobs[DeviceList[at[j]]].state)]])
  /\ polled' = polled \cup {Event(d, jobs[d].state) :
                             d \in {e \in Devices : jobs[e] # NoJob /\ ~Running(e) /\ ~Waking(e)}}
  /\ UNCHANGED <<jobVars, world, changes, remembered, log, reported>>

(* handleWOLWake, accepted: the job runs before the handler goes on.       *)
AcceptWake(c, d) ==
  /\ Wake(d)
  /\ Asks(c, [phase |-> "mark", todo |-> <<Event(d, "started")>>])
  /\ polled' = {e \in polled : e.key # d}
  /\ reported' = {e \in reported : e.key # d}
  /\ UNCHANGED <<world, changes, remembered, log>>

Goes(c, phase, todo) ==
  requests' = [requests EXCEPT ![c] = IF todo = <<>> THEN Idle ELSE [phase |-> phase, todo |-> todo]]

(* Mutant: the new job's state is left to the requests to observe.         *)
MarkNothing(c) ==
  /\ requests[c].phase = "mark"
  /\ Goes(c, "record", requests[c].todo)
  /\ UNCHANGED <<jobVars, world, changes, remembered, log, history>>

(* setEventState.                                                          *)
Mark(c) ==
  /\ requests[c].phase = "mark"
  /\ remembered' = [remembered EXCEPT ![Head(requests[c].todo).key] = "running"]
  /\ Goes(c, "record", requests[c].todo)
  /\ UNCHANGED <<jobVars, world, changes, log, history>>

(* Mutant: the first reading of a source is no change.                     *)
WorthAnEventOfChange(e) == remembered[e.key] # NoReading /\ e.value # "running"

(* A running job is an event of handleWOLWake's.                           *)
WorthAnEvent(e) == e.value # "running"

(* Mutant: any reading is taken for a change.                              *)
AlwaysChanged(e) == TRUE

Changed(e) == remembered[e.key] # e.value

(* transitionEventState, for the first of what the handler read.           *)
Observe(c) ==
  LET e == Head(requests[c].todo)
      rest == Tail(requests[c].todo) IN
  /\ requests[c].phase = "observe"
  /\ \/ /\ Changed(e)
        /\ remembered' = [remembered EXCEPT ![e.key] = e.value]
        /\ IF WorthAnEvent(e) THEN Goes(c, "record", requests[c].todo) ELSE Goes(c, "observe", rest)
     \/ /\ ~Changed(e)
        /\ Goes(c, "observe", rest)
        /\ UNCHANGED remembered
  /\ UNCHANGED <<jobVars, world, changes, log, history>>

(* recordEvent.                                                            *)
Record(c) ==
  LET e == Head(requests[c].todo) IN
  /\ requests[c].phase = "record"
  /\ log' = [log EXCEPT ![e] = @ + 1]
  /\ reported' = IF e.value \in Outcomes THEN reported \cup {e} ELSE reported
  /\ Goes(c, "observe", Tail(requests[c].todo))
  /\ UNCHANGED <<jobVars, world, changes, remembered, polled>>

-----------------------------------------------------------------------------
others == <<world, changes, remembered, requests, log, history>>

Next ==
  \/ \E c \in Clients :
       \/ \E s \in Sources : ReadSource(c, s)
       \/ ReadJobs(c)
       \/ \E d \in Devices : AcceptWake(c, d)
       \/ Mark(c)
       \/ Observe(c)
       \/ Record(c)
  \/ \E s \in Sources, v \in Readings : WorldChanges(s, v)
  \/ (\E g \in senders : Run(g)) /\ UNCHANGED others
  \/ Stop /\ UNCHANGED others
  \/ TimePasses /\ UNCHANGED others

Spec == Init /\ [][Next]_vars

-----------------------------------------------------------------------------
AllIdle == \A c \in Clients : requests[c] = Idle

Requests == [phase : {"idle", "observe", "mark", "record"},
             todo : Seq(Events)]

TypeOK ==
  /\ jobs \in [Devices -> {NoJob} \cup [id : 1 .. MaxWakes, state : Outcomes \cup {"running"},
                                         attempts : 0 .. TotalAttempts, sent : 0 .. TotalAttempts]]
  /\ senders \subseteq [id : 1 .. MaxWakes, device : Enabled, made : 0 .. TotalAttempts,
                        phase : {"sending", "waiting", "next"}, age : Nat, left : Nat]
  /\ wakes \in 0 .. MaxWakes /\ stopped \in BOOLEAN
  /\ world \in [Sources -> Readings] /\ changes \in 0 .. MaxChanges
  /\ requests \in [Clients -> Requests] /\ log \in [Events -> Nat]
  /\ \A k \in Keys : remembered[k] \in {NoReading, "running"} \cup
                                     (IF k \in Sources THEN Readings ELSE Outcomes)

(* Once no handler is under way, the outcome of a job that was over when a *)
(* status request began, the request that woke it having been answered, is *)
(* among the events recorded since that wake: no order of two requests and *)
(* a job's end hides it, nor does an equal outcome of an earlier job       *)
(* (handleWOLWake, observeWOLStatus, CHANGELOG.md:8).                      *)
PolledOutcomesReported == AllIdle => polled \subseteq reported

(* The events of a source's readings vs, recorded or about to be.          *)
Recorded(s, vs) ==
  Cardinality(UNION {{v} \X (1 .. log[Event(s, v)]) : v \in vs}) +
  Cardinality({c \in Clients : \E v \in vs :
                requests[c] = [phase |-> "record", todo |-> <<Event(s, v)>>]})

(* A change of a source is recorded once, by one of the requests that see  *)
(* it: no reading stays remembered, and so is never again reported,        *)
(* without its event once no handler is under way; and the events of a     *)
(* source, recorded and about to be, in whatever order they came, are      *)
(* those of a succession of different readings (observeNUTStatus,          *)
(* observePVERequest, transitionEventState).                               *)
EveryChangeRecordedOnce ==
  /\ AllIdle => \A s \in Sources :
       remembered[s] # NoReading => log[Event(s, remembered[s])] > 0
  /\ \A s \in Sources, v \in Readings :
       Recorded(s, {v}) <= 1 + Recorded(s, Readings \ {v})
=============================================================================
