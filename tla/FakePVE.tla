------------------------------- MODULE FakePVE --------------------------------
(***************************************************************************)
(* The PVE host of the simulator (internal/fakepve): an executor in memory *)
(* whose guests and commands answer as a scenario scripts them, and that   *)
(* logs what a real one would run.  It is a set of operators on a host     *)
(* record p, like the engine's Step, with the script b and the time `at'   *)
(* of the call.                                                            *)
(*                                                                         *)
(* The log is a set: it says when, what, of which guest and with which     *)
(* outcome, and the order of shutdown_order among the events of one call   *)
(* is left out, with names, commands and methods.  So are the agent tests: *)
(* TestAgent logs a scripted answer and touches nothing that a command     *)
(* reads.                                                                  *)
(***************************************************************************)
EXTENDS Integers

CONSTANTS
  Guests,
  MaxDelay                 \* bound on the delay of a graceful shutdown

(* The guest of an event that concerns the host, a shutdown without end.   *)
NoGuest == "host"
NoEnd   == -1

(* What normalizeConfig lets through, its defaults filled in.              *)
GuestScript ==
  [graceful : {"stopped", "stuck", "failure"}, delay : 0..MaxDelay,
   force : {"stopped", "failure"}]

Script ==
  [stopAll : {"success", "failure"}, poweroff : {"success", "failure"},
   guest : [Guests -> GuestScript]]

Event ==
  [at : Nat,
   kind : {"stopall", "guest_shutdown", "guest_stopped", "guest_force", "host_poweroff"},
   guest : Guests \cup {NoGuest},
   outcome : {"success", "failure", "blocked"}]

NewHost ==
  [state |-> [g \in Guests |-> "running"], stopDue |-> [g \in Guests |-> NoEnd],
   gracefulStarted |-> FALSE, events |-> {}]

AllGuestsStopped(p) == \A g \in Guests : p.state[g] = "stopped"

Unstopped(p) == {g \in Guests : p.state[g] # "stopped"}

Said(at, kind, guests, outcome) ==
  {[at |-> at, kind |-> kind, guest |-> g, outcome |-> outcome] : g \in guests}

(* Mutant: the end that was due stays due.                                 *)
StoppedStillDue(p, guests) ==
  [p EXCEPT !.state = [g \in Guests |-> IF g \in guests THEN "stopped" ELSE @[g]]]

(* The guests of a set stop, and no later end is due for them.             *)
Stopped(p, guests) ==
  [p EXCEPT !.state   = [g \in Guests |-> IF g \in guests THEN "stopped" ELSE @[g]],
            !.stopDue = [g \in Guests |-> IF g \in guests THEN NoEnd ELSE @[g]]]

-----------------------------------------------------------------------------
(* The graceful shutdowns that have had their time.                        *)
Ended(p, at) ==
  {g \in Guests : p.state[g] = "stopping" /\ p.stopDue[g] # NoEnd /\ p.stopDue[g] <= at}

Advance(p, at) ==
  [Stopped(p, Ended(p, at)) EXCEPT
     !.events = @ \cup Said(at, "guest_stopped", Ended(p, at), "success")]

(* Each guest that has not stopped is asked to: it stops after its delay,  *)
(* hangs, or refuses and keeps running.                                    *)
Ask(b, p, at) ==
  LET answering(how) == {g \in Unstopped(p) : b.guest[g].graceful = how}
  IN  [p EXCEPT
         !.state   = [g \in Guests |->
                        CASE g \in answering("stopped") \cup answering("stuck") -> "stopping"
                          [] g \in answering("failure")                         -> "running"
                          [] OTHER                                              -> @[g]],
         !.stopDue = [g \in Guests |->
                        CASE g \in answering("stopped") -> at + b.guest[g].delay
                          [] g \in answering("stuck")   -> NoEnd
                          [] OTHER                      -> @[g]],
         !.events  = @ \cup Said(at, "guest_shutdown",
                                 answering("stopped") \cup answering("stuck"), "success")
                       \cup Said(at, "guest_shutdown", answering("failure"), "failure")]

(* stopall is run once; when it fails no guest is asked.                   *)
StartGracefulShutdown(b, p, at) ==
  LET q == [p EXCEPT !.gracefulStarted = TRUE,
                     !.events = @ \cup Said(at, "stopall", {NoGuest}, b.stopAll)]
  IN  CASE p.gracefulStarted                             -> p
        [] ~p.gracefulStarted /\ b.stopAll = "failure" -> q
        [] OTHER                                         -> Advance(Ask(b, q, at), at)

(* Mutant: a guest that is already stopping is left alone.                 *)
ForceRunning(b, p, at) ==
  LET obeying == {g \in Guests : p.state[g] = "running" /\ b.guest[g].force = "stopped"}
      others  == {g \in Guests : p.state[g] = "running"} \ obeying
  IN  [Stopped(p, obeying) EXCEPT
         !.events = @ \cup Said(at, "guest_force", obeying, "success")
                      \cup Said(at, "guest_force", others, "failure")]

ForceRemaining(b, p, at) ==
  LET obeying == {g \in Unstopped(p) : b.guest[g].force = "stopped"}
  IN  [Stopped(p, obeying) EXCEPT
         !.events = @ \cup Said(at, "guest_force", obeying, "success")
                      \cup Said(at, "guest_force", Unstopped(p) \ obeying, "failure")]

RequestHostPoweroff(b, p, at) ==
  [p EXCEPT !.events =
     @ \cup Said(at, "host_poweroff", {NoGuest},
                 IF AllGuestsStopped(p) THEN b.poweroff ELSE "blocked")]
=============================================================================
