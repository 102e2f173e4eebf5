--------------------------- MODULE ShutdownProtocol ---------------------------
(***************************************************************************)
(* What powercheck promises of an outage, without evidence, timers or      *)
(* counters (the state machine that docs and tests of internal/core name   *)
(* by its four states).  An outage is watched, may be cancelled while it   *)
(* is watched, and is never cancelled once the shutdown has begun; the     *)
(* shutdown asks the guests first, forces the remaining ones only when     *)
(* `Warning' has passed since the outage began, and ends with the host's   *)
(* poweroff no later than the first sample after that moment.              *)
(***************************************************************************)
EXTENDS Integers, Sequences

CONSTANTS
  Warning,   \* from the first evidence to the emergency stop
  Times      \* the times a sample may have

VARIABLES phase, issued, now, began

vars == <<phase, issued, now, began>>

Graceful == <<"graceful_shutdown">>
Orderly  == <<"graceful_shutdown", "host_poweroff_requested">>
Forced   == <<"graceful_shutdown", "emergency_stop_remaining", "host_poweroff_requested">>

Init == phase = "NORMAL" /\ issued = <<>> /\ now = -1 /\ began = -1

Late(t) == t >= began + Warning

Watch ==
  /\ phase = "NORMAL"
  /\ UNCHANGED <<phase, issued, began>>

Open(t) ==
  /\ phase = "NORMAL"
  /\ phase' = "CONFIRMING_OUTAGE"
  /\ began' = t
  /\ UNCHANGED issued

Confirming ==
  /\ phase = "CONFIRMING_OUTAGE"
  /\ UNCHANGED <<phase, issued, began>>

Cancel ==
  /\ phase = "CONFIRMING_OUTAGE"
  /\ phase' = "NORMAL"
  /\ began' = -1
  /\ UNCHANGED issued

(* The guests are asked to stop, and the sample leaves time to wait.       *)
Shutdown(t) ==
  /\ phase = "CONFIRMING_OUTAGE"
  /\ ~Late(t)
  /\ phase' = "SHUTTING_DOWN"
  /\ issued' = Graceful
  /\ UNCHANGED began

Wait(t) ==
  /\ phase = "SHUTTING_DOWN"
  /\ ~Late(t)
  /\ UNCHANGED <<phase, issued, began>>

(* The host is asked to power off: all guests are down, or it is late.     *)
Finish(t) ==
  /\ phase \in {"CONFIRMING_OUTAGE", "SHUTTING_DOWN"}
  /\ phase' = "POWERED_OFF"
  /\ issued' = Orderly \/ (Late(t) /\ issued' = Forced)
  /\ UNCHANGED began

Over ==
  /\ phase = "POWERED_OFF"
  /\ UNCHANGED <<phase, issued, began>>

Next ==
  \E t \in Times :
    /\ t > now
    /\ now' = t
    /\ Watch \/ Open(t) \/ Confirming \/ Cancel \/ Shutdown(t) \/ Wait(t) \/ Finish(t) \/ Over

Spec == Init /\ [][Next]_vars
=============================================================================
