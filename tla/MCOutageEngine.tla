---------------------------- MODULE MCOutageEngine ----------------------------
(* The engine over eight sample times: an outage fits with its             *)
(* confirmation, a cancellation, a second outage and its emergency stop.   *)
EXTENDS OutageEngineProofs
=============================================================================
