----------------------------- MODULE MCHostGuard -----------------------------
(* An instance of HostGuard: a configuration of the default's shape in     *)
(* fewer instants, with the time for one fault, and what the manager's     *)
(* host may see of its UPS, the NAS that serves NUT, and the networks.     *)
EXTENDS HostGuardProofs

Detecting ==
  [nutConfirm |-> 2, networkConfirm |-> 2, totalBudget |-> 13, emergencyReserve |-> 3,
   recoverySuccessCount |-> 2]

Mains       == [supply |-> "OL", nut |-> "answers", lan |-> <<TRUE, TRUE, TRUE>>, wan |-> <<TRUE, TRUE>>]
OnBattery   == [Mains EXCEPT !.supply = "OB"]
Blackout    == [supply |-> "OB", nut |-> "silent", lan |-> <<FALSE, FALSE, FALSE>>, wan |-> <<FALSE, FALSE>>]
NASStopped  == [Mains EXCEPT !.nut = "refuses", !.lan = <<TRUE, FALSE, TRUE>>]
NASHung     == [Mains EXCEPT !.nut = "silent", !.lan = <<TRUE, FALSE, FALSE>>, !.wan = <<FALSE, FALSE>>]

Seen == {Mains, OnBattery, Blackout, NASStopped, NASHung}

Disturbed == [d \in Disturbance |-> IF d = "changes" THEN 3 ELSE 1]

(* The instance is one of those that HostIsOffInBudget is about.           *)
ASSUME InstanceLeavesTime == LeavesTime
=============================================================================
