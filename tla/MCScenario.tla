------------------------------ MODULE MCScenario -------------------------------
(* Instances of Scenario.                                                  *)
EXTENDS Scenario, TLC

CONSTANTS vm, ct

Detections ==
  {[nutConfirm |-> n, networkConfirm |-> 2, totalBudget |-> 6, emergencyReserve |-> r,
    recoverySuccessCount |-> 2] : n \in {1, 3}, r \in {1, 2}}

Timings == {[detection |-> d, interval |-> i] : d \in Detections, i \in 1..4}

(* An LB sample is the same evidence as an OB sample, and a NUT server     *)
(* that is unreachable while a network is alive is none, like OL.          *)
Shown ==
  {[nut |-> "OL", lan |-> TRUE, wan |-> TRUE],
   [nut |-> "OB", lan |-> TRUE, wan |-> TRUE],
   [nut |-> "UNREACHABLE", lan |-> FALSE, wan |-> FALSE]}

Obedient == [graceful |-> "stopped", delay |-> 2, force |-> "stopped"]

(* A host on which ct obeys and vm does anything; a delay only matters to  *)
(* a guest that stops, and neither matters when stopall fails.             *)
Hosts ==
  {[stopAll |-> "success", poweroff |-> "success", guest |-> (vm :> v) @@ (ct :> Obedient)] :
     v \in {v \in GuestScript : v.graceful = "stopped" \/ v.delay = 0}}
  \cup
  {[stopAll |-> "failure", poweroff |-> p,
    guest |-> (vm :> [Obedient EXCEPT !.force = f]) @@ (ct :> Obedient)] :
     f \in {"stopped", "failure"}, p \in {"success", "failure"}}
=============================================================================
