------------------------------- MODULE MCDryRun -------------------------------
(* Instances of DryRun: one LAN and two WAN targets, the NAS that serves   *)
(* NUT being no target.                                                    *)
EXTENDS DryRunProofs

CONSTANTS gateway, dns1, dns2

Detecting ==
  [nutConfirm |-> 4, networkConfirm |-> 7, totalBudget |-> 14, emergencyReserve |-> 4,
   recoverySuccessCount |-> 2]

Mains     == [nut |-> "OL", pve |-> "up", alive |-> {gateway, dns1, dns2}]
PVEHung   == [Mains EXCEPT !.pve = "hangs"]
OnBattery == [Mains EXCEPT !.nut = "OB"]
Stopped   == [OnBattery EXCEPT !.pve = "stopped"]
Dark      == [nut |-> "refuses", pve |-> "refuses", alive |-> {}]
NASDown   == [nut |-> "refuses", pve |-> "hangs", alive |-> {dns1}]
NASHung   == [nut |-> "hangs", pve |-> "up", alive |-> {gateway, dns1}]

Seen == {Mains, PVEHung, OnBattery, Stopped, Dark, NASDown, NASHung}

NASFaults == {Mains, NASDown, NASHung}
=============================================================================
