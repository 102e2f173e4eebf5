------------------------------ MODULE MCPVEGuard ------------------------------
(* Instances of PVEGuard: the configurations and the disturbances of each  *)
(* run.                                                                    *)
EXTENDS PVEGuardProofs, TLC

Setting(confirm, budget, reserve, recoveries, interval, timeout) ==
  [detection |-> [nutConfirm |-> confirm, networkConfirm |-> confirm, totalBudget |-> budget,
                  emergencyReserve |-> reserve, recoverySuccessCount |-> recoveries],
   interval |-> interval, guestTimeout |-> timeout]

(* The default configuration in units of its 5 s interval.                 *)
Default == <<Setting(6, 24, 9, 3, 1, 9)>>

(* The same shape in fewer instants.                                       *)
Small == <<Setting(2, 8, 3, 2, 1, 3)>>

(* Two revisions that leave time for a flicker of the mains before the     *)
(* emergency, and for a retry after it.                                    *)
Changing == <<Setting(2, 10, 4, 2, 1, 3), Setting(3, 17, 6, 2, 2, 2)>>

(* Guests are interchangeable in the runs of safety properties.            *)
Interchangeable == Permutations(Guests)

Never == [d \in Disturbance |-> 0]

Disturbed == [d \in Disturbance |-> IF d = "flips" THEN 3 ELSE 1]
Failing   == [Never EXCEPT !["flips"] = 3, !["commands"] = 1, !["loads"] = 1]
OneCrash  == [Never EXCEPT !["flips"] = 2, !["crashes"] = 1]
Flapping  == [Never EXCEPT !["flips"] = 5]

(* The instance with commands that fail is one of those that               *)
(* HostIsOffInBudget is about.                                             *)
ASSUME FailingLeavesTime ==
  Settings = Changing /\ Limits = Failing => LeavesTime
=============================================================================
