-------------------------------- MODULE Console -------------------------------
(***************************************************************************)
(* The parts of the console of a PVE node (internal/pveweb) that share no  *)
(* state: its logins and sessions, the configuration it stores for the     *)
(* guard, and its rounds of agent tests.  Each behaviour is of one part.   *)
(***************************************************************************)
EXTENDS ConsoleLogin, ConsoleConfig, AgentRound

CONSTANTS
  Parts,                   \* the parts to look at
  MaxTime                  \* bound on the clock

ASSUME BoundsAssumption == MaxTime \in Nat

VARIABLE part

vars == <<now, part, login, configuration, agents>>

Init ==
  /\ now = 0
  /\ part \in Parts
  /\ InitLogin /\ InitConfig /\ InitRound
  /\ part # "agents" => \A g \in VMs : agent[g] = "answers"

Tick ==
  /\ now < MaxTime
  /\ part = "agents" => RoundIdle
  /\ part # "config"
  /\ now' = now + 1
  /\ UNCHANGED <<part, login, configuration, agents>>

Next ==
  \/ part = "login"  /\ LoginStep  /\ UNCHANGED <<now, part, configuration, agents>>
  \/ part = "config" /\ ConfigStep /\ UNCHANGED <<now, part, login, agents>>
  \/ part = "agents" /\ RoundStep  /\ UNCHANGED <<now, part, login, configuration>>
  \/ Tick

Spec == Init /\ [][Next]_vars

TypeOK ==
  /\ part \in Parts /\ now \in 0..MaxTime
  /\ LoginTypeOK /\ ConfigTypeOK /\ RoundTypeOK
=============================================================================
