\* The NAS hangs while the gateway answers.
SPECIFICATION Spec
CONSTANTS
  gateway = gateway
  dns1 = dns1
  dns2 = dns2
  LAN = {gateway}
  WAN = {dns1, dns2}
  Detection <- Detecting
  Interval = 3
  RoundTimeout = 2
  PVETimeout = 1
  PingTimeout = 1
  Worlds <- NASFaults
  MaxTime = 20
  LastChange = 4
  MaxChanges = 1
INVARIANT NUTFaultPlansNothing
\* The clock stops at MaxTime.
CHECK_DEADLOCK FALSE
