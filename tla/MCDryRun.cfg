\* Any four changes of the world among mains, battery, darkness and hung or refusing peers.
SPECIFICATION Spec
CONSTANTS
  gateway = gateway
  dns1 = dns1
  dns2 = dns2
  LAN = {gateway}
  WAN = {dns1, dns2}
  Detection <- Detecting
  Interval = 3
  RoundTimeout = 2
  PVETimeout = 1
  PingTimeout = 1
  Worlds <- Seen
  MaxTime = 26
  LastChange = 10
  MaxChanges = 4
INVARIANTS TypeOK RoundsKeepUp LiveTargetVetoes OutagePlanned
PROPERTY PoweroffNeedsGuests
\* The clock stops at MaxTime.
CHECK_DEADLOCK FALSE
