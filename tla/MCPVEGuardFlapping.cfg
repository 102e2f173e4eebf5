\* Mains that come and go, and then stay lost.
SPECIFICATION Spec
CONSTANTS
  Guests = {g1, g2}
  StopAllMargin = 4
  ForceTimeout = 3
  PoweroffTimeout = 2
  RestartDelay = 1
  MaxTime = 40
  LastChange = 15
  Settings <- Default
  Limits <- Flapping
INVARIANT OutageShutsDown
\* The clock stops at MaxTime, and a host that is off may stay off.
CHECK_DEADLOCK FALSE
