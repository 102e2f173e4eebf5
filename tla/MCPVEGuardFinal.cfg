\* A crash of the guard after stopall began.
SPECIFICATION Spec
CONSTANTS
  Guests = {g1, g2}
  StopAllMargin = 4
  ForceTimeout = 3
  PoweroffTimeout = 2
  RestartDelay = 1
  MaxTime = 30
  LastChange = 12
  Settings <- Default
  Limits <- OneCrash
INVARIANT ShutdownIsFinal
\* The clock stops at MaxTime, and a host that is off may stay off.
CHECK_DEADLOCK FALSE
