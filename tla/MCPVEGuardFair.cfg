\* The mains may flicker, the console stores a second revision,
\* a load and any one command fail.
SPECIFICATION FairSpec
CONSTANTS
  Guests = {g1, g2}
  StopAllMargin = 1
  ForceTimeout = 1
  PoweroffTimeout = 1
  RestartDelay = 1
  MaxTime = 25
  LastChange = 4
  Settings <- Changing
  Limits <- Failing
 
PROPERTIES OutageEndsWithHostOff 
\* The clock stops at MaxTime, and a host that is off may stay off.
CHECK_DEADLOCK FALSE
