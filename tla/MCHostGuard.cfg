\* Three changes of the world, a crash, a failure and a reboot.
SPECIFICATION Spec
CONSTANTS
  Detection <- Detecting
  Interval = 1
  Worlds <- Seen
  RoundTime = 4
  NUTTime = 3
  PingTime = 1
  PoweroffTimeout = 2
  RestartDelay = 1
  MaxTime = 19
  LastChange = 4
  Limits <- Disturbed
INVARIANTS TypeOK 
PROPERTIES PoweroffConfirmed  SavedShutdownEndsOff
\* The clock stops at MaxTime, and a host that is off may stay off.
CHECK_DEADLOCK FALSE
