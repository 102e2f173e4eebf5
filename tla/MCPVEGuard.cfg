\* Two crashes, failures, a guest started, a power cut of the host and its reboot.
SPECIFICATION Spec
CONSTANTS
  Guests = {g1, g2}
  StopAllMargin = 1
  ForceTimeout = 1
  PoweroffTimeout = 1
  RestartDelay = 1
  MaxTime = 12
  LastChange = 4
  Settings <- Small
  Limits <- Disturbed
SYMMETRY Interchangeable
INVARIANTS TypeOK GracefulFirst BudgetNotRenewed
PROPERTIES ShutdownJustified SavedShutdownSticks PoweroffSparesGuests
\* The clock stops at MaxTime, and a host that is off may stay off.
CHECK_DEADLOCK FALSE
