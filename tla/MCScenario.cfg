\* Every timing of a budget of 6, a sample every 1 to 4 units, two guests.
SPECIFICATION Spec
CONSTANTS
  vm = vm
  ct = ct
  Guests = {vm, ct}
  MaxDelay = 3
  Configs <- Timings
  Scripts <- Hosts
  NoScript = NoScript
  Supplies <- Shown
  Duration = 8
INVARIANTS TypeOK PoweroffAccountsForGuests OutageTimeline
\* A scenario ends.
CHECK_DEADLOCK FALSE
