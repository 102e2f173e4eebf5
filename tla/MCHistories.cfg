\* Records enough to fill every store and to expire; any two failures or crashes.
SPECIFICATION Spec
CONSTANTS
  Kinds = {"events", "guard", "samples"}
  Retention = 2
  Capacity = 4
  MaxLimit = 3
  DefaultLimit = 2
  CompactEvery = 2
  MaxTime = 5
  MaxRecords = 6
  MaxFaults = 2
INVARIANTS TypeOK Retained 
\* Clock and records are bounded.
CHECK_DEADLOCK FALSE
