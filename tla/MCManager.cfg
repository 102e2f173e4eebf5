\* Two wakes of one device, whose sends may outlast the interval, and two changes of the UPS.
SPECIFICATION Spec
CONSTANTS
  node = node
  nas = nas
  browser = browser
  other = other
  DeviceList <- Configured
  Enabled = {node}
  Duration = 2
  Interval = 1
  SendTimeout = 2
  NoJob = NoJob
  MaxWakes = 2
  Clients = {browser, other}
  Sources = {"nut"}
  Readings = {"OL", "OB"}
  NoReading = NoReading
  MaxChanges = 2
INVARIANTS TypeOK JobOwnsItsSender JobEndsInTime  
SYMMETRY Symmetric
\* Jobs and changes are bounded.
CHECK_DEADLOCK FALSE
