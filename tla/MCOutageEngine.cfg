SPECIFICATION Spec
CONSTANTS
  NUTConfirm = 2
  NetworkConfirm = 3
  TotalBudget = 6
  EmergencyReserve = 2
  RecoverySuccessCount = 2
  MaxTime = 7
INVARIANTS TypeOK BudgetAnchored PoweroffByReserve
PROPERTIES ShutdownExactlyWhenConfirmed  ImplementsProtocol
