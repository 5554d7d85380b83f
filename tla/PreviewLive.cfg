SPECIFICATION FairSpec
CONSTANTS
  MaxFlow = 1
  MaxRestarts = 1
  MaxFaults = 1
  FaultKinds <- RecoverableFaults
  Lagging = {}
  EditAnyTime = TRUE
INVARIANTS
  AlwaysReconcilable
PROPERTIES
  Converges
  RestartTakenUp
