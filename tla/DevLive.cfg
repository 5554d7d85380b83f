SPECIFICATION FairSpec
CONSTANTS
  Retries = 3
  Interval = 10
  AfterFailure = 3
  AfterRunning = 1
  MaxFaults = 2
  FaultKinds <- EveryFault
  CacheLag = TRUE
INVARIANTS
  DevTypeOK
  GivesUpOnlyAfterTrying
PROPERTIES
  DevConverges
