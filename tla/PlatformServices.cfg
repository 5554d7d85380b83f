SPECIFICATION FairSpec
CONSTANTS
  Services <- DataIndexAndJobs
  Order <- DataIndexFirst
  TriggersOf <- FewTriggers
  SinkService <- JobsOnly
  Specs <- MixedSpecs
  Lagging = TRUE
  MaxFaults = 2
  FaultKinds <- AllServiceFaults
INVARIANTS
  ServicesTypeOK
  PlatformFinalizerGuardsTriggers
PROPERTIES
  EventuallyComplete
CHECK_DEADLOCK FALSE
