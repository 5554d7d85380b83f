SPECIFICATION FairSpec
CONSTANTS
  MaxVersion = 2
  MaxBuilds = 3
  MaxEvents = 2
  FaultKinds <- AllBuildFaults
INVARIANTS
  OpenShiftTypeOK
  OneBuildFollowed
  ImageIsCurrent
PROPERTIES
  EventuallyEnds
  ImplementsLifecycle
CHECK_DEADLOCK FALSE
