SPECIFICATION Spec
CONSTANTS
  Events <- TwoEvents
  EventSpecs <- ThreeSources
  InitialStatuses <- PreviewStatuses
  MaxFaults = 1
  FaultKinds <- Deletion
INVARIANTS NoTriggerLeft
CHECK_DEADLOCK FALSE
