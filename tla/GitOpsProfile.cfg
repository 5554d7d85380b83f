SPECIFICATION FairSpec
CONSTANTS
  Events <- TwoEvents
  EventSpecs <- ThreeSources
  InitialStatuses <- PreviewStatuses
  MaxFaults = 2
  FaultKinds <- AllGitOpsFaults
INVARIANTS GitOpsTypeOK FinalizerGuardsTriggers
PROPERTIES ListedStaysListed EventuallyDeployed
CHECK_DEADLOCK FALSE
