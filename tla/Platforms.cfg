SPECIFICATION FairSystemSpec
CONSTANTS
  Platforms <- TwoPlatforms
  Default <- DefaultPlatform
  WithCache <- NoNames
  ClusterPlatforms <- TwoClusterPlatforms
  Scenarios <- PlatformsOrCluster
  Secondary <- NoNames
  OpenShift = FALSE
  Lagging <- OtherOnly
  MaxVersion = 2
  MaxFaults = 1
  FaultKinds <- AllPlatformFaults
INVARIANTS
  PlatformTypeOK
  OnlyOneActive
PROPERTIES
  OneBecomesActive
  ControllersAgree
CHECK_DEADLOCK FALSE
