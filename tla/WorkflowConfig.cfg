SPECIFICATION FairSpec
CONSTANTS
  UserProps <- TwoProps
  InitialPlatforms <- TwoPlatforms
  MaxConfigFaults = 2
  ConfigFaultKinds <- AllConfigFaults
INVARIANTS ConfigTypeOK
PROPERTIES ConfigSettles
