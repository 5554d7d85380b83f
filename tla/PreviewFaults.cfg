SPECIFICATION ContainerSpec
CONSTANTS
  MaxFlow = 2
  MaxRestarts = 1
  MaxFaults = 1
  FaultKinds <- PodFaults
  Lagging = {"pod"}
  EditAnyTime = TRUE
INVARIANTS
  BuiltHasImage
  TypeOK
  SucceededBuildPushedItsContext
PROPERTIES
  ContainerBuildImplementsLifecycle
