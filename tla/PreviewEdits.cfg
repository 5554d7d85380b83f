SPECIFICATION Spec
CONSTANTS
  MaxFlow = 2
  MaxRestarts = 0
  MaxFaults = 1
  FaultKinds <- LostRequests
  Lagging = {"workflow", "build", "pod", "configs"}
  EditAnyTime = FALSE
INVARIANTS
  AlwaysReconcilable
  BuiltHasImage
  ImageMatchesCRC
  SucceededBuildPushedItsContext
