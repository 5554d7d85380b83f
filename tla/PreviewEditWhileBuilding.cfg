SPECIFICATION Spec
CONSTANTS
  MaxFlow = 2
  MaxRestarts = 0
  MaxFaults = 0
  FaultKinds <- NoFaults
  Lagging = {}
  EditAnyTime = TRUE
INVARIANTS
  ImageMatchesCRC
