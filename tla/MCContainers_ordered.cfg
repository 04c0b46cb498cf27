SPECIFICATION Spec
CONSTANTS
  Clients = {a, b}
  NoClient = none
  Rolls = {1, 2}
  InOrder = TRUE
  MaxGeneration = 4
  MaxResets = 1
  MaxPackets = 1
SYMMETRY ClientSymmetry
INVARIANTS TypeOK ContentIsFresh StoresAgree NoTakeForgotten
PROPERTIES RecordedOnce TakesAreFenced
CHECK_DEADLOCK FALSE
