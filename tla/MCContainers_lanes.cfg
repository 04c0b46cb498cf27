SPECIFICATION UntouchedSpec
CONSTANTS
  Clients = {a, b}
  NoClient = none
  Rolls = {1}
  InOrder = FALSE
  MaxGeneration = 4
  MaxResets = 1
  MaxPackets = 4
SYMMETRY ClientSymmetry
INVARIANTS ContentIsFresh
CHECK_DEADLOCK FALSE
