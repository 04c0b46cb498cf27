SPECIFICATION Spec
CONSTANTS
  a = a
  b = b
  Clients = {a, b}
  BaseLocked = TRUE
  MaxRevision = 3
  MaxResets = 0
  MaxInFlight = 2
  MaxKept = 2
  MaxKeepers = 2
SYMMETRY Symmetry
INVARIANTS ClientsConverge
