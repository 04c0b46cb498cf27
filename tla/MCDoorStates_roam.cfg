SPECIFICATION Spec
CONSTANTS
  a = a
  b = b
  Clients = {a, b}
  BaseLocked = TRUE
  MaxRevision = 2
  MaxResets = 1
  MaxInFlight = 1
  MaxKept = 2
  MaxKeepers = 1
SYMMETRY Symmetry
INVARIANTS TypeOK 
PROPERTIES ToldStands
