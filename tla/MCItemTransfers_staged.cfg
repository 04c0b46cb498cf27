SPECIFICATION Spec
CONSTANTS
  c1 = c1
  Clients = {c1}
  Carried = 1
  Boxed = 1
  Lying = 0
  MaxNum = 2
  MaxRevision = 2
  MaxPackets = 3
CHECK_DEADLOCK FALSE
INVARIANTS
  StagedIsSafe
