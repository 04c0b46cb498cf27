SPECIFICATION Spec
CONSTANTS
  c1 = c1
  c2 = c2
  Clients = {c1, c2}
  Carried = 1
  Boxed = 1
  Lying = 0
  MaxNum = 2
  MaxRevision = 1
  MaxPackets = 3
SYMMETRY Symmetry
CHECK_DEADLOCK FALSE
INVARIANTS
  TypeOK
  StoreFollows
  TokenIsSound
  ClientsAgree
  ItemsConserved
