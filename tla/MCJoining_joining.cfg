SPECIFICATION Spec
CONSTANTS
  Clients = {c, d}
  Characters = {x, y}
  NoCharacter = none
  Revision <- Same
  Limit = 2
  Impatient = {c}
  MaxRecords = 1
  MaxPackets = 1
SYMMETRY Symmetry
INVARIANTS TypeOK PlaysTheSelected ContentBeforeWorld
  NobodyWaitsInVain
PROPERTIES ImplementsSessions
