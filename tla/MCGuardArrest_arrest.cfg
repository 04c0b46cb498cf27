SPECIFICATION OffenderSpec
CONSTANTS
  Players = {p, q}
  Guards = {g, h}
  Cells = {c, d}
  Nobody = none
  Offender = p
  Rival = q
  ArrestFrom = 1
  CombatFrom = 2
  MaxBounty = 2
  MaxCommits = 2
  MaxMoves = 1
  MaxPackets = 1
SYMMETRY Symmetry
INVARIANTS TypeOK NoPursuitWithoutCause OneOffer OfferStands ClientCatchesUp
PROPERTIES  ResistIsFinal
CHECK_DEADLOCK FALSE
