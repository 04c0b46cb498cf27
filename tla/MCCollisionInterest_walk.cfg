SPECIFICATION Spec
CONSTANTS
  Players = {"p", "q"}
  Cells = {1, 2, 3}
  Interests <- RowInterests
  Failing = {2}
  MaxGeneration = 7
CONSTRAINT Bounded
INVARIANTS TypeOK RefsFollowOwners GeometryFollowsDoors StampsAreFresh
