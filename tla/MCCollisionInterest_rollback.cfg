SPECIFICATION Spec
CONSTANTS
  Players = {"p", "q"}
  Cells = {1, 2, 3}
  Interests <- RowInterests
  Failing = {1}
  MaxGeneration = 5
CONSTRAINT Bounded
INVARIANTS OwnedCellsStayLoaded
