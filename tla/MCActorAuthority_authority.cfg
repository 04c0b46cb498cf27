SPECIFICATION Spec
CONSTANTS
  Cells = {"x0", "x1"}
  Exterior = {"x0", "x1"}
  Distance <- MCDistance
  Radius = 1
  PreferExactCell = FALSE
  Reports <- WideReports
  Actors = {"pet"}
  Spawned = {"pet"}
  Persistent = {}
  MaxGuid = 2
  MaxGeneration = 2
INVARIANTS TypeOK LeaseOwnerOnline 
PROPERTIES LeaseFence HandoversHaveCause
CHECK_DEADLOCK FALSE
