SPECIFICATION Spec
CONSTANTS
  None = None
  j1 = j1
  j2 = j2
  b1 = b1
  b2 = b2
  Jobs = {j1, j2}
  PubKnown = {j1, j2}
  Parts = {p1, p2}
  Branches = {b1, b2}
  Flow <- Flows
  SaveOf <- Saves
  Config <- FileConfig
  Docs <- Messages12
  Kinds = {"bad", "clean"}
  StartCounts = {0}
  MaxFaults = 0
CHECK_DEADLOCK FALSE
INVARIANTS
  OwnResult
