SPECIFICATION FairSpec
CONSTANTS
  None = None
  Threads = {h1, h2}
  Callers = {c1, c2}
  Tasks = {k1, k2}
  Ids = {1, 2}
  Elapses = {1}
  Hour = 2
  MaxTime = 2
CHECK_DEADLOCK FALSE
INVARIANTS
  TaskHasThread
PROPERTIES
  ImplementsQueue
  PostedIsRun
  DueFires
  EndJoins
