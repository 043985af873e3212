SPECIFICATION Spec
CONSTANTS
  None = None
  Workers = {w1, w2}
  Tasks = {t1, t2, t3}
  Backlog = {}
  Outside = {}
  CrashIn = {"task"}
  Garbage = {"zero"}
  MaySwallow = FALSE
  MaxFaults = 2
CHECK_DEADLOCK FALSE
PROPERTIES
  OverflowMeansLoaded
