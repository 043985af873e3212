SPECIFICATION FairSpec
CONSTANTS
  None = None
  Workers = {w1, w2}
  Tasks = {t1}
  Backlog = {}
  Outside = {}
  CrashIn = {"loop"}
  Garbage = {"zero"}
  MaySwallow = FALSE
  MaxFaults = 1
CHECK_DEADLOCK FALSE
PROPERTIES
  DeadIsReaped
