SPECIFICATION Spec
CONSTANTS
  None = None
  Workers = {w1, w2}
  Tasks = {t1, t2}
  Backlog = {}
  Outside = {"TERM"}
  CrashIn = {"loop", "task", "send"}
  Garbage = {"zero", "small"}
  MaySwallow = TRUE
  MaxFaults = 2
CHECK_DEADLOCK FALSE
SYMMETRY SlotSymmetry
INVARIANTS
  RecordNamesTheTask
  MarksBacked
  StopLeavesNoWorker
PROPERTIES
  ImplementsService
