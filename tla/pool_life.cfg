SPECIFICATION LifeSpec
CONSTANTS
  None = None
  Workers = {w1, w2}
  Tasks = {t1, t2, t3}
  Backlog = {t1}
  Outside = {"INT", "TERM"}
  CrashIn = {"task"}
  Garbage = {"zero", "big"}
  MaySwallow = FALSE
  MaxFaults = 2
CHECK_DEADLOCK FALSE
PROPERTIES
  DeadIsReaped
  TaskIsAnswered
  CrashReportIsNews
  TermStops
  OverflowIsHonest
