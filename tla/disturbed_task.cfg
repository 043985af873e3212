SPECIFICATION DiskSpec
CONSTANTS
  Tasks = {t1, t2}
  Slots = {2}
  Starts = {FALSE}
  LastSecond = 2
  MaxFaults = 0
CHECK_DEADLOCK FALSE
INVARIANTS
  Undisturbed
