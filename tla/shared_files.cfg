SPECIFICATION FilesSpec
CONSTANTS
  None = None
  p = p
  w = w
  main = main
  mqtt = mqtt
  task = task
  Procs = {p, w}
  Parent = p
  Threads = {main, mqtt, task}
  Owner <- Owners
  Reserve = 1
  Forker = main
  FirstDay = 2
  LastDay = 4
  Tasks = {t1, t2}
  Slots = {1, 2}
  Starts = {TRUE, FALSE}
  LastSecond = 2
  MaxFaults = 1
  Chars = {"a", "/", "."}
  Texts <- MCTexts
  Blocks <- MCBlocks
  NoText = NoText
CHECK_DEADLOCK FALSE
INVARIANTS
  LineKept
  OldIsBehindGap
  FailureIsOwn
  TrashHasCause
  RequestsSurvive
  TextIsKept
PROPERTIES
  KeptIsAnswered
