SPECIFICATION Spec
CONSTANTS
  Requests = {r1, r2, r3, r4}
  Huge = {r4}
  Room = 3
  Nobody = Nobody
  MaxDrops = 1
  UParts = 2
  UThreads = 2
  UNetRetries = {0, 2}
  ULosses = 3
  URewrites = 1
  DSizes = {1, 2, 3}
  DThreads = 2
  DNetRetries = {0, 3}
  DLosses = 2
  DReplaces = 1
  Callers = {c1, c2}
  MaxHandles = 2
  MaxRetries = 1
  NoCaller = NoCaller
  HFaults = 2
  InitFaults = 2
  Buffers <- MCBuffers
  Objects <- MCObjects
  Transfers <- MCTransfers
  NoSample = NoSample
CHECK_DEADLOCK FALSE
INVARIANTS
  RequestsStayWhole
  OnePlace
  UnreadWereMerged
  StoredIsLocal
  FileIsObject
  TransfersFailHonestly
  TransfersAgree
  HandlesAreKept
  ObjectIsItsParts
PROPERTIES
  LinkProceeds
  TransfersResume
  CallsEnd
  ImplementsCall
