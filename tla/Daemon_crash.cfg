CONSTANTS
  a = a  b = b  i1 = i1  i2 = i2
  Task = {a, b}
  Instance = {i1, i2}
  None = None
  Def <- DefPair
  Sqlite = TRUE
  Faults = {"crash"}
  U32Max = 2
  RunsMax = 2
  MaxPending = 4
  Permits = 1
  Requests = {"cancel", "stop"}
  MaxEntries = 1
  Watching = FALSE
SPECIFICATION Spec
CHECK_DEADLOCK FALSE
INVARIANT  QueueByPriority InFlightHoldsPermit
PROPERTY SuccessIsFinal
