CONSTANTS
  a = a  b = b  i1 = i1  i2 = i2
  Task = {a}
  Instance = {i1, i2}
  None = None
  Def <- DefOnce
  Sqlite = TRUE
  Faults = {"store"}
  U32Max = 2
  RunsMax = 2
  MaxPending = 2
  Permits = 1
  Requests = {"cancel", "stop"}
  MaxEntries = 2
  Watching = TRUE
SPECIFICATION Spec
CHECK_DEADLOCK FALSE
PROPERTY ImplementsAdmission
