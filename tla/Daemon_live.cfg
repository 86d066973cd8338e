CONSTANTS
  a = a  b = b  i1 = i1  i2 = i2
  Task = {a}
  Instance = {i1, i2}
  None = None
  Def <- DefOnce
  Sqlite = TRUE
  Faults = {}
  U32Max = 2
  RunsMax = 2
  MaxPending = 4
  Permits = 1
  Requests = {"cancel"}
  MaxEntries = 1
  Watching = FALSE
SPECIFICATION FairSpec
CHECK_DEADLOCK FALSE
PROPERTY EverySettles CancelResolves
