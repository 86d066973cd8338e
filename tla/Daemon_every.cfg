CONSTANTS
  a = a  b = b  i1 = i1  i2 = i2
  Task = {b}
  Instance = {i1}
  None = None
  Def <- DefEvery
  Sqlite = TRUE
  Faults = {}
  U32Max = 2
  RunsMax = 2
  MaxPending = 4
  Permits = 1
  Requests = {}
  MaxEntries = 1
  Watching = FALSE
SPECIFICATION FairSpec
CHECK_DEADLOCK FALSE
PROPERTY KeepsFiring
