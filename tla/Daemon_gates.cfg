CONSTANTS
  a = a  b = b  i1 = i1  i2 = i2
  Task = {a, b}
  Instance = {i1}
  None = None
  Def <- DefGated
  Sqlite = FALSE
  Faults = {}
  U32Max = 1
  RunsMax = 1
  MaxPending = 4
  Permits = 1
  Requests = {"pause"}
  MaxEntries = 1
  Watching = FALSE
SPECIFICATION Spec
CHECK_DEADLOCK FALSE
INVARIANT TypeOK NoTaskLost
