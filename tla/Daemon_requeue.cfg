CONSTANTS
  a = a  b = b  i1 = i1  i2 = i2
  Task = {a}
  Instance = {i1, i2}
  None = None
  Def <- DefWatched
  Sqlite = FALSE
  Faults = {}
  U32Max = 2
  RunsMax = 2
  MaxPending = 4
  Permits = 2
  Requests = {"cancel", "requeue", "remove"}
  MaxEntries = 1
  Watching = TRUE
SPECIFICATION Spec
CHECK_DEADLOCK FALSE
SYMMETRY Symmetry
INVARIANT RunningHasOwner FlagReachesExecutor ConcurrencyCap OverlapBalanced
