CONSTANTS
  None = None
  odd = odd  late = late  bad = bad  utc = utc  nowhere = nowhere
  Expr = {odd, late, bad}
  Zone = {utc, nowhere}
  Occurs <- Occurrences
  Bits = 4
  BackoffCap = 3
  GraceDefault = 1
  Settings <- SomeSettings
  Start = 4
  Horizon = 8
  MaxPending = 2
  MaxTimers = 2
  MaxCalls = 2
  MaxConn = 1
SPECIFICATION Spec
CHECK_DEADLOCK FALSE
INVARIANT PacingTypeOK RateCap  ScheduleParses
PROPERTY  OccurrenceOnce NoSilentOverwrite RequestServed
