CONSTANTS
  cmd = cmd  req = req  w1 = w1
  Task = {cmd, req}
  Kind <- Kinds
  Runs <- TwoOfCmd
  Defs <- SomeDefs
  Faults = {"crash", "store", "panic"}
  Thread = {w1}
  None = None
  MaxCrashes = 1
SPECIFICATION Spec
CHECK_DEADLOCK FALSE
INVARIANT PoolTypeOK  NoChildLeft SuccessIsEarned
PROPERTY ExecutionEnds JobTaken
