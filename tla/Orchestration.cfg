CONSTANTS
  w1 = w1  w2 = w2
  Size = 3
  Worker = {w1, w2}
  Handler = Handler
  None = None
  MaxRequeues = 1
SPECIFICATION FairSpec
CHECK_DEADLOCK FALSE
INVARIANT OrchestrationTypeOK DispatchedOnce DependenciesMet RecordTruthful
PROPERTY ChordEndsOnce ChainSettles
