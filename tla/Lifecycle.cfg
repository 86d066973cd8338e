CONSTANTS
  c1 = c1  c2 = c2
  Client = {c1, c2}
  Spawns = 2
  Limited = {2}
  None = None
SPECIFICATION Spec
INVARIANT LifecycleTypeOK SingleDaemon ServingIsFound
PROPERTY StopEndsDaemon CallReturns
