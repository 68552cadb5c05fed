\* A process of another program gets the pid of a worker that was reaped.
SPECIFICATION Spec
CONSTANTS
  Pids = {p1, p2}
  NoPid = NoPid
  Handlers = {"load", "work", "unloadAll"}
  Disturbances = {"workerDies", "pidReused"}
  MaxUserActions = 3
  MaxDisturbances = 2
CHECK_DEADLOCK FALSE
INVARIANTS
  SignalsOnlyOwn
