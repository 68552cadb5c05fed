\* Every handler and every disturbance: safety of the job thread's workers.
SPECIFICATION Spec
CONSTANTS
  Pids = {p1, p2, p3}
  NoPid = NoPid
  Handlers = {"load", "unload", "work", "stop", "unloadAll", "quit"}
  Disturbances = {"error", "oom", "saysTimeout", "unread", "unreadOom", "unreadTimedOut", "timeout", "spawnError", "workerDies", "pidReused"}
  MaxUserActions = 3
  MaxDisturbances = 2
CHECK_DEADLOCK FALSE
INVARIANTS
  TypeOK
  NoStrayWorker
  MemoryAccounted
  LoadedMeansHeld
  StopReachesSynthesis
  StatusCurrent
PROPERTIES
  KeepsSlots
SYMMETRY PidSymmetry
