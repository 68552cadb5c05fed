\* A Stop against a worker that never answers, and the end of Unload all.
SPECIFICATION FairSpec
CONSTANTS
  Pids = {p1, p2}
  NoPid = NoPid
  Handlers = {"load", "work", "stop", "unloadAll", "quit"}
  Disturbances = {"error", "unread", "timeout", "workerDies"}
  MaxUserActions = 3
  MaxDisturbances = 1
CHECK_DEADLOCK FALSE
PROPERTIES
  StopUnblocks
  UnloadAllFrees
