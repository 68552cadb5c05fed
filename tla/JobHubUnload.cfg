\* Nothing goes wrong: a model is loaded and unloaded.
SPECIFICATION Spec
CONSTANTS
  Pids = {p1, p2}
  NoPid = NoPid
  Handlers = {"load", "unload"}
  Disturbances = {}
  MaxUserActions = 2
  MaxDisturbances = 0
CHECK_DEADLOCK FALSE
PROPERTIES
  UnloadEndsProcess
