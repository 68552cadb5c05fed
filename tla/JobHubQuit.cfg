\* Nothing goes wrong: a model is loading when the user quits.
SPECIFICATION Spec
CONSTANTS
  Pids = {p1, p2}
  NoPid = NoPid
  Handlers = {"load", "quit"}
  Disturbances = {}
  MaxUserActions = 2
  MaxDisturbances = 0
CHECK_DEADLOCK FALSE
INVARIANTS
  NoWorkerOutlivesQuit
