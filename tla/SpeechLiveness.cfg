\* Two disturbances of any kind.
SPECIFICATION FairSpec
CONSTANTS
  MaxReady = 2
  MaxRetries = 1
  SegmentCounts = {1, 3}
  Disturbances = {"evict", "loadError", "synthError", "synthHang", "workerDies", "unloadError", "fallback", "noPlayer", "spawnError", "missing", "appendError", "playerDies"}
  MaxDisturbances = 2
  MaxUserActions = 2
PROPERTIES
  JobEnds
  WaitingSpeechResolved
  ComesToRest
