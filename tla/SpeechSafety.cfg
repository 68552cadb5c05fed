\* Every disturbance, two at most: safety of the speech pipeline.
SPECIFICATION Spec
CONSTANTS
  MaxReady = 2
  MaxRetries = 1
  SegmentCounts = {1, 4}
  Disturbances = {"evict", "loadError", "synthError", "synthHang", "workerDies", "unloadError", "fallback", "noPlayer", "spawnError", "missing", "appendError", "playerDies"}
  MaxDisturbances = 2
  MaxUserActions = 3
INVARIANTS
  TypeOK
  OneSynthInFlight
  PrebufferBounded
  OnlyLiveSpeechPlays
  SpeechInOrder
  BadgeAgreesWhenQuiet
  WaitingSpeechHasLoad
  SpeechSupport
PROPERTIES
  StoppedStaysStopped
  KeepsPromise
