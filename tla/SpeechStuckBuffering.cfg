\* The last segment fails twice and is skipped while an earlier one is heard.
SPECIFICATION FairSpec
CONSTANTS
  MaxReady = 2
  MaxRetries = 1
  SegmentCounts = {3}
  Disturbances = {"synthError"}
  MaxDisturbances = 2
  MaxUserActions = 1
PROPERTIES
  BufferingEndsWithTheQueue
