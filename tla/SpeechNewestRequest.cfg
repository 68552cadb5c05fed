\* An older text replaces a newer one, with nothing failing.
SPECIFICATION Spec
CONSTANTS
  MaxReady = 2
  MaxRetries = 1
  SegmentCounts = {1, 3}
  Disturbances = {}
  MaxDisturbances = 0
  MaxUserActions = 3
PROPERTIES
  NewestRequestStarts
