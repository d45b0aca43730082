SPECIFICATION Spec
CONSTANTS
  MaxTries = 2
  MaxHandshakes = 1
  MaxGroupKeys = 1
  MaxFaults = 0
  MayFailLocal = FALSE
PROPERTY LastUnrefEndsLoop
CHECK_DEADLOCK FALSE
