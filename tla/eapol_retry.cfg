SPECIFICATION Spec
CONSTANTS
  MaxTries = 2
  MaxHandshakes = 1
  MaxGroupKeys = 2
  MaxFaults = 1
  MayFailLocal = FALSE
INVARIANT FreshFramesAccepted
CHECK_DEADLOCK FALSE
