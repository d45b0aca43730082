CONSTANTS
  Tests <- Mixed
  Defs <- Example
  Settings <- MixedSettings
  Override = 0
  Returns = {0, 1}
  CallerIgnores = TRUE
  ForksMayFail = TRUE
SPECIFICATION Spec
INVARIANTS NoFailureLost ResultCountsFailures EveryCombinationTried
PROPERTY RunEnds
