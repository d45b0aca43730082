SPECIFICATION Spec
CONSTANTS
  MaxTries = 4
  MaxHandshakes = 2
  MaxGroupKeys = 3
  MaxFaults = 2
  MayFailLocal = TRUE
INVARIANTS KeysAgree PairwiseKeyInstalledOnce TimeoutHasCause NoThreadBehindUnref
PROPERTY OnlyJoinHangs
CHECK_DEADLOCK FALSE
