CONSTANTS
  Procs = {p1, p2, p3}
  Barriers = {0, 1}
  Program <- TimedThenPlain
  Users <- Everybody
SPECIFICATION Spec
INVARIANTS OnlyRejectedKeepLock NobodyPassesAlone NobodyAbandoned
PROPERTY EveryCallReturns
CHECK_DEADLOCK FALSE
