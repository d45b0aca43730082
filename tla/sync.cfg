CONSTANTS
  Procs = {p1, p2, p3}
  Barriers = {0, 1}
  Schedule <- Alternating
SPECIFICATION Spec
INVARIANTS MutexInv LeaderInv NobodyPassesEarly NoTokenLeftOver
PROPERTIES ImplementsBarrier EveryoneGetsThrough
