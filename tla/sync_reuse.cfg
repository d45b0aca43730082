CONSTANTS
  Procs = {p1, p2, p3}
  Barriers = {0}
  Schedule <- Twice
SPECIFICATION Spec
INVARIANT NobodyPassesEarly
