CONSTANTS
  Masters = {m1, m2}
  Clients = {c1, c2}
  ClientCount = 2
  MaxSections = 2
  NoArea = NoArea
SPECIFICATION Spec
INVARIANTS MasterOutlivesClients EveryCompletionCounted
PROPERTIES MasterDies NobodyLeftAsleep
CHECK_DEADLOCK FALSE
