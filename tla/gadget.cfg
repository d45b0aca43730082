CONSTANTS
  Users = {u1, u2, u3}
  Nobody = nobody
SPECIFICATION Spec
INVARIANTS OneTransfer SettlesOwn NoLostWakeup
PROPERTIES CrashesExplained EndedTransfersReturn
CHECK_DEADLOCK FALSE
