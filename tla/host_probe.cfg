CONSTANTS
  Users = {u1}
  NBufs = 2
  MaxSessions = 2
SPECIFICATION Spec
INVARIANT NoUrbLeftOver
CHECK_DEADLOCK FALSE
