CONSTANTS
  Users = {u1, u2}
  NBufs = 2
  MaxSessions = 2
SPECIFICATION Spec
INVARIANTS OneCallPerBuffer TransferSettled
PROPERTIES StaleFilesRefused OnlyLateCallsCrash CallbackEnds DisconnectEndsTransfers
CHECK_DEADLOCK FALSE
