CONSTANTS
  scan = scan
  scan2 = scan2
  drain = drain
  Procs = {p1, p2, p3}
  Barriers = {0, 1, 2}
  Tags = {scan, scan2, drain}
  Default = default
  Prefixed <- Distinct
  Program <- Practice
SPECIFICATION Spec
INVARIANTS AtOwnBarrier RegistrationsCounted NobodyPassesUnregarded NobodyAbandoned
PROPERTY ProgramsFinish
