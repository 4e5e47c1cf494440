SPECIFICATION Spec
CONSTANTS
  ExecCap = 2
  UserCap = 2
INVARIANTS
  ProducersStopFirst
CHECK_DEADLOCK FALSE
