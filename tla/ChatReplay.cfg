CONSTANTS
  MaxRequests = 2
  NoKey = NoKey
  Base = 10
  Limit = 100
  Locked = FALSE
  MaxRedeliver = 0
  MaxFaults = 0
SPECIFICATION Spec
INVARIANTS AcceptedOnce
CHECK_DEADLOCK FALSE
