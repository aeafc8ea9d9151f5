CONSTANTS
  MaxRequests = 2
  NoKey = NoKey
  Base = 10
  Limit = 100
  Locked = TRUE
  MaxRedeliver = 1
  MaxFaults = 0
SPECIFICATION Spec
INVARIANTS OwnAnswer
CHECK_DEADLOCK FALSE
