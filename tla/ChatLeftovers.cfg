CONSTANTS
  MaxRequests = 1
  NoKey = NoKey
  Base = 10
  Limit = 100
  Locked = TRUE
  MaxRedeliver = 0
  MaxFaults = 0
SPECIFICATION Spec
INVARIANTS NothingLeftBehind
CHECK_DEADLOCK FALSE
