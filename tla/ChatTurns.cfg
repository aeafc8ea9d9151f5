CONSTANTS
  MaxRequests = 3
  NoKey = NoKey
  Base = 2
  Limit = 2
  Locked = TRUE
  MaxRedeliver = 1
  MaxFaults = 1
SPECIFICATION Spec
INVARIANTS TypeOK FirstAnswerOwn OneTurnAtATime AcceptedOnce CanGoOn AnswerReadable
PROPERTIES TurnsInOrder
CHECK_DEADLOCK FALSE
