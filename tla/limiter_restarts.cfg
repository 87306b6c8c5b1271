SPECIFICATION Spec
CONSTANTS
  MaxLimit = 2
  Window = 2
  Faults <- Restarts
  MaxTime = 4
  MaxRequests = 4
INVARIANT AtMostLimit
CHECK_DEADLOCK FALSE
