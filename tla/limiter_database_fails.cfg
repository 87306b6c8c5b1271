SPECIFICATION Spec
CONSTANTS
  MaxLimit = 3
  Window = 2
  Faults <- DatabaseFails
  MaxTime = 5
  MaxRequests = 6
INVARIANTS AtMostLimit RefusedWhenBusy
CHECK_DEADLOCK FALSE
