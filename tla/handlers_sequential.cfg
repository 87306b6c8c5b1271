SPECIFICATION FairSpec
CONSTANTS
  s1 = s1
  s2 = s2
  Slots <- OneSlot
  Tenants = {"acme"}
  Owner = "acme"
  Operations <- AllOperations
  Failures = TRUE
  Targets = {"github"}
  ReplayLimit = 2
  MaxRequests = 4
INVARIANTS AcknowledgedIsStored
PROPERTIES NoResolutionAfterRejection NoRetryAfterTerminal ImplementsStore AllAnswered
CHECK_DEADLOCK FALSE
