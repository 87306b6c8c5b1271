SPECIFICATION Spec
CONSTANTS
  s1 = s1
  s2 = s2
  Slots <- TwoSlots
  Tenants = {"acme"}
  Owner = "acme"
  Operations <- HandoffOperations
  Failures = FALSE
  Targets = {"github"}
  ReplayLimit = 2
  MaxRequests = 2
INVARIANT AcknowledgedIsStored
CHECK_DEADLOCK FALSE
