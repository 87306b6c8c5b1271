SPECIFICATION Spec
CONSTANTS
  s1 = s1
  s2 = s2
  Slots <- TwoSlots
  Tenants = {"acme", "globex"}
  Owner = "acme"
  Operations <- AllOperations
  Failures = TRUE
  Targets = {"github"}
  ReplayLimit = 2
  MaxRequests = 3
SYMMETRY SlotSymmetry
INVARIANTS LatestReplayIsHead StatusFitsDecision AttemptsNumbered RetryBudget DuplicatesToldApart FeedbackOnRecord
CHECK_DEADLOCK FALSE
