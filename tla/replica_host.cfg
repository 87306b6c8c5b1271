SPECIFICATION FairSpec
CONSTANTS
  r1 = r1
  r2 = r2
  Runs <- TwoRuns
  Requests <- SomeRequests
  MaxCrashes = 1
  MaxChanges = 1
INVARIANTS UndisturbedRunsMeasureTheirHooks ValidatedIsMeasured
PROPERTIES OnlyTheirRunsTouchContainers EveryRunEnds
CHECK_DEADLOCK FALSE
