SPECIFICATION FairSpec
CONSTANTS
  Incidents <- SomeIncidents
  ModelLabels <- SomeLabels
  Scores <- SomeScores
  Confidences = {80, 99}
  MaxChanges = 1
INVARIANTS OnlyVettedPlansAreExecuted NoTaskIsForgotten RiskIsLoweredByMeasurement
PROPERTIES EveryDemoIsReported
CHECK_DEADLOCK FALSE
