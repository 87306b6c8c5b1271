\* Eight incidents, two replays of which both are kept, one change of the hosts.
CONSTANTS
  Incidents <- SomeIncidents
  MaxReplays = 2
  MaxChanges = 1
  ReplayLimit = 2
SPECIFICATION Spec
INVARIANTS StatusTellsWhereItRan LoweredByTheNewestRun ConfidentAfterARun
