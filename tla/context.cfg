SPECIFICATION Spec
CONSTANTS
  q1 = q1
  q2 = q2
  Readers <- TwoReaders
  Writers = {1}
  Source = "webhook"
  Verdicts = {"approve"}
  TTL = 0
  MaxVersion = 2
  MaxJobs = 1
  Faults <- AnyFault
SYMMETRY ReaderSymmetry
INVARIANTS PagesShowTheirRow TimelineIsNotOlder LiveOnlyWhenAsked QueueViewIsRecent
CHECK_DEADLOCK FALSE
