SPECIFICATION FairSpec
CONSTANTS
  s1 = s1
  s2 = s2
  Slots <- OneSlot
  Incidents = {"checkout", "orders"}
  Demo = {}
  Faults <- NoRestart
  MaxReplays = 4
INVARIANTS EventsNameTheirReplay
PROPERTIES EveryReplayReported
CHECK_DEADLOCK FALSE
