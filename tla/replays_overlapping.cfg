SPECIFICATION Spec
CONSTANTS
  s1 = s1
  s2 = s2
  Slots <- TwoSlots
  Incidents = {"checkout", "demo"}
  Demo = {"demo"}
  Faults <- AnyFault
  MaxReplays = 3
SYMMETRY SlotSymmetry
INVARIANTS RecordNamesAReplay  ReportedOnce
PROPERTIES ImplementsLifeCycle
CHECK_DEADLOCK FALSE
