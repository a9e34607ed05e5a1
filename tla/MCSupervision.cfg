SPECIFICATION Spec
CONSTANTS
  c1 = c1
  Callers = {c1}
  MaxFaults = 1
  ReaperFault = "early"
INVARIANTS
  GroupIsOwned
  VerdictIsSettled
PROPERTIES
  EverythingEnds
CHECK_DEADLOCK FALSE
