SPECIFICATION Spec
CONSTANTS
  MaxSnapshots = 2
  MaxStops = 2
  MaxFaults = 1
  GateCounts = {0, 2}
  PassClock = 1
  Plans <- EveryPlan
  Implementers <- EitherWorker
INVARIANTS
  SnapshotsAccountedFor
  JudgedAsPromised
  BlameAndBill
PROPERTIES
  AttemptsEnd
CHECK_DEADLOCK FALSE
