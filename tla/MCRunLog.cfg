CONSTANTS
  NTasks = 2
  Rungs = 2
  AttemptsPer = 1
  MaxDefers = 1
  MaxStarts = 2
  MaxProcesses = 3
  MaxConfig = 2
  Failures <- SomeFailures
  Schemas <- AnySchema
SPECIFICATION Spec
INVARIANTS
  DecidedBeforeSpent
  OneStandard
PROPERTIES
  LogServesEveryReader
CHECK_DEADLOCK FALSE
