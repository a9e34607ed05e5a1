SPECIFICATION Spec
CONSTANTS
  MaxUpsets = 4
  StablePolls = 2
INVARIANTS
  SuspendedAsOne
PROPERTIES
  AgentsKeepStep
  TerminationWins
CHECK_DEADLOCK FALSE
