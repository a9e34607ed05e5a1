\* Three rungs of three attempts, two deferrals, two answers, two crashes.
CONSTANTS
  AttemptsPer = 3
  RungCount = 3
  MaxDefers = 2
  MaxAnswers = 2
  MaxCrashes = 2
SPECIFICATION Spec
INVARIANTS
  ChargedExactly
  RungsUsedInFull
  SpawnsBounded
\* A task that is Done, or parked with no answer left, stays there.
CHECK_DEADLOCK FALSE
