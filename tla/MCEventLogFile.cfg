SPECIFICATION Spec
CONSTANTS
  MaxEvents = 4
  MaxStops = 2
  MaxSnapshotAttempts = 2
  MaxIdlePolls = 1
  Watchers = {"status", "export", "follower"}
INVARIANTS
  WorkRestsOnTheLog
  DeadMeansStill
PROPERTIES
  KeepsThePromise
  FollowerIsServed
CHECK_DEADLOCK FALSE
