\* Two independent tasks sharing one tree, every class of failure, late writes, either failure policy, one crash anywhere.
CONSTANTS
  NTasks = 2
  Deps <- Apart
  Rungs <- OneRung
  FrontierRungs <- NoFrontier
  AttemptsPer = 2
  MaxDefers = 1
  Failures <- AllKinds
  Costs <- Free
  Configs <- EitherPolicy
  SpendApprovalOver <- Unset
  SessionResume = TRUE
  LateWrites = TRUE
  MaxQuestions = 1
  MaxCrashes = 1
  MaxOutside = 0
SPECIFICATION Spec
INVARIANTS
  TypeOK
  PublishedAsRecorded
  CommittedOnce
  AllowanceLeft
  NothingLeaks
  RunsWhatItMay
\* A run that finished, or that nobody resumes, stops for good.
CHECK_DEADLOCK FALSE
