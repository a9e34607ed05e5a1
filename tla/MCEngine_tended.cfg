\* One question per task, a crash anywhere, a second, frontier rung behind an approval; a fair engine and an operator who keeps resuming.
CONSTANTS
  NTasks = 2
  Deps <- Chained
  Rungs <- TwoForFirst
  FrontierRungs <- SecondIsFrontier
  AttemptsPer = 1
  MaxDefers = 1
  Failures <- AllKinds
  Costs <- OneEach
  Configs <- EitherPolicy
  SpendApprovalOver <- AtOne
  SessionResume = TRUE
  LateWrites = FALSE
  MaxQuestions = 1
  MaxCrashes = 1
  MaxOutside = 0
SPECIFICATION TendedSpec
INVARIANTS
  DependenciesFirst
PROPERTIES
  EventuallyStops
  AnswersTakeEffect
\* A run that finished, or that nobody resumes, stops for good.
CHECK_DEADLOCK FALSE
