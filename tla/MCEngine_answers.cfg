\* Three tasks, one with no chain and one with a frontier second rung, that ask; costs, a ceiling and an
\* approval; two crashes, either failure policy after each; somebody else commits at any moment.
CONSTANTS
  NTasks = 3
  Deps <- Trio
  Rungs <- NoneForLast
  FrontierRungs <- SecondIsFrontier
  AttemptsPer = 1
  MaxDefers = 0
  Failures <- OnlyQuestions
  Costs <- OneEach
  Configs <- EitherPolicyBudgeted
  SpendApprovalOver <- AtTwo
  SessionResume = TRUE
  LateWrites = FALSE
  MaxQuestions = 2
  MaxCrashes = 2
  MaxOutside = 1
SPECIFICATION Spec
INVARIANTS
  AnswersStand
PROPERTIES
  StopsKeepTheirReason
  CommitsStay
\* A run that finished, or that nobody resumes, stops for good.
CHECK_DEADLOCK FALSE
