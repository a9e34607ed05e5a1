\* Every plan of up to four blocks and every dependency graph of three tasks is
\* previewed; ten projects are started, resumed, edited and crashed.
CONSTANTS
    Previews      <- McPreviews
    Projects      <- McProjects
    EditedConfigs <- McEditedConfigs
    EditedPlans   <- McEditedPlans
    Versions      <- McVersions
    Programs      <- McPrograms
    Adapters      = {"claude", "copilot", "codex"}
    Windows       = FALSE
    MaxUpsets     = 2
SPECIFICATION Spec
INVARIANTS
  PlanIsHonoured
  RecordIsKept
  CommandsAreProven
CHECK_DEADLOCK FALSE
