\* Three pools, any two crashes.
CONSTANTS
  Pools = {claude, codex, copilot}
  MaxResumes = 2
SPECIFICATION PoolSpec
INVARIANTS
  OutagesRemembered
  ToldOnce
