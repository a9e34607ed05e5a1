SPECIFICATION Spec
CONSTANTS
  engineA = engineA  engineB = engineB  rival = rival  watcher = watcher
  p1 = p1  p2 = p2  p3 = p3  NoProcess = NoProcess  r1 = r1  r2 = r2
  Conductors = {engineA, engineB, rival}
  Probers = {watcher}
  Process = {p1, p2, p3}
  ProcessOf <- FourThreads
  Runs = {r1, r2}
  LocksCanFail = TRUE
  MaxKills = 1
INVARIANTS
  LocksFollowTheDriver
  AgentsDoNotOverlap
  DeadWasDead
