SPECIFICATION Spec
CONSTANTS
  t1 = t1
  t2 = t2
  t3 = t3
  NoTask = NoTask
  Rank <- MCRank
  Tasks = {t1, t2, t3}
  Preempting = {}
  Publishing = {}
  QueueLimit = 2
  DeployModes = {"GRACEFUL", "FORCE"}
  LateStart = FALSE
  LateFailure = FALSE
  MaxRuns = 1
  MaxDeliveries = 3
  MaxCancels = 0
  MaxDeploys = 1
  MaxSessions = 1
  MaxCrashes = 1
SYMMETRY MCAlike
INVARIANTS
  TypeOK
  QueueDiscipline
  DedupExact
  NoLostWakeup
  ExclusiveUse
CHECK_DEADLOCK FALSE
