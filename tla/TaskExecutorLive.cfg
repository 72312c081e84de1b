SPECIFICATION FairSpec
CONSTANTS
  t1 = t1
  t2 = t2
  t3 = t3
  NoTask = NoTask
  Rank <- MCRank
  Tasks = {t1, t2}
  Preempting = {t2}
  Publishing = {}
  QueueLimit = 1
  DeployModes = {}
  LateStart = TRUE
  LateFailure = FALSE
  MaxRuns = 2
  MaxDeliveries = 2
  MaxCancels = 0
  MaxDeploys = 0
  MaxSessions = 1
  MaxCrashes = 0
PROPERTY
  Progress
CHECK_DEADLOCK FALSE
