SPECIFICATION Spec
CONSTANTS
  t1 = t1
  t2 = t2
  t3 = t3
  NoTask = NoTask
  Rank <- MCRank
  Tasks = {t1, t3}
  Preempting = {t3}
  Publishing = {t1}
  QueueLimit = 1
  DeployModes = {}
  LateStart = TRUE
  LateFailure = FALSE
  MaxRuns = 2
  MaxDeliveries = 2
  MaxCancels = 1
  MaxDeploys = 0
  MaxSessions = 1
  MaxCrashes = 0
INVARIANTS
  NoSilentDrop
  CommitTruthful
  StoppedForGood
CHECK_DEADLOCK FALSE
