SPECIFICATION FairSpec
CONSTANTS
  Sessions = {s1}
  Viewers = {s1}
  NoSession = NoSession
  Versions = {2}
  Preferences = {TRUE}
  ByteBudget = 0
  PendingMax = 0
  MaxCandidates = 0
  MaxControls = 0
  MaxFrames = 0
  MaxRedeliveries = 0
  MaxCrashes = 1
PROPERTY
  SessionsSettle
CHECK_DEADLOCK FALSE
