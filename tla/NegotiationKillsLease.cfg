SPECIFICATION Spec
CONSTANTS
  Sessions = {s1}
  Viewers = {s1}
  NoSession = NoSession
  Versions = {2}
  Preferences = {TRUE}
  ByteBudget = 1
  PendingMax = 1
  MaxCandidates = 1
  MaxControls = 0
  MaxFrames = 0
  MaxRedeliveries = 0
  MaxCrashes = 0
INVARIANT FailedNegotiationFallsBack
CHECK_DEADLOCK FALSE
