SPECIFICATION Spec
CONSTANTS
  Sessions = {s1, s2}
  Viewers = {s1}
  NoSession = NoSession
  Versions = {2}
  Preferences = {FALSE}
  ByteBudget = 0
  PendingMax = 0
  MaxCandidates = 0
  MaxControls = 0
  MaxFrames = 0
  MaxRedeliveries = 1
  MaxCrashes = 1
INVARIANTS
  OneLease
  BoundToThePhone
CHECK_DEADLOCK FALSE
