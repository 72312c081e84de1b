SPECIFICATION Spec
CONSTANTS
  Sessions = {s1}
  Viewers = {s1}
  NoSession = NoSession
  Versions = {1, 2}
  Preferences = {TRUE}
  ByteBudget = 1
  PendingMax = 1
  MaxCandidates = 1
  MaxControls = 1
  MaxFrames = 1
  MaxRedeliveries = 0
  MaxCrashes = 0
INVARIANTS
  TypeOK
  RelayOpenForItsUsers
  NoTransportFault
  QuietAgreement
CHECK_DEADLOCK FALSE
