SPECIFICATION Spec
CONSTANTS
  a = a
  b = b
  None = None
  Publications <- MCPublications
  Commercial <- MCCommercial
  Requests <- MCRequests
  Reviewed = TRUE
  MaxTasks = 3
  MaxTroubles = 2
INVARIANTS
  TypeOK
  AtMostOnce
  CommitRecorded
  ClickNeedsRelease
  KeyboardRestored
CHECK_DEADLOCK FALSE
