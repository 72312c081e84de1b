SPECIFICATION FairSpec
CONSTANTS
  Tasks = {"t1"}
  UsesMqtt = TRUE
  MaxAnswers = 2
  MaxDrops = 2
  MaxRepeats = 1
  MaxCrashes = 1
  MaxRestarts = 1
INVARIANTS
  TypeOK
  ResultKept
  TaskNotLost
PROPERTY
  BothSidesLearn
CHECK_DEADLOCK FALSE
