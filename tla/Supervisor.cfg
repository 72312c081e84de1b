SPECIFICATION FairSpec
CONSTANTS
  Release <- MCRelease
  OnDisk <- MCOnDisk
  Deployments = {"d0", "d1", "d2", "d3"}
  NoDeployment = "none"
  Installed = "d0"
  Healthy = {"d0", "d1"}
  Spawnable = {"d0", "d1", "d3"}
  MaxCommands = 3
  MaxExits = 1
  MaxReboots = 1
INVARIANTS
  TypeOK
  Restartable
PROPERTIES
  GateSpec
  FreshVerdict
  ActivationSettles
  RollbackReported
CHECK_DEADLOCK FALSE
