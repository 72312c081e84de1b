SPECIFICATION FairSpec
CONSTANTS
  Policies <- MCPolicies
  Networks <- MCNetworks
  Calm <- MCCalm
  iface1 = iface1
  iface2 = iface2
  None = None
  Block = Block
  MaxGeneration = 2
  MaxRequests = 3
  MaxTroubles = 2
INVARIANTS
  TypeOK
  KernelAsPromised
PROPERTIES
  DisabledStaysDisabled
  StatusBecomesTrue
