SPECIFICATION FairSpec
CONSTANTS
  n1 = n1
  n2 = n2
  k1 = k1
  k2 = k2
  k3 = k3
  None = None
  Nodes = {n1, n2}
  Callers = {k1, k2, k3}
  NodeOf <- TwoAndOne
  MaxInstances = 2
  MaxExits = 1
  MaxStrays = 1
  MaxChunks = 2
  MaxCrashes = 1
CHECK_DEADLOCK FALSE
INVARIANTS
  TypeOK
  ResolvedMeansConnected
PROPERTIES
  OnlyLaterRestartsOrphan
  NoSpawnAfterCleanup
  InitSettles
  FatalRestarts
