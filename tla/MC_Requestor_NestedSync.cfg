SPECIFICATION FairSpec
CONSTANTS
  Calls = {c1, c2}
  Conns = {k1, k2}
  None = None
  NestedModes <- SyncOnly
PROPERTY SyncCallReturns
CHECK_DEADLOCK FALSE
