SPECIFICATION FairSpec
CONSTANTS
  Calls = {c1, c2}
  Conns = {k1, k2}
  None = None
  NestedModes <- NoWaiting
INVARIANTS
  TypeOK
  NoOrphanResponse
  DescriptorsAccountedFor
  OneCallbackAtATime
  OnlyCallbacksBlock
PROPERTIES
  ImplementsContract
  CallConcludes
CHECK_DEADLOCK FALSE
