SPECIFICATION FairSpec
CONSTANTS
  small = small
  medium = medium
  large = large
  Messages <- MCMessages
  IdLen <- MCIdLen
  BodyLen <- MCBodyLen
  LenField = 2
  MTypeField = 1
  IdLenField = 1
  MaxDataSize = 7
  MaxSends = 4
INVARIANTS
  TypeOK
  RefusedOnlyIfTooLarge
  BufferBounded
  HandledWhenComplete
PROPERTIES
  ImplementsFifo
  EverythingHandled
CHECK_DEADLOCK FALSE
