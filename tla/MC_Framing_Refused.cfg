SPECIFICATION Spec
CONSTANTS
  small = small
  medium = medium
  large = large
  Messages <- MCMessages
  IdLen <- MCIdLen
  BodyLen <- MCBodyLen
  LenField = 2
  MTypeField = 1
  IdLenField = 1
  MaxDataSize = 7
  MaxSends = 4
PROPERTY NothingHandledOnceRefused
CHECK_DEADLOCK FALSE
