SPECIFICATION Spec
CONSTANTS
  Calls <- MCCalls
  PRINTABLE_LOW = 97
  PRINTABLE_HIGH = 99
  WS_LOW = 9
  WS_HIGH = 11
  block_size = 2
INVARIANTS
  TypeOK
  StrbWithinSpace
  SizeBounded
  GeneratedMatches
PROPERTY
  GenReturns
