SPECIFICATION Spec
CONSTANTS
  Calls <- DocCalls
  PRINTABLE_LOW = 97
  PRINTABLE_HIGH = 99
  WS_LOW = 9
  WS_HIGH = 11
  block_size = 2
INVARIANT
  GeneratedAsDocumented
