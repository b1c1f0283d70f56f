SPECIFICATION Spec
CONSTANTS
  Expressions <- DocExpressions
INVARIANTS
  ReturnsDefined
