SPECIFICATION Spec
CONSTANTS
  Expressions <- DocExpressions_class
INVARIANTS
  NegatedByCaret
