SPECIFICATION Spec
CONSTANTS
  WIDTH = 6
  OVERFLOW_CHECKS = FALSE
  Operands <- MCOperands
INVARIANTS
  CeilingNeverWraps
CHECK_DEADLOCK FALSE
