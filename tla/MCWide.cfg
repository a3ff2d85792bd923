SPECIFICATION Spec
CONSTANTS
  WIDTH = 6
  OVERFLOW_CHECKS = TRUE
  Operands <- MCOperands
INVARIANTS
  TypeOK
  ProductExact
  FloorExact
  CeilingExact
CHECK_DEADLOCK FALSE
