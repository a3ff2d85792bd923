SPECIFICATION Spec
CONSTANTS
  WIDTH = 8
  OVERFLOW_CHECKS = TRUE
  SCALE = 3
  QBITS = 5
  TRUTH_BITS = 7
  BUDGET_ULPS = 3
  Truths <- MCTruths
  Results <- MCResults
  Operands <- MCOperands
  Wei <- MCWei
  Sensitivities <- MCSensitivities
INVARIANTS
  UpNeverBelowReference
CHECK_DEADLOCK FALSE
