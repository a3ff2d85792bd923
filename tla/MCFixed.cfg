SPECIFICATION Spec
CONSTANTS
  WIDTH = 10
  SCALE = 3
  OVERFLOW_CHECKS = TRUE
  MAX_STEPS = 3
  Starts <- MCStarts
  Factors <- MCFactors
INVARIANTS
  TypeOK
  Brackets
  CorrectlyRounded
  PanicsOnlyByContract
CHECK_DEADLOCK FALSE
