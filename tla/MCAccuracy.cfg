SPECIFICATION Spec
CONSTANTS
  WIDTH = 28
  OVERFLOW_CHECKS = FALSE
  SCALE = 7
  LN_SCALE = 13
  MAX_RATIO = 11
  LN2_62 = 5678
  ESTIMATE_BITS = 7
  INV_LN2_30 = 185
  SQRT2_HALF_62 = 5793
  ATANH_COEFF_62 <- MCAtanh
  EXP_COEFF_62 <- MCExp
  POW_PAD_ULPS = 2
  PAD_62 = 32
  SATURATE_AT = 12
  ARG_ENVELOPE = 524288
  Calls <- MCCalls
  QUARTERS = 4
INVARIANTS
  PadsCoverTheError
  SwapFormsFavourPool
  NoCoarserThanPad
CHECK_DEADLOCK FALSE
