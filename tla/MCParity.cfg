CONSTANTS
  Kernel <- MCKernel
  Panics <- MCPanics
  WORD_BITS <- MCWordBits
  Suites <- MCSuites
  CycleDeltas <- MCCycleDeltas
  MAX_WRONG <- MCMaxWrong
SPECIFICATION Spec
INVARIANTS TypeOK FramingAgrees VerdictSound VerdictComplete SessionsHaveCases
