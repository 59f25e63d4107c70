SPECIFICATION Spec
CONSTANTS
  P = 2
  EMin <- MCEMin
  EMax = 3
  MaxShift = 9
  Pow10 <- MCPow10
  D = 7
  Bits = 24
  Pow2 <- MCPow2
  Word = 16777216
  Half = 4096
  BadBsr = 9
  Mantissas <- MCMantissas
INVARIANTS
  TypeOK
  QuotientExact
  RemainderExact
  NoDivideError
  MatchesBidDiv
PROPERTY
  Terminates
CHECK_DEADLOCK FALSE
