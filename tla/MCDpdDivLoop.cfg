SPECIFICATION Spec
CONSTANTS
  P = 3
  EMin <- MCEMin
  EMax = 3
  MaxShift = 9
  Pow10 <- MCPow10
  D = 8
  Pairs <- MCPairs
  MaxFixes = 45
INVARIANTS
  EstimateNotTooSmall
  FewFixes
  DivisionExact
  DigitHonest
  MatchesDpdDiv
PROPERTY
  Terminates
CHECK_DEADLOCK FALSE
