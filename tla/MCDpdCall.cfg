SPECIFICATION Spec
CONSTANTS
  P = 2
  EMin <- MCEMin
  EMax = 3
  MaxShift = 9
  Pow10 <- MCPow10
  D = 6
  ImplAddSub <- DpdAddSub
  ImplMul <- DpdMul
  ImplDiv <- DpdDiv
  ImplScale <- DpdScale
  Operands <- MCOperands
INVARIANTS
  AddSubHonest
  CombinedHonest
  ZeroIsZero
  OverflowIsLarge
CHECK_DEADLOCK FALSE
