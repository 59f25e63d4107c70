SPECIFICATION Spec
CONSTANTS
  P = 3
  EMin <- MCEMin
  EMax <- MCEMax
  MaxShift = 9
  Pow10 <- MCPow10
  D = 7
  Bits = 24
  Pow2 <- MCPow2
  Word = 16777216
  Half = 1024
  BadBsr = 13
  ImplAddSub <- BidAddSub
  ImplMul <- BidMul
  ImplDiv <- BidDiv
  ImplScale <- BidScale
  Operands <- MCOperands
INVARIANTS
  AddSubHonest
  CombinedHonest
  ZeroIsZero
  InFormat
  NoCarryAfterDivision
CHECK_DEADLOCK FALSE
