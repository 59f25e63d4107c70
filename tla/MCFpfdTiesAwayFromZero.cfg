SPECIFICATION Spec
CONSTANTS
  P = 2
  EMin <- MCEMin
  EMax = 3
  MaxShift = 9
  Pow10 <- MCPow10
  D = 7
  Bits = 24
  Pow2 <- MCPow2
  Word = 16777216
  Half = 4096
  BadBsr = 9
  PayloadMod <- MCPayloadMod
  ImplAddSub <- BidAddSub
  ImplMul <- BidMul
  ImplDiv <- BidDiv
  ImplScale <- BidScale
  Slots <- OneSlots
  InitMem <- OneMem
  Calls <- OneCalls
  MaxCalls = 1
  Garbage <- MCGarbage
INVARIANT
  TiesAwayFromZero
CHECK_DEADLOCK FALSE
