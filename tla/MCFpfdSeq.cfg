SPECIFICATION Spec
CONSTANTS
  P = 1
  EMin <- MCEMin
  EMax = 1
  MaxShift = 9
  Pow10 <- MCPow10
  D = 5
  Bits = 17
  Pow2 <- MCPow2
  Word = 131072
  Half = 256
  BadBsr = 7
  PayloadMod = 4
  ImplAddSub <- BidAddSub
  ImplMul <- BidMul
  ImplDiv <- BidDiv
  ImplScale <- BidScale
  Slots <- SeqSlots
  InitMem <- SeqMem
  Calls <- SeqCalls
  MaxCalls = 2
  Garbage <- MCGarbage
PROPERTIES
  FlagsSticky
  ImplementsAPI
  Returns
CHECK_DEADLOCK FALSE
