SPECIFICATION Spec
CONSTANTS
  P = 2
  EMin <- MCEMin
  EMax = 3
  MaxShift = 9
  Pow10 <- MCPow10
  D = 6
  PayloadMod <- MCPayloadMod
  ImplAddSub <- DpdAddSub
  ImplMul <- DpdMul
  ImplDiv <- DpdDiv
  ImplScale <- DpdScale
  Slots <- MCSlots
  InitMem <- MCMem
  Calls <- MCCalls
  MaxCalls = 1
  Garbage <- MCGarbage
INVARIANTS
  OnlyDivisionIsDishonest
PROPERTIES
  ImplementsAPI
CHECK_DEADLOCK FALSE
