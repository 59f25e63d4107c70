SPECIFICATION EncodingSpec
CONSTANTS
  Widths = {32, 64, 128}
  Data <- MCData
  Draws <- MCDraws
  Left <- MCLeft
INVARIANT
  SignMapped
CHECK_DEADLOCK FALSE
