SPECIFICATION EncodingSpec
CONSTANTS
  Widths = {32, 64, 128}
  Data <- MCData
  Draws <- MCDraws
  Left <- MCLeft
INVARIANTS
  DigitsRight
  DecletEncoded
  DecletDecoded
  ExpandedRight
  CompressedRight
  RandomIsNumber
CHECK_DEADLOCK FALSE
