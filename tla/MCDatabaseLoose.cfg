SPECIFICATION Spec
CONSTANTS
  Infinity = 4000
  NaN = 4001
  FloatOf <- MCFloatOf
  FloatBits <- MCFloatBits
  Messages = {}
  Values <- MCValues
  RawWords <- MCRawWords
  Compositions <- MCCompositions
  Backgrounds <- MCBackgrounds
  BaseBits = 5
  ExtBits = 2
  DefaultNewSymbols <- MCNewSymbols
  Files <- MCLooseFiles
  Inputs = {}
INVARIANT RoundTripIsIdentical
CHECK_DEADLOCK FALSE
