SPECIFICATION Spec
CONSTANTS
  Infinity = 4000
  NaN = 4001
  FloatOf <- MCFloatOf
  FloatBits <- MCFloatBits
  Messages <- MCMessages
  Values <- MCValues
  RawWords <- MCRawWords
  Compositions <- MCCompositions
  Backgrounds <- MCBackgrounds
  BaseBits = 5
  ExtBits = 2
  DefaultNewSymbols <- MCNewSymbols
  Files <- MCFiles
  Inputs <- MCInputs
INVARIANTS
  FastPathIsTheDefinition
  ValuesSurvive
  MultiplexingIsExact
  RoundTripHolds
  RecoversFromDamage
  TokensCoverTheText
PROPERTIES
  EveryStatementMovesOn
CHECK_DEADLOCK FALSE
