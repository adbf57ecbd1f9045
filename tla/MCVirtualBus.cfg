SPECIFICATION MCSpec
CONSTANTS
  brakes = brakes
  tracer = tracer
  doors = doors
  Nodes = {brakes, tracer, doors}
  Crew <- MCCrew
  BaseBits = 1
  ExtBits = 1
  Second = 1
  NominalRate = 1
  DataRate = 1
  RxLimit = 1
  TxLimit = 1
  Loopback = FALSE
  Traffic <- MCTraffic
  FilterSets <- MCFilters
  Intervals = {54, 200}
  DrainLimits = {1}
  MaxAttach = 1
  MaxSends = 3
  MaxChanges = 1
  Horizon = 100
  Recordings <- MCRecordings
  Options <- MCOptions
  FilterLists <- MCFilters
  Timeouts = {0, 1, 4}
  MaxPulls = 6
  MaxOthers = 2
  LastPull = 12
INVARIANTS
  OnTheWire
  FramesOnceAndInOrder
PROPERTIES
  CallsReturn
  ImplementsPriorityMedium
CHECK_DEADLOCK FALSE
