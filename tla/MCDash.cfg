SPECIFICATION Spec
CONSTANTS
  Database <- MCDatabase
  TimeWord = 4096
  RateWindow = 2
  TraceCapacity = 2
  HistoryCapacity = 2
  SimFrames <- MCSimFrames
  Composed <- MCComposed
  Words <- MCWords
  Pass = {1, 2}
  Keys <- MCKeys
  MaxPasses = 2
  MaxKeys = 3
  MaxTyped = 2
INVARIANTS
  StatisticsAreTrue
  PanesShowTheLatest
PROPERTIES
  QuitEnds
CHECK_DEADLOCK FALSE
