SPECIFICATION Spec
CONSTANTS
  Sources <- MCSources
  SineWave <- MCSineWave
  StepTime = 2
  GearRatios <- MCRatios
  PeakTorque = 200
  IdleRpm = 10
  MaxRpm = 60
  BrakeForce = 2
  Mass = 10
  Rolling = 1
  Ambient = 20
  FaultList <- MCFaults
  Luck <- MCLuck
  BitHit <- MCBitHit
  RawModulus = 8
  Declared <- MCDeclared
  SimNodes <- MCNodes
  TxList <- MCTx
  SignalsOf <- MCSignals
  HasPlant = TRUE
  JitterDraws <- MCJitter
  ChecksumOf <- MCChecksum
  Drive <- MCDrive
  Paces = {1, 3, 10}
  MaxSteps = 5
  MaxCommands = 2
INVARIANTS
  LeavesOnceAndInOrder
  KeepsItsCycle
  CounterAndChecksumHold
  OnlyTheDriverFeelsThePace
PROPERTIES
  ResetReplays
  FrozenSignalsStay
CHECK_DEADLOCK FALSE
