SPECIFICATION Spec
CONSTANTS
  Kilo = 10
  Kibi = 8
  Second = 30
  MaxInt = 16383
  Half = 512
  Weights <- MCWeights
  MaxFrameRateHz = 12
  Registered <- MCRegistered
  PolicyNone = "none"
  Inputs <- MCInputs
  Payload = 10
  MaxSeq = 4
  MaxFrames = 2
INVARIANTS
  StartsAsConfigured
  RunBracketed
  StragglersBounded
  FramesConsistent
PROPERTIES
  RunReturns
CHECK_DEADLOCK FALSE
