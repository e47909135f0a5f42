SPECIFICATION LoopbackSpec
CONSTANTS
  Rates <- MCRates
  W = 16
  BUF = 96
  TARGET = 96
  HYST = 24
  HOLDOFF = 8
  Depth = 9
  MinLag = 3
  MaxLag = 4
  MaxUnseen = 2
  MaxBytes = 3
INVARIANTS
  NeverOverruns
  KeepsValidSamples
  StartUpLosesNothing
  RunsLocked
PROPERTIES
  StepsLikeAnOffset
