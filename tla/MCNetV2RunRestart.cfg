SPECIFICATION Spec
CONSTANTS
  r1 = r1
  r2 = r2
  none = none
  Runs <- MCOneRun
  Services <- MCServices
  Noise <- MCNoise
INVARIANTS
  RestartedAfterwards
