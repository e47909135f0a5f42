SPECIFICATION Spec
CONSTANTS
  r1 = r1
  r2 = r2
  none = none
  Runs <- MCRuns
  Services <- MCServices
  Noise <- MCNoise
SYMMETRY MCSymmetry
INVARIANTS
  NothingLeftDown
  CapturesOwnBitstream
