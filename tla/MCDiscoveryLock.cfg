SPECIFICATION MCFairSpec
CONSTANTS
  divisor = 4
  NoByte = NoByte
  NoPeer = NoPeer
  SYNC <- MCSync
  n_lanes = 2
  Cablings <- AsLanes
  timeout_cycles = 300
  report_period = 161
  ConsoleByte = 10
  Found = {0, 41, 86, 131, 172, 217}
  Leaves = {}
  Returns = {}
PROPERTIES
  SteadyIsHeard
