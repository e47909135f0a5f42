SPECIFICATION MCSpec
CONSTANTS
  S = 4
  B = 4
  T = 3
  idle_ui = 8
  Samples = {}
  NoData = NoData
  Depth = 16
  Payloads <- MCPayloads
  Syncs = {12}
  Offsets = {0, 5, 10, 15}
  Cycles = 2
  Gaps = {4}
  WarpedBits = {8, 13, 44}
INVARIANTS
  RxDelivers
PROPERTIES
  StepHasVotes
  PicksSpaced
