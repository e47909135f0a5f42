SPECIFICATION LinkSpec
CONSTANTS
  Bytes <- MCBytes
  NoData = NoData
  LENGTHS <- MCLengths
  gap_cycles = 1
  FirstSeqs = {0, 65534}
  MaxPackets = 4
  Errors = {1, 128}
  Noise <- MCNoise
INVARIANTS
  LinkTypeOK
PROPERTIES
  Ledger
