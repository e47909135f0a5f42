SPECIFICATION MCSpec
CONSTANTS
  NoData = NoData
  Words <- MCWords
  PayloadBytes <- MCBytes
  MaxLen = 2
  MaxNoise = 6
  Syncs = {12, 32}
INVARIANTS
  NothingOverwritten
PROPERTIES
  KeepsPromise
  PacketDelivered
  WireCodeInverts
