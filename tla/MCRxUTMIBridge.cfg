SPECIFICATION MCSpec
CONSTANTS
  Bytes = {b1, b2}
  NoData = NoData
  Depth = 3
  MaxBytes = 2
INVARIANTS
  BytesDelivered
PROPERTIES
  PacketCloses
  FollowsUtmi
