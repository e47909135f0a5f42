SPECIFICATION MCSpec
CONSTANTS
  Bytes <- MCBytes
  NoEntry = NoEntry
  EndMark = EndMark
  Depth = 2
  Payload <- MCPayload
  MaxLen = 3
  MaxPackets = 2
  MaxSwitches = 2
  se0_cycles = 3
  gap_cycles = 2
  hold_cycles = 3
  pairs = 2
  min_chirp_cycles = 4
INVARIANTS
  QueueFits
  WireIsPacket
  WireFollowsSource
  NothingLostOrMerged
  PacketReachesPins
  WireFollowsMode
PROPERTIES
  OeContiguous
  ReplayIsWhole
  OnlyChirpsReplay
  AllSent
  ChirpIsAnswered
