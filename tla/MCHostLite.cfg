SPECIFICATION MCSpec
CONSTANTS
  PID = PID
  ACK = ACK
  NAK = NAK
  Bytes = {ACK, NAK, PID}
  NoData = NoData
  Script <- MCScript
  start_delay = 12
  restart_delay = 12
  reply_timeout = 3
  max_faults = 2
  retry_delay = 3
  IdxRange = 4
  MaxQuiet = 12
  MaxGot = 3
INVARIANTS
  DataFollowsToken
PROPERTIES
  GapKept
  SilentRestart
  OkMeansMatch
  SofFlows
