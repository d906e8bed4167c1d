SPECIFICATION LineSpec
CONSTANTS
  Ends = {"sh_spur", "sh_vel"}
  Payload <- MCPayload
  MaxPackets = 4
  MaxLost = 3
INVARIANTS
  LossIsLocal
  NothingInvented
CHECK_DEADLOCK FALSE
