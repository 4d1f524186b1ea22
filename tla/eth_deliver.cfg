SPECIFICATION FairSpec
CONSTANTS
  Capacity = 2
  Threshold = 1
  MaxWrites = 0
  MaxPackets = 2
  MaxErrors = 2
  MaxModes = 3
  MaxChecks = 1
  MaxFailures = 0
PROPERTIES PacketIsDelivered
CHECK_DEADLOCK FALSE
