SPECIFICATION Spec
CONSTANTS
  Capacity = 2
  Threshold = 2
  MaxWrites = 3
  MaxPackets = 1
  MaxErrors = 3
  MaxModes = 0
  MaxChecks = 1
  MaxFailures = 1
INVARIANTS TypeOK BufferInOnePlace SentInOrder 
CHECK_DEADLOCK FALSE
