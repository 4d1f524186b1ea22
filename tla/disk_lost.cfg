SPECIFICATION DiskSpec
CONSTANTS
  MaxCommands = 1
  MaxStops = 1
  MaxDiskModes = 0
  MaxDiskFailures = 0
  MaxSpurious = 0
INVARIANTS RequestIsPending
