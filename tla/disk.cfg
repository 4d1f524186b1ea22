SPECIFICATION FairDiskSpec
CONSTANTS
  MaxCommands = 6
  MaxStops = 2
  MaxDiskModes = 2
  MaxDiskFailures = 1
  MaxSpurious = 1
INVARIANTS DiskTypeOK NeverAborts CommandIsScheduled OneTransfer
PROPERTIES CallbackIsCalled LibraryReturns
CHECK_DEADLOCK FALSE
