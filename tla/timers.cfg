SPECIFICATION FairSpec
CONSTANTS
  d1 = d1
  d2 = d2
  Dev <- const_Dev
  Clock = Clock
  Tick = Tick
  NULL = NULL
  QUEUE_LIST_END = QUEUE_LIST_END
  Period = 3
  Hz = 3
  Delay <- const_Delay
  TickCount <- const_TickCount
  Reactivate = FALSE
  MaxTime = 4
  MaxCalls = 2
  MaxBreaks = 1
INVARIANTS OnePlace ClockIsPending  TakenWhenDue
PROPERTIES CallsReturn WallClockServes
