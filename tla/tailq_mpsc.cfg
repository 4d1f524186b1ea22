SPECIFICATION FairSpec
CONSTANTS
  Producers = {p1, p2}
  Item = {a, b}
  NoItem = NoItem
  Size = 4
  Word = 32
  MAX_ENQUEUE_RETRIES = 1
  MaxCalls = 5
  Counting = FALSE
INVARIANTS TypeOK NoSlotConflict FullIsReal
PROPERTIES ImplementsFifo EnqueueReturns
CHECK_DEADLOCK FALSE
