SPECIFICATION FairSpec
CONSTANTS
  Producers = {p1}
  Item = {a, b}
  NoItem = NoItem
  Size = 2
  Word = 8
  MAX_ENQUEUE_RETRIES = 2
  MaxCalls = 12
  Counting = TRUE
INVARIANT CountOfWaiting
PROPERTIES ImplementsFifo PublishedIsTaken
CHECK_DEADLOCK FALSE
