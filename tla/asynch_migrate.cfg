SPECIFICATION Spec
CONSTANTS
  Unit = {u1, u2}
  NoUnit = NoUnit
  NOQUEUE_WAIT = 2
  Word = 16
  Delay = {2}
  Latency = 2
  CallbackCalls = {"abs"}
  MaxPosts = 3
  MaxCalls = 1
  MaxIdle = 0
  MaxTime = 2
SYMMETRY Symmetry
INVARIANTS LinkedOnce NothingLost EarlyByHalfAtMost CancelFindsAll
