SPECIFICATION Spec
CONSTANTS
  Unit = {u1, u2}
  NoUnit = NoUnit
  NOQUEUE_WAIT = 8
  Word = 16
  Delay = {6}
  Latency = 1
  CallbackCalls = {}
  MaxPosts = 2
  MaxCalls = 1
  MaxIdle = 1
  MaxTime = 6
SYMMETRY Symmetry
INVARIANTS MigratedInTime
