SPECIFICATION Spec
CONSTANTS
  Unit = {u1, u2}
  NoUnit = NoUnit
  NOQUEUE_WAIT = 3
  Word = 16
  Delay = {0, 1, 5}
  Reach <- Nearby
  Cost = {1, 3, 4}
  MaxTime = 8
  MaxStops = 1
SYMMETRY Symmetry
INVARIANTS NeverEarly ClockOrder
CHECK_DEADLOCK FALSE
