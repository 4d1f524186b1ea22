SPECIFICATION Spec
CONSTANTS
  Unit = {u1, u2, u3}
  NoUnit = NoUnit
  NOQUEUE_WAIT = 3
  Word = 6
  Delay = {0, 1, 3}
  Reach <- Nearby
  Cost = {1}
  MaxTime = 5
  MaxStops = 1
SYMMETRY Symmetry
INVARIANTS ClockIsElapsed OnTime
PROPERTIES ImplementsAgenda
