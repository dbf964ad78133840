SPECIFICATION Spec
CONSTANTS
  w1 = w1  w2 = w2  w3 = w3
  Workers <- ThreeWorkers
  Total = 4
  None = None
INVARIANTS TypeOK WorkedOnce ReturnsEveryItem
PROPERTIES CancelStopsTheSweep CallEnds
CHECK_DEADLOCK FALSE
