SPECIFICATION Spec
CONSTANTS
  Workers = {w1}
  NumPlaces = 3
  MAX_PARKING = 2
  QueueLength = 2
  Varying = {}
  MaxTriggers = 3
  MaxIntervals = 1
CHECK_DEADLOCK FALSE
INVARIANTS NeverPastArray
