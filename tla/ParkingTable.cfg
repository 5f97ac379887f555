SPECIFICATION Spec
CONSTANTS
  Workers = {w1, w2}
  NumPlaces = 3
  MAX_PARKING = 2
  QueueLength = 1
  Varying = {0}
  MaxTriggers = 2
  MaxIntervals = 1
SYMMETRY WorkerSymmetry
CHECK_DEADLOCK FALSE
INVARIANTS TypeOK NoDuplicatePlace AnnouncedIsFilled IntervalRepairs
