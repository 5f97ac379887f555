SPECIFICATION Spec
CONSTANTS
  Workers = {w1}
  NumPlaces = 2
  MAX_PARKING = 2
  QueueLength = 2
  Varying = {0, 1}
  MaxTriggers = 2
  MaxIntervals = 0
CHECK_DEADLOCK FALSE
INVARIANTS LastReportIsSent
