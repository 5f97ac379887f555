SPECIFICATION Spec
CONSTANTS
  TagEvents = {r1, r2}
  ParkingEvents = {p1}
  Nothing = Nothing
  FlashMayFail = FALSE
  MaxReboots = 0
INVARIANTS DrainedMeansSent
