SPECIFICATION FairSpec
CONSTANTS
  TagEvents = {r1, r2}
  ParkingEvents = {p1}
  Nothing = Nothing
  FlashMayFail = TRUE
  MaxReboots = 1
INVARIANTS TypeOK CountWithinWritten OnePath
PROPERTIES BacklogDrains
