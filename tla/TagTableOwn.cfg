SPECIFICATION Spec
CONSTANTS
  Beacons <- MCBeacons
  NoBeacon = NoBeacon
  MAX_TAGS = 2
  TimeLimit = 0
  UuidModes = {TRUE}
  StreamModes = {TRUE, FALSE}
  ApplayKalman = TRUE
INVARIANTS DataIsOwn
