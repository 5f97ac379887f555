SPECIFICATION FairSpec
CONSTANTS
  Beacons <- MCBeacons
  NoBeacon = NoBeacon
  MAX_TAGS = 2
  TimeLimit = 0
  UuidModes = {FALSE}
  StreamModes = {TRUE, FALSE}
  ApplayKalman = FALSE
INVARIANTS TypeOK NoDuplicateTag EntryIsCurrent InUseIsFilled
PROPERTIES RemovedOnlyWhenSilent RemovalAnnounced PassEnds SilentTagLeaves TableRecovers
