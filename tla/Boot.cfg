SPECIFICATION FairSpec
CONSTANTS
  Attempts = 3
  MaxAborts = 2
  MaxEvents = 3
CHECK_DEADLOCK FALSE
INVARIANTS TypeOK StateFollowsStation
PROPERTIES KeepsTrying BootCompletes
