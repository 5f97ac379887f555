SPECIFICATION FairSpec
CONSTANTS
  Requests = {r1, r2, r3}
  MAX_AMOUNT_OF_WORKERS = 2
  MaxFailures = 2
CHECK_DEADLOCK FALSE
INVARIANTS TypeOK PermitsAddUp WorkersMatch SendFindsRoom
PROPERTIES ImplementsPool Served Recovers
