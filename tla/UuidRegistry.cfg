SPECIFICATION Spec
CONSTANTS
  Uuids = {u0, u1, u2}
  DefaultUuid = u0
  Junk = Junk
  MAX_TAGS = 3
  Advertised = {u1}
  FlashMayFail = TRUE
  MaxBoots = 1
INVARIANTS TypeOK NoDuplicateUuid ListIsAsked ScanIsExact
PROPERTIES RegistrySurvives
