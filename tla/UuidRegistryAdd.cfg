SPECIFICATION Spec
CONSTANTS
  Uuids = {u0, u1, u2}
  DefaultUuid = u0
  Junk = Junk
  MAX_TAGS = 3
  Advertised = {}
  FlashMayFail = FALSE
  MaxBoots = 0
INVARIANTS AddAccepted
