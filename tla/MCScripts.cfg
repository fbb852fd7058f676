SPECIFICATION Spec
CONSTANTS
  NULL = NULL
  u1 = u1
  u2 = u2
  c1 = c1
  c2 = c2
  p1 = p1
  Users <- MCUsers
  Chans <- MCChans
  Customs = {p1}
  Names = {"Room", "hall"}
  Keys = {"k","long"}
  LongKeys = {"long"}
  Lower <- MCLower
  Bucket <- MCBucket
  Installs <- MCInstalls
  MaxVals = 2
  MaxCalls = 1
SYMMETRY MCSymmetry
INVARIANTS
  TablesExact
  HandlesLive
  ObjectsKept
  PinnedLive
  ListsHeard
  PropertiesKept
CHECK_DEADLOCK FALSE
