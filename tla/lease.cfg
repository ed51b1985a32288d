CONSTANTS
  Client = {c1, c2}
  Uid = {u1, u2, u3}
  NoUid = NoUid
  Limit = 1
  Duration = 2
  MaxAge = 1
  MaxFaults = 1
SPECIFICATION FairSpec
INVARIANTS
  LeaseTypeOK
  OversellBounded
  OneOwner
PROPERTIES
  SlotKeptUntilExpiry
  KeepsTrait
  AcquireEnds
  OrphansAreCleaned
