CONSTANTS
  Account <- MCAccount
  None = None
  FailCooldown = 1
  RlBase = 1
  RlCap = 1
  StoreCooldown <- MCStoreCooldown
  MaxSeq = 3
SPECIFICATION PoolSpec
CONSTRAINT OneOffender
INVARIANTS
  TypeOK
  RotationSound
PROPERTIES
  StayersKeepBooks
  RotationSpec
