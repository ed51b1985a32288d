CONSTANTS
  Account <- MCOne
  None = None
  FailCooldown = 1
  RlBase = 2
  RlCap = 4
  StoreCooldown <- MCStoreCooldown
  MaxSeq = 4
  Request = {r1, r2}
  HasKeys <- MCOne
  RetryMax = 2
  MaxAttempts = 2
  LeaseLimit = 2
  OcrLimit = 1
  Managed <- MCOne
  Direct <- MCOne
  Probed <- MCOne
SPECIFICATION Spec
PROPERTIES
  JoinersStartClean
