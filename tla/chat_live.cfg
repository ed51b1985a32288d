CONSTANTS
  Account <- MCOne
  None = None
  FailCooldown = 1
  RlBase = 1
  RlCap = 1
  StoreCooldown <- MCStoreCooldown
  MaxSeq = 4
  Request = {r1, r2}
  HasKeys <- MCOne
  RetryMax = 2
  MaxAttempts = 2
  LeaseLimit = 1
  OcrLimit = 1
  Managed <- MCOne
  Direct <- MCNobody
  Probed <- MCOne
SPECIFICATION FairSpec
PROPERTIES
  RequestsEnd
  PoolFollowsStore
