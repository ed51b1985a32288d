CONSTANTS
  Account <- MCAccount
  None = None
  FailCooldown = 1
  RlBase = 1
  RlCap = 1
  StoreCooldown <- MCStoreCooldown
  MaxSeq = 5
  Request = {r1, r2}
  HasKeys <- MCHasKeys
  RetryMax = 2
  MaxAttempts = 2
  LeaseLimit = 1
  OcrLimit = 1
  Managed <- MCNobody
  Direct <- MCDirect
  Probed <- MCProbed
SPECIFICATION Spec
CONSTRAINT OneStrike
SYMMETRY MCSymmetry
INVARIANTS
  ChatTypeOK
  PermitsConserved
  EachAttemptElsewhere
PROPERTIES
  GivesUpOnlyWhenNobodyReady
