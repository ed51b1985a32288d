SPECIFICATION Spec
CONSTANTS
  Email = {e1}
  Request = {r1, r2}
  None = None
  MaxAttempts = 2
  MaxToken = 2
  MaxGen = 2
  MaxFaults = 1
SYMMETRY MCSymmetry
INVARIANTS
  TypeOK
  OneUserEach
  LeasedIsHeld
  TokenNeverLost
