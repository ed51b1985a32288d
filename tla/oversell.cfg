CONSTANTS
  Client = {c1, c2}
  Uid = {u1, u2, u3, u4}
  NoUid = NoUid
  Limit = 1
  Duration = 2
  MaxAge = 1
  MaxFaults = 0
SPECIFICATION Spec
INVARIANTS
  NoOversell
