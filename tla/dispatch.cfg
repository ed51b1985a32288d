SPECIFICATION Spec
CONSTANTS
  Task = {t1, t2}
  Email = {e1, e2}
  Binding = {b1}
  BindingOf <- MCBindingOf
  SsSlot = {s1}
  InflightMax = 1
  BindingMax = 1
  BindingCeiling = 0
  RetryCap = 2
  MaxCrash = 2
SYMMETRY MCSymmetry
INVARIANTS
  TypeOK
  BindingsAccounted
  InflightAccounted
  NoStuckSlot
  SharedOnlyAfterExpiry
