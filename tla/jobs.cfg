SPECIFICATION Spec
CONSTANTS
  Job = {j1, j2}
  Slot = {s1, s2}
  Worker = {w1}
  Stream = {x1}
  NoJob = NoJob
  Parallel = 1
INVARIANTS
  TypeOK
  NothingForgotten
  DoneIsComplete
  ToldDoneIsDone
PROPERTIES
  EndedStaysEnded
  ShownMovesOn
  BoardSpec
  JobsEnd
