CONSTANTS
  t1 = t1
  t2 = t2
  s1 = s1
  s2 = s2
  Tasks <- TwoTasks
  Hosts = {"h"}
  States <- TwoStates
  Kinds = {"probe", "call", "stage"}
  Parallel = 0
  NProc = 2
  MayDie = TRUE
  NoState = NoState
  NoTask = NoTask
  Exit = Exit
SPECIFICATION Spec
SYMMETRY Symmetry
INVARIANTS
  TypeOK
  OneLiveAgent
  OneStatePerHost
  CallFindsAgent
CHECK_DEADLOCK FALSE
