CONSTANTS
  t1 = t1
  t2 = t2
  s1 = s1
  s2 = s2
  Tasks <- TwoTasks
  Hosts = {"h"}
  States <- TwoStates
  Kinds = {"call"}
  Parallel = 1
  NProc = 2
  MayDie = FALSE
  NoState = NoState
  NoTask = NoTask
  Exit = Exit
SPECIFICATION Spec
INVARIANT ParallelIsTheMaximum
CHECK_DEADLOCK FALSE
