CONSTANTS
  t1 = t1
  t2 = t2
  s1 = s1
  s2 = s2
  Tasks <- TwoTasks
  Hosts = {"h"}
  States <- TwoStates
  Kinds = {"ansible"}
  Parallel <- Unlimited
  NProc = 2
  MayDie = FALSE
  NoState = NoState
  NoTask = NoTask
  Exit = Exit
SPECIFICATION Spec
PROPERTIES
  JobsEnd
  ExitEnds
CHECK_DEADLOCK FALSE
