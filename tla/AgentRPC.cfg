CONSTANTS
  u1 = u1
  Users <- OneUser
  PipeSize = 1
  Events <- AllEvents
  NoCall = NoCall
SPECIFICATION SafetySpec
INVARIANTS
  TypeOK
  NoAnswerLost
  OkIsOwnResult
PROPERTIES
  WaitLeavesNoneBehind
  ImplementsRemoteCalls
CHECK_DEADLOCK FALSE
