CONSTANTS
  u1 = u1
  Users <- OneUser
  PipeSize = 1
  Events <- OnlyExit
  NoCall = NoCall
SPECIFICATION Spec
PROPERTIES
  WaitingCallsReturn
CHECK_DEADLOCK FALSE
