CONSTANTS
  u1 = u1
  Users <- NoUser
  PipeSize = 1
  Events <- AllEvents
  NoCall = NoCall
SPECIFICATION Spec
PROPERTIES
  DisconnectReturns
  DeathIsNoticed
  AgentEnds
CHECK_DEADLOCK FALSE
