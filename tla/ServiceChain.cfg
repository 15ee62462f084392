CONSTANTS
  Lines = {"x", "y"}
  NoFile = NoFile
  NoLine = NoLine
  Unset = Unset
  NoProgram = NoProgram
  Check = TRUE
  DeleteUnreachable = TRUE
  Programs <- Postgresql
  LineCalls = {"ok", "unreachable"}
  ServiceCalls = {"ok", "half", "lost", "unreachable"}
  MaxOps = 3
SPECIFICATION Spec
INVARIANTS
  UpSetsTheLine
  RestartOnChange
  PreviewBeforeAnything
  DestroyStops
PROPERTIES
  SecondUpIsQuiet
CHECK_DEADLOCK FALSE
