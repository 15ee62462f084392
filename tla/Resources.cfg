CONSTANTS
  Unset = Unset
  NoResource = NoResource
  Packages = {"a", "b"}
  Groups = {"g", "h"}
  Gids <- GidNumbers
  Users = {"u"}
  Homes = {"home", "other"}
  DefaultHome = "home"
  Marks = {"x", "y"}
  Paths = {"f", "g"}
  Data = {"x", "y"}
  Modes = {"default", "given"}
  DefaultMode = "default"
  Check = TRUE
  DeleteUnreachable = TRUE
  MayFail = TRUE
  Programs <- AllPrograms
  Given <- AllGiven
  MaxOps <- AllOps
SPECIFICATION Spec
INVARIANTS
  UpApplies
  DestroyLeavesNothing
  RefreshSeesDrift
  RefreshStampsDrift
PROPERTIES
  LookingIsFree
CHECK_DEADLOCK FALSE
