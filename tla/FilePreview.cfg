CONSTANTS
  Unset = Unset
  NoResource = NoResource
  Packages = {"a", "b"}
  Groups = {"g", "h"}
  Gids <- GidNumbers
  Users = {"u"}
  Homes = {"home", "other"}
  DefaultHome = "home"
  Marks = {"x", "y"}
  Paths = {"f", "g"}
  Data = {"x", "y"}
  Modes = {"default", "given"}
  DefaultMode = "default"
  Check = TRUE
  DeleteUnreachable = TRUE
  MayFail = FALSE
  Programs <- Tarball
  Given <- TarballGiven
  MaxOps <- TarballOps
SPECIFICATION Spec
PROPERTIES
  LookingIsFree
CHECK_DEADLOCK FALSE
