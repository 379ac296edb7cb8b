CONSTANTS
  p1 = p1
  p2 = p2
  Threads = {th1, th2}
  Projects = {p1, p2}
  Names <- Strings
  FontKeys = {"serif", "sans"}
  FontFiles = {"serif.ttf"}
  Malformed = {}
  Texts <- Cells
  Fold <- Lower
  Norm <- Normal
  Setups <- AllSetups
  Queries <- KnownFactors
  TooLong = {"GOLD"}
  Versions = {v1, v2}
SPECIFICATION Spec
CHECK_DEADLOCK FALSE
INVARIANTS
  TypeOK
  PageShowsResult
  DrawnInOwnFont
  NothingMissing
  LookupIsLenient
PROPERTIES
  FacesStand
  EveryRenderEnds
