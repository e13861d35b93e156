CONSTANTS
  Keys = {k1}
  MaxId = 3
  Shipped = {}
  Bundled = {}
  Cleaning = TRUE
  SaveFails = TRUE
  MaxCrashes = 2
  NoKey = NoKey
  NoId = NoId
SPECIFICATION Spec
INVARIANTS NoBuildLost DuplicateOnlyBesideFailed
PROPERTIES RunningBuildSpared
CHECK_DEADLOCK FALSE
