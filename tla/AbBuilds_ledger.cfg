CONSTANTS
  Keys = {k1, k2, k3, k4}
  MaxId = 3
  Shipped = {k2}
  Bundled = {k3}
  Cleaning = FALSE
  SaveFails = FALSE
  MaxCrashes = 2
  NoKey = NoKey
  NoId = NoId
SPECIFICATION FairSpec
PROPERTIES ReadyPointsToArtifact ImplementsLedger BuildsEnd
CHECK_DEADLOCK FALSE
