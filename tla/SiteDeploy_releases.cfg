CONSTANTS
  MaxRun = 3
  Kept = 2
  Overlap = FALSE
  MaxRollbacks = 1
  MaxUpsets = 2
SPECIFICATION FairSpec
INVARIANTS SiteIsWhole RestsOnTested
PROPERTIES RetentionKept NewestIsDeployed
CHECK_DEADLOCK FALSE
