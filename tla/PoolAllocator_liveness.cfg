CONSTANTS
  Clients = {a}
  Size = 2
  MinRunning = 1
  None = None
  MaxAllocs = 1
  Upsets = {"death", "failure"}
  MaxUpsets = 1
  Switches = FALSE
SPECIFICATION FairSpec
PROPERTIES SessionsEnd MinimumReturns DeadIsRestarted
CHECK_DEADLOCK FALSE
