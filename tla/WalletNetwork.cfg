CONSTANTS
  Fetches = {f1, f2, f3}
  Slots = 1
  MaxSwitches = 2
  None = None
  f1 = f1
  f2 = f2
  f3 = f3
SPECIFICATION Spec
INVARIANTS OneReadPerPath ConnectedIsVerified
PROPERTIES ClosedIsQuiet ServedInOrder RequestsEnd ConnectingEnds
CHECK_DEADLOCK FALSE
