CONSTANTS
  Clients = {a, b}
  Size = 2
  MinRunning = 1
  None = None
  MaxAllocs = 2
  Upsets = {}
  MaxUpsets = 0
  Switches = FALSE
SPECIFICATION Spec
PROPERTIES ActiveNeverKicked
CHECK_DEADLOCK FALSE
