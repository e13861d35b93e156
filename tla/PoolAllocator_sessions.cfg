CONSTANTS
  Clients = {a, b}
  Size = 2
  MinRunning = 1
  None = None
  MaxAllocs = 2
  Upsets = {"overrun", "asked", "reboot"}
  MaxUpsets = 1
  Switches = TRUE
SPECIFICATION Spec
SYMMETRY Interchangeable
INVARIANTS OneSessionPerInstance
CHECK_DEADLOCK FALSE
